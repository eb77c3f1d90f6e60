------------------------------ MODULE Dispatch ------------------------------
(***************************************************************************)
(* Delivery of paid orders: batches, the one assignment row each batch may *)
(* have, the riders, vendors, fleet managers and administrators who act on *)
(* them, and the hand-off code of an order.                                *)
(*                                                                         *)
(* A SQL function or a transaction is one action.  A handler that sends    *)
(* several statements outside a transaction is several actions: "request"  *)
(* holds where a rider's request about an order stands, "pickup" a pickup  *)
(* request, "marking" an administrator's half-done assignment.             *)
(* Every batch is delivered by riders unless an administrator gives it to  *)
(* its vendor; riders are verified and active throughout.                  *)
(***************************************************************************)
EXTENDS Integers, FiniteSets, FiniteSetsExt

CONSTANTS
    Orders, Batches, Riders, Codes,
    BatchOf,      \* the logical batch (vendor, slot, zone...) of each order
    Fleet,        \* the riders of the fleet partner that may dispatch
    Vendor,       \* the vendor as a fulfiller
    Nobody, NoCode,
    Shares,       \* bound: the rider shares a delivery may resolve to
    Targets,      \* bound: the statuses an administrator asks for
    Overlapping   \* may two order creations overlap in time?

ASSUME BatchAssumption == BatchOf \in [Orders -> Batches]
ASSUME RiderAssumption ==
    /\ Fleet \subseteq Riders
    /\ Vendor \notin Riders
    /\ Nobody \notin Riders \cup {Vendor}
ASSUME CodeAssumption == NoCode \notin Codes
ASSUME ShareAssumption == Shares \subseteq Nat \ {0}

VARIABLES
    status,      \* orders.order_status; "creating": inserted, not committed
    code,        \* orders.delivery_code
    share,       \* orders.rider_delivery_share_kobo, 0 while null
    joined,      \* the orders that have their delivery_batch_orders row
    batch,       \* delivery_batches.status, "none" before the row exists
    earnings,    \* delivery_batches.delivery_earnings_kobo
    assignment,  \* delivery_assignments.status, "none" before the row exists
    fulfiller,   \* delivery_assignments.rider_id or vendor_id
    events,      \* orders whose order.ready event the worker may still handle
    request,     \* the rider request in flight about each order
    pickup,      \* the rider whose pickup request for the batch is in flight
    marking,     \* batches assignBatch upserted the row of, status to follow
    late,        \* history: joined a batch already completed
    declined,    \* history: batches whose assignment stands declined
    handed       \* history: orders a rider's request has delivered

order == <<status, code, share>>
delivery == <<joined, batch, earnings, assignment, fulfiller>>
flight == <<request, pickup, marking>>
history == <<late, declined, handed>>
vars == <<order, delivery, events, flight, history>>

Statuses == {"none", "creating", "pending_payment", "paid", "ready",
             "out_for_delivery", "delivered", "administratively_completed",
             "cancelled", "expired", "refunded"}
ASSUME TargetsAssumption == Targets \subseteq Statuses

\* The statuses creation compares codes within, and completion counts as done.
Active == {"pending_payment", "paid", "ready", "out_for_delivery"}
Done == {"delivered", "administratively_completed", "refunded"}

Idle == [at |-> "idle", rider |-> Nobody, code |-> NoCode]
Requests == [at: {"idle", "out", "code", "write", "deliver",
                  "assignment", "batch"},
             rider: Riders \cup {Nobody}, code: Codes \cup {NoCode}]

\* Types, and the table's check that an assignment row has one fulfiller.
TypeOK ==
    /\ status \in [Orders -> Statuses]
    /\ code \in [Orders -> Codes \cup {NoCode}]
    /\ share \in [Orders -> Nat]
    /\ joined \in SUBSET Orders
    /\ batch \in [Batches -> {"none", "open", "closed", "assigned",
                              "in_progress", "completed"}]
    /\ earnings \in [Batches -> Nat]
    /\ assignment \in [Batches -> {"none", "assigned", "accepted",
                                   "picked_up", "completed", "cancelled"}]
    /\ fulfiller \in [Batches -> Riders \cup {Vendor, Nobody}]
    /\ \A b \in Batches : fulfiller[b] = Nobody <=> assignment[b] = "none"
    /\ events \in SUBSET Orders
    /\ request \in [Orders -> Requests]
    /\ pickup \in [Batches -> Riders \cup {Nobody}]
    /\ marking \in SUBSET Batches
    /\ late \in SUBSET Orders
    /\ declined \in SUBSET Batches
    /\ handed \in SUBSET Orders

Init ==
    /\ status = [o \in Orders |-> "none"]
    /\ code = [o \in Orders |-> NoCode]
    /\ share = [o \in Orders |-> 0]
    /\ joined = {}
    /\ batch = [b \in Batches |-> "none"]
    /\ earnings = [b \in Batches |-> 0]
    /\ assignment = [b \in Batches |-> "none"]
    /\ fulfiller = [b \in Batches |-> Nobody]
    /\ events = {}
    /\ request = [o \in Orders |-> Idle]
    /\ pickup = [b \in Batches |-> Nobody]
    /\ marking = {}
    /\ late = {}
    /\ declined = {}
    /\ handed = {}

-----------------------------------------------------------------------------
(* Creating and paying an order.                                           *)

\* Mutant: orders not yet cooked are left out of the comparison.
TakenOnTheRoad(c) ==
    \E o \in Orders : status[o] = "out_for_delivery" /\ code[o] = c

\* Is the code on a committed active order?
Taken(c) == \E o \in Orders : status[o] \in Active /\ code[o] = c

\* ensureOrderDeliveryMetadata inside the creating transaction: the NOT EXISTS
\* of its UPDATE sees committed orders only.
BeginOrder(o) ==
    /\ status[o] = "none"
    /\ Overlapping \/ \A p \in Orders : status[p] # "creating"
    /\ \E c \in Codes :
          /\ ~Taken(c)
          /\ code' = [code EXCEPT ![o] = c]
    /\ status' = [status EXCEPT ![o] = "creating"]
    /\ UNCHANGED <<share, delivery, events, flight, history>>

CommitOrder(o) ==
    /\ status[o] = "creating"
    /\ status' = [status EXCEPT ![o] = "pending_payment"]
    /\ UNCHANGED <<code, share, delivery, events, flight, history>>

Members(b, set) == {o \in set : BatchOf[o] = b}

\* add_paid_order_to_batch, called as the order turns paid: joins the batch
\* whatever its status, opening it if there is none.
PayOrder(o) ==
    LET b == BatchOf[o]
    IN  /\ status[o] = "pending_payment"
        /\ status' = [status EXCEPT ![o] = "paid"]
        /\ joined' = joined \cup {o}
        /\ batch' = [batch EXCEPT ![b] = IF @ = "none" THEN "open" ELSE @]
        /\ earnings' = [earnings EXCEPT ![b] =
              MapThenSumSet(LAMBDA p : share[p], Members(b, joined'))]
        /\ late' = IF "completed" \in {batch[b], assignment[b]}
                   THEN late \cup {o} ELSE late
        /\ UNCHANGED <<code, share, assignment, fulfiller, events, flight,
                       declined, handed>>

-----------------------------------------------------------------------------
(* transition_order_status.                                                *)

MayBecome(from, to) ==
    \/ from = "pending_payment" /\ to \in {"paid", "expired", "cancelled"}
    \/ from = "paid" /\ to \in {"ready", "cancelled", "refunded"}
    \/ from = "ready" /\ to \in {"out_for_delivery", "cancelled"}
    \/ from = "out_for_delivery" /\ to \in {"delivered", "cancelled"}
    \/ from = "delivered" /\ to \in {"administratively_completed", "refunded"}
    \/ from = "administratively_completed" /\ to = "refunded"

\* Mutant: the function as re-created without resolving the shares.
TransitionUnresolved(o, to) ==
    IF status[o] = to THEN UNCHANGED <<status, share, events>>
    ELSE /\ MayBecome(status[o], to)
         /\ status' = [status EXCEPT ![o] = to]
         /\ events' = IF to = "ready" THEN events \cup {o} ELSE events
         /\ UNCHANGED share

\* Mutant: a repeated delivered request resolves the shares again.
TransitionRepeats(o, to) ==
    /\ status[o] = to \/ MayBecome(status[o], to)
    /\ status' = [status EXCEPT ![o] = to]
    /\ IF to = "delivered"
       THEN \E s \in Shares : share' = [share EXCEPT ![o] = s]
       ELSE UNCHANGED share
    /\ events' = IF to = "ready" THEN events \cup {o} ELSE events

\* The transition of one order: status, resolved share, order.ready event.
\* A status the order already has is accepted and changes nothing.
Transition(o, to) ==
    IF status[o] = to THEN UNCHANGED <<status, share, events>>
    ELSE /\ MayBecome(status[o], to)
         /\ status' = [status EXCEPT ![o] = to]
         /\ IF to = "delivered"
            THEN \E s \in Shares : share' = [share EXCEPT ![o] = s]
            ELSE UNCHANGED share
         /\ events' = IF to = "ready" THEN events \cup {o} ELSE events

Accepts(o, to) == status[o] = to \/ MayBecome(status[o], to)

\* readyOrder: the vendor sees the order once it has been paid.
VendorReady(o) ==
    /\ status[o] \notin {"none", "creating", "pending_payment"}
    /\ Transition(o, "ready")
    /\ UNCHANGED <<code, delivery, flight, history>>

AdminTransition(o) ==
    /\ status[o] \notin {"none", "creating"}
    /\ \E to \in Targets : Transition(o, to)
    /\ UNCHANGED <<code, delivery, flight, history>>

-----------------------------------------------------------------------------
(* Assigning a batch.                                                      *)

Assign(b, who) ==
    /\ assignment' = [assignment EXCEPT ![b] = "assigned"]
    /\ fulfiller' = [fulfiller EXCEPT ![b] = who]
    /\ declined' = declined \ {b}

\* The worker handles an order.ready event: assign_available_rider_to_batch,
\* once; with no rider available the event is still completed.  An event
\* whose completion fails is handled again.
AutoDispatch(o) ==
    LET b == BatchOf[o]
    IN  /\ o \in events
        /\ events' \in {events, events \ {o}}
        /\ \/ /\ o \in joined
              /\ assignment[b] = "none"
              /\ \E r \in Riders : Assign(b, r)
           \/ UNCHANGED <<assignment, fulfiller, declined>>
        /\ UNCHANGED <<order, joined, batch, earnings, flight, late, handed>>

\* Mutant: the partner's console looks at the batch only.
FleetSeesBatchOnly(b) == batch[b] \in {"open", "closed", "assigned"}

\* fleet_assign_batch's checks under its row locks.
FleetMayAssign(b) ==
    /\ batch[b] \in {"open", "closed", "assigned"}
    /\ \/ assignment[b] \in {"none", "cancelled"}
       \/ assignment[b] = "assigned" /\ fulfiller[b] \in Fleet

FleetAssign(b) ==
    /\ FleetMayAssign(b)
    /\ \E r \in Fleet : Assign(b, r)
    /\ batch' = [batch EXCEPT ![b] = "assigned"]
    /\ UNCHANGED <<order, joined, earnings, events, flight, late, handed>>

\* assignBatch: the upsert, then the batch's status, in two statements.
AdminAssign(b) ==
    /\ batch[b] # "none"
    /\ b \notin marking
    /\ \E who \in Riders \cup {Vendor} : Assign(b, who)
    /\ marking' = marking \cup {b}
    /\ UNCHANGED <<order, joined, batch, earnings, events, request, pickup,
                   late, handed>>

AdminMarkAssigned(b) ==
    /\ b \in marking
    /\ marking' = marking \ {b}
    /\ batch' = [batch EXCEPT ![b] = "assigned"]
    /\ UNCHANGED <<order, joined, earnings, assignment, fulfiller, events,
                   request, pickup, history>>

AdminCancelAssignment(b) ==
    /\ assignment[b] # "none"
    /\ assignment' = [assignment EXCEPT ![b] = "cancelled"]
    /\ UNCHANGED <<order, joined, batch, earnings, fulfiller, events, flight,
                   history>>

\* close_batches_at_cutoff, for one of its batches.
CloseAtCutoff(b) ==
    /\ batch[b] = "open"
    /\ batch' = [batch EXCEPT ![b] = "closed"]
    /\ UNCHANGED <<order, joined, earnings, assignment, fulfiller, events,
                   flight, history>>

AdminClose(b) ==
    /\ batch[b] # "none"
    /\ batch' = [batch EXCEPT ![b] = "closed"]
    /\ UNCHANGED <<order, joined, earnings, assignment, fulfiller, events,
                   flight, history>>

-----------------------------------------------------------------------------
(* The rider and the assignment.                                           *)

Accept(b) ==
    /\ assignment[b] = "assigned"
    /\ fulfiller[b] \in Riders
    /\ assignment' = [assignment EXCEPT ![b] = "accepted"]
    /\ UNCHANGED <<order, joined, batch, earnings, fulfiller, events, flight,
                   history>>

\* declineAssignment: one transaction.
Decline(b) ==
    /\ assignment[b] \in {"assigned", "accepted"}
    /\ fulfiller[b] \in Riders
    /\ assignment' = [assignment EXCEPT ![b] = "cancelled"]
    /\ batch' = [batch EXCEPT ![b] = IF @ = "assigned" THEN "closed" ELSE @]
    /\ declined' = declined \cup {b}
    /\ UNCHANGED <<order, joined, earnings, fulfiller, events, flight, late,
                   handed>>

\* markAssignmentPickedUp reads the assignment first...
AskPickup(b) ==
    /\ pickup[b] = Nobody
    /\ fulfiller[b] \in Riders
    /\ pickup' = [pickup EXCEPT ![b] = fulfiller[b]]
    /\ UNCHANGED <<order, delivery, events, request, marking, history>>

\* ...then updates assignment and batch, each under a condition of its own.
PickUp(b) ==
    /\ pickup[b] # Nobody
    /\ pickup' = [pickup EXCEPT ![b] = Nobody]
    /\ assignment' = [assignment EXCEPT ![b] =
          IF fulfiller[b] = pickup[b] /\ @ \in {"assigned", "accepted"}
          THEN "picked_up" ELSE @]
    /\ batch' = [batch EXCEPT ![b] =
          IF @ \in {"assigned", "closed"} THEN "in_progress" ELSE @]
    /\ UNCHANGED <<order, joined, earnings, fulfiller, events, request,
                   marking, history>>

\* pickupBatch: batch, assignment and every order in one transaction, which
\* an order that is neither ready nor out rolls back.
VendorPickup(b) ==
    LET batched == Members(b, joined)
    IN  /\ batch[b] # "none"
        /\ \A o \in batched : Accepts(o, "out_for_delivery")
        /\ batch' = [batch EXCEPT ![b] = "in_progress"]
        /\ assignment' = [assignment EXCEPT ![b] =
              IF @ \in {"assigned", "accepted"} THEN "picked_up" ELSE @]
        /\ status' = [o \in Orders |-> IF o \in batched
                                       THEN "out_for_delivery"
                                       ELSE status[o]]
        /\ declined' = declined \ {b}
        /\ UNCHANGED <<code, share, joined, earnings, fulfiller, events,
                       flight, late, handed>>

-----------------------------------------------------------------------------
(* The rider and one order.                                                *)

\* findAssignedOrderById: no condition on the assignment's status.
Holds(r, o) == o \in joined /\ fulfiller[BatchOf[o]] = r

OutWith(r) == {o \in Orders : Holds(r, o) /\ status[o] = "out_for_delivery"}

\* Another of the rider's orders on the road has the code.
Clashes(r, o, c) == \E p \in OutWith(r) : p # o /\ code[p] = c

\* findActiveOrderIdByDeliveryCode.
Matches(r, c) == {o \in OutWith(r) : code[o] = c}

Ask(r, o, step) ==
    /\ request[o].at = "idle"
    /\ Holds(r, o)
    /\ request' = [request EXCEPT ![o] = [at |-> step, rider |-> r,
                                         code |-> NoCode]]
    /\ UNCHANGED <<order, delivery, events, pickup, marking, history>>

\* markOrderOutForDelivery and markOrderDelivered find the order first.
AskOut(o) == \E r \in Riders : Ask(r, o, "out")

AskDelivered(o) == \E r \in Riders : Ask(r, o, "deliver")

\* confirmDeliveryByCode goes on only when the code names one order.
ConfirmByCode(o) ==
    \E r \in Riders : \E c \in Codes :
        Matches(r, c) = {o} /\ Ask(r, o, "deliver")

Step(o, step) == request' = [request EXCEPT ![o].at = step]

Finish(o) == request' = [request EXCEPT ![o] = Idle]

\* The transition to out_for_delivery; a refused one ends the request.
SendOut(o) ==
    /\ request[o].at = "out"
    /\ IF Accepts(o, "out_for_delivery")
       THEN Transition(o, "out_for_delivery") /\ Step(o, "code")
       ELSE UNCHANGED <<status, share, events>> /\ Finish(o)
    /\ UNCHANGED <<code, delivery, pickup, marking, history>>

KeepsCode(o) ==
    /\ status[o] = "out_for_delivery"
    /\ ~Clashes(request[o].rider, o, code[o])

\* assignDeliveryCode: a code that clashes with nothing is kept...
KeepCode(o) ==
    /\ request[o].at = "code"
    /\ KeepsCode(o)
    /\ Finish(o)
    /\ UNCHANGED <<order, delivery, events, pickup, marking, history>>

\* ...else a random one is tried, compared with what was committed when its
\* UPDATE began...
PickCode(o) ==
    /\ request[o].at = "code"
    /\ ~KeepsCode(o)
    /\ \E c \in Codes :
          /\ ~Clashes(request[o].rider, o, c)
          /\ request' = [request EXCEPT ![o].at = "write", ![o].code = c]
    /\ UNCHANGED <<order, delivery, events, pickup, marking, history>>

\* ...and written if the order is still on the road, else given up.
WriteCode(o) ==
    /\ request[o].at = "write"
    /\ code' = [code EXCEPT ![o] = IF status[o] = "out_for_delivery"
                                   THEN request[o].code ELSE @]
    /\ Finish(o)
    /\ UNCHANGED <<status, share, delivery, events, pickup, marking, history>>

\* Ten tries that all clash, or an order no longer on the road.
GiveUpCode(o) ==
    /\ request[o].at = "code"
    /\ ~KeepsCode(o)
    /\ Finish(o)
    /\ UNCHANGED <<order, delivery, events, pickup, marking, history>>

\* The transition to delivered, which commits before completion is looked at.
Deliver(o) ==
    /\ request[o].at = "deliver"
    /\ IF Accepts(o, "delivered")
       THEN /\ Transition(o, "delivered")
            /\ Step(o, "assignment")
            /\ handed' = handed \cup {o}
       ELSE UNCHANGED <<status, share, events, handed>> /\ Finish(o)
    /\ UNCHANGED <<code, delivery, pickup, marking, late, declined>>

\* Mutants: completion looks for orders still on the road, or at every order
\* placed for the batch instead of those paid into it.
NoneOut(b) ==
    \A o \in Members(b, joined) : status[o] # "out_for_delivery"
AllPlaced(b) ==
    \A o \in Members(b, Orders) : status[o] \in Done

\* Every order of the batch is delivered, completed or refunded.
AllDone(b) == \A o \in Members(b, joined) : status[o] \in Done

\* completeAssignmentIfAllOrdersDelivered, its two statements: the
\* assignment, if it is still the rider's, whatever its status...
CompleteAssignment(o) ==
    LET b == BatchOf[o]
    IN  /\ request[o].at = "assignment"
        /\ assignment' = [assignment EXCEPT ![b] =
              IF fulfiller[b] = request[o].rider /\ AllDone(b)
              THEN "completed" ELSE @]
        /\ Step(o, "batch")
        /\ UNCHANGED <<order, joined, batch, earnings, fulfiller, events,
                       pickup, marking, history>>

\* ...and the batch.
CompleteBatch(o) ==
    LET b == BatchOf[o]
    IN  /\ request[o].at = "batch"
        /\ batch' = [batch EXCEPT ![b] = IF AllDone(b) THEN "completed" ELSE @]
        /\ Finish(o)
        /\ UNCHANGED <<order, joined, earnings, assignment, fulfiller, events,
                       pickup, marking, history>>

-----------------------------------------------------------------------------
Checkout(o) == BeginOrder(o) \/ CommitOrder(o) \/ PayOrder(o)

RiderOrder(o) ==
    \/ AskOut(o) \/ AskDelivered(o) \/ ConfirmByCode(o)
    \/ SendOut(o) \/ KeepCode(o) \/ PickCode(o) \/ WriteCode(o)
    \/ GiveUpCode(o) \/ Deliver(o) \/ CompleteAssignment(o)
    \/ CompleteBatch(o)

OnBatch(b) ==
    \/ FleetAssign(b) \/ AdminAssign(b) \/ AdminMarkAssigned(b)
    \/ AdminCancelAssignment(b) \/ CloseAtCutoff(b) \/ AdminClose(b)
    \/ Accept(b) \/ Decline(b) \/ AskPickup(b) \/ PickUp(b)
    \/ VendorPickup(b)

Next ==
    \/ \E o \in Orders : \/ Checkout(o) \/ VendorReady(o) \/ AdminTransition(o)
                        \/ AutoDispatch(o) \/ RiderOrder(o)
    \/ \E b \in Batches : OnBatch(b)

\* A request the server has begun runs to its end: nothing in it waits for
\* anyone.  Riders, customers, vendors and administrators need never act.
Fairness ==
    \A o \in Orders : /\ WF_vars(Deliver(o))
                     /\ WF_vars(CompleteAssignment(o))
                     /\ WF_vars(CompleteBatch(o))

Spec == Init /\ [][Next]_vars

FairSpec == Spec /\ Fairness

-----------------------------------------------------------------------------
(* What delivery promises.                                                 *)

\* A batch, or its assignment, is completed only when every order it holds
\* has reached the customer - but for orders that joined after completion -
\* whatever requests, reassignments and cancellations interleave with the
\* two completing statements of completeAssignmentIfAllOrdersDelivered.
CompletedIsDone ==
    \A b \in Batches :
        "completed" \in {batch[b], assignment[b]} =>
            \A o \in Members(b, joined) \ late : status[o] \in Done

\* The delivery fee of an order is split once, at its one delivery: retried
\* and concurrent delivered requests do not resolve it again.
SharesResolvedOnce ==
    [][\A o \in Orders : share[o] # 0 => share'[o] = share[o]]_vars

\* An order that was ever delivered has its rider share, and no other has.
DeliveredIsShared ==
    \A o \in Orders :
        /\ status[o] \in {"delivered", "administratively_completed"} =>
              share[o] # 0
        /\ share[o] # 0 => status[o] \in Done

\* A fleet manager never takes a batch from a rider who has accepted it or
\* picked it up: the rider of such an assignment changes only in an
\* administrator's assignBatch.
RiderKeepsBatch ==
    [][\A b \in Batches :
        /\ assignment[b] \in {"accepted", "picked_up", "completed"}
        /\ assignment'[b] = "assigned"
        => b \in marking' \ marking]_vars

\* When riders have handed over every order of a batch, the batch is
\* completed, although each request looks at the batch on its own and an
\* administrator may refund an order meanwhile; unless another order joins.
HandedOver(b) == Members(b, joined) # {} /\ Members(b, joined) \subseteq handed

Finishing(b) ==
    \E o \in Members(b, joined) : request[o].at \in {"assignment", "batch"}

BatchCompletes ==
    \A b \in Batches :
        HandedOver(b) /\ Finishing(b) ~> batch[b] = "completed" \/ ~HandedOver(b)

-----------------------------------------------------------------------------
(* What comments in the code say and the code does not keep.               *)

\* A hand-off code names at most one of the orders a rider has on the road.
CodesUnambiguous ==
    \A r \in Riders : \A c \in Codes : Cardinality(Matches(r, c)) <= 1

\* "The assignment is cancelled, the batch reopens (closed) for admin
\* re-assignment": while a decline stands, the rider's own pickup request does
\* not set the batch in progress (a vendor's pickup ends the decline).
DeclineReopens ==
    [][\A b \in declined \cap declined' :
        batch[b] # "in_progress" => batch'[b] # "in_progress"]_vars

\* "Associates each paid order with exactly one active delivery batch".
PaidJoinsActiveBatch ==
    \A o \in joined : status[o] = "paid" => batch[BatchOf[o]] # "completed"

\* "earnings are now the sum of the batch's resolved rider shares".
EarningsAreShares ==
    \A b \in Batches :
        batch[b] = "completed" =>
            earnings[b] = MapThenSumSet(LAMBDA o : share[o],
                                        Members(b, joined))
=============================================================================
