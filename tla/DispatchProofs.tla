--------------------------- MODULE DispatchProofs ---------------------------
(***************************************************************************)
(* Proofs about Dispatch, for any orders, batches, riders and shares.      *)
(***************************************************************************)
EXTENDS Dispatch, FiniteSetTheorems, TLAPS

\* The part of TypeOK the arguments below use.
Rows ==
    /\ status \in [Orders -> Statuses]
    /\ share \in [Orders -> Nat]
    /\ joined \in SUBSET Orders
    /\ batch \in [Batches -> {"none", "open", "closed", "assigned",
                              "in_progress", "completed"}]
    /\ assignment \in [Batches -> {"none", "assigned", "accepted",
                                   "picked_up", "completed", "cancelled"}]
    /\ late \in SUBSET Orders

\* A transition keeps types, keeps done orders done, and keeps the agreement
\* of status and share.
LEMMA TransitionKeeps ==
    ASSUME NEW o \in Orders, NEW to \in Statuses, Rows, DeliveredIsShared,
           Transition(o, to)
    PROVE  /\ status' \in [Orders -> Statuses]
           /\ share' \in [Orders -> Nat]
           /\ \A p \in Orders : status[p] \in Done => status'[p] \in Done
           /\ DeliveredIsShared'
           /\ \A p \in Orders : share[p] # 0 => share'[p] = share[p]
<1>1. CASE status[o] = to
  BY <1>1 DEF Transition, Rows, DeliveredIsShared
<1>2. CASE status[o] # to /\ to = "delivered"
  <2>1. PICK s \in Shares : share' = [share EXCEPT ![o] = s]
    BY <1>2 DEF Transition
  <2>2. status' = [status EXCEPT ![o] = "delivered"]
        /\ status[o] = "out_for_delivery"
    BY <1>2 DEF Transition, MayBecome
  <2>3. s \in Nat \ {0}
    BY ShareAssumption
  <2> QED
    BY <2>1, <2>2, <2>3 DEF Rows, Done, Statuses, DeliveredIsShared
<1>3. CASE status[o] # to /\ to # "delivered"
  <2>1. /\ status' = [status EXCEPT ![o] = to]
        /\ share' = share
        /\ MayBecome(status[o], to)
    BY <1>3 DEF Transition
  <2> QED
    BY <1>3, <2>1 DEF Rows, Done, Statuses, DeliveredIsShared, MayBecome
<1> QED
  BY <1>1, <1>2, <1>3

\* How CompletedIsDone survives a step that adds no order to a batch: done
\* orders stay done, and what becomes completed holds done orders only.
LEMMA CompletionKept ==
    ASSUME Rows, CompletedIsDone, joined' = joined, late' = late,
           \A p \in Orders : status[p] \in Done => status'[p] \in Done,
           \A b \in Batches :
              "completed" \in {batch'[b], assignment'[b]} =>
                 \/ "completed" \in {batch[b], assignment[b]}
                 \/ \A p \in Members(b, joined) : status'[p] \in Done
    PROVE  CompletedIsDone'
<1> SUFFICES ASSUME NEW b \in Batches,
                    "completed" \in {batch'[b], assignment'[b]},
                    NEW p \in Members(b, joined) \ late
             PROVE  status'[p] \in Done
  BY DEF CompletedIsDone, Members
<1>1. p \in Orders
  BY DEF Rows, Members
<1> QED
  BY <1>1 DEF CompletedIsDone, Members

Inv == Rows /\ CompletedIsDone /\ DeliveredIsShared

LEMMA InitInv == Init => Inv
BY DEF Init, Inv, Rows, Statuses, CompletedIsDone, DeliveredIsShared, Members,
       Done

\* Steps of checkout.
LEMMA CheckoutInv ==
    ASSUME Inv, NEW o \in Orders, Checkout(o)
    PROVE  Inv'
<1>1. CASE BeginOrder(o)
  <2>1. /\ status' = [status EXCEPT ![o] = "creating"] /\ status[o] = "none"
        /\ share' = share /\ delivery' = delivery /\ late' = late
    BY <1>1 DEF BeginOrder, history
  <2>2. Rows' /\ DeliveredIsShared'
    BY <2>1 DEF Inv, Rows, DeliveredIsShared, delivery, Statuses, Done
  <2>3. CompletedIsDone'
    BY <2>1, CompletionKept DEF Inv, Rows, delivery, Done
  <2> QED
    BY <2>2, <2>3 DEF Inv
<1>2. CASE CommitOrder(o)
  <2>1. /\ status' = [status EXCEPT ![o] = "pending_payment"]
        /\ status[o] = "creating"
        /\ share' = share /\ delivery' = delivery /\ late' = late
    BY <1>2 DEF CommitOrder, history
  <2>2. Rows' /\ DeliveredIsShared'
    BY <2>1 DEF Inv, Rows, DeliveredIsShared, delivery, Statuses, Done
  <2>3. CompletedIsDone'
    BY <2>1, CompletionKept DEF Inv, Rows, delivery, Done
  <2> QED
    BY <2>2, <2>3 DEF Inv
<1>3. CASE PayOrder(o)
  <2> DEFINE d == BatchOf[o]
  <2>1. /\ status' = [status EXCEPT ![o] = "paid"]
        /\ status[o] = "pending_payment"
        /\ joined' = joined \cup {o}
        /\ batch' = [batch EXCEPT ![d] = IF @ = "none" THEN "open" ELSE @]
        /\ late' = IF "completed" \in {batch[d], assignment[d]}
                   THEN late \cup {o} ELSE late
        /\ share' = share /\ assignment' = assignment
    BY <1>3 DEF PayOrder
  <2>2. d \in Batches
    BY BatchAssumption
  <2>3. Rows' /\ DeliveredIsShared'
    BY <2>1, <2>2 DEF Inv, Rows, DeliveredIsShared, Statuses, Done
  <2>4. CompletedIsDone'
    <3> SUFFICES ASSUME NEW b \in Batches,
                        "completed" \in {batch'[b], assignment'[b]},
                        NEW p \in Members(b, joined') \ late'
                 PROVE  status'[p] \in Done
      BY DEF CompletedIsDone, Members
    <3>1. "completed" \in {batch[b], assignment[b]}
      BY <2>1, <2>2 DEF Inv, Rows
    <3>2. p # o
      BY <3>1, <2>1 DEF Members
    <3>3. p \in Members(b, joined) \ late /\ p \in Orders
      BY <3>2, <2>1 DEF Members, Inv, Rows
    <3> QED
      BY <3>1, <3>2, <3>3, <2>1 DEF Inv, Rows, CompletedIsDone
  <2> QED
    BY <2>3, <2>4 DEF Inv
<1> QED
  BY <1>1, <1>2, <1>3 DEF Checkout

\* Steps that transition one order and leave the batches alone.
LEMMA TransitionInv ==
    ASSUME Inv, NEW o \in Orders, NEW to \in Statuses, Transition(o, to),
           delivery' = delivery, late' = late
    PROVE  Inv'
<1>1. /\ status' \in [Orders -> Statuses] /\ share' \in [Orders -> Nat]
      /\ \A p \in Orders : status[p] \in Done => status'[p] \in Done
      /\ DeliveredIsShared'
  BY TransitionKeeps DEF Inv
<1>2. Rows'
  BY <1>1 DEF Inv, Rows, delivery
<1>3. CompletedIsDone'
  BY <1>1, CompletionKept DEF Inv, delivery
<1> QED
  BY <1>1, <1>2, <1>3 DEF Inv

\* Steps that leave every order alone and complete nothing.
LEMMA OrdersAloneInv ==
    ASSUME Inv, status' = status, share' = share, joined' = joined,
           late' = late, Rows',
           \A b \in Batches :
              "completed" \in {batch'[b], assignment'[b]} =>
                 \/ "completed" \in {batch[b], assignment[b]}
                 \/ \A p \in Members(b, joined) : status[p] \in Done
    PROVE  Inv'
<1>1. CompletedIsDone'
  BY CompletionKept DEF Inv
<1> QED
  BY <1>1 DEF Inv, DeliveredIsShared

LEMMA OnBatchInv ==
    ASSUME Inv, NEW b \in Batches, OnBatch(b)
    PROVE  Inv'
<1> USE DEF Inv
<1>1. CASE FleetAssign(b)
  BY <1>1, OrdersAloneInv DEF FleetAssign, Assign, order, Rows
<1>2. CASE AdminAssign(b)
  BY <1>2, OrdersAloneInv DEF AdminAssign, Assign, order, Rows
<1>3. CASE AdminMarkAssigned(b)
  BY <1>3, OrdersAloneInv DEF AdminMarkAssigned, order, history, Rows
<1>4. CASE AdminCancelAssignment(b)
  BY <1>4, OrdersAloneInv DEF AdminCancelAssignment, order, history, Rows
<1>5. CASE CloseAtCutoff(b)
  BY <1>5, OrdersAloneInv DEF CloseAtCutoff, order, history, Rows
<1>6. CASE AdminClose(b)
  BY <1>6, OrdersAloneInv DEF AdminClose, order, history, Rows
<1>7. CASE Accept(b)
  BY <1>7, OrdersAloneInv DEF Accept, order, history, Rows
<1>8. CASE Decline(b)
  BY <1>8, OrdersAloneInv DEF Decline, order, Rows
<1>9. CASE AskPickup(b)
  BY <1>9, OrdersAloneInv DEF AskPickup, order, delivery, history, Rows
<1>10. CASE PickUp(b)
  BY <1>10, OrdersAloneInv DEF PickUp, order, history, Rows
<1>11. CASE VendorPickup(b)
  <2> DEFINE batched == Members(b, joined)
  <2>1. /\ \A o \in batched : Accepts(o, "out_for_delivery")
        /\ batch' = [batch EXCEPT ![b] = "in_progress"]
        /\ assignment' = [assignment EXCEPT ![b] =
              IF @ \in {"assigned", "accepted"} THEN "picked_up" ELSE @]
        /\ status' = [o \in Orders |-> IF o \in batched
                                       THEN "out_for_delivery" ELSE status[o]]
        /\ share' = share /\ joined' = joined /\ late' = late
    BY <1>11 DEF VendorPickup
  <2>2. \A o \in batched : status[o] \in {"ready", "out_for_delivery"}
    BY <2>1 DEF Accepts, MayBecome
  <2>3. \A p \in Orders : /\ status[p] \in Done => status'[p] \in Done
                         /\ status'[p] \in {status[p], "out_for_delivery"}
    BY <2>1, <2>2 DEF Done
  <2>4. Rows'
    BY <2>1 DEF Rows, Statuses
  <2>5. CompletedIsDone'
    BY <2>1, <2>3, CompletionKept DEF Rows
  <2>6. DeliveredIsShared'
    BY <2>1, <2>2, <2>3 DEF DeliveredIsShared, Done
  <2> QED
    BY <2>4, <2>5, <2>6
<1> QED
  BY <1>1, <1>2, <1>3, <1>4, <1>5, <1>6, <1>7, <1>8, <1>9, <1>10, <1>11
     DEF OnBatch

LEMMA RiderOrderInv ==
    ASSUME Inv, NEW o \in Orders, RiderOrder(o)
    PROVE  Inv'
<1>1. CASE AskOut(o) \/ AskDelivered(o) \/ ConfirmByCode(o)
  <2>1. order' = order /\ delivery' = delivery /\ history' = history
    BY <1>1 DEF AskOut, AskDelivered, ConfirmByCode, Ask
  <2> QED
    BY <2>1, OrdersAloneInv DEF Inv, Rows, order, delivery, history
<1>2. CASE KeepCode(o) \/ PickCode(o) \/ WriteCode(o) \/ GiveUpCode(o)
  <2>1. /\ status' = status /\ share' = share
        /\ delivery' = delivery /\ history' = history
    BY <1>2 DEF KeepCode, PickCode, WriteCode, GiveUpCode, order
  <2> QED
    BY <2>1, OrdersAloneInv DEF Inv, Rows, delivery, history
<1>3. CASE SendOut(o)
  <2>1. delivery' = delivery /\ late' = late
    BY <1>3 DEF SendOut, history
  <2>2. CASE Accepts(o, "out_for_delivery")
    BY <1>3, <2>1, <2>2, TransitionInv DEF SendOut, Statuses
  <2>3. CASE ~Accepts(o, "out_for_delivery")
    BY <1>3, <2>1, <2>3, OrdersAloneInv DEF SendOut, delivery, Inv, Rows
  <2> QED
    BY <2>2, <2>3
<1>4. CASE Deliver(o)
  <2>1. delivery' = delivery /\ late' = late
    BY <1>4 DEF Deliver
  <2>2. CASE Accepts(o, "delivered")
    BY <1>4, <2>1, <2>2, TransitionInv DEF Deliver, Statuses
  <2>3. CASE ~Accepts(o, "delivered")
    BY <1>4, <2>1, <2>3, OrdersAloneInv DEF Deliver, delivery, Inv, Rows
  <2> QED
    BY <2>2, <2>3
<1>5. CASE CompleteAssignment(o)
  <2> DEFINE b == BatchOf[o]
  <2>1. /\ assignment' = [assignment EXCEPT ![b] =
              IF fulfiller[b] = request[o].rider /\ AllDone(b)
              THEN "completed" ELSE @]
        /\ order' = order /\ joined' = joined /\ batch' = batch
        /\ late' = late
    BY <1>5 DEF CompleteAssignment, history
  <2>2. b \in Batches
    BY BatchAssumption
  <2>3. Rows'
    BY <2>1, <2>2 DEF Inv, Rows, order
  <2> QED
    BY <2>1, <2>2, <2>3, OrdersAloneInv DEF Inv, Rows, order, AllDone
<1>6. CASE CompleteBatch(o)
  <2> DEFINE b == BatchOf[o]
  <2>1. /\ batch' = [batch EXCEPT ![b] =
              IF AllDone(b) THEN "completed" ELSE @]
        /\ order' = order /\ joined' = joined /\ assignment' = assignment
        /\ late' = late
    BY <1>6 DEF CompleteBatch, history
  <2>2. b \in Batches
    BY BatchAssumption
  <2>3. Rows'
    BY <2>1, <2>2 DEF Inv, Rows, order
  <2> QED
    BY <2>1, <2>2, <2>3, OrdersAloneInv DEF Inv, Rows, order, AllDone
<1> QED
  BY <1>1, <1>2, <1>3, <1>4, <1>5, <1>6 DEF RiderOrder

LEMMA NextInv == Inv /\ [Next]_vars => Inv'
<1> SUFFICES ASSUME Inv, [Next]_vars PROVE Inv'
  OBVIOUS
<1>1. CASE UNCHANGED vars
  BY <1>1, OrdersAloneInv
     DEF vars, order, delivery, history, Inv, Rows
<1>2. ASSUME NEW o \in Orders, Checkout(o) PROVE Inv'
  BY <1>2, CheckoutInv
<1>3. ASSUME NEW o \in Orders, VendorReady(o) PROVE Inv'
  BY <1>3, TransitionInv DEF VendorReady, history, Statuses
<1>4. ASSUME NEW o \in Orders, AdminTransition(o) PROVE Inv'
  BY <1>4, TransitionInv, TargetsAssumption DEF AdminTransition, history
<1>5. ASSUME NEW o \in Orders, AutoDispatch(o) PROVE Inv'
  <2>1. BatchOf[o] \in Batches
    BY BatchAssumption
  <2> QED
    BY <1>5, <2>1, OrdersAloneInv DEF AutoDispatch, Assign, order, Inv, Rows
<1>6. ASSUME NEW o \in Orders, RiderOrder(o) PROVE Inv'
  BY <1>6, RiderOrderInv
<1>7. ASSUME NEW b \in Batches, OnBatch(b) PROVE Inv'
  BY <1>7, OnBatchInv
<1> QED
  BY <1>1, <1>2, <1>3, <1>4, <1>5, <1>6, <1>7 DEF Next

\* However requests, reassignments and cancellations interleave with the two
\* statements of completeAssignmentIfAllOrdersDelivered, a batch or assignment
\* is completed only when all it held by then has reached the customer.
THEOREM BatchesCompletedWhenDone == Spec => []CompletedIsDone
<1>1. Inv => CompletedIsDone
  BY DEF Inv
<1> QED
  BY InitInv, NextInv, <1>1, PTL DEF Spec

\* transition_order_status leaves no delivered order without its split, and
\* splits no order that was not delivered.
THEOREM DeliveredOrdersShared == Spec => []DeliveredIsShared
<1>1. Inv => DeliveredIsShared
  BY DEF Inv
<1> QED
  BY InitInv, NextInv, <1>1, PTL DEF Spec

\* A step either is a transition or leaves every share as it was.
LEMMA NextShares ==
    ASSUME Inv, [Next]_vars
    PROVE  \A p \in Orders : share[p] # 0 => share'[p] = share[p]
<1>1. ASSUME NEW o \in Orders, NEW to \in Statuses, Transition(o, to)
      PROVE  \A p \in Orders : share[p] # 0 => share'[p] = share[p]
  BY <1>1, TransitionKeeps DEF Inv
<1>2. CASE UNCHANGED vars
  BY <1>2 DEF vars, order
<1>3. ASSUME NEW o \in Orders, Checkout(o) PROVE share' = share
  BY <1>3 DEF Checkout, BeginOrder, CommitOrder, PayOrder
<1>4. ASSUME NEW o \in Orders, VendorReady(o)
      PROVE  \A p \in Orders : share[p] # 0 => share'[p] = share[p]
  BY <1>1, <1>4 DEF VendorReady, Statuses
<1>5. ASSUME NEW o \in Orders, AdminTransition(o)
      PROVE  \A p \in Orders : share[p] # 0 => share'[p] = share[p]
  BY <1>1, <1>5, TargetsAssumption DEF AdminTransition
<1>6. ASSUME NEW o \in Orders, AutoDispatch(o) PROVE share' = share
  BY <1>6 DEF AutoDispatch, order
<1>7. ASSUME NEW b \in Batches, OnBatch(b) PROVE share' = share
  BY <1>7 DEF OnBatch, FleetAssign, AdminAssign, AdminMarkAssigned,
     AdminCancelAssignment, CloseAtCutoff, AdminClose, Accept, Decline,
     AskPickup, PickUp, VendorPickup, order
<1>8. ASSUME NEW o \in Orders, RiderOrder(o)
      PROVE  \A p \in Orders : share[p] # 0 => share'[p] = share[p]
  <2>1. CASE SendOut(o)
    BY <1>1, <2>1 DEF SendOut, Statuses
  <2>2. CASE Deliver(o)
    BY <1>1, <2>2 DEF Deliver, Statuses
  <2>3. CASE ~SendOut(o) /\ ~Deliver(o)
    BY <1>8, <2>3 DEF RiderOrder, AskOut, AskDelivered, ConfirmByCode, Ask,
       KeepCode, PickCode, WriteCode, GiveUpCode, CompleteAssignment,
       CompleteBatch, order
  <2> QED
    BY <2>1, <2>2, <2>3
<1> QED
  BY <1>2, <1>3, <1>4, <1>5, <1>6, <1>7, <1>8 DEF Next

\* The split of a delivery fee is final: no retried or concurrent request
\* resolves the shares of an order a second time.
THEOREM SharesFinal == Spec => SharesResolvedOnce
<1>1. Inv /\ [Next]_vars => [\A o \in Orders : share[o] # 0 => share'[o] = share[o]]_vars
  BY NextShares
<1> QED
  BY InitInv, NextInv, <1>1, PTL DEF Spec, SharesResolvedOnce

\* A batch that a rider has accepted or picked up becomes "assigned" in an
\* administrator's assignBatch only.
LEMMA NextKeepsRider ==
    ASSUME Inv, [Next]_vars, NEW b \in Batches,
           assignment[b] \in {"accepted", "picked_up", "completed"},
           assignment'[b] = "assigned"
    PROVE  b \in marking' \ marking
<1>1. CASE UNCHANGED vars
  BY <1>1 DEF vars, delivery
<1>2. ASSUME NEW o \in Orders,
             Checkout(o) \/ VendorReady(o) \/ AdminTransition(o)
      PROVE  FALSE
  BY <1>2 DEF Checkout, BeginOrder, CommitOrder, PayOrder, VendorReady, AdminTransition,
     delivery
<1>3. ASSUME NEW o \in Orders, AutoDispatch(o) PROVE FALSE
  <2>1. BatchOf[o] \in Batches
    BY BatchAssumption
  <2> QED BY <1>3, <2>1 DEF AutoDispatch, Assign, Inv, Rows
<1>4. ASSUME NEW o \in Orders, RiderOrder(o) PROVE FALSE
  <2>1. BatchOf[o] \in Batches
    BY BatchAssumption
  <2>2. CASE CompleteAssignment(o)
    BY <2>1, <2>2 DEF CompleteAssignment, Inv, Rows
  <2>3. CASE ~CompleteAssignment(o)
    BY <1>4, <2>3 DEF RiderOrder, AskOut, AskDelivered, ConfirmByCode, Ask, SendOut,
       KeepCode, PickCode, WriteCode, GiveUpCode, Deliver, CompleteBatch, delivery
  <2> QED BY <2>2, <2>3
<1>5. ASSUME NEW d \in Batches, OnBatch(d) PROVE b \in marking' \ marking
  <2>1. CASE AdminAssign(d)
    BY <2>1 DEF AdminAssign, Assign, Inv, Rows
  <2>2. CASE FleetAssign(d)
    BY <2>2 DEF FleetAssign, FleetMayAssign, Assign, Inv, Rows
  <2>3. CASE ~AdminAssign(d) /\ ~FleetAssign(d)
    BY <1>5, <2>3 DEF OnBatch, AdminMarkAssigned, AdminCancelAssignment, CloseAtCutoff,
       AdminClose, Accept, Decline, AskPickup, PickUp, VendorPickup, delivery, Inv, Rows
  <2> QED BY <2>1, <2>2, <2>3
<1> QED BY <1>1, <1>2, <1>3, <1>4, <1>5 DEF Next

\* No fleet manager, worker or pickup takes a batch from the rider who has it.
THEOREM RidersKeepBatches == Spec => RiderKeepsBatch
<1>1. Inv /\ [Next]_vars =>
         [\A b \in Batches :
             /\ assignment[b] \in {"accepted", "picked_up", "completed"}
             /\ assignment'[b] = "assigned"
             => b \in marking' \ marking]_vars
  BY NextKeepsRider
<1> QED BY InitInv, NextInv, <1>1, PTL DEF Spec, RiderKeepsBatch

-----------------------------------------------------------------------------
(* Hand-off codes.                                                         *)

\* The statuses in which an order's code is compared, and those that follow
\* the road, from which it never comes back.
Coded == Active \cup {"creating"}
OffTheRoad == {"delivered", "administratively_completed", "cancelled",
               "refunded"}

CodeRows ==
    /\ status \in [Orders -> Statuses]
    /\ code \in [Orders -> Codes \cup {NoCode}]
    /\ request \in [Orders -> Requests]

\* Creation gave each order a code of its own...
OneIsCreated ==
    \A o, p \in Orders : status[o] = "creating" /\ status[p] = "creating" => o = p
CodesDiffer ==
    \A o, p \in Orders :
        status[o] \in Coded /\ status[p] \in Coded /\ code[o] = code[p] => o = p

\* ...so that a rider's request to change one never finds a clash: it reaches
\* its UPDATE only for an order that has left the road.
CodeRequests ==
    \A o \in Orders :
        /\ request[o].at = "code" =>
               status[o] \in OffTheRoad \cup {"out_for_delivery"}
        /\ request[o].at = "write" => status[o] \in OffTheRoad

CodeInv == CodeRows /\ OneIsCreated /\ CodesDiffer /\ CodeRequests

\* A step of the statuses alone, along the transitions allowed.
Forward(from, to) ==
    \/ to = from
    \/ from \in Active /\ to \in Statuses \ {"none", "creating"}
       /\ (from = "out_for_delivery" => to \in OffTheRoad)
    \/ from \in OffTheRoad /\ to \in OffTheRoad

LEMMA MovesForward ==
    ASSUME NEW from \in Statuses, NEW to \in Statuses,
           from = to \/ MayBecome(from, to)
    PROVE  Forward(from, to)
BY DEF MayBecome, Forward, Active, OffTheRoad, Statuses

LEMMA TransitionForward ==
    ASSUME CodeRows, NEW o \in Orders, NEW to \in Statuses, Transition(o, to)
    PROVE  /\ status' \in [Orders -> Statuses]
           /\ \A p \in Orders : Forward(status[p], status'[p])
<1>1. CASE status[o] = to
  BY <1>1 DEF Transition, CodeRows, Forward
<1>2. CASE status[o] # to
  BY <1>2, MovesForward DEF Transition, CodeRows, Forward
<1> QED
  BY <1>1, <1>2

\* Requests that move no nearer to their UPDATE.
LEMMA ForwardKeeps ==
    ASSUME CodeInv, status' \in [Orders -> Statuses], code' = code,
           request' \in [Orders -> Requests],
           \A p \in Orders : Forward(status[p], status'[p]),
           \A p \in Orders :
               \/ request'[p] = request[p]
               \/ request'[p].at \notin {"code", "write"}
               \/ request'[p].at = "code" /\ status'[p] = "out_for_delivery"
               \/ request'[p].at = "write" /\ status'[p] \in OffTheRoad
    PROVE  CodeInv'
<1>1. \A p \in Orders :
          /\ status'[p] = "creating" => status[p] = "creating"
          /\ status'[p] \in Coded => status[p] \in Coded
          /\ status[p] \in OffTheRoad => status'[p] \in OffTheRoad
          /\ status[p] = "out_for_delivery" =>
                 status'[p] \in OffTheRoad \cup {"out_for_delivery"}
  BY DEF Forward, Coded, Active, OffTheRoad
<1>2. CodeRequests'
  BY <1>1 DEF CodeInv, CodeRequests, OffTheRoad
<1>3. OneIsCreated' /\ CodesDiffer'
  BY <1>1 DEF CodeInv, OneIsCreated, CodesDiffer
<1> QED
  BY <1>2, <1>3 DEF CodeInv, CodeRows

LEMMA CheckoutCodes ==
    ASSUME Overlapping = FALSE, CodeInv, NEW o \in Orders, Checkout(o)
    PROVE  CodeInv'
<1>1. CASE BeginOrder(o)
  <2>1. PICK c \in Codes : ~Taken(c) /\ code' = [code EXCEPT ![o] = c]
    BY <1>1 DEF BeginOrder
  <2>2. /\ status[o] = "none" /\ status' = [status EXCEPT ![o] = "creating"]
        /\ \A p \in Orders : status[p] # "creating"
        /\ request' = request
    BY <1>1 DEF BeginOrder, flight
  <2>3. CodeRows'
    BY <2>1, <2>2 DEF CodeInv, CodeRows, Statuses
  <2>4. OneIsCreated'
    BY <2>2 DEF CodeInv, CodeRows, OneIsCreated
  <2>5. CodesDiffer'
    BY <2>1, <2>2 DEF CodeInv, CodeRows, CodesDiffer, Coded, Taken
  <2>6. CodeRequests'
    BY <2>2 DEF CodeInv, CodeRows, CodeRequests, OffTheRoad
  <2> QED
    BY <2>3, <2>4, <2>5, <2>6 DEF CodeInv
<1>2. CASE CommitOrder(o)
  <2>1. /\ status[o] = "creating" /\ code' = code /\ request' = request
        /\ status' = [status EXCEPT ![o] = "pending_payment"]
    BY <1>2 DEF CommitOrder, flight
  <2>2. CodeRows'
    BY <2>1 DEF CodeInv, CodeRows, Statuses
  <2>3. OneIsCreated' /\ CodesDiffer'
    BY <2>1 DEF CodeInv, CodeRows, OneIsCreated, CodesDiffer, Coded, Active
  <2>4. CodeRequests'
    BY <2>1 DEF CodeInv, CodeRows, CodeRequests, OffTheRoad
  <2> QED
    BY <2>2, <2>3, <2>4 DEF CodeInv
<1>3. CASE PayOrder(o)
  <2>1. /\ status[o] = "pending_payment" /\ code' = code /\ request' = request
        /\ status' = [status EXCEPT ![o] = "paid"]
    BY <1>3 DEF PayOrder, flight
  <2>2. status' \in [Orders -> Statuses]
    BY <2>1 DEF CodeInv, CodeRows, Statuses
  <2>3. \A p \in Orders : Forward(status[p], status'[p])
    BY <2>1 DEF CodeInv, CodeRows, Forward, Active, Statuses
  <2> QED
    BY <2>1, <2>2, <2>3, ForwardKeeps DEF CodeInv, CodeRows
<1> QED
  BY <1>1, <1>2, <1>3 DEF Checkout

\* Where orders and codes stay as they are.
LEMMA StillKeeps ==
    ASSUME CodeInv, status' = status, code' = code,
           request' \in [Orders -> Requests],
           \A p \in Orders :
               \/ request'[p] = request[p]
               \/ request'[p].at \notin {"code", "write"}
               \/ request'[p].at = "write" /\ status[p] \in OffTheRoad
    PROVE  CodeInv'
BY ForwardKeeps DEF CodeInv, CodeRows, Forward

LEMMA RequestChanges ==
    ASSUME CodeRows, NEW o \in Orders,
           NEW at \in {"idle", "out", "code", "write", "deliver", "assignment",
                       "batch"}
    PROVE  /\ [request EXCEPT ![o].at = at] \in [Orders -> Requests]
           /\ [request EXCEPT ![o] = Idle] \in [Orders -> Requests]
           /\ [request EXCEPT ![o].at = at][o].at = at
           /\ Idle.at = "idle"
BY DEF CodeRows, Requests, Idle

LEMMA RiderOrderCodes ==
    ASSUME CodeInv, NEW o \in Orders, RiderOrder(o)
    PROVE  CodeInv'
<1>0. /\ request \in [Orders -> Requests] /\ status \in [Orders -> Statuses]
      /\ code \in [Orders -> Codes \cup {NoCode}]
  BY DEF CodeInv, CodeRows
<1>1. ASSUME NEW r \in Riders, NEW step \in {"out", "deliver"}, Ask(r, o, step)
      PROVE  CodeInv'
  <2>1. /\ request' = [request EXCEPT ![o] =
              [at |-> step, rider |-> r, code |-> NoCode]]
        /\ status' = status /\ code' = code
    BY <1>1 DEF Ask, order
  <2>2. request' \in [Orders -> Requests]
    BY <1>0, <2>1 DEF Requests
  <2> QED
    BY <1>0, <2>1, <2>2, StillKeeps
<1>2. CASE AskOut(o) \/ AskDelivered(o) \/ ConfirmByCode(o)
  BY <1>1, <1>2 DEF AskOut, AskDelivered, ConfirmByCode
<1>3. ASSUME Finish(o), status' = status, code' = code PROVE CodeInv'
  BY <1>0, <1>3, StillKeeps, RequestChanges DEF Finish, CodeInv
<1>4. CASE SendOut(o)
  <2>1. code' = code
    BY <1>4 DEF SendOut
  <2>2. CASE ~Accepts(o, "out_for_delivery")
    BY <1>3, <1>4, <2>1, <2>2 DEF SendOut
  <2>3. CASE Accepts(o, "out_for_delivery")
    <3>1. Transition(o, "out_for_delivery") /\ Step(o, "code")
      BY <1>4, <2>3 DEF SendOut
    <3>2. /\ status' \in [Orders -> Statuses]
          /\ \A p \in Orders : Forward(status[p], status'[p])
      BY <3>1, TransitionForward DEF CodeInv, Statuses
    <3>3. status'[o] = "out_for_delivery"
      BY <1>0, <3>1 DEF Transition
    <3>4. request' \in [Orders -> Requests] /\ request'[o].at = "code"
      BY <3>1, RequestChanges DEF Step, CodeInv
    <3>5. \A p \in Orders \ {o} : request'[p] = request[p]
      BY <1>0, <3>1 DEF Step
    <3> QED
      BY <2>1, <3>2, <3>3, <3>4, <3>5, ForwardKeeps
  <2> QED
    BY <2>2, <2>3
<1>5. CASE KeepCode(o) \/ GiveUpCode(o)
  BY <1>3, <1>5 DEF KeepCode, GiveUpCode, order
<1>6. CASE PickCode(o)
  <2>1. /\ request[o].at = "code" /\ ~KeepsCode(o)
        /\ status' = status /\ code' = code
    BY <1>6 DEF PickCode, order
  <2>2. PICK c \in Codes :
            request' = [request EXCEPT ![o].at = "write", ![o].code = c]
    BY <1>6 DEF PickCode
  <2>3. /\ request' \in [Orders -> Requests]
        /\ \A p \in Orders \ {o} : request'[p] = request[p]
        /\ request'[o].at = "write"
    BY <1>0, <2>2 DEF Requests
  <2>4. status[o] # "out_for_delivery"
    <3>1. status[o] = "out_for_delivery" => ~Clashes(request[o].rider, o, code[o])
      BY DEF CodeInv, CodesDiffer, Clashes, OutWith, Coded, Active
    <3> QED BY <2>1, <3>1 DEF KeepsCode
  <2>5. status[o] \in OffTheRoad
    BY <2>1, <2>4 DEF CodeInv, CodeRequests
  <2> QED
    BY <2>1, <2>3, <2>5, StillKeeps
<1>7. CASE WriteCode(o)
  <2>1. status[o] # "out_for_delivery"
    BY <1>7 DEF WriteCode, CodeInv, CodeRequests, OffTheRoad
  <2>2. code' = code
    BY <1>0, <1>7, <2>1 DEF WriteCode
  <2> QED
    BY <1>3, <1>7, <2>2 DEF WriteCode
<1>8. CASE Deliver(o)
  <2>1. code' = code
    BY <1>8 DEF Deliver
  <2>2. CASE ~Accepts(o, "delivered")
    BY <1>3, <1>8, <2>1, <2>2 DEF Deliver
  <2>3. CASE Accepts(o, "delivered")
    <3>1. Transition(o, "delivered") /\ Step(o, "assignment")
      BY <1>8, <2>3 DEF Deliver
    <3>2. /\ status' \in [Orders -> Statuses]
          /\ \A p \in Orders : Forward(status[p], status'[p])
      BY <3>1, TransitionForward DEF CodeInv, Statuses
    <3>3. request' \in [Orders -> Requests] /\ request'[o].at = "assignment"
      BY <3>1, RequestChanges DEF Step, CodeInv
    <3>4. \A p \in Orders \ {o} : request'[p] = request[p]
      BY <1>0, <3>1 DEF Step
    <3> QED
      BY <2>1, <3>2, <3>3, <3>4, ForwardKeeps
  <2> QED
    BY <2>2, <2>3
<1>9. CASE CompleteAssignment(o)
  <2>1. status' = status /\ code' = code /\ Step(o, "batch")
    BY <1>9 DEF CompleteAssignment, order
  <2>2. request' \in [Orders -> Requests] /\ request'[o].at = "batch"
    BY <2>1, RequestChanges DEF Step, CodeInv
  <2>3. \A p \in Orders \ {o} : request'[p] = request[p]
    BY <1>0, <2>1 DEF Step
  <2> QED
    BY <2>1, <2>2, <2>3, StillKeeps
<1>10. CASE CompleteBatch(o)
  BY <1>3, <1>10 DEF CompleteBatch, order
<1> QED
  BY <1>2, <1>4, <1>5, <1>6, <1>7, <1>8, <1>9, <1>10 DEF RiderOrder

LEMMA OnBatchCodes ==
    ASSUME CodeInv, NEW b \in Batches, OnBatch(b)
    PROVE  CodeInv'
<1>1. CASE VendorPickup(b)
  <2> DEFINE batched == Members(b, joined)
  <2>1. /\ \A o \in batched : Accepts(o, "out_for_delivery")
        /\ status' = [o \in Orders |-> IF o \in batched
                                       THEN "out_for_delivery" ELSE status[o]]
        /\ code' = code /\ request' = request
    BY <1>1 DEF VendorPickup, flight
  <2>2. status \in [Orders -> Statuses] /\ "out_for_delivery" \in Statuses
    BY DEF CodeInv, CodeRows, Statuses
  <2>3. status' \in [Orders -> Statuses]
    BY <2>1, <2>2
  <2>4. ASSUME NEW p \in Orders PROVE Forward(status[p], status'[p])
    <3>1. CASE p \in batched
      <4>1. status'[p] = "out_for_delivery" /\ Accepts(p, "out_for_delivery")
        BY <2>1, <3>1
      <4> QED BY <2>2, <4>1, MovesForward DEF Accepts
    <3>2. CASE p \notin batched
      BY <2>1, <3>2 DEF Forward
    <3> QED BY <3>1, <3>2
  <2> QED
    BY <2>1, <2>3, <2>4, ForwardKeeps DEF CodeInv, CodeRows
<1>2. CASE ~VendorPickup(b)
  <2>1. status' = status /\ code' = code /\ request' = request
    BY <1>2 DEF OnBatch, FleetAssign, AdminAssign, AdminMarkAssigned,
       AdminCancelAssignment, CloseAtCutoff, AdminClose, Accept, Decline,
       AskPickup, PickUp, order, flight
  <2> QED
    BY <2>1, StillKeeps DEF CodeInv, CodeRows
<1> QED
  BY <1>1, <1>2

LEMMA NextCodes ==
    ASSUME Overlapping = FALSE, CodeInv, [Next]_vars
    PROVE  CodeInv'
<1>1. CASE UNCHANGED vars
  BY <1>1, StillKeeps DEF vars, order, flight, CodeInv, CodeRows
<1>2. ASSUME NEW o \in Orders, NEW to \in Statuses, Transition(o, to),
             code' = code, request' = request
      PROVE  CodeInv'
  BY <1>2, TransitionForward, ForwardKeeps DEF CodeInv, CodeRows
<1>3. ASSUME NEW o \in Orders, VendorReady(o) \/ AdminTransition(o)
      PROVE  CodeInv'
  <2>1. code' = code /\ request' = request
    BY <1>3 DEF VendorReady, AdminTransition, flight
  <2>2. \E to \in Statuses : Transition(o, to)
    BY <1>3, TargetsAssumption DEF VendorReady, AdminTransition, Statuses
  <2> QED
    BY <1>2, <2>1, <2>2
<1>4. ASSUME NEW o \in Orders, AutoDispatch(o) PROVE CodeInv'
  BY <1>4, StillKeeps DEF AutoDispatch, order, flight, CodeInv, CodeRows
<1> QED
  BY <1>1, <1>3, <1>4, CheckoutCodes, RiderOrderCodes, OnBatchCodes DEF Next

\* As long as no two creations overlap, a hand-off code names at most one of
\* the orders a rider has on the road (ensureOrderDeliveryMetadata,
\* assignDeliveryCode): what the two functions compare is then enough, for the
\* UPDATE of a code that was chosen early never falls on an order on the road.
THEOREM CodesNameOneOrder ==
    ASSUME Overlapping = FALSE
    PROVE  Spec => []CodesUnambiguous
<1>1. Init => CodeInv
  BY DEF Init, CodeInv, CodeRows, OneIsCreated, CodesDiffer, CodeRequests,
         Statuses, Requests, Idle, Coded, Active
<1>2. CodeInv /\ [Next]_vars => CodeInv'
  BY NextCodes
<1>3. ASSUME CodeInv PROVE CodesUnambiguous
  <2> SUFFICES ASSUME NEW r \in Riders, NEW c \in Codes
               PROVE  Cardinality(Matches(r, c)) <= 1
    BY DEF CodesUnambiguous
  <2>1. \A o, p \in Matches(r, c) : o = p
    BY <1>3 DEF CodeInv, CodesDiffer, Matches, OutWith, Coded, Active
  <2>2. CASE Matches(r, c) = {}
    BY <2>2, FS_EmptySet
  <2>3. ASSUME NEW o \in Matches(r, c) PROVE Cardinality(Matches(r, c)) <= 1
    <3>1. Matches(r, c) = {o}
      BY <2>1
    <3> QED BY <3>1, FS_Singleton
  <2> QED
    BY <2>2, <2>3
<1> QED
  BY <1>1, <1>2, <1>3, PTL DEF Spec
=============================================================================
