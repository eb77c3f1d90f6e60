------------------------------- MODULE Orders -------------------------------
(***************************************************************************)
(* Checkout of card and wallet orders: the order row, its dated inventory  *)
(* rows, its payment row, and everything that races over them - the        *)
(* customer's Paystack session, Paystack's webhook, the status poll, the   *)
(* reconciliation sweep, the reservation-expiry job, administrators.       *)
(*                                                                         *)
(* One SQL function is one transaction under row locks, hence one action.  *)
(* A request handler that awaits Paystack between two statements is        *)
(* several actions, with the point it has reached in "checkout".           *)
(***************************************************************************)
EXTENDS Integers, FiniteSets

CONSTANTS
    Orders,      \* the orders customers may place (one per creation request)
    Items,       \* the dated inventory rows (menu item, service date, slot)
    Cart,        \* Cart[o][i]: quantity of each line of order o naming item i
    Lines,       \* Lines[o][i]: how many lines of o name i, if any does
    StartTotal,  \* quantity_total each inventory row is generated with
    MaxTotal,    \* bound: largest quantity_total a vendor or admin sets
    MaxAdjusted, \* bound: largest |quantity_adjusted| set by hand
    Targets      \* bound: the statuses transition_order_status is asked for

ASSUME OrdersAssumption == IsFiniteSet(Orders)
ASSUME CartAssumption ==
    /\ Cart \in [Orders -> [Items -> Nat]]
    /\ Lines \in [Orders -> [Items -> Nat \ {0}]]
ASSUME BoundAssumption ==
    /\ StartTotal \in [Items -> Nat]
    /\ MaxTotal \in Nat
    /\ MaxAdjusted \in Nat

VARIABLES
    total, adjusted, reserved, sold,  \* menu_item_inventory counters
    status,      \* orders.order_status, "none" before the row exists
    hold,        \* while pending: is inventory_reservation_expires_at ahead?
    batched,     \* the order has its delivery_batch_orders row
    payment,     \* payments.status, "none" before the row exists
    provider,    \* payments.provider
    checkout,    \* where an initializePaystack request for the order stands
    charge,      \* Paystack's transaction for the order's reference
    verify,      \* a verified success is on its way to the database
    seen,        \* the charge.success event row is committed
    unresolved,  \* payment.successful_unresolved is in the outbox
    issue,       \* an amount_mismatch reconciliation issue is open
    age,         \* is the payment row younger than the sweep's 48 hours?
    cutoff,      \* the slot's ordering cutoff has passed
    stranded     \* pending orders ended by transition_order_status

inventory == <<total, adjusted, reserved, sold>>
rows == <<status, hold, batched, payment, provider, unresolved, issue, stranded>>
requests == <<checkout, verify>>
paystack == <<charge, seen>>
clock == <<age, cutoff>>
vars == <<inventory, rows, requests, paystack, clock>>

Statuses == {"none", "pending_payment", "paid", "ready", "out_for_delivery",
             "delivered", "administratively_completed", "cancelled",
             "expired", "refunded"}
Awaiting == {"pending_payment", "expired"}
Unpaid == {"initialized", "pending"}

TypeOK ==
    /\ total \in [Items -> Int]
    /\ adjusted \in [Items -> Int]
    /\ reserved \in [Items -> Int]
    /\ sold \in [Items -> Int]
    /\ status \in [Orders -> Statuses]
    /\ hold \in [Orders -> {"none", "open", "lapsed"}]
    /\ batched \in [Orders -> BOOLEAN]
    /\ payment \in [Orders -> {"none", "successful"} \cup Unpaid]
    /\ provider \in [Orders -> {"none", "paystack", "wallet"}]
    /\ checkout \in [Orders -> {"idle", "asked", "answered", "written"}]
    /\ charge \in [Orders -> {"none", "created", "open", "paid", "mispaid"}]
    /\ verify \in [Orders -> BOOLEAN]
    /\ seen \in [Orders -> BOOLEAN]
    /\ unresolved \in [Orders -> BOOLEAN]
    /\ issue \in [Orders -> BOOLEAN]
    /\ age \in [Orders -> {"young", "old"}]
    /\ cutoff \in BOOLEAN
    /\ stranded \in SUBSET Orders

Init ==
    /\ total = StartTotal
    /\ adjusted = [i \in Items |-> 0]
    /\ reserved = [i \in Items |-> 0]
    /\ sold = [i \in Items |-> 0]
    /\ status = [o \in Orders |-> "none"]
    /\ hold = [o \in Orders |-> "none"]
    /\ batched = [o \in Orders |-> FALSE]
    /\ payment = [o \in Orders |-> "none"]
    /\ provider = [o \in Orders |-> "none"]
    /\ checkout = [o \in Orders |-> "idle"]
    /\ charge = [o \in Orders |-> "none"]
    /\ verify = [o \in Orders |-> FALSE]
    /\ seen = [o \in Orders |-> FALSE]
    /\ unresolved = [o \in Orders |-> FALSE]
    /\ issue = [o \in Orders |-> FALSE]
    /\ age = [o \in Orders |-> "young"]
    /\ cutoff = FALSE
    /\ stranded = {}

-----------------------------------------------------------------------------
(* Inventory arithmetic.                                                   *)

\* What the order's lines take from the row: the creation loop runs per line.
Ordered(o, i) == Cart[o][i] * Lines[o][i]

\* What UPDATE menu_item_inventory ... FROM order_items moves: a joined update
\* touches each inventory row once, with one of its lines.
Moved(o, i) == Cart[o][i]

Capacity(i) == total[i] + adjusted[i]

Remaining(i) == Capacity(i) - reserved[i] - sold[i]

\* Mutant: a late sale raises nothing.
NoRaise(o, i) == 0

\* How far a late sale exceeds the capacity: greatest(0, ...).
Shortfall(o, i) ==
    LET over == Moved(o, i) - Remaining(i)
    IN  IF Moved(o, i) > 0 /\ over > 0 THEN over ELSE 0

-----------------------------------------------------------------------------
(* Creating an order.                                                      *)

Orderable(o) ==
    /\ status[o] = "none"
    /\ ~cutoff
    /\ \A i \in Items : Remaining(i) >= Ordered(o, i)

\* create_pending_order_and_reserve_inventory: reserves line by line under the
\* inventory rows' locks and inserts the order and its initialized payment.
CreatePendingOrder(o) ==
    /\ Orderable(o)
    /\ reserved' = [i \in Items |-> reserved[i] + Ordered(o, i)]
    /\ status' = [status EXCEPT ![o] = "pending_payment"]
    /\ hold' = [hold EXCEPT ![o] = "open"]
    /\ payment' = [payment EXCEPT ![o] = "initialized"]
    /\ provider' = [provider EXCEPT ![o] = "paystack"]
    /\ UNCHANGED <<total, adjusted, sold, batched, unresolved, issue, stranded,
                   requests, paystack, clock>>

\* create_paid_order_from_wallet: the same reservation, sold in the same
\* transaction. A short or frozen wallet rolls everything back (no step).
CreatePaidOrderFromWallet(o) ==
    /\ Orderable(o)
    /\ reserved' = [i \in Items |-> reserved[i] + Ordered(o, i) - Moved(o, i)]
    /\ sold' = [i \in Items |-> sold[i] + Moved(o, i)]
    /\ status' = [status EXCEPT ![o] = "paid"]
    /\ batched' = [batched EXCEPT ![o] = TRUE]
    /\ payment' = [payment EXCEPT ![o] = "successful"]
    /\ provider' = [provider EXCEPT ![o] = "wallet"]
    /\ UNCHANGED <<total, adjusted, hold, unresolved, issue, stranded,
                   requests, paystack, clock>>

-----------------------------------------------------------------------------
(* initializePaystack: read, await Paystack, two separate writes.          *)

InitializeAsk(o) ==
    /\ checkout[o] = "idle"
    /\ provider[o] = "paystack"
    /\ payment[o] \in Unpaid
    /\ status[o] = "pending_payment"
    /\ checkout' = [checkout EXCEPT ![o] = "asked"]
    /\ UNCHANGED <<inventory, rows, verify, paystack, clock>>

\* Paystack (external) opens one transaction per reference, the order number.
InitializeAnswer(o) ==
    /\ checkout[o] = "asked"
    /\ charge[o] = "none"
    /\ charge' = [charge EXCEPT ![o] = "created"]
    /\ checkout' = [checkout EXCEPT ![o] = "answered"]
    /\ UNCHANGED <<inventory, rows, verify, seen, clock>>

\* markPaymentInitializationPayload writes 'pending' whatever the row says now.
MarkInitializationPayload(o) ==
    /\ checkout[o] = "answered"
    /\ payment' = [payment EXCEPT ![o] = "pending"]
    /\ checkout' = [checkout EXCEPT ![o] = "written"]
    /\ UNCHANGED <<inventory, status, hold, batched, provider, unresolved,
                   issue, stranded, verify, paystack, clock>>

\* extendReservationWindow, then the response that gives the customer the link.
ExtendReservationWindow(o) ==
    /\ checkout[o] = "written"
    /\ hold' = IF status[o] = "pending_payment"
                 THEN [hold EXCEPT ![o] = "open"] ELSE hold
    /\ checkout' = [checkout EXCEPT ![o] = "idle"]
    /\ charge' = [charge EXCEPT ![o] = "open"]
    /\ UNCHANGED <<inventory, status, batched, payment, provider, unresolved,
                   issue, stranded, verify, seen, clock>>

\* Paystack refuses, or the API process stops: the request ends where it was.
InitializeFails(o) ==
    /\ checkout[o] # "idle"
    /\ checkout' = [checkout EXCEPT ![o] = "idle"]
    /\ UNCHANGED <<inventory, rows, verify, paystack, clock>>

\* The customer completes the Paystack session; a captured amount or currency
\* may differ from the payment's.
CustomerPays(o) ==
    /\ charge[o] = "open"
    /\ \E outcome \in {"paid", "mispaid"} :
          charge' = [charge EXCEPT ![o] = outcome]
    /\ UNCHANGED <<inventory, rows, requests, seen, clock>>

-----------------------------------------------------------------------------
(* mark_verified_payment_successful: one transaction, three outcomes.      *)

marks == <<adjusted, reserved, sold, status, hold, batched, payment, unresolved>>

AlreadySuccessful(o) ==
    /\ payment[o] = "successful"
    /\ UNCHANGED marks

\* Money captured, order not open: only flagged, the payment stays as it was.
NotOpenForSale(o) ==
    /\ payment[o] # "successful"
    /\ status[o] \notin Awaiting
    /\ unresolved' = [unresolved EXCEPT ![o] = TRUE]
    /\ UNCHANGED <<adjusted, reserved, sold, status, hold, batched, payment>>

\* A reservation still held is turned into a sale; an expired one was given
\* back, so only the sale is booked and the capacity raised by its shortfall.
BookSale(o) ==
    /\ payment[o] # "successful"
    /\ status[o] \in Awaiting
    /\ sold' = [i \in Items |-> sold[i] + Moved(o, i)]
    /\ \/ /\ status[o] = "pending_payment"
          /\ reserved' = [i \in Items |-> reserved[i] - Moved(o, i)]
          /\ UNCHANGED adjusted
       \/ /\ status[o] = "expired"
          /\ adjusted' = [i \in Items |-> adjusted[i] + Shortfall(o, i)]
          /\ UNCHANGED reserved
    /\ status' = [status EXCEPT ![o] = "paid"]
    /\ hold' = [hold EXCEPT ![o] = "none"]
    /\ payment' = [payment EXCEPT ![o] = "successful"]
    /\ batched' = [batched EXCEPT ![o] = TRUE]
    /\ UNCHANGED unresolved

MarkVerifiedPaymentSuccessful(o) ==
    \/ AlreadySuccessful(o)
    \/ NotOpenForSale(o)
    \/ BookSale(o)

\* A signed charge.success, in one transaction with its event row; Paystack may
\* deliver it late, again (the event row makes that a no-op) or never.
Webhook(o) ==
    /\ charge[o] \in {"paid", "mispaid"}
    /\ ~seen[o]
    /\ seen' = [seen EXCEPT ![o] = TRUE]
    /\ \/ /\ charge[o] = "paid"
          /\ MarkVerifiedPaymentSuccessful(o)
          /\ UNCHANGED issue
       \/ /\ charge[o] = "mispaid"
          /\ issue' = [issue EXCEPT ![o] = TRUE]
          /\ UNCHANGED marks
    /\ UNCHANGED <<total, provider, stranded, requests, charge, clock>>

\* tryReconcilePayment asks Paystack and, on a matching success, goes on to
\* the database; each caller selects the payment by its own conditions.
VerifySucceeds(o) ==
    /\ ~verify[o]
    /\ provider[o] = "paystack"
    /\ charge[o] = "paid"
    /\ verify' = [verify EXCEPT ![o] = TRUE]
    /\ UNCHANGED <<inventory, rows, checkout, paystack, clock>>

\* verifyPendingOrderPayment, from the customer's payment-status poll.
PollVerify(o) ==
    /\ payment[o] \in Unpaid
    /\ VerifySucceeds(o)

InSweep(o) ==
    /\ payment[o] \in Unpaid
    /\ status[o] \in Awaiting
    /\ age[o] = "young"

\* Mutant: the sweep skips orders the expiry job got to first.
SweepPendingOnly(o) ==
    /\ InSweep(o)
    /\ status[o] = "pending_payment"
    /\ VerifySucceeds(o)

\* reconcilePendingPayments, the background sweep over findStuckPaystackPayments.
SweepVerify(o) ==
    /\ InSweep(o)
    /\ VerifySucceeds(o)

\* reconcilePaystackPayment: an administrator verifies any card payment.
AdminReconcile(o) ==
    /\ payment[o] # "none"
    /\ VerifySucceeds(o)

ApplyVerified(o) ==
    /\ verify[o]
    /\ verify' = [verify EXCEPT ![o] = FALSE]
    /\ MarkVerifiedPaymentSuccessful(o)
    /\ UNCHANGED <<total, provider, issue, stranded, checkout, paystack, clock>>

\* The call fails or the process stops before the database is reached.
VerifiedCallLost(o) ==
    /\ verify[o]
    /\ verify' = [verify EXCEPT ![o] = FALSE]
    /\ UNCHANGED <<inventory, rows, checkout, paystack, clock>>

\* forcePaymentPaid: the same function without asking Paystack.
ForcePaymentPaid(o) ==
    /\ provider[o] = "paystack"
    /\ payment[o] # "successful"
    /\ MarkVerifiedPaymentSuccessful(o)
    /\ UNCHANGED <<total, provider, issue, stranded, requests, paystack, clock>>

-----------------------------------------------------------------------------
(* The expiry job, the status matrix and the stock keepers.                *)

\* Mutant: the order expires and its units stay reserved.
ExpireKeepingUnits(o) ==
    /\ status[o] = "pending_payment"
    /\ hold[o] = "lapsed"
    /\ status' = [status EXCEPT ![o] = "expired"]
    /\ hold' = [hold EXCEPT ![o] = "none"]
    /\ UNCHANGED <<inventory, batched, payment, provider, unresolved, issue,
                   stranded, requests, paystack, clock>>

\* Mutant: the job leaves orders alone whose payment session was opened.
ReleaseUnopenedOnly(o) ==
    /\ payment[o] = "initialized"
    /\ ExpireKeepingUnits(o)

\* One iteration of release_expired_reservations; FOR UPDATE SKIP LOCKED lets
\* a run of the job take any of the expired rows.
ReleaseExpiredReservation(o) ==
    /\ status[o] = "pending_payment"
    /\ hold[o] = "lapsed"
    /\ reserved' = [i \in Items |-> reserved[i] - Moved(o, i)]
    /\ status' = [status EXCEPT ![o] = "expired"]
    /\ hold' = [hold EXCEPT ![o] = "none"]
    /\ UNCHANGED <<total, adjusted, sold, batched, payment, provider,
                   unresolved, issue, stranded, requests, paystack, clock>>

\* Mutant: the matrix lets a paid order expire.
PaidMayExpire(from) ==
    IF from \in {"pending_payment", "paid"}
      THEN {"paid", "expired", "cancelled"} ELSE {}

NextStatuses(from) ==
    CASE from = "pending_payment" -> {"paid", "expired", "cancelled"}
      [] from = "paid" -> {"ready", "cancelled", "refunded"}
      [] from = "ready" -> {"out_for_delivery", "cancelled"}
      [] from = "out_for_delivery" -> {"delivered", "cancelled"}
      [] from = "delivered" -> {"administratively_completed", "refunded"}
      [] from = "administratively_completed" -> {"refunded"}
      [] OTHER -> {}

\* transition_order_status, as vendors, riders and administrators call it. It
\* touches the order row alone: no inventory, payment or batch.
TransitionOrderStatus(o, to) ==
    /\ to \in NextStatuses(status[o])
    /\ status' = [status EXCEPT ![o] = to]
    /\ hold' = [hold EXCEPT ![o] = "none"]
    /\ stranded' = IF status[o] = "pending_payment"
                     THEN stranded \cup {o} ELSE stranded
    /\ UNCHANGED <<inventory, batched, payment, provider, unresolved,
                   issue, requests, paystack, clock>>

\* The table's check constraints: the update is rejected when they fail.
WithinConstraints(i, newTotal, newAdjusted) ==
    /\ newTotal >= 0
    /\ newTotal + newAdjusted >= 0
    /\ reserved[i] + sold[i] <= newTotal + newAdjusted

\* setInventoryTotal (admin) and updateInventory (vendor).
SetInventoryTotal(i, n) ==
    /\ WithinConstraints(i, n, adjusted[i])
    /\ total' = [total EXCEPT ![i] = n]
    /\ UNCHANGED <<adjusted, reserved, sold, rows, requests, paystack, clock>>

\* record_inventory_adjustment by hand, up to the bound MaxAdjusted.
RecordInventoryAdjustment(i, d) ==
    /\ d # 0
    /\ adjusted[i] + d \in -MaxAdjusted..MaxAdjusted
    /\ WithinConstraints(i, total[i], adjusted[i] + d)
    /\ adjusted' = [adjusted EXCEPT ![i] = @ + d]
    /\ UNCHANGED <<total, reserved, sold, rows, requests, paystack, clock>>

-----------------------------------------------------------------------------
(* Time.                                                                   *)

ReservationLapses(o) ==
    /\ hold[o] = "open"
    /\ status[o] = "pending_payment"
    /\ hold' = [hold EXCEPT ![o] = "lapsed"]
    /\ UNCHANGED <<inventory, status, batched, payment, provider, unresolved,
                   issue, stranded, requests, paystack, clock>>

\* The 48 hours run out on an order the sweep could still select. It runs every
\* few minutes, so not on a capture that it has yet to find.
PaymentAges(o) ==
    /\ InSweep(o)
    /\ charge[o] # "paid"
    /\ age' = [age EXCEPT ![o] = "old"]
    /\ UNCHANGED <<inventory, rows, requests, paystack, cutoff>>

CutoffPasses ==
    /\ ~cutoff
    /\ cutoff' = TRUE
    /\ UNCHANGED <<inventory, rows, requests, paystack, age>>

-----------------------------------------------------------------------------
CustomerStep(o) ==
    \/ CreatePendingOrder(o)
    \/ CreatePaidOrderFromWallet(o)
    \/ InitializeAsk(o)
    \/ InitializeAnswer(o)
    \/ MarkInitializationPayload(o)
    \/ ExtendReservationWindow(o)
    \/ InitializeFails(o)
    \/ CustomerPays(o)

SettlementStep(o) ==
    \/ Webhook(o)
    \/ PollVerify(o)
    \/ SweepVerify(o)
    \/ AdminReconcile(o)
    \/ ApplyVerified(o)
    \/ VerifiedCallLost(o)
    \/ ForcePaymentPaid(o)

OrderStep(o) ==
    \/ ReleaseExpiredReservation(o)
    \/ \E to \in Targets : TransitionOrderStatus(o, to)
    \/ ReservationLapses(o)
    \/ PaymentAges(o)

StockStep(i) ==
    \/ \E n \in 0..MaxTotal : SetInventoryTotal(i, n)
    \/ \E d \in -1..1 : RecordInventoryAdjustment(i, d)

Next ==
    \/ \E o \in Orders : CustomerStep(o) \/ SettlementStep(o) \/ OrderStep(o)
    \/ \E i \in Items : StockStep(i)
    \/ CutoffPasses

Spec == Init /\ [][Next]_vars

\* Time passes and both jobs are scheduled forever (pg_cron and render.yaml);
\* their database calls may fail, but not every time.
Fairness ==
    \A o \in Orders :
        /\ WF_vars(ReservationLapses(o))
        /\ WF_vars(ReleaseExpiredReservation(o))
        /\ WF_vars(SweepVerify(o))
        /\ SF_vars(ApplyVerified(o))

FairSpec == Spec /\ Fairness

-----------------------------------------------------------------------------
(* Properties.                                                             *)

\* The units of row i that a set of orders asks for, one element each.
Units(S, i) == UNION {{o} \X (1..Ordered(o, i)) : o \in S}

\* Orders whose units quantity_reserved counts: those awaiting payment, and
\* those that transition_order_status ended without giving anything back.
Holding == {o \in Orders : status[o] = "pending_payment"} \cup stranded

\* Orders in a delivery batch, i.e. those that were sold.
Booked == {o \in Orders : batched[o]}

\* Carts without two lines naming one item (see MCOrdersLines for the others).
SingleLines == \A o \in Orders, i \in Items : Lines[o][i] = 1

\* quantity_reserved is exactly what the orders still holding a reservation
\* asked for: no interleaving of payment, expiry, recovery, webhook, sweep and
\* forced payment gives a unit back twice or forgets one.
ReservedAccounted ==
    \A i \in Items : reserved[i] = Cardinality(Units(Holding, i))

\* quantity_sold is exactly what the batched orders asked for: however many
\* webhooks, polls, sweeps and administrators report a capture, it sells once.
SoldAccounted ==
    \A i \in Items : sold[i] = Cardinality(Units(Booked, i))

\* The check constraints of menu_item_inventory hold after every checkout,
\* expiry and recovery step, so none of those transactions is ever rejected by
\* them (a rejected recovery would strand captured money).
NeverOversold ==
    \A i \in Items :
        /\ total[i] >= 0
        /\ reserved[i] >= 0
        /\ sold[i] >= 0
        /\ reserved[i] + sold[i] <= Capacity(i)

\* Whoever reports, forces, expires or recovers a payment, in any order and any
\* number of times, the counters of menu_item_inventory agree with the orders
\* that hold and bought units, and stay within the capacity.
InventoryBalances == ReservedAccounted /\ SoldAccounted /\ NeverOversold

\* A sold order never waits for payment again, and a successful payment's
\* order is sold: mark_verified_payment_successful can not sell it anew.
SoldStaysSold ==
    \A o \in Orders :
        /\ batched[o] => status[o] \notin Awaiting \cup {"none"}
        /\ payment[o] = "successful" => batched[o]

\* An order in fulfilment was sold by a verified, forced or wallet payment; the
\* only other way in is pending_payment -> paid by transition_order_status.
FulfilmentIsSold ==
    \A o \in Orders :
        status[o] \in {"paid", "ready", "out_for_delivery", "delivered",
                       "administratively_completed", "refunded"}
            => batched[o] \/ o \in stranded

\* Once the charge.success event row is committed Paystack stops retrying; by
\* then the capture is sold, or flagged in the outbox, or an open issue.
NoCaptureSwallowed ==
    \A o \in Orders : seen[o] => batched[o] \/ unresolved[o] \/ issue[o]

\* Every capture becomes one sale or somebody's problem, sales stay, and food
\* is cooked for sales only, whatever delivers the capture and however often.
SalesHold == SoldStaysSold /\ FulfilmentIsSold /\ NoCaptureSwallowed

\* Honouring an expired order's capture raises the capacity by no more than
\* the shortfall: right after, the row is exactly full.
RecoveryIsMinimal ==
    [][\A i \in Items :
          adjusted'[i] > adjusted[i] /\ sold'[i] > sold[i]
              => reserved'[i] + sold'[i] = total'[i] + adjusted'[i]]_vars

\* Reservations end: nothing waits for payment forever.
PendingEnds ==
    \A o \in Orders :
        status[o] = "pending_payment" ~> status[o] # "pending_payment"

\* A capture the customer made is honoured even if every webhook is lost: the
\* order leaves pending_payment and expired (payments.repository.ts:104).
CaptureNeverStranded ==
    \A o \in Orders :
        /\ charge[o] = "paid"
        /\ InSweep(o)
        ~> status[o] \notin Awaiting

\* The expiry job gives back all the order reserved.
ReleasedInFull ==
    [][\A o \in Orders :
          status[o] = "pending_payment" /\ status'[o] = "expired"
              /\ o \notin stranded'
              => \A i \in Items : reserved'[i] = reserved[i] - Ordered(o, i)]_vars

\* "release_expired_reservations already released this order's reservation":
\* with every order expired, nothing is reserved.
ExpiredHoldsNothing ==
    (\A o \in Orders : status[o] \in {"none", "expired"})
        => \A i \in Items : reserved[i] = 0

\* A sold order's payment row says successful.
SoldOrderPaymentSuccessful ==
    \A o \in Orders : batched[o] => payment[o] = "successful"

-----------------------------------------------------------------------------
(* Checkout keeps the promise of Stock: the counters' capacity, the orders *)
(* they hold units for, and the batched orders.                            *)
S == INSTANCE Stock WITH
        Quantity <- [o \in Orders |-> [i \in Items |-> Ordered(o, i)]],
        capacity <- [i \in Items |-> Capacity(i)],
        holding <- Holding,
        taken <- Booked

\* Every step of checkout is a step of Stock, or changes nothing it speaks of:
\* units are held, given back, bought out of a hold, bought at once, or bought
\* late, and stretch the capacity only then and only by what is missing.
ImplementsStock == S!Spec
=============================================================================
