---------------------------- MODULE OrdersProofs ----------------------------
(***************************************************************************)
(* Theorems about Orders, for every set of orders, carts and inventory.    *)
(***************************************************************************)
EXTENDS Orders, FiniteSetTheorems, TLAPS

LEMMA QuantitiesAreNat ==
    ASSUME NEW o \in Orders, NEW i \in Items
    PROVE  /\ Moved(o, i) \in Nat
           /\ Ordered(o, i) \in Nat
  BY CartAssumption, SMT DEF Moved, Ordered

LEMMA ShortfallIsNat ==
    ASSUME TypeOK, NEW o \in Orders, NEW i \in Items
    PROVE  Shortfall(o, i) \in Nat
  BY QuantitiesAreNat, SMT DEF Shortfall, Remaining, Capacity, TypeOK

LEMMA NextStatusesAreStatuses ==
    ASSUME NEW from \in Statuses
    PROVE  NextStatuses(from) \subseteq Statuses
  BY DEF NextStatuses, Statuses

LEMMA MarkPreservesTypes ==
    ASSUME TypeOK, NEW o \in Orders, MarkVerifiedPaymentSuccessful(o)
    PROVE  /\ adjusted' \in [Items -> Int]
           /\ reserved' \in [Items -> Int]
           /\ sold' \in [Items -> Int]
           /\ status' \in [Orders -> Statuses]
           /\ hold' \in [Orders -> {"none", "open", "lapsed"}]
           /\ batched' \in [Orders -> BOOLEAN]
           /\ payment' \in [Orders -> {"none", "successful"} \cup Unpaid]
           /\ unresolved' \in [Orders -> BOOLEAN]
  <1>1. CASE AlreadySuccessful(o)
    BY <1>1 DEF AlreadySuccessful, marks, TypeOK
  <1>2. CASE NotOpenForSale(o)
    BY <1>2 DEF NotOpenForSale, TypeOK
  <1>3. CASE BookSale(o)
    <2>1. \A i \in Items : Moved(o, i) \in Nat /\ Shortfall(o, i) \in Nat
      BY QuantitiesAreNat, ShortfallIsNat
    <2>2. /\ sold' \in [Items -> Int]
          /\ reserved' \in [Items -> Int]
          /\ adjusted' \in [Items -> Int]
      BY <1>3, <2>1 DEF BookSale, TypeOK
    <2>3. /\ status' \in [Orders -> Statuses]
          /\ hold' \in [Orders -> {"none", "open", "lapsed"}]
          /\ batched' \in [Orders -> BOOLEAN]
          /\ payment' \in [Orders -> {"none", "successful"} \cup Unpaid]
          /\ unresolved' \in [Orders -> BOOLEAN]
      BY <1>3 DEF BookSale, TypeOK, Statuses
    <2> QED BY <2>2, <2>3
  <1> QED BY <1>1, <1>2, <1>3 DEF MarkVerifiedPaymentSuccessful

\* The columns, request states and clocks of checkout keep their types.
THEOREM TypeCorrect == Spec => []TypeOK
  <1>1. Init => TypeOK
    <2> SUFFICES ASSUME Init PROVE TypeOK
      OBVIOUS
    <2>1. /\ total \in [Items -> Int]
          /\ adjusted \in [Items -> Int]
          /\ reserved \in [Items -> Int]
          /\ sold \in [Items -> Int]
      BY BoundAssumption DEF Init
    <2>2. /\ status \in [Orders -> Statuses]
          /\ hold \in [Orders -> {"none", "open", "lapsed"}]
          /\ batched \in [Orders -> BOOLEAN]
          /\ payment \in [Orders -> {"none", "successful"} \cup Unpaid]
          /\ provider \in [Orders -> {"none", "paystack", "wallet"}]
          /\ checkout \in [Orders -> {"idle", "asked", "answered", "written"}]
          /\ charge \in [Orders -> {"none", "created", "open", "paid", "mispaid"}]
      BY DEF Init, Statuses
    <2>3. /\ verify \in [Orders -> BOOLEAN]
          /\ seen \in [Orders -> BOOLEAN]
          /\ unresolved \in [Orders -> BOOLEAN]
          /\ issue \in [Orders -> BOOLEAN]
          /\ age \in [Orders -> {"young", "old"}]
          /\ cutoff \in BOOLEAN
          /\ stranded \in SUBSET Orders
      BY DEF Init
    <2> QED BY <2>1, <2>2, <2>3 DEF TypeOK
  <1>2. TypeOK /\ [Next]_vars => TypeOK'
    <2> SUFFICES ASSUME TypeOK, [Next]_vars PROVE TypeOK'
      OBVIOUS
    <2>1. ASSUME NEW o \in Orders, CustomerStep(o) PROVE TypeOK'
      <3> \A i \in Items : Moved(o, i) \in Nat /\ Ordered(o, i) \in Nat
        BY QuantitiesAreNat
      <3>1. CASE CreatePendingOrder(o)
        BY <3>1 DEF CreatePendingOrder, TypeOK, Statuses, Unpaid, requests, paystack, clock
      <3>2. CASE CreatePaidOrderFromWallet(o)
        BY <3>2 DEF CreatePaidOrderFromWallet, TypeOK, Statuses, requests, paystack, clock
      <3>3. CASE InitializeAsk(o)
        BY <3>3 DEF InitializeAsk, TypeOK, inventory, rows, paystack, clock
      <3>4. CASE InitializeAnswer(o)
        BY <3>4 DEF InitializeAnswer, TypeOK, inventory, rows, clock
      <3>5. CASE MarkInitializationPayload(o)
        BY <3>5 DEF MarkInitializationPayload, TypeOK, Unpaid, inventory, paystack, clock
      <3>6. CASE ExtendReservationWindow(o)
        BY <3>6 DEF ExtendReservationWindow, TypeOK, inventory, clock
      <3>7. CASE InitializeFails(o)
        BY <3>7 DEF InitializeFails, TypeOK, inventory, rows, paystack, clock
      <3>8. CASE CustomerPays(o)
        BY <3>8 DEF CustomerPays, TypeOK, inventory, rows, requests, clock
      <3> QED BY <2>1, <3>1, <3>2, <3>3, <3>4, <3>5, <3>6, <3>7, <3>8 DEF CustomerStep
    <2>2. ASSUME NEW o \in Orders, SettlementStep(o) PROVE TypeOK'
      <3>1. CASE Webhook(o)
        <4>1. CASE MarkVerifiedPaymentSuccessful(o)
          BY <3>1, <4>1, MarkPreservesTypes DEF Webhook, TypeOK, requests, clock
        <4>2. CASE UNCHANGED marks
          BY <3>1, <4>2 DEF Webhook, TypeOK, marks, requests, clock
        <4> QED BY <3>1, <4>1, <4>2 DEF Webhook
      <3>2. CASE VerifySucceeds(o)
        BY <3>2 DEF VerifySucceeds, TypeOK, inventory, rows, paystack, clock
      <3>3. CASE ApplyVerified(o)
        BY <3>3, MarkPreservesTypes DEF ApplyVerified, TypeOK, paystack, clock
      <3>4. CASE VerifiedCallLost(o)
        BY <3>4 DEF VerifiedCallLost, TypeOK, inventory, rows, paystack, clock
      <3>5. CASE ForcePaymentPaid(o)
        BY <3>5, MarkPreservesTypes DEF ForcePaymentPaid, TypeOK, requests, paystack, clock
      <3> QED BY <2>2, <3>1, <3>2, <3>3, <3>4, <3>5
              DEF SettlementStep, PollVerify, SweepVerify, AdminReconcile
    <2>3. ASSUME NEW o \in Orders, OrderStep(o) PROVE TypeOK'
      <3>1. CASE ReleaseExpiredReservation(o)
        <4> \A i \in Items : Moved(o, i) \in Nat
          BY QuantitiesAreNat
        <4> QED BY <3>1 DEF ReleaseExpiredReservation, TypeOK, Statuses, requests, paystack, clock
      <3>2. ASSUME NEW to \in Targets, TransitionOrderStatus(o, to) PROVE TypeOK'
        <4>1. to \in Statuses
          BY <3>2, NextStatusesAreStatuses DEF TransitionOrderStatus, TypeOK
        <4> QED BY <3>2, <4>1 DEF TransitionOrderStatus, TypeOK, inventory, requests, paystack, clock
      <3>3. CASE ReservationLapses(o)
        BY <3>3 DEF ReservationLapses, TypeOK, inventory, requests, paystack, clock
      <3>4. CASE PaymentAges(o)
        BY <3>4 DEF PaymentAges, TypeOK, inventory, rows, requests, paystack
      <3> QED BY <2>3, <3>1, <3>2, <3>3, <3>4 DEF OrderStep
    <2>4. ASSUME NEW i \in Items, StockStep(i) PROVE TypeOK'
      <3>1. ASSUME NEW n \in 0..MaxTotal, SetInventoryTotal(i, n) PROVE TypeOK'
        BY <3>1 DEF SetInventoryTotal, TypeOK, rows, requests, paystack, clock
      <3>2. ASSUME NEW d \in -1..1, RecordInventoryAdjustment(i, d) PROVE TypeOK'
        BY <3>2 DEF RecordInventoryAdjustment, TypeOK, rows, requests, paystack, clock
      <3> QED BY <2>4, <3>1, <3>2 DEF StockStep
    <2>5. CASE CutoffPasses
      BY <2>5 DEF CutoffPasses, TypeOK, inventory, rows, requests, paystack
    <2>6. CASE UNCHANGED vars
      BY <2>6 DEF vars, TypeOK, inventory, rows, requests, paystack, clock
    <2> QED BY <2>1, <2>2, <2>3, <2>4, <2>5, <2>6 DEF Next
  <1> QED BY <1>1, <1>2, PTL DEF Spec

-----------------------------------------------------------------------------
(* Sales are final, and captures are never dropped.                        *)

SalesInv == TypeOK /\ SoldStaysSold /\ FulfilmentIsSold /\ NoCaptureSwallowed

\* The three outcomes of mark_verified_payment_successful leave a sold order
\* sold, and the one they are called for sold or flagged.
LEMMA MarkKeepsSales ==
    ASSUME SalesInv, NEW o \in Orders, MarkVerifiedPaymentSuccessful(o),
           stranded' = stranded
    PROVE  /\ SoldStaysSold'
           /\ FulfilmentIsSold'
           /\ \A p \in Orders : /\ batched[p] => batched'[p]
                                /\ unresolved[p] => unresolved'[p]
           /\ batched'[o] \/ unresolved'[o]
  <1>1. CASE AlreadySuccessful(o)
    BY <1>1 DEF AlreadySuccessful, marks, SalesInv, SoldStaysSold, FulfilmentIsSold
  <1>2. CASE NotOpenForSale(o)
    BY <1>2 DEF NotOpenForSale, SalesInv, TypeOK, SoldStaysSold, FulfilmentIsSold
  <1>3. CASE BookSale(o)
    BY <1>3 DEF BookSale, SalesInv, TypeOK, SoldStaysSold, FulfilmentIsSold, Awaiting
  <1> QED BY <1>1, <1>2, <1>3 DEF MarkVerifiedPaymentSuccessful

\* What a step must leave alone to leave SalesInv alone.
LEMMA SalesUnchanged ==
    ASSUME SalesInv,
           UNCHANGED <<status, batched, payment, unresolved, issue, stranded, seen>>
    PROVE  SoldStaysSold' /\ FulfilmentIsSold' /\ NoCaptureSwallowed'
  BY DEF SalesInv, SoldStaysSold, FulfilmentIsSold, NoCaptureSwallowed

LEMMA SalesStep ==
    ASSUME SalesInv, [Next]_vars
    PROVE  SoldStaysSold' /\ FulfilmentIsSold' /\ NoCaptureSwallowed'
  <1> DEFINE Goal == SoldStaysSold' /\ FulfilmentIsSold' /\ NoCaptureSwallowed'
  <1> USE DEF SalesInv
  <1>1. ASSUME NEW o \in Orders, CustomerStep(o) PROVE Goal
    <2>1. CASE CreatePendingOrder(o)
      BY <2>1 DEF CreatePendingOrder, Orderable, TypeOK, SoldStaysSold,
                  FulfilmentIsSold, NoCaptureSwallowed, Awaiting, paystack
    <2>2. CASE CreatePaidOrderFromWallet(o)
      BY <2>2 DEF CreatePaidOrderFromWallet, TypeOK, SoldStaysSold,
                  FulfilmentIsSold, NoCaptureSwallowed, Awaiting, paystack
    <2>3. CASE MarkInitializationPayload(o)
      BY <2>3 DEF MarkInitializationPayload, TypeOK, SoldStaysSold,
                  FulfilmentIsSold, NoCaptureSwallowed, paystack
    <2>4. CASE \/ InitializeAsk(o) \/ InitializeAnswer(o) \/ InitializeFails(o)
               \/ ExtendReservationWindow(o) \/ CustomerPays(o)
      BY <2>4, SalesUnchanged
         DEF InitializeAsk, InitializeAnswer, InitializeFails, CustomerPays,
             ExtendReservationWindow, rows, paystack
    <2> QED BY <1>1, <2>1, <2>2, <2>3, <2>4 DEF CustomerStep
  <1>2. ASSUME NEW o \in Orders, SettlementStep(o) PROVE Goal
    <2>1. CASE Webhook(o)
      <3>1. CASE charge[o] = "paid"
        <4>1. MarkVerifiedPaymentSuccessful(o) /\ UNCHANGED <<issue, stranded>>
          BY <2>1, <3>1 DEF Webhook
        <4>2. seen' = [seen EXCEPT ![o] = TRUE]
          BY <2>1 DEF Webhook
        <4> QED BY <4>1, <4>2, MarkKeepsSales DEF NoCaptureSwallowed, TypeOK
      <3>2. CASE charge[o] = "mispaid"
        <4>1. /\ UNCHANGED <<status, batched, payment, unresolved, stranded>>
              /\ issue' = [issue EXCEPT ![o] = TRUE]
              /\ seen' = [seen EXCEPT ![o] = TRUE]
          BY <2>1, <3>2 DEF Webhook, marks
        <4> QED BY <4>1 DEF SoldStaysSold, FulfilmentIsSold, NoCaptureSwallowed, TypeOK
      <3> QED BY <2>1, <3>1, <3>2 DEF Webhook
    <2>2. CASE ApplyVerified(o) \/ ForcePaymentPaid(o)
      <3>1. MarkVerifiedPaymentSuccessful(o) /\ UNCHANGED <<issue, stranded, seen>>
        BY <2>2 DEF ApplyVerified, ForcePaymentPaid, paystack
      <3> QED BY <3>1, MarkKeepsSales DEF NoCaptureSwallowed
    <2>3. CASE VerifySucceeds(o) \/ VerifiedCallLost(o)
      BY <2>3, SalesUnchanged DEF VerifySucceeds, VerifiedCallLost, rows, paystack
    <2> QED BY <1>2, <2>1, <2>2, <2>3
            DEF SettlementStep, PollVerify, SweepVerify, AdminReconcile
  <1>3. ASSUME NEW o \in Orders, OrderStep(o) PROVE Goal
    <2>1. CASE ReleaseExpiredReservation(o)
      BY <2>1 DEF ReleaseExpiredReservation, TypeOK, SoldStaysSold,
                  FulfilmentIsSold, NoCaptureSwallowed, Awaiting, paystack
    <2>2. ASSUME NEW to \in Targets, TransitionOrderStatus(o, to) PROVE Goal
      <3>1. /\ UNCHANGED <<batched, payment, unresolved, issue, seen>>
            /\ status' = [status EXCEPT ![o] = to]
            /\ to \in NextStatuses(status[o])
            /\ stranded' = IF status[o] = "pending_payment"
                             THEN stranded \cup {o} ELSE stranded
        BY <2>2 DEF TransitionOrderStatus, paystack
      <3>2. SoldStaysSold'
        BY <3>1 DEF TypeOK, SoldStaysSold, NextStatuses, Awaiting
      <3>3. FulfilmentIsSold'
        BY <3>1 DEF TypeOK, FulfilmentIsSold, NextStatuses
      <3>4. NoCaptureSwallowed'
        BY <3>1 DEF NoCaptureSwallowed
      <3> QED BY <3>2, <3>3, <3>4
    <2>3. CASE ReservationLapses(o) \/ PaymentAges(o)
      BY <2>3, SalesUnchanged DEF ReservationLapses, PaymentAges, rows, paystack
    <2> QED BY <1>3, <2>1, <2>2, <2>3 DEF OrderStep
  <1>4. ASSUME NEW i \in Items, StockStep(i) PROVE Goal
    BY <1>4, SalesUnchanged
       DEF StockStep, SetInventoryTotal, RecordInventoryAdjustment, rows, paystack
  <1>5. CASE CutoffPasses
    BY <1>5, SalesUnchanged DEF CutoffPasses, rows, paystack
  <1>6. CASE UNCHANGED vars
    BY <1>6, SalesUnchanged DEF vars, rows, paystack
  <1> QED BY <1>1, <1>2, <1>3, <1>4, <1>5, <1>6 DEF Next

\* A sold order never waits for payment again and a successful payment's order
\* is sold; fulfilment starts with a sale; a committed charge.success event
\* leaves a sale, an outbox event or a reconciliation issue behind.
THEOREM SalesAreFinal == Spec => []SalesHold
  <1>1. Init => SalesHold
    BY DEF Init, SalesHold, SoldStaysSold, FulfilmentIsSold,
           NoCaptureSwallowed, Awaiting
  <1>2. TypeOK /\ SalesHold /\ [Next]_vars => SalesHold'
    BY SalesStep DEF SalesInv, SalesHold
  <1> QED BY <1>1, <1>2, TypeCorrect, PTL DEF Spec

-----------------------------------------------------------------------------
(* Units: the cardinality that the inventory counters are compared with.   *)

LEMMA UnitsFinite ==
    ASSUME NEW orders \in SUBSET Orders, NEW i \in Items
    PROVE  /\ IsFiniteSet(Units(orders, i))
           /\ Cardinality(Units(orders, i)) \in Nat
  <1> DEFINE row == [o \in orders |-> {o} \X (1..Ordered(o, i))]
             P == {{o} \X (1..Ordered(o, i)) : o \in orders}
  <1>1. IsFiniteSet(orders)
    BY OrdersAssumption, FS_Subset
  <1>2. row \in Surjection(orders, P)
    BY DEF Surjection
  <1>3. IsFiniteSet(P)
    BY <1>1, <1>2, FS_Surjection
  <1>4. ASSUME NEW o \in orders PROVE IsFiniteSet({o} \X (1..Ordered(o, i)))
    <2>1. IsFiniteSet({o})
      BY FS_Singleton
    <2>2. IsFiniteSet(1..Ordered(o, i))
      BY QuantitiesAreNat, FS_Interval
    <2> QED BY <2>1, <2>2, FS_Product
  <1>5. IsFiniteSet(UNION P)
    <2>1. \A T \in P : IsFiniteSet(T)
      BY <1>4
    <2> HIDE DEF P
    <2> QED BY <1>3, <2>1, FS_UNION
  <1> QED BY <1>5, FS_CardinalityType DEF Units

LEMMA UnitsAdd ==
    ASSUME NEW orders \in SUBSET Orders, NEW o \in Orders \ orders, NEW i \in Items
    PROVE  Cardinality(Units(orders \cup {o}, i)) = Cardinality(Units(orders, i)) + Ordered(o, i)
  <1> DEFINE n == Ordered(o, i)
             T == {o} \X (1..n)
  <1>1. n \in Nat
    BY QuantitiesAreNat
  <1> HIDE DEF n
  <1>2. IsFiniteSet(T) /\ Cardinality(T) = n
    <2>1. IsFiniteSet({o}) /\ Cardinality({o}) = 1
      BY FS_Singleton
    <2>2. IsFiniteSet(1..n) /\ Cardinality(1..n) = n
      BY <1>1, FS_Interval
    <2>3. IsFiniteSet(T) /\ Cardinality(T) = Cardinality({o}) * Cardinality(1..n)
      BY <2>1, <2>2, FS_Product
    <2> QED BY <1>1, <2>1, <2>2, <2>3
  <1>3. Units(orders \cup {o}, i) = Units(orders, i) \cup T
    BY DEF Units, n
  <1>4. Units(orders, i) \cap T = {}
    BY DEF Units
  <1>5. Cardinality(Units(orders, i) \cap T) = 0
    BY <1>4, FS_EmptySet
  <1>6. IsFiniteSet(Units(orders, i)) /\ Cardinality(Units(orders, i)) \in Nat
    BY UnitsFinite
  <1> HIDE DEF T
  <1>7. Cardinality(Units(orders, i) \cup T)
          = Cardinality(Units(orders, i)) + Cardinality(T) - Cardinality(Units(orders, i) \cap T)
    BY <1>2, <1>6, FS_Union
  <1>8. Cardinality(Units(orders \cup {o}, i)) = Cardinality(Units(orders, i) \cup T)
    BY <1>3
  <1>9. Cardinality(Units(orders, i) \cup T) = Cardinality(Units(orders, i)) + n
    BY <1>1, <1>2, <1>5, <1>6, <1>7
  <1> QED BY <1>8, <1>9 DEF n

LEMMA UnitsRemove ==
    ASSUME NEW orders \in SUBSET Orders, NEW o \in orders, NEW i \in Items
    PROVE  Cardinality(Units(orders \ {o}, i)) = Cardinality(Units(orders, i)) - Ordered(o, i)
  <1>1. (orders \ {o}) \cup {o} = orders
    OBVIOUS
  <1>2. Cardinality(Units(orders, i)) = Cardinality(Units(orders \ {o}, i)) + Ordered(o, i)
    BY <1>1, UnitsAdd
  <1>3. /\ Cardinality(Units(orders \ {o}, i)) \in Nat
        /\ Ordered(o, i) \in Nat
    BY UnitsFinite, QuantitiesAreNat
  <1> QED BY <1>2, <1>3

-----------------------------------------------------------------------------
(* The counters account for the orders, and never exceed the capacity.     *)

\* An order that transition_order_status took out of pending_payment is over
\* for create and release, so neither counts its units again.
StrandedLeft == \A o \in stranded : status[o] \notin {"none", "pending_payment"}

Accounted ==
    /\ StrandedLeft
    /\ ReservedAccounted
    /\ SoldAccounted
    /\ NeverOversold

AccountInv == TypeOK /\ SoldStaysSold /\ Accounted

LEMMA HoldingAndBookedAreOrders ==
    ASSUME TypeOK
    PROVE  Holding \in SUBSET Orders /\ Booked \in SUBSET Orders
  BY DEF TypeOK, Holding, Booked

\* On single lines, a joined update moves exactly what was reserved.
LEMMA MovedIsOrdered ==
    ASSUME SingleLines, NEW o \in Orders, NEW i \in Items
    PROVE  Moved(o, i) = Ordered(o, i)
  BY CartAssumption DEF SingleLines, Moved, Ordered

\* What a step must leave alone to leave the accounts alone.
LEMMA AccountsUnchanged ==
    ASSUME AccountInv, UNCHANGED <<inventory, status, batched, stranded>>
    PROVE  Accounted'
  <1>1. Holding' = Holding /\ Booked' = Booked
    BY DEF Holding, Booked
  <1>2. UNCHANGED <<total, adjusted, reserved, sold>>
    BY DEF inventory
  <1>3. ReservedAccounted' /\ SoldAccounted'
    BY <1>1, <1>2 DEF AccountInv, Accounted, ReservedAccounted, SoldAccounted, Units, Ordered
  <1>4. NeverOversold'
    BY <1>2 DEF AccountInv, Accounted, NeverOversold, Capacity
  <1>5. StrandedLeft'
    BY DEF AccountInv, Accounted, StrandedLeft
  <1> QED BY <1>3, <1>4, <1>5 DEF Accounted

\* The accounts after a step, from how it moves orders between the two sets.
LEMMA AccountsMove ==
    ASSUME TypeOK, TypeOK', ReservedAccounted, SoldAccounted,
           NEW o \in Orders,
           NEW h \in {-1, 0, 1}, NEW b \in {0, 1},
           \/ h = 1  /\ o \notin Holding /\ Holding' = Holding \cup {o}
           \/ h = 0  /\ Holding' = Holding
           \/ h = -1 /\ o \in Holding /\ Holding' = Holding \ {o},
           \/ b = 1 /\ o \notin Booked /\ Booked' = Booked \cup {o}
           \/ b = 0 /\ Booked' = Booked,
           \A i \in Items : /\ reserved'[i] = reserved[i] + h * Ordered(o, i)
                            /\ sold'[i] = sold[i] + b * Ordered(o, i)
    PROVE  ReservedAccounted' /\ SoldAccounted'
  <1>0. Holding \in SUBSET Orders /\ Booked \in SUBSET Orders
    BY HoldingAndBookedAreOrders
  <1>1. ASSUME NEW i \in Items PROVE reserved'[i] = Cardinality(Units(Holding', i))
    <2>1. Ordered(o, i) \in Nat /\ reserved[i] \in Int /\ reserved[i] = Cardinality(Units(Holding, i))
      BY QuantitiesAreNat DEF ReservedAccounted, TypeOK
    <2>2. CASE h = 1
      <3>1. Cardinality(Units(Holding', i)) = Cardinality(Units(Holding, i)) + Ordered(o, i)
        BY <1>0, <2>2, UnitsAdd
      <3> QED BY <2>1, <2>2, <3>1
    <2>3. CASE h = 0
      BY <2>1, <2>3
    <2>4. CASE h = -1
      <3>1. Cardinality(Units(Holding', i)) = Cardinality(Units(Holding, i)) - Ordered(o, i)
        BY <1>0, <2>4, UnitsRemove
      <3> QED BY <2>1, <2>4, <3>1
    <2> QED BY <2>2, <2>3, <2>4
  <1>2. ASSUME NEW i \in Items PROVE sold'[i] = Cardinality(Units(Booked', i))
    <2>1. Ordered(o, i) \in Nat /\ sold[i] \in Int /\ sold[i] = Cardinality(Units(Booked, i))
      BY QuantitiesAreNat DEF SoldAccounted, TypeOK
    <2>2. CASE b = 1
      <3>1. Cardinality(Units(Booked', i)) = Cardinality(Units(Booked, i)) + Ordered(o, i)
        BY <1>0, <2>2, UnitsAdd
      <3> QED BY <2>1, <2>2, <3>1
    <2>3. CASE b = 0
      BY <2>1, <2>3
    <2> QED BY <2>2, <2>3
  <1>3. (\A i \in Items : reserved[i] = Cardinality(Units(Holding, i)))'
    BY <1>1 DEF Units, Ordered
  <1>4. (\A i \in Items : sold[i] = Cardinality(Units(Booked, i)))'
    BY <1>2 DEF Units, Ordered
  <1> QED BY <1>3, <1>4 DEF ReservedAccounted, SoldAccounted

\* Counters that equal cardinalities are not negative.
LEMMA AccountsStayNat ==
    ASSUME TypeOK', ReservedAccounted', SoldAccounted'
    PROVE  \A i \in Items : reserved'[i] >= 0 /\ sold'[i] >= 0
  <1>1. Holding' \in SUBSET Orders /\ Booked' \in SUBSET Orders
    BY DEF TypeOK, Holding, Booked
  <1>2. \A i \in Items : /\ reserved'[i] = Cardinality(Units(Holding', i))
                         /\ sold'[i] = Cardinality(Units(Booked', i))
    BY DEF ReservedAccounted, SoldAccounted, Units, Ordered
  <1>3. \A i \in Items : /\ Cardinality(Units(Holding', i)) \in Nat
                         /\ Cardinality(Units(Booked', i)) \in Nat
    BY <1>1, UnitsFinite
  <1> QED BY <1>2, <1>3

LEMMA BookSaleKeepsAccounts ==
    ASSUME SingleLines, AccountInv, TypeOK', NEW o \in Orders, BookSale(o),
           UNCHANGED <<total, stranded>>
    PROVE  Accounted'
  <1> USE DEF AccountInv, Accounted
  <1>0. \A i \in Items : Moved(o, i) = Ordered(o, i) /\ Ordered(o, i) \in Nat
    BY MovedIsOrdered, QuantitiesAreNat
  <1>1. o \notin Booked /\ Booked' = Booked \cup {o}
    BY DEF BookSale, SoldStaysSold, Booked, TypeOK
  <1>2. StrandedLeft'
    BY DEF BookSale, StrandedLeft, TypeOK
  <1>3. CASE status[o] = "pending_payment"
    <2>1. o \in Holding /\ Holding' = Holding \ {o}
      BY <1>3 DEF BookSale, Holding, StrandedLeft, TypeOK
    <2>2. \A i \in Items : /\ reserved'[i] = reserved[i] - Ordered(o, i)
                           /\ sold'[i] = sold[i] + Ordered(o, i)
                           /\ adjusted'[i] = adjusted[i]
      BY <1>0, <1>3 DEF BookSale, TypeOK
    <2>3. ReservedAccounted' /\ SoldAccounted'
      <3>1. \A i \in Items : /\ reserved'[i] = reserved[i] + (-1) * Ordered(o, i)
                             /\ sold'[i] = sold[i] + 1 * Ordered(o, i)
        BY <1>0, <2>2 DEF TypeOK
      <3> QED BY <1>1, <2>1, <3>1, AccountsMove
    <2>4. NeverOversold'
      BY <1>0, <2>2, <2>3, AccountsStayNat DEF NeverOversold, Capacity, TypeOK
    <2> QED BY <1>2, <2>3, <2>4
  <1>4. CASE status[o] = "expired"
    <2>1. Holding' = Holding
      BY <1>4 DEF BookSale, Holding, TypeOK
    <2>2. \A i \in Items : /\ reserved'[i] = reserved[i]
                           /\ sold'[i] = sold[i] + Ordered(o, i)
                           /\ adjusted'[i] = adjusted[i] + Shortfall(o, i)
      BY <1>0, <1>4 DEF BookSale, TypeOK
    <2>3. ReservedAccounted' /\ SoldAccounted'
      <3>1. \A i \in Items : /\ reserved'[i] = reserved[i] + 0 * Ordered(o, i)
                             /\ sold'[i] = sold[i] + 1 * Ordered(o, i)
        BY <1>0, <2>2 DEF TypeOK
      <3> QED BY <1>1, <2>1, <3>1, AccountsMove
    <2>4. NeverOversold'
      <3>1. \A i \in Items : reserved'[i] + sold'[i] <= total'[i] + adjusted'[i]
        BY <1>0, <2>2 DEF NeverOversold, Shortfall, Remaining, Capacity, TypeOK
      <3> QED BY <3>1, <2>3, AccountsStayNat DEF NeverOversold, Capacity
    <2> QED BY <1>2, <2>3, <2>4
  <1> QED BY <1>3, <1>4 DEF BookSale

LEMMA MarkKeepsAccounts ==
    ASSUME SingleLines, AccountInv, TypeOK', NEW o \in Orders,
           MarkVerifiedPaymentSuccessful(o), UNCHANGED <<total, stranded>>
    PROVE  Accounted'
  <1>1. CASE AlreadySuccessful(o) \/ NotOpenForSale(o)
    BY <1>1, AccountsUnchanged DEF AlreadySuccessful, NotOpenForSale, marks, inventory
  <1>2. CASE BookSale(o)
    BY <1>2, BookSaleKeepsAccounts
  <1> QED BY <1>1, <1>2 DEF MarkVerifiedPaymentSuccessful

LEMMA CreateKeepsAccounts ==
    ASSUME SingleLines, AccountInv, TypeOK', NEW o \in Orders,
           CreatePendingOrder(o) \/ CreatePaidOrderFromWallet(o)
    PROVE  Accounted'
  <1> USE DEF AccountInv, Accounted
  <1>0. /\ \A i \in Items : Moved(o, i) = Ordered(o, i) /\ Ordered(o, i) \in Nat
        /\ \A i \in Items : Remaining(i) >= Ordered(o, i)
        /\ status[o] = "none"
        /\ UNCHANGED <<total, adjusted, stranded>>
    BY MovedIsOrdered, QuantitiesAreNat
       DEF CreatePendingOrder, CreatePaidOrderFromWallet, Orderable
  <1>1. o \notin Holding /\ o \notin Booked
    BY <1>0 DEF Holding, Booked, StrandedLeft, SoldStaysSold
  <1>2. StrandedLeft'
    BY <1>0 DEF CreatePendingOrder, CreatePaidOrderFromWallet, StrandedLeft, TypeOK
  <1>3. CASE CreatePendingOrder(o)
    <2>1. Holding' = Holding \cup {o} /\ Booked' = Booked
      BY <1>3 DEF CreatePendingOrder, Holding, Booked, TypeOK
    <2>2. \A i \in Items : /\ reserved'[i] = reserved[i] + 1 * Ordered(o, i)
                           /\ sold'[i] = sold[i] + 0 * Ordered(o, i)
      BY <1>0, <1>3 DEF CreatePendingOrder, TypeOK
    <2>3. ReservedAccounted' /\ SoldAccounted'
      BY <1>1, <2>1, <2>2, AccountsMove
    <2>4. NeverOversold'
      BY <1>0, <2>2, <2>3, AccountsStayNat DEF NeverOversold, Remaining, Capacity, TypeOK
    <2> QED BY <1>2, <2>3, <2>4
  <1>4. CASE CreatePaidOrderFromWallet(o)
    <2>1. Holding' = Holding /\ Booked' = Booked \cup {o}
      BY <1>0, <1>4 DEF CreatePaidOrderFromWallet, Holding, Booked, TypeOK
    <2>2. \A i \in Items : /\ reserved'[i] = reserved[i] + 0 * Ordered(o, i)
                           /\ sold'[i] = sold[i] + 1 * Ordered(o, i)
      BY <1>0, <1>4 DEF CreatePaidOrderFromWallet, TypeOK
    <2>3. ReservedAccounted' /\ SoldAccounted'
      BY <1>1, <2>1, <2>2, AccountsMove
    <2>4. NeverOversold'
      BY <1>0, <2>2, <2>3, AccountsStayNat DEF NeverOversold, Remaining, Capacity, TypeOK
    <2> QED BY <1>2, <2>3, <2>4
  <1> QED BY <1>3, <1>4

LEMMA OrderStepKeepsAccounts ==
    ASSUME SingleLines, AccountInv, TypeOK', NEW o \in Orders, OrderStep(o)
    PROVE  Accounted'
  <1>1. CASE ReleaseExpiredReservation(o)
    <2> USE DEF AccountInv, Accounted
    <2>0. \A i \in Items : Moved(o, i) = Ordered(o, i) /\ Ordered(o, i) \in Nat
      BY MovedIsOrdered, QuantitiesAreNat
    <2>1. /\ o \in Holding /\ Holding' = Holding \ {o}
          /\ Booked' = Booked
      BY <1>1 DEF ReleaseExpiredReservation, Holding, Booked, StrandedLeft, TypeOK
    <2>2. \A i \in Items : /\ reserved'[i] = reserved[i] + (-1) * Ordered(o, i)
                           /\ sold'[i] = sold[i] + 0 * Ordered(o, i)
                           /\ UNCHANGED <<total, adjusted>>
      BY <1>1, <2>0 DEF ReleaseExpiredReservation, TypeOK
    <2>3. ReservedAccounted' /\ SoldAccounted'
      BY <2>1, <2>2, AccountsMove
    <2>4. NeverOversold'
      BY <2>0, <2>2, <2>3, AccountsStayNat DEF NeverOversold, Capacity, TypeOK
    <2>5. StrandedLeft'
      BY <1>1 DEF ReleaseExpiredReservation, StrandedLeft, TypeOK
    <2> QED BY <2>3, <2>4, <2>5
  <1>2. ASSUME NEW to \in Targets, TransitionOrderStatus(o, to) PROVE Accounted'
    <2> USE DEF AccountInv, Accounted
    <2>1. /\ status' = [status EXCEPT ![o] = to]
          /\ to \in NextStatuses(status[o])
          /\ stranded' = IF status[o] = "pending_payment"
                           THEN stranded \cup {o} ELSE stranded
          /\ UNCHANGED <<total, adjusted, reserved, sold, batched>>
      BY <1>2 DEF TransitionOrderStatus, inventory
    <2>2. to \notin {"none", "pending_payment"} /\ status[o] # "none"
      BY <2>1 DEF NextStatuses
    <2>3. Holding' = Holding /\ Booked' = Booked
      BY <2>1, <2>2 DEF Holding, Booked, TypeOK
    <2>4. ReservedAccounted' /\ SoldAccounted'
      BY <2>1, <2>3 DEF ReservedAccounted, SoldAccounted, Units, Ordered
    <2>5. NeverOversold'
      BY <2>1 DEF NeverOversold, Capacity
    <2>6. StrandedLeft'
      BY <2>1, <2>2 DEF StrandedLeft, TypeOK
    <2> QED BY <2>4, <2>5, <2>6
  <1>3. CASE ReservationLapses(o) \/ PaymentAges(o)
    BY <1>3, AccountsUnchanged DEF ReservationLapses, PaymentAges, rows
  <1> QED BY <1>1, <1>2, <1>3 DEF OrderStep

LEMMA StockStepKeepsAccounts ==
    ASSUME AccountInv, NEW i \in Items, StockStep(i)
    PROVE  Accounted'
  <1> USE DEF AccountInv, Accounted
  <1>1. UNCHANGED <<reserved, sold, status, batched, stranded>>
    BY DEF StockStep, SetInventoryTotal, RecordInventoryAdjustment, rows
  <1>2. Holding' = Holding /\ Booked' = Booked
    BY <1>1 DEF Holding, Booked
  <1>3. ReservedAccounted' /\ SoldAccounted'
    BY <1>1, <1>2 DEF ReservedAccounted, SoldAccounted, Units, Ordered
  <1>4. StrandedLeft'
    BY <1>1 DEF StrandedLeft
  <1>5. NeverOversold'
    BY DEF StockStep, SetInventoryTotal, RecordInventoryAdjustment,
           WithinConstraints, NeverOversold, Capacity, TypeOK
  <1> QED BY <1>3, <1>4, <1>5

LEMMA AccountsStep ==
    ASSUME SingleLines, AccountInv, TypeOK', [Next]_vars
    PROVE  Accounted'
  <1>1. ASSUME NEW o \in Orders, CustomerStep(o) PROVE Accounted'
    <2>1. CASE CreatePendingOrder(o) \/ CreatePaidOrderFromWallet(o)
      BY <2>1, CreateKeepsAccounts
    <2>2. CASE \/ InitializeAsk(o) \/ InitializeAnswer(o) \/ InitializeFails(o)
               \/ MarkInitializationPayload(o) \/ ExtendReservationWindow(o)
               \/ CustomerPays(o)
      BY <2>2, AccountsUnchanged
         DEF InitializeAsk, InitializeAnswer, InitializeFails, CustomerPays,
             MarkInitializationPayload, ExtendReservationWindow, rows
    <2> QED BY <1>1, <2>1, <2>2 DEF CustomerStep
  <1>2. ASSUME NEW o \in Orders, SettlementStep(o) PROVE Accounted'
    <2>1. CASE Webhook(o)
      <3>1. CASE charge[o] = "paid"
        BY <2>1, <3>1, MarkKeepsAccounts DEF Webhook
      <3>2. CASE charge[o] = "mispaid"
        BY <2>1, <3>2, AccountsUnchanged DEF Webhook, marks, inventory
      <3> QED BY <2>1, <3>1, <3>2 DEF Webhook
    <2>2. CASE ApplyVerified(o) \/ ForcePaymentPaid(o)
      BY <2>2, MarkKeepsAccounts DEF ApplyVerified, ForcePaymentPaid
    <2>3. CASE VerifySucceeds(o) \/ VerifiedCallLost(o)
      BY <2>3, AccountsUnchanged DEF VerifySucceeds, VerifiedCallLost, rows
    <2> QED BY <1>2, <2>1, <2>2, <2>3
            DEF SettlementStep, PollVerify, SweepVerify, AdminReconcile
  <1>3. ASSUME NEW o \in Orders, OrderStep(o) PROVE Accounted'
    BY <1>3, OrderStepKeepsAccounts
  <1>4. ASSUME NEW i \in Items, StockStep(i) PROVE Accounted'
    BY <1>4, StockStepKeepsAccounts
  <1>5. CASE CutoffPasses
    BY <1>5, AccountsUnchanged DEF CutoffPasses, rows
  <1>6. CASE UNCHANGED vars
    BY <1>6, AccountsUnchanged DEF vars, rows
  <1> QED BY <1>1, <1>2, <1>3, <1>4, <1>5, <1>6 DEF Next

LEMMA AccountsInit ==
    ASSUME Init
    PROVE  Accounted
  <1>1. Holding = {} /\ Booked = {}
    BY DEF Init, Holding, Booked
  <1>2. \A i \in Items : Units({}, i) = {}
    BY DEF Units
  <1>3. ReservedAccounted /\ SoldAccounted
    BY <1>1, <1>2, FS_EmptySet DEF Init, ReservedAccounted, SoldAccounted
  <1>4. NeverOversold
    BY BoundAssumption DEF Init, NeverOversold, Capacity
  <1> QED BY <1>3, <1>4 DEF Init, Accounted, StrandedLeft

LEMMA AccountsAlways ==
    ASSUME SingleLines
    PROVE  Spec => []Accounted
  <1>1. Init => Accounted
    BY AccountsInit
  <1>2. /\ TypeOK /\ TypeOK' /\ SoldStaysSold /\ Accounted
        /\ [Next]_vars
        => Accounted'
    BY SingleLines, AccountsStep DEF AccountInv
  <1>3. Spec => []SoldStaysSold
    BY SalesAreFinal, PTL DEF SalesHold
  <1> QED BY <1>1, <1>2, <1>3, TypeCorrect, PTL DEF Spec

\* With one line per item in every cart, quantity_reserved and quantity_sold
\* are exactly the units of the orders that hold and bought them, and never
\* exceed the capacity: whoever reports, forces, expires or recovers a payment.
THEOREM InventoryAccounted ==
    ASSUME SingleLines
    PROVE  Spec => []InventoryBalances
  <1>1. Accounted => InventoryBalances
    BY DEF Accounted, InventoryBalances
  <1>2. Spec => []Accounted
    BY SingleLines, AccountsAlways
  <1> QED BY <1>1, <1>2, PTL

-----------------------------------------------------------------------------
(* Whatever the carts.  A joined update moves one line of an item that a    *)
(* cart names twice: units stay reserved, and none is given back twice.     *)

LEMMA MovedAtMostOrdered ==
    ASSUME NEW o \in Orders, NEW i \in Items
    PROVE  Moved(o, i) \in Nat /\ Ordered(o, i) \in Nat /\ Moved(o, i) <= Ordered(o, i)
  <1>1. ASSUME NEW a \in Nat, NEW b \in Nat \ {0} PROVE a <= a * b
    OBVIOUS
  <1>2. Cart[o][i] \in Nat /\ Lines[o][i] \in Nat \ {0}
    BY CartAssumption
  <1> QED BY <1>1, <1>2, QuantitiesAreNat DEF Moved, Ordered

\* quantity_reserved is at least what the orders holding a reservation asked for.
ReservedCovers == \A i \in Items : reserved[i] >= Cardinality(Units(Holding, i))

Covered == StrandedLeft /\ ReservedCovers /\ NeverOversold

CoverInv == TypeOK /\ Covered

LEMMA CoverUnchanged ==
    ASSUME CoverInv, UNCHANGED <<inventory, status, stranded>>
    PROVE  Covered'
  <1>1. Holding' = Holding /\ UNCHANGED <<total, adjusted, reserved, sold>>
    BY DEF Holding, inventory
  <1>2. ReservedCovers' /\ NeverOversold'
    BY <1>1 DEF CoverInv, Covered, ReservedCovers, Units, Ordered, NeverOversold, Capacity
  <1>3. StrandedLeft'
    BY DEF CoverInv, Covered, StrandedLeft
  <1> QED BY <1>2, <1>3 DEF Covered

\* The cover after a step that reserves for an order, or ends its reservation.
LEMMA CoverMove ==
    ASSUME TypeOK, TypeOK', ReservedCovers, NEW o \in Orders, NEW h \in {-1, 0, 1},
           \/ h = 1  /\ o \notin Holding /\ Holding' = Holding \cup {o}
           \/ h = 0  /\ Holding' = Holding
           \/ h = -1 /\ o \in Holding /\ Holding' = Holding \ {o},
           \A i \in Items : reserved'[i] >= reserved[i] + h * Ordered(o, i)
    PROVE  ReservedCovers' /\ \A i \in Items : reserved'[i] >= 0
  <1>0. Holding \in SUBSET Orders /\ Holding' \in SUBSET Orders
    BY DEF TypeOK, Holding
  <1>1. ASSUME NEW i \in Items
        PROVE  reserved'[i] >= Cardinality(Units(Holding', i)) /\ reserved'[i] >= 0
    <2>1. /\ Ordered(o, i) \in Nat /\ reserved[i] \in Int /\ reserved'[i] \in Int
          /\ reserved[i] >= Cardinality(Units(Holding, i))
          /\ Cardinality(Units(Holding, i)) \in Nat /\ Cardinality(Units(Holding', i)) \in Nat
      BY <1>0, QuantitiesAreNat, UnitsFinite DEF ReservedCovers, TypeOK
    <2>2. CASE h = 1
      <3>1. Cardinality(Units(Holding', i)) = Cardinality(Units(Holding, i)) + Ordered(o, i)
        BY <1>0, <2>2, UnitsAdd
      <3> QED BY <2>1, <2>2, <3>1
    <2>3. CASE h = 0
      BY <2>1, <2>3
    <2>4. CASE h = -1
      <3>1. Cardinality(Units(Holding', i)) = Cardinality(Units(Holding, i)) - Ordered(o, i)
        BY <1>0, <2>4, UnitsRemove
      <3> QED BY <2>1, <2>4, <3>1
    <2> QED BY <2>2, <2>3, <2>4
  <1>2. (\A i \in Items : reserved[i] >= Cardinality(Units(Holding, i)))'
    BY <1>1 DEF Units, Ordered
  <1> QED BY <1>1, <1>2 DEF ReservedCovers

LEMMA BookSaleCovered ==
    ASSUME CoverInv, TypeOK', NEW o \in Orders, BookSale(o), UNCHANGED <<total, stranded>>
    PROVE  Covered'
  <1> USE DEF CoverInv, Covered
  <1>0. \A i \in Items : /\ Moved(o, i) \in Nat /\ Ordered(o, i) \in Nat
                         /\ Moved(o, i) <= Ordered(o, i)
    BY MovedAtMostOrdered
  <1>2. StrandedLeft'
    BY DEF BookSale, StrandedLeft, TypeOK
  <1>3. CASE status[o] = "pending_payment"
    <2>1. o \in Holding /\ Holding' = Holding \ {o}
      BY <1>3 DEF BookSale, Holding, StrandedLeft, TypeOK
    <2>2. \A i \in Items : /\ reserved'[i] = reserved[i] - Moved(o, i)
                           /\ sold'[i] = sold[i] + Moved(o, i)
                           /\ adjusted'[i] = adjusted[i]
      BY <1>3 DEF BookSale, TypeOK
    <2>3. ReservedCovers' /\ \A i \in Items : reserved'[i] >= 0
      <3>1. \A i \in Items : reserved'[i] >= reserved[i] + (-1) * Ordered(o, i)
        BY <1>0, <2>2 DEF TypeOK
      <3> QED BY <2>1, <3>1, CoverMove
    <2>4. NeverOversold'
      BY <1>0, <2>2, <2>3 DEF NeverOversold, Capacity, TypeOK
    <2> QED BY <1>2, <2>3, <2>4
  <1>4. CASE status[o] = "expired"
    <2>1. Holding' = Holding
      BY <1>4 DEF BookSale, Holding, TypeOK
    <2>2. \A i \in Items : /\ reserved'[i] = reserved[i]
                           /\ sold'[i] = sold[i] + Moved(o, i)
                           /\ adjusted'[i] = adjusted[i] + Shortfall(o, i)
      BY <1>4 DEF BookSale, TypeOK
    <2>3. ReservedCovers' /\ \A i \in Items : reserved'[i] >= 0
      <3>1. \A i \in Items : reserved'[i] >= reserved[i] + 0 * Ordered(o, i)
        BY <1>0, <2>2 DEF TypeOK
      <3> QED BY <2>1, <3>1, CoverMove
    <2>4. NeverOversold'
      BY <1>0, <2>2, <2>3 DEF NeverOversold, Shortfall, Remaining, Capacity, TypeOK
    <2> QED BY <1>2, <2>3, <2>4
  <1> QED BY <1>3, <1>4 DEF BookSale

LEMMA MarkCovered ==
    ASSUME CoverInv, TypeOK', NEW o \in Orders, MarkVerifiedPaymentSuccessful(o),
           UNCHANGED <<total, stranded>>
    PROVE  Covered'
  <1>1. CASE AlreadySuccessful(o) \/ NotOpenForSale(o)
    BY <1>1, CoverUnchanged DEF AlreadySuccessful, NotOpenForSale, marks, inventory
  <1> QED BY <1>1, BookSaleCovered DEF MarkVerifiedPaymentSuccessful

LEMMA CreateCovered ==
    ASSUME CoverInv, TypeOK', NEW o \in Orders,
           CreatePendingOrder(o) \/ CreatePaidOrderFromWallet(o)
    PROVE  Covered'
  <1> USE DEF CoverInv, Covered
  <1>0. /\ \A i \in Items : /\ Moved(o, i) \in Nat /\ Ordered(o, i) \in Nat
                            /\ Moved(o, i) <= Ordered(o, i)
        /\ \A i \in Items : Remaining(i) >= Ordered(o, i)
        /\ status[o] = "none"
        /\ UNCHANGED <<total, adjusted, stranded>>
    BY MovedAtMostOrdered DEF CreatePendingOrder, CreatePaidOrderFromWallet, Orderable
  <1>1. o \notin Holding
    BY <1>0 DEF Holding, StrandedLeft
  <1>2. StrandedLeft'
    BY <1>0 DEF CreatePendingOrder, CreatePaidOrderFromWallet, StrandedLeft, TypeOK
  <1>3. CASE CreatePendingOrder(o)
    <2>1. Holding' = Holding \cup {o}
      BY <1>3 DEF CreatePendingOrder, Holding, TypeOK
    <2>2. \A i \in Items : reserved'[i] = reserved[i] + Ordered(o, i) /\ sold'[i] = sold[i]
      BY <1>3 DEF CreatePendingOrder, TypeOK
    <2>3. ReservedCovers' /\ \A i \in Items : reserved'[i] >= 0
      <3>1. \A i \in Items : reserved'[i] >= reserved[i] + 1 * Ordered(o, i)
        BY <1>0, <2>2 DEF TypeOK
      <3> QED BY <1>1, <2>1, <3>1, CoverMove
    <2>4. NeverOversold'
      BY <1>0, <2>2, <2>3 DEF NeverOversold, Remaining, Capacity, TypeOK
    <2> QED BY <1>2, <2>3, <2>4
  <1>4. CASE CreatePaidOrderFromWallet(o)
    <2>1. Holding' = Holding
      BY <1>0, <1>4 DEF CreatePaidOrderFromWallet, Holding, TypeOK
    <2>2. \A i \in Items : /\ reserved'[i] = reserved[i] + Ordered(o, i) - Moved(o, i)
                           /\ sold'[i] = sold[i] + Moved(o, i)
      BY <1>4 DEF CreatePaidOrderFromWallet, TypeOK
    <2>3. ReservedCovers' /\ \A i \in Items : reserved'[i] >= 0
      <3>1. \A i \in Items : reserved'[i] >= reserved[i] + 0 * Ordered(o, i)
        BY <1>0, <2>2 DEF TypeOK
      <3> QED BY <2>1, <3>1, CoverMove
    <2>4. NeverOversold'
      BY <1>0, <2>2, <2>3 DEF NeverOversold, Remaining, Capacity, TypeOK
    <2> QED BY <1>2, <2>3, <2>4
  <1> QED BY <1>3, <1>4

LEMMA OrderStepCovered ==
    ASSUME CoverInv, TypeOK', NEW o \in Orders, OrderStep(o)
    PROVE  Covered'
  <1>1. CASE ReleaseExpiredReservation(o)
    <2> USE DEF CoverInv, Covered
    <2>0. \A i \in Items : /\ Moved(o, i) \in Nat /\ Ordered(o, i) \in Nat
                           /\ Moved(o, i) <= Ordered(o, i)
      BY MovedAtMostOrdered
    <2>1. o \in Holding /\ Holding' = Holding \ {o}
      BY <1>1 DEF ReleaseExpiredReservation, Holding, StrandedLeft, TypeOK
    <2>2. /\ \A i \in Items : reserved'[i] = reserved[i] - Moved(o, i)
          /\ UNCHANGED <<total, adjusted, sold>>
      BY <1>1 DEF ReleaseExpiredReservation, TypeOK
    <2>3. ReservedCovers' /\ \A i \in Items : reserved'[i] >= 0
      <3>1. \A i \in Items : reserved'[i] >= reserved[i] + (-1) * Ordered(o, i)
        BY <2>0, <2>2 DEF TypeOK
      <3> QED BY <2>1, <3>1, CoverMove
    <2>4. NeverOversold'
      BY <2>0, <2>2, <2>3 DEF NeverOversold, Capacity, TypeOK
    <2>5. StrandedLeft'
      BY <1>1 DEF ReleaseExpiredReservation, StrandedLeft, TypeOK
    <2> QED BY <2>3, <2>4, <2>5
  <1>2. ASSUME NEW to \in Targets, TransitionOrderStatus(o, to) PROVE Covered'
    <2> USE DEF CoverInv, Covered
    <2>1. /\ status' = [status EXCEPT ![o] = to]
          /\ to \in NextStatuses(status[o])
          /\ stranded' = IF status[o] = "pending_payment"
                           THEN stranded \cup {o} ELSE stranded
          /\ UNCHANGED <<total, adjusted, reserved, sold>>
      BY <1>2 DEF TransitionOrderStatus, inventory
    <2>2. to \notin {"none", "pending_payment"} /\ status[o] # "none"
      BY <2>1 DEF NextStatuses
    <2>3. Holding' = Holding
      BY <2>1, <2>2 DEF Holding, TypeOK
    <2>4. ReservedCovers' /\ NeverOversold'
      BY <2>1, <2>3 DEF ReservedCovers, Units, Ordered, NeverOversold, Capacity
    <2>5. StrandedLeft'
      BY <2>1, <2>2 DEF StrandedLeft, TypeOK
    <2> QED BY <2>4, <2>5
  <1>3. CASE ReservationLapses(o) \/ PaymentAges(o)
    BY <1>3, CoverUnchanged DEF ReservationLapses, PaymentAges, rows
  <1> QED BY <1>1, <1>2, <1>3 DEF OrderStep

LEMMA CoveredStep ==
    ASSUME CoverInv, TypeOK', [Next]_vars
    PROVE  Covered'
  <1>1. ASSUME NEW o \in Orders, CustomerStep(o) PROVE Covered'
    <2>1. CASE CreatePendingOrder(o) \/ CreatePaidOrderFromWallet(o)
      BY <2>1, CreateCovered
    <2>2. CASE \/ InitializeAsk(o) \/ InitializeAnswer(o) \/ InitializeFails(o)
               \/ MarkInitializationPayload(o) \/ ExtendReservationWindow(o)
               \/ CustomerPays(o)
      BY <2>2, CoverUnchanged
         DEF InitializeAsk, InitializeAnswer, InitializeFails, CustomerPays,
             MarkInitializationPayload, ExtendReservationWindow, rows
    <2> QED BY <1>1, <2>1, <2>2 DEF CustomerStep
  <1>2. ASSUME NEW o \in Orders, SettlementStep(o) PROVE Covered'
    <2>1. CASE Webhook(o)
      <3>1. CASE charge[o] = "paid"
        BY <2>1, <3>1, MarkCovered DEF Webhook
      <3>2. CASE charge[o] = "mispaid"
        BY <2>1, <3>2, CoverUnchanged DEF Webhook, marks, inventory
      <3> QED BY <2>1, <3>1, <3>2 DEF Webhook
    <2>2. CASE ApplyVerified(o) \/ ForcePaymentPaid(o)
      BY <2>2, MarkCovered DEF ApplyVerified, ForcePaymentPaid
    <2>3. CASE VerifySucceeds(o) \/ VerifiedCallLost(o)
      BY <2>3, CoverUnchanged DEF VerifySucceeds, VerifiedCallLost, rows
    <2> QED BY <1>2, <2>1, <2>2, <2>3
            DEF SettlementStep, PollVerify, SweepVerify, AdminReconcile
  <1>3. ASSUME NEW o \in Orders, OrderStep(o) PROVE Covered'
    BY <1>3, OrderStepCovered
  <1>4. ASSUME NEW i \in Items, StockStep(i) PROVE Covered'
    <2> USE DEF CoverInv, Covered
    <2>1. UNCHANGED <<reserved, sold, status, stranded>>
      BY <1>4 DEF StockStep, SetInventoryTotal, RecordInventoryAdjustment, rows
    <2>2. Holding' = Holding
      BY <2>1 DEF Holding
    <2>3. ReservedCovers' /\ StrandedLeft'
      BY <2>1, <2>2 DEF ReservedCovers, Units, Ordered, StrandedLeft
    <2>4. NeverOversold'
      BY <1>4 DEF StockStep, SetInventoryTotal, RecordInventoryAdjustment,
             WithinConstraints, NeverOversold, Capacity, TypeOK
    <2> QED BY <2>3, <2>4
  <1>5. CASE CutoffPasses \/ UNCHANGED vars
    BY <1>5, CoverUnchanged DEF CutoffPasses, rows, vars
  <1> QED BY <1>1, <1>2, <1>3, <1>4, <1>5 DEF Next

\* Whatever the carts, items named on several lines included: reservations, sales,
\* recoveries and releases never take a counter below zero or past the capacity,
\* so that none is ever rejected by the check constraints, and what open
\* reservations asked for is never given away.
THEOREM NeverOversoldWhateverTheCart == Spec => [](NeverOversold /\ ReservedCovers)
  <1>1. Init => Covered
    <2>1. Init => \A i \in Items : reserved[i] = 0 /\ Units(Holding, i) = {}
      BY DEF Init, Holding, Units
    <2>2. Init => ReservedCovers
      BY <2>1, FS_EmptySet DEF ReservedCovers
    <2>3. Init => NeverOversold /\ StrandedLeft
      BY BoundAssumption DEF Init, NeverOversold, Capacity, StrandedLeft
    <2> QED BY <2>2, <2>3 DEF Covered
  <1>2. TypeOK /\ TypeOK' /\ Covered /\ [Next]_vars => Covered'
    BY CoveredStep DEF CoverInv
  <1>3. Covered => NeverOversold /\ ReservedCovers
    BY DEF Covered
  <1> QED BY <1>1, <1>2, <1>3, TypeCorrect, PTL DEF Spec

\* On single lines the expiry job gives back all that an order reserved: the two
\* lines of one item are the only way to leave units behind.
THEOREM SingleLinesReleasedInFull ==
    ASSUME SingleLines
    PROVE  Spec => ReleasedInFull
  <1> DEFINE Full == \A o \in Orders :
                        status[o] = "pending_payment" /\ status'[o] = "expired"
                            /\ o \notin stranded'
                        => \A i \in Items : reserved'[i] = reserved[i] - Ordered(o, i)
  <1>1. ASSUME TypeOK, [Next]_vars PROVE Full
    <2> SUFFICES ASSUME NEW o \in Orders, status[o] = "pending_payment",
                        status'[o] = "expired", o \notin stranded'
                 PROVE  \A i \in Items : reserved'[i] = reserved[i] - Ordered(o, i)
      OBVIOUS
    <2>1. CASE UNCHANGED status
      BY <2>1
    <2>2. ASSUME NEW p \in Orders, CustomerStep(p) PROVE FALSE
      <3>1. status' = status
              \/ \E s \in {"pending_payment", "paid"} : status' = [status EXCEPT ![p] = s]
        BY <2>2 DEF CustomerStep, CreatePendingOrder, CreatePaidOrderFromWallet,
           InitializeAsk, InitializeAnswer, MarkInitializationPayload,
           ExtendReservationWindow, InitializeFails, CustomerPays, rows, inventory
      <3> QED BY <1>1, <3>1 DEF TypeOK
    <2>3. ASSUME NEW p \in Orders, SettlementStep(p) PROVE FALSE
      <3>1. status' = status \/ status' = [status EXCEPT ![p] = "paid"]
        BY <2>3 DEF SettlementStep, Webhook, PollVerify, SweepVerify, AdminReconcile,
           VerifySucceeds, ApplyVerified, VerifiedCallLost, ForcePaymentPaid,
           MarkVerifiedPaymentSuccessful, AlreadySuccessful, NotOpenForSale, BookSale,
           marks, rows, inventory
      <3> QED BY <1>1, <3>1 DEF TypeOK
    <2>4. ASSUME NEW p \in Orders, OrderStep(p)
          PROVE  p = o /\ ReleaseExpiredReservation(p)
      <3>1. ASSUME NEW s \in Targets, TransitionOrderStatus(p, s) PROVE FALSE
        <4>1. /\ status' = [status EXCEPT ![p] = s]
              /\ status[p] = "pending_payment" => p \in stranded'
          BY <3>1 DEF TransitionOrderStatus
        <4>2. p = o
          BY <1>1, <4>1 DEF TypeOK
        <4> QED BY <4>1, <4>2
      <3>2. ReservationLapses(p) \/ PaymentAges(p) => FALSE
        BY DEF ReservationLapses, PaymentAges, rows, inventory
      <3>3. ReleaseExpiredReservation(p) => p = o
        BY <1>1 DEF ReleaseExpiredReservation, TypeOK
      <3> QED BY <2>4, <3>1, <3>2, <3>3 DEF OrderStep
    <2>5. ASSUME NEW i \in Items, StockStep(i) PROVE UNCHANGED status
      BY <2>5 DEF StockStep, SetInventoryTotal, RecordInventoryAdjustment, rows
    <2>6. CutoffPasses \/ UNCHANGED vars => UNCHANGED status
      BY DEF CutoffPasses, vars, rows
    <2>7. CASE ReleaseExpiredReservation(o)
      BY <2>7, MovedIsOrdered DEF ReleaseExpiredReservation
    <2> QED BY <1>1, <2>1, <2>2, <2>3, <2>4, <2>5, <2>6, <2>7 DEF Next
  <1>2. TypeOK /\ [Next]_vars => [Full]_vars
    BY <1>1
  <1> QED BY <1>2, TypeCorrect, PTL DEF Spec, ReleasedInFull, Full

-----------------------------------------------------------------------------
(* Late captures stretch the capacity by no more than they need.           *)

FullWhenStretched ==
    \A i \in Items :
        adjusted'[i] > adjusted[i] /\ sold'[i] > sold[i]
            => reserved'[i] + sold'[i] = total'[i] + adjusted'[i]

LEMMA MarkStretchesExactly ==
    ASSUME TypeOK, NEW o \in Orders, MarkVerifiedPaymentSuccessful(o), total' = total
    PROVE  FullWhenStretched
  <1>1. CASE AlreadySuccessful(o) \/ NotOpenForSale(o)
    BY <1>1 DEF AlreadySuccessful, NotOpenForSale, marks, FullWhenStretched, TypeOK
  <1>2. CASE BookSale(o)
    <2> SUFFICES ASSUME NEW i \in Items, adjusted'[i] > adjusted[i]
                 PROVE  reserved'[i] + sold'[i] = total'[i] + adjusted'[i]
      BY DEF FullWhenStretched
    <2>1. Moved(o, i) \in Nat
      BY QuantitiesAreNat
    <2>2. status[o] = "expired"
      BY <1>2 DEF BookSale, TypeOK
    <2>3. /\ sold'[i] = sold[i] + Moved(o, i)
          /\ adjusted'[i] = adjusted[i] + Shortfall(o, i)
          /\ reserved'[i] = reserved[i]
      BY <1>2, <2>2 DEF BookSale
    <2> QED BY <2>1, <2>3 DEF Shortfall, Remaining, Capacity, TypeOK
  <1> QED BY <1>1, <1>2 DEF MarkVerifiedPaymentSuccessful

LEMMA StretchStep ==
    ASSUME TypeOK, [Next]_vars
    PROVE  FullWhenStretched
  <1>1. ASSUME NEW o \in Orders, MarkVerifiedPaymentSuccessful(o), total' = total
        PROVE  FullWhenStretched
    BY <1>1, MarkStretchesExactly
  <1>2. CASE UNCHANGED sold \/ UNCHANGED adjusted
    BY <1>2 DEF FullWhenStretched, TypeOK
  <1>3. ASSUME NEW o \in Orders, CustomerStep(o)
        PROVE  UNCHANGED adjusted
    BY <1>3 DEF CustomerStep, CreatePendingOrder, CreatePaidOrderFromWallet,
        InitializeAsk, InitializeAnswer, MarkInitializationPayload,
        ExtendReservationWindow, InitializeFails, CustomerPays, inventory
  <1>4. ASSUME NEW o \in Orders, SettlementStep(o)
        PROVE  FullWhenStretched
    <2>1. CASE Webhook(o)
      BY <1>1, <1>2, <2>1 DEF Webhook, marks
    <2>2. CASE ApplyVerified(o) \/ ForcePaymentPaid(o)
      BY <1>1, <2>2 DEF ApplyVerified, ForcePaymentPaid
    <2>3. CASE VerifySucceeds(o) \/ VerifiedCallLost(o)
      BY <1>2, <2>3 DEF VerifySucceeds, VerifiedCallLost, inventory
    <2> QED BY <1>4, <2>1, <2>2, <2>3
            DEF SettlementStep, PollVerify, SweepVerify, AdminReconcile
  <1>5. ASSUME NEW o \in Orders, OrderStep(o)
        PROVE  UNCHANGED adjusted
    BY <1>5 DEF OrderStep, ReleaseExpiredReservation, TransitionOrderStatus,
        ReservationLapses, PaymentAges, inventory
  <1>6. ASSUME NEW i \in Items, StockStep(i)
        PROVE  UNCHANGED sold
    BY <1>6 DEF StockStep, SetInventoryTotal, RecordInventoryAdjustment
  <1>7. CutoffPasses \/ UNCHANGED vars => UNCHANGED sold
    BY DEF CutoffPasses, vars, inventory
  <1> QED BY <1>2, <1>3, <1>4, <1>5, <1>6, <1>7 DEF Next

\* mark_verified_payment_successful raises quantity_adjusted only for an
\* expired order, and only to where the row is exactly full.
THEOREM RecoveryStretchesExactly == Spec => RecoveryIsMinimal
  <1>1. TypeOK /\ [Next]_vars => [FullWhenStretched]_vars
    BY StretchStep
  <1> QED BY <1>1, TypeCorrect, PTL DEF Spec, RecoveryIsMinimal, FullWhenStretched

-----------------------------------------------------------------------------
(* Orders implements Stock, for every set of orders, carts without two     *)
(* lines naming one item, and inventory.                                   *)

\* Stock's measure of a set of orders is the accounts' one.
LEMMA LoadIsUnits ==
    ASSUME NEW T \in SUBSET Orders, NEW i \in Items
    PROVE  S!Load(T, i) = Cardinality(Units(T, i))
  <1> DEFINE q == [o \in Orders |-> [j \in Items |-> Ordered(o, j)]]
  <1>1. \A o \in T : q[o][i] = Ordered(o, i)
    OBVIOUS
  <1>2. S!Load(T, i) = Cardinality(UNION {{o} \X (1..q[o][i]) : o \in T})
    BY DEF S!Load, S!Cardinality, Cardinality
  <1> HIDE DEF q
  <1>3. UNION {{o} \X (1..q[o][i]) : o \in T} = Units(T, i)
    BY <1>1 DEF Units
  <1> QED BY <1>2, <1>3

LEMMA InUseIsCounted ==
    ASSUME AccountInv, NEW i \in Items
    PROVE  S!InUse(i) = reserved[i] + sold[i]
  BY LoadIsUnits, HoldingAndBookedAreOrders
     DEF S!InUse, AccountInv, Accounted, ReservedAccounted, SoldAccounted

LEMMA RoomMeansFits ==
    ASSUME AccountInv, NEW o \in Orders,
           \A i \in Items : Remaining(i) >= Ordered(o, i)
    PROVE  S!Fits(o)
  <1>1. \A i \in Items : S!InUse(i) + Ordered(o, i) <= Capacity(i)
    BY InUseIsCounted, QuantitiesAreNat
       DEF AccountInv, TypeOK, Remaining, Capacity
  <1> QED BY <1>1 DEF S!Fits

LEMMA SameStock ==
    ASSUME UNCHANGED <<inventory, status, batched, stranded>>
    PROVE  UNCHANGED S!vars
  BY DEF S!vars, inventory, Capacity, Holding, Booked

LEMMA BookSaleIsTakeOrRecover ==
    ASSUME SingleLines, AccountInv, NEW o \in Orders, BookSale(o),
           UNCHANGED <<total, stranded>>
    PROVE  S!Take(o) \/ S!Recover(o)
  <1> USE DEF AccountInv, Accounted
  <1>0. \A i \in Items : Moved(o, i) = Ordered(o, i) /\ Ordered(o, i) \in Nat
    BY MovedIsOrdered, QuantitiesAreNat
  <1>1. o \notin Booked /\ Booked' = Booked \cup {o}
    BY DEF BookSale, SoldStaysSold, Booked, TypeOK
  <1>2. CASE status[o] = "pending_payment"
    <2>1. o \in Holding /\ Holding' = Holding \ {o}
      BY <1>2 DEF BookSale, Holding, StrandedLeft, TypeOK
    <2>2. UNCHANGED [i \in Items |-> Capacity(i)]
      BY <1>2 DEF BookSale, Capacity
    <2> QED BY <1>1, <2>1, <2>2 DEF S!Take
  <1>3. CASE status[o] = "expired"
    <2>1. Holding' = Holding
      BY <1>3 DEF BookSale, Holding, TypeOK
    <2>2. ASSUME NEW i \in Items
          PROVE  Capacity(i)' =
                   IF Ordered(o, i) > 0 /\ S!InUse(i) + Ordered(o, i) > Capacity(i)
                     THEN S!InUse(i) + Ordered(o, i) ELSE Capacity(i)
      <3>1. adjusted'[i] = adjusted[i] + Shortfall(o, i)
        BY <1>3 DEF BookSale
      <3> QED BY <1>0, <3>1, InUseIsCounted DEF Shortfall, Remaining, Capacity, TypeOK
    <2> QED BY <1>1, <2>1, <2>2 DEF S!Recover
  <1> QED BY <1>2, <1>3 DEF BookSale

LEMMA MarkIsTakeOrRecover ==
    ASSUME SingleLines, AccountInv, NEW o \in Orders,
           MarkVerifiedPaymentSuccessful(o), UNCHANGED <<total, stranded>>
    PROVE  [S!Next]_(S!vars)
  <1>1. CASE AlreadySuccessful(o) \/ NotOpenForSale(o)
    BY <1>1, SameStock DEF AlreadySuccessful, NotOpenForSale, marks, inventory
  <1>2. CASE BookSale(o)
    BY <1>2, BookSaleIsTakeOrRecover DEF S!Next
  <1> QED BY <1>1, <1>2 DEF MarkVerifiedPaymentSuccessful

LEMMA CreateIsHoldOrBuy ==
    ASSUME SingleLines, AccountInv, NEW o \in Orders,
           CreatePendingOrder(o) \/ CreatePaidOrderFromWallet(o)
    PROVE  S!Hold(o) \/ S!Buy(o)
  <1> USE DEF AccountInv, Accounted
  <1>1. /\ S!Fits(o)
        /\ status[o] = "none"
        /\ UNCHANGED [i \in Items |-> Capacity(i)]
    BY RoomMeansFits
       DEF CreatePendingOrder, CreatePaidOrderFromWallet, Orderable, Capacity
  <1>2. o \notin Holding \cup Booked
    BY <1>1 DEF Holding, Booked, StrandedLeft, SoldStaysSold
  <1>3. CASE CreatePendingOrder(o)
    <2>1. Holding' = Holding \cup {o} /\ Booked' = Booked
      BY <1>3 DEF CreatePendingOrder, Holding, Booked, TypeOK
    <2> QED BY <1>1, <1>2, <2>1 DEF S!Hold
  <1>4. CASE CreatePaidOrderFromWallet(o)
    <2>1. Holding' = Holding /\ Booked' = Booked \cup {o}
      BY <1>1, <1>4 DEF CreatePaidOrderFromWallet, Holding, Booked, TypeOK
    <2> QED BY <1>1, <1>2, <2>1 DEF S!Buy
  <1> QED BY <1>3, <1>4

LEMMA OrderStepIsReleaseOrStutter ==
    ASSUME AccountInv, NEW o \in Orders, OrderStep(o)
    PROVE  [S!Next]_(S!vars)
  <1> USE DEF AccountInv, Accounted
  <1>1. CASE ReleaseExpiredReservation(o)
    <2>1. /\ o \in Holding /\ Holding' = Holding \ {o}
          /\ Booked' = Booked
          /\ UNCHANGED [i \in Items |-> Capacity(i)]
      BY <1>1 DEF ReleaseExpiredReservation, Holding, Booked, StrandedLeft, TypeOK, Capacity
    <2> QED BY <2>1 DEF S!Release, S!Next
  <1>2. ASSUME NEW to \in Targets, TransitionOrderStatus(o, to)
        PROVE  UNCHANGED S!vars
    <2>1. to \notin {"none", "pending_payment"}
      BY <1>2 DEF TransitionOrderStatus, NextStatuses
    <2>2. Holding' = Holding
      BY <1>2, <2>1 DEF TransitionOrderStatus, Holding, TypeOK
    <2> QED BY <1>2, <2>2 DEF TransitionOrderStatus, inventory, S!vars, Capacity, Booked
  <1>3. CASE ReservationLapses(o) \/ PaymentAges(o)
    BY <1>3, SameStock DEF ReservationLapses, PaymentAges, rows
  <1> QED BY <1>1, <1>2, <1>3 DEF OrderStep

LEMMA StockStepIsRestock ==
    ASSUME AccountInv, Accounted', TypeOK', NEW i \in Items, StockStep(i)
    PROVE  S!Restock(i)
  <1> DEFINE cap == [j \in Items |-> Capacity(j)]
  <1>1. UNCHANGED <<reserved, sold, status, batched, stranded>>
    BY DEF StockStep, SetInventoryTotal, RecordInventoryAdjustment, rows
  <1>2. Holding' = Holding /\ Booked' = Booked
    BY <1>1 DEF Holding, Booked
  <1>3. reserved[i] + sold[i] <= Capacity(i)' /\ Capacity(i)' \in Nat
    BY <1>1 DEF AccountInv, Accounted, NeverOversold, Capacity, TypeOK
  <1>4. \A j \in Items : j # i => Capacity(j)' = Capacity(j)
    BY DEF StockStep, SetInventoryTotal, RecordInventoryAdjustment, Capacity, AccountInv, TypeOK
  <1>5. cap' = [cap EXCEPT ![i] = cap'[i]]
    BY <1>4
  <1>6. cap'[i] \in Nat /\ cap'[i] >= S!InUse(i)
    BY <1>3, InUseIsCounted
  <1> QED BY <1>2, <1>5, <1>6 DEF S!Restock

LEMMA ImplementsStockStep ==
    ASSUME SingleLines, AccountInv, AccountInv', [Next]_vars
    PROVE  [S!Next]_(S!vars)
  <1>1. ASSUME NEW o \in Orders, CustomerStep(o) PROVE [S!Next]_(S!vars)
    <2>1. CASE CreatePendingOrder(o) \/ CreatePaidOrderFromWallet(o)
      BY <2>1, CreateIsHoldOrBuy DEF S!Next
    <2>2. CASE \/ InitializeAsk(o) \/ InitializeAnswer(o) \/ InitializeFails(o)
               \/ MarkInitializationPayload(o) \/ ExtendReservationWindow(o)
               \/ CustomerPays(o)
      BY <2>2, SameStock
         DEF InitializeAsk, InitializeAnswer, InitializeFails, CustomerPays,
             MarkInitializationPayload, ExtendReservationWindow, rows
    <2> QED BY <1>1, <2>1, <2>2 DEF CustomerStep
  <1>2. ASSUME NEW o \in Orders, SettlementStep(o) PROVE [S!Next]_(S!vars)
    <2>1. CASE Webhook(o)
      <3>1. CASE charge[o] = "paid"
        BY <2>1, <3>1, MarkIsTakeOrRecover DEF Webhook
      <3>2. CASE charge[o] = "mispaid"
        BY <2>1, <3>2, SameStock DEF Webhook, marks, inventory
      <3> QED BY <2>1, <3>1, <3>2 DEF Webhook
    <2>2. CASE ApplyVerified(o) \/ ForcePaymentPaid(o)
      BY <2>2, MarkIsTakeOrRecover DEF ApplyVerified, ForcePaymentPaid
    <2>3. CASE VerifySucceeds(o) \/ VerifiedCallLost(o)
      BY <2>3, SameStock DEF VerifySucceeds, VerifiedCallLost, rows
    <2> QED BY <1>2, <2>1, <2>2, <2>3
            DEF SettlementStep, PollVerify, SweepVerify, AdminReconcile
  <1>3. ASSUME NEW o \in Orders, OrderStep(o) PROVE [S!Next]_(S!vars)
    BY <1>3, OrderStepIsReleaseOrStutter
  <1>4. ASSUME NEW i \in Items, StockStep(i) PROVE [S!Next]_(S!vars)
    BY <1>4, StockStepIsRestock DEF AccountInv, S!Next
  <1>5. CASE CutoffPasses
    BY <1>5, SameStock DEF CutoffPasses, rows
  <1>6. CASE UNCHANGED vars
    BY <1>6, SameStock DEF vars, rows
  <1> QED BY <1>1, <1>2, <1>3, <1>4, <1>5, <1>6 DEF Next

LEMMA ImplementsStockInit ==
    ASSUME Init
    PROVE  S!Init
  <1>1. Holding = {} /\ Booked = {}
    BY DEF Init, Holding, Booked
  <1>2. [i \in Items |-> Capacity(i)] \in [Items -> Nat]
    BY BoundAssumption DEF Init, Capacity
  <1> QED BY <1>1, <1>2 DEF S!Init

\* With one line per item in every cart, whatever interleaving of customers,
\* Paystack, jobs and administrators happens, checkout hands out each unit of a
\* slot's capacity at most once, and only a late capture stretches it.
THEOREM OrdersImplementsStock ==
    ASSUME SingleLines
    PROVE  Spec => ImplementsStock
  <1>1. Init => S!Init
    BY ImplementsStockInit
  <1>2. AccountInv /\ AccountInv' /\ [Next]_vars => [S!Next]_(S!vars)
    BY SingleLines, ImplementsStockStep
  <1>3. TypeOK /\ SoldStaysSold /\ Accounted => AccountInv
    BY DEF AccountInv
  <1>4. Spec => []TypeOK
    BY TypeCorrect
  <1>5. Spec => []SoldStaysSold
    BY SalesAreFinal, PTL DEF SalesHold
  <1>6. Spec => []Accounted
    BY SingleLines, AccountsAlways
  <1> QED BY <1>1, <1>2, <1>3, <1>4, <1>5, <1>6, PTL DEF Spec, ImplementsStock, S!Spec
=============================================================================
