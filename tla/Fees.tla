-------------------------------- MODULE Fees --------------------------------
(***************************************************************************)
(* What an order costs and who is paid from its delivery fee.  A quote is  *)
(* computed by the app, the order is priced again by the function that     *)
(* creates it, and the fee is divided by the settings of the moment it is  *)
(* delivered.  Administrators edit settings and zone fees meanwhile; each  *)
(* setting is checked against the others as they were read before.         *)
(* Amounts are integers of one unit; the top-ups are in kobo.              *)
(***************************************************************************)
EXTENDS Integers

CONSTANTS
    Editors,      \* bound: updateSetting requests at once
    Choices,      \* bound: <<key, value>> an administrator may set
    ZoneFees,     \* bound: delivery fees a zone may have
    Orders,
    Baskets,      \* [food, service, discount, point, accepted, wallet]
    Cap,          \* MAX_ORDER_TOTAL_KOBO
    SurchargeBps, SurchargeFlat,
    Credits,      \* bound: the top-ups considered
    NoEdit, NoOrder

VARIABLES
    setting,      \* platform_settings
    zoneFee,      \* campus_zones.delivery_fee_kobo, never null
    editing,      \* updateSetting, between its read and its write
    stale,        \* history: edits that another overtook
    contested,    \* history: the settings are an overtaken edit's
    bill          \* an order's prices, from its quote to its delivery

vars == <<setting, zoneFee, editing, stale, contested, bill>>
fees == <<setting, zoneFee, editing, stale, contested>>

\* The seeds, in units of 50 naira; a zone's default fee is half the base.
Seeds == [base |-> 6, surcharge |-> 2, riderOntime |-> 2, riderLate |-> 1,
          vendorOntime |-> 1, pointRider |-> 1]
DefaultZoneFee == 3

\* Settings and fees are whole amounts (assertFeeConfigValid, the checks of
\* orders and campus_zones), and no row is a row apart.
FeesAssumption ==
    /\ Choices \subseteq (DOMAIN Seeds) \X Nat
    /\ ZoneFees \cup Credits \cup {Cap, SurchargeBps, SurchargeFlat} \subseteq Nat
    /\ Baskets \subseteq [food : Nat, service : Nat, discount : Nat,
                         point : BOOLEAN, accepted : BOOLEAN, wallet : BOOLEAN]
    /\ NoEdit \notin [key : DOMAIN Seeds, value : Nat]

Init ==
    /\ setting = Seeds /\ zoneFee = DefaultZoneFee
    /\ editing = [a \in Editors |-> NoEdit]
    /\ stale = {} /\ contested = FALSE
    /\ bill = [o \in Orders |-> NoOrder]

-----------------------------------------------------------------------------
(* Settings.                                                               *)

\* The late share and the lead time are not looked at.
ResidualKeys ==
    {"base", "surcharge", "riderOntime", "vendorOntime", "pointRider"}

PaysBase(s) == s.riderOntime + s.vendorOntime <= s.base
PaysPoint(s) == s.pointRider <= s.surcharge

\* Mutant: the point surcharge is not compared with what it pays.
BaseValid(s, k) == k \in ResidualKeys => PaysBase(s)

FeeConfigValid(s, k) == k \in ResidualKeys => PaysBase(s) /\ PaysPoint(s)

\* updateSetting lists the settings and checks the new value beside them.
ReadSettings(a, k, v) ==
    /\ editing[a] = NoEdit
    /\ FeeConfigValid([setting EXCEPT ![k] = v], k)
    /\ editing' = [editing EXCEPT ![a] = [key |-> k, value |-> v]]
    /\ stale' = stale \ {a}
    /\ UNCHANGED <<setting, zoneFee, contested, bill>>

\* What has come dearer since an order was placed is noted on it.
Noting(s) ==
    [o \in Orders |->
        IF bill[o] = NoOrder THEN NoOrder
        ELSE [bill[o] EXCEPT !.raised = @ \/
                \E k \in {"riderOntime", "vendorOntime", "pointRider"} :
                    s[k] > setting[k]]]

UpsertSetting(a) ==
    LET e == editing[a]
        after == [setting EXCEPT ![e.key] = e.value] IN
    /\ e # NoEdit
    /\ setting' = after
    /\ bill' = Noting(after)
    /\ editing' = [editing EXCEPT ![a] = NoEdit]
    /\ stale' = (stale \ {a}) \cup {b \in Editors \ {a} : editing[b] # NoEdit}
    /\ contested' = (a \in stale \/ (contested /\ e.key \notin ResidualKeys))
    /\ UNCHANGED zoneFee

\* updateZone: any fee up to the cap, whatever the settings pay out.
UpdateZone(fee) ==
    /\ fee <= Cap /\ fee # zoneFee
    /\ zoneFee' = fee
    /\ UNCHANGED <<setting, editing, stale, contested, bill>>

-----------------------------------------------------------------------------
(* Prices.                                                                 *)

\* Math.round and round of a share of an amount that is not negative.
BasisPoints(amount, bps) == (amount * bps + 5000) \div 10000
Surcharge(total) == BasisPoints(total, SurchargeBps) + SurchargeFlat

\* calculateOrderPricing: no discount yet, no point surcharge.
Gross(b) == b.food + zoneFee + b.service
Quoted(b) ==
    IF ~b.wallet /\ Gross(b) > Cap THEN Gross(b) + Surcharge(Gross(b))
    ELSE Gross(b)

\* createOrder quotes once more, and leaves promotions to the function.
Quote(o, b) ==
    /\ bill[o] = NoOrder
    /\ ~b.wallet /\ Gross(b) > Cap => b.accepted \/ b.discount > 0
    /\ bill' = [bill EXCEPT ![o] =
           [phase |-> "quoted", basket |-> b, zone |-> zoneFee,
            quote |-> Quoted(b), fee |-> 0, total |-> 0,
            raised |-> FALSE, underpaid |-> FALSE]]
    /\ UNCHANGED fees

DeliveryFee(b) == zoneFee + (IF b.point THEN setting.surcharge ELSE 0)
Discount(b) == IF b.discount < b.food THEN b.discount ELSE b.food
NetTotal(b) == b.food + DeliveryFee(b) + b.service - Discount(b)

\* Mutant: the surcharge from the cap on instead of above it.
SurchargeFromCap(b) == ~b.wallet /\ NetTotal(b) >= Cap

OverCap(b) == ~b.wallet /\ NetTotal(b) > Cap

\* Wallet orders are called without a cap.
Place(o) ==
    LET b == bill[o].basket IN
    /\ bill[o] # NoOrder /\ bill[o].phase = "quoted"
    /\ OverCap(b) => b.accepted
    /\ bill' = [bill EXCEPT ![o] =
           [@ EXCEPT !.phase = "placed", !.fee = DeliveryFee(b),
                     !.total = NetTotal(b) + (IF OverCap(b)
                                              THEN Surcharge(NetTotal(b))
                                              ELSE 0),
                     !.raised = FALSE,
                     !.underpaid = contested \/ zoneFee < setting.base]]
    /\ UNCHANGED fees

\* The surcharge was not accepted, or any other line of the function raised.
PlaceRefused(o) ==
    /\ bill[o] # NoOrder /\ bill[o].phase = "quoted"
    /\ bill' = [bill EXCEPT ![o] = NoOrder]
    /\ UNCHANGED fees

-----------------------------------------------------------------------------
(* Shares, resolved in the transaction that delivers.                      *)

LegShare(onTime) == IF onTime THEN setting.riderOntime ELSE setting.riderLate
PointShare(b) == IF b.point THEN setting.pointRider ELSE 0
CookingShare(ready) == IF ready THEN setting.vendorOntime ELSE 0

\* Rider's and vendor's, the same sum in either delivery mode.
PaidOut(b, ready, onTime) ==
    LegShare(onTime) + PointShare(b) + CookingShare(ready)

\* The platform keeps the rest; if it is negative the delivery is refused.
Resolves(o, ready, onTime) ==
    PaidOut(bill[o].basket, ready, onTime) <= bill[o].fee

\* Delivered, the order leaves this module: the shares it keeps are Dispatch's.
Deliver(o) ==
    /\ bill[o] # NoOrder /\ bill[o].phase = "placed"
    /\ \E ready, onTime \in BOOLEAN : Resolves(o, ready, onTime)
    /\ bill' = [bill EXCEPT ![o] = NoOrder]
    /\ UNCHANGED fees

Next ==
    \/ \E a \in Editors :
           \/ \E c \in Choices : ReadSettings(a, c[1], c[2])
           \/ UpsertSetting(a)
    \/ \E fee \in ZoneFees : UpdateZone(fee)
    \/ \E o \in Orders :
           \/ \E b \in Baskets : Quote(o, b)
           \/ Place(o) \/ PlaceRefused(o) \/ Deliver(o)

Spec == Init /\ [][Next]_vars

-----------------------------------------------------------------------------
(* Top-ups, in kobo.                                                       *)

FlatFee == 10000
FlatFeeWaivedBelow == 250000
FeeCap == 200000

Least(x, y) == IF x < y THEN x ELSE y

\* Paystack's published fee on a charge: 1.5 percent and a flat part.
PaystackFee(charge) ==
    Least(FeeCap, (charge * 15 + 500) \div 1000 +
                  (IF charge < FlatFeeWaivedBelow THEN 0 ELSE FlatFee))
Net(charge) == charge - PaystackFee(charge)

\* calculateTopupCharge: x / 0.985 is x + 3x / 197, rounded up, and one.
TopupCharge(credit) ==
    LET flat == IF credit < FlatFeeWaivedBelow THEN 0 ELSE FlatFee
    IN  IF credit * 15 + flat * 1000 > FeeCap * 1000 THEN credit + FeeCap
        ELSE credit + flat + (3 * (credit + flat) + 196) \div 197 + 1

-----------------------------------------------------------------------------
(* Properties.                                                             *)

\* The two inequalities of assertFeeConfigValid hold of the settings unless
\* an edit was written after another had changed what it was checked against.
SettingsStayValid ==
    contested \/ (PaysBase(setting) /\ PaysPoint(setting))

CanBlock(o) == \E ready, onTime \in BOOLEAN : ~Resolves(o, ready, onTime)

\* A delivery can be refused for want of a fee to divide only if the order
\* paid a zone's fee below the base the settings were checked against, or was
\* placed under contested settings; if the settings are contested now; if a
\* late delivery pays more than a timely one; or if a share was raised since.
BlockedHasReasons ==
    \A o \in Orders :
        /\ bill[o] # NoOrder /\ bill[o].phase = "placed"
        /\ CanBlock(o)
        => \/ bill[o].underpaid \/ bill[o].raised \/ contested
           \/ setting.riderLate > setting.riderOntime

\* The platform's share is negative only for the causes the code leaves open
\* (assertFeeConfigValid, resolve_order_delivery_shares).
ResidualsHaveReasons == SettingsStayValid /\ BlockedHasReasons

\* Charged is what was quoted, less the discount, unless the zone's fee has
\* changed in between or the point surcharge, which quotes leave out, is due.
ChargedAsQuoted ==
    \A o \in Orders :
        LET r == bill[o] IN
        r # NoOrder /\ r.phase = "placed" =>
            \/ r.basket.point \/ r.fee # r.zone
            \/ r.total = r.quote
            \/ r.basket.discount > 0 /\ r.total < r.quote

\* A charge in the band where the credit is below the waiver and the charge
\* is not pays a flat fee nobody added.
PaysFlatUnasked(credit) ==
    credit < FlatFeeWaivedBelow /\ TopupCharge(credit) >= FlatFeeWaivedBelow

\* What is left of a top-up after Paystack's fee covers the credit, but for
\* that band.
TopupsCoverFees ==
    \A c \in Credits : Net(TopupCharge(c)) >= c \/ PaysFlatUnasked(c)

\* Customers pay what they were told and what the platform is charged, but
\* for the causes named (buildQuote, the creation functions, the gross-up).
PricesHaveReasons == ChargedAsQuoted /\ TopupsCoverFees

\* The comment on assertFeeConfigValid: the two inequalities "keep the
\* platform's share on any delivery non-negative".
DeliveriesResolve ==
    \A o \in Orders :
        bill[o] # NoOrder /\ bill[o].phase = "placed" => ~CanBlock(o)

\* The comment in createOrder: "with no promo code the quote IS the final
\* total".
QuoteIsFinal ==
    \A o \in Orders :
        LET r == bill[o] IN
        r # NoOrder /\ r.phase = "placed" /\ r.basket.discount = 0 =>
            r.total = r.quote

\* The comment in calculateTopupCharge: "the net never falls a kobo short".
NetNeverShort == \A c \in Credits : Net(TopupCharge(c)) >= c
=============================================================================
