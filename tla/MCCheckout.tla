----------------------------- MODULE MCCheckout -----------------------------
(***************************************************************************)
(* Several creation requests, statement by statement, and one order in the *)
(* hands of every actor, checked side by side: "part" says which of the    *)
(* two moves, the other stays as it begins.                                *)
(***************************************************************************)
EXTENDS OrderCreation, TLC

CONSTANTS r1, r2, r3, r4, k1, k2, k3, c1, c2, i1, i2, i3, o1

CONSTANTS Orders, MaxTotal, MaxAdjusted, Targets

VARIABLE part

VARIABLES total, adjusted, held, bought, status, hold, batched, payment,
          provider, checkout, charge, verify, seen, unresolved, issue, age,
          cutoff, stranded

\* r1 and r2 are a double tap, one on the wallet and one on a card; r3 is the
\* customer's other device; r4 another customer's cart, the other way round.
AllRequests == {r1, r2, r3, r4}
TapKeys == (r1 :> k1) @@ (r2 :> k1) @@ (r3 :> k2) @@ (r4 :> k3)
TwoCustomers == (r1 :> c1) @@ (r2 :> c1) @@ (r3 :> c1) @@ (r4 :> c2)
CrossedBaskets ==
    (r1 :> <<i3>>) @@ (r2 :> <<i3>>) @@ (r3 :> <<i1, i2>>) @@ (r4 :> <<i2, i1>>)
ShortStock == (i1 :> 2) @@ (i2 :> 1) @@ (i3 :> 2)

\* The one order asks for the last unit of one item.
O == INSTANCE Orders WITH
        Items <- {i1},
        Cart <- [o \in Orders |-> [i \in {i1} |-> 1]],
        Lines <- [o \in Orders |-> [i \in {i1} |-> 1]],
        StartTotal <- [i \in {i1} |-> 1],
        reserved <- held,
        sold <- bought

order == <<total, adjusted, held, bought, status, hold, batched, payment,
           provider, checkout, charge, verify, seen, unresolved, issue, age,
           cutoff, stranded>>
all == <<part, vars, order>>

CheckoutInit == part \in {"creation", "order"} /\ Init /\ O!Init

CreationMoves == part = "creation" /\ Next /\ UNCHANGED <<part, order>>
OrderMoves == part = "order" /\ O!Next /\ UNCHANGED <<part, vars>>

\* The fairness of OrderCreation and of Orders, each for the part that moves.
CheckoutSpec ==
    /\ CheckoutInit
    /\ [][CreationMoves \/ OrderMoves]_all
    /\ part = "creation" => \A r \in Requests : WF_vars(Step(r))
    /\ part = "order" => O!Fairness

-----------------------------------------------------------------------------
\* Every creation request is answered or rolled back (the locks of
\* create_pending_order_and_reserve_inventory, taken in opposite orders).
RequestsEnd == part = "creation" => EveryRequestEnds

\* Nothing waits for payment for ever (release_expired_reservations).
PendingEnds == O!PendingEnds

\* Captures are honoured though webhooks are lost (the reconciliation sweep).
CaptureNeverStranded == O!CaptureNeverStranded
=============================================================================
