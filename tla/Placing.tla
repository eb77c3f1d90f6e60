------------------------------- MODULE Placing -------------------------------
(***************************************************************************)
(* What the two creation functions promise, with no statements, locks or   *)
(* sessions: orders are placed one at a time, each only while its stock,   *)
(* its promotion and its wallet allow one more beside all that was placed  *)
(* before, and the requests of one key are told of one order.              *)
(***************************************************************************)
EXTENDS Integers, FiniteSets

CONSTANTS
    Requests, Nobody,
    KeyOf, CustomerOf,
    Items,
    Cart,      \* Cart[r]: the items of request r
    Stocked,
    ByWallet, Promoted,
    TotalLimit, PerUserLimit,
    StartBalance

VARIABLES
    placed,  \* the requests whose orders exist
    answer   \* the order each request was told of

vars == <<placed, answer>>

Init ==
    /\ placed = {}
    /\ answer = [r \in Requests |-> Nobody]

OfCustomer(r, set) == {p \in placed \cap set : CustomerOf[p] = CustomerOf[r]}

StockAllows(r) ==
    \A i \in Cart[r] : Cardinality({p \in placed : i \in Cart[p]}) < Stocked[i]
PromotionAllows(r) ==
    r \in Promoted =>
        /\ Cardinality(placed \cap Promoted) < TotalLimit
        /\ Cardinality(OfCustomer(r, Promoted)) < PerUserLimit
WalletAllows(r) ==
    r \in ByWallet => Cardinality(OfCustomer(r, ByWallet)) < StartBalance

\* The order is placed, and its request is told so.
Place(r) ==
    /\ answer[r] = Nobody
    /\ \A p \in placed : KeyOf[p] # KeyOf[r]
    /\ StockAllows(r) /\ PromotionAllows(r) /\ WalletAllows(r)
    /\ placed' = placed \cup {r}
    /\ answer' = [answer EXCEPT ![r] = r]

\* A repeated request is told of the order that its key has placed.
Repeat(r) ==
    /\ answer[r] = Nobody
    /\ \E p \in placed :
          /\ KeyOf[p] = KeyOf[r]
          /\ answer' = [answer EXCEPT ![r] = p]
    /\ UNCHANGED placed

Next == \E r \in Requests : Place(r) \/ Repeat(r)

Spec == Init /\ [][Next]_vars
=============================================================================
