---------------------------- MODULE OrderCreation ----------------------------
(***************************************************************************)
(* Order creation statement by statement: concurrent sessions of           *)
(* create_pending_order_and_reserve_inventory (card) and                   *)
(* create_paid_order_from_wallet, READ COMMITTED, over the rows they lock: *)
(* the idempotency key, the inventory rows in the cart's order, the        *)
(* promotion, the customer's wallet. Locks are held to the end of the      *)
(* transaction and its writes appear when it commits.                      *)
(*                                                                         *)
(* It is what lets Orders take a creation as one atomic step.              *)
(***************************************************************************)
EXTENDS Integers, Sequences, FiniteSets

CONSTANTS
    Requests,      \* creation requests; a retry is a request with the same key
    Nobody,        \* not a request
    Keys, KeyOf,   \* KeyOf[r]: the request's (customer, idempotency key)
    Customers, CustomerOf,
    Items, Basket, \* Basket[r]: the items of r's lines, in the client's order
    Stocked,       \* Stocked[i]: quantity_total + quantity_adjusted
    ByWallet,      \* requests that pay from the wallet
    Promoted,      \* requests that use the promotion code
    TotalLimit, PerUserLimit,  \* the promotion's usage limits
    StartBalance   \* every wallet's balance; an order costs 1

ASSUME RequestsAssumption ==
    /\ IsFiniteSet(Requests)
    /\ Nobody \notin Requests
    /\ KeyOf \in [Requests -> Keys]
    /\ CustomerOf \in [Requests -> Customers]
    /\ StartBalance \in Nat
    /\ \A r, s \in Requests : KeyOf[r] = KeyOf[s] => CustomerOf[r] = CustomerOf[s]
ASSUME BasketAssumption ==
    /\ Basket \in [Requests -> Seq(Items)]
    /\ \A r \in Requests : \A m, n \in 1..Len(Basket[r]) :
          Basket[r][m] = Basket[r][n] => m = n
    /\ Stocked \in [Items -> Nat]
ASSUME LimitsAssumption == TotalLimit \in Nat /\ PerUserLimit \in Nat

VARIABLES
    pc,        \* the statement each session executes next
    line,      \* the cart line its loop has reached
    holder,    \* who holds each row lock
    keyed,     \* committed idempotency_keys.resource_id
    expired,   \* keys past expires_at
    created,   \* committed orders (named by the request that created them)
    reserved, sold,  \* committed counters of menu_item_inventory
    redeemed,  \* committed promotion_redemptions
    balance,   \* committed wallets.balance_kobo
    answer     \* the order id each finished session returned

vars == <<pc, line, holder, keyed, expired, created, reserved, sold, redeemed,
          balance, answer>>
tables == <<keyed, created, reserved, sold, redeemed, balance>>

KeyRow(k) == <<"idempotency_keys", k>>
InventoryRow(i) == <<"menu_item_inventory", i>>
WalletRow(c) == <<"wallets", c>>
PromotionRow == <<"promotions", "code">>
Rows == {KeyRow(k) : k \in Keys} \cup {InventoryRow(i) : i \in Items}
          \cup {WalletRow(c) : c \in Customers} \cup {PromotionRow}

Stages == {"reserve", "promote", "pay", "commit"}
Ended == {"done", "failed"}

TypeOK ==
    /\ pc \in [Requests -> {"select", "claim", "reread"} \cup Stages \cup Ended]
    /\ line \in [Requests -> Nat]
    /\ holder \in [Rows -> Requests \cup {Nobody}]
    /\ keyed \in [Keys -> Requests \cup {Nobody}]
    /\ expired \in SUBSET Keys
    /\ created \in SUBSET Requests
    /\ reserved \in [Items -> Nat]
    /\ sold \in [Items -> Nat]
    /\ redeemed \in SUBSET Requests
    /\ balance \in [Customers -> Int]
    /\ answer \in [Requests -> Requests \cup {Nobody}]

Init ==
    /\ pc = [r \in Requests |-> "select"]
    /\ line = [r \in Requests |-> 1]
    /\ holder = [x \in Rows |-> Nobody]
    /\ keyed = [k \in Keys |-> Nobody]
    /\ expired = {}
    /\ created = {}
    /\ reserved = [i \in Items |-> 0]
    /\ sold = [i \in Items |-> 0]
    /\ redeemed = {}
    /\ balance = [c \in Customers |-> StartBalance]
    /\ answer = [r \in Requests |-> Nobody]

-----------------------------------------------------------------------------
Released(r) == [x \in Rows |-> IF holder[x] = r THEN Nobody ELSE holder[x]]

Free(r, x) == holder[x] \in {Nobody, r}

Lock(r, x) ==
    /\ Free(r, x)
    /\ holder' = [holder EXCEPT ![x] = r]

\* The next row r takes a lock on, {} when it takes none.
Wanted(r) ==
    CASE pc[r] = "claim" -> {KeyRow(KeyOf[r])}
      [] pc[r] = "reserve" /\ line[r] <= Len(Basket[r]) ->
            {InventoryRow(Basket[r][line[r]])}
      [] pc[r] = "promote" /\ r \in Promoted -> {PromotionRow}
      [] pc[r] = "pay" /\ r \in ByWallet -> {WalletRow(CustomerOf[r])}
      [] OTHER -> {}

WaitsFor(r, s) == r # s /\ \E x \in Wanted(r) : holder[x] = s

\* r waits in a ring of sessions: each waits for one of them and is waited for.
Deadlocked(r) ==
    \E ring \in SUBSET Requests :
        /\ r \in ring
        /\ \A s \in ring : /\ \E t \in ring : WaitsFor(s, t)
                           /\ \E t \in ring : WaitsFor(t, s)

GoTo(r, stage) == pc' = [pc EXCEPT ![r] = stage]

Return(r, o) ==
    /\ answer' = [answer EXCEPT ![r] = o]
    /\ GoTo(r, "done")

\* The first select: an unexpired key with an order answers at once.
SelectKey(r) ==
    /\ pc[r] = "select"
    /\ IF keyed[KeyOf[r]] # Nobody /\ KeyOf[r] \notin expired
         THEN Return(r, keyed[KeyOf[r]])
         ELSE GoTo(r, "claim") /\ UNCHANGED answer
    /\ UNCHANGED <<line, holder, expired, tables>>

\* Mutant: the insert's conflict is ignored, as before the guard was added.
ClaimOrFallThrough(r) ==
    /\ pc[r] = "claim"
    /\ Free(r, KeyRow(KeyOf[r]))
    /\ holder' = [holder EXCEPT ![KeyRow(KeyOf[r])] = r]
    /\ GoTo(r, "reserve")
    /\ UNCHANGED <<line, expired, tables, answer>>

\* insert ... on conflict do nothing waits for an uncommitted row with the key,
\* inserts when that session aborts, and finds a conflict when it commits.
ClaimKey(r) ==
    /\ pc[r] = "claim"
    /\ \/ /\ keyed[KeyOf[r]] = Nobody
          /\ Lock(r, KeyRow(KeyOf[r]))
          /\ GoTo(r, "reserve")
       \/ /\ keyed[KeyOf[r]] # Nobody
          /\ Free(r, KeyRow(KeyOf[r]))
          /\ GoTo(r, "reread")
          /\ UNCHANGED holder
    /\ UNCHANGED <<line, expired, tables, answer>>

\* The guard: return the winner's order, expired or not; raise without one.
RereadKey(r) ==
    /\ pc[r] = "reread"
    /\ IF keyed[KeyOf[r]] # Nobody
         THEN Return(r, keyed[KeyOf[r]])
         ELSE GoTo(r, "failed") /\ UNCHANGED answer
    /\ UNCHANGED <<line, holder, expired, tables>>

\* Its menu items.
Wants(r) == {Basket[r][n] : n \in 1..Len(Basket[r])}

InStock(i) == reserved[i] + sold[i] + 1 <= Stocked[i]

\* One turn of the item loop: lock the row, check what remains, reserve.
ReserveLine(r) ==
    /\ pc[r] = "reserve"
    /\ \/ /\ line[r] <= Len(Basket[r])
          /\ Lock(r, InventoryRow(Basket[r][line[r]]))
          /\ InStock(Basket[r][line[r]])
          /\ line' = [line EXCEPT ![r] = @ + 1]
          /\ UNCHANGED pc
       \/ /\ line[r] > Len(Basket[r])
          /\ GoTo(r, "promote")
          /\ UNCHANGED <<line, holder>>
    /\ UNCHANGED <<expired, tables, answer>>

Redeemable(r) ==
    /\ Cardinality({p \in redeemed : CustomerOf[p] = CustomerOf[r]}) < PerUserLimit
    /\ Cardinality(redeemed) < TotalLimit

\* Mutant: the promotion row is read without for update.
RedeemUnlocked(r) ==
    /\ pc[r] = "promote"
    /\ r \in Promoted => Redeemable(r)
    /\ GoTo(r, "pay")
    /\ UNCHANGED <<line, holder, expired, tables, answer>>

\* The promotion's limits, counted under the lock on its row.
RedeemPromotion(r) ==
    /\ pc[r] = "promote"
    /\ IF r \in Promoted
         THEN Lock(r, PromotionRow) /\ Redeemable(r)
         ELSE UNCHANGED holder
    /\ GoTo(r, "pay")
    /\ UNCHANGED <<line, expired, tables, answer>>

\* The wallet leg of a wallet order, under the lock on the wallet's row.
PayFromWallet(r) ==
    /\ pc[r] = "pay"
    /\ IF r \in ByWallet
         THEN Lock(r, WalletRow(CustomerOf[r])) /\ balance[CustomerOf[r]] >= 1
         ELSE UNCHANGED holder
    /\ GoTo(r, "commit")
    /\ UNCHANGED <<line, expired, tables, answer>>

\* The inserts and updates of the transaction become visible, with its answer.
Commit(r) ==
    LET taken == [i \in Items |-> IF i \in Wants(r) THEN 1 ELSE 0]
    IN  /\ pc[r] = "commit"
        /\ keyed' = [keyed EXCEPT ![KeyOf[r]] = r]
        /\ created' = created \cup {r}
        /\ redeemed' = IF r \in Promoted THEN redeemed \cup {r} ELSE redeemed
        /\ IF r \in ByWallet
             THEN /\ sold' = [i \in Items |-> sold[i] + taken[i]]
                  /\ balance' = [balance EXCEPT ![CustomerOf[r]] = @ - 1]
                  /\ UNCHANGED reserved
             ELSE /\ reserved' = [i \in Items |-> reserved[i] + taken[i]]
                  /\ UNCHANGED <<sold, balance>>
        /\ holder' = Released(r)
        /\ Return(r, r)
        /\ UNCHANGED <<line, expired>>

\* A check raises (nothing left, limit reached, short balance): roll back.
Refuse(r) ==
    /\ \A x \in Wanted(r) : Free(r, x)
    /\ \/ /\ pc[r] = "reserve" /\ line[r] <= Len(Basket[r])
          /\ ~InStock(Basket[r][line[r]])
       \/ pc[r] = "promote" /\ r \in Promoted /\ ~Redeemable(r)
       \/ pc[r] = "pay" /\ r \in ByWallet /\ balance[CustomerOf[r]] < 1
    /\ GoTo(r, "failed")
    /\ holder' = Released(r)
    /\ UNCHANGED <<line, expired, tables, answer>>

\* Any other check raises, or the connection breaks: roll back.
Abort(r) ==
    /\ pc[r] \in Stages
    /\ GoTo(r, "failed")
    /\ holder' = Released(r)
    /\ UNCHANGED <<line, expired, tables, answer>>

\* Mutant: sessions in a ring wait for each other.
NeverDetected(r) == FALSE /\ UNCHANGED vars

\* PostgreSQL (external) aborts one session of a deadlock.
DetectDeadlock(r) ==
    /\ Deadlocked(r)
    /\ GoTo(r, "failed")
    /\ holder' = Released(r)
    /\ UNCHANGED <<line, expired, tables, answer>>

\* 24 hours pass. Nothing deletes an expired key.
KeyExpires(k) ==
    /\ keyed[k] # Nobody
    /\ k \notin expired
    /\ expired' = expired \cup {k}
    /\ UNCHANGED <<pc, line, holder, tables, answer>>

Step(r) ==
    \/ SelectKey(r)
    \/ ClaimKey(r)
    \/ RereadKey(r)
    \/ ReserveLine(r)
    \/ RedeemPromotion(r)
    \/ PayFromWallet(r)
    \/ Commit(r)
    \/ Refuse(r)
    \/ DetectDeadlock(r)

Next ==
    \/ \E r \in Requests : Step(r) \/ Abort(r)
    \/ \E k \in Keys : KeyExpires(k)

Spec == Init /\ [][Next]_vars

\* The database executes every statement it can, and finds deadlocks.
FairSpec == Spec /\ \A r \in Requests : WF_vars(Step(r))

-----------------------------------------------------------------------------
(* Properties.                                                             *)

\* A double tap, a retry or a replay after the key expired creates one order.
OneOrderPerKey ==
    \A r, s \in created : KeyOf[r] = KeyOf[s] => r = s

\* Requests with one key are answered with the same order, which exists; only
\* a roll back of its own transaction lets a request end without an answer.
SameAnswer ==
    \A r, s \in Requests :
        /\ answer[r] # Nobody => answer[r] \in created
        /\ pc[r] = "done" /\ pc[s] = "done" /\ KeyOf[r] = KeyOf[s]
              => answer[r] = answer[s]

\* Whatever requests with one key overlap, abort or come back late, they make
\* one order and are told of that one.
KeyIsIdempotent == OneOrderPerKey /\ SameAnswer

\* The retryable error of the guard is never raised: whoever made the insert
\* conflict has committed its order with the key.
GuardAlwaysAnswers ==
    [][\A r \in Requests :
          pc[r] = "reread" /\ pc'[r] # "reread" => pc'[r] = "done"]_vars

\* A usage-limited promotion is not redeemed beyond its limits by sessions that
\* count redemptions at the same time.
PromotionWithinLimits ==
    /\ Cardinality(redeemed) <= TotalLimit
    /\ \A c \in Customers :
          Cardinality({p \in redeemed : CustomerOf[p] = c}) <= PerUserLimit

\* The wallet pays once per order and never more than it has.
WalletCoversOrders ==
    \A c \in Customers :
        /\ balance[c] >= 0
        /\ balance[c] = StartBalance
             - Cardinality({r \in created \cap ByWallet : CustomerOf[r] = c})

\* The committed counters are the units of the committed orders and fit in the
\* stock, whichever orders reserved their lines at the same time.
StockCoversOrders ==
    \A i \in Items :
        /\ reserved[i] + sold[i] <= Stocked[i]
        /\ reserved[i] + sold[i] = Cardinality({r \in created : i \in Wants(r)})

\* What several orders want at once is spent once: redemptions and money are
\* counted by sessions whose reads are older than each other's commits.
NothingOverspent ==
    PromotionWithinLimits /\ WalletCoversOrders /\ StockCoversOrders

\* Sessions that interleave statement by statement place orders one at a time:
\* at each commit all that the functions checked, under one lock after the
\* other, holds together of the committed tables (Placing).
Atomically == INSTANCE Placing WITH
                  placed <- created,
                  Cart <- [r \in Requests |-> Wants(r)]
ImplementsPlacing == Atomically!Spec

\* Every request is answered or rolled back, also when two carts lock the same
\* rows in opposite orders.
EveryRequestEnds == \A r \in Requests : <>(pc[r] \in Ended)
=============================================================================
