------------------------- MODULE OrderCreationProofs -------------------------
(***************************************************************************)
(* Theorems about OrderCreation, for every set of requests, keys and carts:*)
(* the idempotency key names one order, whatever the interleaving.         *)
(***************************************************************************)
EXTENDS OrderCreation, FiniteSetTheorems, TLAPS

\* A session between its insert of the key and its commit owns the key, which
\* names no order yet; a key that names one names the only one, for good.
KeyInv ==
    /\ pc \in [Requests -> {"select", "claim", "reread"} \cup Stages \cup Ended]
    /\ holder \in [Rows -> Requests \cup {Nobody}]
    /\ keyed \in [Keys -> Requests \cup {Nobody}]
    /\ answer \in [Requests -> Requests \cup {Nobody}]
    /\ created \in SUBSET Requests
    /\ \A r \in created : keyed[KeyOf[r]] = r
    /\ \A k \in Keys : keyed[k] # Nobody => keyed[k] \in created
    /\ \A r \in Requests :
          /\ pc[r] \in Stages => /\ holder[KeyRow(KeyOf[r])] = r
                                 /\ keyed[KeyOf[r]] = Nobody
          /\ pc[r] = "reread" => keyed[KeyOf[r]] # Nobody
          /\ answer[r] # Nobody => answer[r] = keyed[KeyOf[r]]
          /\ pc[r] = "done" => answer[r] # Nobody

LEMMA KeyOfRequest ==
    ASSUME NEW r \in Requests
    PROVE  KeyOf[r] \in Keys /\ KeyRow(KeyOf[r]) \in Rows /\ r # Nobody
  BY RequestsAssumption DEF Rows

LEMMA RowsDiffer ==
    ASSUME NEW k, NEW i, NEW c
    PROVE  /\ KeyRow(k) # InventoryRow(i)
           /\ KeyRow(k) # WalletRow(c)
           /\ KeyRow(k) # PromotionRow
  BY DEF KeyRow, InventoryRow, WalletRow, PromotionRow

LEMMA KeyRowsDiffer ==
    ASSUME NEW k, NEW l, KeyRow(k) = KeyRow(l)
    PROVE  k = l
  BY DEF KeyRow

LEMMA KeyInit == Init => KeyInv
  BY KeyOfRequest DEF Init, KeyInv, Stages, Ended

\* Ending a session in a roll back, or locking a row that is no key.
LEMMA RollBackKeepsKeys ==
    ASSUME KeyInv, NEW r \in Requests,
           pc[r] # "done" \/ pc[r] \in Stages,
           pc' = [pc EXCEPT ![r] = "failed"],
           holder' = Released(r),
           UNCHANGED <<tables, answer>>
    PROVE  KeyInv'
  <1>1. holder' \in [Rows -> Requests \cup {Nobody}]
    BY DEF KeyInv, Released
  <1>2. \A s \in Requests : s # r /\ pc[s] \in Stages =>
          holder'[KeyRow(KeyOf[s])] = s
    BY KeyOfRequest DEF KeyInv, Released
  <1> QED BY <1>1, <1>2, KeyOfRequest DEF KeyInv, Stages, Ended, tables

LEMMA LockKeepsKeys ==
    ASSUME KeyInv, NEW r \in Requests, NEW x \in Rows,
           \A k \in Keys : x # KeyRow(k),
           pc[r] \in Stages,
           holder' = [holder EXCEPT ![x] = r] \/ holder' = holder,
           (\E stage \in Stages : pc' = [pc EXCEPT ![r] = stage]) \/ pc' = pc,
           UNCHANGED <<tables, answer>>
    PROVE  KeyInv'
  <1>1. holder' \in [Rows -> Requests \cup {Nobody}]
    BY DEF KeyInv
  <1>2. \A k \in Keys : KeyRow(k) \in Rows => holder'[KeyRow(k)] = holder[KeyRow(k)]
    BY DEF KeyInv
  <1>3. /\ pc' \in [Requests -> {"select", "claim", "reread"} \cup Stages \cup Ended]
        /\ \A s \in Requests : /\ pc'[s] \in Stages <=> pc[s] \in Stages
                               /\ pc'[s] = "done" <=> pc[s] = "done"
                               /\ pc'[s] = "reread" <=> pc[s] = "reread"
    BY DEF KeyInv, Stages, Ended
  <1> QED BY <1>1, <1>2, <1>3, KeyOfRequest DEF KeyInv, tables

LEMMA CommitKeepsKeys ==
    ASSUME KeyInv, NEW r \in Requests, Commit(r)
    PROVE  KeyInv'
  <1>1. /\ pc[r] = "commit"
        /\ keyed' = [keyed EXCEPT ![KeyOf[r]] = r]
        /\ created' = created \cup {r}
        /\ holder' = Released(r)
        /\ answer' = [answer EXCEPT ![r] = r]
        /\ pc' = [pc EXCEPT ![r] = "done"]
    BY DEF Commit, Return, GoTo
  <1>2. holder[KeyRow(KeyOf[r])] = r /\ keyed[KeyOf[r]] = Nobody
    BY <1>1 DEF KeyInv, Stages
  <1>3. \A s \in Requests : s # r /\ KeyOf[s] = KeyOf[r] =>
          /\ pc[s] \notin Stages
          /\ answer[s] = Nobody
          /\ s \notin created
    BY <1>2, KeyOfRequest DEF KeyInv
  <1>4. holder' \in [Rows -> Requests \cup {Nobody}]
    BY <1>1 DEF KeyInv, Released
  <1>5. \A s \in Requests : s # r /\ pc[s] \in Stages =>
          holder'[KeyRow(KeyOf[s])] = s
    BY <1>1, KeyOfRequest DEF KeyInv, Released
  <1>6. /\ pc' \in [Requests -> {"select", "claim", "reread"} \cup Stages \cup Ended]
        /\ keyed' \in [Keys -> Requests \cup {Nobody}]
        /\ answer' \in [Requests -> Requests \cup {Nobody}]
        /\ created' \in SUBSET Requests
    BY <1>1 DEF KeyInv, Ended
  <1>7. /\ \A s \in created' : keyed'[KeyOf[s]] = s
        /\ \A k \in Keys : keyed'[k] # Nobody => keyed'[k] \in created'
    BY <1>1, <1>3, KeyOfRequest DEF KeyInv
  <1>8. ASSUME NEW s \in Requests
        PROVE  /\ pc'[s] \in Stages => /\ holder'[KeyRow(KeyOf[s])] = s
                                       /\ keyed'[KeyOf[s]] = Nobody
               /\ pc'[s] = "reread" => keyed'[KeyOf[s]] # Nobody
               /\ answer'[s] # Nobody => answer'[s] = keyed'[KeyOf[s]]
               /\ pc'[s] = "done" => answer'[s] # Nobody
    <2>1. CASE s = r
      BY <1>1, <2>1, KeyOfRequest DEF KeyInv, Stages
    <2>2. CASE s # r
      BY <1>1, <1>3, <1>5, <2>2, KeyOfRequest DEF KeyInv
    <2> QED BY <2>1, <2>2
  <1> QED BY <1>4, <1>6, <1>7, <1>8 DEF KeyInv

LEMMA KeyStep ==
    ASSUME KeyInv, [Next]_vars
    PROVE  KeyInv'
  <1>1. ASSUME NEW r \in Requests, Step(r) \/ Abort(r) PROVE KeyInv'
    <2>1. CASE SelectKey(r)
      <3>1. /\ pc[r] = "select"
            /\ UNCHANGED <<holder, tables>>
            /\ \/ /\ keyed[KeyOf[r]] # Nobody
                  /\ answer' = [answer EXCEPT ![r] = keyed[KeyOf[r]]]
                  /\ pc' = [pc EXCEPT ![r] = "done"]
               \/ /\ pc' = [pc EXCEPT ![r] = "claim"]
                  /\ UNCHANGED answer
        BY <2>1 DEF SelectKey, Return, GoTo
      <3> QED BY <3>1, KeyOfRequest DEF KeyInv, tables, Stages, Ended
    <2>2. CASE ClaimKey(r)
      <3>1. CASE keyed[KeyOf[r]] = Nobody
        <4>1. /\ pc[r] = "claim"
              /\ holder[KeyRow(KeyOf[r])] \in {Nobody, r}
              /\ holder' = [holder EXCEPT ![KeyRow(KeyOf[r])] = r]
              /\ pc' = [pc EXCEPT ![r] = "reserve"]
              /\ UNCHANGED <<tables, answer>>
          BY <2>2, <3>1 DEF ClaimKey, Lock, Free, GoTo
        <4>2. \A s \in Requests : pc[s] \in Stages => s # r
          BY <4>1 DEF Stages
        <4>3. \A s \in Requests : pc[s] \in Stages => KeyRow(KeyOf[s]) # KeyRow(KeyOf[r])
          BY <4>1, <4>2, KeyOfRequest DEF KeyInv
        <4> QED BY <3>1, <4>1, <4>2, <4>3, KeyOfRequest DEF KeyInv, tables, Stages, Ended
      <3>2. CASE keyed[KeyOf[r]] # Nobody
        <4>1. /\ pc[r] = "claim"
              /\ pc' = [pc EXCEPT ![r] = "reread"]
              /\ UNCHANGED <<holder, tables, answer>>
          BY <2>2, <3>2 DEF ClaimKey, GoTo
        <4> QED BY <3>2, <4>1, KeyOfRequest DEF KeyInv, tables, Stages, Ended
      <3> QED BY <3>1, <3>2
    <2>3. CASE RereadKey(r)
      <3>1. /\ pc[r] = "reread"
            /\ keyed[KeyOf[r]] # Nobody
            /\ answer' = [answer EXCEPT ![r] = keyed[KeyOf[r]]]
            /\ pc' = [pc EXCEPT ![r] = "done"]
            /\ UNCHANGED <<holder, tables>>
        BY <2>3 DEF RereadKey, Return, GoTo, KeyInv
      <3> QED BY <3>1, KeyOfRequest DEF KeyInv, tables, Stages, Ended
    <2>4. CASE ReserveLine(r)
      <3>1. CASE Lock(r, InventoryRow(Basket[r][line[r]])) /\ UNCHANGED pc
        <4> DEFINE x == InventoryRow(Basket[r][line[r]])
        <4>1. /\ pc[r] \in Stages
              /\ holder' = [holder EXCEPT ![x] = r]
              /\ UNCHANGED <<pc, tables, answer>>
          BY <2>4, <3>1 DEF ReserveLine, Lock, Stages, GoTo
        <4>2. \A k \in Keys : x # KeyRow(k)
          BY RowsDiffer
        <4> HIDE DEF x
        <4>3. CASE x \in Rows
          BY <4>1, <4>2, <4>3, LockKeepsKeys
        <4>4. CASE x \notin Rows
          <5>1. holder' = holder
            BY <4>1, <4>4 DEF KeyInv
          <5> QED BY <4>1, <5>1 DEF KeyInv, tables
        <4> QED BY <4>3, <4>4
      <3>2. CASE GoTo(r, "promote") /\ UNCHANGED holder
        <4>1. /\ pc[r] \in Stages
              /\ pc' = [pc EXCEPT ![r] = "promote"]
              /\ UNCHANGED <<holder, tables, answer>>
          BY <2>4, <3>2 DEF ReserveLine, Stages, GoTo
        <4>2. "promote" \in Stages /\ PromotionRow \in Rows
          BY DEF Stages, Rows
        <4> QED BY <4>1, <4>2, RowsDiffer, LockKeepsKeys
      <3> QED BY <2>4, <3>1, <3>2 DEF ReserveLine
    <2>5. CASE RedeemPromotion(r)
      <3>1. /\ pc[r] \in Stages
            /\ holder' = [holder EXCEPT ![PromotionRow] = r] \/ holder' = holder
            /\ pc' = [pc EXCEPT ![r] = "pay"]
            /\ UNCHANGED <<tables, answer>>
        BY <2>5 DEF RedeemPromotion, Lock, Stages, GoTo
      <3>2. "pay" \in Stages /\ PromotionRow \in Rows
        BY DEF Stages, Rows
      <3> QED BY <3>1, <3>2, RowsDiffer, LockKeepsKeys
    <2>6. CASE PayFromWallet(r)
      <3> DEFINE x == WalletRow(CustomerOf[r])
      <3>1. /\ pc[r] \in Stages
            /\ holder' = [holder EXCEPT ![x] = r] \/ holder' = holder
            /\ pc' = [pc EXCEPT ![r] = "commit"]
            /\ UNCHANGED <<tables, answer>>
        BY <2>6 DEF PayFromWallet, Lock, Stages, GoTo
      <3>2. "commit" \in Stages /\ x \in Rows
        BY RequestsAssumption DEF Stages, Rows
      <3>3. \A k \in Keys : x # KeyRow(k)
        BY RowsDiffer
      <3> HIDE DEF x
      <3> QED BY <3>1, <3>2, <3>3, LockKeepsKeys
    <2>7. CASE Commit(r)
      BY <2>7, CommitKeepsKeys
    <2>8. CASE Refuse(r) \/ Abort(r)
      <3>1. /\ pc[r] # "done"
            /\ pc' = [pc EXCEPT ![r] = "failed"]
            /\ holder' = Released(r)
            /\ UNCHANGED <<tables, answer>>
        BY <2>8 DEF Refuse, Abort, GoTo, Stages
      <3> QED BY <3>1, RollBackKeepsKeys
    <2>9. CASE DetectDeadlock(r)
      <3>1. Wanted(r) # {}
        BY <2>9 DEF DetectDeadlock, Deadlocked, WaitsFor
      <3>2. pc[r] # "done"
        BY <3>1 DEF Wanted
      <3>3. /\ pc' = [pc EXCEPT ![r] = "failed"]
            /\ holder' = Released(r)
            /\ UNCHANGED <<tables, answer>>
        BY <2>9 DEF DetectDeadlock, GoTo
      <3> QED BY <3>2, <3>3, RollBackKeepsKeys
    <2> QED BY <1>1, <2>1, <2>2, <2>3, <2>4, <2>5, <2>6, <2>7, <2>8, <2>9 DEF Step
  <1>2. ASSUME NEW k \in Keys, KeyExpires(k) PROVE KeyInv'
    BY <1>2 DEF KeyExpires, KeyInv, tables
  <1>3. CASE UNCHANGED vars
    BY <1>3 DEF vars, KeyInv, tables
  <1> QED BY <1>1, <1>2, <1>3 DEF Next

\* Whatever sessions race, abort, deadlock or come back after the key expired,
\* a key creates one order and answers every request with it.
THEOREM OneOrder == Spec => []KeyIsIdempotent
  <1>1. KeyInv => KeyIsIdempotent
    <2> SUFFICES ASSUME KeyInv PROVE KeyIsIdempotent
      OBVIOUS
    <2>1. OneOrderPerKey
      BY DEF KeyInv, OneOrderPerKey
    <2>2. SameAnswer
      BY KeyOfRequest DEF KeyInv, SameAnswer
    <2> QED BY <2>1, <2>2 DEF KeyIsIdempotent
  <1> QED BY <1>1, KeyInit, KeyStep, PTL DEF Spec

\* The retryable error of the guard is dead code: a conflicting insert waited
\* for a commit, which leaves the key naming an order.
THEOREM GuardAnswers == Spec => GuardAlwaysAnswers
  <1> DEFINE Answers == \A r \in Requests :
                          pc[r] = "reread" /\ pc'[r] # "reread" => pc'[r] = "done"
  <1>1. KeyInv /\ [Next]_vars => [Answers]_vars
    <2> SUFFICES ASSUME KeyInv, Next PROVE Answers
      OBVIOUS
    <2>1. ASSUME NEW r \in Requests, NEW s \in Requests, Step(s) \/ Abort(s),
                 pc[r] = "reread", pc'[r] # "reread"
          PROVE  pc'[r] = "done"
      <3>1. \E stage : pc' = [pc EXCEPT ![s] = stage]
        BY <2>1 DEF Step, SelectKey, ClaimKey, RereadKey, ReserveLine,
             RedeemPromotion, PayFromWallet, Commit, Refuse, Abort,
             DetectDeadlock, Return, GoTo, KeyInv
      <3>2. s = r
        BY <2>1, <3>1 DEF KeyInv
      <3>3. Wanted(s) = {}
        BY <2>1, <3>2 DEF Wanted
      <3>4. ~DetectDeadlock(s)
        BY <3>3 DEF DetectDeadlock, Deadlocked, WaitsFor
      <3>5. RereadKey(s)
        BY <2>1, <3>2, <3>4 DEF Step, SelectKey, ClaimKey, ReserveLine,
             RedeemPromotion, PayFromWallet, Commit, Refuse, Abort, Stages
      <3> QED BY <2>1, <3>2, <3>5 DEF RereadKey, Return, GoTo, KeyInv
    <2>2. ASSUME NEW k \in Keys, KeyExpires(k) PROVE Answers
      BY <2>2 DEF KeyExpires
    <2> QED BY <2>1, <2>2 DEF Next
  <1> QED BY <1>1, KeyInit, KeyStep, PTL DEF Spec, GuardAlwaysAnswers

-----------------------------------------------------------------------------
(* What the locks protect: units, redemptions and money.                   *)

\* What a session checked under a lock still holds while it keeps the lock.
KeepsPromotion(r) ==
    pc[r] \in {"pay", "commit"} /\ r \in Promoted =>
        holder[PromotionRow] = r /\ Redeemable(r)
KeepsWallet(r) ==
    pc[r] = "commit" /\ r \in ByWallet =>
        holder[WalletRow(CustomerOf[r])] = r /\ balance[CustomerOf[r]] >= 1
KeepsLines(r) ==
    \A n \in 1..Len(Basket[r]) :
        pc[r] \in {"promote", "pay", "commit"} \/ (pc[r] = "reserve" /\ n < line[r]) =>
            holder[InventoryRow(Basket[r][n])] = r /\ InStock(Basket[r][n])
Begins(r) == pc[r] \in {"select", "claim"} => line[r] = 1
Keeps(r) == KeepsPromotion(r) /\ KeepsWallet(r) /\ KeepsLines(r) /\ Begins(r)

FundsInv ==
    /\ KeyInv
    /\ line \in [Requests -> Nat]
    /\ reserved \in [Items -> Nat]
    /\ sold \in [Items -> Nat]
    /\ redeemed \in SUBSET Requests
    /\ balance \in [Customers -> Int]
    /\ NothingOverspent
    /\ \A r \in Requests : Keeps(r)

LEMMA CountWith ==
    ASSUME NEW S, NEW x, IsFiniteSet(S), x \notin S, NEW T, T = S \cup {x}
    PROVE  /\ Cardinality(T) = Cardinality(S) + 1
           /\ Cardinality(S) \in Nat
  BY FS_AddElement, FS_CardinalityType

LEMMA Finite ==
    ASSUME NEW S \in SUBSET Requests
    PROVE  IsFiniteSet(S) /\ Cardinality(S) \in Nat
  BY RequestsAssumption, FS_Subset, FS_CardinalityType

LEMMA OneMoreFits ==
    ASSUME NEW S \in SUBSET Requests, NEW x, NEW m \in Nat, Cardinality(S) < m
    PROVE  Cardinality(S \cup {x}) <= m
  <1>1. IsFiniteSet(S) /\ Cardinality(S) \in Nat
    BY Finite
  <1>2. Cardinality(S \cup {x}) = Cardinality(S)
          \/ Cardinality(S \cup {x}) = Cardinality(S) + 1
    BY <1>1, FS_AddElement
  <1> QED BY <1>1, <1>2

LEMMA FundsInit == Init => FundsInv
  <1> SUFFICES ASSUME Init PROVE FundsInv
    OBVIOUS
  <1>1. KeyInv
    BY KeyInit
  <1>2. created = {} /\ redeemed = {}
    BY DEF Init
  <1>3. PromotionWithinLimits
    <2>1. \A c \in Customers : {p \in redeemed : CustomerOf[p] = c} = {}
      BY <1>2
    <2>2. Cardinality(redeemed) = 0
      BY <1>2, FS_EmptySet
    <2>3. \A c \in Customers : Cardinality({p \in redeemed : CustomerOf[p] = c}) = 0
      BY <2>1, FS_EmptySet
    <2> QED BY <2>2, <2>3, LimitsAssumption DEF PromotionWithinLimits
  <1>4. WalletCoversOrders
    <2>1. \A c \in Customers : {r \in created \cap ByWallet : CustomerOf[r] = c} = {}
      BY <1>2
    <2>2. \A c \in Customers :
            Cardinality({r \in created \cap ByWallet : CustomerOf[r] = c}) = 0
      BY <2>1, FS_EmptySet
    <2>3. \A c \in Customers : balance[c] = StartBalance
      BY DEF Init
    <2> QED BY <2>2, <2>3, RequestsAssumption DEF WalletCoversOrders
  <1>5. StockCoversOrders
    <2>1. \A i \in Items : {r \in created : i \in Wants(r)} = {}
      BY <1>2
    <2>2. \A i \in Items : Cardinality({r \in created : i \in Wants(r)}) = 0
      BY <2>1, FS_EmptySet
    <2>3. \A i \in Items : reserved[i] = 0 /\ sold[i] = 0
      BY DEF Init
    <2> QED BY <2>2, <2>3, BasketAssumption DEF StockCoversOrders
  <1>6. \A r \in Requests : Keeps(r)
    BY DEF Init, Keeps, KeepsPromotion, KeepsWallet, KeepsLines, Begins
  <1>7. /\ line \in [Requests -> Nat] /\ reserved \in [Items -> Nat]
        /\ sold \in [Items -> Nat] /\ redeemed \in SUBSET Requests
        /\ balance \in [Customers -> Int]
    BY RequestsAssumption DEF Init
  <1> QED BY <1>1, <1>3, <1>4, <1>5, <1>6, <1>7 DEF FundsInv, NothingOverspent

\* A session keeps what it has while the others take only free locks.
LEMMA OthersKeep ==
    ASSUME NEW s \in Requests, Keeps(s),
           UNCHANGED tables,
           pc'[s] = pc[s], line'[s] = line[s],
           \A x \in Rows : holder[x] = s => holder'[x] = s,
           holder \in [Rows -> Requests \cup {Nobody}]
    PROVE  Keeps(s)'
  <1>1. PromotionRow \in Rows /\ WalletRow(CustomerOf[s]) \in Rows
    BY RequestsAssumption DEF Rows
  <1>2. \A n \in 1..Len(Basket[s]) : InventoryRow(Basket[s][n]) \in Rows
    BY BasketAssumption DEF Rows
  <1>3. KeepsPromotion(s)'
    BY <1>1 DEF Keeps, KeepsPromotion, Redeemable, tables
  <1>4. KeepsWallet(s)'
    BY <1>1 DEF Keeps, KeepsWallet, tables
  <1>5. KeepsLines(s)'
    BY <1>2 DEF Keeps, KeepsLines, InStock, tables
  <1> QED BY <1>3, <1>4, <1>5 DEF Keeps, Begins

\* A statement that only moves its session and takes or frees its locks.
LEMMA StatementKeeps ==
    ASSUME FundsInv, NEW r \in Requests, KeyInv', UNCHANGED tables,
           \A s \in Requests : s # r => pc'[s] = pc[s] /\ line'[s] = line[s],
           \A s \in Requests : s # r =>
              \A x \in Rows : holder[x] = s => holder'[x] = s,
           line' \in [Requests -> Nat],
           Keeps(r)'
    PROVE  FundsInv'
  <1>1. NothingOverspent'
    BY DEF FundsInv, NothingOverspent, PromotionWithinLimits, WalletCoversOrders,
           StockCoversOrders, Wants, tables
  <1>2. \A s \in Requests : Keeps(s)'
    BY OthersKeep DEF FundsInv, KeyInv
  <1> QED BY <1>1, <1>2 DEF FundsInv, tables

\* What r holds no other session holds, so what another one checked under its
\* locks is not what r's commit changes.
LEMMA CommitSparesOthers ==
    ASSUME FundsInv, NEW r \in Requests, Commit(r), NEW s \in Requests, s # r
    PROVE  Keeps(s)'
  <1>1. /\ pc[r] = "commit"
        /\ redeemed' = IF r \in Promoted THEN redeemed \cup {r} ELSE redeemed
        /\ \A i \in Items : i \notin Wants(r) =>
              reserved'[i] = reserved[i] /\ sold'[i] = sold[i]
        /\ \A c \in Customers : r \notin ByWallet \/ c # CustomerOf[r] =>
              balance'[c] = balance[c]
        /\ holder' = Released(r)
        /\ pc'[s] = pc[s]
        /\ line'[s] = line[s]
    BY DEF Commit, Return, GoTo, FundsInv, KeyInv
  <1>2. \A x \in Rows : holder[x] = s => holder'[x] = s
    BY <1>1 DEF Released
  <1>3. PromotionRow \in Rows /\ WalletRow(CustomerOf[s]) \in Rows /\ s # Nobody
    BY RequestsAssumption DEF Rows
  <1>4. Keeps(r) /\ Keeps(s)
    BY DEF FundsInv
  <1>5. KeepsPromotion(s)'
    <2> SUFFICES ASSUME pc[s] \in {"pay", "commit"}, s \in Promoted
                 PROVE  holder'[PromotionRow] = s /\ Redeemable(s)'
      BY <1>1 DEF KeepsPromotion
    <2>1. holder[PromotionRow] = s /\ Redeemable(s)
      BY <1>4 DEF Keeps, KeepsPromotion
    <2>2. r \notin Promoted
      BY <1>1, <1>4, <2>1 DEF Keeps, KeepsPromotion
    <2> QED BY <1>1, <1>2, <1>3, <2>1, <2>2 DEF Redeemable
  <1>6. KeepsWallet(s)'
    <2> SUFFICES ASSUME pc[s] = "commit", s \in ByWallet
                 PROVE  /\ holder'[WalletRow(CustomerOf[s])] = s
                        /\ balance'[CustomerOf[s]] >= 1
      BY <1>1 DEF KeepsWallet
    <2>1. holder[WalletRow(CustomerOf[s])] = s /\ balance[CustomerOf[s]] >= 1
      BY <1>4 DEF Keeps, KeepsWallet
    <2>2. r \notin ByWallet \/ CustomerOf[s] # CustomerOf[r]
      BY <1>1, <1>4, <2>1 DEF Keeps, KeepsWallet
    <2> QED BY <1>1, <1>2, <1>3, <2>1, <2>2, RequestsAssumption
  <1>7. KeepsLines(s)'
    <2> SUFFICES ASSUME NEW n \in 1..Len(Basket[s]),
                        pc[s] \in {"promote", "pay", "commit"}
                          \/ (pc[s] = "reserve" /\ n < line[s])
                 PROVE  /\ holder'[InventoryRow(Basket[s][n])] = s
                        /\ InStock(Basket[s][n])'
      BY <1>1 DEF KeepsLines
    <2> DEFINE i == Basket[s][n]
    <2>1. holder[InventoryRow(i)] = s /\ InStock(i)
      BY <1>4 DEF Keeps, KeepsLines
    <2>2. i \in Items /\ InventoryRow(i) \in Rows
      BY BasketAssumption DEF Rows
    <2>3. i \notin Wants(r)
      <3> SUFFICES ASSUME NEW m \in 1..Len(Basket[r]), Basket[r][m] = i PROVE FALSE
        BY DEF Wants
      <3>1. holder[InventoryRow(Basket[r][m])] = r
        BY <1>1, <1>4 DEF Keeps, KeepsLines
      <3> QED BY <2>1, <3>1
    <2>4. reserved'[i] = reserved[i] /\ sold'[i] = sold[i]
      BY <1>1, <2>2, <2>3
    <2>5. InStock(i)'
      BY <2>1, <2>4 DEF InStock
    <2>6. holder'[InventoryRow(i)] = s
      BY <1>2, <2>1, <2>2
    <2> HIDE DEF InStock
    <2> QED BY <2>5, <2>6
  <1>8. Begins(s)'
    BY <1>1, <1>4 DEF Keeps, Begins
  <1> QED BY <1>5, <1>6, <1>7, <1>8 DEF Keeps

\* A commit spends what its session found under its locks.
LEMMA CommitKeepsFunds ==
    ASSUME FundsInv, NEW r \in Requests, Commit(r)
    PROVE  FundsInv'
  <1>1. /\ pc[r] = "commit"
        /\ created' = created \cup {r}
        /\ redeemed' = IF r \in Promoted THEN redeemed \cup {r} ELSE redeemed
        /\ pc' = [pc EXCEPT ![r] = "done"]
        /\ line' = line
    BY DEF Commit, Return, GoTo
  <1>2. r \notin created /\ created \in SUBSET Requests /\ Keeps(r)
    BY <1>1, KeyOfRequest DEF FundsInv, KeyInv, Stages
  <1>3. PromotionWithinLimits'
    <2>1. CASE r \notin Promoted
      BY <1>1, <2>1 DEF FundsInv, NothingOverspent, PromotionWithinLimits
    <2>2. CASE r \in Promoted
      <3>1. Redeemable(r)
        BY <1>1, <1>2, <2>2 DEF Keeps, KeepsPromotion
      <3> DEFINE Of(c) == {p \in redeemed : CustomerOf[p] = c}
      <3>2. redeemed \in SUBSET Requests /\ redeemed' = redeemed \cup {r}
        BY <1>1, <2>2 DEF FundsInv
      <3>4. \A c \in Customers :
              Of(c)' = IF CustomerOf[r] = c THEN Of(c) \cup {r} ELSE Of(c)
        BY <3>2
      <3>5. \A c \in Customers : Of(c) \in SUBSET Requests
        BY <3>2
      <3>6. Cardinality(Of(CustomerOf[r])) < PerUserLimit
        BY <3>1 DEF Redeemable
      <3>7. Cardinality(redeemed') <= TotalLimit
        BY <3>1, <3>2, OneMoreFits, LimitsAssumption DEF Redeemable
      <3>8. ASSUME NEW c \in Customers PROVE Cardinality(Of(c)') <= PerUserLimit
        <4>1. CASE CustomerOf[r] = c
          <5> HIDE DEF Of
          <5> QED BY <3>4, <3>5, <3>6, <4>1, OneMoreFits, LimitsAssumption
        <4>2. CASE CustomerOf[r] # c
          <5>1. Cardinality(Of(c)) <= PerUserLimit
            BY DEF FundsInv, NothingOverspent, PromotionWithinLimits
          <5> HIDE DEF Of
          <5> QED BY <3>4, <4>2, <5>1
        <4> QED BY <4>1, <4>2
      <3> QED BY <3>7, <3>8 DEF PromotionWithinLimits
    <2> QED BY <2>1, <2>2
  <1>4. WalletCoversOrders' /\ balance' \in [Customers -> Int]
    <2> DEFINE Of(c) == {p \in created \cap ByWallet : CustomerOf[p] = c}
    <2>1. /\ balance \in [Customers -> Int]
          /\ \A c \in Customers :
                balance[c] >= 0 /\ balance[c] = StartBalance - Cardinality(Of(c))
      BY DEF FundsInv, NothingOverspent, WalletCoversOrders
    <2>2. CASE r \notin ByWallet
      <3>1. balance' = balance
        BY <2>2 DEF Commit
      <3>2. \A c \in Customers : Of(c)' = Of(c)
        BY <1>1, <2>2
      <3> HIDE DEF Of
      <3>3. \A c \in Customers : balance'[c] = StartBalance - Cardinality(Of(c)')
        BY <2>1, <3>1, <3>2
      <3> QED BY <2>1, <3>1, <3>3 DEF WalletCoversOrders, Of
    <2>3. CASE r \in ByWallet
      <3>1. balance' = [balance EXCEPT ![CustomerOf[r]] = @ - 1]
        BY <2>3 DEF Commit
      <3>2. balance[CustomerOf[r]] >= 1 /\ CustomerOf[r] \in Customers
        BY <1>1, <1>2, <2>3, RequestsAssumption DEF Keeps, KeepsWallet
      <3>3. \A c \in Customers :
              /\ Of(c)' = IF CustomerOf[r] = c THEN Of(c) \cup {r} ELSE Of(c)
              /\ r \notin Of(c) /\ IsFiniteSet(Of(c))
        BY <1>1, <1>2, <2>3, Finite
      <3> HIDE DEF Of
      <3>4. ASSUME NEW c \in Customers
            PROVE  balance'[c] >= 0 /\ balance'[c] = StartBalance - Cardinality(Of(c)')
        <4>1. CASE CustomerOf[r] = c
          <5>1. Cardinality(Of(c)') = Cardinality(Of(c)) + 1 /\ Cardinality(Of(c)) \in Nat
            BY <3>3, <4>1, CountWith
          <5> QED BY <2>1, <3>1, <3>2, <4>1, <5>1, RequestsAssumption
        <4>2. CASE CustomerOf[r] # c
          BY <2>1, <3>1, <3>3, <4>2
        <4> QED BY <4>1, <4>2
      <3>5. balance' \in [Customers -> Int]
        <4>1. balance \in [Customers -> Int] /\ balance[CustomerOf[r]] \in Int
          BY <2>1, <3>2
        <4> QED BY <3>1, <3>2, <4>1
      <3>6. WalletCoversOrders'
        BY <3>4 DEF WalletCoversOrders, Of
      <3> QED BY <3>5, <3>6
    <2> QED BY <2>2, <2>3
  <1>5. /\ reserved' \in [Items -> Nat] /\ sold' \in [Items -> Nat]
        /\ \A i \in Items : reserved'[i] + sold'[i] =
              reserved[i] + sold[i] + (IF i \in Wants(r) THEN 1 ELSE 0)
    BY DEF Commit, FundsInv
  <1>6. StockCoversOrders'
    <2> DEFINE For(i) == {p \in created : i \in Wants(p)}
    <2>1. \A i \in Items :
            /\ For(i)' = IF i \in Wants(r) THEN For(i) \cup {r} ELSE For(i)
            /\ r \notin For(i) /\ IsFiniteSet(For(i))
      BY <1>1, <1>2, Finite DEF Wants
    <2>2. \A i \in Items : /\ reserved[i] + sold[i] <= Stocked[i]
                           /\ reserved[i] + sold[i] = Cardinality(For(i))
      BY DEF FundsInv, NothingOverspent, StockCoversOrders
    <2>3. \A i \in Wants(r) : InStock(i)
      BY <1>1, <1>2 DEF Keeps, KeepsLines, Wants
    <2>4. reserved \in [Items -> Nat] /\ sold \in [Items -> Nat]
      BY DEF FundsInv
    <2> HIDE DEF For
    <2>5. ASSUME NEW i \in Items
          PROVE  /\ reserved'[i] + sold'[i] <= Stocked[i]
                 /\ reserved'[i] + sold'[i] = Cardinality(For(i)')
      <3>1. CASE i \in Wants(r)
        <4>1. Cardinality(For(i)') = Cardinality(For(i)) + 1
          BY <2>1, <3>1, CountWith
        <4> QED BY <1>5, <2>2, <2>3, <2>4, <3>1, <4>1, BasketAssumption DEF InStock
      <3>2. CASE i \notin Wants(r)
        BY <1>5, <2>1, <2>2, <2>4, <3>2
      <3> QED BY <3>1, <3>2
    <2> QED BY <2>5 DEF StockCoversOrders, For, Wants
  <1>7. \A s \in Requests : Keeps(s)'
    <2>1. Keeps(r)'
      BY <1>1 DEF FundsInv, KeyInv, Keeps, KeepsPromotion, KeepsWallet, KeepsLines, Begins
    <2> QED BY <2>1, CommitSparesOthers
  <1>8. KeyInv' /\ redeemed' \in SUBSET Requests /\ line' \in [Requests -> Nat]
    BY <1>1, CommitKeepsKeys DEF FundsInv
  <1> QED BY <1>3, <1>4, <1>5, <1>6, <1>7, <1>8 DEF FundsInv, NothingOverspent

\* Ending in a roll back: the session has nothing left to keep.
LEMMA RollBackKeepsFunds ==
    ASSUME FundsInv, KeyInv', NEW r \in Requests,
           pc' = [pc EXCEPT ![r] = "failed"],
           holder' = Released(r),
           UNCHANGED <<line, tables>>
    PROVE  FundsInv'
  <1>1. Keeps(r)'
    BY DEF FundsInv, KeyInv, Keeps, KeepsPromotion, KeepsWallet, KeepsLines, Begins
  <1>2. \A s \in Requests : s # r => pc'[s] = pc[s] /\ line'[s] = line[s]
    BY DEF FundsInv, KeyInv
  <1>3. \A s \in Requests : s # r => \A x \in Rows : holder[x] = s => holder'[x] = s
    BY DEF Released
  <1> QED BY <1>1, <1>2, <1>3, StatementKeeps DEF FundsInv

\* Taking a free row, or none, takes nothing from another session.
LEMMA LockSparesOthers ==
    ASSUME FundsInv, NEW r \in Requests, NEW x,
           Free(r, x), holder' = [holder EXCEPT ![x] = r]
    PROVE  \A s \in Requests : s # r => \A y \in Rows : holder[y] = s => holder'[y] = s
  BY RequestsAssumption DEF Free, FundsInv, KeyInv

LEMMA FundsStep ==
    ASSUME FundsInv, [Next]_vars
    PROVE  FundsInv'
  <1> KeyInv'
    BY KeyStep DEF FundsInv
  <1>1. ASSUME NEW r \in Requests, Step(r) \/ Abort(r) PROVE FundsInv'
    <2>1. Keeps(r) /\ line \in [Requests -> Nat] /\ holder \in [Rows -> Requests \cup {Nobody}]
          /\ pc \in [Requests -> {"select", "claim", "reread"} \cup Stages \cup Ended]
      BY DEF FundsInv, KeyInv
    <2>2. CASE SelectKey(r) \/ RereadKey(r)
      <3>1. /\ UNCHANGED <<line, holder, tables>>
            /\ \E stage \in {"done", "claim", "failed"} : pc' = [pc EXCEPT ![r] = stage]
            /\ pc[r] = "select" \/ ~(pc'[r] = "claim")
        BY <2>1, <2>2 DEF SelectKey, RereadKey, Return, GoTo
      <3>2. Keeps(r)'
        BY <2>1, <3>1 DEF Keeps, KeepsPromotion, KeepsWallet, KeepsLines, Begins
      <3> QED BY <2>1, <3>1, <3>2, StatementKeeps
    <2>3. CASE ClaimKey(r)
      <3>1. /\ pc[r] = "claim"
            /\ \E stage \in {"reserve", "reread"} : pc' = [pc EXCEPT ![r] = stage]
            /\ UNCHANGED <<line, tables>>
        BY <2>3 DEF ClaimKey, GoTo
      <3>2. Keeps(r)'
        BY <2>1, <3>1 DEF Keeps, KeepsPromotion, KeepsWallet, KeepsLines, Begins
      <3>3. \A s \in Requests : s # r => \A x \in Rows : holder[x] = s => holder'[x] = s
        BY <2>3, LockSparesOthers DEF ClaimKey, Lock
      <3> QED BY <2>1, <3>1, <3>2, <3>3, StatementKeeps
    <2>4. CASE ReserveLine(r)
      <3>1. CASE line[r] <= Len(Basket[r])
        <4> DEFINE i == Basket[r][line[r]]
        <4>1. /\ pc[r] = "reserve"
              /\ Free(r, InventoryRow(i)) /\ InStock(i)
              /\ holder' = [holder EXCEPT ![InventoryRow(i)] = r]
              /\ line' = [line EXCEPT ![r] = line[r] + 1]
              /\ UNCHANGED <<pc, tables>>
          BY <2>1, <2>4, <3>1, BasketAssumption DEF ReserveLine, Lock
        <4>2. KeepsLines(r)'
          <5> SUFFICES ASSUME NEW n \in 1..Len(Basket[r]), n < line[r] + 1
                       PROVE  holder'[InventoryRow(Basket[r][n])] = r /\ InStock(Basket[r][n])'
            BY <2>1, <4>1 DEF KeepsLines
          <5>1. InventoryRow(Basket[r][n]) \in Rows
            BY BasketAssumption DEF Rows
          <5>2. CASE n < line[r]
            <6>1. holder[InventoryRow(Basket[r][n])] = r /\ InStock(Basket[r][n])
              BY <2>1, <4>1, <5>2 DEF Keeps, KeepsLines
            <6> QED BY <2>1, <4>1, <5>1, <6>1 DEF InStock, tables
          <5>3. CASE n = line[r]
            BY <2>1, <4>1, <5>1, <5>3 DEF InStock, tables
          <5> QED BY <2>1, <5>2, <5>3
        <4>3. Keeps(r)'
          BY <2>1, <4>1, <4>2 DEF Keeps, KeepsPromotion, KeepsWallet, Begins
        <4>4. \A s \in Requests : s # r => \A x \in Rows : holder[x] = s => holder'[x] = s
          BY <4>1, LockSparesOthers
        <4> QED BY <2>1, <4>1, <4>3, <4>4, StatementKeeps
      <3>2. CASE ~(line[r] <= Len(Basket[r]))
        <4>1. /\ pc[r] = "reserve"
              /\ pc' = [pc EXCEPT ![r] = "promote"]
              /\ UNCHANGED <<line, holder, tables>>
          BY <2>4, <3>2 DEF ReserveLine, GoTo
        <4>2. \A n \in 1..Len(Basket[r]) : n < line[r]
          BY <2>1, <3>2, BasketAssumption
        <4>3. Keeps(r)'
          BY <2>1, <4>1, <4>2 DEF Keeps, KeepsPromotion, KeepsWallet, KeepsLines,
               Begins, InStock, tables
        <4> QED BY <2>1, <4>1, <4>3, StatementKeeps
      <3> QED BY <3>1, <3>2
    <2>5. CASE RedeemPromotion(r)
      <3>1. /\ pc[r] = "promote"
            /\ IF r \in Promoted
                 THEN /\ Free(r, PromotionRow) /\ Redeemable(r)
                      /\ holder' = [holder EXCEPT ![PromotionRow] = r]
                 ELSE holder' = holder
            /\ pc' = [pc EXCEPT ![r] = "pay"]
            /\ UNCHANGED <<line, tables>>
        BY <2>5 DEF RedeemPromotion, Lock, GoTo
      <3>2. \A y \in Rows : holder[y] = r => holder'[y] = r
        BY <2>1, <3>1
      <3>3. KeepsPromotion(r)'
        <4>1. PromotionRow \in Rows
          BY DEF Rows
        <4> QED BY <2>1, <3>1, <4>1 DEF KeepsPromotion, Redeemable, tables
      <3>4. KeepsLines(r)'
        <4>1. \A n \in 1..Len(Basket[r]) : InventoryRow(Basket[r][n]) \in Rows
          BY BasketAssumption DEF Rows
        <4> QED BY <2>1, <3>1, <3>2, <4>1 DEF Keeps, KeepsLines, InStock, tables
      <3>5. Keeps(r)'
        BY <2>1, <3>1, <3>3, <3>4 DEF Keeps, KeepsWallet, Begins
      <3>6. \A s \in Requests : s # r => \A x \in Rows : holder[x] = s => holder'[x] = s
        BY <3>1, LockSparesOthers
      <3> QED BY <2>1, <3>1, <3>5, <3>6, StatementKeeps
    <2>6. CASE PayFromWallet(r)
      <3> DEFINE w == WalletRow(CustomerOf[r])
      <3>1. /\ pc[r] = "pay"
            /\ IF r \in ByWallet
                 THEN /\ Free(r, w) /\ balance[CustomerOf[r]] >= 1
                      /\ holder' = [holder EXCEPT ![w] = r]
                 ELSE holder' = holder
            /\ pc' = [pc EXCEPT ![r] = "commit"]
            /\ UNCHANGED <<line, tables>>
        BY <2>6 DEF PayFromWallet, Lock, GoTo
      <3>2. \A y \in Rows : holder[y] = r => holder'[y] = r
        BY <2>1, <3>1
      <3>3. KeepsWallet(r)'
        <4>1. w \in Rows
          BY RequestsAssumption DEF Rows
        <4> QED BY <2>1, <3>1, <4>1 DEF KeepsWallet, tables
      <3>4. KeepsPromotion(r)'
        <4>1. PromotionRow \in Rows
          BY DEF Rows
        <4> QED BY <2>1, <3>1, <3>2, <4>1 DEF Keeps, KeepsPromotion, Redeemable, tables
      <3>5. KeepsLines(r)'
        <4>1. \A n \in 1..Len(Basket[r]) : InventoryRow(Basket[r][n]) \in Rows
          BY BasketAssumption DEF Rows
        <4> QED BY <2>1, <3>1, <3>2, <4>1 DEF Keeps, KeepsLines, InStock, tables
      <3>6. Keeps(r)'
        BY <2>1, <3>1, <3>3, <3>4, <3>5 DEF Keeps, Begins
      <3>7. \A s \in Requests : s # r => \A x \in Rows : holder[x] = s => holder'[x] = s
        BY <3>1, LockSparesOthers
      <3> QED BY <2>1, <3>1, <3>6, <3>7, StatementKeeps
    <2>7. CASE Commit(r)
      BY <2>7, CommitKeepsFunds
    <2>8. CASE Refuse(r) \/ Abort(r) \/ DetectDeadlock(r)
      BY <2>8, RollBackKeepsFunds DEF Refuse, Abort, DetectDeadlock, GoTo
    <2> QED BY <1>1, <2>2, <2>3, <2>4, <2>5, <2>6, <2>7, <2>8 DEF Step
  <1>2. CASE (\E k \in Keys : KeyExpires(k)) \/ UNCHANGED vars
    <2>1. UNCHANGED <<pc, line, holder, tables>>
      BY <1>2 DEF KeyExpires, vars, tables
    <2>2. NothingOverspent'
      BY <2>1 DEF FundsInv, NothingOverspent, PromotionWithinLimits,
           WalletCoversOrders, StockCoversOrders, Wants, tables
    <2>3. \A s \in Requests : Keeps(s)'
      BY <2>1, OthersKeep DEF FundsInv, KeyInv
    <2> QED BY <2>1, <2>2, <2>3 DEF FundsInv, tables
  <1> QED BY <1>1, <1>2 DEF Next

\* However many sessions read stock, redemptions and balances before each
\* other's commits, what the committed orders spend was there once for each.
THEOREM NothingIsOverspent == Spec => []NothingOverspent
  <1>1. FundsInv => NothingOverspent
    BY DEF FundsInv
  <1> QED BY <1>1, FundsInit, FundsStep, PTL DEF Spec
-----------------------------------------------------------------------------
(* Sessions place orders one at a time.                                    *)

\* What Placing tells apart: who was told, which key an order has, and that
\* the redemptions are those of the orders.
ToldWhenDone == \A r \in Requests : pc[r] # "done" => answer[r] = Nobody
KeyedByKey == \A k \in Keys : keyed[k] # Nobody => KeyOf[keyed[k]] = k
RedeemedByOrders == redeemed = created \cap Promoted

PlacingInv == FundsInv /\ ToldWhenDone /\ KeyedByKey /\ RedeemedByOrders

LEMMA PlacingInit == Init => PlacingInv
  BY FundsInit DEF Init, PlacingInv, ToldWhenDone, KeyedByKey, RedeemedByOrders

LEMMA CountsAreCardinalities ==
    ASSUME NEW S PROVE Atomically!Cardinality(S) = Cardinality(S)
  BY DEF Atomically!Cardinality, Cardinality

\* A commit finds all it checked, at different times, true of the tables.
LEMMA CommitPlaces ==
    ASSUME PlacingInv, NEW r \in Requests, Commit(r)
    PROVE  Atomically!Place(r)
  <1> DEFINE cart == [p \in Requests |-> Wants(p)]
  <1>1. /\ pc[r] = "commit"
        /\ created' = created \cup {r}
        /\ answer' = [answer EXCEPT ![r] = r]
    BY DEF Commit, Return
  <1>2. answer[r] = Nobody
    BY <1>1 DEF PlacingInv, ToldWhenDone
  <1>3. FundsInv /\ KeyInv /\ Keeps(r) /\ created \in SUBSET Requests
    BY DEF PlacingInv, FundsInv, KeyInv
  <1>4. \A p \in created : KeyOf[p] # KeyOf[r]
    BY <1>1, <1>3, KeyOfRequest DEF KeyInv, Stages
  <1>5. Atomically!StockAllows(r)
    <2> SUFFICES ASSUME NEW i \in Wants(r)
                 PROVE  Cardinality({p \in created : i \in cart[p]}) < Stocked[i]
      BY CountsAreCardinalities DEF Atomically!StockAllows
    <2>1. {p \in created : i \in cart[p]} = {p \in created : i \in Wants(p)}
      BY <1>3
    <2>2. i \in Items /\ InStock(i)
      BY <1>1, <1>3, BasketAssumption DEF Wants, Keeps, KeepsLines
    <2>3. reserved[i] + sold[i] = Cardinality({p \in created : i \in Wants(p)})
      BY <1>3, <2>2 DEF FundsInv, NothingOverspent, StockCoversOrders
    <2>4. reserved[i] \in Nat /\ sold[i] \in Nat /\ Stocked[i] \in Nat
      BY <1>3, <2>2, BasketAssumption DEF FundsInv
    <2>5. reserved[i] + sold[i] < Stocked[i]
      BY <2>2, <2>4 DEF InStock
    <2> HIDE DEF cart
    <2> QED BY <2>1, <2>3, <2>5
  <1>6. Atomically!PromotionAllows(r)
    <2> SUFFICES ASSUME r \in Promoted PROVE Atomically!PromotionAllows(r)
      BY DEF Atomically!PromotionAllows
    <2>1. Redeemable(r)
      BY <1>1, <1>3 DEF Keeps, KeepsPromotion
    <2>2. redeemed = created \cap Promoted
      BY DEF PlacingInv, RedeemedByOrders
    <2> QED BY <2>1, <2>2, CountsAreCardinalities
          DEF Redeemable, Atomically!PromotionAllows, Atomically!OfCustomer
  <1>7. Atomically!WalletAllows(r)
    <2> SUFFICES ASSUME r \in ByWallet PROVE Atomically!WalletAllows(r)
      BY DEF Atomically!WalletAllows
    <2> DEFINE c == CustomerOf[r]
               spent == {p \in created \cap ByWallet : CustomerOf[p] = c}
    <2>1. balance[c] >= 1 /\ c \in Customers
      BY <1>1, <1>3, RequestsAssumption DEF Keeps, KeepsWallet
    <2>2. balance[c] = StartBalance - Cardinality(spent)
      BY <1>3, <2>1 DEF FundsInv, NothingOverspent, WalletCoversOrders
    <2>3. Cardinality(spent) \in Nat
      BY <1>3, Finite
    <2> HIDE DEF spent
    <2>4. Cardinality(spent) < StartBalance
      BY <2>1, <2>2, <2>3, RequestsAssumption
    <2> QED BY <2>4, CountsAreCardinalities
          DEF spent, Atomically!WalletAllows, Atomically!OfCustomer
  <1> QED BY <1>1, <1>2, <1>4, <1>5, <1>6, <1>7 DEF Atomically!Place

\* An answer that is no commit repeats the order of the key.
LEMMA AnswerRepeats ==
    ASSUME PlacingInv, NEW r \in Requests, pc[r] # "done",
           keyed[KeyOf[r]] # Nobody,
           answer' = [answer EXCEPT ![r] = keyed[KeyOf[r]]],
           UNCHANGED created
    PROVE  Atomically!Repeat(r)
  <1>1. /\ answer[r] = Nobody
        /\ keyed[KeyOf[r]] \in created /\ KeyOf[keyed[KeyOf[r]]] = KeyOf[r]
    BY KeyOfRequest DEF PlacingInv, ToldWhenDone, KeyedByKey, FundsInv, KeyInv
  <1> QED BY <1>1 DEF Atomically!Repeat

LEMMA StepPlaces ==
    ASSUME PlacingInv, [Next]_vars
    PROVE  [Atomically!Next]_(Atomically!vars)
  <1>1. ASSUME NEW r \in Requests, Step(r) \/ Abort(r)
        PROVE  \/ Atomically!Place(r) \/ Atomically!Repeat(r)
               \/ UNCHANGED <<created, answer>>
    <2>1. CASE SelectKey(r)
      BY <2>1, AnswerRepeats DEF SelectKey, Return, GoTo, tables
    <2>2. CASE RereadKey(r)
      BY <2>2, AnswerRepeats DEF RereadKey, Return, GoTo, tables
    <2>3. CASE Commit(r)
      BY <2>3, CommitPlaces
    <2>4. CASE ClaimKey(r) \/ ReserveLine(r) \/ RedeemPromotion(r) \/ PayFromWallet(r)
      BY <2>4 DEF ClaimKey, ReserveLine, RedeemPromotion, PayFromWallet, tables
    <2>5. CASE Refuse(r) \/ DetectDeadlock(r) \/ Abort(r)
      BY <2>5 DEF Refuse, DetectDeadlock, Abort, tables
    <2> QED BY <1>1, <2>1, <2>2, <2>3, <2>4, <2>5 DEF Step
  <1>2. CASE (\E k \in Keys : KeyExpires(k)) \/ UNCHANGED vars
    BY <1>2 DEF KeyExpires, tables, vars, Atomically!vars
  <1> QED BY <1>1, <1>2 DEF Next, Atomically!Next, Atomically!vars

LEMMA PlacingStep ==
    ASSUME PlacingInv, [Next]_vars
    PROVE  PlacingInv'
  <1>1. FundsInv'
    BY FundsStep DEF PlacingInv
  <1>2. KeyInv
    BY DEF PlacingInv, FundsInv
  <1>3. ASSUME NEW r \in Requests, Commit(r) PROVE PlacingInv'
    <2>1. /\ keyed' = [keyed EXCEPT ![KeyOf[r]] = r]
          /\ created' = created \cup {r}
          /\ redeemed' = IF r \in Promoted THEN redeemed \cup {r} ELSE redeemed
          /\ answer' = [answer EXCEPT ![r] = r]
          /\ pc' = [pc EXCEPT ![r] = "done"]
      BY <1>3 DEF Commit, Return, GoTo
    <2>2. ToldWhenDone' /\ KeyedByKey' /\ RedeemedByOrders'
      BY <1>2, <2>1, KeyOfRequest
         DEF KeyInv, PlacingInv, ToldWhenDone, KeyedByKey, RedeemedByOrders
    <2> QED BY <1>1, <2>2 DEF PlacingInv
  <1>4. ASSUME NEW r \in Requests, UNCHANGED tables,
               \/ \E o : Return(r, o)
               \/ (\E stage : GoTo(r, stage)) /\ UNCHANGED answer /\ pc[r] # "done"
               \/ UNCHANGED <<pc, answer>>
        PROVE  PlacingInv'
    <2>1. ToldWhenDone'
      BY <1>2, <1>4 DEF Return, GoTo, KeyInv, PlacingInv, ToldWhenDone
    <2>2. KeyedByKey' /\ RedeemedByOrders'
      BY <1>4 DEF PlacingInv, KeyedByKey, RedeemedByOrders, tables
    <2> QED BY <1>1, <2>1, <2>2 DEF PlacingInv
  <1>5. ASSUME NEW r \in Requests, SelectKey(r) \/ ClaimKey(r) \/ RereadKey(r)
        PROVE  PlacingInv'
    BY <1>4, <1>5 DEF SelectKey, ClaimKey, RereadKey, GoTo
  <1>6. ASSUME NEW r \in Requests,
               ReserveLine(r) \/ RedeemPromotion(r) \/ PayFromWallet(r)
        PROVE  PlacingInv'
    BY <1>4, <1>6 DEF ReserveLine, RedeemPromotion, PayFromWallet
  <1>7. ASSUME NEW r \in Requests, Refuse(r) \/ DetectDeadlock(r) \/ Abort(r)
        PROVE  PlacingInv'
    <2>1. DetectDeadlock(r) => Wanted(r) # {}
      BY DEF DetectDeadlock, Deadlocked, WaitsFor
    <2>2. pc[r] # "done"
      BY <1>7, <2>1 DEF Refuse, Abort, Stages, Wanted
    <2> QED BY <1>4, <1>7, <2>2 DEF Refuse, DetectDeadlock, Abort
  <1>8. CASE (\E k \in Keys : KeyExpires(k)) \/ UNCHANGED vars
    <2>1. UNCHANGED <<pc, answer, tables>>
      BY <1>8 DEF KeyExpires, vars, tables
    <2> QED BY <1>1, <2>1
          DEF PlacingInv, ToldWhenDone, KeyedByKey, RedeemedByOrders, tables
  <1> QED BY <1>3, <1>5, <1>6, <1>7, <1>8 DEF Next, Step

\* Whatever sessions of create_pending_order_and_reserve_inventory and
\* create_paid_order_from_wallet interleave, and whichever of them fail, the
\* committed orders are placed one after the other, each within the stock, the
\* promotion and the money that the earlier ones left.
THEOREM CreationImplementsPlacing == Spec => ImplementsPlacing
  <1>1. Init => Atomically!Init
    BY DEF Init, Atomically!Init
  <1>2. PlacingInv /\ PlacingInv' /\ [Next]_vars => [Atomically!Next]_(Atomically!vars)
    BY StepPlaces
  <1> QED BY <1>1, <1>2, PlacingInit, PlacingStep, PTL
        DEF Spec, ImplementsPlacing, Atomically!Spec
=============================================================================
