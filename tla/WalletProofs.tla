---------------------------- MODULE WalletProofs ----------------------------
(***************************************************************************)
(* Three results about Wallet, for any wallets, sessions, references and   *)
(* amounts, from one inductive invariant: what an open transaction holds   *)
(* (Holding, Apart) says that the balance it read is still the balance and *)
(* that the top-up it inserted is still nobody else's.                     *)
(***************************************************************************)
EXTENDS Wallet, TLAPS

LEMMA NoneIsOutside == None \notin References \cup Wallets
BY WalletAssumption

\* What a session knows of the committed tables, by the stage it is in.
Holding(s) ==
    LET x == session[s] IN
    /\ x.stage # "idle" => x.wallet \in Wallets
    /\ x.stage # "idle" /\ x.operation = "topup" => x.reference \in References
    /\ x.stage # "end" => x.entry = NoEntry
    /\ x.stage \in {"record", "guard"} => x.operation = "topup"
    /\ x.stage \in {"lock", "append"} => x.operation # "view"
    /\ x.stage = "append" =>
          x.read = balance[x.wallet] /\ x.read + x.amount >= 0
    /\ x.entry # NoEntry =>
          /\ x.entry.type = x.operation
          /\ x.entry.reference = x.reference
          /\ x.operation # "view"
          /\ x.entry.after = balance[x.wallet] + x.entry.amount
          /\ x.entry.after >= 0
    /\ x.entry.type = "topup" => x.entry.reference \notin Credited
    /\ x.stage = "end" /\ x.operation = "topup" /\ x.entry = NoEntry =>
          x.reference \in Credited

\* What two open transactions cannot both hold.
Apart(s, t) ==
    /\ HoldsWallet(s) /\ HoldsWallet(t) => session[s].wallet # session[t].wallet
    /\ session[s].entry.type = "topup" /\ session[t].entry.type = "topup" =>
          session[s].entry.reference # session[t].entry.reference

Inv ==
    /\ TypeOK
    /\ \A s \in Sessions : Holding(s)
    /\ \A s, t \in Sessions : s # t => Apart(s, t)
    /\ LedgerChains
    /\ OneTopupPerReference
    /\ RecordedMeansCredited

LEMMA InitInv == Init => Inv
BY WalletAssumption
   DEF Init, Inv, TypeOK, Session, Idle, Open, Entry, NoEntry, Stages, Operations,
       Sources, Holding, Apart, HoldsWallet, LedgerChains,
       OneTopupPerReference, RecordedMeansCredited, Credited, Entries

\* A statement that writes nothing but its own session's state.
LEMMA OwnState ==
    ASSUME Inv, NEW s \in Sessions, NEW x \in Session,
           session' = [session EXCEPT ![s] = x],
           provisioned' = provisioned, requested' = requested, status' = status,
           balance' = balance, ledger' = ledger, events' = events,
           charged' = charged,
           issues' \in SUBSET ({"wallet_balance_cap_exceeded"} \X Wallets
                            \cup {"webhook_processing_failed"} \X References),
           Holding(s)',
           \A t \in Sessions \ {s} : Apart(s, t)' /\ Apart(t, s)'
    PROVE  Inv'
<1>1. TypeOK'
  BY DEF Inv, TypeOK
<1>2. ASSUME NEW t \in Sessions PROVE Holding(t)'
  <2>1. CASE t = s
    BY <2>1
  <2>2. CASE t # s
    <3>1. session'[t] = session[t]
      BY <2>2 DEF Inv, TypeOK
    <3>2. Credited' = Credited
      BY DEF Credited, Entries
    <3>3. Holding(t)
      BY DEF Inv
    <3> QED BY <3>1, <3>2, <3>3 DEF Holding
  <2> QED BY <2>1, <2>2
<1>3. ASSUME NEW t \in Sessions, NEW u \in Sessions, t # u PROVE Apart(t, u)'
  <2>1. CASE t = s \/ u = s
    BY <2>1, <1>3
  <2>2. CASE t # s /\ u # s
    <3>1. session'[t] = session[t] /\ session'[u] = session[u]
      BY <2>2 DEF Inv, TypeOK
    <3>2. Apart(t, u)
      BY <1>3 DEF Inv
    <3> QED BY <3>1, <3>2 DEF Apart, HoldsWallet
  <2> QED BY <2>1, <2>2
<1>4. LedgerChains'
  BY DEF Inv, LedgerChains
<1>5. OneTopupPerReference'
  BY DEF Inv, OneTopupPerReference
<1>6. RecordedMeansCredited'
  BY DEF Inv, RecordedMeansCredited, Credited, Entries
<1> QED BY <1>1, <1>2, <1>3, <1>4, <1>5, <1>6 DEF Inv

\* The same, for a state that holds no row and has no entry.
LEMMA HoldsNothing ==
    ASSUME Inv, NEW s \in Sessions, NEW x \in Session,
           session' = [session EXCEPT ![s] = x],
           x.stage # "append", x.entry = NoEntry
    PROVE  \A t \in Sessions \ {s} : Apart(s, t)' /\ Apart(t, s)'
<1>1. session'[s] = x
  BY DEF Inv, TypeOK
<1>2. x.entry.type = "view"
  BY DEF NoEntry
<1>3. ~HoldsWallet(s)'
  BY <1>1 DEF HoldsWallet
<1> QED BY <1>1, <1>2, <1>3 DEF Apart

LEMMA IdleKeepsInv ==
    ASSUME Inv, NEW s \in Sessions, Leave(s),
           provisioned' = provisioned, requested' = requested, status' = status,
           balance' = balance, ledger' = ledger, events' = events,
           charged' = charged,
           issues' \in SUBSET ({"wallet_balance_cap_exceeded"} \X Wallets
                            \cup {"webhook_processing_failed"} \X References)
    PROVE  Inv'
<1>1. Idle \in Session
  BY DEF Idle, Open, Session, Entry, NoEntry, Stages, Operations, Sources
<1>2. session' = [session EXCEPT ![s] = Idle]
  BY DEF Leave
<1>3. Idle.stage # "append" /\ Idle.entry = NoEntry
  BY DEF Idle, Open
<1>4. \A t \in Sessions \ {s} : Apart(s, t)' /\ Apart(t, s)'
  BY <1>1, <1>2, <1>3, HoldsNothing
<1>5. Holding(s)'
  BY <1>2 DEF Holding, Inv, TypeOK, Idle, Open, NoEntry
<1> QED BY <1>1, <1>2, <1>4, <1>5, OwnState

\* A session opens: it holds nothing yet.
LEMMA OpenKeepsInv ==
    ASSUME Inv, NEW s \in Sessions, NEW operation \in Operations,
           NEW source \in Sources, NEW w \in Wallets, NEW amount \in Int,
           NEW r \in References \cup {None},
           NEW stage \in {"record", "ensure", "lock"},
           stage = "lock" => operation # "view",
           stage = "record" => operation = "topup",
           operation = "topup" => r \in References,
           session' = [session EXCEPT ![s] =
               Open(stage, operation, source, w, amount, r)],
           UNCHANGED <<tables, charged>>
    PROVE  Inv'
<1> DEFINE x == Open(stage, operation, source, w, amount, r)
<1>1. NoEntry \in Entry
  BY DEF NoEntry, Entry, Operations
<1>2. x \in Session /\ x.stage = stage /\ x.operation = operation /\ x.wallet = w
      /\ x.entry = NoEntry /\ x.reference = r
  BY <1>1 DEF Open, Session, Stages
<1> HIDE DEF x
<1>3. session' = [session EXCEPT ![s] = x]
  BY DEF x
<1>4. session'[s] = x
  BY <1>3 DEF Inv, TypeOK
<1>5. \A t \in Sessions \ {s} : Apart(s, t)' /\ Apart(t, s)'
  BY <1>2, <1>3, HoldsNothing
<1>6. Holding(s)'
  BY <1>2, <1>4 DEF Holding, NoEntry
<1>7. issues \in SUBSET ({"wallet_balance_cap_exceeded"} \X Wallets
                            \cup {"webhook_processing_failed"} \X References)
  BY DEF Inv, TypeOK
<1> QED BY <1>2, <1>3, <1>5, <1>6, <1>7, OwnState DEF tables

\* The statements that move the session on: Ensure, Guard, Lock, AppendEntry.
LEMMA EnsureKeepsInv == ASSUME Inv, NEW s \in Sessions, Ensure(s) PROVE Inv'
<1> DEFINE y == CASE session[s].operation = "topup" -> "guard"
                  [] session[s].operation = "view" -> "end"
                  [] OTHER -> "lock"
           b == session[s].wallet \notin provisioned
           x == [session[s] EXCEPT !.creates = b, !.stage = y]
<1>1. session[s] \in Session /\ Holding(s)
  BY DEF Inv, TypeOK
<1>0. /\ y \in {"guard", "end", "lock"} /\ b \in BOOLEAN
      /\ y = "guard" => session[s].operation = "topup"
      /\ y = "lock" => session[s].operation # "view"
      /\ y = "end" => session[s].operation = "view"
  OBVIOUS
<1>3. session' = [session EXCEPT ![s] = x]
  BY DEF Ensure
<1> HIDE DEF y, b
<1>2. /\ x \in Session /\ x.entry = session[s].entry
      /\ x.operation = session[s].operation /\ x.wallet = session[s].wallet
      /\ x.reference = session[s].reference
      /\ x.stage = y
  BY <1>0, <1>1 DEF Session, Stages
<1> HIDE DEF x
<1>9. /\ x.stage \in {"guard", "end", "lock"}
      /\ x.stage = "guard" => x.operation = "topup"
      /\ x.stage = "lock" => x.operation # "view"
      /\ x.stage = "end" => x.operation = "view"
  BY <1>0, <1>2
<1>4. session'[s] = x
  BY <1>3 DEF Inv, TypeOK
<1>5. x.entry = NoEntry
  BY <1>1, <1>2 DEF Holding, Ensure
<1>6. \A t \in Sessions \ {s} : Apart(s, t)' /\ Apart(t, s)'
  BY <1>2, <1>3, <1>5, <1>9, HoldsNothing
<1>7. Holding(s)'
  <2>1. x.wallet \in Wallets /\ (x.operation = "topup" => x.reference \in References)
    BY <1>1, <1>2 DEF Holding, Ensure
  <2>2. x.entry.type = "view"
    BY <1>5 DEF NoEntry
  <2> QED BY <1>4, <1>5, <1>9, <2>1, <2>2 DEF Holding
<1>8. issues \in SUBSET ({"wallet_balance_cap_exceeded"} \X Wallets
                            \cup {"webhook_processing_failed"} \X References)
  BY DEF Inv, TypeOK
<1> QED BY <1>2, <1>3, <1>6, <1>7, <1>8, OwnState DEF Ensure, tables

LEMMA GotoState ==
    ASSUME TypeOK, NEW s \in Sessions, NEW stage \in Stages, Goto(s, stage)
    PROVE  \E x \in Session :
              /\ session' = [session EXCEPT ![s] = x]
              /\ session'[s] = x
              /\ x.stage = stage
              /\ x.entry = session[s].entry
              /\ x.operation = session[s].operation
              /\ x.wallet = session[s].wallet
              /\ x.reference = session[s].reference
<1> DEFINE x == [session[s] EXCEPT !.stage = stage]
<1>1. session[s] \in Session
  BY DEF TypeOK
<1>2. /\ x \in Session /\ x.stage = stage
      /\ x.entry = session[s].entry
      /\ x.operation = session[s].operation
      /\ x.wallet = session[s].wallet
      /\ x.reference = session[s].reference
  BY <1>1 DEF Session
<1>3. session' = [session EXCEPT ![s] = x]
  BY DEF Goto
<1> HIDE DEF x
<1>4. session'[s] = x
  BY <1>3 DEF TypeOK
<1> QED BY <1>2, <1>3, <1>4

\* Record goes on to "ensure", Guard to "lock" or, already credited, to "end".
LEMMA GotoKeepsInv ==
    ASSUME Inv, NEW s \in Sessions,
           NEW stage \in {"ensure", "lock", "end"}, Goto(s, stage),
           session[s].stage # "idle", session[s].entry = NoEntry,
           session[s].operation = "topup",
           stage = "end" => session[s].reference \in Credited,
           UNCHANGED <<tables, charged>>
    PROVE  Inv'
<1>1. PICK x \in Session :
              /\ session' = [session EXCEPT ![s] = x]
              /\ session'[s] = x
              /\ x.stage = stage
              /\ x.entry = session[s].entry
              /\ x.operation = session[s].operation
              /\ x.wallet = session[s].wallet
              /\ x.reference = session[s].reference
  BY GotoState DEF Inv, Stages
<1>2. Holding(s)
  BY DEF Inv
<1>3. Credited' = Credited
  BY DEF Credited, Entries, tables
<1>4. Holding(s)'
  BY <1>1, <1>2, <1>3 DEF Holding, NoEntry
<1>5. \A t \in Sessions \ {s} : Apart(s, t)' /\ Apart(t, s)'
  BY <1>1, HoldsNothing
<1>6. issues \in SUBSET ({"wallet_balance_cap_exceeded"} \X Wallets
                            \cup {"webhook_processing_failed"} \X References)
  BY DEF Inv, TypeOK
<1> QED BY <1>1, <1>4, <1>5, <1>6, OwnState DEF tables

LEMMA LockKeepsInv == ASSUME Inv, NEW s \in Sessions, Lock(s) PROVE Inv'
<1>1. session[s] \in Session /\ Holding(s) /\ session[s].wallet \in Wallets
      /\ balance[session[s].wallet] \in Int /\ session[s].amount \in Int
  BY DEF Inv, TypeOK, Lock, Holding, Session
<1>2. issues \in SUBSET ({"wallet_balance_cap_exceeded"} \X Wallets
                            \cup {"webhook_processing_failed"} \X References)
  BY DEF Inv, TypeOK
<1>3. CASE ~MayProceed(s)
  BY <1>2, <1>3, IdleKeepsInv DEF Lock, tables
<1>4. CASE MayProceed(s)
  <2> DEFINE x == [session[s] EXCEPT !.read = balance[session[s].wallet],
                                     !.stage = "append"]
  <2>1. /\ x \in Session /\ x.stage = "append" /\ x.entry = session[s].entry
        /\ x.operation = session[s].operation /\ x.wallet = session[s].wallet
        /\ x.reference = session[s].reference /\ x.amount = session[s].amount
        /\ x.read = balance[session[s].wallet]
    BY <1>1 DEF Session, Stages
  <2>2. session' = [session EXCEPT ![s] = x]
    BY <1>4 DEF Lock
  <2> HIDE DEF x
  <2>3. session'[s] = x
    BY <2>2 DEF Inv, TypeOK
  <2>4. x.entry = NoEntry
    BY <1>1, <2>1 DEF Holding, Lock
  <2>5. Holding(s)'
    BY <1>1, <1>4, <2>1, <2>3, <2>4 DEF Holding, NoEntry, Lock, MayProceed, tables
  <2>6. ASSUME NEW t \in Sessions \ {s} PROVE Apart(s, t)' /\ Apart(t, s)'
    <3>1. session'[t] = session[t]
      BY <2>2 DEF Inv, TypeOK
    <3>2. HoldsWallet(t) => session[t].wallet # x.wallet
      BY <1>4, <2>1 DEF Lock, Unlocked, Others
    <3>3. x.entry.type # "topup"
      BY <2>4 DEF NoEntry
    <3> QED BY <2>3, <3>1, <3>2, <3>3 DEF Apart, HoldsWallet
  <2> QED BY <1>2, <2>1, <2>2, <2>5, <2>6, OwnState DEF Lock, tables
<1> QED BY <1>3, <1>4

LEMMA AppendKeepsInv == ASSUME Inv, NEW s \in Sessions, AppendEntry(s) PROVE Inv'
<1>1. session[s] \in Session /\ Holding(s) /\ session[s].stage = "append"
  BY DEF Inv, TypeOK, AppendEntry
<1>2. session[s].entry = NoEntry /\ session[s].wallet \in Wallets
  BY <1>1 DEF Holding
<1>3. CASE session[s].operation = "topup" /\ session[s].reference \in Credited
  BY <1>1, <1>2, <1>3, GotoKeepsInv DEF AppendEntry
<1>4. CASE ~(session[s].operation = "topup" /\ session[s].reference \in Credited)
  <2> DEFINE e == [type |-> session[s].operation, amount |-> session[s].amount,
                   after |-> session[s].read + session[s].amount,
                   reference |-> session[s].reference]
             x == [session[s] EXCEPT !.entry = e, !.stage = "end"]
  <2>1. /\ e \in Entry /\ e.type = session[s].operation
        /\ e.reference = session[s].reference /\ e.amount = session[s].amount
        /\ e.after = session[s].read + session[s].amount
    BY <1>1 DEF Entry, Session
  <2>2. session' = [session EXCEPT ![s] = x]
    BY <1>4 DEF AppendEntry
  <2> HIDE DEF e
  <2>3. /\ x \in Session /\ x.stage = "end" /\ x.entry = e
        /\ x.operation = session[s].operation /\ x.wallet = session[s].wallet
        /\ x.reference = session[s].reference
    BY <1>1, <2>1 DEF Session, Stages
  <2> HIDE DEF x
  <2>4. session'[s] = x
    BY <2>2 DEF Inv, TypeOK
  <2>5. Holding(s)'
    <3>1. /\ session[s].operation # "view"
          /\ session[s].operation = "topup" => session[s].reference \in References
          /\ session[s].read = balance[session[s].wallet]
          /\ session[s].read + session[s].amount >= 0
      BY <1>1 DEF Holding
    <3>2. balance' = balance /\ Credited' = Credited
      BY DEF AppendEntry, tables, Credited, Entries
    <3>3. e # NoEntry
      BY <2>1, <3>1 DEF NoEntry
    <3> QED BY <1>2, <1>4, <2>1, <2>3, <2>4, <3>1, <3>2, <3>3 DEF Holding
  <2>6. ASSUME NEW t \in Sessions \ {s} PROVE Apart(s, t)' /\ Apart(t, s)'
    <3>1. session'[t] = session[t]
      BY <2>2 DEF Inv, TypeOK
    <3>2. HoldsWallet(t) => session[t].wallet # x.wallet
      BY <1>1, <2>3 DEF Inv, Apart, HoldsWallet
    <3>3. x.entry.type = "topup" /\ session[t].entry.type = "topup"
          => session[t].entry.reference # x.entry.reference
      BY <1>4, <2>1, <2>3 DEF AppendEntry, ReferenceFree, Others
    <3> QED BY <2>4, <3>1, <3>2, <3>3 DEF Apart, HoldsWallet
  <2>7. issues \in SUBSET ({"wallet_balance_cap_exceeded"} \X Wallets
                            \cup {"webhook_processing_failed"} \X References)
    BY DEF Inv, TypeOK
  <2> QED BY <2>2, <2>3, <2>5, <2>6, <2>7, OwnState DEF AppendEntry, tables
<1> QED BY <1>3, <1>4

\* What a commit writes besides the ledger is well typed.
LEMMA WalletTables ==
    ASSUME TypeOK, NEW s \in Sessions, Commit(s), session[s].wallet \in Wallets
    PROVE  provisioned' \in SUBSET Wallets /\ requested' \in [Wallets -> Nat]
<1>1. CASE session[s].creates
  <2>1. /\ provisioned' = provisioned \cup {session[s].wallet}
        /\ requested' = [requested EXCEPT ![session[s].wallet] = @ + 1]
    BY <1>1 DEF Commit
  <2>2. requested \in [Wallets -> Nat] /\ provisioned \in SUBSET Wallets
    BY DEF TypeOK
  <2> QED BY <2>1, <2>2
<1>2. CASE ~session[s].creates
  BY <1>2 DEF Commit, TypeOK
<1> QED BY <1>1, <1>2

\* A commit that credits or debits.
LEMMA EntryKeepsInv ==
    ASSUME Inv, NEW s \in Sessions, Commit(s), session[s].entry # NoEntry
    PROVE  Inv'
<1>0. PICK w \in Wallets, e \in Entry :
         w = session[s].wallet /\ e = session[s].entry
  BY DEF Inv, TypeOK, Commit, Session, Holding
<1>1. /\ session[s] \in Session /\ Holding(s) /\ w \in Wallets
      /\ e \in Entry /\ session[s].stage = "end" /\ HoldsWallet(s)
  BY DEF Inv, TypeOK, Commit, HoldsWallet
<1>2. /\ ledger[w] \in Seq(Entry) /\ ledger \in [Wallets -> Seq(Entry)]
      /\ balance \in [Wallets -> Int]
  BY <1>1 DEF Inv, TypeOK
<1>3. /\ ledger' = [ledger EXCEPT ![w] = Append(@, e)]
      /\ balance' = [balance EXCEPT ![w] = e.after]
      /\ session' = [session EXCEPT ![s] = Idle]
  BY <1>0 DEF Commit, Leave
<1>4. /\ e.after = balance[w] + e.amount /\ e.after >= 0
      /\ e.amount \in Int /\ e.after \in Int
      /\ e.type = "topup" => e.reference \notin Credited
      /\ e.type = session[s].operation /\ e.reference = session[s].reference
      /\ e.type = "topup" => e.reference \in References
  BY <1>0, <1>1 DEF Holding, Entry
<1>5. /\ ledger'[w] = Append(ledger[w], e) /\ balance'[w] = e.after
      /\ \A x \in Wallets : x # w => ledger'[x] = ledger[x] /\ balance'[x] = balance[x]
  BY <1>1, <1>2, <1>3
<1>6. /\ DOMAIN ledger'[w] = 1..(Len(ledger[w]) + 1) /\ DOMAIN ledger[w] = 1..Len(ledger[w])
      /\ Len(ledger[w]) \in Nat /\ Len(ledger'[w]) = Len(ledger[w]) + 1
      /\ ledger'[w][Len(ledger[w]) + 1] = e
      /\ \A i \in DOMAIN ledger[w] : ledger'[w][i] = ledger[w][i]
  BY <1>1, <1>2, <1>5
<1>7. Credited' = Credited \cup (IF e.type = "topup" THEN {e.reference} ELSE {})
  <2>1. \A x \in Wallets : Entries(x)' = Entries(x) \cup (IF x = w THEN {e} ELSE {})
    <3>1. ASSUME NEW x \in Wallets, x # w PROVE Entries(x)' = Entries(x)
      BY <1>5, <3>1 DEF Entries
    <3>2. Entries(w)' = Entries(w) \cup {e}
      BY <1>6 DEF Entries
    <3> QED BY <3>1, <3>2
  <2> QED BY <1>1, <1>4, <2>1 DEF Credited
<1>8. TypeOK'
  <2>1. ledger' \in [Wallets -> Seq(Entry)] /\ balance' \in [Wallets -> Int]
    BY <1>1, <1>2, <1>3, <1>4
  <2>2. Idle \in Session
    BY DEF Idle, Open, Session, Entry, NoEntry, Stages, Operations, Sources
  <2>3. session' \in [Sessions -> Session]
    BY <1>3, <2>2 DEF Inv, TypeOK
  <2>4. provisioned' \in SUBSET Wallets /\ requested' \in [Wallets -> Nat]
    BY <1>0, WalletTables DEF Inv
  <2>5. events' \in SUBSET (Sources \X References)
    BY <1>0, <1>1, <1>4 DEF Inv, TypeOK, Commit, Session
  <2>6. issues' \in SUBSET ({"wallet_balance_cap_exceeded"} \X Wallets
                            \cup {"webhook_processing_failed"} \X References)
    BY <1>0, <1>1 DEF Inv, TypeOK, Commit, CapIssue
  <2>7. status' \in [Wallets -> {"active", "frozen"}] /\ charged' \in SUBSET References
    BY DEF Inv, TypeOK, Commit
  <2> QED BY <2>1, <2>3, <2>4, <2>5, <2>6, <2>7 DEF TypeOK
<1>9. ASSUME NEW t \in Sessions PROVE Holding(t)'
  <2>1. CASE t = s
    <3>1. session'[t] = Idle
      BY <1>3, <2>1 DEF Inv, TypeOK
    <3> QED BY <3>1 DEF Holding, Idle, Open, NoEntry
  <2>2. CASE t # s
    <3>1. session'[t] = session[t] /\ Holding(t) /\ session[t] \in Session
      BY <1>3, <2>2 DEF Inv, TypeOK
    <3>2. HoldsWallet(t) => session[t].wallet # w
      BY <1>0, <1>1, <2>2 DEF Inv, Apart
    <3>3. HoldsWallet(t) => balance'[session[t].wallet] = balance[session[t].wallet]
      BY <1>5, <3>1, <3>2 DEF Holding, HoldsWallet
    <3>4. session[t].entry.type = "topup" =>
             session[t].entry.reference \notin Credited'
      <4>1. e.type = "topup" /\ session[t].entry.type = "topup" =>
               e.reference # session[t].entry.reference
        BY <1>0, <2>2 DEF Inv, Apart
      <4> QED BY <1>7, <3>1, <4>1 DEF Holding
    <3>5. session[t].stage = "append" => HoldsWallet(t)
      BY DEF HoldsWallet
    <3>6. session[t].entry # NoEntry => HoldsWallet(t)
      BY <3>1 DEF HoldsWallet, Holding
    <3> QED BY <1>7, <3>1, <3>3, <3>4, <3>5, <3>6 DEF Holding
  <2> QED BY <2>1, <2>2
<1>10. ASSUME NEW t \in Sessions, NEW u \in Sessions, t # u PROVE Apart(t, u)'
  <2>1. CASE t = s \/ u = s
    <3>1. session'[s].stage = "idle" /\ session'[s].entry.type = "view"
      BY <1>3 DEF Inv, TypeOK, Idle, Open, NoEntry
    <3> QED BY <2>1, <3>1 DEF Apart, HoldsWallet
  <2>2. CASE t # s /\ u # s
    <3>1. session'[t] = session[t] /\ session'[u] = session[u] /\ Apart(t, u)
      BY <1>3, <1>10, <2>2 DEF Inv, TypeOK
    <3> QED BY <3>1 DEF Apart, HoldsWallet
  <2> QED BY <2>1, <2>2
<1>11. LedgerChains'
  <2>1. ASSUME NEW x \in Wallets, x # w
        PROVE  /\ \A i \in DOMAIN ledger'[x] :
                    LET before == IF i = 1 THEN 0 ELSE ledger'[x][i - 1].after
                    IN  /\ ledger'[x][i].after = before + ledger'[x][i].amount
                        /\ ledger'[x][i].after >= 0
               /\ balance'[x] = IF ledger'[x] = <<>> THEN 0
                                ELSE ledger'[x][Len(ledger'[x])].after
    BY <1>5, <2>1 DEF Inv, LedgerChains
  <2>2. balance[w] = IF ledger[w] = <<>> THEN 0 ELSE ledger[w][Len(ledger[w])].after
    BY <1>1 DEF Inv, LedgerChains
  <2>3. ASSUME NEW i \in DOMAIN ledger'[w]
        PROVE  LET before == IF i = 1 THEN 0 ELSE ledger'[w][i - 1].after
               IN  /\ ledger'[w][i].after = before + ledger'[w][i].amount
                   /\ ledger'[w][i].after >= 0
    <3>1. CASE i \in DOMAIN ledger[w]
      <4>1. i # 1 => i - 1 \in DOMAIN ledger[w]
        BY <1>6, <3>1
      <4> QED BY <1>1, <1>6, <3>1, <4>1 DEF Inv, LedgerChains
    <3>2. CASE i = Len(ledger[w]) + 1
      <4>1. i = 1 => ledger[w] = <<>>
        BY <1>2, <1>6, <3>2
      <4>2. i # 1 => i - 1 \in DOMAIN ledger[w] /\ ledger[w] # <<>> /\ i - 1 = Len(ledger[w])
        BY <1>6, <3>2
      <4> QED BY <1>4, <1>6, <2>2, <3>2, <4>1, <4>2
    <3> QED BY <1>6, <3>1, <3>2
  <2>4. balance'[w] = IF ledger'[w] = <<>> THEN 0
                      ELSE ledger'[w][Len(ledger'[w])].after
    BY <1>5, <1>6
  <2> QED BY <2>1, <2>3, <2>4 DEF LedgerChains
<1>12. OneTopupPerReference'
  <2>1. ASSUME NEW x \in Wallets, NEW i \in DOMAIN ledger[x], e.type = "topup",
               ledger[x][i].type = "topup"
        PROVE  ledger[x][i].reference # e.reference
    BY <1>4, <2>1 DEF Credited, Entries
  <2>2. \A x \in Wallets : \A i \in DOMAIN ledger'[x] :
           \/ i \in DOMAIN ledger[x] /\ ledger'[x][i] = ledger[x][i]
           \/ x = w /\ i = Len(ledger[w]) + 1 /\ ledger'[x][i] = e
    BY <1>5, <1>6
  <2> QED BY <2>1, <2>2 DEF Inv, OneTopupPerReference
<1>13. RecordedMeansCredited'
  <2>1. events' \subseteq events \cup
           (IF e.type = "topup" THEN {<<session[s].source, e.reference>>} ELSE {})
    BY <1>0, <1>4 DEF Commit
  <2> QED BY <1>7, <2>1 DEF Inv, RecordedMeansCredited
<1> QED BY <1>8, <1>9, <1>10, <1>11, <1>12, <1>13 DEF Inv

\* A commit without an entry: a read, or a delivery found already credited.
LEMMA NoEntryKeepsInv ==
    ASSUME Inv, NEW s \in Sessions, Commit(s), session[s].entry = NoEntry
    PROVE  Inv'
<1>1. /\ session[s] \in Session /\ Holding(s) /\ session[s].wallet \in Wallets
      /\ session[s].stage = "end"
  BY DEF Inv, TypeOK, Commit, Holding
<1>2. /\ ledger' = ledger /\ balance' = balance /\ status' = status
      /\ charged' = charged /\ session' = [session EXCEPT ![s] = Idle]
  BY DEF Commit, Leave
<1>3. Credited' = Credited
  BY <1>2 DEF Credited, Entries
<1>4. Idle \in Session /\ Idle.stage = "idle" /\ Idle.entry.type = "view"
  BY DEF Idle, Open, Session, Entry, NoEntry, Stages, Operations, Sources
<1>5. session[s].operation = "topup" => session[s].reference \in Credited
  BY <1>1 DEF Holding
<1>6. TypeOK'
  <2>1. provisioned' \in SUBSET Wallets /\ requested' \in [Wallets -> Nat]
    BY <1>1, WalletTables DEF Inv
  <2>2. events' \in SUBSET (Sources \X References)
    BY <1>1, <1>5 DEF Inv, TypeOK, Commit, Session, Credited
  <2>3. issues' = issues
    BY DEF Commit, CapIssue, NoEntry
  <2> QED BY <1>2, <1>4, <2>1, <2>2, <2>3 DEF Inv, TypeOK
<1>7. ASSUME NEW t \in Sessions PROVE Holding(t)'
  <2>1. CASE t = s
    <3>1. session'[t] = Idle
      BY <1>2, <2>1 DEF Inv, TypeOK
    <3> QED BY <3>1 DEF Holding, Idle, Open, NoEntry
  <2>2. CASE t # s
    <3>1. session'[t] = session[t] /\ Holding(t)
      BY <1>2, <2>2 DEF Inv, TypeOK
    <3> QED BY <1>2, <1>3, <3>1 DEF Holding
  <2> QED BY <2>1, <2>2
<1>8. ASSUME NEW t \in Sessions, NEW u \in Sessions, t # u PROVE Apart(t, u)'
  <2>1. CASE t = s \/ u = s
    <3>1. session'[s] = Idle
      BY <1>2 DEF Inv, TypeOK
    <3> QED BY <1>4, <2>1, <3>1 DEF Apart, HoldsWallet
  <2>2. CASE t # s /\ u # s
    <3>1. session'[t] = session[t] /\ session'[u] = session[u] /\ Apart(t, u)
      BY <1>2, <1>8, <2>2 DEF Inv, TypeOK
    <3> QED BY <3>1 DEF Apart, HoldsWallet
  <2> QED BY <2>1, <2>2
<1>9. LedgerChains' /\ OneTopupPerReference'
  BY <1>2 DEF Inv, LedgerChains, OneTopupPerReference
<1>10. RecordedMeansCredited'
  <2>1. events' \subseteq events \cup
           (IF session[s].operation = "topup"
            THEN {<<session[s].source, session[s].reference>>} ELSE {})
    BY DEF Commit
  <2> QED BY <1>3, <1>5, <2>1 DEF Inv, RecordedMeansCredited
<1> QED BY <1>6, <1>7, <1>8, <1>9, <1>10 DEF Inv

LEMMA AbortKeepsInv == ASSUME Inv, NEW s \in Sessions, Abort(s) PROVE Inv'
<1>1. Holding(s) /\ TypeOK
  BY DEF Inv
<1>2. issues' \in SUBSET ({"wallet_balance_cap_exceeded"} \X Wallets
                            \cup {"webhook_processing_failed"} \X References)
  BY <1>1 DEF TypeOK, Abort, Holding
<1> QED BY <1>2, IdleKeepsInv DEF Abort

LEMMA StatusKeepsInv ==
    ASSUME Inv, NEW w \in Wallets, NEW new \in {"active", "frozen"}, SetStatus(w, new)
    PROVE  Inv'
<1>1. TypeOK'
  BY DEF Inv, TypeOK, SetStatus
<1>2. /\ ledger' = ledger /\ balance' = balance /\ session' = session
      /\ events' = events /\ Credited' = Credited
  BY DEF SetStatus, Credited, Entries
<1>3. \A s \in Sessions : Holding(s)'
  BY <1>2 DEF Inv, Holding
<1>4. \A s, t \in Sessions : s # t => Apart(s, t)'
  BY <1>2 DEF Inv, Apart, HoldsWallet
<1>5. LedgerChains' /\ OneTopupPerReference' /\ RecordedMeansCredited'
  BY <1>2 DEF Inv, LedgerChains, OneTopupPerReference, RecordedMeansCredited
<1> QED BY <1>1, <1>3, <1>4, <1>5 DEF Inv

\* What only touches neither sessions nor tables.
LEMMA QuietKeepsInv ==
    ASSUME Inv, UNCHANGED <<tables, session>>, charged' \in SUBSET References
    PROVE  Inv'
<1>1. TypeOK'
  BY DEF Inv, TypeOK, tables
<1>2. /\ ledger' = ledger /\ balance' = balance /\ session' = session
      /\ events' = events /\ Credited' = Credited
  BY DEF tables, Credited, Entries
<1>3. \A s \in Sessions : Holding(s)'
  BY <1>2 DEF Inv, Holding
<1>4. \A s, t \in Sessions : s # t => Apart(s, t)'
  BY <1>2 DEF Inv, Apart, HoldsWallet
<1>5. LedgerChains' /\ OneTopupPerReference' /\ RecordedMeansCredited'
  BY <1>2 DEF Inv, LedgerChains, OneTopupPerReference, RecordedMeansCredited
<1> QED BY <1>1, <1>3, <1>4, <1>5 DEF Inv

LEMMA RequestKeepsInv == ASSUME Inv, NEW s \in Sessions, Request(s) PROVE Inv'
<1>1. ASSUME NEW operation \in Operations, NEW w \in Wallets, NEW a \in Int,
             NEW stage \in {"ensure", "lock"}, operation # "topup",
             stage = "lock" => operation # "view",
             Begin(s, operation, w, a, stage)
      PROVE  Inv'
  BY <1>1, OpenKeepsInv DEF Begin, Sources
<1>2. Amounts \subseteq Int /\ \A a \in Amounts : -a \in Int
  BY WalletAssumption
<1>3. PICK w \in Wallets :
         \/ \E a \in Amounts : Pay(s, w, a) \/ Refund(s, w, a)
         \/ \E a \in Amounts : Adjust(s, w, a) \/ Adjust(s, w, -a)
         \/ View(s, w)
  BY DEF Request
<1>4. CASE \E a \in Amounts : Pay(s, w, a)
  BY <1>1, <1>2, <1>4 DEF Pay, Operations
<1>5. CASE \E a \in Amounts : Refund(s, w, a)
  BY <1>1, <1>2, <1>5 DEF Refund, Operations
<1>6. CASE \E a \in Amounts : Adjust(s, w, a) \/ Adjust(s, w, -a)
  BY <1>1, <1>2, <1>6 DEF Adjust, Operations
<1>7. CASE View(s, w)
  BY <1>1, <1>7 DEF View, Operations
<1> QED BY <1>3, <1>4, <1>5, <1>6, <1>7

LEMMA StepKeepsInv == ASSUME Inv, NEW s \in Sessions, Step(s) PROVE Inv'
<1>1. Holding(s)
  BY DEF Inv
<1>2. CASE Record(s)
  <2>1. CASE <<session[s].source, session[s].reference>> \in events
    <3>1. issues \in SUBSET ({"wallet_balance_cap_exceeded"} \X Wallets
                            \cup {"webhook_processing_failed"} \X References)
      BY DEF Inv, TypeOK
    <3> QED BY <1>2, <2>1, <3>1, IdleKeepsInv DEF Record, tables
  <2>2. CASE <<session[s].source, session[s].reference>> \notin events
    BY <1>1, <1>2, <2>2, GotoKeepsInv DEF Record, Holding
  <2> QED BY <2>1, <2>2
<1>3. CASE Guard(s)
  <2>1. CASE session[s].reference \in Credited
    BY <1>1, <1>3, <2>1, GotoKeepsInv DEF Guard, Holding
  <2>2. CASE session[s].reference \notin Credited
    BY <1>1, <1>3, <2>2, GotoKeepsInv DEF Guard, Holding
  <2> QED BY <2>1, <2>2
<1> QED BY <1>2, <1>3, EnsureKeepsInv, LockKeepsInv, AppendKeepsInv,
           EntryKeepsInv, NoEntryKeepsInv DEF Step

LEMMA NextInv == ASSUME Inv, [Next]_vars PROVE Inv'
<1>1. CASE \E r \in References : Charge(r)
  BY <1>1, QuietKeepsInv DEF Charge, Inv, TypeOK
<1>2. ASSUME NEW s \in Sessions, NEW r \in References, NEW source \in Sources,
             Deliver(s, source, r)
      PROVE  Inv'
  <2>1. WalletOf[r] \in Wallets /\ AmountOf[r] \in Int
    BY WalletAssumption
  <2> QED BY <1>2, <2>1, OpenKeepsInv DEF Deliver, Operations
<1>3. CASE UNCHANGED vars
  BY <1>3, QuietKeepsInv DEF vars, tables, Inv, TypeOK
<1> QED BY <1>1, <1>2, <1>3, RequestKeepsInv, StepKeepsInv, AbortKeepsInv,
           StatusKeepsInv DEF Next

LEMMA SpecInv == Spec => []Inv
<1>1. Init => Inv
  BY InitInv
<1>2. Inv /\ [Next]_vars => Inv'
  BY NextInv
<1> QED BY <1>1, <1>2, PTL DEF Spec

\* The ledger of every wallet is a chain from zero to the cached balance,
\* never below zero: no interleaving of credits and debits loses one.
THEOREM LedgersChain == Spec => []LedgerChains
<1>1. Inv => LedgerChains
  BY DEF Inv
<1> QED BY <1>1, SpecInv, PTL

\* However often the webhook and the sweep deliver a reference, it is credited
\* at most once, in one wallet, and a fingerprint that makes later deliveries
\* duplicates stands for a credit.
THEOREM TopupsOnce == Spec => []TopupsCreditedOnce
<1>1. Inv => TopupsCreditedOnce
  BY DEF Inv, TopupsCreditedOnce
<1> QED BY <1>1, SpecInv, PTL
-----------------------------------------------------------------------------
(* Transactions move money one at a time.                                  *)

\* What a session was asked to do, which no statement of it changes, and that
\* the wallet a payment has locked stays active.
Asked(s) ==
    LET x == session[s] IN
    /\ x.stage # "idle" /\ x.operation = "topup" =>
          /\ x.reference \in charged
          /\ x.wallet = WalletOf[x.reference] /\ x.amount = AmountOf[x.reference]
    /\ x.operation # "topup" => x.reference = None
    /\ x.operation = "order_payment" => \E a \in Amounts : x.amount = -a
    /\ x.operation = "order_refund" => x.amount \in Amounts
    /\ x.operation = "adjustment" => \E a \in Amounts : x.amount \in {a, -a}
    /\ x.entry # NoEntry => x.entry.amount = x.amount
    /\ x.operation = "order_payment" /\ HoldsWallet(s) => status[x.wallet] = "active"

LedgerInv == Inv /\ \A s \in Sessions : Asked(s)

LEMMA AskedInit == Init => \A s \in Sessions : Asked(s)
BY DEF Init, Asked, Idle, Open, NoEntry, HoldsWallet

\* A statement of s keeps what it was asked.
LEMMA StatementKeepsAsked ==
    ASSUME LedgerInv, NEW s \in Sessions, NEW x \in Session,
           session' = [session EXCEPT ![s] = x],
           session[s].stage # "idle",
           x.operation = session[s].operation, x.wallet = session[s].wallet,
           x.amount = session[s].amount, x.reference = session[s].reference,
           x.entry # NoEntry => x.entry.amount = x.amount,
           x.operation = "order_payment"
               /\ (x.stage = "append" \/ (x.stage = "end" /\ x.entry # NoEntry))
               => status[x.wallet] = "active",
           UNCHANGED <<status, charged>>
    PROVE  \A t \in Sessions : Asked(t)'
<1>1. session'[s] = x /\ \A t \in Sessions \ {s} : session'[t] = session[t]
  BY DEF LedgerInv, Inv, TypeOK
<1>2. Asked(s)'
  BY <1>1 DEF LedgerInv, Asked, HoldsWallet
<1>3. ASSUME NEW t \in Sessions \ {s} PROVE Asked(t)'
  BY <1>1 DEF LedgerInv, Asked, HoldsWallet
<1> QED BY <1>2, <1>3

\* A session that ends or is opened.
LEMMA FreshIsAsked ==
    ASSUME LedgerInv, NEW s \in Sessions, NEW x,
           session' = [session EXCEPT ![s] = x],
           x.stage \in {"idle", "record", "ensure", "lock"}, x.entry = NoEntry,
           x.stage # "idle" /\ x.operation = "topup" =>
               /\ x.reference \in charged
               /\ x.wallet = WalletOf[x.reference] /\ x.amount = AmountOf[x.reference],
           x.operation # "topup" => x.reference = None,
           x.operation = "order_payment" => \E a \in Amounts : x.amount = -a,
           x.operation = "order_refund" => x.amount \in Amounts,
           x.operation = "adjustment" => \E a \in Amounts : x.amount \in {a, -a},
           UNCHANGED <<status, charged>>
    PROVE  \A t \in Sessions : Asked(t)'
<1>1. session'[s] = x /\ \A t \in Sessions \ {s} : session'[t] = session[t]
  BY DEF LedgerInv, Inv, TypeOK
<1>2. Asked(s)'
  BY <1>1 DEF Asked, HoldsWallet
<1>3. ASSUME NEW t \in Sessions \ {s} PROVE Asked(t)'
  BY <1>1 DEF LedgerInv, Asked, HoldsWallet
<1> QED BY <1>2, <1>3

LEMMA LeaveKeepsAsked ==
    ASSUME LedgerInv, NEW s \in Sessions, Leave(s), UNCHANGED <<status, charged>>
    PROVE  \A t \in Sessions : Asked(t)'
<1>1. /\ Idle.stage = "idle" /\ Idle.entry = NoEntry
      /\ Idle.operation = "view" /\ Idle.reference = None
  BY DEF Idle, Open
<1> QED BY <1>1, FreshIsAsked DEF Leave

LEMMA GotoKeepsAsked ==
    ASSUME LedgerInv, NEW s \in Sessions, NEW stage \in {"ensure", "lock", "end"},
           Goto(s, stage), session[s].stage # "idle",
           session[s].entry = NoEntry, UNCHANGED <<status, charged>>
    PROVE  \A t \in Sessions : Asked(t)'
<1> DEFINE x == [session[s] EXCEPT !.stage = stage]
<1>1. session[s] \in Session
  BY DEF LedgerInv, Inv, TypeOK
<1>2. /\ x \in Session /\ x.stage = stage /\ x.entry = NoEntry
      /\ x.operation = session[s].operation /\ x.wallet = session[s].wallet
      /\ x.amount = session[s].amount /\ x.reference = session[s].reference
  BY <1>1 DEF Session, Stages
<1>3. session' = [session EXCEPT ![s] = x]
  BY DEF Goto
<1> HIDE DEF x
<1> QED BY <1>2, <1>3, StatementKeepsAsked

LEMMA StepKeepsAsked ==
    ASSUME LedgerInv, NEW s \in Sessions, Step(s)
    PROVE  \A t \in Sessions : Asked(t)'
<1>1. session[s] \in Session /\ Holding(s) /\ Asked(s)
  BY DEF LedgerInv, Inv, TypeOK
<1>2. CASE Record(s)
  BY <1>1, <1>2, LeaveKeepsAsked, GotoKeepsAsked DEF Record, Holding, tables
<1>3. CASE Ensure(s)
  <2> DEFINE y == CASE session[s].operation = "topup" -> "guard"
                    [] session[s].operation = "view" -> "end"
                    [] OTHER -> "lock"
             b == session[s].wallet \notin provisioned
             x == [session[s] EXCEPT !.creates = b, !.stage = y]
  <2>1. y \in {"guard", "end", "lock"} /\ b \in BOOLEAN
    OBVIOUS
  <2>2. session' = [session EXCEPT ![s] = x]
    BY <1>3 DEF Ensure
  <2> HIDE DEF y, b
  <2>3. /\ x \in Session /\ x.stage = y /\ x.entry = session[s].entry
        /\ x.operation = session[s].operation /\ x.wallet = session[s].wallet
        /\ x.amount = session[s].amount /\ x.reference = session[s].reference
    BY <1>1, <2>1 DEF Session, Stages
  <2>4. session[s].entry = NoEntry /\ session[s].stage # "idle"
    BY <1>1, <1>3 DEF Ensure, Holding
  <2> HIDE DEF x
  <2> QED BY <1>3, <2>1, <2>2, <2>3, <2>4, StatementKeepsAsked DEF Ensure, tables
<1>4. CASE Guard(s)
  BY <1>1, <1>4, GotoKeepsAsked DEF Guard, Holding, tables
<1>5. CASE Lock(s)
  <2>1. CASE ~MayProceed(s)
    BY <1>5, <2>1, LeaveKeepsAsked DEF Lock, tables
  <2>2. CASE MayProceed(s)
    <3> DEFINE x == [session[s] EXCEPT !.read = balance[session[s].wallet],
                                       !.stage = "append"]
    <3>1. balance[session[s].wallet] \in Int
      BY <1>1, <1>5 DEF LedgerInv, Inv, TypeOK, Lock, Holding
    <3>2. /\ x \in Session /\ x.entry = session[s].entry
          /\ x.operation = session[s].operation /\ x.wallet = session[s].wallet
          /\ x.amount = session[s].amount /\ x.reference = session[s].reference
      BY <1>1, <3>1 DEF Session, Stages
    <3>3. session' = [session EXCEPT ![s] = x]
      BY <1>5, <2>2 DEF Lock
    <3>4. session[s].entry = NoEntry /\ session[s].stage # "idle"
      BY <1>1, <1>5 DEF Lock, Holding
    <3> HIDE DEF x
    <3> QED BY <1>5, <2>2, <3>2, <3>3, <3>4, StatementKeepsAsked
            DEF Lock, MayProceed, tables
  <2> QED BY <2>1, <2>2
<1>6. CASE AppendEntry(s)
  <2>1. session[s].entry = NoEntry /\ session[s].stage = "append"
    BY <1>1, <1>6 DEF AppendEntry, Holding
  <2>2. CASE session[s].operation = "topup" /\ session[s].reference \in Credited
    BY <1>6, <2>1, <2>2, GotoKeepsAsked DEF AppendEntry, tables
  <2>3. CASE ~(session[s].operation = "topup" /\ session[s].reference \in Credited)
    <3> DEFINE e == [type |-> session[s].operation, amount |-> session[s].amount,
                     after |-> session[s].read + session[s].amount,
                     reference |-> session[s].reference]
               x == [session[s] EXCEPT !.entry = e, !.stage = "end"]
    <3>1. session' = [session EXCEPT ![s] = x]
      BY <1>6, <2>3 DEF AppendEntry
    <3>2. e \in Entry /\ e.amount = session[s].amount
      BY <1>1 DEF Entry, Session
    <3> HIDE DEF e
    <3>3. /\ x \in Session /\ x.entry = e
          /\ x.operation = session[s].operation /\ x.wallet = session[s].wallet
          /\ x.amount = session[s].amount /\ x.reference = session[s].reference
      BY <1>1, <3>2 DEF Session, Stages
    <3>4. session[s].operation = "order_payment" => status[session[s].wallet] = "active"
      BY <1>1, <2>1 DEF Asked, HoldsWallet
    <3> HIDE DEF x
    <3> QED BY <1>6, <2>1, <3>1, <3>2, <3>3, <3>4, StatementKeepsAsked
            DEF AppendEntry, tables
  <2> QED BY <2>2, <2>3
<1>7. CASE Commit(s)
  BY <1>7, LeaveKeepsAsked DEF Commit
<1> QED BY <1>2, <1>3, <1>4, <1>5, <1>6, <1>7 DEF Step

LEMMA RequestKeepsAsked ==
    ASSUME LedgerInv, NEW s \in Sessions, Request(s)
    PROVE  \A t \in Sessions : Asked(t)'
<1>1. ASSUME NEW operation, NEW w, NEW amount, NEW stage \in {"ensure", "lock"},
             operation # "topup",
             operation = "order_payment" => \E a \in Amounts : amount = -a,
             operation = "order_refund" => amount \in Amounts,
             operation = "adjustment" => \E a \in Amounts : amount \in {a, -a},
             Begin(s, operation, w, amount, stage)
      PROVE  \A t \in Sessions : Asked(t)'
  <2> DEFINE x == Open(stage, operation, "webhook", w, amount, None)
  <2>1. /\ x.stage = stage /\ x.entry = NoEntry /\ x.operation = operation
        /\ x.reference = None /\ x.amount = amount
    BY DEF Open
  <2>2. session' = [session EXCEPT ![s] = x]
    BY <1>1 DEF Begin
  <2> HIDE DEF x
  <2> QED BY <1>1, <2>1, <2>2, FreshIsAsked DEF Begin, tables
<1>2. PICK w \in Wallets :
         \/ \E a \in Amounts : Pay(s, w, a) \/ Refund(s, w, a)
         \/ \E a \in Amounts : Adjust(s, w, a) \/ Adjust(s, w, -a)
         \/ View(s, w)
  BY DEF Request
<1>3. CASE \E a \in Amounts : Pay(s, w, a)
  BY <1>1, <1>3 DEF Pay
<1>4. CASE \E a \in Amounts : Refund(s, w, a)
  BY <1>1, <1>4 DEF Refund
<1>5. CASE \E a \in Amounts : Adjust(s, w, a) \/ Adjust(s, w, -a)
  BY <1>1, <1>5 DEF Adjust
<1>6. CASE View(s, w)
  BY <1>1, <1>6 DEF View
<1> QED BY <1>2, <1>3, <1>4, <1>5, <1>6

LEMMA NextKeepsAsked ==
    ASSUME LedgerInv, [Next]_vars
    PROVE  \A t \in Sessions : Asked(t)'
<1>1. ASSUME UNCHANGED <<session, status>>, charged \subseteq charged'
      PROVE  \A t \in Sessions : Asked(t)'
  BY <1>1 DEF LedgerInv, Asked, HoldsWallet
<1>2. CASE (\E r \in References : Charge(r)) \/ UNCHANGED vars
  BY <1>1, <1>2 DEF Charge, vars, tables
<1>3. ASSUME NEW s \in Sessions, NEW r \in References, NEW source \in Sources,
             Deliver(s, source, r)
      PROVE  \A t \in Sessions : Asked(t)'
  <2> DEFINE x == Open("record", "topup", source, WalletOf[r], AmountOf[r], r)
  <2>1. /\ x.stage = "record" /\ x.entry = NoEntry /\ x.operation = "topup"
        /\ x.reference = r /\ x.wallet = WalletOf[r] /\ x.amount = AmountOf[r]
    BY DEF Open
  <2>2. session' = [session EXCEPT ![s] = x] /\ r \in charged
    BY <1>3 DEF Deliver
  <2> HIDE DEF x
  <2> QED BY <1>3, <2>1, <2>2, FreshIsAsked DEF Deliver, tables
<1>4. ASSUME NEW s \in Sessions, Abort(s)
      PROVE  \A t \in Sessions : Asked(t)'
  BY <1>4, LeaveKeepsAsked DEF Abort
<1>5. ASSUME NEW w \in Wallets, NEW new \in {"active", "frozen"}, SetStatus(w, new)
      PROVE  \A t \in Sessions : Asked(t)'
  <2>1. \A t \in Sessions : HoldsWallet(t) =>
            status'[session[t].wallet] = status[session[t].wallet]
    BY <1>5 DEF SetStatus, LedgerInv, Inv, TypeOK
  <2> QED BY <1>5, <2>1 DEF SetStatus, LedgerInv, Asked, HoldsWallet
<1> QED BY <1>2, <1>3, <1>4, <1>5, StepKeepsAsked, RequestKeepsAsked DEF Next

\* A commit with an entry is the movement its session was asked for.
LEMMA CommitMoves ==
    ASSUME LedgerInv, NEW s \in Sessions, Commit(s), session[s].entry # NoEntry
    PROVE  Promised!Next
<1>1. PICK w \in Wallets, e \in Entry :
         w = session[s].wallet /\ e = session[s].entry
  BY DEF LedgerInv, Inv, TypeOK, Commit, Session, Holding
<1>2. /\ Holding(s) /\ Asked(s) /\ session[s].stage = "end" /\ HoldsWallet(s)
      /\ balance \in [Wallets -> Int]
  BY DEF LedgerInv, Inv, TypeOK, Commit, HoldsWallet
<1>3. /\ e.type = session[s].operation /\ e.reference = session[s].reference
      /\ e.amount = session[s].amount /\ e.amount \in Int
      /\ e.after = balance[w] + e.amount /\ e.after >= 0
      /\ e.type \in Operations \ {"view"}
  BY <1>1, <1>2 DEF Holding, Asked, Entry
<1>4. /\ ledger' = [ledger EXCEPT ![w] = Append(@, e)]
      /\ balance' = [balance EXCEPT ![w] = e.after]
      /\ UNCHANGED <<status, charged>>
  BY <1>1 DEF Commit
<1>5. e = [type |-> e.type, amount |-> e.amount, after |-> e.after,
           reference |-> e.reference]
  BY <1>1 DEF Entry
<1>6. Promised!Move(w, e.type, e.amount, e.reference)
  <2>1. balance' = [balance EXCEPT ![w] = @ + e.amount]
    BY <1>2, <1>3, <1>4
  <2>2. e = [type |-> e.type, amount |-> e.amount, after |-> balance[w] + e.amount,
             reference |-> e.reference]
    BY <1>3, <1>5
  <2>3. ledger' = [ledger EXCEPT ![w] =
             Append(@, [type |-> e.type, amount |-> e.amount,
                        after |-> balance[w] + e.amount,
                        reference |-> e.reference])]
    BY <1>4, <2>2
  <2>4. {x \in Wallets : status'[x] = "active"} = {x \in Wallets : status[x] = "active"}
    BY <1>4
  <2>5. balance[w] + e.amount >= 0
    BY <1>3
  <2> QED BY <1>4, <2>1, <2>3, <2>4, <2>5 DEF Promised!Move
<1>7. CASE e.type = "topup"
  <2>1. /\ e.reference \in References /\ e.reference \in charged
        /\ w = WalletOf[e.reference] /\ e.amount = AmountOf[e.reference]
        /\ e.reference \notin Credited
    BY <1>1, <1>2, <1>3, <1>7 DEF Asked, Holding
  <2>2. ~Promised!Credited(e.reference)
    BY <2>1 DEF Promised!Credited, Credited, Entries
  <2>3. Promised!Credit(e.reference)
    BY <1>6, <1>7, <2>1, <2>2 DEF Promised!Credit
  <2> QED BY <2>1, <2>3 DEF Promised!Next
<1>8. CASE e.type = "order_payment"
  <2>1. PICK a \in Amounts : e.amount = -a
    BY <1>2, <1>3, <1>8 DEF Asked
  <2>2. status[w] = "active" /\ e.reference = None
    BY <1>1, <1>2, <1>3, <1>8 DEF Asked
  <2>3. Promised!Pay(w, a)
    BY <1>6, <1>8, <2>1, <2>2 DEF Promised!Pay
  <2> QED BY <2>3 DEF Promised!Next
<1>9. CASE e.type = "order_refund"
  <2>1. e.amount \in Amounts /\ e.reference = None
    BY <1>2, <1>3, <1>9 DEF Asked
  <2>2. Promised!Refund(w, e.amount)
    BY <1>6, <1>9, <2>1 DEF Promised!Refund
  <2> QED BY <2>1, <2>2 DEF Promised!Next
<1>10. CASE e.type = "adjustment"
  <2>1. PICK a \in Amounts : e.amount \in {a, -a}
    BY <1>2, <1>3, <1>10 DEF Asked
  <2>2. e.reference = None
    BY <1>2, <1>3, <1>10 DEF Asked
  <2>3. Promised!Adjust(w, a)
    BY <1>6, <1>10, <2>1, <2>2 DEF Promised!Adjust
  <2> QED BY <2>3 DEF Promised!Next
<1> QED BY <1>3, <1>7, <1>8, <1>9, <1>10 DEF Operations

\* What writes no money, status or charge is no step of the ledger.
LEMMA StepMoves ==
    ASSUME LedgerInv, [Next]_vars
    PROVE  [Promised!Next]_(Promised!vars)
<1> DEFINE quiet == UNCHANGED <<status, balance, ledger, charged>>
<1>1. quiet => UNCHANGED Promised!vars
  BY DEF Promised!vars
<1>2. ASSUME NEW s \in Sessions, Request(s) PROVE quiet
  BY <1>2 DEF Request, Pay, Refund, Adjust, View, Begin, tables
<1>3. ASSUME NEW s \in Sessions, NEW r \in References, NEW source \in Sources,
             Deliver(s, source, r)
      PROVE  quiet
  BY <1>3 DEF Deliver, tables
<1>4. ASSUME NEW s \in Sessions, Step(s) PROVE Promised!Next \/ quiet
  <2>1. CASE Commit(s)
    <3>1. session[s].entry = NoEntry => quiet
      BY <2>1 DEF Commit
    <3> QED BY <2>1, <3>1, CommitMoves
  <2>2. CASE Record(s) \/ Ensure(s) \/ Guard(s) \/ Lock(s) \/ AppendEntry(s)
    BY <2>2 DEF Record, Ensure, Guard, Lock, AppendEntry, tables
  <2> QED BY <1>4, <2>1, <2>2 DEF Step
<1>5. ASSUME NEW s \in Sessions, Abort(s) PROVE quiet
  BY <1>5 DEF Abort
<1>6. ASSUME NEW r \in References, Charge(r) PROVE Promised!Next
  <2>1. Promised!Collect(r)
    BY <1>6 DEF Charge, Promised!Collect, tables
  <2> QED BY <2>1 DEF Promised!Next
<1>7. ASSUME NEW w \in Wallets, NEW new \in {"active", "frozen"}, SetStatus(w, new)
      PROVE  Promised!Next
  <2> DEFINE on == {x \in Wallets : status[x] = "active"}
             after == {x \in Wallets : status'[x] = "active"}
  <2>1. status' = [status EXCEPT ![w] = new] /\ status \in [Wallets -> {"active", "frozen"}]
        /\ UNCHANGED <<balance, ledger, charged>>
    BY <1>7 DEF SetStatus, LedgerInv, Inv, TypeOK
  <2>2. after = on \cup {w} \/ after = on \ {w}
    BY <2>1
  <2>3. Promised!Unfreeze(w) \/ Promised!Freeze(w)
    BY <2>1, <2>2 DEF Promised!Unfreeze, Promised!Freeze
  <2> QED BY <2>3 DEF Promised!Next
<1>8. UNCHANGED vars => quiet
  BY DEF vars
<1> HIDE DEF quiet
<1> QED BY <1>1, <1>2, <1>3, <1>4, <1>5, <1>6, <1>7, <1>8 DEF Next

\* However the transactions of payments, refunds, adjustments, webhooks and the
\* sweep interleave or abort, what they commit are movements made one after the
\* other, each checked against the balance and the status it finds; and a top-up
\* moves money once.
THEOREM WalletImplementsLedger == Spec => ImplementsLedger
<1>1. Init => LedgerInv
  BY InitInv, AskedInit DEF LedgerInv
<1>2. LedgerInv /\ [Next]_vars => LedgerInv'
  BY NextInv, NextKeepsAsked DEF LedgerInv
<1>3. Init => Promised!Init
  BY DEF Init, Promised!Init
<1>4. LedgerInv /\ [Next]_vars => [Promised!Next]_(Promised!vars)
  BY StepMoves
<1> QED BY <1>1, <1>2, <1>3, <1>4, PTL DEF Spec, ImplementsLedger, Promised!Spec
=============================================================================
