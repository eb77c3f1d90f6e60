------------------------------- MODULE Wallet -------------------------------
(***************************************************************************)
(* Customer wallets, transaction by transaction.  A session is one         *)
(* READ COMMITTED transaction of the API, the webhook, the nightly top-up  *)
(* sweep or an administrator; its statements interleave with those of the  *)
(* other sessions and its writes appear when it commits.  Rows it locked,  *)
(* and unique keys it inserted, make the others wait until then.           *)
(***************************************************************************)
EXTENDS Integers, Sequences, FiniteSets

CONSTANTS
    Wallets,
    Sessions,
    References,   \* Paystack references of wallet top-ups
    WalletOf,     \* WalletOf[r]: the wallet its account number or user id names
    AmountOf,     \* AmountOf[r]: what the top-up credits
    Amounts,      \* amounts of orders, refunds and adjustments
    Cap,          \* platform setting wallet_max_balance_kobo
    MaxEntries,   \* bound: movements of a wallet that are not top-ups
    None

ASSUME WalletAssumption ==
    /\ WalletOf \in [References -> Wallets]
    /\ AmountOf \in [References -> Nat \ {0}]
    /\ Amounts \in SUBSET (Nat \ {0})
    /\ Cap \in Nat
    /\ None \notin References \cup Wallets

VARIABLES
    provisioned, \* wallets with a row
    requested,   \* wallet.dva_requested events queued for each wallet
    status,      \* wallets.status
    balance,     \* wallets.balance_kobo, the cached balance
    ledger,      \* wallet_ledger_entries of each wallet, oldest first
    events,      \* payment_events: <<source, reference>> fingerprints
    charged,     \* references Paystack charged successfully
    issues,      \* open payment_reconciliation_issues
    session      \* what each session is doing

vars == <<provisioned, requested, status, balance, ledger, events, charged,
          issues, session>>
tables == <<provisioned, requested, status, balance, ledger, events, issues>>

\* The webhook's fingerprint is of Paystack's bytes, the sweep's of its own.
Sources == {"webhook", "sweep"}
Operations == {"topup", "order_payment", "order_refund", "adjustment", "view"}
Stages == {"idle", "record", "ensure", "guard", "lock", "append", "end"}

Entry == [type : Operations, amount : Int, after : Int,
          reference : References \cup {None}]
NoEntry == [type |-> "view", amount |-> 0, after |-> 0, reference |-> None]

Session == [stage : Stages, operation : Operations, source : Sources,
            wallet : Wallets \cup {None}, amount : Int,
            reference : References \cup {None},
            creates : BOOLEAN, read : Int, entry : Entry]
Open(stage, operation, source, w, amount, reference) ==
    [stage |-> stage, operation |-> operation, source |-> source,
     wallet |-> w, amount |-> amount, reference |-> reference,
     creates |-> FALSE, read |-> 0, entry |-> NoEntry]
Idle == Open("idle", "view", "webhook", None, 0, None)

TypeOK ==
    /\ provisioned \in SUBSET Wallets
    /\ requested \in [Wallets -> Nat]
    /\ status \in [Wallets -> {"active", "frozen"}]
    /\ balance \in [Wallets -> Int]
    /\ ledger \in [Wallets -> Seq(Entry)]
    /\ events \in SUBSET (Sources \X References)
    /\ charged \in SUBSET References
    /\ issues \in SUBSET ({"wallet_balance_cap_exceeded"} \X Wallets
                            \cup {"webhook_processing_failed"} \X References)
    /\ session \in [Sessions -> Session]

Init ==
    /\ provisioned = {}
    /\ requested = [w \in Wallets |-> 0]
    /\ status = [w \in Wallets |-> "active"]
    /\ balance = [w \in Wallets |-> 0]
    /\ ledger = [w \in Wallets |-> <<>>]
    /\ events = {}
    /\ charged = {}
    /\ issues = {}
    /\ session = [s \in Sessions |-> Idle]

-----------------------------------------------------------------------------
(* What the committed tables and the open transactions say.                *)

Entries(w) == {ledger[w][i] : i \in DOMAIN ledger[w]}

\* wallet_ledger_entries_topup_reference_idx, over committed rows.
Credited == {r \in References : \E w \in Wallets : \E e \in Entries(w) :
                e.type = "topup" /\ e.reference = r}

Others(s) == Sessions \ {s}

HoldsWallet(s) ==
    \/ session[s].stage = "append"
    \/ session[s].stage = "end" /\ session[s].entry # NoEntry

Unlocked(s, w) == \A t \in Others(s) : HoldsWallet(t) => session[t].wallet # w

\* No other open transaction has inserted s's fingerprint, wallet row or top-up.
FingerprintFree(s) == \A t \in Others(s) :
    session[t].stage \in {"ensure", "guard", "lock", "append", "end"}
      /\ session[t].operation = "topup"
    => <<session[t].source, session[t].reference>>
         # <<session[s].source, session[s].reference>>
WalletRowFree(s) == \A t \in Others(s) :
    session[t].creates => session[t].wallet # session[s].wallet
ReferenceFree(s) == \A t \in Others(s) :
    session[t].entry.type = "topup"
    => session[t].entry.reference # session[s].reference

Goto(s, stage) == session' = [session EXCEPT ![s].stage = stage]
Leave(s) == session' = [session EXCEPT ![s] = Idle]

-----------------------------------------------------------------------------
(* A transaction begins.                                                   *)

Begin(s, operation, w, amount, stage) ==
    /\ session[s] = Idle
    /\ session' = [session EXCEPT ![s] =
          Open(stage, operation, "webhook", w, amount, None)]
    /\ UNCHANGED <<tables, charged>>

\* Movements w holds or may still get from open transactions.
Movements(w) ==
    Cardinality({i \in DOMAIN ledger[w] : ledger[w][i].type # "topup"})
      + Cardinality({s \in Sessions : session[s].wallet = w
                       /\ session[s].operation \notin {"topup", "view"}})

\* create_paid_order_from_wallet, once it has priced the order.
Pay(s, w, amount) ==
    /\ Movements(w) < MaxEntries
    /\ Begin(s, "order_payment", w, -amount, "ensure")

\* refund_order_to_wallet
Refund(s, w, amount) ==
    /\ Movements(w) < MaxEntries
    /\ Begin(s, "order_refund", w, amount, "ensure")

\* admin_adjust_wallet; the service has found the wallet.
Adjust(s, w, amount) ==
    /\ w \in provisioned
    /\ Movements(w) < MaxEntries
    /\ Begin(s, "adjustment", w, amount, "lock")

\* GET /wallet and the other reads, which provision the wallet first.
View(s, w) ==
    /\ w \notin provisioned
    /\ Begin(s, "view", w, 0, "ensure")

\* Paystack collects a transfer or a checkout top-up.
Charge(r) ==
    /\ r \notin charged
    /\ charged' = charged \cup {r}
    /\ UNCHANGED <<tables, session>>

\* Mutant: the sweep leaves out what already has an issue.
DeliverUnfiled(s, source, r) ==
    /\ r \in charged
    /\ source = "sweep" => r \notin Credited
    /\ source = "sweep" => <<"webhook_processing_failed", r>> \notin issues
    /\ session[s] = Idle
    /\ session' = [session EXCEPT ![s] =
          Open("record", "topup", source, WalletOf[r], AmountOf[r], r)]
    /\ UNCHANGED <<tables, charged>>

\* A webhook delivery (Paystack repeats it at will), or the sweep's verified
\* transaction for a reference it has just read as not credited.
Deliver(s, source, r) ==
    /\ r \in charged
    /\ source = "sweep" => r \notin Credited
    /\ session[s] = Idle
    /\ session' = [session EXCEPT ![s] =
          Open("record", "topup", source, WalletOf[r], AmountOf[r], r)]
    /\ UNCHANGED <<tables, charged>>

-----------------------------------------------------------------------------
(* Its statements.                                                         *)

\* record_payment_event: a fingerprint already there ends the delivery.
Record(s) ==
    /\ session[s].stage = "record"
    /\ IF <<session[s].source, session[s].reference>> \in events
       THEN Leave(s)
       ELSE FingerprintFree(s) /\ Goto(s, "ensure")
    /\ UNCHANGED <<tables, charged>>

\* ensure_customer_wallet: the insert waits for another session's insert of
\* the same row and then yields to it.
Ensure(s) ==
    /\ session[s].stage = "ensure"
    /\ WalletRowFree(s)
    /\ session' = [session EXCEPT
          ![s].creates = session[s].wallet \notin provisioned,
          ![s].stage = CASE session[s].operation = "topup" -> "guard"
                         [] session[s].operation = "view" -> "end"
                         [] OTHER -> "lock"]
    /\ UNCHANGED <<tables, charged>>

\* The replay guard of credit_wallet_topup, a read of committed rows.
Guard(s) ==
    /\ session[s].stage = "guard"
    /\ Goto(s, IF session[s].reference \in Credited THEN "end" ELSE "lock")
    /\ UNCHANGED <<tables, charged>>

MayProceed(s) ==
    /\ session[s].operation = "order_payment" => status[session[s].wallet] = "active"
    /\ balance[session[s].wallet] + session[s].amount >= 0

\* Mutant: the balance is read without FOR UPDATE.
LockNothing(s) ==
    /\ session[s].stage = "lock"
    /\ IF MayProceed(s)
       THEN session' = [session EXCEPT ![s].read = balance[session[s].wallet],
                                       ![s].stage = "append"]
       ELSE Leave(s)
    /\ UNCHANGED <<tables, charged>>

\* SELECT ... FOR UPDATE of the wallet; a payment on a frozen wallet and any
\* debit the balance does not cover raise.
Lock(s) ==
    /\ session[s].stage = "lock"
    /\ Unlocked(s, session[s].wallet)
    /\ IF MayProceed(s)
       THEN session' = [session EXCEPT ![s].read = balance[session[s].wallet],
                                       ![s].stage = "append"]
       ELSE Leave(s)
    /\ UNCHANGED <<tables, charged>>

\* The ledger insert.  A top-up whose reference another delivery committed is
\* caught: the lock goes with the subtransaction and nothing is credited.
AppendEntry(s) ==
    /\ session[s].stage = "append"
    /\ IF session[s].operation = "topup" /\ session[s].reference \in Credited
       THEN Goto(s, "end")
       ELSE /\ session[s].operation = "topup" => ReferenceFree(s)
            /\ session' = [session EXCEPT
                  ![s].entry = [type |-> session[s].operation,
                                amount |-> session[s].amount,
                                after |-> session[s].read + session[s].amount,
                                reference |-> session[s].reference],
                  ![s].stage = "end"]
    /\ UNCHANGED <<tables, charged>>

CapIssue(s) ==
    IF session[s].entry.type = "topup" /\ session[s].entry.after > Cap
    THEN {<<"wallet_balance_cap_exceeded", session[s].wallet>>}
    ELSE {}

Commit(s) ==
    LET w == session[s].wallet
        e == session[s].entry
    IN  /\ session[s].stage = "end"
        /\ IF session[s].creates
           THEN /\ provisioned' = provisioned \cup {w}
                /\ requested' = [requested EXCEPT ![w] = @ + 1]
           ELSE UNCHANGED <<provisioned, requested>>
        /\ IF e # NoEntry
           THEN /\ ledger' = [ledger EXCEPT ![w] = Append(@, e)]
                /\ balance' = [balance EXCEPT ![w] = e.after]
           ELSE UNCHANGED <<ledger, balance>>
        /\ events' = IF session[s].operation = "topup"
                     THEN events \cup {<<session[s].source, session[s].reference>>}
                     ELSE events
        /\ issues' = issues \cup CapIssue(s)
        /\ Leave(s)
        /\ UNCHANGED <<status, charged>>

\* Mutant: the event was recorded outside the transaction that fails.
AbortKeepingEvent(s) ==
    /\ session[s].stage # "idle"
    /\ events' = IF session[s].operation = "topup" /\ session[s].stage # "record"
                 THEN events \cup {<<session[s].source, session[s].reference>>}
                 ELSE events
    /\ Leave(s)
    /\ UNCHANGED <<provisioned, requested, status, balance, ledger, charged, issues>>

\* The transaction fails: an error in a later statement, a lost connection.
\* A failed delivery is filed in a transaction of its own, which may fail too.
Abort(s) ==
    /\ session[s].stage # "idle"
    /\ \/ UNCHANGED issues
       \/ /\ session[s].operation = "topup"
          /\ issues' = issues \cup
                {<<"webhook_processing_failed", session[s].reference>>}
    /\ Leave(s)
    /\ UNCHANGED <<provisioned, requested, status, balance, ledger, events, charged>>

\* Mutant: the update waits for nobody.
SetAtOnce(w, new) ==
    /\ w \in provisioned
    /\ status' = [status EXCEPT ![w] = new]
    /\ UNCHANGED <<provisioned, requested, balance, ledger, events, charged,
                   issues, session>>

\* set_wallet_status: one UPDATE, which waits for the row.
SetStatus(w, new) ==
    /\ w \in provisioned
    /\ \A s \in Sessions : HoldsWallet(s) => session[s].wallet # w
    /\ status' = [status EXCEPT ![w] = new]
    /\ UNCHANGED <<provisioned, requested, balance, ledger, events, charged,
                   issues, session>>

-----------------------------------------------------------------------------
Step(s) == Record(s) \/ Ensure(s) \/ Guard(s) \/ Lock(s) \/ AppendEntry(s) \/ Commit(s)

Request(s) ==
    \E w \in Wallets :
        \/ \E a \in Amounts : Pay(s, w, a) \/ Refund(s, w, a)
        \/ \E a \in Amounts : Adjust(s, w, a) \/ Adjust(s, w, -a)
        \/ View(s, w)

Next ==
    \/ \E r \in References : Charge(r)
    \/ \E s \in Sessions :
          \/ Request(s)
          \/ \E r \in References : \E source \in Sources : Deliver(s, source, r)
          \/ Step(s)
          \/ Abort(s)
    \/ \E w \in Wallets : \E new \in {"active", "frozen"} : SetStatus(w, new)

Spec == Init /\ [][Next]_vars

-----------------------------------------------------------------------------
(* Safety.                                                                 *)

\* Every entry carries the balance it left, the balance before it plus its
\* amount and never negative, and the cached balance is the last of them: what
\* detect_wallet_balance_drift looks for can only come from outside the ledger.
LedgerChains ==
    \A w \in Wallets :
        /\ \A i \in DOMAIN ledger[w] :
              LET before == IF i = 1 THEN 0 ELSE ledger[w][i - 1].after
              IN  /\ ledger[w][i].after = before + ledger[w][i].amount
                  /\ ledger[w][i].after >= 0
        /\ balance[w] = IF ledger[w] = <<>> THEN 0
                        ELSE ledger[w][Len(ledger[w])].after

\* A Paystack reference is credited once, whether the webhook lands first, later
\* or twice and whether the sweep runs into it (dva-topup-sweep.service.ts).
OneTopupPerReference ==
    \A w, x \in Wallets : \A i \in DOMAIN ledger[w], j \in DOMAIN ledger[x] :
        /\ ledger[w][i].type = "topup"
        /\ ledger[x][j].type = "topup"
        /\ ledger[w][i].reference = ledger[x][j].reference
        => w = x /\ i = j

\* A delivery answered as a duplicate, or as already credited, really was: no
\* committed fingerprint stands without its credit.
RecordedMeansCredited ==
    \A event \in events : event[2] \in Credited

\* Each collected transfer is credited once, however webhook and sweep overlap
\* and whichever of their transactions die between the event and the entry.
TopupsCreditedOnce == OneTopupPerReference /\ RecordedMeansCredited

\* Transactions that interleave statement by statement move money one at a
\* time: a commit appends what its session read and checked before, under its
\* lock, as if it did so now (Ledger).
Promised == INSTANCE Ledger WITH
                active <- {w \in Wallets : status[w] = "active"},
                money <- balance,
                entries <- ledger,
                collected <- charged
ImplementsLedger == Promised!Spec

-----------------------------------------------------------------------------
(* Liveness: the sweep keeps running while the transfer is in its 72 hours, *)
(* from some run on its transactions are not aborted (those that end in     *)
(* Leave change as little as an abort does, and go on), and PostgreSQL      *)
(* grants a lock that is freed over and over.                               *)

Sweeping(s) == session[s].stage # "idle" /\ session[s].source = "sweep"

LiveSpec ==
    /\ Spec
    /\ \A s \in Sessions : SF_vars(Step(s))
    /\ \A r \in References : SF_vars(\E s \in Sessions : Deliver(s, "sweep", r))
    /\ <>[][\A s \in Sessions : Sweeping(s) /\ Abort(s) => Step(s)]_vars

\* A top-up Paystack collected reaches the wallet though every webhook is lost.
TopupsAreCredited ==
    \A r \in References : r \in charged ~> r \in Credited
=============================================================================
