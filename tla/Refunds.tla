------------------------------- MODULE Refunds -------------------------------
(***************************************************************************)
(* Refunds of one captured payment.  An administrator's request is a task: *)
(* it reads, moves money (a wallet credit or a Paystack refund) and then   *)
(* writes the refund row, each in a transaction of its own; tasks          *)
(* interleave and may die between two of these steps.                      *)
(***************************************************************************)
EXTENDS Integers, FiniteSets, FiniteSetsExt

CONSTANTS
    Tasks,        \* administrators' requests running at once
    Rows,         \* bound: rows of public.refunds for the payment
    Nothing,      \* not a row
    Paid,         \* the captured amount
    Destinations  \* where initiateRefund may send money

ASSUME RefundsAssumption ==
    /\ IsFiniteSet(Rows)
    /\ Nothing \notin Rows
    /\ Paid \in Nat \ {0}
    /\ Destinations \in SUBSET {"wallet", "paystack"}

VARIABLES
    status,     \* refunds.status
    amount,     \* refunds.amount_kobo
    toWallet,   \* credited to the wallet for each row
    toCard,     \* refunded by Paystack for each row
    byHand,     \* rows an administrator resolved by hand
    crossed,    \* rows on which requests met, or one died with money moved
    task        \* what each request does next

vars == <<status, amount, toWallet, toCard, byHand, crossed, task>>
rows == <<status, amount>>
money == <<toWallet, toCard>>

Statuses == {"none", "requested", "approved", "processing", "succeeded",
             "failed", "cancelled"}
Steps == {"idle", "create", "credit", "call", "record", "resolve"}
Task == [step : Steps, row : Rows \cup {Nothing}, amount : 0..Paid,
         destination : {"wallet", "paystack"}, read : Statuses, answer : Statuses]
Idle == [step |-> "idle", row |-> Nothing, amount |-> 0,
         destination |-> "wallet", read |-> "none", answer |-> "none"]

TypeOK ==
    /\ status \in [Rows -> Statuses]
    /\ amount \in [Rows -> 0..Paid]
    /\ toWallet \in [Rows -> Nat]
    /\ toCard \in [Rows -> Nat]
    /\ byHand \in SUBSET Rows
    /\ crossed \in SUBSET Rows
    /\ task \in [Tasks -> Task]

Init ==
    /\ status = [f \in Rows |-> "none"]
    /\ amount = [f \in Rows |-> 0]
    /\ toWallet = [f \in Rows |-> 0]
    /\ toCard = [f \in Rows |-> 0]
    /\ byHand = {}
    /\ crossed = {}
    /\ task = [a \in Tasks |-> Idle]

-----------------------------------------------------------------------------
Total(g) == MapThenSumSet(LAMBDA f : g[f], Rows)

\* getRefundedAmountKobo: every row that is not failed counts.
Refunded == MapThenSumSet(LAMBDA f : amount[f],
                          {f \in Rows : status[f] \notin {"none", "failed"}})

Moved(f) == toWallet[f] + toCard[f]

Start(a, next) ==
    /\ task[a] = Idle
    /\ task' = [task EXCEPT ![a] = next]
    /\ crossed' = crossed \cup
          {f \in Rows : f = next.row /\ \E b \in Tasks : task[b].row = f}
    /\ UNCHANGED <<rows, money, byHand>>

Continue(a, step, answer) ==
    task' = [task EXCEPT ![a].step = step, ![a].answer = answer]

\* initiateRefund, up to the check.
InitiateRefund(a, kobo, destination) ==
    /\ kobo <= Paid - Refunded
    /\ Start(a, [Idle EXCEPT !.step = "create", !.amount = kobo,
                             !.destination = destination])

\* The insert of the request, which no constraint ties to the payment's amount.
CreateRefundRequest(a) ==
    /\ task[a].step = "create"
    /\ \E f \in Rows :
          /\ status[f] = "none"
          /\ status' = [status EXCEPT ![f] = "requested"]
          /\ amount' = [amount EXCEPT ![f] = task[a].amount]
          /\ task' = [task EXCEPT ![a].row = f,
                ![a].step = IF task[a].destination = "wallet" THEN "credit" ELSE "call"]
    /\ UNCHANGED <<money, byHand, crossed>>

\* Mutant: a credit that fails is swallowed and recorded.
CreditIfPossible(a) ==
    /\ task[a].step = "credit"
    /\ \/ toWallet' = [toWallet EXCEPT ![task[a].row] = @ + task[a].amount]
       \/ UNCHANGED toWallet
    /\ Continue(a, "record", "succeeded")
    /\ UNCHANGED <<rows, toCard, byHand, crossed>>

\* refund_order_to_wallet: whatever the amount, whatever was refunded before.
CreditRefundToWallet(a) ==
    /\ task[a].step = "credit"
    /\ toWallet' = [toWallet EXCEPT ![task[a].row] = @ + task[a].amount]
    /\ Continue(a, "record", "succeeded")
    /\ UNCHANGED <<rows, toCard, byHand, crossed>>

\* Paystack's POST /refund, which never returns more than it collected.
CreateRefund(a) ==
    /\ task[a].step = "call"
    /\ \/ \E answer \in {"succeeded", "processing"} :
             /\ Total(toCard) + task[a].amount <= Paid
             /\ toCard' = [toCard EXCEPT ![task[a].row] = @ + task[a].amount]
             /\ Continue(a, "record", answer)
       \/ Continue(a, "record", "failed") /\ UNCHANGED toCard
    /\ UNCHANGED <<rows, toWallet, byHand, crossed>>

\* updateRefundProviderPayload and applyProviderRetry write whatever the row
\* has become in the meantime.
Record(a) ==
    /\ task[a].step = "record"
    /\ status' = [status EXCEPT ![task[a].row] = task[a].answer]
    /\ task' = [task EXCEPT ![a] = Idle]
    /\ UNCHANGED <<amount, money, byHand, crossed>>

\* Mutant: a refund Paystack is still processing can be retried.
RetryUnsettled(a, f) ==
    /\ status[f] \in {"failed", "processing"}
    /\ Start(a, [Idle EXCEPT !.step = "call", !.row = f, !.amount = amount[f],
                             !.destination = "paystack", !.read = status[f]])

\* retryRefund: only failed refunds.
RetryRefund(a, f) ==
    /\ status[f] = "failed"
    /\ Start(a, [Idle EXCEPT !.step = "call", !.row = f, !.amount = amount[f],
                             !.destination = "paystack", !.read = status[f]])

\* initiateApprovedRefund: at most the approved amount.
InitiateApprovedRefund(a, f, kobo) ==
    /\ status[f] = "approved"
    /\ kobo <= amount[f]
    /\ Start(a, [Idle EXCEPT !.step = "call", !.row = f, !.amount = kobo,
                             !.destination = "paystack", !.read = status[f]])

\* resolveRefund and decideRefund: the check, then markResolution.
ResolveRefund(a, f, outcome) ==
    /\ status[f] \notin {"none", "succeeded"}
    /\ Start(a, [Idle EXCEPT !.step = "resolve", !.row = f, !.answer = outcome])

DecideRefund(a, f, outcome) ==
    /\ status[f] = "requested"
    /\ Start(a, [Idle EXCEPT !.step = "resolve", !.row = f, !.answer = outcome])

MarkResolution(a) ==
    /\ task[a].step = "resolve"
    /\ status' = [status EXCEPT ![task[a].row] = task[a].answer]
    /\ byHand' = IF task[a].answer = "approved" THEN byHand
                 ELSE byHand \cup {task[a].row}
    /\ task' = [task EXCEPT ![a] = Idle]
    /\ UNCHANGED <<amount, money, crossed>>

\* The request dies: the client sees an error, what it did stays.
Die(a) ==
    /\ task[a] # Idle
    /\ crossed' = IF task[a].step = "record" /\ task[a].answer # "failed"
                  THEN crossed \cup {task[a].row}
                  ELSE crossed
    /\ task' = [task EXCEPT ![a] = Idle]
    /\ UNCHANGED <<rows, money, byHand>>

Request(a) ==
    \/ \E kobo \in 1..Paid : \E d \in Destinations : InitiateRefund(a, kobo, d)
    \/ \E f \in Rows :
          \/ RetryRefund(a, f)
          \/ \E kobo \in 1..Paid : InitiateApprovedRefund(a, f, kobo)
          \/ \E o \in {"succeeded", "failed", "cancelled"} : ResolveRefund(a, f, o)
          \/ \E o \in {"approved", "cancelled"} : DecideRefund(a, f, o)

Next ==
    \E a \in Tasks :
        \/ Request(a)
        \/ CreateRefundRequest(a)
        \/ CreditRefundToWallet(a)
        \/ CreateRefund(a)
        \/ Record(a)
        \/ MarkResolution(a)
        \/ Die(a)

Spec == Init /\ [][Next]_vars

-----------------------------------------------------------------------------
(* Properties.                                                             *)

\* A refund shown as succeeded sent money, or an administrator vouched for it;
\* whatever other request wrote over the row and whoever died.
SucceededIsBacked ==
    \A f \in Rows : status[f] = "succeeded" => Moved(f) > 0 \/ f \in byHand

\* A refund moves its amount at most once (refunds.service.ts: settled refunds
\* are left untouched "to avoid double-refunding"), through failures, retries,
\* approval and deaths before money moved, with any requests on other refunds.
OncePerRefund ==
    \A f \in Rows \ (byHand \cup crossed) : Moved(f) <= amount[f]

\* Money that moved is on the books: its row counts against what may still be
\* refunded once the request that moved it is over.
MovedIsCounted ==
    \A f \in Rows \ (byHand \cup crossed) :
        /\ Moved(f) > 0
        /\ \A a \in Tasks : task[a].row # f
        => status[f] \in {"processing", "succeeded"}

\* Over its whole life a refund moves its amount once and its row says so.
RefundsAddUp == OncePerRefund /\ MovedIsCounted

\* The workflow caps the refundable amount: no more goes back than was paid,
\* as long as no administrator resolves a refund by hand.
RefundedWithinPaid == byHand = {} => Total(toWallet) + Total(toCard) <= Paid

\* Only refunds in a failed state are retried: a retry sends nothing for a
\* refund that is processing or succeeded by then.
RetryLeavesSettled ==
    [][\A a \in Tasks :
          /\ task[a].step = "call"
          /\ task[a].read = "failed"
          /\ task[a].row \notin byHand
          /\ toCard' # toCard
          /\ task'[a] # task[a]
          => status[task[a].row] \notin {"processing", "succeeded"}]_vars

\* Approval does not move money, it authorizes a subsequent initiate: nothing
\* was sent for a refund that waits for it.
ApprovedIsUnsent ==
    \A f \in Rows : status[f] = "approved" => Moved(f) = 0
=============================================================================
