------------------------------- MODULE Payouts -------------------------------
(***************************************************************************)
(* Payouts to one vendor or rider: on-demand withdrawals and the daily     *)
(* settlement of the backlog, paid by Paystack transfers that the pay-run, *)
(* withdrawal requests and administrators initiate, and that webhooks and  *)
(* the reconcile sweep settle.  A call is a request or cron run with its   *)
(* next statement; calls interleave and may die between two statements.    *)
(***************************************************************************)
EXTENDS Integers, FiniteSets, Functions

CONSTANTS
    Orders,      \* orders of the beneficiary
    Backlog,     \* those served before the on-demand cutover date
    Earnings,    \* credit lines of each order
    MaxRefund,   \* bound: succeeded refunds of an order
    Minimum,     \* withdrawal_min_kobo
    Settlements, \* bound: rows of public.settlements
    Daily,       \* those of the backlog's day
    Calls,       \* requests and cron runs at once
    Nothing,     \* not a settlement
    MaxAttempts, \* payout_max_attempts
    MaxRows,     \* bound: payout_transfers rows of a settlement
    MaxListed,   \* bound: total of a daily settlement's lines
    ManualFrom,  \* settlement statuses administrators pay from
    Overlap,     \* whether two calls may pay one settlement at once
    Opaque,      \* whether Paystack may fail to find a transfer that exists
    Reversals    \* whether Paystack reverses transfers that succeeded

Attempts == 1..MaxRows

ASSUME PayoutsAssumption ==
    /\ IsFiniteSet(Orders)
    /\ Backlog \subseteq Orders
    /\ Earnings \in [Orders -> Nat \ {0}]
    /\ MaxRefund \in Nat
    /\ Minimum \in Nat \ {0}
    /\ Daily \subseteq Settlements
    /\ Nothing \notin Settlements
    /\ MaxAttempts \in Nat
    /\ MaxRows \in Nat \ {0}
    /\ MaxListed \in Nat
    /\ ManualFrom \subseteq {"draft", "approved", "paid", "cancelled"}
    /\ {Overlap, Opaque, Reversals} \subseteq BOOLEAN

VARIABLES
    earned,    \* orders delivered longer ago than the hold
    refunded,  \* succeeded refunds of each order
    status,    \* settlements.status
    credits,   \* orders a settlement carries credit lines of
    deducted,  \* and the refunds it deducts
    listed,    \* the total of a daily settlement's credit lines
    aged,      \* settlements past payout_hold_hours
    row,       \* payout_transfers.status by attempt
    sent,      \* the transfer at Paystack, by reference <<settlement, attempt>>
    told,      \* transfer events recorded, as <<settlement, attempt, status>>
    byHand,    \* settlements an administrator marked as paid
    call       \* what each request or cron run does next

vars == <<earned, refunded, status, credits, deducted, listed, aged, row, sent,
          told, byHand, call>>
lines == <<credits, deducted, listed>>
world == <<earned, refunded>>

SettlementStatuses == {"none", "draft", "approved", "paid", "cancelled"}
Transfers == {"none", "pending", "success", "failed", "reversed"}
Steps == {"idle", "pay", "attempt", "initiate", "verify", "release", "record", "apply"}
Call == [step : Steps, by : {"nobody", "withdrawal", "run", "admin", "sweep"},
         settlement : Settlements \cup {Nothing}, attempt : 0..MaxRows,
         answer : Transfers]
Idle == [step |-> "idle", by |-> "nobody", settlement |-> Nothing,
         attempt |-> 0, answer |-> "none"]

TypeOK ==
    /\ earned \in SUBSET Orders
    /\ refunded \in [Orders -> 0..MaxRefund]
    /\ status \in [Settlements -> SettlementStatuses]
    /\ credits \in [Settlements -> SUBSET Orders]
    /\ deducted \in [Settlements -> [Orders -> Nat]]
    /\ listed \in [Settlements -> Int]
    /\ aged \in SUBSET Settlements
    /\ row \in [Settlements -> [Attempts -> Transfers]]
    /\ sent \in [Settlements -> [Attempts -> Transfers]]
    /\ told \in SUBSET (Settlements \X Attempts \X Transfers)
    /\ byHand \in SUBSET Settlements
    /\ call \in [Calls -> Call]

Init ==
    /\ earned = Backlog
    /\ refunded = [o \in Orders |-> 0]
    /\ status = [s \in Settlements |-> "none"]
    /\ credits = [s \in Settlements |-> {}]
    /\ deducted = [s \in Settlements |-> [o \in Orders |-> 0]]
    /\ listed = [s \in Settlements |-> 0]
    /\ aged = {}
    /\ row = [s \in Settlements |-> [n \in Attempts |-> "none"]]
    /\ sent = [s \in Settlements |-> [n \in Attempts |-> "none"]]
    /\ told = {}
    /\ byHand = {}
    /\ call = [c \in Calls |-> Idle]

-----------------------------------------------------------------------------
Worth(orders) == SumFunctionOnSet(Earnings, orders)

\* payable_kobo of a settlement.
Payable(s) == Worth(credits[s]) - SumFunction(deducted[s])

Live == {s \in Settlements : status[s] \notin {"none", "cancelled"}}

\* What these settlements deduct of an order.
Deducted(o, set) == SumFunction([s \in set |-> deducted[s][o]])

Active(s) == {n \in Attempts : row[s][n] \in {"pending", "success"}}
Unsuccessful(s) == {n \in Attempts : row[s][n] \in {"failed", "reversed"}}

Become(c, next) == call' = [call EXCEPT ![c] = next]
Goto(c, step) == Become(c, [call[c] EXCEPT !.step = step])
End(c) == Become(c, Idle)

\* The customers' side: deliveries outlive the hold, refunds succeed.
OrderEarned(o) ==
    /\ o \notin earned
    /\ earned' = earned \cup {o}
    /\ UNCHANGED <<refunded, status, lines, aged, row, sent, told, byHand, call>>

RefundSucceeds(o) ==
    /\ refunded[o] < MaxRefund
    /\ refunded' = [refunded EXCEPT ![o] = @ + 1]
    /\ UNCHANGED <<earned, status, lines, aged, row, sent, told, byHand, call>>

-----------------------------------------------------------------------------
(* Settlements.                                                            *)

\* Mutant: a line is taken only by a settlement that was paid.
CreditsNotPaid ==
    {o \in earned \ Backlog :
        \A s \in Settlements : status[s] = "paid" => o \notin credits[s]}

\* vendor_withdrawable_lines, rider_withdrawable_lines: credits ...
WithdrawableCredits ==
    {o \in earned \ Backlog : \A s \in Live : o \notin credits[s]}

\* Mutant: succeeded refunds, whether or not a settlement deducted them.
AllRefunds == [o \in Orders |-> IF o \in Backlog THEN 0 ELSE refunded[o]]

\* ... and refunds no live settlement deducted yet, whatever the hold; nothing is
\* given back where more was deducted.
UnsettledRefunds ==
    [o \in Orders |->
        LET rest == refunded[o] - Deducted(o, Live) IN
        IF o \in Backlog \/ rest < 0 THEN 0 ELSE rest]

\* request_withdrawal, under the lock of the beneficiary's row.
RequestWithdrawal(c, s) ==
    LET available == Worth(WithdrawableCredits)
                     - SumFunction(UnsettledRefunds)
    IN
    /\ call[c] = Idle
    /\ s \notin Daily
    /\ status[s] = "none"
    /\ available >= Minimum
    /\ status' = [status EXCEPT ![s] = "approved"]
    /\ credits' = [credits EXCEPT ![s] = WithdrawableCredits]
    /\ deducted' = [deducted EXCEPT ![s] = UnsettledRefunds]
    /\ listed' = [listed EXCEPT ![s] = available]
    /\ Become(c, [Idle EXCEPT !.step = "pay", !.by = "withdrawal", !.settlement = s])
    /\ UNCHANGED <<world, aged, row, sent, told, byHand>>

\* produce_vendor_daily_settlement: the row is upserted, whatever became of it,
\* and its credit lines are inserted again.
GenerateSettlement(s) ==
    LET refunds == [o \in Orders |-> IF o \in Backlog THEN refunded[o] ELSE 0] IN
    /\ s \in Daily
    /\ status' = [status EXCEPT ![s] = IF @ = "none" THEN "draft" ELSE @]
    /\ credits' = [credits EXCEPT ![s] = Backlog]
    /\ deducted' = [deducted EXCEPT ![s] = refunds]
    /\ listed[s] + Worth(Backlog) <= MaxListed
    /\ listed' = [listed EXCEPT ![s] = @ + Worth(Backlog)]
    /\ UNCHANGED <<world, aged, row, sent, told, byHand, call>>

\* setSettlementStatus; administrators approve drafts.
ApproveSettlement(s) ==
    /\ status[s] = "draft"
    /\ status' = [status EXCEPT ![s] = "approved"]
    /\ UNCHANGED <<world, lines, aged, row, sent, told, byHand, call>>

\* Paid outside the system.
MarkSettlementPaid(s) ==
    /\ status[s] \in {"draft", "approved"}
    /\ status' = [status EXCEPT ![s] = "paid"]
    /\ byHand' = byHand \cup {s}
    /\ UNCHANGED <<world, lines, aged, row, sent, told, call>>

\* payout_hold_hours pass; no withdrawal request lasts that long.
HoldPasses(s) ==
    /\ status[s] # "none"
    /\ s \notin aged
    /\ \A c \in Calls : call[c].settlement # s
    /\ aged' = aged \cup {s}
    /\ UNCHANGED <<world, status, lines, row, sent, told, byHand, call>>

-----------------------------------------------------------------------------
(* Paying a settlement.                                                    *)

StartPay(c, s, by) ==
    /\ call[c] = Idle
    /\ Overlap \/ \A d \in Calls : call[d].settlement # s
    /\ Become(c, [Idle EXCEPT !.step = "pay", !.by = by, !.settlement = s])
    /\ UNCHANGED <<world, status, lines, aged, row, sent, told, byHand>>

\* select_payable_settlements.
RunPayouts(c, s) ==
    /\ status[s] = "approved"
    /\ s \in aged
    /\ Payable(s) > 0
    /\ Active(s) = {}
    /\ Cardinality(Unsuccessful(s)) < MaxAttempts
    /\ StartPay(c, s, "run")

\* POST /settlements/:id/pay.
PaySettlement(c, s) ==
    /\ status[s] \in ManualFrom
    /\ StartPay(c, s, "admin")

\* Mutant: a transfer that succeeded does not stop a second one.
FindPending(c) ==
    LET s == call[c].settlement IN
    /\ call[c].step = "pay"
    /\ IF \E n \in Attempts : row[s][n] = "pending" THEN End(c) ELSE Goto(c, "attempt")
    /\ UNCHANGED <<world, status, lines, aged, row, sent, told, byHand>>

\* findActiveTransfer: a transfer in flight or completed is returned as it is.
FindActiveTransfer(c) ==
    /\ call[c].step = "pay"
    /\ IF Active(call[c].settlement) # {} THEN End(c) ELSE Goto(c, "attempt")
    /\ UNCHANGED <<world, status, lines, aged, row, sent, told, byHand>>

\* nextAttempt, in a statement of its own.
NextAttempt(c) ==
    LET recorded == {m \in Attempts : row[call[c].settlement][m] # "none"} IN
    /\ call[c].step = "attempt"
    /\ \E n \in Attempts :
          /\ n - 1 \in recorded \cup {0}
          /\ \A m \in recorded : m < n
          /\ Become(c, [call[c] EXCEPT !.step = "initiate", !.attempt = n])
    /\ UNCHANGED <<world, status, lines, aged, row, sent, told, byHand>>

\* What a call does with an HTTP error: a withdrawal asks whether Paystack has
\* the transfer after all, the others give up.
OnError(c) == IF call[c].by = "withdrawal" THEN Goto(c, "verify") ELSE End(c)

\* POST /transfer.  A reference is used once; the answer may be an error or be
\* lost though the transfer was created.
InitiateTransfer(c) ==
    LET s == call[c].settlement
        n == call[c].attempt
    IN
    /\ call[c].step = "initiate"
    /\ \/ /\ sent[s][n] = "none"
          /\ \E answer \in {"pending", "success", "failed"} :
                /\ sent' = [sent EXCEPT ![s][n] = answer]
                /\ \/ Become(c, [call[c] EXCEPT !.step = "record", !.answer = answer])
                   \/ OnError(c)
                   \/ End(c)
       \/ (OnError(c) \/ End(c)) /\ UNCHANGED sent
    /\ UNCHANGED <<world, status, lines, aged, row, told, byHand>>

\* payWithdrawal after an HTTP error: fetchTransfer of the first attempt, with
\* any HTTP error taken for an unknown transfer.
VerifyTransfer(c) ==
    LET s == call[c].settlement
        found == sent[s][1]
    IN
    /\ call[c].step = "verify"
    /\ \/ /\ found # "none"
          /\ Become(c, [call[c] EXCEPT !.step = "record", !.attempt = 1, !.answer = found])
       \/ (found = "none" \/ Opaque) /\ Goto(c, "release")
       \/ End(c)
    /\ UNCHANGED <<world, status, lines, aged, row, sent, told, byHand>>

\* cancelOnDemandSettlement.
CancelOnDemandSettlement(c) ==
    LET s == call[c].settlement IN
    /\ call[c].step = "release"
    /\ status' = IF s \notin Daily /\ status[s] = "approved" /\ Active(s) = {}
                 THEN [status EXCEPT ![s] = "cancelled"]
                 ELSE status
    /\ End(c)
    /\ UNCHANGED <<world, lines, aged, row, sent, told, byHand>>

\* recordTransfer: the row of the attempt, unless another call wrote it, and
\* what it says is settled at once when it is terminal.
RecordTransfer(c) ==
    LET s == call[c].settlement
        n == call[c].attempt
        stored == IF row[s][n] = "none" THEN call[c].answer ELSE row[s][n]
    IN
    /\ call[c].step = "record"
    /\ row' = [row EXCEPT ![s][n] = stored]
    /\ IF stored = "pending"
       THEN End(c)
       ELSE Become(c, [call[c] EXCEPT !.step = "apply", !.answer = stored])
    /\ UNCHANGED <<world, status, lines, aged, sent, told, byHand>>

-----------------------------------------------------------------------------
(* Settling a transfer.                                                    *)

\* Mutant: whatever the outcome, the settlement was paid.
PaidAnyway(s, n, outcome) ==
    IF row[s][n] = "none"
    THEN UNCHANGED <<row, status>>
    ELSE /\ row' = [row EXCEPT ![s][n] = outcome]
         /\ status' = [status EXCEPT ![s] = "paid"]

\* Mutant: the transfer's row keeps its status unless it succeeded.
ReconcileSuccess(s, n, outcome) ==
    IF row[s][n] = "none" \/ outcome # "success"
    THEN UNCHANGED <<row, status>>
    ELSE /\ row' = [row EXCEPT ![s][n] = outcome]
         /\ status' = [status EXCEPT ![s] = "paid"]

\* reconcile_payout_transfer: a transfer without a row is ignored.
Reconcile(s, n, outcome) ==
    IF row[s][n] = "none"
    THEN UNCHANGED <<row, status>>
    ELSE /\ row' = [row EXCEPT ![s][n] = outcome]
         /\ status' = [status EXCEPT ![s] =
                CASE outcome = "success" -> "paid"
                  [] outcome # "success" /\ s \notin Daily /\ @ \in {"approved", "paid"}
                       -> "cancelled"
                  [] OTHER -> @]

\* Mutant: a transfer still pending after the grace period is given up.
SweepGivesUp(c, s, n) ==
    /\ call[c] = Idle
    /\ row[s][n] = "pending"
    /\ Become(c, [step |-> "apply", by |-> "sweep", settlement |-> s, attempt |-> n,
                  answer |-> IF sent[s][n] = "pending" THEN "failed" ELSE sent[s][n]])
    /\ UNCHANGED <<world, status, lines, aged, row, sent, told, byHand>>

\* reconcilePendingPayouts: what Paystack says of a pending transfer.
SweepPending(c, s, n) ==
    /\ call[c] = Idle
    /\ row[s][n] = "pending"
    /\ sent[s][n] # "pending"
    /\ Become(c, [step |-> "apply", by |-> "sweep", settlement |-> s, attempt |-> n,
                  answer |-> sent[s][n]])
    /\ UNCHANGED <<world, status, lines, aged, row, sent, told, byHand>>

ApplyReconcile(c) ==
    /\ call[c].step = "apply"
    /\ Reconcile(call[c].settlement, call[c].attempt, call[c].answer)
    /\ End(c)
    /\ UNCHANGED <<world, lines, aged, sent, told, byHand>>

\* A transfer webhook, late or out of order: the event is recorded once.
Webhook(s, n, outcome) ==
    /\ \/ outcome = sent[s][n] /\ outcome \in {"success", "failed", "reversed"}
       \/ outcome = "success" /\ sent[s][n] = "reversed"
    /\ <<s, n, outcome>> \notin told
    /\ told' = told \cup {<<s, n, outcome>>}
    /\ Reconcile(s, n, outcome)
    /\ UNCHANGED <<world, lines, aged, sent, byHand, call>>

\* Paystack settles a transfer, and may reverse it afterwards.
PaystackSettles(s, n) ==
    /\ \E outcome \in {"success", "failed", "reversed"} :
          /\ IF outcome = "reversed"
             THEN Reversals /\ sent[s][n] = "success"
             ELSE sent[s][n] = "pending"
          /\ sent' = [sent EXCEPT ![s][n] = outcome]
    /\ UNCHANGED <<world, status, lines, aged, row, told, byHand, call>>

\* The process or its connection dies: what it did stays.
Die(c) ==
    /\ call[c] # Idle
    /\ End(c)
    /\ UNCHANGED <<world, status, lines, aged, row, sent, told, byHand>>

Step(c) ==
    \/ FindActiveTransfer(c) \/ NextAttempt(c) \/ InitiateTransfer(c)
    \/ VerifyTransfer(c) \/ CancelOnDemandSettlement(c)
    \/ RecordTransfer(c) \/ ApplyReconcile(c)

Next ==
    \/ \E o \in Orders : OrderEarned(o) \/ RefundSucceeds(o)
    \/ \E s \in Settlements :
          \/ GenerateSettlement(s) \/ ApproveSettlement(s) \/ MarkSettlementPaid(s)
          \/ HoldPasses(s)
          \/ \E c \in Calls :
                \/ RequestWithdrawal(c, s) \/ RunPayouts(c, s) \/ PaySettlement(c, s)
                \/ \E n \in Attempts : SweepPending(c, s, n)
          \/ \E n \in Attempts :
                \/ PaystackSettles(s, n)
                \/ \E outcome \in Transfers : Webhook(s, n, outcome)
    \/ \E c \in Calls : Step(c) \/ Die(c)

Spec == Init /\ [][Next]_vars

-----------------------------------------------------------------------------
(* Safety.                                                                 *)

\* What the table says of a transfer was true at Paystack: a terminal row is
\* never a guess, whichever of call, sweep and webhook wrote it last.
RowsAreTrue ==
    \A s \in Settlements, n \in Attempts :
        CASE row[s][n] = "none" -> TRUE
          [] row[s][n] = "pending" -> sent[s][n] # "none"
          [] row[s][n] = "success" -> sent[s][n] \in {"success", "reversed"}
          [] OTHER -> sent[s][n] = row[s][n]

\* A settlement reads paid only if a transfer for it succeeded or an
\* administrator paid it outside the system.
PaidIsSent ==
    \A s \in Settlements :
        status[s] = "paid" =>
            \/ s \in byHand
            \/ \E n \in Attempts : sent[s][n] \in {"success", "reversed"}

\* So neither table, payout_transfers or settlements, says more than happened.
TablesAreTrue == RowsAreTrue /\ PaidIsSent

\* No two of these settlements carry a line of one order.
Unshared(set) == \A s, t \in set : s # t => credits[s] \cap credits[t] = {}

\* An order's line is paid in one live settlement (20261022000100: "an order
\* line is withdrawable only while no non-cancelled settlement of the same
\* beneficiary already carries that (order, line_type)").
ClaimedOnce == Unshared(Live)

\* Settlements whose transfer is at the beneficiary or on its way.
InTransit(s) == {n \in Attempts : sent[s][n] \in {"pending", "success"}}

\* A settlement is never paid again while a transfer of it is pending or
\* successful (payout.service.ts, payout.repository.ts: findActiveTransfer).
OnePaymentPerSettlement ==
    \A s \in Settlements : Cardinality(InTransit(s)) <= 1

\* A withdrawal is never paid twice (payWithdrawal): withdrawals on their way
\* share no order.
OnTheWay == {s \in Settlements \ Daily : InTransit(s) # {}}
WithdrawalsDisjoint == Unshared(OnTheWay)

\* Paid again after a first transfer that failed.
Retried == {s \in Settlements : \E n \in Attempts \ {1} : sent[s][n] # "none"}

\* What a customer's money became is withdrawn once: no credit is claimed by two
\* settlements here nor sent in two transfers at Paystack, whatever was lost,
\* released or died, as long as a withdrawal is not sent a second time.
WithdrawnOnce == Unshared(Live \ Retried) /\ Unshared(OnTheWay \ Retried)

\* The books of the beneficiary balance, however withdrawals, releases, answers and
\* late refunds interleave: an order's refund is deducted by one live settlement,
\* and what they pay together was earned.  Settlements sent a second time apart.
RefundsComeOffOnce ==
    \A o \in Orders \ Backlog : Deducted(o, Live \ Retried) <= refunded[o]
NeverOverpaid == SumFunction([s \in Live \ Retried |-> Payable(s)]) <= Worth(earned)
BooksBalance == RefundsComeOffOnce /\ NeverOverpaid

\* Daily settlements are generated idempotently (settlements.controller.ts): with
\* nothing changed, generating one again leaves its lines alone.
GeneratedIdempotently ==
    [][\A s \in Daily :
          status[s] # "none" /\ credits'[s] = credits[s] /\ deducted'[s] = deducted[s]
          => listed'[s] = listed[s]]_vars

-----------------------------------------------------------------------------
(* Liveness.  The sweep comes back on schedule; from some time on its runs   *)
(* are not interrupted (a run that has nothing left to apply changes as     *)
(* little as one that dies, and goes on) and Paystack answers its requests. *)

SweepingSpec ==
    /\ Spec
    /\ \A c \in Calls : WF_vars(Step(c))
    /\ \A s \in Settlements, n \in Attempts :
          SF_vars(\E c \in Calls : SweepPending(c, s, n))
    /\ <>[][\A c \in Calls : call[c].by = "sweep" /\ Die(c) => ApplyReconcile(c)]_vars

\* The same with the pay-run, and every webhook delivered at some time.
DeliveringSpec ==
    /\ SweepingSpec
    /\ \A s \in Settlements :
          /\ SF_vars(HoldPasses(s))
          /\ SF_vars(\E c \in Calls : RunPayouts(c, s))
          /\ SF_vars(\E c \in Calls : call[c].settlement = s /\ FindActiveTransfer(c))
          /\ SF_vars(\E c \in Calls : call[c].settlement = s /\ NextAttempt(c))
          /\ SF_vars(\E c \in Calls : call[c].settlement = s /\ InitiateTransfer(c))
          /\ SF_vars(\E c \in Calls : call[c].settlement = s /\ RecordTransfer(c))
    /\ \A s \in Settlements, n \in Attempts : \A outcome \in Transfers :
          WF_vars(Webhook(s, n, outcome))

\* A transfer on the books is settled as Paystack settled it, though every
\* webhook is lost.
RecordedIsSettled ==
    \A s \in Settlements, n \in Attempts :
        row[s][n] = "pending" /\ sent[s][n] \in {"success", "failed", "reversed"}
        ~> row[s][n] # "pending"

\* A withdrawal of unknown outcome is picked up by the pay-run with the same
\* reference (payWithdrawal) and completes on its own
\* (docs/operations/on-demand-withdrawals.md): its transfer gets its row, unless
\* an administrator marked it as paid.
UnknownIsPickedUp ==
    \A s \in Settlements \ Daily, n \in Attempts :
        sent[s][n] = "success" ~> row[s][n] # "none" \/ s \in byHand
=============================================================================
