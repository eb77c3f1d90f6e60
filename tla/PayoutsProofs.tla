---------------------------- MODULE PayoutsProofs ----------------------------
(***************************************************************************)
(* Transfers and settlements, for any number of orders, settlements,       *)
(* attempts and calls: what the database says of them is true at Paystack  *)
(* (Inv); a settlement has one transfer on its way (OnceInv, when calls    *)
(* paying one settlement do not overlap); no credit is withdrawn twice     *)
(* (ClaimInv); no refund is deducted twice (DeductInv), which takes facts  *)
(* about sums over finite sets.                                            *)
(***************************************************************************)
EXTENDS Payouts, FiniteSetTheorems, WellFoundedInduction, TLAPS

Typed ==
    /\ earned \in SUBSET Orders
    /\ status \in [Settlements -> SettlementStatuses]
    /\ row \in [Settlements -> [Attempts -> Transfers]]
    /\ sent \in [Settlements -> [Attempts -> Transfers]]
    /\ byHand \in SUBSET Settlements
    /\ call \in [Calls -> Call]

\* Paystack's transfers agree with an answer that was given about one of them.
Vouched(transfers, s, n, answer) ==
    \/ answer = "pending" /\ transfers[s][n] # "none"
    \/ answer = "success" /\ transfers[s][n] \in {"success", "reversed"}
    \/ answer \in {"failed", "reversed"} /\ transfers[s][n] = answer

RowsVouched ==
    \A s \in Settlements, n \in Attempts :
        row[s][n] = "none" \/ Vouched(sent, s, n, row[s][n])

\* What a call carries into each of its statements.
Carries(c) ==
    LET k == call[c] IN
    /\ k.step # "idle" => k.settlement \in Settlements
    /\ k.step \in {"initiate", "record", "apply"} => k.attempt \in Attempts
    /\ k.step \in {"record", "apply"} => Vouched(sent, k.settlement, k.attempt, k.answer)

Inv ==
    /\ Typed
    /\ RowsVouched
    /\ PaidIsSent
    /\ \A c \in Calls : Carries(c)

-----------------------------------------------------------------------------
LEMMA RowsTrue == ASSUME Inv PROVE RowsAreTrue
BY DEF Inv, Typed, Transfers, RowsVouched, Vouched, RowsAreTrue

LEMMA InitInv == Init => Inv
<1> SUFFICES ASSUME Init PROVE Inv
  OBVIOUS
<1>1. Idle \in Call /\ Idle.step = "idle"
  BY PayoutsAssumption DEF Idle, Call, Steps, Transfers
<1>2. Typed
  BY <1>1, PayoutsAssumption DEF Init, Typed, SettlementStatuses, Transfers
<1>3. RowsVouched /\ PaidIsSent
  BY DEF Init, RowsVouched, PaidIsSent
<1>4. \A c \in Calls : Carries(c)
  BY <1>1 DEF Init, Carries
<1> QED BY <1>2, <1>3, <1>4 DEF Inv

\* Paystack never forgets a transfer, and only a success can still change.
SentAdvances ==
    \A s \in Settlements, n \in Attempts :
        \/ sent'[s][n] = sent[s][n]
        \/ sent[s][n] = "none"
        \/ sent[s][n] = "pending" /\ sent'[s][n] # "none"
        \/ sent[s][n] = "success" /\ sent'[s][n] = "reversed"

LEMMA StillVouched ==
    ASSUME SentAdvances, NEW s \in Settlements, NEW n \in Attempts, NEW answer,
           Vouched(sent, s, n, answer)
    PROVE  Vouched(sent', s, n, answer)
BY DEF SentAdvances, Vouched

\* What a step has to establish: its new rows and calls are vouched for, and
\* what it newly pays was paid.
LEMMA StepInv ==
    ASSUME Inv, Typed', SentAdvances, byHand \subseteq byHand',
           \A s \in Settlements, n \in Attempts :
              row'[s][n] = row[s][n] \/ Vouched(sent', s, n, row'[s][n]),
           \A s \in Settlements :
              status'[s] = "paid" =>
                 \/ status[s] = "paid"
                 \/ s \in byHand'
                 \/ \E n \in Attempts : sent'[s][n] \in {"success", "reversed"},
           \A c \in Calls : call'[c] = call[c] \/ Carries(c)'
    PROVE  Inv'
<1>1. RowsVouched'
  BY StillVouched DEF Inv, RowsVouched
<1>2. PaidIsSent'
  <2>1. \A s \in Settlements, n \in Attempts :
           sent[s][n] \in {"success", "reversed"} => sent'[s][n] \in {"success", "reversed"}
    BY DEF SentAdvances
  <2>2. ASSUME NEW s \in Settlements, status'[s] = "paid"
        PROVE  s \in byHand' \/ \E n \in Attempts : sent'[s][n] \in {"success", "reversed"}
    <3>1. status[s] = "paid" =>
             s \in byHand \/ \E n \in Attempts : sent[s][n] \in {"success", "reversed"}
      BY DEF Inv, PaidIsSent
    <3> QED BY <2>1, <2>2, <3>1
  <2> QED BY <2>2 DEF PaidIsSent
<1>3. ASSUME NEW c \in Calls, call'[c] = call[c] PROVE Carries(c)'
  <2>1. Carries(c)
    BY DEF Inv
  <2>2. ASSUME call[c].step \in {"record", "apply"}
        PROVE  Vouched(sent', call[c].settlement, call[c].attempt, call[c].answer)
    <3>1. call[c].settlement \in Settlements /\ call[c].attempt \in Attempts
          /\ Vouched(sent, call[c].settlement, call[c].attempt, call[c].answer)
      BY <2>1, <2>2 DEF Carries
    <3> QED BY <3>1, StillVouched
  <2> QED BY <1>3, <2>1, <2>2 DEF Carries, Vouched
<1> QED BY <1>1, <1>2, <1>3 DEF Inv

-----------------------------------------------------------------------------
\* Steps that change nothing of rows, transfers and calls.
LEMMA QuietInv ==
    ASSUME Inv, UNCHANGED <<row, sent, call>>, byHand \subseteq byHand', Typed',
           \A s \in Settlements : status'[s] = "paid" => status[s] = "paid" \/ s \in byHand'
    PROVE  Inv'
<1>1. SentAdvances
  BY DEF SentAdvances
<1> QED BY <1>1, StepInv

LEMMA WorldInv ==
    ASSUME Inv, NEW o \in Orders, OrderEarned(o) \/ RefundSucceeds(o) PROVE Inv'
<1>1. Typed' /\ UNCHANGED <<row, sent, call, byHand, status>>
  BY DEF Inv, Typed, OrderEarned, RefundSucceeds
<1> QED BY <1>1, QuietInv

LEMMA SettlementInv ==
    ASSUME Inv, NEW s \in Settlements,
           \/ GenerateSettlement(s) \/ ApproveSettlement(s)
           \/ MarkSettlementPaid(s) \/ HoldPasses(s)
    PROVE  Inv'
<1>1. Typed' /\ UNCHANGED <<row, sent, call>> /\ byHand \subseteq byHand'
  BY DEF Inv, Typed, GenerateSettlement, ApproveSettlement, MarkSettlementPaid,
         HoldPasses, world, SettlementStatuses
<1>2. \A t \in Settlements : status'[t] = "paid" => status[t] = "paid" \/ t \in byHand'
  BY DEF Inv, Typed, GenerateSettlement, ApproveSettlement, MarkSettlementPaid, HoldPasses
<1> QED BY <1>1, <1>2, QuietInv

-----------------------------------------------------------------------------
\* A call goes on to k, which is vouched for, and settlements and rows stay.
LEMMA CallInv ==
    ASSUME Inv, NEW c \in Calls, NEW k \in Call, Become(c, k),
           UNCHANGED <<row, byHand, earned>>, status' \in [Settlements -> SettlementStatuses],
           sent' \in [Settlements -> [Attempts -> Transfers]], SentAdvances,
           \A s \in Settlements : status'[s] = "paid" => status[s] = "paid",
           k.step # "idle" => k.settlement \in Settlements,
           k.step \in {"initiate", "record", "apply"} => k.attempt \in Attempts,
           k.step \in {"record", "apply"} => Vouched(sent', k.settlement, k.attempt, k.answer)
    PROVE  Inv'
<1>1. Typed'
  BY DEF Inv, Typed, Become
<1>2. call'[c] = k /\ \A d \in Calls \ {c} : call'[d] = call[d]
  BY DEF Inv, Typed, Become
<1>3. Carries(c)'
  BY <1>2 DEF Carries, Vouched
<1> QED BY <1>1, <1>2, <1>3, StepInv

LEMMA CallFacts ==
    /\ Idle \in Call /\ Idle.step = "idle" /\ Idle.settlement = Nothing
    /\ Idle.attempt = 0 /\ Idle.answer = "none" /\ 1 \in Attempts
    /\ Attempts \subseteq 0..MaxRows
BY PayoutsAssumption DEF Idle, Call, Steps, Transfers, Attempts

\* A call that stops, or that only moves to a statement which carries nothing new.
LEMMA EndInv ==
    ASSUME Inv, NEW c \in Calls, End(c), UNCHANGED <<row, sent, byHand, earned>>,
           status' \in [Settlements -> SettlementStatuses],
           \A s \in Settlements : status'[s] = "paid" => status[s] = "paid"
    PROVE  Inv'
<1>1. SentAdvances /\ sent' \in [Settlements -> [Attempts -> Transfers]]
  BY DEF SentAdvances, Inv, Typed
<1> QED BY <1>1, CallFacts, CallInv DEF End

LEMMA GotoInv ==
    ASSUME Inv, NEW c \in Calls, NEW step \in Steps, Goto(c, step),
           UNCHANGED <<row, byHand, earned, status>>, SentAdvances,
           sent' \in [Settlements -> [Attempts -> Transfers]],
           call[c].step # "idle", step \notin {"initiate", "record", "apply"}
    PROVE  Inv'
<1> DEFINE k == [call[c] EXCEPT !.step = step]
<1>1. k \in Call /\ k.step = step /\ k.settlement \in Settlements
  BY DEF Inv, Typed, Carries, Call
<1>2. Become(c, k) /\ status' \in [Settlements -> SettlementStatuses]
  BY DEF Goto, Inv, Typed
<1> HIDE DEF k
<1> QED BY <1>1, <1>2, CallInv

\* Calls begin.
LEMMA StartInv ==
    ASSUME Inv, NEW c \in Calls, NEW s \in Settlements,
           RequestWithdrawal(c, s) \/ RunPayouts(c, s) \/ PaySettlement(c, s)
    PROVE  Inv'
<1>1. ASSUME NEW by \in {"withdrawal", "run", "admin"},
             Become(c, [Idle EXCEPT !.step = "pay", !.by = by, !.settlement = s]),
             UNCHANGED <<row, sent, byHand, earned>>,
             status' \in [Settlements -> SettlementStatuses],
             \A t \in Settlements : status'[t] = "paid" => status[t] = "paid"
      PROVE  Inv'
  <2> DEFINE k == [Idle EXCEPT !.step = "pay", !.by = by, !.settlement = s]
  <2>1. k \in Call /\ k.step = "pay" /\ k.settlement = s
    BY CallFacts DEF Call, Steps, Idle, Transfers
  <2>2. SentAdvances /\ sent' \in [Settlements -> [Attempts -> Transfers]]
    BY <1>1 DEF SentAdvances, Inv, Typed
  <2>3. Become(c, k)
    BY <1>1
  <2> HIDE DEF k
  <2> QED BY <1>1, <2>1, <2>2, <2>3, CallInv
<1>2. CASE RequestWithdrawal(c, s)
  <2>1. status' = [status EXCEPT ![s] = "approved"] /\ UNCHANGED <<row, sent, byHand, earned>>
        /\ Become(c, [Idle EXCEPT !.step = "pay", !.by = "withdrawal", !.settlement = s])
    BY <1>2 DEF RequestWithdrawal, world
  <2>2. status' \in [Settlements -> SettlementStatuses]
        /\ \A t \in Settlements : status'[t] = "paid" => status[t] = "paid"
    BY <2>1 DEF Inv, Typed, SettlementStatuses
  <2> QED BY <1>1, <2>1, <2>2
<1>3. ASSUME NEW by \in {"run", "admin"}, StartPay(c, s, by) PROVE Inv'
  BY <1>1, <1>3 DEF StartPay, Inv, Typed, world
<1> QED BY <1>2, <1>3 DEF RunPayouts, PaySettlement

LEMMA SweepInv ==
    ASSUME Inv, NEW c \in Calls, NEW s \in Settlements, NEW n \in Attempts,
           SweepPending(c, s, n)
    PROVE  Inv'
<1> DEFINE k == [step |-> "apply", by |-> "sweep", settlement |-> s, attempt |-> n,
                 answer |-> sent[s][n]]
<1>1. k \in Call /\ k.step = "apply" /\ k.settlement = s /\ k.attempt = n
      /\ k.answer = sent[s][n]
  BY CallFacts DEF Call, Steps, Inv, Typed
<1>2. SentAdvances /\ sent' = sent /\ UNCHANGED <<row, byHand, earned, status>>
      /\ Become(c, k)
  BY DEF SweepPending, SentAdvances, world
<1>3. Vouched(sent, s, n, sent[s][n])
  BY DEF SweepPending, Inv, Typed, Transfers, RowsVouched, Vouched
<1>4. sent' \in [Settlements -> [Attempts -> Transfers]]
      /\ status' \in [Settlements -> SettlementStatuses]
  BY <1>2 DEF Inv, Typed
<1> HIDE DEF k
<1> QED BY <1>1, <1>2, <1>3, <1>4, CallInv

-----------------------------------------------------------------------------
(* The statements of a call.                                               *)

LEMMA FindInv ==
    ASSUME Inv, NEW c \in Calls, FindActiveTransfer(c) PROVE Inv'
<1>1. UNCHANGED <<row, sent, byHand, earned, status>> /\ SentAdvances /\ call[c].step = "pay"
  BY DEF FindActiveTransfer, world, SentAdvances
<1>2. sent' \in [Settlements -> [Attempts -> Transfers]]
      /\ status' \in [Settlements -> SettlementStatuses]
  BY <1>1 DEF Inv, Typed
<1>3. CASE End(c)
  BY <1>1, <1>2, <1>3, EndInv
<1>4. CASE Goto(c, "attempt")
  BY <1>1, <1>2, <1>4, GotoInv DEF Steps
<1> QED BY <1>3, <1>4 DEF FindActiveTransfer

LEMMA AttemptInv ==
    ASSUME Inv, NEW c \in Calls, NextAttempt(c) PROVE Inv'
<1>1. PICK n \in Attempts : Become(c, [call[c] EXCEPT !.step = "initiate", !.attempt = n])
  BY DEF NextAttempt
<1> DEFINE k == [call[c] EXCEPT !.step = "initiate", !.attempt = n]
<1>2. k \in Call /\ k.step = "initiate" /\ k.attempt = n /\ k.settlement \in Settlements
  BY CallFacts DEF NextAttempt, Inv, Typed, Carries, Call, Steps
<1>3. UNCHANGED <<row, sent, byHand, earned, status>> /\ SentAdvances /\ Become(c, k)
  BY <1>1 DEF NextAttempt, world, SentAdvances
<1>4. sent' \in [Settlements -> [Attempts -> Transfers]]
      /\ status' \in [Settlements -> SettlementStatuses]
  BY <1>3 DEF Inv, Typed
<1> HIDE DEF k
<1> QED BY <1>2, <1>3, <1>4, CallInv

LEMMA InitiateInv ==
    ASSUME Inv, NEW c \in Calls, InitiateTransfer(c) PROVE Inv'
<1> DEFINE s == call[c].settlement
           n == call[c].attempt
<1>1. s \in Settlements /\ n \in Attempts /\ call[c] \in Call /\ call[c].step = "initiate"
  BY DEF InitiateTransfer, Inv, Typed, Carries
<1>2. UNCHANGED <<row, byHand, earned, status>> /\ status' \in [Settlements -> SettlementStatuses]
  BY DEF InitiateTransfer, world, Inv, Typed
<1>3. ASSUME SentAdvances, sent' \in [Settlements -> [Attempts -> Transfers]],
             OnError(c) \/ End(c)
      PROVE  Inv'
  <2>1. CASE End(c)
    BY <1>2, <1>3, <2>1, CallFacts, CallInv DEF End
  <2>2. CASE Goto(c, "verify")
    BY <1>1, <1>2, <1>3, <2>2, GotoInv DEF Steps
  <2> QED BY <1>3, <2>1, <2>2 DEF OnError
<1>4. CASE sent' = sent /\ (OnError(c) \/ End(c))
  BY <1>3, <1>4 DEF SentAdvances, Inv, Typed
<1>5. ASSUME NEW answer \in {"pending", "success", "failed"}, sent[s][n] = "none",
             sent' = [sent EXCEPT ![s][n] = answer],
             \/ Become(c, [call[c] EXCEPT !.step = "record", !.answer = answer])
             \/ OnError(c)
             \/ End(c)
      PROVE  Inv'
  <2>1. sent' \in [Settlements -> [Attempts -> Transfers]] /\ sent'[s][n] = answer
    BY <1>1, <1>5 DEF Inv, Typed, Transfers
  <2>2. SentAdvances
    BY <1>1, <1>5 DEF SentAdvances, Inv, Typed
  <2> DEFINE k == [call[c] EXCEPT !.step = "record", !.answer = answer]
  <2>3. k \in Call /\ k.step = "record" /\ k.settlement = s /\ k.attempt = n /\ k.answer = answer
    BY <1>1 DEF Call, Steps, Transfers
  <2>4. Vouched(sent', s, n, answer)
    BY <2>1 DEF Vouched
  <2>5. CASE Become(c, k)
    <3> HIDE DEF k, s, n
    <3> QED BY <1>1, <1>2, <2>1, <2>2, <2>3, <2>4, <2>5, CallInv
  <2> QED BY <1>3, <1>5, <2>1, <2>2, <2>5
<1> QED BY <1>4, <1>5 DEF InitiateTransfer

LEMMA VerifyInv ==
    ASSUME Inv, NEW c \in Calls, VerifyTransfer(c) PROVE Inv'
<1> DEFINE s == call[c].settlement
<1>1. s \in Settlements /\ call[c] \in Call /\ call[c].step = "verify"
  BY DEF VerifyTransfer, Inv, Typed, Carries
<1>2. UNCHANGED <<row, sent, byHand, earned, status>> /\ SentAdvances
      /\ status' \in [Settlements -> SettlementStatuses]
      /\ sent' \in [Settlements -> [Attempts -> Transfers]]
  BY DEF VerifyTransfer, world, Inv, Typed, SentAdvances
<1>3. CASE End(c)
  BY <1>2, <1>3, EndInv
<1>4. CASE Goto(c, "release")
  BY <1>1, <1>2, <1>4, GotoInv DEF Steps
<1>5. CASE /\ sent[s][1] # "none"
           /\ Become(c, [call[c] EXCEPT !.step = "record", !.attempt = 1, !.answer = sent[s][1]])
  <2> DEFINE k == [call[c] EXCEPT !.step = "record", !.attempt = 1, !.answer = sent[s][1]]
  <2>1. sent[s][1] \in Transfers
    BY <1>1, CallFacts DEF Inv, Typed
  <2>2. k \in Call /\ k.step = "record" /\ k.settlement = s /\ k.attempt = 1
        /\ k.answer = sent[s][1]
    BY <1>1, <2>1, CallFacts DEF Call, Steps
  <2>3. Vouched(sent', s, 1, sent[s][1])
    BY <1>2, <1>5, <2>1 DEF Vouched, Transfers
  <2>4. Become(c, k)
    BY <1>5
  <2> HIDE DEF k, s
  <2> QED BY <1>1, <1>2, <2>2, <2>3, <2>4, CallFacts, CallInv
<1> QED BY <1>3, <1>4, <1>5 DEF VerifyTransfer

LEMMA CancelInv ==
    ASSUME Inv, NEW c \in Calls, CancelOnDemandSettlement(c) PROVE Inv'
<1>1. UNCHANGED <<row, sent, byHand, earned>> /\ End(c)
  BY DEF CancelOnDemandSettlement, world
<1>2. status' \in [Settlements -> SettlementStatuses]
      /\ \A s \in Settlements : status'[s] = "paid" => status[s] = "paid"
  BY DEF CancelOnDemandSettlement, Inv, Typed, SettlementStatuses
<1> QED BY <1>1, <1>2, EndInv

LEMMA DieInv == ASSUME Inv, NEW c \in Calls, Die(c) PROVE Inv'
<1>1. UNCHANGED <<row, sent, byHand, earned>> /\ End(c)
      /\ status' \in [Settlements -> SettlementStatuses] /\ status' = status
  BY DEF Die, world, Inv, Typed
<1> QED BY <1>1, EndInv

LEMMA RecordInv ==
    ASSUME Inv, NEW c \in Calls, RecordTransfer(c) PROVE Inv'
<1> DEFINE s == call[c].settlement
           n == call[c].attempt
           stored == IF row[s][n] = "none" THEN call[c].answer ELSE row[s][n]
<1>1. s \in Settlements /\ n \in Attempts /\ call[c] \in Call /\ call[c].step = "record"
      /\ Vouched(sent, s, n, call[c].answer)
  BY DEF RecordTransfer, Inv, Typed, Carries
<1>2. UNCHANGED <<sent, byHand, earned, status>> /\ SentAdvances
  BY DEF RecordTransfer, world, SentAdvances
<1>3. Vouched(sent, s, n, stored) /\ stored \in Transfers
  BY <1>1 DEF Inv, RowsVouched, Typed, Call
<1> HIDE DEF stored
<1>4. row' = [row EXCEPT ![s][n] = stored]
  BY DEF RecordTransfer, stored
<1>5. row' \in [Settlements -> [Attempts -> Transfers]]
      /\ \A t \in Settlements, m \in Attempts :
            row'[t][m] = row[t][m] \/ (t = s /\ m = n /\ row'[t][m] = stored)
  BY <1>1, <1>3, <1>4 DEF Inv, Typed
<1> DEFINE k == IF stored = "pending" THEN Idle
                ELSE [call[c] EXCEPT !.step = "apply", !.answer = stored]
<1>6. k \in Call /\ (k.step = "idle" \/ (k.step = "apply" /\ k.settlement = s
                                          /\ k.attempt = n /\ k.answer = stored))
  BY <1>1, <1>3, CallFacts DEF Call, Steps
<1>7. Become(c, k)
  BY DEF RecordTransfer, End, stored
<1>8. call' \in [Calls -> Call] /\ call'[c] = k /\ \A d \in Calls \ {c} : call'[d] = call[d]
  BY <1>6, <1>7 DEF Become, Inv, Typed
<1> HIDE DEF k, s, n
<1>9. Typed'
  BY <1>2, <1>5, <1>8 DEF Inv, Typed
<1>10. Carries(c)'
  BY <1>1, <1>2, <1>3, <1>6, <1>8 DEF Carries
<1>11. \A t \in Settlements, m \in Attempts :
          row'[t][m] = row[t][m] \/ Vouched(sent', t, m, row'[t][m])
  BY <1>2, <1>3, <1>5
<1> QED BY <1>2, <1>8, <1>9, <1>10, <1>11, StepInv

-----------------------------------------------------------------------------
(* Settling.                                                               *)

\* An outcome that is vouched for may be reconciled, whoever brings it.
LEMMA ReconcileInv ==
    ASSUME Inv, NEW s \in Settlements, NEW n \in Attempts, NEW outcome \in Transfers,
           Reconcile(s, n, outcome), Vouched(sent, s, n, outcome),
           UNCHANGED <<sent, byHand, earned>>, call' \in [Calls -> Call],
           \A c \in Calls : call'[c] = call[c] \/ Carries(c)'
    PROVE  Inv'
<1>1. row' \in [Settlements -> [Attempts -> Transfers]]
      /\ \A t \in Settlements, m \in Attempts :
            row'[t][m] = row[t][m] \/ Vouched(sent', t, m, row'[t][m])
  <2>1. CASE row' = row
    BY <2>1 DEF Inv, Typed
  <2>2. CASE row' = [row EXCEPT ![s][n] = outcome]
    <3>1. row' \in [Settlements -> [Attempts -> Transfers]]
          /\ \A t \in Settlements, m \in Attempts :
                row'[t][m] = row[t][m] \/ (t = s /\ m = n /\ row'[t][m] = outcome)
      BY <2>2 DEF Inv, Typed
    <3> QED BY <3>1
  <2> QED BY <2>1, <2>2 DEF Reconcile
<1>2. status' \in [Settlements -> SettlementStatuses]
      /\ \A t \in Settlements :
            status'[t] = "paid" => status[t] = "paid" \/ (t = s /\ outcome = "success")
  BY DEF Reconcile, Inv, Typed, SettlementStatuses
<1>3. outcome = "success" => \E m \in Attempts : sent'[s][m] \in {"success", "reversed"}
  BY DEF Vouched
<1>4. SentAdvances
  BY DEF SentAdvances
<1>5. Typed'
  BY <1>1, <1>2 DEF Inv, Typed
<1> QED BY <1>1, <1>2, <1>3, <1>4, <1>5, StepInv

LEMMA ApplyInv == ASSUME Inv, NEW c \in Calls, ApplyReconcile(c) PROVE Inv'
<1> DEFINE s == call[c].settlement
           n == call[c].attempt
<1>1. s \in Settlements /\ n \in Attempts /\ call[c].answer \in Transfers
      /\ Vouched(sent, s, n, call[c].answer) /\ Reconcile(s, n, call[c].answer)
  BY DEF ApplyReconcile, Inv, Typed, Carries, Call
<1>2. UNCHANGED <<sent, byHand, earned>> /\ call' = [call EXCEPT ![c] = Idle]
  BY DEF ApplyReconcile, End, Become, world
<1>3. call' \in [Calls -> Call]
      /\ \A d \in Calls : call'[d] = call[d] \/ Carries(d)'
  BY <1>2, CallFacts DEF Inv, Typed, Carries
<1> HIDE DEF s, n
<1> QED BY <1>1, <1>2, <1>3, ReconcileInv

LEMMA WebhookInv ==
    ASSUME Inv, NEW s \in Settlements, NEW n \in Attempts, NEW outcome \in Transfers,
           Webhook(s, n, outcome)
    PROVE  Inv'
<1>1. Vouched(sent, s, n, outcome) /\ Reconcile(s, n, outcome)
      /\ UNCHANGED <<sent, byHand, earned, call>>
  BY DEF Webhook, world, Vouched
<1>2. call' \in [Calls -> Call]
  BY <1>1 DEF Inv, Typed
<1> QED BY <1>1, <1>2, ReconcileInv

LEMMA PaystackInv ==
    ASSUME Inv, NEW s \in Settlements, NEW n \in Attempts, PaystackSettles(s, n)
    PROVE  Inv'
<1>1. PICK outcome \in {"success", "failed", "reversed"} :
        /\ IF outcome = "reversed" THEN sent[s][n] = "success" ELSE sent[s][n] = "pending"
        /\ sent' = [sent EXCEPT ![s][n] = outcome]
  BY DEF PaystackSettles
<1>2. SentAdvances /\ sent' \in [Settlements -> [Attempts -> Transfers]]
  BY <1>1 DEF SentAdvances, Inv, Typed, Transfers
<1>3. UNCHANGED <<row, status, byHand, earned, call>>
  BY DEF PaystackSettles, world
<1>4. Typed'
  BY <1>2, <1>3 DEF Inv, Typed
<1> QED BY <1>2, <1>3, <1>4, StepInv

LEMMA NextInv == ASSUME Inv, [Next]_vars PROVE Inv'
<1>1. CASE UNCHANGED vars
  <2>1. Typed' /\ UNCHANGED <<row, sent, call, byHand, status>>
    BY <1>1 DEF vars, Inv, Typed
  <2> QED BY <2>1, QuietInv
<1>2. ASSUME NEW c \in Calls, Step(c) PROVE Inv'
  BY <1>2, FindInv, AttemptInv, InitiateInv, VerifyInv, CancelInv, RecordInv, ApplyInv DEF Step
<1> QED BY <1>1, <1>2, WorldInv, SettlementInv, StartInv, SweepInv, WebhookInv,
           PaystackInv, DieInv DEF Next

-----------------------------------------------------------------------------
\* What public.payout_transfers says of a transfer was true at Paystack, however
\* calls, sweeps, webhooks and deaths interleave (payout.service.ts).
THEOREM TransferRowsAreTrue == Spec => []RowsAreTrue
<1>1. Init => Inv
  BY InitInv
<1>2. Inv /\ [Next]_vars => Inv'
  BY NextInv
<1>3. Inv => RowsAreTrue
  BY RowsTrue
<1> QED BY <1>1, <1>2, <1>3, PTL DEF Spec

\* A settlement reads paid only if its money went out, or an administrator says so
\* (reconcile_payout_transfer, setSettlementStatus).
THEOREM PaidSettlementsAreSent == Spec => []PaidIsSent
<1>1. Init => Inv
  BY InitInv
<1>2. Inv /\ [Next]_vars => Inv'
  BY NextInv
<1>3. Inv => PaidIsSent
  BY DEF Inv
<1> QED BY <1>1, <1>2, <1>3, PTL DEF Spec

\* So neither payout_transfers nor settlements says more than happened, whichever
\* of call, sweep, webhook and administrator wrote last (payout.service.ts).
THEOREM TablesTellTheTruth == Spec => []TablesAreTrue
<1>1. RowsAreTrue /\ PaidIsSent => TablesAreTrue
  BY DEF TablesAreTrue
<1> QED BY <1>1, TransferRowsAreTrue, PaidSettlementsAreSent, PTL

-----------------------------------------------------------------------------
(* One payment at a time, when calls that pay one settlement do not overlap. *)

\* Whoever pays a settlement is alone with it, but for the sweep, which only
\* settles; and nobody is at a settlement that does not exist yet.
Alone ==
    /\ \A c \in Calls : call[c].by = "sweep" => call[c].step = "apply"
    /\ \A c, d \in Calls :
          /\ call[c].settlement \in Settlements
          /\ call[c].settlement = call[d].settlement
          /\ call[c].by # "sweep" /\ call[d].by # "sweep"
          => c = d
    /\ \A s \in Settlements :
          status[s] = "none" =>
             /\ \A n \in Attempts : sent[s][n] = "none"
             /\ \A c \in Calls : call[c].settlement # s

\* Attempts are sent in order, each after those before it are on the books,
\* and one of them at most is on its way.
Trail(s) ==
    /\ \A m, k \in Attempts : k < m /\ sent[s][m] # "none" => row[s][k] # "none"
    /\ \A m, k \in InTransit(s) : m = k

\* A call about to send knows that no attempt on the books is on its way, and
\* sends the first attempt that is not on the books.
Clear(c) ==
    LET k == call[c] IN
    /\ k.step \in {"attempt", "initiate"} =>
          \A m \in Attempts : row[k.settlement][m] # "none" => m \notin InTransit(k.settlement)
    /\ k.step = "initiate" =>
          /\ row[k.settlement][k.attempt] = "none"
          /\ \A m \in Attempts : m < k.attempt => row[k.settlement][m] # "none"

OnceInv ==
    /\ Inv
    /\ Alone
    /\ \A s \in Settlements : Trail(s)
    /\ \A c \in Calls : Clear(c)

\* Steps that send nothing and put nothing new on the books.
SameShape ==
    \A s \in Settlements, n \in Attempts :
        /\ row'[s][n] = "none" <=> row[s][n] = "none"
        /\ sent'[s][n] # "none" => sent[s][n] # "none"
        /\ sent'[s][n] \in {"pending", "success"} => sent[s][n] \in {"pending", "success"}

LEMMA ShapeKept ==
    ASSUME OnceInv, SameShape
    PROVE  /\ \A s \in Settlements : Trail(s)'
           /\ \A c \in Calls : call'[c] = call[c] => Clear(c)'
<1>1. ASSUME NEW s \in Settlements PROVE Trail(s)'
  BY DEF OnceInv, Trail, SameShape, InTransit
<1>2. ASSUME NEW c \in Calls, call'[c] = call[c] PROVE Clear(c)'
  <2>1. Clear(c)
    BY DEF OnceInv
  <2>2. call[c].step \in {"attempt", "initiate"} => call[c].settlement \in Settlements
    BY DEF OnceInv, Inv, Carries
  <2>3. call[c].step = "initiate" => call[c].attempt \in Attempts
    BY DEF OnceInv, Inv, Carries
  <2> QED BY <1>2, <2>1, <2>2, <2>3 DEF Clear, SameShape, InTransit
<1> QED BY <1>1, <1>2

\* Steps of nobody in particular.
LEMMA QuietOnce ==
    ASSUME OnceInv, Inv', SameShape, call' = call,
           \A s \in Settlements : status'[s] = "none" => status[s] = "none"
    PROVE  OnceInv'
<1>1. Alone'
  BY DEF OnceInv, Alone, SameShape
<1> QED BY <1>1, ShapeKept DEF OnceInv

\* Call c goes on to k, which is at a settlement of its own, or is a sweep's.
LEMMA CallOnce ==
    ASSUME OnceInv, Inv', SameShape, NEW c \in Calls, NEW k \in Call, Become(c, k),
           \A s \in Settlements :
              status'[s] = "none" => status[s] = "none" /\ k.settlement # s,
           k.by = "sweep" => k.step = "apply",
           k.by # "sweep" /\ k.settlement \in Settlements =>
              \A d \in Calls \ {c} :
                 call[d].settlement = k.settlement => call[d].by = "sweep",
           Clear(c)'
    PROVE  OnceInv'
<1>1. call'[c] = k /\ \A d \in Calls \ {c} : call'[d] = call[d]
  BY DEF Become, OnceInv, Inv, Typed
<1>2. Alone'
  <2>1. \A d \in Calls : call'[d].by = "sweep" => call'[d].step = "apply"
    BY <1>1 DEF OnceInv, Alone
  <2>2. ASSUME NEW d \in Calls, NEW e \in Calls, call'[d].settlement \in Settlements,
               call'[d].settlement = call'[e].settlement,
               call'[d].by # "sweep", call'[e].by # "sweep"
        PROVE  d = e
    BY <1>1, <2>2 DEF OnceInv, Alone
  <2>3. ASSUME NEW s \in Settlements, status'[s] = "none"
        PROVE  /\ \A n \in Attempts : sent'[s][n] = "none"
               /\ \A d \in Calls : call'[d].settlement # s
    BY <1>1, <2>3 DEF OnceInv, Alone, SameShape
  <2> QED BY <2>1, <2>2, <2>3 DEF Alone
<1>3. \A d \in Calls : Clear(d)'
  BY <1>1, ShapeKept
<1> QED BY <1>2, <1>3, ShapeKept DEF OnceInv

\* A call that goes on at its settlement, or ends.
LEMMA GoOnOnce ==
    ASSUME OnceInv, Inv', SameShape, NEW c \in Calls, NEW k \in Call, Become(c, k),
           \A s \in Settlements : status'[s] = "none" => status[s] = "none",
           \/ k = Idle
           \/ /\ k.settlement = call[c].settlement /\ k.by = call[c].by
              /\ call[c].step # "idle" /\ call[c].step # "apply",
           Clear(c)'
    PROVE  OnceInv'
<1>1. CASE k = Idle
  <2>1. k.by = "nobody" /\ k.settlement \notin Settlements
    BY <1>1, PayoutsAssumption DEF Idle
  <2> QED BY <2>1, CallOnce
<1>2. CASE /\ k.settlement = call[c].settlement /\ k.by = call[c].by
           /\ call[c].step # "idle" /\ call[c].step # "apply"
  <2>1. k.by # "sweep" /\ k.settlement \in Settlements
    BY <1>2 DEF OnceInv, Alone, Inv, Carries
  <2>2. \A d \in Calls \ {c} : call[d].settlement = k.settlement => call[d].by = "sweep"
    BY <1>2, <2>1 DEF OnceInv, Alone
  <2>3. \A s \in Settlements : status[s] = "none" => k.settlement # s
    BY <1>2 DEF OnceInv, Alone
  <2> QED BY <2>1, <2>2, <2>3, CallOnce
<1> QED BY <1>1, <1>2

LEMMA SameIsShape == ASSUME UNCHANGED <<row, sent>> PROVE SameShape
BY DEF SameShape

LEMMA WorldOnce ==
    ASSUME OnceInv, NEW o \in Orders, OrderEarned(o) \/ RefundSucceeds(o)
    PROVE  OnceInv'
<1>1. UNCHANGED <<row, sent, call, status>> /\ Inv'
  BY WorldInv DEF OnceInv, OrderEarned, RefundSucceeds
<1> QED BY <1>1, SameIsShape, QuietOnce

LEMMA SettlementOnce ==
    ASSUME OnceInv, NEW s \in Settlements,
           \/ GenerateSettlement(s) \/ ApproveSettlement(s)
           \/ MarkSettlementPaid(s) \/ HoldPasses(s)
    PROVE  OnceInv'
<1>1. UNCHANGED <<row, sent, call>> /\ Inv'
  BY SettlementInv DEF OnceInv, GenerateSettlement, ApproveSettlement,
     MarkSettlementPaid, HoldPasses
<1>2. \A t \in Settlements : status'[t] = "none" => status[t] = "none"
  BY DEF OnceInv, Inv, Typed, GenerateSettlement, ApproveSettlement,
     MarkSettlementPaid, HoldPasses
<1> QED BY <1>1, <1>2, SameIsShape, QuietOnce

LEMMA StartOnce ==
    ASSUME OnceInv, Overlap = FALSE, NEW c \in Calls, NEW s \in Settlements,
           RequestWithdrawal(c, s) \/ RunPayouts(c, s) \/ PaySettlement(c, s)
    PROVE  OnceInv'
<1>0. Inv' /\ SameShape
  BY StartInv DEF OnceInv, RequestWithdrawal, RunPayouts, PaySettlement, StartPay, SameShape
<1>1. ASSUME NEW by \in {"withdrawal", "run", "admin"},
             Become(c, [Idle EXCEPT !.step = "pay", !.by = by, !.settlement = s]),
             \A d \in Calls : call[d].settlement # s,
             \A t \in Settlements : status'[t] = "none" => status[t] = "none" /\ t # s
      PROVE  OnceInv'
  <2> DEFINE k == [Idle EXCEPT !.step = "pay", !.by = by, !.settlement = s]
  <2>1. k \in Call /\ k.step = "pay" /\ k.settlement = s /\ k.by = by
    BY CallFacts DEF Call, Steps, Idle, Transfers
  <2>2. Become(c, k)
    BY <1>1
  <2> HIDE DEF k
  <2>3. Clear(c)'
    BY <2>1, <2>2 DEF Clear, Become, OnceInv, Inv, Typed
  <2> QED BY <1>0, <1>1, <2>1, <2>2, <2>3, CallOnce
<1>2. CASE RequestWithdrawal(c, s)
  <2>1. /\ status[s] = "none" /\ status' = [status EXCEPT ![s] = "approved"]
        /\ Become(c, [Idle EXCEPT !.step = "pay", !.by = "withdrawal", !.settlement = s])
    BY <1>2 DEF RequestWithdrawal
  <2>2. \A d \in Calls : call[d].settlement # s
    BY <2>1 DEF OnceInv, Alone
  <2>3. \A t \in Settlements : status'[t] = "none" => status[t] = "none" /\ t # s
    BY <2>1 DEF OnceInv, Inv, Typed
  <2> QED BY <1>1, <2>1, <2>2, <2>3
<1>3. ASSUME NEW by \in {"run", "admin"}, StartPay(c, s, by), status[s] # "none" PROVE OnceInv'
  BY <1>1, <1>3 DEF StartPay
<1> QED BY <1>2, <1>3, PayoutsAssumption DEF RunPayouts, PaySettlement

LEMMA SweepOnce ==
    ASSUME OnceInv, NEW c \in Calls, NEW s \in Settlements, NEW n \in Attempts,
           SweepPending(c, s, n)
    PROVE  OnceInv'
<1> DEFINE k == [step |-> "apply", by |-> "sweep", settlement |-> s, attempt |-> n,
                 answer |-> sent[s][n]]
<1>1. k \in Call /\ k.step = "apply" /\ k.by = "sweep" /\ k.settlement = s
  BY CallFacts DEF Call, Steps, OnceInv, Inv, Typed
<1>2. Become(c, k) /\ UNCHANGED <<row, sent, status>> /\ Inv'
  BY SweepInv DEF SweepPending, OnceInv
<1>3. row[s][n] = "pending"
  BY DEF SweepPending
<1> HIDE DEF k
<1>4. status[s] # "none"
  BY <1>3 DEF OnceInv, Alone, Inv, RowsVouched, Vouched
<1>5. Clear(c)'
  BY <1>1, <1>2 DEF Clear, Become, OnceInv, Inv, Typed
<1> QED BY <1>1, <1>2, <1>4, <1>5, SameIsShape, CallOnce

LEMMA FindOnce == ASSUME OnceInv, NEW c \in Calls, FindActiveTransfer(c) PROVE OnceInv'
<1>1. UNCHANGED <<row, sent, status>> /\ Inv' /\ call[c].step = "pay"
      /\ call[c] \in Call /\ call[c].settlement \in Settlements
  BY FindInv DEF FindActiveTransfer, OnceInv, Inv, Typed, Carries
<1>2. CASE End(c)
  <2>1. Become(c, Idle) /\ Clear(c)'
    BY <1>1, <1>2, CallFacts DEF End, Clear, Become, OnceInv, Inv, Typed
  <2> QED BY <1>1, <2>1, CallFacts, SameIsShape, GoOnOnce
<1>3. CASE Active(call[c].settlement) = {} /\ Goto(c, "attempt")
  <2> DEFINE k == [call[c] EXCEPT !.step = "attempt"]
  <2>1. k \in Call /\ k.step = "attempt" /\ k.settlement = call[c].settlement
        /\ k.by = call[c].by
    BY <1>1 DEF Call, Steps
  <2>2. Become(c, k)
    BY <1>3 DEF Goto
  <2> HIDE DEF k
  <2>3. call'[c] = k
    BY <2>2 DEF Become, OnceInv, Inv, Typed
  <2>4. \A m \in Attempts : row[k.settlement][m] # "none" => m \notin InTransit(k.settlement)
    BY <1>1, <1>3, <2>1 DEF Active, InTransit, OnceInv, Inv, Typed, RowsVouched, Vouched, Transfers
  <2>5. Clear(c)'
    BY <1>1, <2>1, <2>3, <2>4 DEF Clear, InTransit
  <2> QED BY <1>1, <2>1, <2>2, <2>5, SameIsShape, GoOnOnce
<1> QED BY <1>2, <1>3 DEF FindActiveTransfer

LEMMA AttemptOnce == ASSUME OnceInv, NEW c \in Calls, NextAttempt(c) PROVE OnceInv'
<1> DEFINE s == call[c].settlement
           recorded == {m \in Attempts : row[s][m] # "none"}
<1>1. UNCHANGED <<row, sent, status>> /\ Inv' /\ call[c].step = "attempt"
      /\ call[c] \in Call /\ s \in Settlements
  BY AttemptInv DEF NextAttempt, OnceInv, Inv, Typed, Carries
<1>2. PICK n \in Attempts :
         /\ n - 1 \in recorded \cup {0}
         /\ \A m \in recorded : m < n
         /\ Become(c, [call[c] EXCEPT !.step = "initiate", !.attempt = n])
  BY DEF NextAttempt
<1> DEFINE k == [call[c] EXCEPT !.step = "initiate", !.attempt = n]
<1>3. k \in Call /\ k.step = "initiate" /\ k.attempt = n /\ k.settlement = s /\ k.by = call[c].by
  BY <1>1, CallFacts DEF Call, Steps
<1>4. row[s][n] = "none"
  BY <1>2 DEF Attempts
<1>5. ASSUME NEW m \in Attempts, m < n PROVE row[s][m] # "none"
  <2>1. m = n - 1 \/ m < n - 1
    BY <1>5 DEF Attempts
  <2>2. n - 1 \in recorded
    BY <1>2, <1>5 DEF Attempts
  <2>3. sent[s][n - 1] # "none"
    BY <1>1, <2>2 DEF OnceInv, Inv, RowsVouched, Vouched
  <2>4. m < n - 1 => row[s][m] # "none"
    BY <1>1, <2>2, <2>3 DEF OnceInv, Trail
  <2> QED BY <2>1, <2>2, <2>4
<1>6. \A m \in Attempts : row[s][m] # "none" => m \notin InTransit(s)
  BY <1>1 DEF OnceInv, Clear
<1>7. Become(c, k)
  BY <1>2
<1> HIDE DEF k, s
<1>8. call'[c] = k
  BY <1>7 DEF Become, OnceInv, Inv, Typed
<1>9. Clear(c)'
  BY <1>1, <1>3, <1>4, <1>5, <1>6, <1>8 DEF Clear, InTransit
<1> QED BY <1>1, <1>3, <1>7, <1>9, SameIsShape, GoOnOnce DEF s

\* A call that sends nothing and goes where nothing has to be known.
LEMMA AsideOnce ==
    ASSUME OnceInv, Inv', UNCHANGED <<row, sent>>, NEW c \in Calls, NEW k \in Call,
           Become(c, k), k.step \notin {"attempt", "initiate"},
           \A s \in Settlements : status'[s] = "none" => status[s] = "none",
           \/ k = Idle
           \/ /\ k.settlement = call[c].settlement /\ k.by = call[c].by
              /\ call[c].step # "idle" /\ call[c].step # "apply"
    PROVE  OnceInv'
<1>1. Clear(c)'
  BY DEF Clear, Become, OnceInv, Inv, Typed
<1> QED BY <1>1, SameIsShape, GoOnOnce

LEMMA VerifyOnce == ASSUME OnceInv, NEW c \in Calls, VerifyTransfer(c) PROVE OnceInv'
<1>1. UNCHANGED <<row, sent, status>> /\ Inv' /\ call[c].step = "verify" /\ call[c] \in Call
      /\ sent[call[c].settlement][1] \in Transfers
  BY VerifyInv, CallFacts DEF VerifyTransfer, OnceInv, Inv, Typed, Carries
<1>2. CASE End(c)
  BY <1>1, <1>2, CallFacts, AsideOnce DEF End
<1>3. ASSUME NEW k \in Call, Become(c, k), k.step \notin {"attempt", "initiate"},
             k.settlement = call[c].settlement, k.by = call[c].by
      PROVE  OnceInv'
  BY <1>1, <1>3, AsideOnce
<1>4. CASE Goto(c, "release")
  <2>1. [call[c] EXCEPT !.step = "release"] \in Call
    BY <1>1 DEF Call, Steps
  <2> QED BY <1>1, <1>3, <1>4, <2>1 DEF Goto, Call
<1>5. CASE Become(c, [call[c] EXCEPT !.step = "record", !.attempt = 1,
                      !.answer = sent[call[c].settlement][1]])
  <2>1. [call[c] EXCEPT !.step = "record", !.attempt = 1,
                        !.answer = sent[call[c].settlement][1]] \in Call
    BY <1>1, CallFacts DEF Call, Steps
  <2> QED BY <1>1, <1>3, <1>5, <2>1 DEF Call
<1> QED BY <1>2, <1>4, <1>5 DEF VerifyTransfer

LEMMA EndOnce ==
    ASSUME OnceInv, NEW c \in Calls, CancelOnDemandSettlement(c) \/ Die(c) PROVE OnceInv'
<1>1. UNCHANGED <<row, sent>> /\ Inv' /\ Become(c, Idle)
  BY CancelInv, DieInv DEF CancelOnDemandSettlement, Die, End, OnceInv
<1>2. \A s \in Settlements : status'[s] = "none" => status[s] = "none"
  BY DEF CancelOnDemandSettlement, Die, OnceInv, Inv, Typed
<1> QED BY <1>1, <1>2, CallFacts, AsideOnce

\* A transfer is sent only by a call that is alone with its settlement and found
\* nothing on its way.
LEMMA InitiateOnce == ASSUME OnceInv, NEW c \in Calls, InitiateTransfer(c) PROVE OnceInv'
<1> DEFINE s == call[c].settlement
           n == call[c].attempt
<1>1. /\ UNCHANGED <<row, status>> /\ Inv' /\ call[c].step = "initiate" /\ call[c] \in Call
      /\ s \in Settlements /\ n \in Attempts /\ Clear(c)
  BY InitiateInv DEF InitiateTransfer, OnceInv, Inv, Typed, Carries
<1>2. PICK k \in Call :
         /\ Become(c, k)
         /\ k.step \in {"idle", "verify", "record"}
         /\ k = Idle \/ (k.settlement = s /\ k.by = call[c].by)
  <2>1. [call[c] EXCEPT !.step = "verify"] \in Call
    BY <1>1 DEF Call, Steps
  <2>2. \A answer \in {"pending", "success", "failed"} :
           [call[c] EXCEPT !.step = "record", !.answer = answer] \in Call
    BY <1>1 DEF Call, Steps, Transfers
  <2>3. CASE End(c)
    BY <2>3, CallFacts DEF End
  <2>4. CASE Goto(c, "verify")
    BY <1>1, <2>1, <2>4 DEF Goto, Call
  <2>5. CASE \E answer \in {"pending", "success", "failed"} :
                Become(c, [call[c] EXCEPT !.step = "record", !.answer = answer])
    BY <1>1, <2>2, <2>5 DEF Call
  <2> QED BY <2>3, <2>4, <2>5 DEF InitiateTransfer, OnError
<1>3. CASE sent' = sent
  BY <1>1, <1>2, <1>3, AsideOnce
<1>4. ASSUME NEW answer \in {"pending", "success", "failed"}, sent[s][n] = "none",
             sent' = [sent EXCEPT ![s][n] = answer]
      PROVE  OnceInv'
  <2>1. /\ sent'[s][n] = answer
        /\ \A t \in Settlements, m \in Attempts : t # s \/ m # n => sent'[t][m] = sent[t][m]
    BY <1>1, <1>4 DEF OnceInv, Inv, Typed
  <2>2. call'[c] = k /\ \A d \in Calls \ {c} : call'[d] = call[d]
    BY <1>2 DEF Become, OnceInv, Inv, Typed
  <2>3. /\ row[s][n] = "none"
        /\ \A m \in Attempts : m < n => row[s][m] # "none"
        /\ \A m \in Attempts : row[s][m] # "none" => m \notin InTransit(s)
        /\ call[c].by # "sweep"
    BY <1>1 DEF Clear, OnceInv, Alone
  <2>4. \A d \in Calls \ {c} : call[d].settlement = s => call[d].by = "sweep"
    BY <1>1, <2>3 DEF OnceInv, Alone
  <2>5. InTransit(s) = {}
    <3> SUFFICES ASSUME NEW m \in InTransit(s) PROVE FALSE
      OBVIOUS
    <3>1. m \in Attempts /\ row[s][m] = "none" /\ sent[s][m] # "none"
      BY <2>3 DEF InTransit
    <3>2. m # n /\ ~(m < n)
      BY <1>4, <2>3, <3>1
    <3>3. n < m
      BY <1>1, <3>1, <3>2 DEF Attempts
    <3> QED BY <1>1, <2>3, <3>1, <3>3 DEF OnceInv, Trail
  <2>6. Alone'
    <3>1. status[s] # "none"
      BY <1>1 DEF OnceInv, Alone
    <3>2. \A d, e \in Calls :
             /\ call'[d].settlement \in Settlements
             /\ call'[d].settlement = call'[e].settlement
             /\ call'[d].by # "sweep" /\ call'[e].by # "sweep"
             => d = e
      BY <1>1, <1>2, <2>2, <2>4, PayoutsAssumption DEF OnceInv, Alone, Idle
    <3>3. \A t \in Settlements : status'[t] = "none" =>
             /\ \A m \in Attempts : sent'[t][m] = "none"
             /\ \A d \in Calls : call'[d].settlement # t
      BY <1>1, <1>2, <2>1, <2>2, <3>1, PayoutsAssumption DEF OnceInv, Alone, Idle
    <3>4. \A d \in Calls : call'[d].by = "sweep" => call'[d].step = "apply"
      BY <1>2, <2>2, <2>3 DEF OnceInv, Alone, Idle
    <3> QED BY <3>2, <3>3, <3>4 DEF Alone
  <2>7. ASSUME NEW t \in Settlements PROVE Trail(t)'
    <3>1. CASE t # s
      BY <1>1, <2>1, <3>1 DEF OnceInv, Trail, InTransit
    <3>2. CASE t = s
      <4>1. \A m, j \in Attempts : j < m /\ sent'[s][m] # "none" => row'[s][j] # "none"
        BY <1>1, <2>1, <2>3 DEF OnceInv, Trail
      <4>2. \A m \in Attempts : sent'[s][m] \in {"pending", "success"} => m = n
        BY <1>1, <2>1, <2>5 DEF InTransit
      <4> HIDE DEF s
      <4> QED BY <3>2, <4>1, <4>2 DEF Trail, InTransit
    <3> QED BY <3>1, <3>2
  <2>8. ASSUME NEW d \in Calls PROVE Clear(d)'
    <3>1. CASE d = c
      BY <1>2, <2>2, <3>1 DEF Clear
    <3>2. CASE d # c
      <4>1. call'[d] = call[d] /\ Clear(d)
        BY <2>2, <3>2 DEF OnceInv
      <4>2. call[d].step \in {"attempt", "initiate"} =>
               call[d].settlement \in Settlements /\ call[d].settlement # s
        BY <2>4, <3>2 DEF OnceInv, Inv, Carries, Alone
      <4>3. call[d].step = "initiate" => call[d].attempt \in Attempts
        BY DEF OnceInv, Inv, Carries
      <4> QED BY <1>1, <2>1, <4>1, <4>2, <4>3 DEF Clear, InTransit
    <3> QED BY <3>1, <3>2
  <2> QED BY <1>1, <2>6, <2>7, <2>8 DEF OnceInv
<1> QED BY <1>1, <1>3, <1>4 DEF InitiateTransfer

\* The row of a transfer is written after those of the attempts before it.
LEMMA RecordOnce == ASSUME OnceInv, NEW c \in Calls, RecordTransfer(c) PROVE OnceInv'
<1> DEFINE s == call[c].settlement
           n == call[c].attempt
           stored == IF row[s][n] = "none" THEN call[c].answer ELSE row[s][n]
<1>1. /\ UNCHANGED <<sent, status>> /\ Inv' /\ call[c].step = "record" /\ call[c] \in Call
      /\ s \in Settlements /\ n \in Attempts
      /\ call[c].answer \in Transfers \ {"none"}
  BY RecordInv DEF RecordTransfer, OnceInv, Inv, Typed, Carries, Vouched, Call
<1>0. stored \in Transfers \ {"none"}
  BY <1>1 DEF OnceInv, Inv, Typed
<1>2. row' = [row EXCEPT ![s][n] = stored]
  BY DEF RecordTransfer
<1>3. PICK k \in Call : /\ Become(c, k)
                        /\ k.step \in {"idle", "apply"}
                        /\ k = Idle \/ (k.settlement = s /\ k.by = call[c].by)
  <2>1. [call[c] EXCEPT !.step = "apply", !.answer = stored] \in Call
    BY <1>0, <1>1 DEF Call, Steps
  <2> QED BY <1>1, <2>1, CallFacts DEF RecordTransfer, End, Call
<1> HIDE DEF stored
<1>4. \A t \in Settlements, m \in Attempts :
         /\ row'[t][m] = row[t][m] \/ (t = s /\ m = n)
         /\ row[t][m] # "none" => row'[t][m] # "none"
  BY <1>0, <1>1, <1>2 DEF OnceInv, Inv, Typed
<1>5. call'[c] = k /\ \A d \in Calls \ {c} : call'[d] = call[d]
  BY <1>3 DEF Become, OnceInv, Inv, Typed
<1>6. call[c].by # "sweep" /\ status[s] # "none"
  BY <1>1 DEF OnceInv, Alone
<1>7. \A d \in Calls \ {c} : call[d].settlement = s => call[d].by = "sweep"
  BY <1>1, <1>6 DEF OnceInv, Alone
<1>8. Alone'
  <2>1. \A d, e \in Calls :
           /\ call'[d].settlement \in Settlements
           /\ call'[d].settlement = call'[e].settlement
           /\ call'[d].by # "sweep" /\ call'[e].by # "sweep"
           => d = e
    BY <1>1, <1>3, <1>5, <1>7, PayoutsAssumption DEF OnceInv, Alone, Idle
  <2>2. \A t \in Settlements : status'[t] = "none" =>
           /\ \A m \in Attempts : sent'[t][m] = "none"
           /\ \A d \in Calls : call'[d].settlement # t
    BY <1>1, <1>3, <1>5, <1>6, PayoutsAssumption DEF OnceInv, Alone, Idle
  <2>3. \A d \in Calls : call'[d].by = "sweep" => call'[d].step = "apply"
    BY <1>3, <1>5, <1>6 DEF OnceInv, Alone, Idle
  <2> QED BY <2>1, <2>2, <2>3 DEF Alone
<1>9. \A t \in Settlements : Trail(t)'
  BY <1>1, <1>4 DEF OnceInv, Trail, InTransit
<1>10. ASSUME NEW d \in Calls PROVE Clear(d)'
  <2>1. CASE d = c
    BY <1>3, <1>5, <2>1 DEF Clear
  <2>2. CASE d # c
    <3>1. call'[d] = call[d] /\ Clear(d)
      BY <1>5, <2>2 DEF OnceInv
    <3>2. call[d].step \in {"attempt", "initiate"} =>
             call[d].settlement \in Settlements /\ call[d].settlement # s
      BY <1>7, <2>2 DEF OnceInv, Inv, Carries, Alone
    <3>3. call[d].step = "initiate" => call[d].attempt \in Attempts
      BY DEF OnceInv, Inv, Carries
    <3> QED BY <1>1, <1>4, <3>1, <3>2, <3>3 DEF Clear, InTransit
  <2> QED BY <2>1, <2>2
<1> QED BY <1>1, <1>8, <1>9, <1>10 DEF OnceInv

\* Reconciling writes rows that exist, and never returns a settlement to none.
LEMMA ReconcileShape ==
    ASSUME OnceInv, NEW s \in Settlements, NEW n \in Attempts, NEW outcome \in Transfers,
           outcome # "none", Reconcile(s, n, outcome), sent' = sent
    PROVE  SameShape /\ \A t \in Settlements : status'[t] = "none" => status[t] = "none"
BY DEF OnceInv, Inv, Typed, Reconcile, SameShape

LEMMA ApplyOnce == ASSUME OnceInv, NEW c \in Calls, ApplyReconcile(c) PROVE OnceInv'
<1> DEFINE s == call[c].settlement
           n == call[c].attempt
<1>1. /\ s \in Settlements /\ n \in Attempts /\ call[c].answer \in Transfers \ {"none"}
      /\ Reconcile(s, n, call[c].answer) /\ sent' = sent /\ Become(c, Idle) /\ Inv'
  BY ApplyInv DEF ApplyReconcile, OnceInv, Inv, Typed, Carries, Call, Vouched, End
<1>2. SameShape /\ \A t \in Settlements : status'[t] = "none" => status[t] = "none"
  BY <1>1, ReconcileShape
<1>3. Clear(c)'
  BY <1>1, CallFacts DEF Clear, Become, OnceInv, Inv, Typed
<1> QED BY <1>1, <1>2, <1>3, CallFacts, GoOnOnce

LEMMA WebhookOnce ==
    ASSUME OnceInv, NEW s \in Settlements, NEW n \in Attempts, NEW outcome \in Transfers,
           Webhook(s, n, outcome)
    PROVE  OnceInv'
<1>1. outcome # "none" /\ Reconcile(s, n, outcome) /\ UNCHANGED <<sent, call>> /\ Inv'
  BY WebhookInv DEF Webhook, OnceInv
<1> QED BY <1>1, ReconcileShape, QuietOnce

LEMMA PaystackOnce ==
    ASSUME OnceInv, NEW s \in Settlements, NEW n \in Attempts, PaystackSettles(s, n)
    PROVE  OnceInv'
<1>1. UNCHANGED <<row, status, call>> /\ Inv'
  BY PaystackInv DEF PaystackSettles, OnceInv
<1>2. SameShape
  BY DEF PaystackSettles, SameShape, OnceInv, Inv, Typed
<1> QED BY <1>1, <1>2, QuietOnce

LEMMA OnceInit == Init => OnceInv
<1> SUFFICES ASSUME Init PROVE OnceInv
  OBVIOUS
<1>1. /\ \A c \in Calls : call[c] = Idle
      /\ \A s \in Settlements, n \in Attempts : sent[s][n] = "none"
      /\ Idle.settlement \notin Settlements /\ Idle.by = "nobody" /\ Idle.step = "idle"
  BY PayoutsAssumption DEF Init, Idle
<1> QED BY <1>1, InitInv DEF OnceInv, Alone, Trail, Clear, InTransit

LEMMA OnceNext == ASSUME Overlap = FALSE, OnceInv, [Next]_vars PROVE OnceInv'
<1>1. CASE UNCHANGED vars
  <2>1. Inv' /\ UNCHANGED <<row, sent, call, status>>
    BY <1>1, NextInv DEF vars, OnceInv
  <2> QED BY <2>1, SameIsShape, QuietOnce
<1>2. ASSUME NEW c \in Calls, Step(c) \/ Die(c) PROVE OnceInv'
  BY <1>2, FindOnce, AttemptOnce, InitiateOnce, VerifyOnce, EndOnce, RecordOnce, ApplyOnce
     DEF Step
<1> QED BY <1>1, <1>2, WorldOnce, SettlementOnce, StartOnce, SweepOnce, WebhookOnce,
           PaystackOnce DEF Next

\* As long as no two calls pay one settlement at once, no settlement has two
\* transfers pending or successful, for any number of attempts, lost answers,
\* deaths and reversals (payout.service.ts: "never re-paid").
THEOREM SettlementsPaidOnce ==
    ASSUME Overlap = FALSE PROVE Spec => []OnePaymentPerSettlement
<1>1. Init => OnceInv
  BY OnceInit
<1>2. OnceInv /\ [Next]_vars => OnceInv'
  BY OnceNext
<1>3. OnceInv => OnePaymentPerSettlement
  <2> SUFFICES ASSUME OnceInv, NEW s \in Settlements
               PROVE  Cardinality(InTransit(s)) <= 1
    BY DEF OnePaymentPerSettlement
  <2>1. CASE InTransit(s) = {}
    BY <2>1, FS_EmptySet
  <2>2. ASSUME NEW m \in InTransit(s) PROVE Cardinality(InTransit(s)) <= 1
    <3>1. InTransit(s) = {m}
      BY DEF OnceInv, Trail
    <3> QED BY <3>1, FS_Singleton
  <2> QED BY <2>1, <2>2
<1> QED BY <1>1, <1>2, <1>3, PTL DEF Spec

-----------------------------------------------------------------------------
(* No credit is withdrawn twice.                                           *)

\* Nothing was or will be paid for the withdrawal, unless it is sent again.
Over(s) ==
    \/ sent[s][1] = "failed"
    \/ sent[s][1] = "none" /\ \A c \in Calls : call[c].settlement # s

\* A withdrawal is released only unsent, and settled only by a final answer.
Ready(c) ==
    LET k == call[c] IN
    /\ k.step = "release" => sent[k.settlement][1] = "none"
    /\ k.step = "apply" => k.answer # "pending"

ClaimInv ==
    /\ OnceInv
    /\ credits \in [Settlements -> SUBSET Orders]
    /\ \A s \in Settlements :
          credits[s] \subseteq IF s \in Daily THEN Backlog ELSE Orders \ Backlog
    /\ \A s \in Daily : status[s] # "cancelled"
    /\ \A s \in Settlements \ Retried : status[s] = "cancelled" => Over(s)
    /\ \A c \in Calls : Ready(c)
    /\ \A s \in Settlements, n \in Attempts : sent[s][n] # "reversed"
    /\ Unshared(Live \ Retried)

\* The run's administrators and Paystack, and one beneficiary's one backlog.
Orderly ==
    /\ Overlap = FALSE /\ Opaque = FALSE /\ Reversals = FALSE
    /\ ManualFrom = {"approved"}
    /\ \A s, t \in Daily : s = t

\* Withdrawals that are live or on their way are apart.
LEMMA ClaimsHold == ASSUME ClaimInv PROVE WithdrawnOnce
<1> SUFFICES Unshared(OnTheWay \ Retried)
  BY DEF ClaimInv, WithdrawnOnce
<1> SUFFICES ASSUME NEW s \in OnTheWay \ Retried PROVE s \in Live
  BY DEF ClaimInv, Unshared
<1>1. PICK n \in Attempts : sent[s][n] \in {"pending", "success"}
  BY DEF OnTheWay, InTransit
<1>2. s \in Settlements /\ s \notin Daily /\ n = 1
  BY <1>1 DEF OnTheWay, Retried
<1>3. status[s] # "none"
  BY <1>1, <1>2 DEF ClaimInv, OnceInv, Alone
<1>4. status[s] # "cancelled"
  BY <1>1, <1>2 DEF ClaimInv, Over
<1> QED BY <1>2, <1>3, <1>4 DEF Live

\* Transfers are not forgotten and failures are final.
Lasting ==
    \A s \in Settlements, n \in Attempts :
        /\ sent[s][n] # "none" => sent'[s][n] # "none"
        /\ sent[s][n] = "failed" => sent'[s][n] = "failed"
        /\ sent'[s][n] # "reversed"

LEMMA RetriedStay == ASSUME Lasting PROVE Retried \subseteq Retried'
BY DEF Lasting, Retried

\* What a step leaves alone: lines, and which settlements live.
LEMMA ClaimStep ==
    ASSUME ClaimInv, OnceInv', Lasting, credits' = credits,
           \A s \in Settlements \ Retried' : s \in Live' => s \in Live,
           \A s \in Daily : status'[s] # "cancelled",
           \A s \in Settlements \ Retried' : status'[s] = "cancelled" => Over(s)',
           \A c \in Calls : Ready(c)'
    PROVE  ClaimInv'
<1>1. Unshared(Live \ Retried)'
  <2> SUFFICES ASSUME NEW s \in Live' \ Retried' PROVE s \in Live \ Retried
    BY DEF ClaimInv, Unshared
  <2>1. s \in Settlements
    BY DEF Live
  <2> QED BY <2>1, RetriedStay
<1> QED BY <1>1 DEF ClaimInv, Lasting

\* A step that creates, cancels, revives and sends nothing, and in which no call
\* comes to a withdrawal that was cancelled unsent.
LEMMA ClaimQuiet ==
    ASSUME ClaimInv, OnceInv', sent' = sent, credits' = credits,
           \A s \in Settlements : \A x \in {"none", "cancelled"} :
              status'[s] = x <=> status[s] = x,
           \A c \in Calls : call'[c] = call[c] \/ Ready(c)',
           \A c \in Calls :
              \/ call'[c].settlement \in {call[c].settlement, Nothing}
              \/ status[call'[c].settlement] # "cancelled"
              \/ \E n \in Attempts : sent[call'[c].settlement][n] # "none"
    PROVE  ClaimInv'
<1>1. Lasting
  BY DEF Lasting, ClaimInv
<1>2. \A s \in Settlements \ Retried' : s \in Live' => s \in Live
  BY DEF Live, ClaimInv, OnceInv, Inv, Typed
<1>3. \A s \in Daily : status'[s] # "cancelled"
  BY PayoutsAssumption DEF ClaimInv
<1>4. ASSUME NEW s \in Settlements \ Retried', status'[s] = "cancelled" PROVE Over(s)'
  <2>1. s \notin Retried /\ status[s] = "cancelled" /\ Over(s)
    BY <1>1, <1>4, RetriedStay DEF ClaimInv
  <2>2. CASE sent[s][1] = "failed"
    BY <2>2 DEF Over
  <2>3. CASE sent[s][1] = "none" /\ \A c \in Calls : call[c].settlement # s
    <3>1. \A n \in Attempts : sent[s][n] = "none"
      BY <2>1, <2>3 DEF Retried
    <3>2. \A c \in Calls : call'[c].settlement # s
      BY <2>1, <2>3, <3>1, PayoutsAssumption
    <3> QED BY <2>3, <3>2 DEF Over
  <2> QED BY <2>1, <2>2, <2>3 DEF Over
<1>5. \A c \in Calls : Ready(c)'
  BY DEF ClaimInv, Ready
<1> QED BY <1>1, <1>2, <1>3, <1>4, <1>5, ClaimStep

LEMMA WorldClaims ==
    ASSUME ClaimInv, NEW o \in Orders, OrderEarned(o) \/ RefundSucceeds(o) PROVE ClaimInv'
<1>1. UNCHANGED <<sent, call, status, credits>> /\ OnceInv'
  BY WorldOnce DEF ClaimInv, OrderEarned, RefundSucceeds, lines
<1> QED BY <1>1, ClaimQuiet

\* A daily settlement takes the backlog, which no withdrawal and no other day does.
LEMMA GenerateClaims ==
    ASSUME Orderly, ClaimInv, NEW s \in Settlements, GenerateSettlement(s) PROVE ClaimInv'
<1>1. /\ s \in Daily /\ UNCHANGED <<sent, call>> /\ OnceInv'
      /\ status' = [status EXCEPT ![s] = IF @ = "none" THEN "draft" ELSE @]
      /\ credits' = [credits EXCEPT ![s] = Backlog]
  BY SettlementOnce DEF ClaimInv, GenerateSettlement
<1>2. /\ credits' \in [Settlements -> SUBSET Orders]
      /\ credits'[s] = Backlog
      /\ \A t \in Settlements \ {s} : credits'[t] = credits[t] /\ status'[t] = status[t]
      /\ \A t \in Settlements : status'[t] = "cancelled" => status[t] = "cancelled"
  BY <1>1, PayoutsAssumption DEF ClaimInv, OnceInv, Inv, Typed
<1>3. Retried' = Retried
  BY <1>1 DEF Retried
<1>4. Unshared(Live \ Retried)'
  <2> SUFFICES ASSUME NEW t \in Live' \ Retried', NEW u \in Live' \ Retried', t # u
               PROVE  credits'[t] \cap credits'[u] = {}
    BY DEF Unshared
  <2>1. t \in Settlements /\ u \in Settlements
    BY DEF Live
  <2>2. \A v \in Settlements \ {s} : credits'[v] \subseteq Orders \ Backlog
    BY <1>1, <1>2 DEF ClaimInv, Orderly
  <2>3. CASE t = s \/ u = s
    BY <1>2, <2>1, <2>2, <2>3
  <2>4. CASE t # s /\ u # s
    BY <1>2, <1>3, <2>1, <2>4 DEF ClaimInv, Unshared, Live
  <2> QED BY <2>3, <2>4
<1>5. \A t \in Settlements :
         credits'[t] \subseteq IF t \in Daily THEN Backlog ELSE Orders \ Backlog
  BY <1>1, <1>2 DEF ClaimInv
<1>6. \A t \in Settlements \ Retried' : status'[t] = "cancelled" => Over(t)'
  BY <1>1, <1>2, <1>3 DEF ClaimInv, Over
<1>7. \A c \in Calls : Ready(c)'
  BY <1>1 DEF ClaimInv, Ready
<1>8. \A t \in Daily : status'[t] # "cancelled"
  BY <1>2, PayoutsAssumption DEF ClaimInv
<1> QED BY <1>1, <1>2, <1>4, <1>5, <1>6, <1>7, <1>8 DEF ClaimInv

LEMMA SettlementClaims ==
    ASSUME Orderly, ClaimInv, NEW s \in Settlements,
           \/ GenerateSettlement(s) \/ ApproveSettlement(s)
           \/ MarkSettlementPaid(s) \/ HoldPasses(s)
    PROVE  ClaimInv'
<1>1. CASE ApproveSettlement(s) \/ MarkSettlementPaid(s) \/ HoldPasses(s)
  <2>1. UNCHANGED <<sent, call, credits>> /\ OnceInv'
    BY <1>1, SettlementOnce DEF ClaimInv, ApproveSettlement, MarkSettlementPaid,
       HoldPasses, lines
  <2>2. \A t \in Settlements : \A x \in {"none", "cancelled"} :
           status'[t] = x <=> status[t] = x
    BY <1>1 DEF ClaimInv, OnceInv, Inv, Typed, ApproveSettlement, MarkSettlementPaid,
       HoldPasses
  <2> QED BY <2>1, <2>2, ClaimQuiet
<1> QED BY <1>1, GenerateClaims

\* A withdrawal takes credits that no live settlement has.
LEMMA RequestClaims ==
    ASSUME Orderly, ClaimInv, NEW c \in Calls, NEW s \in Settlements, RequestWithdrawal(c, s)
    PROVE  ClaimInv'
<1> DEFINE k == [Idle EXCEPT !.step = "pay", !.by = "withdrawal", !.settlement = s]
<1>1. /\ s \notin Daily /\ status[s] = "none" /\ sent' = sent /\ OnceInv'
      /\ status' = [status EXCEPT ![s] = "approved"]
      /\ credits' = [credits EXCEPT ![s] = WithdrawableCredits]
      /\ Become(c, k)
  BY StartOnce DEF ClaimInv, Orderly, RequestWithdrawal
<1>2. k.step = "pay" /\ k.settlement = s
  BY DEF Idle
<1> HIDE DEF k
<1>3. /\ WithdrawableCredits \subseteq Orders \ Backlog
      /\ \A t \in Live : WithdrawableCredits \cap credits[t] = {}
  BY DEF WithdrawableCredits, ClaimInv, OnceInv, Inv, Typed
<1>4. /\ credits' \in [Settlements -> SUBSET Orders]
      /\ credits'[s] = WithdrawableCredits
      /\ \A t \in Settlements \ {s} : credits'[t] = credits[t] /\ status'[t] = status[t]
      /\ status'[s] = "approved"
  BY <1>1, <1>3 DEF ClaimInv, OnceInv, Inv, Typed
<1>5. Retried' = Retried /\ Live' = Live \cup {s} /\ s \notin Live
  BY <1>1, <1>4 DEF Retried, Live
<1>6. Unshared(Live \ Retried)'
  <2> SUFFICES ASSUME NEW t \in Live' \ Retried', NEW u \in Live' \ Retried', t # u
               PROVE  credits'[t] \cap credits'[u] = {}
    BY DEF Unshared
  <2>1. CASE t = s \/ u = s
    BY <1>3, <1>4, <1>5, <2>1 DEF Live
  <2>2. CASE t # s /\ u # s
    BY <1>4, <1>5, <2>2 DEF ClaimInv, Unshared, Live
  <2> QED BY <2>1, <2>2
<1>7. \A t \in Settlements :
         credits'[t] \subseteq IF t \in Daily THEN Backlog ELSE Orders \ Backlog
  BY <1>1, <1>3, <1>4 DEF ClaimInv
<1>8. call'[c] = k /\ \A d \in Calls \ {c} : call'[d] = call[d]
  BY <1>1 DEF Become, ClaimInv, OnceInv, Inv, Typed
<1>9. \A t \in Settlements \ Retried' : status'[t] = "cancelled" => Over(t)'
  BY <1>1, <1>2, <1>4, <1>5, <1>8 DEF ClaimInv, Over
<1>10. \A d \in Calls : Ready(d)'
  BY <1>1, <1>2, <1>8 DEF ClaimInv, Ready
<1>11. \A t \in Daily : status'[t] # "cancelled"
  BY <1>4, PayoutsAssumption DEF ClaimInv
<1> QED BY <1>1, <1>4, <1>6, <1>7, <1>9, <1>10, <1>11 DEF ClaimInv

\* Everybody else comes to settlements that are approved or were sent.
LEMMA ComeClaims ==
    ASSUME Orderly, ClaimInv, NEW c \in Calls, NEW s \in Settlements,
           \/ RunPayouts(c, s) \/ PaySettlement(c, s)
           \/ \E n \in Attempts : SweepPending(c, s, n)
    PROVE  ClaimInv'
<1>1. UNCHANGED <<sent, status, credits>> /\ OnceInv'
  BY StartOnce, SweepOnce DEF ClaimInv, Orderly, RunPayouts, PaySettlement, StartPay,
     SweepPending, lines
<1>2. \A d \in Calls \ {c} : call'[d] = call[d]
  BY DEF RunPayouts, PaySettlement, StartPay, SweepPending, Become, ClaimInv, OnceInv, Inv,
     Typed
<1>4. call'[c].settlement = s /\ Ready(c)'
  <2>1. CASE RunPayouts(c, s) \/ PaySettlement(c, s)
    <3>1. PICK by : call' = [call EXCEPT ![c] = [Idle EXCEPT !.step = "pay", !.by = by,
                                                             !.settlement = s]]
      BY <2>1 DEF RunPayouts, PaySettlement, StartPay, Become
    <3>2. call'[c].settlement = s /\ call'[c].step = "pay"
      BY <3>1 DEF Idle, ClaimInv, OnceInv, Inv, Typed
    <3> QED BY <3>2 DEF Ready
  <2>2. ASSUME NEW n \in Attempts, SweepPending(c, s, n)
        PROVE  call'[c].settlement = s /\ Ready(c)'
    <3>1. /\ call'[c].settlement = s /\ call'[c].step = "apply"
          /\ call'[c].answer # "pending"
      BY <2>2 DEF SweepPending, Become, ClaimInv, OnceInv, Inv, Typed
    <3> QED BY <3>1 DEF Ready
  <2> QED BY <2>1, <2>2
<1>3. status[s] # "cancelled" \/ \E n \in Attempts : sent[s][n] # "none"
  BY DEF Orderly, RunPayouts, PaySettlement, SweepPending, ClaimInv, OnceInv, Inv,
     RowsVouched, Vouched
<1> QED BY <1>1, <1>2, <1>3, <1>4, ClaimQuiet

\* Statements that send nothing and settle nothing.
LEMMA StatementClaims ==
    ASSUME Orderly, ClaimInv, NEW c \in Calls,
           FindActiveTransfer(c) \/ NextAttempt(c) \/ RecordTransfer(c) \/ Die(c)
    PROVE  ClaimInv'
<1>1. UNCHANGED <<sent, status, credits>> /\ OnceInv'
  BY FindOnce, AttemptOnce, RecordOnce, EndOnce
     DEF ClaimInv, FindActiveTransfer, NextAttempt, RecordTransfer, Die, lines
<1>2. \A d \in Calls \ {c} : call'[d] = call[d]
  BY DEF FindActiveTransfer, NextAttempt, RecordTransfer, Die, End, Goto, Become, ClaimInv,
     OnceInv, Inv, Typed
<1>3. call'[c].settlement \in {call[c].settlement, Nothing} /\ Ready(c)'
  <2>0. call[c] \in Call /\ call \in [Calls -> Call]
    BY DEF ClaimInv, OnceInv, Inv, Typed
  <2>1. CASE End(c)
    BY <2>0, <2>1 DEF End, Become, Idle, Ready
  <2>2. CASE FindActiveTransfer(c) /\ ~End(c)
    BY <2>0, <2>2 DEF FindActiveTransfer, Goto, Become, Call, Ready
  <2>3. CASE NextAttempt(c)
    BY <2>0, <2>3 DEF NextAttempt, Become, Call, Ready
  <2>4. CASE RecordTransfer(c) /\ ~End(c)
    BY <2>0, <2>4 DEF RecordTransfer, Become, Call, Ready
  <2> QED BY <2>1, <2>2, <2>3, <2>4 DEF Die
<1> QED BY <1>1, <1>2, <1>3, ClaimQuiet

\* Only an unsent withdrawal is released.
LEMMA VerifyClaims ==
    ASSUME Orderly, ClaimInv, NEW c \in Calls, VerifyTransfer(c) PROVE ClaimInv'
<1>1. UNCHANGED <<sent, status, credits>> /\ OnceInv' /\ Lasting
  BY VerifyOnce DEF ClaimInv, VerifyTransfer, lines, Lasting
<1>2. \A d \in Calls \ {c} : call'[d] = call[d]
  BY DEF VerifyTransfer, End, Goto, Become, ClaimInv, OnceInv, Inv, Typed
<1>3. call'[c].settlement \in {call[c].settlement, Nothing} /\ Ready(c)'
  <2>0. call[c] \in Call /\ call \in [Calls -> Call]
    BY DEF ClaimInv, OnceInv, Inv, Typed
  <2>1. CASE End(c)
    BY <2>0, <2>1 DEF End, Become, Idle, Ready
  <2>2. CASE Goto(c, "release") /\ sent[call[c].settlement][1] = "none"
    BY <1>1, <2>0, <2>2 DEF Goto, Become, Call, Ready
  <2>3. CASE Become(c, [call[c] EXCEPT !.step = "record", !.attempt = 1,
                        !.answer = sent[call[c].settlement][1]])
    BY <2>0, <2>3 DEF Become, Call, Ready
  <2> QED BY <2>1, <2>2, <2>3 DEF VerifyTransfer, Orderly
<1>4. Retried' = Retried /\ Live' = Live
  BY <1>1 DEF Retried, Live
<1>5. \A s \in Settlements \ Retried' : status'[s] = "cancelled" => Over(s)'
  BY <1>1, <1>2, <1>3, <1>4, PayoutsAssumption DEF ClaimInv, Over
<1>6. \A d \in Calls : Ready(d)'
  BY <1>1, <1>2, <1>3 DEF ClaimInv, Ready
<1> QED BY <1>1, <1>4, <1>5, <1>6, ClaimStep DEF ClaimInv

LEMMA CancelClaims ==
    ASSUME Orderly, ClaimInv, NEW c \in Calls, CancelOnDemandSettlement(c) PROVE ClaimInv'
<1> DEFINE s == call[c].settlement
<1>1. /\ UNCHANGED <<sent, credits>> /\ OnceInv' /\ Lasting /\ Become(c, Idle)
      /\ call[c].step = "release" /\ s \in Settlements /\ sent[s][1] = "none"
      /\ call[c].by # "sweep"
  BY EndOnce DEF ClaimInv, Ready, CancelOnDemandSettlement, lines, Lasting, End, OnceInv,
     Alone, Inv, Carries
<1>2. call'[c] = Idle /\ \A d \in Calls \ {c} : call'[d] = call[d]
  BY <1>1 DEF Become, ClaimInv, OnceInv, Inv, Typed
<1>3. Retried' = Retried
  BY <1>1 DEF Retried
<1>4. \A t \in Settlements : status'[t] = status[t]
                            \/ (t = s /\ s \notin Daily /\ status'[t] = "cancelled")
  BY DEF CancelOnDemandSettlement, ClaimInv, OnceInv, Inv, Typed
<1>5. s \notin Retried => \A d \in Calls \ {c} : call[d].settlement # s
  <2> SUFFICES ASSUME NEW d \in Calls \ {c}, call[d].settlement = s, s \notin Retried PROVE FALSE
    OBVIOUS
  <2>1. call[d].by = "sweep" /\ call[d].step = "apply"
    BY <1>1 DEF ClaimInv, OnceInv, Alone
  <2>2. call[d].attempt \in Attempts /\ sent[s][call[d].attempt] # "none"
    BY <2>1 DEF ClaimInv, OnceInv, Inv, Carries, Vouched
  <2> QED BY <1>1, <2>2 DEF Retried
<1>6. ASSUME NEW t \in Settlements \ Retried', status'[t] = "cancelled" PROVE Over(t)'
  <2>1. CASE t = s
    BY <1>1, <1>2, <1>3, <1>5, <2>1, PayoutsAssumption DEF Over, Idle
  <2>2. CASE t # s
    BY <1>1, <1>2, <1>3, <1>4, <1>6, <2>2, PayoutsAssumption DEF ClaimInv, Over, Idle
  <2> QED BY <2>1, <2>2
<1>7. \A t \in Settlements \ Retried' : t \in Live' => t \in Live
  BY <1>4 DEF Live
<1>8. \A d \in Calls : Ready(d)'
  BY <1>1, <1>2 DEF ClaimInv, Ready, Idle
<1>9. \A t \in Daily : status'[t] # "cancelled"
  BY <1>4, PayoutsAssumption DEF ClaimInv
<1> QED BY <1>1, <1>6, <1>7, <1>8, <1>9, ClaimStep

LEMMA InitiateClaims ==
    ASSUME Orderly, ClaimInv, NEW c \in Calls, InitiateTransfer(c) PROVE ClaimInv'
<1> DEFINE s == call[c].settlement
           n == call[c].attempt
<1>1. /\ UNCHANGED <<status, credits>> /\ OnceInv' /\ s \in Settlements /\ n \in Attempts
      /\ call[c].by # "sweep" /\ call[c].step = "initiate" /\ call[c] \in Call
  BY InitiateOnce DEF ClaimInv, InitiateTransfer, lines, OnceInv, Alone, Inv, Carries, Typed
<1>2. \A d \in Calls \ {c} : call'[d] = call[d]
  BY DEF InitiateTransfer, OnError, End, Goto, Become, ClaimInv, OnceInv, Inv, Typed
<1>3. call'[c].settlement \in {s, Nothing} /\ Ready(c)'
  <2>0. call[c] \in Call /\ call \in [Calls -> Call]
    BY DEF ClaimInv, OnceInv, Inv, Typed
  <2>1. CASE End(c)
    BY <2>0, <2>1 DEF End, Become, Idle, Ready
  <2>2. CASE Goto(c, "verify")
    BY <2>0, <2>2 DEF Goto, Become, Call, Ready
  <2>3. ASSUME NEW answer,
               Become(c, [call[c] EXCEPT !.step = "record", !.answer = answer])
        PROVE  call'[c].settlement \in {s, Nothing} /\ Ready(c)'
    BY <2>0, <2>3 DEF Become, Call, Ready
  <2> QED BY <2>1, <2>2, <2>3 DEF InitiateTransfer, OnError
<1>4. \A t \in Settlements, m \in Attempts :
         /\ sent'[t][m] = sent[t][m] \/ (t = s /\ m = n /\ sent[t][m] = "none")
         /\ sent[t][m] # "none" => sent'[t][m] = sent[t][m]
         /\ sent'[t][m] # "reversed"
  BY <1>1 DEF InitiateTransfer, ClaimInv, OnceInv, Inv, Typed
<1>5. Lasting
  BY <1>4 DEF Lasting
<1>6. ASSUME NEW t \in Settlements \ Retried', status'[t] = "cancelled" PROVE Over(t)'
  <2>1. t \notin Retried /\ status[t] = "cancelled" /\ Over(t)
    BY <1>1, <1>5, <1>6, RetriedStay DEF ClaimInv
  <2>2. CASE sent[t][1] = "failed"
    BY <1>5, <2>2, CallFacts DEF Over, Lasting
  <2>3. CASE sent[t][1] = "none" /\ \A d \in Calls : call[d].settlement # t
    <3>1. t # s
      BY <2>3
    <3>2. sent'[t][1] = "none"
      BY <1>4, <2>3, <3>1, CallFacts
    <3>3. \A d \in Calls : call'[d].settlement # t
      BY <1>2, <1>3, <2>3, <3>1, PayoutsAssumption
    <3> QED BY <3>2, <3>3 DEF Over
  <2> QED BY <2>1, <2>2, <2>3 DEF Over
<1>7. ASSUME NEW d \in Calls \ {c} PROVE Ready(d)'
  <2>1. call'[d] = call[d] /\ Ready(d)
    BY <1>2 DEF ClaimInv
  <2>2. ASSUME call[d].step = "release" PROVE sent'[call[d].settlement][1] = "none"
    <3>1. call[d].settlement \in Settlements /\ call[d].by # "sweep"
      BY <2>2 DEF ClaimInv, OnceInv, Inv, Carries, Alone
    <3>2. call[d].settlement # s
      BY <1>1, <3>1 DEF ClaimInv, OnceInv, Alone
    <3> QED BY <1>4, <2>1, <2>2, <3>1, <3>2, CallFacts DEF Ready
  <2> QED BY <2>1, <2>2 DEF Ready
<1>8. Live' = Live
  BY <1>1 DEF Live
<1> QED BY <1>1, <1>3, <1>5, <1>6, <1>7, <1>8, ClaimStep DEF ClaimInv

\* A success never comes for a withdrawal that is over.
LEMMA ReconcileClaims ==
    ASSUME Orderly, ClaimInv, OnceInv', NEW s \in Settlements, NEW n \in Attempts,
           NEW outcome \in {"success", "failed", "reversed"}, Reconcile(s, n, outcome),
           Vouched(sent, s, n, outcome), UNCHANGED <<sent, credits>>,
           \A c \in Calls : call'[c] = call[c] \/ call'[c] = Idle
    PROVE  ClaimInv'
<1>1. Lasting /\ Retried' = Retried
  BY DEF Lasting, ClaimInv, Retried
<1>2. sent[s][n] = outcome /\ outcome \in {"success", "failed"}
  BY DEF Vouched, ClaimInv
<1>3. \A t \in Settlements :
         \/ status'[t] = status[t]
         \/ t = s /\ outcome = "success"
         \/ t = s /\ s \notin Daily /\ outcome = "failed" /\ status[s] \in {"approved", "paid"}
  BY <1>2 DEF Reconcile, ClaimInv, OnceInv, Inv, Typed
<1>4. outcome = "success" => status'[s] \in {"paid", status[s]}
  BY <1>2 DEF Reconcile, ClaimInv, OnceInv, Inv, Typed
<1>5. s \notin Retried /\ outcome = "success" => s \in Live
  <2>1. s \notin Retried => n = 1
    BY <1>2 DEF Retried
  <2> QED BY <1>2, <2>1 DEF ClaimInv, OnceInv, Alone, Over, Live
<1>6. ASSUME NEW t \in Settlements \ Retried', status'[t] = "cancelled" PROVE Over(t)'
  <2>1. CASE status[t] = "cancelled"
    <3>1. Over(t)
      BY <1>1, <1>6, <2>1 DEF ClaimInv
    <3> QED BY <3>1, PayoutsAssumption DEF Over, Idle
  <2>2. CASE status[t] # "cancelled"
    <3>1. t = s /\ outcome = "failed"
      BY <1>2, <1>3, <1>4, <1>6, <2>2
    <3>2. n = 1
      BY <1>1, <1>2, <1>6, <3>1 DEF Retried
    <3> QED BY <1>2, <3>1, <3>2 DEF Over
  <2> QED BY <2>1, <2>2
<1>7. \A t \in Settlements \ Retried' : t \in Live' => t \in Live
  BY <1>1, <1>3, <1>5 DEF Live
<1>8. \A t \in Daily : status'[t] # "cancelled"
  BY <1>3, <1>4, PayoutsAssumption DEF ClaimInv
<1>9. \A c \in Calls : Ready(c)'
  BY DEF ClaimInv, Ready, Idle
<1> QED BY <1>1, <1>6, <1>7, <1>8, <1>9, ClaimStep

LEMMA ApplyClaims ==
    ASSUME Orderly, ClaimInv, NEW c \in Calls, ApplyReconcile(c) PROVE ClaimInv'
<1> DEFINE s == call[c].settlement
           n == call[c].attempt
           outcome == call[c].answer
<1>1. /\ s \in Settlements /\ n \in Attempts /\ outcome \in {"success", "failed", "reversed"}
      /\ Vouched(sent, s, n, outcome)
  BY DEF ApplyReconcile, ClaimInv, Ready, OnceInv, Inv, Typed, Carries, Call, Transfers,
     Vouched
<1>2. /\ Reconcile(s, n, outcome) /\ UNCHANGED <<sent, credits>> /\ OnceInv'
      /\ \A d \in Calls : call'[d] = call[d] \/ call'[d] = Idle
  BY ApplyOnce DEF ApplyReconcile, End, Become, lines, ClaimInv, OnceInv, Inv, Typed
<1> HIDE DEF s, n, outcome
<1> QED BY <1>1, <1>2, ReconcileClaims

LEMMA WebhookClaims ==
    ASSUME Orderly, ClaimInv, NEW s \in Settlements, NEW n \in Attempts,
           NEW outcome \in Transfers, Webhook(s, n, outcome)
    PROVE  ClaimInv'
<1>1. /\ outcome \in {"success", "failed", "reversed"} /\ Vouched(sent, s, n, outcome)
      /\ Reconcile(s, n, outcome) /\ UNCHANGED <<sent, call, credits>> /\ OnceInv'
  BY WebhookOnce DEF Webhook, Vouched, lines, ClaimInv
<1> QED BY <1>1, ReconcileClaims

LEMMA PaystackClaims ==
    ASSUME Orderly, ClaimInv, NEW s \in Settlements, NEW n \in Attempts,
           PaystackSettles(s, n)
    PROVE  ClaimInv'
<1>1. UNCHANGED <<status, call, credits>> /\ OnceInv'
  BY PaystackOnce DEF ClaimInv, PaystackSettles, lines
<1>2. \A t \in Settlements, m \in Attempts :
         /\ sent'[t][m] # "reversed"
         /\ sent[t][m] # "pending" => sent'[t][m] = sent[t][m]
         /\ sent[t][m] = "pending" => sent'[t][m] # "none"
  BY DEF PaystackSettles, Orderly, ClaimInv, OnceInv, Inv, Typed
<1>3. Lasting
  BY <1>2 DEF Lasting
<1>4. ASSUME NEW t \in Settlements \ Retried', status'[t] = "cancelled" PROVE Over(t)'
  <2>1. Over(t)
    BY <1>1, <1>3, <1>4, RetriedStay DEF ClaimInv
  <2> QED BY <1>1, <1>2, <2>1, CallFacts DEF Over
<1>5. \A c \in Calls : Ready(c)'
  BY <1>1, <1>2, CallFacts DEF ClaimInv, OnceInv, Inv, Carries, Ready
<1>6. Live' = Live
  BY <1>1 DEF Live
<1> QED BY <1>1, <1>3, <1>4, <1>5, <1>6, ClaimStep DEF ClaimInv

LEMMA ClaimInit == Init => ClaimInv
<1> SUFFICES ASSUME Init PROVE ClaimInv
  OBVIOUS
<1>1. \A c \in Calls : Ready(c)
  BY DEF Init, Ready, Idle
<1>2. Live = {}
  BY DEF Init, Live
<1> QED BY <1>1, <1>2, OnceInit, PayoutsAssumption DEF Init, ClaimInv, Unshared

LEMMA ClaimNext == ASSUME Orderly, ClaimInv, [Next]_vars PROVE ClaimInv'
<1>1. CASE UNCHANGED vars
  <2>1. OnceInv' /\ UNCHANGED <<sent, call, status, credits>>
    BY <1>1, OnceNext DEF Orderly, vars, ClaimInv
  <2> QED BY <2>1, ClaimQuiet
<1>2. ASSUME NEW c \in Calls, Step(c) \/ Die(c) PROVE ClaimInv'
  BY <1>2, StatementClaims, InitiateClaims, VerifyClaims, CancelClaims, ApplyClaims DEF Step
<1> QED BY <1>1, <1>2, WorldClaims, SettlementClaims, RequestClaims, ComeClaims,
           WebhookClaims, PaystackClaims DEF Next

\* No credit is withdrawn twice, for any number of orders, withdrawals, attempts
\* and refunds: whatever answers are lost and whoever dies, as long as calls do
\* not overlap, Paystack answers truly and reverses nothing, and apart from
\* withdrawals that are sent a second time.
THEOREM CreditsAreWithdrawnOnce == ASSUME Orderly PROVE Spec => []WithdrawnOnce
<1>1. Init => ClaimInv
  BY ClaimInit
<1>2. ClaimInv /\ [Next]_vars => ClaimInv'
  BY ClaimNext
<1>3. ClaimInv => WithdrawnOnce
  BY ClaimsHold
<1> QED BY <1>1, <1>2, <1>3, PTL DEF Spec

-----------------------------------------------------------------------------
(* Sums over finite sets.  Induction over the subsets of a set is by the   *)
(* smallest counterexample, which WFMin gives.                             *)

Pick(set) == CHOOSE s \in set : TRUE

\* The sums of all subsets, each from that without its Pick.
SumsOf(f, set, g) ==
    g = [t \in SUBSET set |->
            IF t = {} THEN 0 ELSE f[Pick(t)] + g[t \ {Pick(t)}]]
Sums(f, set) == CHOOSE g : SumsOf(f, set, g)

LEMMA SumIsSums ==
    ASSUME NEW f, NEW set
    PROVE  SumFunctionOnSet(f, set) = Sums(f, set)[set]
BY DEF SumFunctionOnSet, FoldFunctionOnSet, Sums, SumsOf, Pick, MapThenFoldSet

\* A non-empty collection of subsets of a finite set has a smallest one.
LEMMA SmallestSubset ==
    ASSUME NEW set, IsFiniteSet(set), NEW C \in SUBSET SUBSET set, C # {}
    PROVE  \E t \in C : \A u \in C : u \subseteq t => u = t
<1>1. IsWellFoundedOn(StrictSubsetOrdering(set), SUBSET set)
  BY FS_StrictSubsetOrderingWellFounded, FS_FiniteSubsetsOfFinite
<1>2. PICK t \in C : \A u \in C : ~(<<u, t>> \in StrictSubsetOrdering(set))
  BY <1>1, WFMin
<1> QED
  BY <1>2 DEF StrictSubsetOrdering

LEMMA PickIsMember ==
    ASSUME NEW t, t # {}
    PROVE  Pick(t) \in t
BY DEF Pick

\* Two functions of sums agree where both are defined.
LEMMA SumsAgree ==
    ASSUME NEW f, NEW set, IsFiniteSet(set), NEW sub \in SUBSET set,
           NEW g, SumsOf(f, set, g), NEW h, SumsOf(f, sub, h)
    PROVE  \A t \in SUBSET sub : g[t] = h[t]
<1> DEFINE C == {t \in SUBSET sub : g[t] # h[t]}
<1> SUFFICES ASSUME C # {} PROVE FALSE
  OBVIOUS
<1>1. C \in SUBSET SUBSET set
  OBVIOUS
<1>2. PICK t \in C : \A u \in C : u \subseteq t => u = t
  <2> HIDE DEF C
  <2> QED BY <1>1, SmallestSubset
<1>3. CASE t = {}
  BY <1>2, <1>3 DEF SumsOf
<1>4. CASE t # {}
  <2>1. Pick(t) \in t
    BY <1>4, PickIsMember
  <2>2. t \ {Pick(t)} \notin C
    BY <1>2, <2>1
  <2>3. g[t \ {Pick(t)}] = h[t \ {Pick(t)}]
    BY <2>2
  <2> QED
    BY <1>4, <2>3 DEF SumsOf
<1> QED
  BY <1>3, <1>4

\* The function of sums exists.
LEMMA SumsExist ==
    ASSUME NEW f, NEW set, IsFiniteSet(set)
    PROVE  SumsOf(f, set, Sums(f, set))
<1> DEFINE C == {t \in SUBSET set : ~\E g : SumsOf(f, t, g)}
<1>1. SUFFICES C = {}
  <2>1. \E g : SumsOf(f, set, g)
    BY <1>1
  <2> QED
    BY <2>1 DEF Sums
<1>2. SUFFICES ASSUME C # {} PROVE FALSE
  OBVIOUS
<1>3. C \in SUBSET SUBSET set
  OBVIOUS
<1>4. PICK t \in C : \A u \in C : u \subseteq t => u = t
  <2> HIDE DEF C
  <2> QED BY <1>2, <1>3, SmallestSubset
<1>5. ASSUME NEW u \in SUBSET t, u # t PROVE SumsOf(f, u, Sums(f, u))
  <2>1. \E g : SumsOf(f, u, g)
    BY <1>4, <1>5
  <2> QED
    BY <2>1 DEF Sums
<1> DEFINE sum(u) == Sums(f, u)[u]
           from(u) == IF u = {} THEN 0 ELSE f[Pick(u)] + sum(u \ {Pick(u)})
           g == [u \in SUBSET t |-> from(u)]
<1>6. ASSUME NEW u \in SUBSET t, u # t PROVE sum(u) = from(u)
  <2>1. SumsOf(f, u, Sums(f, u))
    BY <1>5, <1>6
  <2>2. CASE u = {}
    BY <2>1, <2>2 DEF SumsOf
  <2>3. CASE u # {}
    <3> DEFINE v == u \ {Pick(u)}
    <3>1. v \in SUBSET u /\ v \in SUBSET t /\ v # t
      BY <1>6
    <3>2. SumsOf(f, v, Sums(f, v))
      BY <1>5, <3>1
    <3>3. IsFiniteSet(u)
      BY FS_Subset
    <3>4. Sums(f, u)[v] = Sums(f, v)[v]
      <4> HIDE DEF v
      <4> QED BY <2>1, <3>1, <3>2, <3>3, SumsAgree
    <3>5. Sums(f, u)[u] = f[Pick(u)] + Sums(f, u)[v]
      BY <2>1, <2>3 DEF SumsOf
    <3> QED
      BY <2>3, <3>4, <3>5
  <2> QED
    BY <2>2, <2>3
<1>7. ASSUME NEW u \in SUBSET t
      PROVE  g[u] = IF u = {} THEN 0 ELSE f[Pick(u)] + g[u \ {Pick(u)}]
  <2>1. CASE u = {}
    BY <2>1
  <2>2. CASE u # {}
    <3> DEFINE v == u \ {Pick(u)}
    <3>1. v \in SUBSET t /\ v # t
      BY <2>2, PickIsMember
    <3>2. g[v] = sum(v)
      BY <1>6, <3>1
    <3> QED
      BY <2>2, <3>2
  <2> QED
    BY <2>1, <2>2
<1>8. SumsOf(f, t, g)
  BY <1>7 DEF SumsOf
<1> QED
  BY <1>4, <1>8

LEMMA SumUnfolds ==
    ASSUME NEW f, NEW set, IsFiniteSet(set)
    PROVE  SumFunctionOnSet(f, set) =
               IF set = {} THEN 0
               ELSE f[Pick(set)] + SumFunctionOnSet(f, set \ {Pick(set)})
<1> DEFINE less == set \ {Pick(set)}
<1>1. SumsOf(f, set, Sums(f, set))
  BY SumsExist
<1>2. IsFiniteSet(less) /\ less \in SUBSET set
  BY FS_Subset
<1>3. SumsOf(f, less, Sums(f, less))
  <2> HIDE DEF less
  <2> QED BY <1>2, SumsExist
<1>4. Sums(f, set)[less] = Sums(f, less)[less]
  <2> HIDE DEF less
  <2> QED BY <1>1, <1>2, <1>3, SumsAgree
<1>5. Sums(f, set)[set] =
          IF set = {} THEN 0 ELSE f[Pick(set)] + Sums(f, set)[less]
  BY <1>1 DEF SumsOf
<1> QED
  BY <1>4, <1>5, SumIsSums

\* Sums of integers are integers, of natural numbers natural numbers.
LEMMA SumTyped ==
    ASSUME NEW f, NEW set, IsFiniteSet(set),
           NEW T \in {Int, Nat}, \A s \in set : f[s] \in T
    PROVE  SumFunctionOnSet(f, set) \in T
<1> DEFINE C == {t \in SUBSET set : SumFunctionOnSet(f, t) \notin T}
<1>1. SUFFICES ASSUME C # {} PROVE FALSE
  OBVIOUS
<1>2. C \in SUBSET SUBSET set
  OBVIOUS
<1>3. PICK t \in C : \A u \in C : u \subseteq t => u = t
  <2> HIDE DEF C
  <2> QED BY <1>1, <1>2, SmallestSubset
<1>4. IsFiniteSet(t)
  BY <1>3, FS_Subset
<1>5. t # {}
  <2>1. 0 \in T
    OBVIOUS
  <2> QED
    BY <1>3, <1>4, <2>1, SumUnfolds
<1>6. Pick(t) \in t
  BY <1>5, PickIsMember
<1>7. t \ {Pick(t)} \notin C
  BY <1>3, <1>6
<1>8. f[Pick(t)] \in T /\ SumFunctionOnSet(f, t \ {Pick(t)}) \in T
  BY <1>3, <1>6, <1>7
<1>9. SumFunctionOnSet(f, t) \in T
  BY <1>4, <1>5, <1>8, SumUnfolds
<1> QED
  BY <1>3, <1>9

\* Whichever member is taken out, the rest is the sum without it.
LEMMA SumWithout ==
    ASSUME NEW f, NEW set, IsFiniteSet(set),
           \A s \in set : f[s] \in Int, NEW x \in set
    PROVE  SumFunctionOnSet(f, set) = f[x] + SumFunctionOnSet(f, set \ {x})
<1> DEFINE sum(t) == SumFunctionOnSet(f, t)
           C == {t \in SUBSET set :
                    \E s \in t : sum(t) # f[s] + sum(t \ {s})}
<1>1. SUFFICES ASSUME C # {} PROVE FALSE
  OBVIOUS
<1>2. C \in SUBSET SUBSET set
  OBVIOUS
<1>3. PICK t \in C : \A u \in C : u \subseteq t => u = t
  <2> HIDE DEF C
  <2> QED BY <1>1, <1>2, SmallestSubset
<1>4. PICK s \in t : sum(t) # f[s] + sum(t \ {s})
  BY <1>3
<1> DEFINE p == Pick(t)
<1>5. t \in SUBSET set /\ IsFiniteSet(t) /\ p \in t
  BY <1>3, <1>4, FS_Subset, PickIsMember
<1>6. sum(t) = f[p] + sum(t \ {p})
  BY <1>4, <1>5, SumUnfolds
<1>7. s # p
  BY <1>4, <1>6
<1>8. t \ {p} \notin C /\ t \ {s} \notin C
  BY <1>3, <1>4, <1>5
<1> DEFINE rest == t \ {s, p}
<1>9. sum(t \ {p}) = f[s] + sum(rest)
  <2>1. (t \ {p}) \ {s} = rest
    OBVIOUS
  <2> QED
    BY <1>5, <1>7, <1>8, <2>1
<1>10. sum(t \ {s}) = f[p] + sum(rest)
  <2>1. (t \ {s}) \ {p} = rest
    OBVIOUS
  <2> QED
    BY <1>4, <1>5, <1>7, <1>8, <2>1
<1>11. sum(rest) \in Int
  <2>1. rest \in SUBSET set /\ IsFiniteSet(rest)
    BY <1>5, FS_Subset
  <2> HIDE DEF rest
  <2> QED
    BY <2>1, SumTyped
<1>12. f[s] \in Int /\ f[p] \in Int
  BY <1>4, <1>5
<1> HIDE DEF sum, p, rest
<1>13. sum(t) = f[s] + sum(t \ {s})
  BY <1>6, <1>9, <1>10, <1>11, <1>12
<1> QED
  BY <1>4, <1>13

\* A sum depends on the values of its members only.
LEMMA SumSame ==
    ASSUME NEW f, NEW g, NEW set, IsFiniteSet(set),
           \A s \in set : f[s] = g[s]
    PROVE  SumFunctionOnSet(f, set) = SumFunctionOnSet(g, set)
<1> DEFINE C == {t \in SUBSET set : SumFunctionOnSet(f, t) # SumFunctionOnSet(g, t)}
<1>1. SUFFICES ASSUME C # {} PROVE FALSE
  OBVIOUS
<1>2. C \in SUBSET SUBSET set
  OBVIOUS
<1>3. PICK t \in C : \A u \in C : u \subseteq t => u = t
  <2> HIDE DEF C
  <2> QED BY <1>1, <1>2, SmallestSubset
<1>4. IsFiniteSet(t)
  BY <1>3, FS_Subset
<1>5. CASE t = {}
  BY <1>3, <1>4, <1>5, SumUnfolds
<1>6. CASE t # {}
  <2>1. Pick(t) \in t
    BY <1>6, PickIsMember
  <2>2. t \ {Pick(t)} \notin C
    BY <1>3, <2>1
  <2>3. f[Pick(t)] = g[Pick(t)]
    BY <1>3, <2>1
  <2>4. SumFunctionOnSet(f, t \ {Pick(t)}) = SumFunctionOnSet(g, t \ {Pick(t)})
    BY <1>3, <2>2
  <2>5. /\ SumFunctionOnSet(f, t) = f[Pick(t)] + SumFunctionOnSet(f, t \ {Pick(t)})
        /\ SumFunctionOnSet(g, t) = g[Pick(t)] + SumFunctionOnSet(g, t \ {Pick(t)})
    BY <1>4, <1>6, SumUnfolds
  <2> QED
    BY <1>3, <2>3, <2>4, <2>5
<1> QED
  BY <1>5, <1>6

\* Sums of what is never less are never less.
LEMMA SumAtMost ==
    ASSUME NEW f, NEW g, NEW set, IsFiniteSet(set),
           \A x \in set : f[x] \in Int /\ g[x] \in Int /\ f[x] <= g[x]
    PROVE  SumFunctionOnSet(f, set) <= SumFunctionOnSet(g, set)
<1> DEFINE Sf(t) == SumFunctionOnSet(f, t)
           Sg(t) == SumFunctionOnSet(g, t)
           C == {t \in SUBSET set : ~(Sf(t) <= Sg(t))}
<1>1. SUFFICES ASSUME C # {} PROVE FALSE
  OBVIOUS
<1>2. C \in SUBSET SUBSET set
  OBVIOUS
<1>3. PICK t \in C : \A u \in C : u \subseteq t => u = t
  <2> HIDE DEF C
  <2> QED BY <1>1, <1>2, SmallestSubset
<1>4. IsFiniteSet(t)
  BY <1>3, FS_Subset
<1>5. CASE t = {}
  <2>1. Sf(t) = 0 /\ Sg(t) = 0
    BY <1>4, <1>5, SumUnfolds
  <2> QED BY <1>3, <2>1
<1>6. CASE t # {}
  <2> DEFINE p == Pick(t)
             rest == t \ {p}
  <2>1. p \in t /\ p \in set
    BY <1>3, <1>6, PickIsMember
  <2>2. Sf(rest) <= Sg(rest)
    BY <1>3, <2>1
  <2>3. Sf(t) = f[p] + Sf(rest) /\ Sg(t) = g[p] + Sg(rest)
    BY <1>4, <1>6, SumUnfolds
  <2>4. Sf(rest) \in Int /\ Sg(rest) \in Int
    <3>1. IsFiniteSet(rest) /\ rest \subseteq set
      BY <1>3, <1>4, FS_Subset
    <3>2. \A x \in rest : f[x] \in Int /\ g[x] \in Int
      BY <3>1
    <3> HIDE DEF rest
    <3> QED BY <3>1, <3>2, SumTyped
  <2>5. f[p] \in Int /\ g[p] \in Int /\ f[p] <= g[p]
    BY <2>1
  <2>6. ~(Sf(t) <= Sg(t))
    BY <1>3
  <2> HIDE DEF Sf, Sg, p, rest
  <2> QED BY <2>2, <2>3, <2>4, <2>5, <2>6
<1> QED BY <1>5, <1>6

\* The sum of two sets that are apart.
LEMMA SumJoin ==
    ASSUME NEW f, NEW a, NEW b, IsFiniteSet(a), IsFiniteSet(b), a \cap b = {},
           \A x \in a \cup b : f[x] \in Int
    PROVE  SumFunctionOnSet(f, a \cup b) = SumFunctionOnSet(f, a) + SumFunctionOnSet(f, b)
<1> DEFINE S(t) == SumFunctionOnSet(f, t)
           C == {t \in SUBSET b : S(a \cup t) # S(a) + S(t)}
<1>1. SUFFICES ASSUME C # {} PROVE FALSE
  OBVIOUS
<1>2. C \in SUBSET SUBSET b
  OBVIOUS
<1>3. PICK t \in C : \A u \in C : u \subseteq t => u = t
  <2> HIDE DEF C
  <2> QED BY <1>1, <1>2, SmallestSubset
<1>4. IsFiniteSet(t)
  BY <1>3, FS_Subset
<1>5. S(a) \in Int
  BY SumTyped
<1>6. CASE t = {}
  <2>1. S(t) = 0 /\ a \cup t = a
    BY <1>4, <1>6, SumUnfolds
  <2>2. S(a \cup t) = S(a)
    BY <2>1
  <2>3. S(a \cup t) # S(a) + S(t)
    BY <1>3
  <2> HIDE DEF S
  <2> QED BY <1>5, <2>1, <2>2, <2>3
<1>7. CASE t # {}
  <2> DEFINE p == Pick(t)
             rest == t \ {p}
             less == a \cup rest
             all == a \cup t
  <2>1. p \in t /\ p \in b /\ p \notin a
    BY <1>3, <1>7, PickIsMember
  <2>2. S(less) = S(a) + S(rest)
    BY <1>3, <2>1
  <2>3. S(t) = f[p] + S(rest)
    BY <1>4, <1>7, SumUnfolds
  <2>4. all \ {p} = less /\ p \in all /\ all \subseteq a \cup b
    BY <1>3, <2>1
  <2>5. IsFiniteSet(all) /\ IsFiniteSet(rest)
    BY <1>4, FS_Union, FS_Subset
  <2>6. S(all) = f[p] + S(less)
    <3>1. \A x \in all : f[x] \in Int
      BY <2>4
    <3> HIDE DEF all, less
    <3> QED BY <2>4, <2>5, <3>1, SumWithout
  <2>7. S(rest) \in Int
    <3>1. \A x \in rest : f[x] \in Int
      BY <1>3
    <3> HIDE DEF rest
    <3> QED BY <2>5, <3>1, SumTyped
  <2>8. f[p] \in Int
    BY <2>1
  <2>9. S(all) # S(a) + S(t)
    BY <1>3
  <2> HIDE DEF S, p, rest, less, all
  <2> QED BY <1>5, <2>2, <2>3, <2>6, <2>7, <2>8, <2>9
<1> QED BY <1>6, <1>7

\* A part of natural numbers sums to no more than the whole.
LEMMA SumOfPart ==
    ASSUME NEW f, NEW set, IsFiniteSet(set), NEW part \in SUBSET set,
           \A x \in set : f[x] \in Nat
    PROVE  SumFunctionOnSet(f, part) <= SumFunctionOnSet(f, set)
<1> DEFINE rest == set \ part
<1>1. /\ IsFiniteSet(part) /\ IsFiniteSet(rest) /\ part \cap rest = {}
      /\ part \cup rest = set
      /\ \A x \in part \cup rest : f[x] \in Int
  BY FS_Subset
<1>2. SumFunctionOnSet(f, rest) \in Nat /\ SumFunctionOnSet(f, part) \in Nat
  <2>1. (\A x \in rest : f[x] \in Nat) /\ \A x \in part : f[x] \in Nat
    OBVIOUS
  <2> HIDE DEF rest
  <2> QED BY <1>1, <2>1, SumTyped
<1>3. SumFunctionOnSet(f, set) = SumFunctionOnSet(f, part) + SumFunctionOnSet(f, rest)
  <2> HIDE DEF rest
  <2> QED BY <1>1, SumJoin
<1> QED BY <1>2, <1>3

\* The sums of pieces that are pairwise apart make the sum of them all.
LEMMA SumOfSums ==
    ASSUME NEW f, NEW g, NEW set, IsFiniteSet(set), NEW c, NEW T, IsFiniteSet(T),
           \A t \in T : c[t] \subseteq set,
           \A t, u \in T : t # u => c[t] \cap c[u] = {},
           \A x \in set : f[x] \in Int,
           \A t \in T : g[t] = SumFunctionOnSet(f, c[t])
    PROVE  SumFunctionOnSet(g, T) = SumFunctionOnSet(f, UNION {c[t] : t \in T})
<1> DEFINE all(U) == UNION {c[t] : t \in U}
           C == {U \in SUBSET T : SumFunctionOnSet(g, U) # SumFunctionOnSet(f, all(U))}
<1>1. SUFFICES ASSUME C # {} PROVE FALSE
  OBVIOUS
<1>2. C \in SUBSET SUBSET T
  OBVIOUS
<1>3. PICK U \in C : \A V \in C : V \subseteq U => V = U
  <2> HIDE DEF C
  <2> QED BY <1>1, <1>2, SmallestSubset
<1>4. IsFiniteSet(U)
  BY <1>3, FS_Subset
<1>5. CASE U = {}
  <2>1. all(U) = {}
    BY <1>5
  <2>2. SumFunctionOnSet(g, U) = 0
    BY <1>4, <1>5, SumUnfolds
  <2>3. SumFunctionOnSet(f, {}) = 0
    BY FS_EmptySet, SumUnfolds
  <2> QED BY <1>3, <2>1, <2>2, <2>3
<1>6. CASE U # {}
  <2> DEFINE p == Pick(U)
             rest == U \ {p}
             b == all(rest)
  <2>1. p \in U /\ p \in T /\ rest \subseteq T
    BY <1>3, <1>6, PickIsMember
  <2>2. SumFunctionOnSet(g, rest) = SumFunctionOnSet(f, b)
    BY <1>3, <2>1
  <2>3. SumFunctionOnSet(g, U) = g[p] + SumFunctionOnSet(g, rest)
    BY <1>4, <1>6, SumUnfolds
  <2>4. c[p] \cap b = {}
    BY <1>3, <2>1
  <2>5. all(U) = c[p] \cup b
    BY <2>1
  <2>6. b \subseteq set /\ c[p] \subseteq set
    BY <2>1
  <2>7. IsFiniteSet(b) /\ IsFiniteSet(c[p])
    <3> HIDE DEF b
    <3> QED BY <2>6, FS_Subset
  <2>8. SumFunctionOnSet(f, c[p] \cup b)
           = SumFunctionOnSet(f, c[p]) + SumFunctionOnSet(f, b)
    <3>1. \A x \in c[p] \cup b : f[x] \in Int
      BY <2>6
    <3> HIDE DEF b
    <3> QED BY <2>4, <2>7, <3>1, SumJoin
  <2>9. g[p] = SumFunctionOnSet(f, c[p])
    BY <2>1
  <2>10. SumFunctionOnSet(g, U) # SumFunctionOnSet(f, all(U))
    BY <1>3
  <2> QED BY <2>2, <2>3, <2>5, <2>8, <2>9, <2>10
<1> QED BY <1>5, <1>6

-----------------------------------------------------------------------------
(* The books balance.                                                      *)

\* Every line credits an order that was served.
Served ==
    /\ Backlog \subseteq earned
    /\ \A s \in Settlements : credits[s] \subseteq earned

Deductions ==
    /\ deducted \in [Settlements -> [Orders -> Nat]]
    /\ \A s \in Daily, o \in Orders \ Backlog : deducted[s][o] = 0
    /\ RefundsComeOffOnce

DeductInv ==
    /\ ClaimInv
    /\ refunded \in [Orders -> Nat]
    /\ IsFiniteSet(Live)
    /\ Served
    /\ Deductions

LEMMA DeductedIsSum ==
    ASSUME NEW o, NEW set
    PROVE  Deducted(o, set) = SumFunctionOnSet([s \in set |-> deducted[s][o]], set)
BY DEF Deducted, SumFunction

LEMMA DeductedIsSumNext ==
    ASSUME NEW o, NEW set
    PROVE  SumFunction([s \in set |-> deducted'[s][o]])
              = SumFunctionOnSet([s \in set |-> deducted'[s][o]], set)
BY DEF SumFunction

\* A sum with and without a member, of values that agree on the rest.
LEMMA SumsOfLines ==
    ASSUME NEW set, IsFiniteSet(set), NEW less, IsFiniteSet(less),
           NEW d, NEW e, NEW x \in set, less = set \ {x},
           \A s \in set : d[s] \in Int, \A s \in less : e[s] = d[s]
    PROVE  /\ SumFunctionOnSet(d, set) = d[x] + SumFunctionOnSet(e, less)
           /\ SumFunctionOnSet(e, less) \in Int
<1>1. SumFunctionOnSet(d, set) = d[x] + SumFunctionOnSet(d, less)
  BY SumWithout
<1>2. SumFunctionOnSet(d, less) = SumFunctionOnSet(e, less)
  BY SumSame
<1>3. \A s \in less : e[s] \in Int
  OBVIOUS
<1>4. SumFunctionOnSet(e, less) \in Int
  BY <1>3, SumTyped
<1> QED BY <1>1, <1>2, <1>4

\* Fewer settlements deduct less.
LEMMA FewerDeduct ==
    ASSUME Deductions, IsFiniteSet(Live), NEW o \in Orders,
           NEW set \in SUBSET Live, NEW part \in SUBSET set
    PROVE  /\ Deducted(o, part) <= Deducted(o, set)
           /\ Deducted(o, part) \in Nat /\ Deducted(o, set) \in Nat
<1> DEFINE d == [s \in set |-> deducted[s][o]]
           e == [s \in part |-> deducted[s][o]]
<1>1. Live \subseteq Settlements /\ IsFiniteSet(set) /\ IsFiniteSet(part)
  BY FS_Subset DEF Live
<1>2. /\ \A s \in set : d[s] \in Nat
      /\ \A s \in part : e[s] = d[s] /\ e[s] \in Nat
  BY <1>1 DEF Deductions
<1>3. Deducted(o, set) = SumFunctionOnSet(d, set) /\ Deducted(o, part) = SumFunctionOnSet(e, part)
  BY DeductedIsSum
<1> HIDE DEF d, e
<1>4. SumFunctionOnSet(e, part) = SumFunctionOnSet(d, part)
  BY <1>1, <1>2, SumSame
<1>5. SumFunctionOnSet(d, part) <= SumFunctionOnSet(d, set)
  BY <1>1, <1>2, SumOfPart
<1>6. SumFunctionOnSet(d, set) \in Nat /\ SumFunctionOnSet(e, part) \in Nat
  BY <1>1, <1>2, SumTyped
<1> QED BY <1>3, <1>4, <1>5, <1>6

\* What is deducted takes from what is credited, credits are apart, and all are earned.
LEMMA NothingOverpaid == ASSUME DeductInv PROVE NeverOverpaid
<1> DEFINE paying == Live \ Retried
           worth == [s \in paying |-> Worth(credits[s])]
           pays == [s \in paying |-> Payable(s)]
           claimed == UNION {credits[s] : s \in paying}
<1>1. /\ Deductions /\ Unshared(paying) /\ IsFiniteSet(paying) /\ paying \subseteq Settlements
      /\ earned \subseteq Orders
      /\ \A s \in paying : credits[s] \subseteq earned
  <2>1. paying \subseteq Live /\ paying \subseteq Settlements
    BY DEF Live
  <2>2. IsFiniteSet(paying)
    BY <2>1, FS_Subset DEF DeductInv
  <2> QED BY <2>1, <2>2 DEF DeductInv, ClaimInv, OnceInv, Inv, Typed, Served
<1>2. IsFiniteSet(Orders) /\ IsFiniteSet(earned) /\ \A o \in Orders : Earnings[o] \in Nat
  BY <1>1, PayoutsAssumption, FS_Subset
<1>3. ASSUME NEW s \in paying
      PROVE  worth[s] \in Nat /\ pays[s] \in Int /\ pays[s] <= worth[s]
  <2>1. Worth(credits[s]) \in Nat
    <3>1. IsFiniteSet(credits[s]) /\ \A o \in credits[s] : Earnings[o] \in Nat
      BY <1>1, <1>2, FS_Subset
    <3> QED BY <3>1, SumTyped DEF Worth
  <2>2. SumFunction(deducted[s]) \in Nat
    <3>1. DOMAIN deducted[s] = Orders /\ \A o \in Orders : deducted[s][o] \in Nat
      BY <1>1 DEF Deductions
    <3>2. SumFunctionOnSet(deducted[s], Orders) \in Nat
      BY <1>2, <3>1, SumTyped
    <3> QED BY <3>1, <3>2 DEF SumFunction
  <2>3. pays[s] = Worth(credits[s]) - SumFunction(deducted[s]) /\ worth[s] = Worth(credits[s])
    BY DEF Payable
  <2> HIDE DEF pays, worth
  <2> QED BY <2>1, <2>2, <2>3
<1>4. \A s \in paying : worth[s] = SumFunctionOnSet(Earnings, credits[s])
  BY DEF Worth
<1>5. NeverOverpaid <=> SumFunctionOnSet(pays, paying) <= SumFunctionOnSet(Earnings, earned)
  BY DEF SumFunction, NeverOverpaid, Worth
<1> HIDE DEF worth, pays, paying
<1>6. SumFunctionOnSet(pays, paying) <= SumFunctionOnSet(worth, paying)
  BY <1>1, <1>3, SumAtMost
<1>7. SumFunctionOnSet(worth, paying) = SumFunctionOnSet(Earnings, claimed)
  <2>1. \A s \in paying : credits[s] \subseteq Orders
    BY <1>1
  <2>2. \A s, t \in paying : s # t => credits[s] \cap credits[t] = {}
    BY <1>1 DEF Unshared
  <2>3. \A o \in Orders : Earnings[o] \in Int
    BY <1>2
  <2> QED BY <1>1, <1>2, <1>4, <2>1, <2>2, <2>3, SumOfSums
<1>8. SumFunctionOnSet(Earnings, claimed) <= SumFunctionOnSet(Earnings, earned)
  <2>1. claimed \subseteq earned /\ \A o \in earned : Earnings[o] \in Nat
    BY <1>1, <1>2
  <2> HIDE DEF claimed
  <2> QED BY <1>2, <2>1, SumOfPart
<1>9. /\ SumFunctionOnSet(pays, paying) \in Int
      /\ SumFunctionOnSet(worth, paying) \in Int
      /\ SumFunctionOnSet(Earnings, earned) \in Int
  BY <1>1, <1>2, <1>3, SumTyped
<1> HIDE DEF claimed
<1>10. SumFunctionOnSet(pays, paying) <= SumFunctionOnSet(Earnings, earned)
  BY <1>6, <1>7, <1>8, <1>9
<1> QED BY <1>5, <1>10

\* Lines are written for orders served, which stay served.
LEMMA CreditsEarned ==
    ASSUME ClaimInv, Served, [Next]_vars PROVE Served'
<1> USE DEF Served
<1> SUFFICES earned \subseteq earned' /\ \A s \in Settlements : credits'[s] \subseteq earned'
  OBVIOUS
<1>1. CASE UNCHANGED credits /\ earned \subseteq earned'
  BY <1>1
<1>2. ASSUME NEW c \in Calls, NEW s \in Settlements, RequestWithdrawal(c, s)
      PROVE  earned' = earned /\ \A t \in Settlements : credits'[t] \subseteq earned'
  <2>1. credits' = [credits EXCEPT ![s] = WithdrawableCredits] /\ earned' = earned
    BY <1>2 DEF RequestWithdrawal, world
  <2>2. WithdrawableCredits \subseteq earned
    BY DEF WithdrawableCredits
  <2> QED BY <2>1, <2>2 DEF ClaimInv
<1>3. ASSUME NEW s \in Settlements, GenerateSettlement(s)
      PROVE  earned' = earned /\ \A t \in Settlements : credits'[t] \subseteq earned'
  BY <1>3 DEF GenerateSettlement, world, ClaimInv
<1>4. CASE UNCHANGED vars
  BY <1>1, <1>4 DEF vars, lines, world
<1>5. ASSUME NEW o \in Orders, OrderEarned(o) \/ RefundSucceeds(o)
      PROVE  UNCHANGED credits /\ earned \subseteq earned'
  BY <1>5 DEF OrderEarned, RefundSucceeds, lines
<1>6. ASSUME NEW s \in Settlements,
             \/ ApproveSettlement(s) \/ MarkSettlementPaid(s) \/ HoldPasses(s)
             \/ \E n \in Attempts : \/ PaystackSettles(s, n)
                                    \/ \E outcome \in Transfers : Webhook(s, n, outcome)
      PROVE  UNCHANGED <<credits, earned>>
  BY <1>6 DEF ApproveSettlement, MarkSettlementPaid, HoldPasses, PaystackSettles, Webhook,
     world, lines
<1>7. ASSUME NEW s \in Settlements, NEW c \in Calls,
             \/ RunPayouts(c, s) \/ PaySettlement(c, s)
             \/ \E n \in Attempts : SweepPending(c, s, n)
      PROVE  UNCHANGED <<credits, earned>>
  BY <1>7 DEF RunPayouts, PaySettlement, StartPay, SweepPending, world, lines
<1>8. ASSUME NEW c \in Calls, Step(c) \/ Die(c) PROVE UNCHANGED <<credits, earned>>
  BY <1>8 DEF Step, Die, FindActiveTransfer, NextAttempt, InitiateTransfer, VerifyTransfer,
     CancelOnDemandSettlement, RecordTransfer, ApplyReconcile, world, lines
<1> QED
  BY <1>1, <1>2, <1>3, <1>4, <1>5, <1>6, <1>7, <1>8 DEF Next

\* A settlement sent a second time stays one.
LEMMA RetriedAgain == ASSUME ClaimInv, [Next]_vars PROVE Retried \subseteq Retried'
<1> SUFFICES \A s \in Settlements, n \in Attempts :
                sent[s][n] # "none" => sent'[s][n] # "none"
  BY DEF Retried
<1>1. CASE UNCHANGED sent
  BY <1>1
<1>2. ASSUME NEW s \in Settlements, NEW n \in Attempts, PaystackSettles(s, n)
      PROVE  \A t \in Settlements, m \in Attempts :
                sent[t][m] # "none" => sent'[t][m] # "none"
  BY <1>2 DEF PaystackSettles, ClaimInv, OnceInv, Inv, Typed
<1>3. ASSUME NEW c \in Calls, InitiateTransfer(c)
      PROVE  \A t \in Settlements, m \in Attempts :
                sent[t][m] # "none" => sent'[t][m] # "none"
  BY <1>3 DEF InitiateTransfer, ClaimInv, OnceInv, Inv, Typed
<1>4. CASE UNCHANGED vars
  BY <1>1, <1>4 DEF vars
<1>5. ASSUME NEW o \in Orders, OrderEarned(o) \/ RefundSucceeds(o) PROVE UNCHANGED sent
  BY <1>5 DEF OrderEarned, RefundSucceeds
<1>6. ASSUME NEW s \in Settlements,
             \/ GenerateSettlement(s) \/ ApproveSettlement(s) \/ MarkSettlementPaid(s)
             \/ HoldPasses(s)
             \/ \E n \in Attempts, outcome \in Transfers : Webhook(s, n, outcome)
      PROVE  UNCHANGED sent
  BY <1>6 DEF GenerateSettlement, ApproveSettlement, MarkSettlementPaid, HoldPasses, Webhook
<1>7. ASSUME NEW s \in Settlements, NEW c \in Calls,
             \/ RequestWithdrawal(c, s) \/ RunPayouts(c, s) \/ PaySettlement(c, s)
             \/ \E n \in Attempts : SweepPending(c, s, n)
      PROVE  UNCHANGED sent
  BY <1>7 DEF RequestWithdrawal, RunPayouts, PaySettlement, StartPay, SweepPending
<1>8. ASSUME NEW c \in Calls, Step(c) \/ Die(c), ~InitiateTransfer(c) PROVE UNCHANGED sent
  BY <1>8 DEF Step, Die, FindActiveTransfer, NextAttempt, VerifyTransfer,
     CancelOnDemandSettlement, RecordTransfer, ApplyReconcile
<1> QED
  BY <1>1, <1>2, <1>3, <1>4, <1>5, <1>6, <1>7, <1>8 DEF Next, Step

\* A step that writes no lines and brings no settlement to life, unless it was
\* sent twice.
LEMMA DeductQuiet ==
    ASSUME DeductInv, ClaimInv', Served', Retried \subseteq Retried',
           deducted' = deducted, refunded' \in [Orders -> Nat],
           \A o \in Orders : refunded[o] <= refunded'[o],
           NEW s, Live' \subseteq Live \cup {s},
           s \in Live' => s \in Live \/ s \in Retried'
    PROVE  DeductInv'
<1>1. IsFiniteSet(Live')
  BY FS_AddElement, FS_Subset DEF DeductInv
<1> DEFINE before == Live \ Retried
           after == (Live \ Retried)'
<1>2. after \subseteq before /\ before \subseteq Live
  OBVIOUS
<1>3. ASSUME NEW o \in Orders \ Backlog PROVE Deducted(o, Live \ Retried)' <= refunded'[o]
  <2>1. Deducted(o, Live \ Retried)' = Deducted(o, after)
    BY DEF Deducted
  <2> HIDE DEF after, before
  <2>2. /\ Deducted(o, after) <= Deducted(o, before)
        /\ Deducted(o, after) \in Nat /\ Deducted(o, before) \in Nat
    BY <1>2, FewerDeduct DEF DeductInv
  <2>3. Deducted(o, before) <= refunded[o]
    BY DEF DeductInv, Deductions, RefundsComeOffOnce, before
  <2>4. refunded[o] \in Nat /\ refunded'[o] \in Nat /\ refunded[o] <= refunded'[o]
    BY DEF DeductInv
  <2> QED BY <2>1, <2>2, <2>3, <2>4
<1>4. Deductions'
  BY <1>3 DEF DeductInv, Deductions, RefundsComeOffOnce
<1> QED BY <1>1, <1>4 DEF DeductInv

\* A withdrawal takes each refund as far as no live settlement has taken it.
LEMMA RequestDeducts ==
    ASSUME DeductInv, ClaimInv', Served', NEW c \in Calls, NEW s \in Settlements,
           RequestWithdrawal(c, s)
    PROVE  DeductInv'
<1>1. /\ s \notin Daily /\ status[s] = "none" /\ UNCHANGED <<sent, refunded>>
      /\ status' = [status EXCEPT ![s] = "approved"]
      /\ deducted' = [deducted EXCEPT ![s] = UnsettledRefunds]
  BY DEF RequestWithdrawal, world
<1>2. status \in [Settlements -> SettlementStatuses] /\ Deductions
      /\ \A n \in Attempts : sent[s][n] = "none"
  BY <1>1 DEF DeductInv, ClaimInv, OnceInv, Inv, Typed, Alone
<1> DEFINE before == Live \ Retried
           after == (Live \ Retried)'
<1>3. /\ Live' = Live \cup {s} /\ s \notin Live /\ Live \subseteq Settlements
      /\ after = before \cup {s} /\ before \subseteq Live
  BY <1>1, <1>2 DEF Retried, Live
<1>4. /\ IsFiniteSet(Live) /\ IsFiniteSet(Live') /\ IsFiniteSet(before)
      /\ IsFiniteSet(after)
  BY <1>3, FS_AddElement, FS_Subset DEF DeductInv
<1>5. ASSUME NEW o \in Orders
      PROVE  /\ UnsettledRefunds[o] \in Nat
             /\ o \notin Backlog =>
                   UnsettledRefunds[o] = 0
                   \/ UnsettledRefunds[o] = refunded[o] - Deducted(o, Live)
  <2>1. refunded[o] \in Nat /\ Deducted(o, Live) \in Nat
    BY <1>2, <1>4, FewerDeduct DEF DeductInv
  <2>2. UnsettledRefunds[o] = LET rest == refunded[o] - Deducted(o, Live) IN
                              IF o \in Backlog \/ rest < 0 THEN 0 ELSE rest
    BY DEF UnsettledRefunds
  <2> QED BY <2>1, <2>2
<1>6. UnsettledRefunds \in [Orders -> Nat]
  <2>1. UnsettledRefunds = [o \in Orders |-> UnsettledRefunds[o]]
    BY DEF UnsettledRefunds
  <2> QED BY <1>5, <2>1
<1>7. /\ deducted' \in [Settlements -> [Orders -> Nat]]
      /\ deducted'[s] = UnsettledRefunds
      /\ \A t \in Settlements \ {s} : deducted'[t] = deducted[t]
  BY <1>1, <1>2, <1>6 DEF Deductions
<1>8. ASSUME NEW o \in Orders \ Backlog PROVE Deducted(o, Live \ Retried)' <= refunded'[o]
  <2> DEFINE d == [t \in before |-> deducted[t][o]]
             e == [t \in after |-> deducted'[t][o]]
  <2>1. /\ \A t \in after : e[t] \in Int
        /\ \A t \in before : d[t] = e[t]
        /\ e[s] = UnsettledRefunds[o]
    BY <1>3, <1>7
  <2>2. /\ Deducted(o, before) = SumFunctionOnSet(d, before)
        /\ Deducted(o, Live \ Retried)' = SumFunctionOnSet(e, after)
    BY DeductedIsSum, DeductedIsSumNext DEF Deducted
  <2>3. before = after \ {s} /\ s \in after
    BY <1>3
  <2>4. Deducted(o, before) <= refunded[o]
    BY <1>2 DEF Deductions, RefundsComeOffOnce
  <2>5. Deducted(o, before) <= Deducted(o, Live) /\ Deducted(o, before) \in Nat
        /\ Deducted(o, Live) \in Nat
    BY <1>2, <1>3, <1>4, FewerDeduct
  <2> HIDE DEF d, e, before, after
  <2>6. SumFunctionOnSet(e, after) = e[s] + SumFunctionOnSet(d, before)
    BY <1>4, <2>1, <2>3, SumsOfLines
  <2>7. refunded[o] \in Nat /\ refunded'[o] = refunded[o]
    BY <1>1 DEF DeductInv
  <2>8. UnsettledRefunds[o] = 0 \/ UnsettledRefunds[o] = refunded[o] - Deducted(o, Live)
    BY <1>5
  <2> QED BY <2>1, <2>2, <2>4, <2>5, <2>6, <2>7, <2>8
<1>9. \A t \in Daily, o \in Orders \ Backlog : deducted'[t][o] = 0
  BY <1>1, <1>2, <1>7, PayoutsAssumption DEF Deductions
<1>10. Deductions'
  BY <1>7, <1>8, <1>9 DEF Deductions, RefundsComeOffOnce
<1> QED BY <1>1, <1>4, <1>10 DEF DeductInv

\* A daily settlement deducts the refunds of the backlog and of no other order.
LEMMA GenerateDeducts ==
    ASSUME DeductInv, ClaimInv', Served', NEW s \in Settlements, GenerateSettlement(s)
    PROVE  DeductInv'
<1> DEFINE refunds == [o \in Orders |-> IF o \in Backlog THEN refunded[o] ELSE 0]
           before == Live \ Retried
           after == (Live \ Retried)'
<1>1. /\ s \in Daily /\ UNCHANGED <<sent, refunded>>
      /\ status' = [status EXCEPT ![s] = IF @ = "none" THEN "draft" ELSE @]
      /\ deducted' = [deducted EXCEPT ![s] = refunds]
  BY DEF GenerateSettlement, world
<1>2. status \in [Settlements -> SettlementStatuses] /\ Deductions
  BY DEF DeductInv, ClaimInv, OnceInv, Inv, Typed
<1>3. /\ Live' \subseteq Live \cup {s} /\ Live \subseteq Settlements
      /\ after \in {before, before \cup {s}} /\ before \subseteq Live
  BY <1>1, <1>2 DEF Retried, Live
<1>4. /\ IsFiniteSet(Live) /\ IsFiniteSet(Live') /\ IsFiniteSet(before)
      /\ IsFiniteSet(after)
  BY <1>3, FS_AddElement, FS_Subset DEF DeductInv
<1>5. /\ deducted' \in [Settlements -> [Orders -> Nat]]
      /\ deducted'[s] = refunds
      /\ \A t \in Settlements \ {s} : deducted'[t] = deducted[t]
  <2>1. refunds \in [Orders -> Nat]
    BY DEF DeductInv
  <2> QED BY <1>1, <1>2, <2>1 DEF Deductions
<1>6. \A t \in Daily, o \in Orders \ Backlog : deducted'[t][o] = 0
  BY <1>1, <1>2, <1>5, PayoutsAssumption DEF Deductions
<1>7. \A t \in Settlements, o \in Orders \ Backlog : deducted'[t][o] = deducted[t][o]
  BY <1>1, <1>2, <1>5, <1>6 DEF Deductions
<1>8. ASSUME NEW o \in Orders \ Backlog PROVE Deducted(o, Live \ Retried)' <= refunded'[o]
  <2> DEFINE d == [t \in before |-> deducted[t][o]]
             e == [t \in after |-> deducted'[t][o]]
  <2>1. /\ \A t \in after : e[t] \in Int
        /\ \A t \in before : d[t] = e[t]
        /\ s \in after => e[s] = 0
    BY <1>1, <1>3, <1>5, <1>6, <1>7
  <2>2. /\ Deducted(o, before) = SumFunctionOnSet(d, before)
        /\ Deducted(o, Live \ Retried)' = SumFunctionOnSet(e, after)
    BY DeductedIsSum, DeductedIsSumNext DEF Deducted
  <2>3. Deducted(o, before) <= refunded[o] /\ refunded'[o] = refunded[o]
    BY <1>1, <1>2 DEF Deductions, RefundsComeOffOnce
  <2> HIDE DEF d, e, before, after
  <2>4. CASE after = before
    <3>1. SumFunctionOnSet(d, before) = SumFunctionOnSet(e, before)
      BY <1>4, <2>1, SumSame
    <3> QED BY <2>2, <2>3, <2>4, <3>1
  <2>5. CASE after # before
    <3>1. after = before \cup {s} /\ s \notin before
      BY <1>3, <2>5
    <3>2. before = after \ {s} /\ s \in after
      BY <3>1
    <3>3. /\ SumFunctionOnSet(e, after) = e[s] + SumFunctionOnSet(d, before)
          /\ SumFunctionOnSet(d, before) \in Int
      BY <1>4, <2>1, <3>2, SumsOfLines
    <3>4. e[s] = 0
      BY <2>1, <3>2
    <3> QED BY <2>2, <2>3, <3>3, <3>4
  <2> QED BY <2>4, <2>5
<1>9. Deductions'
  BY <1>5, <1>6, <1>8 DEF Deductions, RefundsComeOffOnce
<1> QED BY <1>1, <1>4, <1>9 DEF DeductInv

\* Settling a transfer takes a withdrawal from the living, or leaves them.
LEMMA ReconcileDeducts ==
    ASSUME DeductInv, ClaimInv', Served', Retried \subseteq Retried',
           UNCHANGED <<deducted, refunded>>,
           NEW s \in Settlements, NEW n \in Attempts,
           NEW outcome \in {"success", "failed", "reversed"}, Reconcile(s, n, outcome),
           Vouched(sent, s, n, outcome)
    PROVE  DeductInv'
<1>1. sent[s][n] = outcome /\ outcome \in {"success", "failed"}
  BY DEF Vouched, DeductInv, ClaimInv
<1>2. \A t \in Settlements :
         \/ status'[t] = status[t]
         \/ t = s /\ outcome = "success" /\ status'[t] = "paid"
         \/ t = s /\ status'[t] = "cancelled"
  BY <1>1 DEF Reconcile, DeductInv, ClaimInv, OnceInv, Inv, Typed
<1>3. outcome = "success" /\ s \notin Retried => s \in Live
  <2>1. s \notin Retried => n = 1
    BY <1>1 DEF Retried
  <2> QED BY <1>1, <2>1 DEF DeductInv, ClaimInv, OnceInv, Alone, Over, Live
<1>4. Live' \subseteq Live \cup {s}
  BY <1>2 DEF Live
<1>5. s \in Live' => s \in Live \/ s \in Retried'
  BY <1>2, <1>3 DEF Live
<1>6. refunded' \in [Orders -> Nat] /\ \A o \in Orders : refunded[o] <= refunded'[o]
  BY DEF DeductInv
<1> QED BY <1>4, <1>5, <1>6, DeductQuiet

LEMMA DeductInit == Init => DeductInv
<1> SUFFICES ASSUME Init PROVE DeductInv
  OBVIOUS
<1>1. Live = {} /\ Live \ Retried = {} /\ IsFiniteSet({})
  BY FS_EmptySet DEF Init, Live
<1>2. ASSUME NEW o PROVE Deducted(o, Live \ Retried) = 0
  <2> DEFINE d == [s \in {} |-> deducted[s][o]]
  <2>1. Deducted(o, Live \ Retried) = SumFunctionOnSet(d, {})
    BY <1>1, DeductedIsSum
  <2> HIDE DEF d
  <2> QED BY <1>1, <2>1, SumUnfolds
<1>3. /\ deducted \in [Settlements -> [Orders -> Nat]] /\ refunded \in [Orders -> Nat]
      /\ \A s \in Settlements, o \in Orders : deducted[s][o] = 0
      /\ \A o \in Orders : refunded[o] = 0
  BY DEF Init
<1>4. Deductions
  <2>1. ASSUME NEW o \in Orders \ Backlog PROVE Deducted(o, Live \ Retried) <= refunded[o]
    <3>1. Deducted(o, Live \ Retried) = 0 /\ refunded[o] = 0
      BY <1>2, <1>3
    <3> QED BY <3>1
  <2> QED BY <1>3, <2>1, PayoutsAssumption DEF Deductions, RefundsComeOffOnce
<1>5. Served
  BY DEF Init, Served
<1> QED BY <1>1, <1>3, <1>4, <1>5, ClaimInit DEF DeductInv

LEMMA DeductNext == ASSUME Orderly, DeductInv, [Next]_vars PROVE DeductInv'
<1>0. ClaimInv' /\ Served' /\ Retried \subseteq Retried'
  BY ClaimNext, CreditsEarned, RetriedAgain DEF DeductInv
<1> DEFINE Kept == refunded' = refunded /\ deducted' = deducted
<1>1. ASSUME Kept, NEW s \in Settlements, Live' \in {Live, Live \ {s}} PROVE DeductInv'
  <2>1. refunded' \in [Orders -> Nat] /\ \A o \in Orders : refunded[o] <= refunded'[o]
    BY <1>1 DEF DeductInv
  <2> QED BY <1>0, <1>1, <2>1, DeductQuiet
<1>2. ASSUME Kept, Live' = Live PROVE DeductInv'
  <2>1. refunded' \in [Orders -> Nat] /\ \A o \in Orders : refunded[o] <= refunded'[o]
    BY <1>2 DEF DeductInv
  <2>2. Live' \subseteq Live \cup {Nothing} /\ (Nothing \in Live' => Nothing \in Live)
    BY <1>2
  <2> QED BY <1>0, <1>2, <2>1, <2>2, DeductQuiet
<1>3. CASE UNCHANGED vars
  BY <1>2, <1>3 DEF vars, lines, world, Live
<1>4. ASSUME NEW o \in Orders, OrderEarned(o) PROVE DeductInv'
  BY <1>2, <1>4 DEF OrderEarned, lines, Live
<1>5. ASSUME NEW o \in Orders, RefundSucceeds(o) PROVE DeductInv'
  <2>1. /\ deducted' = deducted /\ Live' = Live
        /\ refunded' = [refunded EXCEPT ![o] = @ + 1]
    BY <1>5 DEF RefundSucceeds, lines, Live
  <2>2. refunded' \in [Orders -> Nat] /\ \A p \in Orders : refunded[p] <= refunded'[p]
    BY <2>1 DEF DeductInv
  <2>3. Live' \subseteq Live \cup {Nothing} /\ (Nothing \in Live' => Nothing \in Live)
    BY <2>1
  <2> QED BY <1>0, <2>1, <2>2, <2>3, DeductQuiet
<1>6. ASSUME NEW s \in Settlements, GenerateSettlement(s) PROVE DeductInv'
  BY <1>0, <1>6, GenerateDeducts
<1>7. ASSUME NEW s \in Settlements,
             ApproveSettlement(s) \/ MarkSettlementPaid(s) \/ HoldPasses(s)
      PROVE  DeductInv'
  <2>1. Kept
    BY <1>7 DEF ApproveSettlement, MarkSettlementPaid, HoldPasses, world, lines
  <2>2. \A t \in Settlements :
           \/ status'[t] = status[t]
           \/ {status[t], status'[t]} \subseteq {"draft", "approved", "paid"}
    BY <1>7 DEF ApproveSettlement, MarkSettlementPaid, HoldPasses, DeductInv, ClaimInv,
       OnceInv, Inv, Typed
  <2>3. Live' = Live
    BY <2>2 DEF Live
  <2> QED BY <1>2, <2>1, <2>3
<1>8. ASSUME NEW c \in Calls, NEW s \in Settlements, RequestWithdrawal(c, s) PROVE DeductInv'
  BY <1>0, <1>8, RequestDeducts
<1>9. ASSUME NEW c \in Calls, NEW s \in Settlements,
             \/ RunPayouts(c, s) \/ PaySettlement(c, s)
             \/ \E n \in Attempts : SweepPending(c, s, n)
      PROVE  DeductInv'
  BY <1>2, <1>9 DEF RunPayouts, PaySettlement, StartPay, SweepPending, world, lines, Live
<1>10. ASSUME NEW s \in Settlements, NEW n \in Attempts, PaystackSettles(s, n) PROVE DeductInv'
  BY <1>2, <1>10 DEF PaystackSettles, world, lines, Live
<1>11. ASSUME NEW s \in Settlements, NEW n \in Attempts, NEW outcome \in Transfers,
              Webhook(s, n, outcome)
       PROVE  DeductInv'
  <2>1. /\ outcome \in {"success", "failed", "reversed"} /\ Vouched(sent, s, n, outcome)
        /\ Reconcile(s, n, outcome) /\ UNCHANGED <<deducted, refunded>>
    BY <1>11 DEF Webhook, Vouched, lines, world
  <2> QED BY <1>0, <2>1, ReconcileDeducts
<1>12. ASSUME NEW c \in Calls, ApplyReconcile(c) PROVE DeductInv'
  <2> DEFINE s == call[c].settlement
             n == call[c].attempt
             outcome == call[c].answer
  <2>1. /\ s \in Settlements /\ n \in Attempts
        /\ outcome \in {"success", "failed", "reversed"} /\ Vouched(sent, s, n, outcome)
    BY <1>12 DEF ApplyReconcile, DeductInv, ClaimInv, Ready, OnceInv, Inv, Typed, Carries,
       Call, Transfers, Vouched
  <2>2. Reconcile(s, n, outcome) /\ UNCHANGED <<deducted, refunded>>
    BY <1>12 DEF ApplyReconcile, lines, world
  <2> HIDE DEF s, n, outcome
  <2> QED BY <1>0, <2>1, <2>2, ReconcileDeducts
<1>13. ASSUME NEW c \in Calls, CancelOnDemandSettlement(c) PROVE DeductInv'
  <2>1. Kept /\ call[c].settlement \in Settlements
    <3>1. call[c].step = "release" /\ Kept
      BY <1>13 DEF CancelOnDemandSettlement, world, lines
    <3> QED BY <3>1 DEF DeductInv, ClaimInv, OnceInv, Inv, Carries
  <2>2. \A t \in Settlements :
           \/ status'[t] = status[t]
           \/ t = call[c].settlement /\ status'[t] = "cancelled"
    <3>1. status' \in {status, [status EXCEPT ![call[c].settlement] = "cancelled"]}
      BY <1>13 DEF CancelOnDemandSettlement
    <3>2. status \in [Settlements -> SettlementStatuses]
      BY DEF DeductInv, ClaimInv, OnceInv, Inv, Typed
    <3> QED BY <2>1, <3>1, <3>2
  <2>3. Live' \in {Live, Live \ {call[c].settlement}}
    <3> DEFINE s == call[c].settlement
    <3>1. CASE status'[s] = status[s]
      BY <2>2, <3>1 DEF Live
    <3>2. CASE status'[s] = "cancelled"
      BY <2>2, <3>2 DEF Live
    <3> QED BY <2>1, <2>2, <3>1, <3>2
  <2> QED BY <1>1, <2>1, <2>3
<1>14. ASSUME NEW c \in Calls,
              \/ FindActiveTransfer(c) \/ NextAttempt(c) \/ InitiateTransfer(c)
              \/ VerifyTransfer(c) \/ RecordTransfer(c) \/ Die(c)
       PROVE  DeductInv'
  BY <1>2, <1>14 DEF FindActiveTransfer, NextAttempt, InitiateTransfer, VerifyTransfer,
     RecordTransfer, Die, world, lines, Live
<1> QED
  BY <1>3, <1>4, <1>5, <1>6, <1>7, <1>8, <1>9, <1>10, <1>11, <1>12, <1>13, <1>14
     DEF Next, Step

\* The books of a beneficiary balance: an order's refunds are deducted once, and live
\* settlements together pay no more than the orders served earned, for any number
\* of orders, refunds, withdrawals and calls, whatever is lost, released or dies, as
\* long as calls do not overlap, Paystack answers truly and reverses nothing, and
\* apart from settlements that are sent a second time.
THEOREM BooksAlwaysBalance == ASSUME Orderly PROVE Spec => []BooksBalance
<1>1. Init => DeductInv
  BY DeductInit
<1>2. DeductInv /\ [Next]_vars => DeductInv'
  BY DeductNext
<1>3. DeductInv => BooksBalance
  BY NothingOverpaid DEF DeductInv, Deductions, BooksBalance
<1> QED BY <1>1, <1>2, <1>3, PTL DEF Spec
=============================================================================
