---------------------------- MODULE RefundsProofs ----------------------------
(***************************************************************************)
(* For any number of requests, rows and any amount: a refund shown as      *)
(* succeeded is backed, since a task that will write "succeeded" has moved *)
(* money; and a refund on which no two requests meet adds up.              *)
(***************************************************************************)
EXTENDS Refunds, TLAPS

\* What a task carries in each of its steps.
Carries(a) ==
    LET t == task[a] IN
    /\ t.step \in {"credit", "call", "record", "resolve"} =>
          t.row \in Rows /\ amount[t.row] >= 1
    /\ t.step \in {"create", "credit", "call"} => t.amount >= 1
    /\ t.step = "record" /\ t.answer = "succeeded" => Moved(t.row) > 0

RowsHaveAmounts == \A f \in Rows : status[f] # "none" => amount[f] >= 1

Inv ==
    /\ TypeOK
    /\ RowsHaveAmounts
    /\ \A a \in Tasks : Carries(a)
    /\ SucceededIsBacked

LEMMA InitInv == Init => Inv
BY RefundsAssumption
   DEF Init, Inv, TypeOK, Task, Steps, Statuses, Idle, RowsHaveAmounts, Carries,
       SucceededIsBacked, Moved

LEMMA IdleIsTask == Idle \in Task /\ Idle.step = "idle"
BY RefundsAssumption DEF Idle, Task, Steps, Statuses

\* A task changes its own state and nothing else.
LEMMA OwnTask ==
    ASSUME Inv, NEW a \in Tasks, NEW t \in Task,
           task' = [task EXCEPT ![a] = t],
           UNCHANGED <<rows, money, byHand>>, crossed' \in SUBSET Rows,
           t.step # "record",
           t.step \in {"credit", "call", "record", "resolve"} =>
              t.row \in Rows /\ amount[t.row] >= 1,
           t.step \in {"create", "credit", "call"} => t.amount >= 1
    PROVE  Inv'
<1>1. TypeOK'
  BY DEF Inv, TypeOK, rows, money
<1>2. RowsHaveAmounts' /\ SucceededIsBacked'
  BY DEF Inv, RowsHaveAmounts, SucceededIsBacked, Moved, rows, money
<1>3. ASSUME NEW b \in Tasks PROVE Carries(b)'
  <2>1. CASE b = a
    <3>1. task'[b] = t
      BY <2>1 DEF Inv, TypeOK
    <3> QED BY <3>1 DEF Carries, rows
  <2>2. CASE b # a
    <3>1. task'[b] = task[b] /\ Carries(b)
      BY <2>2 DEF Inv, TypeOK
    <3> QED BY <3>1 DEF Carries, Moved, money, rows
  <2> QED BY <2>1, <2>2
<1> QED BY <1>1, <1>2, <1>3 DEF Inv

LEMMA RequestKeepsInv == ASSUME Inv, NEW a \in Tasks, Request(a) PROVE Inv'
<1>0. Idle.row = Nothing /\ Idle.amount = 0 /\ Idle.destination = "wallet"
      /\ Idle.read = "none" /\ Idle.answer = "none" /\ Paid \in Nat /\ Idle \in Task
  BY RefundsAssumption, IdleIsTask DEF Idle
<1>1. ASSUME NEW t \in Task, Start(a, t), t.step # "record",
             t.step \in {"credit", "call", "record", "resolve"} =>
              t.row \in Rows /\ amount[t.row] >= 1,
             t.step \in {"create", "credit", "call"} => t.amount >= 1
      PROVE  Inv'
  <2>1. crossed' \in SUBSET Rows
    BY <1>1 DEF Start, Inv, TypeOK
  <2> QED BY <1>1, <2>1, OwnTask DEF Start
<1>2. CASE \E kobo \in 1..Paid : \E d \in Destinations : InitiateRefund(a, kobo, d)
  <2>1. PICK kobo \in 1..Paid, d \in Destinations : InitiateRefund(a, kobo, d)
    BY <1>2
  <2> DEFINE t == [Idle EXCEPT !.step = "create", !.amount = kobo, !.destination = d]
  <2>4. kobo \in 0..Paid /\ kobo >= 1 /\ d \in {"wallet", "paystack"}
    BY <1>0, RefundsAssumption
  <2>2. t \in Task /\ t.step = "create" /\ t.amount = kobo
    BY <2>4 DEF Task, Steps, Statuses, Idle
  <2>3. Start(a, t)
    BY <2>1 DEF InitiateRefund
  <2> HIDE DEF t
  <2> QED BY <1>1, <2>2, <2>3, <2>4
<1>3. ASSUME NEW f \in Rows, RetryRefund(a, f) PROVE Inv'
  <2> DEFINE t == [Idle EXCEPT !.step = "call", !.row = f, !.amount = amount[f],
                               !.destination = "paystack", !.read = status[f]]
  <2>1. amount[f] \in 0..Paid /\ amount[f] >= 1 /\ status[f] \in Statuses
    BY <1>3 DEF RetryRefund, Inv, RowsHaveAmounts, TypeOK
  <2>2. t \in Task /\ t.step = "call" /\ t.amount = amount[f] /\ t.row = f
    BY <1>0, <2>1 DEF Task, Steps, Statuses, Idle
  <2>3. Start(a, t)
    BY <1>3 DEF RetryRefund
  <2> QED BY <1>1, <2>1, <2>2, <2>3
<1>4. ASSUME NEW f \in Rows, NEW kobo \in 1..Paid, InitiateApprovedRefund(a, f, kobo)
      PROVE  Inv'
  <2> DEFINE t == [Idle EXCEPT !.step = "call", !.row = f, !.amount = kobo,
                               !.destination = "paystack", !.read = status[f]]
  <2>1. status[f] \in Statuses /\ kobo \in 0..Paid /\ kobo >= 1 /\ amount[f] >= 1
    BY <1>0, <1>4 DEF Inv, TypeOK, RowsHaveAmounts, InitiateApprovedRefund
  <2>2. t \in Task /\ t.step = "call" /\ t.amount = kobo /\ t.row = f
    BY <2>1 DEF Task, Steps, Statuses, Idle
  <2>3. Start(a, t)
    BY <1>4 DEF InitiateApprovedRefund
  <2> HIDE DEF t
  <2> QED BY <1>1, <2>1, <2>2, <2>3
<1>5. ASSUME NEW f \in Rows, NEW o \in Statuses,
             ResolveRefund(a, f, o) \/ DecideRefund(a, f, o)
      PROVE  Inv'
  <2>3. amount[f] >= 1
    BY <1>5 DEF Inv, RowsHaveAmounts, ResolveRefund, DecideRefund
  <2> DEFINE t == [Idle EXCEPT !.step = "resolve", !.row = f, !.answer = o]
  <2>1. t \in Task /\ t.step = "resolve" /\ t.row = f
    BY <1>0 DEF Task, Steps, Statuses, Idle
  <2>2. Start(a, t)
    BY <1>5 DEF ResolveRefund, DecideRefund
  <2> HIDE DEF t
  <2> QED BY <1>1, <2>1, <2>2, <2>3
<1> QED BY <1>2, <1>3, <1>4, <1>5 DEF Request, Statuses

\* The steps that write.
LEMMA CreateKeepsInv == ASSUME Inv, NEW a \in Tasks, CreateRefundRequest(a) PROVE Inv'
<1>1. PICK f \in Rows :
         /\ status[f] = "none"
         /\ status' = [status EXCEPT ![f] = "requested"]
         /\ amount' = [amount EXCEPT ![f] = task[a].amount]
         /\ task' = [task EXCEPT ![a].row = f,
               ![a].step = IF task[a].destination = "wallet" THEN "credit" ELSE "call"]
  BY DEF CreateRefundRequest
<1>2. task[a] \in Task /\ task[a].amount \in 0..Paid /\ task[a].amount >= 1
  BY DEF Inv, TypeOK, Task, Carries, CreateRefundRequest
<1>3. PICK step \in {"credit", "call"} :
         step = IF task[a].destination = "wallet" THEN "credit" ELSE "call"
  OBVIOUS
<1> DEFINE t == [task[a] EXCEPT !.row = f, !.step = step]
<1>4. t \in Task /\ t.step = step /\ t.row = f /\ t.amount = task[a].amount
  BY <1>2 DEF Task, Steps
<1>5. task' = [task EXCEPT ![a] = t]
  BY <1>1, <1>3
<1> HIDE DEF t
<1>6. UNCHANGED <<money, byHand, crossed>>
  BY DEF CreateRefundRequest
<1>7. TypeOK'
  <2>1. status' \in [Rows -> Statuses] /\ amount' \in [Rows -> 0..Paid]
    BY <1>1, <1>2 DEF Inv, TypeOK, Statuses
  <2>2. task' \in [Tasks -> Task]
    BY <1>4, <1>5 DEF Inv, TypeOK
  <2> QED BY <1>6, <2>1, <2>2 DEF Inv, TypeOK, money
<1>10. amount'[f] >= 1 /\ \A g \in Rows : amount[g] >= 1 => amount'[g] >= 1
  BY <1>1, <1>2 DEF Inv, TypeOK
<1>8. RowsHaveAmounts' /\ SucceededIsBacked'
  BY <1>1, <1>2, <1>6 DEF Inv, TypeOK, RowsHaveAmounts, SucceededIsBacked, Moved, money
<1>9. ASSUME NEW b \in Tasks PROVE Carries(b)'
  <2>1. CASE b = a
    <3>1. task'[b] = t
      BY <1>5, <2>1 DEF Inv, TypeOK
    <3> QED BY <1>2, <1>4, <1>10, <3>1 DEF Carries
  <2>2. CASE b # a
    <3>1. task'[b] = task[b] /\ Carries(b)
      BY <1>5, <2>2 DEF Inv, TypeOK
    <3> QED BY <1>6, <1>10, <3>1 DEF Carries, Moved, money
  <2> QED BY <2>1, <2>2
<1> QED BY <1>7, <1>8, <1>9 DEF Inv

\* Money moves, if at all, for the task's own row.
LEMMA SendKeepsInv ==
    ASSUME Inv, NEW a \in Tasks, CreditRefundToWallet(a) \/ CreateRefund(a)
    PROVE  Inv'
<1>1. /\ task[a] \in Task /\ task[a].row \in Rows /\ task[a].amount \in Nat
      /\ task[a].amount >= 1 /\ amount[task[a].row] >= 1
  BY RefundsAssumption DEF Inv, TypeOK, Task, Carries, CreditRefundToWallet, CreateRefund
<1>2. PICK answer \in {"succeeded", "processing", "failed"} :
         /\ Continue(a, "record", answer)
         /\ \/ /\ toWallet' = [toWallet EXCEPT ![task[a].row] = @ + task[a].amount]
               /\ toCard' = toCard
            \/ /\ toCard' = [toCard EXCEPT ![task[a].row] = @ + task[a].amount]
               /\ toWallet' = toWallet
            \/ answer = "failed" /\ UNCHANGED money
  BY DEF CreditRefundToWallet, CreateRefund, money
<1>3. UNCHANGED <<rows, byHand, crossed>>
  BY DEF CreditRefundToWallet, CreateRefund
<1>4. toWallet \in [Rows -> Nat] /\ toCard \in [Rows -> Nat]
  BY DEF Inv, TypeOK
<1>5. /\ toWallet' \in [Rows -> Nat] /\ toCard' \in [Rows -> Nat]
      /\ \A f \in Rows : toWallet'[f] >= toWallet[f] /\ toCard'[f] >= toCard[f]
      /\ answer # "failed" => toWallet'[task[a].row] + toCard'[task[a].row] > 0
  BY <1>1, <1>2, <1>4 DEF money
<1>6. \A f \in Rows : Moved(f) > 0 => Moved(f)' > 0
  BY <1>4, <1>5 DEF Moved
<1> DEFINE t == [task[a] EXCEPT !.step = "record", !.answer = answer]
<1>7. t \in Task /\ t.step = "record" /\ t.row = task[a].row /\ t.answer = answer
  BY <1>1 DEF Task, Steps, Statuses
<1>8. task' = [task EXCEPT ![a] = t]
  BY <1>2 DEF Continue
<1> HIDE DEF t
<1>9. TypeOK'
  BY <1>3, <1>5, <1>7, <1>8 DEF Inv, TypeOK, rows
<1>10. RowsHaveAmounts' /\ SucceededIsBacked'
  BY <1>3, <1>6 DEF Inv, RowsHaveAmounts, SucceededIsBacked, rows
<1>11. ASSUME NEW b \in Tasks PROVE Carries(b)'
  <2>1. CASE b = a
    <3>1. task'[b] = t
      BY <1>8, <2>1 DEF Inv, TypeOK
    <3> QED BY <1>1, <1>3, <1>5, <1>7, <3>1 DEF Carries, Moved, rows
  <2>2. CASE b # a
    <3>1. task'[b] = task[b] /\ Carries(b)
      BY <1>8, <2>2 DEF Inv, TypeOK
    <3> QED BY <1>3, <1>6, <3>1 DEF Carries, rows
  <2> QED BY <2>1, <2>2
<1> QED BY <1>9, <1>10, <1>11 DEF Inv

\* The row is written and the task is over.
LEMMA WriteKeepsInv ==
    ASSUME Inv, NEW a \in Tasks, Record(a) \/ MarkResolution(a) PROVE Inv'
<1>1. /\ task[a] \in Task /\ task[a].row \in Rows /\ task[a].answer \in Statuses
      /\ task[a].step \in {"record", "resolve"} /\ amount[task[a].row] >= 1
  BY DEF Inv, TypeOK, Task, Carries, Record, MarkResolution
<1>2. /\ status' = [status EXCEPT ![task[a].row] = task[a].answer]
      /\ task' = [task EXCEPT ![a] = Idle]
      /\ UNCHANGED <<amount, money, crossed>>
      /\ byHand' \in SUBSET Rows /\ byHand \subseteq byHand'
  BY <1>1 DEF Record, MarkResolution, Inv, TypeOK
<1>3. TypeOK'
  BY <1>1, <1>2, IdleIsTask DEF Inv, TypeOK, money
<1>4. ASSUME NEW b \in Tasks PROVE Carries(b)'
  <2>1. CASE b = a
    <3>1. task'[b] = Idle
      BY <1>2, <2>1 DEF Inv, TypeOK
    <3> QED BY <3>1, IdleIsTask DEF Carries
  <2>2. CASE b # a
    <3>1. task'[b] = task[b] /\ Carries(b)
      BY <1>2, <2>2 DEF Inv, TypeOK
    <3> QED BY <1>2, <3>1 DEF Carries, Moved, money
  <2> QED BY <2>1, <2>2
<1>5. SucceededIsBacked'
  <2>1. \A f \in Rows : Moved(f)' = Moved(f)
    BY <1>2 DEF Moved, money
  <2>2. ASSUME task[a].answer = "succeeded"
        PROVE  Moved(task[a].row) > 0 \/ task[a].row \in byHand'
    <3>1. CASE Record(a)
      BY <2>2, <3>1 DEF Inv, Carries, Record
    <3>2. CASE MarkResolution(a)
      <4>1. byHand' = byHand \cup {task[a].row}
        BY <2>2, <3>2 DEF MarkResolution
      <4> QED BY <4>1
    <3> QED BY <3>1, <3>2
  <2>3. ASSUME NEW f \in Rows, status'[f] = "succeeded"
        PROVE  Moved(f) > 0 \/ f \in byHand'
    <3>1. CASE f = task[a].row
      <4>1. status'[f] = task[a].answer
        BY <1>2, <3>1 DEF Inv, TypeOK
      <4> QED BY <2>2, <2>3, <3>1, <4>1
    <3>2. CASE f # task[a].row
      <4>1. status'[f] = status[f]
        BY <1>2, <3>2 DEF Inv, TypeOK
      <4> QED BY <1>2, <2>3, <4>1 DEF Inv, SucceededIsBacked
    <3> QED BY <3>1, <3>2
  <2> QED BY <2>1, <2>3 DEF SucceededIsBacked
<1>6. RowsHaveAmounts'
  BY <1>1, <1>2 DEF Inv, TypeOK, RowsHaveAmounts
<1> QED BY <1>3, <1>4, <1>5, <1>6 DEF Inv

LEMMA DieKeepsInv == ASSUME Inv, NEW a \in Tasks, Die(a) PROVE Inv'
<1>1. crossed' \in SUBSET Rows
  BY DEF Inv, TypeOK, Carries, Die
<1> QED BY <1>1, IdleIsTask, OwnTask DEF Die

LEMMA NextInv == ASSUME Inv, [Next]_vars PROVE Inv'
<1>1. CASE UNCHANGED vars
  BY <1>1 DEF vars, rows, money, Inv, TypeOK, RowsHaveAmounts, Carries,
              SucceededIsBacked, Moved
<1> QED BY <1>1, RequestKeepsInv, CreateKeepsInv, SendKeepsInv, WriteKeepsInv,
           DieKeepsInv DEF Next

\* A refund that reads succeeded sent money or was resolved by hand, for any
\* number of administrators and refunds of a payment of any size.
THEOREM SucceededRefundsBacked == Spec => []SucceededIsBacked
<1>1. Init => Inv
  BY InitInv
<1>2. Inv /\ [Next]_vars => Inv'
  BY NextInv
<1>3. Inv => SucceededIsBacked
  BY DEF Inv
<1> QED BY <1>1, <1>2, <1>3, PTL DEF Spec
-----------------------------------------------------------------------------
(* A refund on which no two requests meet.                                 *)

\* A row a request is at exists, and the request will write a status of its own.
Named(a) ==
    LET t == task[a] IN
    /\ t.step \in {"idle", "create"} => t.row = Nothing
    /\ t.row \in Rows => status[t.row] # "none"
    /\ t.step = "record" => t.answer \in {"succeeded", "processing", "failed"}
    /\ t.step = "resolve" =>
          t.answer \in {"succeeded", "failed", "cancelled", "approved"}

\* Nothing has moved where a request is about to move it or says that nothing did.
Unsent(a) ==
    LET t == task[a] IN
    /\ t.step \in {"credit", "call"} => Moved(t.row) = 0 /\ t.amount <= amount[t.row]
    /\ t.step = "record" /\ t.answer = "failed" => Moved(t.row) = 0
    /\ t.step = "resolve" /\ t.answer = "approved" => Moved(t.row) = 0

\* One request at most is at the row, and money that moved is on it or about to be.
Alone(f) ==
    /\ Moved(f) <= amount[f]
    /\ \A a, b \in Tasks : task[a].row = f /\ task[b].row = f => a = b
    /\ \A a \in Tasks : task[a].row = f => Unsent(a)
    /\ Moved(f) > 0 =>
          \/ status[f] \in {"processing", "succeeded"}
          \/ \E a \in Tasks : task[a].row = f /\ task[a].step = "record"

Unborn == \A f \in Rows : status[f] = "none" => Moved(f) = 0

AddUpInv ==
    /\ Inv
    /\ \A a \in Tasks : Named(a)
    /\ Unborn
    /\ \A f \in Rows \ (byHand \cup crossed) : Alone(f)

LEMMA AddUpInit == Init => AddUpInv
<1> SUFFICES ASSUME Init PROVE AddUpInv
  OBVIOUS
<1>1. \A f \in Rows : Moved(f) = 0 /\ amount[f] = 0 /\ status[f] = "none"
  BY DEF Init, Moved
<1>2. \A a \in Tasks : task[a] = Idle /\ Idle.row = Nothing /\ Nothing \notin Rows
  BY RefundsAssumption DEF Init, Idle
<1>3. \A a \in Tasks : Named(a)
  BY <1>2, IdleIsTask DEF Named
<1>4. \A f \in Rows : Alone(f)
  BY <1>1, <1>2 DEF Alone
<1> QED BY <1>1, <1>3, <1>4, InitInv DEF AddUpInv, Unborn

\* A row that neither the old nor the new task of a step is at, and whose
\* columns and money stay, is as alone as it was.
LEMMA OtherRows ==
    ASSUME AddUpInv, NEW a \in Tasks, NEW t \in Task,
           task' = [task EXCEPT ![a] = t],
           NEW f \in Rows \ (byHand \cup crossed),
           task[a].row # f, t.row # f,
           status'[f] = status[f], amount'[f] = amount[f],
           toWallet'[f] = toWallet[f], toCard'[f] = toCard[f]
    PROVE  Alone(f)'
<1>1. Alone(f) /\ Moved(f)' = Moved(f)
  BY DEF AddUpInv, Moved
<1>2. \A b \in Tasks : task'[b].row = f => b # a /\ task[b].row = f /\ task'[b] = task[b]
  BY DEF AddUpInv, Inv, TypeOK
<1>3. \A b \in Tasks : task[b].row = f => b # a /\ task'[b] = task[b]
  BY DEF AddUpInv, Inv, TypeOK
<1>4. \A b \in Tasks : task'[b].row = f => Unsent(b)'
  BY <1>1, <1>2 DEF Alone, Unsent, Moved
<1> QED BY <1>1, <1>2, <1>3, <1>4 DEF Alone

\* Names survive a step of task a that takes no row's status back to none.
LEMMA NamesStay ==
    ASSUME AddUpInv, NEW a \in Tasks, NEW t \in Task,
           task' = [task EXCEPT ![a] = t],
           \A f \in Rows : status[f] # "none" => status'[f] # "none",
           t.step \in {"idle", "create"} => t.row = Nothing,
           t.row \in Rows => status'[t.row] # "none",
           t.step = "record" => t.answer \in {"succeeded", "processing", "failed"},
           t.step = "resolve" =>
              t.answer \in {"succeeded", "failed", "cancelled", "approved"}
    PROVE  \A b \in Tasks : Named(b)'
<1> SUFFICES ASSUME NEW b \in Tasks PROVE Named(b)'
  OBVIOUS
<1>1. CASE b = a
  <2>1. task'[b] = t
    BY <1>1 DEF AddUpInv, Inv, TypeOK
  <2> QED BY <2>1 DEF Named
<1>2. CASE b # a
  <2>1. task'[b] = task[b] /\ Named(b)
    BY <1>2 DEF AddUpInv, Inv, TypeOK
  <2> QED BY <2>1 DEF Named
<1> QED BY <1>1, <1>2

\* A request that begins finds its row alone, or marks it as crossed.
LEMMA StartAddsUp ==
    ASSUME AddUpInv, Inv', NEW a \in Tasks, NEW t \in Task, Start(a, t),
           t.step \in {"create", "call", "resolve"},
           t.step = "create" => t.row = Nothing,
           t.row \in Rows => status[t.row] # "none",
           t.step = "call" => /\ status[t.row] \in {"failed", "approved"}
                              /\ t.amount <= amount[t.row],
           t.step = "resolve" =>
              t.answer \in {"succeeded", "failed", "cancelled", "approved"},
           t.step = "resolve" /\ t.answer = "approved" => status[t.row] = "requested"
    PROVE  AddUpInv'
<1>1. /\ task[a] = Idle /\ task' = [task EXCEPT ![a] = t]
      /\ UNCHANGED <<status, amount, toWallet, toCard, byHand>>
      /\ crossed' = crossed \cup
            {f \in Rows : f = t.row /\ \E b \in Tasks : task[b].row = f}
  BY DEF Start, rows, money
<1>2. \A b \in Tasks : Named(b)'
  BY <1>1, NamesStay
<1>3. Unborn'
  BY <1>1 DEF AddUpInv, Unborn, Moved
<1>4. ASSUME NEW f \in Rows \ (byHand' \cup crossed') PROVE Alone(f)'
  <2>0. f \in Rows \ (byHand \cup crossed) /\ Alone(f) /\ task[a].row # f
    BY <1>1, <1>4, RefundsAssumption DEF AddUpInv, Idle
  <2>1. CASE t.row # f
    BY <1>1, <2>0, <2>1, OtherRows
  <2>2. CASE t.row = f
    <3>1. \A b \in Tasks : task[b].row # f
      BY <1>1, <1>4, <2>2
    <3>2. \A b \in Tasks : task'[b].row = f => b = a /\ task'[b] = t
      BY <1>1, <3>1 DEF AddUpInv, Inv, TypeOK
    <3>3. Moved(f) > 0 => status[f] \in {"processing", "succeeded"}
      BY <2>0, <3>1 DEF Alone
    <3>4. Moved(f) \in Nat /\ Moved(f)' = Moved(f)
      BY <1>1 DEF Moved, AddUpInv, Inv, TypeOK
    <3>5. t.step = "call" \/ (t.step = "resolve" /\ t.answer = "approved")
          => Moved(f) = 0
      BY <2>2, <3>3, <3>4
    <3>6. \A b \in Tasks : task'[b].row = f => Unsent(b)'
      BY <1>1, <2>2, <3>2, <3>4, <3>5 DEF Unsent, Moved
    <3> QED BY <1>1, <2>0, <3>2, <3>3, <3>4, <3>6 DEF Alone
  <2> QED BY <2>1, <2>2
<1> QED BY <1>2, <1>3, <1>4 DEF AddUpInv

LEMMA RequestAddsUp ==
    ASSUME AddUpInv, NEW a \in Tasks, Request(a) PROVE AddUpInv'
<1>0. /\ Idle.row = Nothing /\ Idle.amount = 0 /\ Idle.destination = "wallet"
      /\ Idle.read = "none" /\ Idle.answer = "none" /\ Paid \in Nat /\ Idle \in Task
      /\ Nothing \notin Rows
  BY RefundsAssumption, IdleIsTask DEF Idle
<1>00. Inv /\ Inv'
  BY RequestKeepsInv DEF AddUpInv
<1>1. CASE \E kobo \in 1..Paid : \E d \in Destinations : InitiateRefund(a, kobo, d)
  <2>1. PICK kobo \in 1..Paid, d \in Destinations : InitiateRefund(a, kobo, d)
    BY <1>1
  <2> DEFINE t == [Idle EXCEPT !.step = "create", !.amount = kobo, !.destination = d]
  <2>2. kobo \in 0..Paid /\ d \in {"wallet", "paystack"}
    BY <1>0, RefundsAssumption
  <2>3. t \in Task /\ t.step = "create" /\ t.row = Nothing
    BY <2>2, <1>0 DEF Task, Steps, Statuses, Idle
  <2>4. Start(a, t)
    BY <2>1 DEF InitiateRefund
  <2> HIDE DEF t
  <2> QED BY <1>0, <1>00, <2>3, <2>4, StartAddsUp
<1>2. ASSUME NEW f \in Rows, NEW kobo \in 1..Paid, kobo <= amount[f],
             status[f] \in {"failed", "approved"},
             Start(a, [Idle EXCEPT !.step = "call", !.row = f, !.amount = kobo,
                                   !.destination = "paystack", !.read = status[f]])
      PROVE  AddUpInv'
  <2> DEFINE t == [Idle EXCEPT !.step = "call", !.row = f, !.amount = kobo,
                               !.destination = "paystack", !.read = status[f]]
  <2>1. status[f] \in Statuses /\ kobo \in 0..Paid
    BY <1>0, <1>00 DEF Inv, TypeOK
  <2>2. t \in Task /\ t.step = "call" /\ t.amount = kobo /\ t.row = f
    BY <2>1, <1>0 DEF Task, Steps, Statuses, Idle
  <2>3. Start(a, t)
    BY <1>2
  <2> HIDE DEF t
  <2> QED BY <1>00, <1>2, <2>2, <2>3, StartAddsUp
<1>3. ASSUME NEW f \in Rows, RetryRefund(a, f) PROVE AddUpInv'
  <2>1. PICK kobo \in 1..Paid : kobo = amount[f]
    BY <1>0, <1>00, <1>3 DEF RetryRefund, Inv, RowsHaveAmounts, TypeOK
  <2>2. /\ kobo <= amount[f] /\ status[f] \in {"failed", "approved"}
        /\ Start(a, [Idle EXCEPT !.step = "call", !.row = f, !.amount = kobo,
                                 !.destination = "paystack", !.read = status[f]])
    BY <1>3, <2>1, <1>0 DEF RetryRefund
  <2> QED BY <1>2, <2>2
<1>4. ASSUME NEW f \in Rows, NEW kobo \in 1..Paid, InitiateApprovedRefund(a, f, kobo)
      PROVE  AddUpInv'
  BY <1>2, <1>4 DEF InitiateApprovedRefund
<1>5. ASSUME NEW f \in Rows,
             NEW o \in {"succeeded", "failed", "cancelled", "approved"},
             status[f] # "none", o = "approved" => status[f] = "requested",
             Start(a, [Idle EXCEPT !.step = "resolve", !.row = f, !.answer = o])
      PROVE  AddUpInv'
  <2> DEFINE t == [Idle EXCEPT !.step = "resolve", !.row = f, !.answer = o]
  <2>1. t \in Task /\ t.step = "resolve" /\ t.row = f /\ t.answer = o
    BY <1>0 DEF Task, Steps, Statuses, Idle
  <2>2. Start(a, t)
    BY <1>5
  <2> HIDE DEF t
  <2> QED BY <1>00, <1>5, <2>1, <2>2, StartAddsUp
<1>6. ASSUME NEW f \in Rows, NEW o \in {"succeeded", "failed", "cancelled"},
             ResolveRefund(a, f, o)
      PROVE  AddUpInv'
  BY <1>5, <1>6 DEF ResolveRefund
<1>7. ASSUME NEW f \in Rows, NEW o \in {"approved", "cancelled"}, DecideRefund(a, f, o)
      PROVE  AddUpInv'
  BY <1>5, <1>7 DEF DecideRefund
<1> QED BY <1>1, <1>3, <1>4, <1>6, <1>7 DEF Request

\* A new row has moved nothing and nobody is at it.
LEMMA CreateAddsUp ==
    ASSUME AddUpInv, NEW a \in Tasks, CreateRefundRequest(a) PROVE AddUpInv'
<1>1. PICK f \in Rows :
         /\ status[f] = "none"
         /\ status' = [status EXCEPT ![f] = "requested"]
         /\ amount' = [amount EXCEPT ![f] = task[a].amount]
         /\ task' = [task EXCEPT ![a].row = f,
               ![a].step = IF task[a].destination = "wallet" THEN "credit" ELSE "call"]
  BY DEF CreateRefundRequest
<1>2. /\ task[a].step = "create" /\ UNCHANGED <<toWallet, toCard, byHand, crossed>>
      /\ Inv /\ Inv' /\ Nothing \notin Rows /\ task[a] \in Task
  BY CreateKeepsInv, RefundsAssumption
     DEF CreateRefundRequest, money, AddUpInv, Inv, TypeOK
<1>3. PICK step \in {"credit", "call"} :
         step = IF task[a].destination = "wallet" THEN "credit" ELSE "call"
  OBVIOUS
<1> DEFINE t == [task[a] EXCEPT !.row = f, !.step = step]
<1>4. t \in Task /\ t.step = step /\ t.row = f /\ t.amount = task[a].amount
  BY <1>2 DEF Task, Steps
<1>5. task' = [task EXCEPT ![a] = t]
  BY <1>1, <1>3
<1> HIDE DEF t
<1>6. task[a].row = Nothing /\ Moved(f) = 0 /\ \A b \in Tasks : task[b].row # f
  BY <1>1, <1>2 DEF AddUpInv, Named, Unborn
<1>7. /\ status'[f] = "requested" /\ amount'[f] = task[a].amount
      /\ amount'[f] \in Nat
      /\ \A g \in Rows : g # f => status'[g] = status[g] /\ amount'[g] = amount[g]
      /\ \A g \in Rows : Moved(g)' = Moved(g)
  BY <1>1, <1>2 DEF Inv, TypeOK, Moved, Task
<1>8. \A b \in Tasks : Named(b)'
  BY <1>4, <1>5, <1>7, NamesStay
<1>9. Unborn'
  BY <1>7 DEF AddUpInv, Unborn
<1>10. ASSUME NEW g \in Rows \ (byHand' \cup crossed') PROVE Alone(g)'
  <2>1. CASE g # f
    BY <1>2, <1>4, <1>5, <1>6, <1>7, <2>1, OtherRows
  <2>2. CASE g = f
    <3>1. \A b \in Tasks : task'[b].row = f => b = a /\ task'[b] = t
      BY <1>5, <1>6, <1>2 DEF Inv, TypeOK
    <3>2. \A b \in Tasks : task'[b].row = f => Unsent(b)'
      BY <1>4, <1>6, <1>7, <1>2, <3>1 DEF Unsent, Moved, Inv, TypeOK, Task
    <3> QED BY <1>6, <1>7, <2>2, <3>1, <3>2 DEF Alone
  <2> QED BY <2>1, <2>2
<1> QED BY <1>2, <1>8, <1>9, <1>10 DEF AddUpInv

\* What moves for a row that is alone moves for the first time.
LEMMA SendAddsUp ==
    ASSUME AddUpInv, NEW a \in Tasks, CreditRefundToWallet(a) \/ CreateRefund(a)
    PROVE  AddUpInv'
<1>1. /\ task[a] \in Task /\ task[a].row \in Rows /\ task[a].amount \in Nat
      /\ task[a].step \in {"credit", "call"}
      /\ Inv /\ Inv'
  BY RefundsAssumption, SendKeepsInv
     DEF AddUpInv, Inv, TypeOK, Task, Carries, CreditRefundToWallet, CreateRefund
<1>2. PICK answer \in {"succeeded", "processing", "failed"} :
         /\ Continue(a, "record", answer)
         /\ \/ /\ toWallet' = [toWallet EXCEPT ![task[a].row] = @ + task[a].amount]
               /\ toCard' = toCard /\ answer # "failed"
            \/ /\ toCard' = [toCard EXCEPT ![task[a].row] = @ + task[a].amount]
               /\ toWallet' = toWallet /\ answer # "failed"
            \/ answer = "failed" /\ toWallet' = toWallet /\ toCard' = toCard
  BY DEF CreditRefundToWallet, CreateRefund, money
<1>3. UNCHANGED <<status, amount, byHand, crossed>>
  BY DEF CreditRefundToWallet, CreateRefund, rows
<1> DEFINE t == [task[a] EXCEPT !.step = "record", !.answer = answer]
<1>4. t \in Task /\ t.step = "record" /\ t.row = task[a].row /\ t.answer = answer
  BY <1>1 DEF Task, Steps, Statuses
<1>5. task' = [task EXCEPT ![a] = t]
  BY <1>2 DEF Continue
<1> HIDE DEF t
<1>6. toWallet \in [Rows -> Nat] /\ toCard \in [Rows -> Nat] /\ amount \in [Rows -> Nat]
  BY <1>1, RefundsAssumption DEF Inv, TypeOK
<1>7. /\ \A g \in Rows : g # task[a].row =>
            toWallet'[g] = toWallet[g] /\ toCard'[g] = toCard[g]
      /\ \A g \in Rows : g = task[a].row =>
            /\ Moved(g)' \in {Moved(g), Moved(g) + task[a].amount}
            /\ answer = "failed" => Moved(g)' = Moved(g)
  BY <1>1, <1>2, <1>3, <1>5, <1>6, <1>4 DEF Moved
<1>8. \A b \in Tasks : Named(b)'
  BY <1>1, <1>3, <1>4, <1>5, NamesStay DEF AddUpInv, Named
<1>9. Unborn'
  BY <1>1, <1>3, <1>7 DEF AddUpInv, Unborn, Named, Moved
<1>10. ASSUME NEW f \in Rows \ (byHand' \cup crossed') PROVE Alone(f)'
  <2>0. f \in Rows \ (byHand \cup crossed) /\ Alone(f)
    BY <1>3, <1>10 DEF AddUpInv
  <2>1. CASE f # task[a].row
    BY <1>3, <1>4, <1>5, <1>7, <2>0, <2>1, OtherRows
  <2>2. CASE f = task[a].row
    <3>1. Moved(f) = 0 /\ task[a].amount <= amount[f]
      BY <1>1, <2>0, <2>2 DEF Alone, Unsent
    <3>2. \A b \in Tasks : task'[b].row = f => b = a /\ task'[b] = t
      BY <1>1, <1>4, <1>5, <2>0, <2>2 DEF Alone, Inv, TypeOK
    <3>3. Moved(f)' <= amount[f] /\ (answer = "failed" => Moved(f)' = 0)
      <4>1. Moved(f)' \in {0, task[a].amount} /\ (answer = "failed" => Moved(f)' = 0)
        BY <1>1, <1>7, <2>0, <2>2, <3>1
      <4> QED BY <1>1, <1>6, <2>0, <3>1, <4>1
    <3>4. \A b \in Tasks : task'[b].row = f => Unsent(b)'
      BY <1>4, <2>2, <3>2, <3>3 DEF Unsent, Moved
    <3>5. task'[a].row = f /\ task'[a].step = "record"
      BY <1>1, <1>4, <1>5, <2>2 DEF Inv, TypeOK
    <3> QED BY <1>3, <3>2, <3>3, <3>4, <3>5 DEF Alone
  <2> QED BY <2>1, <2>2
<1> QED BY <1>1, <1>8, <1>9, <1>10 DEF AddUpInv

\* A task ends; its row stands alone without it.
LEMMA EndAddsUp ==
    ASSUME AddUpInv, Inv', NEW a \in Tasks, task' = [task EXCEPT ![a] = Idle],
           UNCHANGED <<amount, toWallet, toCard>>,
           byHand \subseteq byHand', crossed \subseteq crossed',
           \A g \in Rows : g # task[a].row => status'[g] = status[g],
           \A g \in Rows : status[g] # "none" => status'[g] # "none",
           task[a].row \in Rows \ (byHand' \cup crossed') =>
              Moved(task[a].row) = 0 \/ status'[task[a].row] \in {"processing", "succeeded"}
    PROVE  AddUpInv'
<1>0. Idle \in Task /\ Idle.step = "idle" /\ Idle.row = Nothing /\ Nothing \notin Rows
  BY RefundsAssumption, IdleIsTask DEF Idle
<1>1. \A b \in Tasks : Named(b)'
  BY <1>0, NamesStay
<1>2. \A g \in Rows : Moved(g)' = Moved(g)
  BY DEF Moved
<1>3. Unborn'
  BY <1>2 DEF AddUpInv, Unborn
<1>4. ASSUME NEW f \in Rows \ (byHand' \cup crossed') PROVE Alone(f)'
  <2>0. f \in Rows \ (byHand \cup crossed) /\ Alone(f)
    BY <1>4 DEF AddUpInv
  <2>1. CASE f # task[a].row
    BY <1>0, <2>0, <2>1, OtherRows
  <2>2. CASE f = task[a].row
    <3>1. \A b \in Tasks : task'[b].row # f
      BY <1>0, <2>0, <2>2 DEF Alone, AddUpInv, Inv, TypeOK
    <3>2. Moved(f)' > 0 => status'[f] \in {"processing", "succeeded"}
      BY <1>2, <1>4, <2>2
    <3> QED BY <1>2, <2>0, <3>1, <3>2 DEF Alone
  <2> QED BY <2>1, <2>2
<1> QED BY <1>1, <1>3, <1>4 DEF AddUpInv

LEMMA WriteAddsUp ==
    ASSUME AddUpInv, NEW a \in Tasks, Record(a) \/ MarkResolution(a) PROVE AddUpInv'
<1>1. /\ task[a].row \in Rows /\ task[a].answer # "none" /\ Inv /\ Inv'
      /\ task[a].step = "record" => task[a].answer \in {"succeeded", "processing", "failed"}
  BY WriteKeepsInv DEF AddUpInv, Inv, Carries, Named, Record, MarkResolution
<1>2. /\ status' = [status EXCEPT ![task[a].row] = task[a].answer]
      /\ task' = [task EXCEPT ![a] = Idle]
      /\ UNCHANGED <<amount, toWallet, toCard, crossed>>
      /\ byHand \subseteq byHand'
      /\ MarkResolution(a) /\ task[a].answer # "approved" => task[a].row \in byHand'
  BY DEF Record, MarkResolution, money
<1>3. /\ status'[task[a].row] = task[a].answer
      /\ \A g \in Rows : g # task[a].row => status'[g] = status[g]
  BY <1>1, <1>2 DEF Inv, TypeOK
<1>4. ASSUME task[a].row \in Rows \ (byHand' \cup crossed')
      PROVE  Moved(task[a].row) = 0 \/ status'[task[a].row] \in {"processing", "succeeded"}
  <2>1. Unsent(a)
    BY <1>2, <1>4 DEF AddUpInv, Alone
  <2>2. CASE Record(a)
    BY <1>1, <1>3, <2>1, <2>2 DEF Unsent, Record
  <2>3. CASE MarkResolution(a)
    BY <1>2, <1>4, <2>1, <2>3 DEF Unsent, MarkResolution
  <2> QED BY <2>2, <2>3
<1> QED BY <1>1, <1>2, <1>3, <1>4, EndAddsUp

LEMMA DieAddsUp == ASSUME AddUpInv, NEW a \in Tasks, Die(a) PROVE AddUpInv'
<1>1. /\ Inv /\ Inv' /\ task' = [task EXCEPT ![a] = Idle]
      /\ UNCHANGED <<status, amount, toWallet, toCard, byHand>>
      /\ crossed \subseteq crossed' /\ task[a] \in Task
      /\ task[a].step = "record" /\ task[a].answer # "failed" => task[a].row \in crossed'
  BY DieKeepsInv DEF Die, rows, money, AddUpInv, Inv, TypeOK
<1>2. ASSUME task[a].row \in Rows \ (byHand' \cup crossed')
      PROVE  Moved(task[a].row) = 0 \/ status'[task[a].row] \in {"processing", "succeeded"}
  <2>1. Unsent(a) /\ Alone(task[a].row)
    BY <1>1, <1>2 DEF AddUpInv, Alone
  <2>2. Moved(task[a].row) \in Nat
    BY <1>1, <1>2 DEF Moved, Inv, TypeOK
  <2>3. CASE task[a].step \in {"credit", "call"}
    BY <2>1, <2>3 DEF Unsent
  <2>4. CASE task[a].step = "record"
    BY <1>1, <1>2, <2>1, <2>4 DEF Unsent
  <2>5. CASE task[a].step \notin {"credit", "call", "record"}
    BY <1>1, <2>1, <2>2, <2>5 DEF Alone
  <2> QED BY <2>3, <2>4, <2>5
<1> QED BY <1>1, <1>2, EndAddsUp

LEMMA AddUpNext == ASSUME AddUpInv, [Next]_vars PROVE AddUpInv'
<1>1. CASE UNCHANGED vars
  <2>1. Inv'
    BY <1>1, NextInv DEF AddUpInv
  <2>2. \A f \in Rows : Moved(f)' = Moved(f)
    BY <1>1 DEF vars, money, Moved
  <2>3. \A a \in Tasks : Named(a)' /\ (Unsent(a) => Unsent(a)')
    BY <1>1 DEF vars, rows, money, AddUpInv, Named, Unsent, Moved
  <2>4. \A f \in Rows \ (byHand \cup crossed) : Alone(f)'
    BY <1>1, <2>2, <2>3 DEF vars, rows, AddUpInv, Alone
  <2> QED BY <1>1, <2>1, <2>2, <2>3, <2>4 DEF vars, rows, AddUpInv, Unborn
<1> QED BY <1>1, RequestAddsUp, CreateAddsUp, SendAddsUp, WriteAddsUp, DieAddsUp
        DEF Next

\* A refund on which no two requests meet, nobody dies with the money on its way
\* and nobody decides by hand moves its amount once and stays on the books: for
\* any number of administrators, refunds and deaths, and any amount.
THEOREM RefundsAlwaysAddUp == Spec => []RefundsAddUp
<1>1. AddUpInv => RefundsAddUp
  BY DEF AddUpInv, Alone, RefundsAddUp, OncePerRefund, MovedIsCounted
<1> QED BY <1>1, AddUpInit, AddUpNext, PTL DEF Spec
=============================================================================
