---------------------------- MODULE OutboxProofs ----------------------------
(***************************************************************************)
(* Theorems about Outbox, for every set of events, notifications, workers, *)
(* administrators and calls: an event in a worker's batch is its alone, so *)
(* what its handlers did stands when it is marked processed.               *)
(***************************************************************************)
EXTENDS Outbox, TLAPS

Busy == {"assigning", "checking", "reading", "sending", "completing", "failing",
         "calling"}

\* A batch is locked by its worker, but for an event whose acknowledgement threw
\* after it reached the database, which no claim takes any more.
Locked(w, e) ==
    \/ holder[e] = w
    \/ e \in processed /\ e = current[w] /\ phase[w] = "failing"

\* What the handlers have done so far for the event in hand.
Progress(w) ==
    LET e == current[w]
        Wanted == {d \in wants \ changed : EventOf[d] = e}
    IN
    CASE phase[w] = "assigning" -> KindOf[e] = "ready"
      [] phase[w] \in {"checking", "calling"} -> KindOf[e] = "account"
      [] phase[w] = "reading" ->
            KindOf[e] # "account" /\ (KindOf[e] = "ready" => e \in assigned)
      [] phase[w] = "sending" ->
            /\ KindOf[e] = "ready" => e \in assigned
            /\ w \in failures \/ Wanted \subseteq recorded \cup todo[w]
      [] phase[w] = "completing" ->
            /\ KindOf[e] = "ready" => e \in assigned
            /\ Wanted \subseteq recorded
      [] OTHER -> TRUE

WorkerInv(w) ==
    /\ phase[w] \in Busy => current[w] \in batch[w]
    /\ phase[w] = "idle" => todo[w] = {}
    /\ \A e \in batch[w] : Locked(w, e)
    /\ \A d \in todo[w] : EventOf[d] = current[w]
    /\ at[w] # None => /\ phase[w] = "sending"
                       /\ at[w] \in todo[w] \ recorded
    /\ Progress(w)

Inv ==
    /\ TypeOK
    /\ \A w \in Workers : WorkerInv(w)
    /\ \A v, w \in Workers : v # w => batch[v] \cap batch[w] = {}
    /\ ProcessedIsHandled

LEMMA ActorsDiffer ==
    /\ Workers \subseteq Actors /\ Calls \subseteq Actors
    /\ \A w \in Workers : w \notin Calls \cup Admins /\ w # None
    /\ \A e \in Events : e # None
    /\ \A d \in Deliveries : d # None /\ EventOf[d] \in Events
    /\ \A a \in Admins : a # None
  BY OutboxAssumption DEF Actors

LEMMA InitInv == Init => Inv
  <1> SUFFICES ASSUME Init PROVE Inv
    OBVIOUS
  <1>1. TypeOK
    BY DEF Init, TypeOK, Phases
  <1>2. \A w \in Workers : WorkerInv(w)
    BY ActorsDiffer DEF Init, WorkerInv, Progress, Busy
  <1> QED BY <1>1, <1>2 DEF Init, Inv, ProcessedIsHandled

\* A claim takes nothing a batch holds.
LEMMA ClaimableIsFree ==
    ASSUME Inv, NEW e \in Events, holder[e] = None, e \notin processed,
           NEW w \in Workers
    PROVE  e \notin batch[w]
  BY ActorsDiffer DEF Inv, WorkerInv, Locked

LEMMA InHand ==
    ASSUME Inv, NEW w \in Workers, phase[w] \in Busy
    PROVE  current[w] \in Events
  BY DEF Inv, TypeOK, WorkerInv

LEMMA StepType ==
    ASSUME Inv, [Next]_vars
    PROVE  TypeOK'
  <1> TypeOK
    BY DEF Inv
  <1>1. ASSUME NEW w \in Workers, WorkerStep(w) PROVE TypeOK'
    <2> USE ActorsDiffer DEF TypeOK
    <2>1. CASE ClaimBatch(w)
      <3>1. /\ UNCHANGED <<processed, dead, due, notices, assigned, phase, current,
                           todo, at, failures, wallet>>
            /\ \E claimed \in SUBSET Events :
                  batch' = [batch EXCEPT ![w] = claimed] /\ TakeOver(w, claimed)
        BY <2>1 DEF ClaimBatch, Claimable, TakeOver
      <3> QED BY <3>1 DEF TakeOver, notices, wallet
    <2>2. CASE NextEvent(w)
      <3>1. \E e \in batch[w] : current' = [current EXCEPT ![w] = e]
                                  /\ phase' = [phase EXCEPT ![w] = FirstHandler(e)]
        BY <2>2 DEF NextEvent, Go
      <3>2. \A e \in Events : FirstHandler(e) \in Phases
        BY OutboxAssumption DEF FirstHandler, Kinds, Phases
      <3> QED BY <2>2, <3>1, <3>2 DEF NextEvent, table, notices, wallet
    <2>3. CASE Complete(w)
      <3>1. current[w] \in Events
        BY <2>3, InHand DEF Complete, Busy
      <3> QED BY <2>3, <3>1 DEF Complete, MarkProcessed, EndEvent, Go, notices, wallet, Phases
    <2>4. CASE CompleteThrows(w)
      <3>1. current[w] \in Events
        BY <2>4, InHand DEF CompleteThrows, Busy
      <3> QED BY <2>4, <3>1 DEF CompleteThrows, MarkProcessed, Go, table, notices, memory, wallet, Phases
    <2>5. CASE Fail(w)
      <3>1. current[w] \in Events
        BY <2>5, InHand DEF Fail, Busy
      <3> QED BY <2>5, <3>1 DEF Fail, GiveBack, EndEvent, Go, notices, wallet, Phases
    <2>6. CASE FailThrows(w)
      BY <2>6 DEF FailThrows, Go, table, notices, wallet, Phases
    <2>7. CASE Throw(w)
      BY <2>7 DEF Throw, Go, table, notices, memory, wallet, Phases
    <2>8. CASE AssignRider(w)
      <3>1. current[w] \in Events
        BY <2>8, InHand DEF AssignRider, Busy
      <3> QED BY <2>8, <3>1 DEF AssignRider, Go, table, notices, memory, wallet, Phases
    <2>9. CASE ReadRecipients(w)
      BY <2>9 DEF ReadRecipients, Go, table, notices, wallet, Phases
    <2>10. CASE SkipDelivered(w) \/ Send(w) \/ SendFails(w) \/ RecordDelivery(w)
      BY <2>10 DEF SkipDelivered, Send, SendFails, RecordDelivery, Visited, table,
           notices, wallet
    <2>11. CASE HandlersEnd(w)
      BY <2>11 DEF HandlersEnd, Go, table, notices, memory, wallet, Phases
    <2> QED BY <1>1, <2>1, <2>2, <2>3, <2>4, <2>5, <2>6, <2>7, <2>8, <2>9, <2>10,
               <2>11 DEF WorkerStep
  <1>2. ASSUME NEW w \in Mortal, Stop(w) PROVE TypeOK'
    BY <1>2, ActorsDiffer, OutboxAssumption DEF TypeOK, Stop, Go, table, notices, Phases
  <1>3. ASSUME NEW p \in Actors, ProvisionStep(p) PROVE TypeOK'
    BY <1>3 DEF TypeOK, ProvisionStep, CheckAccount, StoreActive, StoreFailed, Return,
         Rethrow, Go, table, notices, memory, wallet, Phases
  <1>4. ASSUME NEW c \in Calls, RequestAccount(c) PROVE TypeOK'
    BY <1>4 DEF TypeOK, RequestAccount, Go, table, notices, memory, wallet, Phases
  <1>5. ASSUME NEW a \in Admins, AdminClaims(a) PROVE TypeOK'
    BY <1>5 DEF TypeOK, AdminClaims, AdminClaimable, TakeOver, notices, memory, wallet
  <1>6. ASSUME NEW e \in Events, BackoffEnds(e) PROVE TypeOK'
    BY <1>6 DEF TypeOK, BackoffEnds, notices, memory, wallet
  <1>7. ASSUME NEW d \in Deliveries, SetPreference(d) PROVE TypeOK'
    BY <1>7 DEF TypeOK, SetPreference, table, memory, wallet
  <1>8. CASE CompleteProfile \/ UNCHANGED vars
    BY <1>8 DEF TypeOK, CompleteProfile, vars, table, notices, memory, wallet
  <1> QED BY <1>1, <1>2, <1>3, <1>4, <1>5, <1>6, <1>7, <1>8 DEF Next

-----------------------------------------------------------------------------
(* What one actor does leaves the other workers' events alone.             *)

\* Batches are disjoint, so two workers are at deliveries of two events.
LEMMA OneDelivers == Inv => DeliveredByOne
  <1> SUFFICES ASSUME Inv, NEW w \in Workers, at[w] # None
               PROVE  at[w] \notin recorded /\ \A v \in Workers \ {w} : at[v] # at[w]
    BY DEF DeliveredByOne
  <1>1. \A v \in Workers : at[v] # None =>
          EventOf[at[v]] = current[v] /\ current[v] \in batch[v] /\ at[v] \notin recorded
    BY DEF Inv, WorkerInv, Busy
  <1> QED BY <1>1 DEF Inv

\* What a step adds to for good, and takes from.
Grows ==
    /\ recorded \subseteq recorded'
    /\ assigned \subseteq assigned'
    /\ processed \subseteq processed'
    /\ wants' \ changed' \subseteq wants \ changed

Spares(v) ==
    /\ phase'[v] = phase[v] /\ batch'[v] = batch[v] /\ current'[v] = current[v]
    /\ todo'[v] = todo[v] /\ at'[v] = at[v]
    /\ v \in failures' <=> v \in failures
    /\ at[v] # None => at[v] \notin recorded'
    /\ \A e \in batch[v] : holder'[e] = holder[e]

LEMMA SparedKeeps ==
    ASSUME Inv, NEW v \in Workers, Spares(v), Grows
    PROVE  WorkerInv(v)'
  <1>1. \A e \in batch'[v] : Locked(v, e)'
    BY DEF Inv, WorkerInv, Spares, Grows, Locked
  <1>2. Progress(v)'
    BY DEF Inv, WorkerInv, Spares, Grows, Progress
  <1> QED BY <1>1, <1>2 DEF Inv, WorkerInv, Spares

Handled(e) ==
    /\ \A d \in wants \ changed : EventOf[d] = e => d \in recorded
    /\ KindOf[e] = "ready" => e \in assigned

LEMMA MoveKeeps ==
    ASSUME Inv, TypeOK', Grows,
           NEW w \in Workers, WorkerInv(w)',
           \A v \in Workers : v # w => Spares(v),
           \A v \in Workers : v # w => batch[v] \cap batch'[w] = {},
           \A e \in processed' \ processed : Handled(e)'
    PROVE  Inv'
  <1>1. \A v \in Workers : WorkerInv(v)'
    BY SparedKeeps
  <1>2. \A u, v \in Workers : u # v => batch'[u] \cap batch'[v] = {}
    <2> SUFFICES ASSUME NEW u \in Workers, NEW v \in Workers, u # v
                 PROVE  batch'[u] \cap batch'[v] = {}
      OBVIOUS
    <2>1. \A x \in Workers : x # w => batch'[x] = batch[x]
      BY DEF Spares
    <2>2. batch[u] \cap batch[v] = {}
      BY DEF Inv
    <2>3. CASE u = w
      BY <2>1, <2>3
    <2>4. CASE v = w
      BY <2>1, <2>4
    <2>5. CASE u # w /\ v # w
      BY <2>1, <2>2, <2>5
    <2> QED BY <2>3, <2>4, <2>5
  <1>3. ProcessedIsHandled'
    <2> SUFFICES ASSUME NEW e \in processed' PROVE Handled(e)'
      BY DEF ProcessedIsHandled, Handled
    <2>1. CASE e \in processed
      BY <2>1 DEF Inv, ProcessedIsHandled, Handled, Grows
    <2> QED BY <2>1
  <1> QED BY <1>1, <1>2, <1>3 DEF Inv

LEMMA RestKeeps ==
    ASSUME Inv, TypeOK', Grows, \A v \in Workers : Spares(v), processed' = processed
    PROVE  Inv'
  <1>1. \A v \in Workers : WorkerInv(v)'
    BY SparedKeeps
  <1>2. \A u, v \in Workers : u # v => batch'[u] \cap batch'[v] = {}
    BY DEF Inv, Spares
  <1>3. ProcessedIsHandled'
    BY DEF Inv, ProcessedIsHandled, Grows
  <1> QED BY <1>1, <1>2, <1>3 DEF Inv

-----------------------------------------------------------------------------
(* The steps of a worker.                                                  *)

LEMMA ClaimKeeps ==
    ASSUME Inv, TypeOK', NEW w \in Workers, ClaimBatch(w)
    PROVE  Inv'
  <1>1. PICK claimed \in SUBSET Claimable :
          /\ holder' = [e \in Events |-> IF e \in claimed THEN w ELSE holder[e]]
          /\ batch' = [batch EXCEPT ![w] = claimed]
          /\ UNCHANGED <<processed, notices, assigned, phase, current, todo, at, failures>>
          /\ phase[w] = "idle"
    BY DEF ClaimBatch, TakeOver
  <1>2. \A v \in Workers : claimed \cap batch[v] = {}
    BY <1>1, ClaimableIsFree DEF Claimable, Inv, TypeOK
  <1>3. Grows
    BY <1>1 DEF Grows, notices
  <1>4. \A v \in Workers : v # w => Spares(v)
    BY <1>1, <1>2 DEF Spares, notices, Inv, WorkerInv, TypeOK
  <1>5. WorkerInv(w)'
    <2>1. batch'[w] = claimed /\ \A e \in claimed : e \in Events /\ holder'[e] = w
      BY <1>1 DEF Inv, TypeOK, Claimable
    <2> QED BY <1>1, <2>1 DEF Inv, WorkerInv, Locked, Progress, Busy, notices
  <1>6. batch'[w] = claimed /\ processed' = processed
    BY <1>1 DEF Inv, TypeOK
  <1> QED BY <1>2, <1>3, <1>4, <1>5, <1>6, MoveKeeps

LEMMA NextEventKeeps ==
    ASSUME Inv, TypeOK', NEW w \in Workers, NextEvent(w)
    PROVE  Inv'
  <1>1. PICK e \in batch[w] :
          /\ current' = [current EXCEPT ![w] = e]
          /\ phase' = [phase EXCEPT ![w] = FirstHandler(e)]
          /\ UNCHANGED <<table, notices, assigned, batch, todo, at, failures>>
          /\ phase[w] = "idle"
    BY DEF NextEvent, Go
  <1>2. e \in Events
    BY DEF Inv, TypeOK
  <1>3. phase'[w] = FirstHandler(e) /\ current'[w] = e
    BY <1>1 DEF Inv, TypeOK, Actors
  <1>4. \/ KindOf[e] = "ready" /\ phase'[w] = "assigning"
        \/ KindOf[e] = "account" /\ phase'[w] = "checking"
        \/ KindOf[e] = "notice" /\ phase'[w] = "reading"
    BY <1>2, <1>3, OutboxAssumption DEF FirstHandler, Kinds
  <1>5. Grows /\ \A v \in Workers : v # w => Spares(v)
    BY <1>1 DEF Grows, Spares, notices, table, Inv, WorkerInv, TypeOK, Actors
  <1>6. WorkerInv(w)'
    <2>1. \A x \in batch[w] : holder[x] = w
      BY <1>1 DEF Inv, WorkerInv, Locked
    <2>2. todo[w] = {} /\ at[w] = None
      BY <1>1 DEF Inv, WorkerInv
    <2>3. Progress(w)'
      BY <1>3, <1>4 DEF Progress
    <2> QED BY <1>1, <1>3, <1>4, <2>1, <2>2, <2>3 DEF WorkerInv, Locked, Busy, table
  <1>7. batch' = batch /\ processed' = processed
    BY <1>1 DEF table
  <1> QED BY <1>5, <1>6, <1>7, MoveKeeps DEF Inv

\* Complete, Fail, FailThrows and Stop all leave the event.
LEMMA LeaveKeeps ==
    ASSUME Inv, TypeOK', NEW w \in Workers, current[w] \in batch[w] \/ batch'[w] = {},
           UNCHANGED <<notices, assigned>>,
           processed \subseteq processed',
           \A e \in processed' \ processed : Handled(e),
           \A e \in Events : e # current[w] => holder'[e] = holder[e],
           current[w] \notin batch[w] => holder' = holder,
           \A v \in Workers : v # w =>
              /\ phase'[v] = phase[v] /\ batch'[v] = batch[v]
              /\ current'[v] = current[v] /\ todo'[v] = todo[v] /\ at'[v] = at[v]
              /\ v \in failures' <=> v \in failures,
           phase'[w] \in {"idle", "stopped"},
           batch'[w] \subseteq batch[w] \ {current[w]},
           todo'[w] = {}, at'[w] = None
    PROVE  Inv'
  <1>1. Grows
    BY DEF Grows, notices
  <1>2. ASSUME NEW v \in Workers, v # w PROVE Spares(v)
    <2>1. \A e \in batch[v] : holder'[e] = holder[e]
      BY <1>2 DEF Inv, TypeOK
    <2>2. at[v] # None => at[v] \notin recorded'
      BY DEF Inv, WorkerInv, notices
    <2> QED BY <1>2, <2>1, <2>2 DEF Spares
  <1>3. WorkerInv(w)'
    <2>1. \A e \in batch'[w] : holder'[e] = w
      BY DEF Inv, TypeOK, WorkerInv, Locked
    <2>2. Progress(w)'
      BY DEF Progress
    <2> QED BY <2>1, <2>2 DEF WorkerInv, Locked, Busy
  <1>4. \A e \in processed' \ processed : Handled(e)'
    BY DEF Handled, notices
  <1> QED BY <1>1, <1>2, <1>3, <1>4, MoveKeeps DEF Inv

LEMMA LeavingKeeps ==
    ASSUME Inv, TypeOK', NEW w \in Workers,
           Complete(w) \/ Fail(w) \/ FailThrows(w) \/ Stop(w)
    PROVE  Inv'
  <1>1. phase[w] \in Busy => current[w] \in Events /\ current[w] \in batch[w]
    BY InHand DEF Inv, WorkerInv
  <1>2. phase[w] # "sending" => at[w] = None
    BY DEF Inv, WorkerInv
  <1>3. w \in Actors /\ TypeOK
    BY ActorsDiffer DEF Inv
  <1>4. CASE Complete(w)
    <2>1. /\ phase[w] = "completing"
          /\ processed' = processed \cup {current[w]}
          /\ holder' = [holder EXCEPT ![current[w]] = None]
          /\ UNCHANGED <<notices, assigned, at>>
          /\ phase' = [phase EXCEPT ![w] = "idle"]
          /\ batch' = [batch EXCEPT ![w] = batch[w] \ {current[w]}]
          /\ current' = [current EXCEPT ![w] = None]
          /\ todo' = [todo EXCEPT ![w] = {}]
          /\ failures' = failures \ {w}
      BY <1>3, <1>4 DEF Complete, MarkProcessed, EndEvent, Go, TypeOK
    <2>2. Handled(current[w])
      BY <2>1 DEF Inv, WorkerInv, Progress, Handled
    <2> HIDE DEF Handled
    <2> QED BY <1>1, <1>2, <1>3, <2>1, <2>2, LeaveKeeps DEF TypeOK, Busy
  <1>5. CASE Fail(w) \/ FailThrows(w)
    <2>1. /\ phase[w] = "failing"
          /\ holder' = [holder EXCEPT ![current[w]] = None] \/ holder' = holder
          /\ UNCHANGED <<processed, notices, assigned, at>>
          /\ phase' = [phase EXCEPT ![w] = "idle"]
          /\ \/ batch' = [batch EXCEPT ![w] = batch[w] \ {current[w]}]
             \/ batch' = [batch EXCEPT ![w] = {}]
          /\ current' = [current EXCEPT ![w] = None]
          /\ todo' = [todo EXCEPT ![w] = {}]
          /\ failures' = failures \ {w}
      BY <1>3, <1>5 DEF Fail, FailThrows, GiveBack, EndEvent, Go, TypeOK, table
    <2> QED BY <1>1, <1>2, <1>3, <2>1, LeaveKeeps DEF TypeOK, Busy
  <1>6. CASE Stop(w)
    <2>1. /\ UNCHANGED <<processed, holder, notices, assigned>>
          /\ phase' = [phase EXCEPT ![w] = "stopped"]
          /\ batch' = [batch EXCEPT ![w] = {}]
          /\ current' = [current EXCEPT ![w] = None]
          /\ todo' = [todo EXCEPT ![w] = {}]
          /\ at' = [at EXCEPT ![w] = None]
          /\ failures' = failures \ {w}
      BY <1>6 DEF Stop, Go, table
    <2> QED BY <1>3, <2>1, LeaveKeeps DEF TypeOK
  <1> QED BY <1>4, <1>5, <1>6

\* The steps that keep the event, its batch and the locks but one.
LEMMA StayKeeps ==
    ASSUME Inv, TypeOK', NEW w \in Workers,
           UNCHANGED <<batch, current>>,
           Grows, processed' = processed, holder' = holder,
           \A v \in Workers : v # w =>
              /\ phase'[v] = phase[v] /\ todo'[v] = todo[v] /\ at'[v] = at[v]
              /\ v \in failures' <=> v \in failures
              /\ at[v] # None => at[v] \notin recorded',
           phase[w] \in Busy \ {"failing"},
           todo'[w] \subseteq {d \in Deliveries : EventOf[d] = current[w]},
           phase'[w] # "idle",
           at'[w] # None => phase'[w] = "sending" /\ at'[w] \in todo'[w] \ recorded',
           Progress(w)'
    PROVE  Inv'
  <1>1. \A v \in Workers : v # w => Spares(v)
    BY DEF Spares
  <1>2. current[w] \in batch[w] /\ \A e \in batch[w] : holder[e] = w
    BY DEF Inv, WorkerInv, Locked
  <1>3. WorkerInv(w)'
    BY <1>2 DEF WorkerInv, Locked
  <1> QED BY <1>1, <1>3, MoveKeeps DEF Inv

LEMMA StayingKeeps ==
    ASSUME Inv, TypeOK', NEW w \in Workers,
           \/ Throw(w) \/ AssignRider(w) \/ ReadRecipients(w) \/ SkipDelivered(w)
           \/ Send(w) \/ SendFails(w) \/ RecordDelivery(w) \/ HandlersEnd(w)
    PROVE  Inv'
  <1>1. w \in Actors /\ TypeOK /\ WorkerInv(w)
    BY ActorsDiffer DEF Inv
  <1>2. \A v \in Workers : at[v] # None => at[v] \notin recorded
    BY OneDelivers DEF DeliveredByOne
  <1>3. todo[w] \subseteq {d \in Deliveries : EventOf[d] = current[w]}
    BY <1>1 DEF WorkerInv, TypeOK
  <1>4. CASE Throw(w)
    <2>1. /\ phase[w] \in {"assigning", "reading", "sending"} /\ at[w] = None
          /\ phase' = [phase EXCEPT ![w] = "failing"]
          /\ UNCHANGED <<table, notices, assigned, memory>>
      BY <1>4 DEF Throw, Go
    <2>2. Grows /\ phase'[w] = "failing"
      BY <1>1, <2>1 DEF Grows, table, notices, TypeOK
    <2>3. Progress(w)'
      BY <2>2 DEF Progress
    <2> QED BY <1>1, <1>2, <1>3, <2>1, <2>2, <2>3, StayKeeps
            DEF TypeOK, table, notices, memory, Busy
  <1>5. CASE AssignRider(w)
    <2>1. /\ phase[w] = "assigning"
          /\ phase' = [phase EXCEPT ![w] = "reading"]
          /\ assigned' = assigned \cup {current[w]}
          /\ UNCHANGED <<table, notices, memory>>
      BY <1>5 DEF AssignRider, Go
    <2>2. Grows /\ phase'[w] = "reading" /\ at[w] = None
      BY <1>1, <2>1 DEF Grows, table, notices, TypeOK, WorkerInv
    <2>3. Progress(w)'
      BY <1>1, <2>1, <2>2 DEF Progress, WorkerInv, memory
    <2> QED BY <1>1, <1>2, <1>3, <2>1, <2>2, <2>3, StayKeeps
            DEF TypeOK, table, notices, memory, Busy
  <1>6. CASE ReadRecipients(w)
    <2>1. /\ phase[w] = "reading"
          /\ phase' = [phase EXCEPT ![w] = "sending"]
          /\ todo' = [todo EXCEPT ![w] = {d \in wants : EventOf[d] = current[w]}]
          /\ UNCHANGED <<table, notices, assigned, batch, current, at, failures>>
      BY <1>6 DEF ReadRecipients, Go
    <2>2. /\ Grows /\ phase'[w] = "sending" /\ at[w] = None
          /\ todo'[w] = {d \in wants : EventOf[d] = current[w]}
      BY <1>1, <2>1 DEF Grows, table, notices, TypeOK, WorkerInv
    <2>3. Progress(w)'
      BY <1>1, <2>1, <2>2 DEF Progress, WorkerInv, notices
    <2> QED BY <1>1, <1>2, <2>1, <2>2, <2>3, StayKeeps
            DEF TypeOK, table, notices, Busy
  <1>7. CASE SkipDelivered(w) \/ SendFails(w)
    <2>1. PICK d \in todo[w] :
            /\ phase[w] = "sending" /\ at[w] = None
            /\ todo' = [todo EXCEPT ![w] = todo[w] \ {d}]
            /\ \/ d \in recorded /\ failures' = failures
               \/ failures' = failures \cup {w}
            /\ UNCHANGED <<table, notices, assigned, phase, batch, current, at>>
      BY <1>1, <1>7 DEF SkipDelivered, SendFails, Visited, TypeOK
    <2>2. Grows /\ todo'[w] = todo[w] \ {d}
      BY <1>1, <2>1 DEF Grows, table, notices, TypeOK
    <2>3. Progress(w)'
      BY <1>1, <2>1, <2>2 DEF Progress, WorkerInv, notices
    <2> QED BY <1>1, <1>2, <1>3, <2>1, <2>2, <2>3, StayKeeps
            DEF TypeOK, table, notices, Busy
  <1>8. CASE Send(w)
    <2>1. PICK d \in todo[w] \ recorded :
            /\ phase[w] = "sending"
            /\ at' = [at EXCEPT ![w] = d]
            /\ UNCHANGED <<table, notices, assigned, phase, batch, current, todo, failures>>
      BY <1>8 DEF Send
    <2>2. Grows /\ at'[w] = d
      BY <1>1, <2>1 DEF Grows, table, notices, TypeOK
    <2>3. Progress(w)'
      BY <1>1, <2>1 DEF Progress, WorkerInv, notices
    <2> QED BY <1>1, <1>2, <1>3, <2>1, <2>2, <2>3, StayKeeps
            DEF TypeOK, table, notices, Busy
  <1>9. CASE RecordDelivery(w)
    <2>1. /\ at[w] # None
          /\ \/ recorded' = recorded \cup {at[w]} /\ failures' = failures
             \/ recorded' = recorded /\ failures' = failures \cup {w}
          /\ todo' = [todo EXCEPT ![w] = todo[w] \ {at[w]}]
          /\ at' = [at EXCEPT ![w] = None]
          /\ UNCHANGED <<table, wants, changed, assigned, phase, batch, current>>
      BY <1>1, <1>9 DEF RecordDelivery, Visited, TypeOK
    <2>2. /\ Grows /\ phase[w] = "sending"
          /\ todo'[w] = todo[w] \ {at[w]} /\ at'[w] = None
      BY <1>1, <2>1 DEF Grows, table, TypeOK, WorkerInv
    <2>3. \A v \in Workers : v # w /\ at[v] # None => at[v] \notin recorded'
      BY <2>1, OneDelivers DEF DeliveredByOne
    <2>4. Progress(w)'
      BY <1>1, <2>1, <2>2 DEF Progress, WorkerInv
    <2> QED BY <1>1, <1>3, <2>1, <2>2, <2>3, <2>4, StayKeeps DEF TypeOK, table, Busy
  <1>10. CASE HandlersEnd(w)
    <2>1. /\ phase[w] = "sending" /\ at[w] = None /\ todo[w] = {}
          /\ phase' = [phase EXCEPT ![w] = IF w \in failures THEN "failing" ELSE "completing"]
          /\ UNCHANGED <<table, notices, assigned, memory>>
      BY <1>10 DEF HandlersEnd, Go
    <2>2. Grows /\ phase'[w] = IF w \in failures THEN "failing" ELSE "completing"
      BY <1>1, <2>1 DEF Grows, table, notices, TypeOK
    <2>3. Progress(w)'
      BY <1>1, <2>1, <2>2 DEF Progress, WorkerInv, notices, memory
    <2> QED BY <1>1, <1>2, <1>3, <2>1, <2>2, <2>3, StayKeeps
            DEF TypeOK, table, notices, memory, Busy
  <1> QED BY <1>4, <1>5, <1>6, <1>7, <1>8, <1>9, <1>10

\* The update may have reached the database when complete() throws.
LEMMA ThrownKeeps ==
    ASSUME Inv, TypeOK', NEW w \in Workers, CompleteThrows(w)
    PROVE  Inv'
  <1>1. /\ phase[w] = "completing"
        /\ phase' = [phase EXCEPT ![w] = "failing"]
        /\ \/ /\ processed' = processed \cup {current[w]}
              /\ holder' = [holder EXCEPT ![current[w]] = None]
           \/ processed' = processed /\ holder' = holder
        /\ UNCHANGED <<notices, assigned, memory>>
    BY DEF CompleteThrows, MarkProcessed, Go, table
  <1>2. w \in Actors /\ TypeOK /\ WorkerInv(w) /\ Handled(current[w])
    BY <1>1, ActorsDiffer DEF Inv, WorkerInv, Progress, Handled
  <1>3. phase'[w] = "failing" /\ at[w] = None /\ current[w] \in batch[w]
    BY <1>1, <1>2 DEF TypeOK, WorkerInv, Busy
  <1>4. Grows
    BY <1>1 DEF Grows, notices
  <1>5. \A v \in Workers : v # w => Spares(v)
    <2> SUFFICES ASSUME NEW v \in Workers, v # w PROVE Spares(v)
      OBVIOUS
    <2>1. current[w] \notin batch[v]
      BY <1>3 DEF Inv
    <2>2. \A e \in batch[v] : holder'[e] = holder[e]
      BY <1>1, <1>2, <2>1 DEF TypeOK
    <2>3. at[v] # None => at[v] \notin recorded'
      BY <1>1 DEF Inv, WorkerInv, notices
    <2> QED BY <1>1, <1>2, <2>2, <2>3 DEF Spares, memory, TypeOK
  <1>6. WorkerInv(w)'
    <2>1. \A e \in batch[w] : holder[e] = w
      BY <1>1, <1>2 DEF WorkerInv, Locked
    <2>2. \A e \in batch[w] : e # current[w] => holder'[e] = w
      BY <1>1, <1>2, <2>1 DEF TypeOK
    <2>3. \A e \in batch'[w] : Locked(w, e)'
      BY <1>1, <1>3, <2>1, <2>2 DEF Locked, memory
    <2>4. Progress(w)'
      BY <1>3 DEF Progress
    <2> QED BY <1>1, <1>2, <1>3, <2>3, <2>4 DEF WorkerInv, memory
  <1>7. \A e \in processed' \ processed : Handled(e)'
    BY <1>1, <1>2 DEF Handled, notices
  <1>8. batch' = batch
    BY <1>1 DEF memory
  <1> QED BY <1>4, <1>5, <1>6, <1>7, <1>8, MoveKeeps DEF Inv

\* Provisioning by a worker, as the handler of its event.
LEMMA ProvisionKeeps ==
    ASSUME Inv, TypeOK', NEW w \in Workers, ProvisionStep(w)
    PROVE  Inv'
  <1>1. /\ phase[w] \in {"checking", "calling"}
        /\ \E next \in {"calling", "completing", "failing"} :
              phase' = [phase EXCEPT ![w] = next]
        /\ UNCHANGED <<table, notices, assigned, memory>>
    BY DEF ProvisionStep, CheckAccount, StoreActive, StoreFailed, Return, Rethrow, Go
  <1>2. w \in Actors /\ TypeOK /\ WorkerInv(w)
    BY ActorsDiffer DEF Inv
  <1>3. phase'[w] \in {"calling", "completing", "failing"} /\ at[w] = None
    BY <1>1, <1>2 DEF TypeOK, WorkerInv
  <1>4. KindOf[current[w]] = "account" /\ current[w] \in Events
    BY <1>1, <1>2, InHand DEF WorkerInv, Progress, Busy
  <1>5. \A d \in Deliveries : EventOf[d] # current[w]
    BY <1>4, OutboxAssumption
  <1>6. Grows
    BY <1>1 DEF Grows, table, notices
  <1>7. Progress(w)'
    <2>1. wants' \ changed' \subseteq Deliveries
      BY <1>1, <1>2 DEF notices, TypeOK
    <2> QED BY <1>1, <1>3, <1>4, <1>5, <2>1 DEF Progress, memory
  <1>8. \A v \in Workers : at[v] # None => at[v] \notin recorded'
    BY <1>1, OneDelivers DEF DeliveredByOne, notices
  <1>9. todo[w] \subseteq {d \in Deliveries : EventOf[d] = current[w]}
    BY <1>2 DEF WorkerInv, TypeOK
  <1> QED BY <1>1, <1>2, <1>3, <1>6, <1>7, <1>8, <1>9, StayKeeps
          DEF TypeOK, table, memory, Busy

LEMMA NextInv == Inv /\ [Next]_vars => Inv'
  <1> SUFFICES ASSUME Inv, [Next]_vars PROVE Inv'
    OBVIOUS
  <1>0. TypeOK' /\ TypeOK
    BY StepType DEF Inv
  <1>1. ASSUME NEW w \in Workers, WorkerStep(w) PROVE Inv'
    BY <1>0, <1>1, ClaimKeeps, NextEventKeeps, LeavingKeeps, StayingKeeps, ThrownKeeps
       DEF WorkerStep
  <1>2. ASSUME NEW w \in Mortal, Stop(w) PROVE Inv'
    BY <1>0, <1>2, OutboxAssumption, LeavingKeeps
  <1>3. ASSUME NEW w \in Workers, ProvisionStep(w) PROVE Inv'
    BY <1>0, <1>3, ProvisionKeeps
  <1>4. \A v \in Workers : at[v] # None => at[v] \notin recorded
    BY OneDelivers DEF DeliveredByOne
  <1>5. ASSUME NEW c \in Calls, ProvisionStep(c) \/ RequestAccount(c) PROVE Inv'
    <2>1. /\ \E next \in Phases : phase' = [phase EXCEPT ![c] = next]
          /\ UNCHANGED <<table, notices, assigned, memory>>
      BY <1>5 DEF ProvisionStep, CheckAccount, StoreActive, StoreFailed, Return,
           Rethrow, RequestAccount, Go, Phases
    <2>2. \A v \in Workers : v # c /\ v \in Actors
      BY ActorsDiffer
    <2>3. Grows /\ \A v \in Workers : Spares(v)
      BY <1>0, <1>4, <2>1, <2>2 DEF Grows, Spares, table, notices, memory, TypeOK
    <2> QED BY <1>0, <2>1, <2>3, RestKeeps DEF table
  <1>6. ASSUME NEW a \in Admins, AdminClaims(a) PROVE Inv'
    <2>1. PICK e \in AdminClaimable :
            /\ holder' = [x \in Events |-> IF x = e THEN a ELSE holder[x]]
            /\ UNCHANGED <<processed, notices, assigned, phase, memory>>
      BY <1>6 DEF AdminClaims, TakeOver
    <2>2. e \in Events /\ \A v \in Workers : e \notin batch[v]
      BY <1>0, ClaimableIsFree DEF AdminClaimable, TypeOK
    <2>3. Grows /\ \A v \in Workers : Spares(v)
      BY <1>0, <1>4, <2>1, <2>2 DEF Grows, Spares, notices, memory, TypeOK
    <2> QED BY <1>0, <2>1, <2>3, RestKeeps
  <1>7. ASSUME NEW e \in Events, BackoffEnds(e) PROVE Inv'
    <2>1. Grows /\ (\A v \in Workers : Spares(v)) /\ processed' = processed
      BY <1>4, <1>7 DEF BackoffEnds, Grows, Spares, notices, memory
    <2> QED BY <1>0, <2>1, RestKeeps
  <1>8. ASSUME NEW d \in Deliveries, SetPreference(d) PROVE Inv'
    <2>1. Grows /\ (\A v \in Workers : Spares(v)) /\ processed' = processed
      BY <1>4, <1>8 DEF SetPreference, Grows, Spares, table, memory
    <2> QED BY <1>0, <2>1, RestKeeps
  <1>9. CASE CompleteProfile \/ UNCHANGED vars
    <2>1. Grows /\ (\A v \in Workers : Spares(v)) /\ processed' = processed
      BY <1>4, <1>9 DEF CompleteProfile, vars, Grows, Spares, table, notices, memory
    <2> QED BY <1>0, <2>1, RestKeeps
  <1> QED BY <1>1, <1>2, <1>3, <1>5, <1>6, <1>7, <1>8, <1>9 DEF Next, Actors

LEMMA SpecInv == Spec => []Inv
  BY InitInv, NextInv, PTL DEF Spec

-----------------------------------------------------------------------------
\* An event reads processed only when everything its handlers owe is done,
\* whatever channels, acknowledgements and processes fail on the way.
THEOREM ProcessedEventsHandled == Spec => []ProcessedIsHandled
  <1>1. Inv => ProcessedIsHandled
    BY DEF Inv
  <1> QED BY <1>1, SpecInv, PTL

\* One worker makes a delivery, and makes it before it is recorded.
THEOREM DeliveriesMadeByOne == Spec => []DeliveredByOne
  BY OneDelivers, SpecInv, PTL

LEMMA NextWorkerPhase ==
    ASSUME TypeOK, NEW w \in Workers, NextEvent(w)
    PROVE  \E next \in Phases \ {"calling"} : phase' = [phase EXCEPT ![w] = next]
  <1>1. PICK e \in Events : phase' = [phase EXCEPT ![w] = FirstHandler(e)]
    BY DEF NextEvent, Go, TypeOK
  <1>2. FirstHandler(e) \in Phases \ {"calling"}
    BY OutboxAssumption DEF FirstHandler, Kinds, Phases
  <1> QED BY <1>1, <1>2

\* While an account is active every provisioning under way began before it was.
OverlapInv ==
    account = "active" => \A p \in Actors : phase[p] = "calling" => p \in overlapped

\* An account number is only lost to a provisioning that overlapped the one
\* that stored it, for any number of workers and calls.
THEOREM AccountsLostToOverlaps == Spec => AccountLostOnlyToOverlap
  <1> DEFINE Lost == account = "active" /\ account' # "active" =>
                       \E p \in overlapped : phase[p] = "calling" /\ phase'[p] # "calling"
  <1>1. Init => OverlapInv
    BY DEF Init, OverlapInv
  <1>2. Inv /\ OverlapInv /\ [Next]_vars => OverlapInv' /\ [Lost]_vars
    <2> SUFFICES ASSUME Inv, OverlapInv, [Next]_vars PROVE OverlapInv' /\ Lost
      OBVIOUS
    <2>1. TypeOK
      BY DEF Inv
    <2>2. ASSUME NEW p \in Actors, ProvisionStep(p) PROVE OverlapInv' /\ Lost
      <3>1. CASE CheckAccount(p)
        BY <2>1, <3>1 DEF CheckAccount, OverlapInv, Return, Go, TypeOK, wallet
      <3>2. CASE StoreActive(p)
        <4>1. phase'[p] # "calling" /\ \A q \in Actors : q # p => phase'[q] = phase[q]
          BY <2>1, <3>2 DEF StoreActive, Return, Go, TypeOK
        <4> QED BY <3>2, <4>1 DEF StoreActive, OverlapInv
      <3>3. CASE StoreFailed(p)
        <4>1. phase'[p] # "calling" /\ \A q \in Actors : q # p => phase'[q] = phase[q]
          BY <2>1, <3>3 DEF StoreFailed, Rethrow, Go, TypeOK
        <4> QED BY <3>3, <4>1 DEF StoreFailed, OverlapInv
      <3> QED BY <2>2, <3>1, <3>2, <3>3 DEF ProvisionStep
    <2>3. ASSUME NEW w \in Workers, Stop(w) PROVE OverlapInv' /\ Lost
      <3>1. \A q \in Actors : phase'[q] = "calling" => q # w /\ phase[q] = "calling"
        BY <2>1, <2>3, ActorsDiffer DEF Stop, Go, TypeOK
      <3> QED BY <2>3, <3>1 DEF Stop, OverlapInv
    <2>4. ASSUME NEW w \in Workers, WorkerStep(w) PROVE OverlapInv' /\ Lost
      <3>1. UNCHANGED <<account, overlapped>>
        BY <2>4 DEF WorkerStep, ClaimBatch, NextEvent, Complete, CompleteThrows, Fail,
             FailThrows, Throw, AssignRider, ReadRecipients, SkipDelivered, Send,
             SendFails, RecordDelivery, HandlersEnd, EndEvent, wallet
      <3>2. \/ phase' = phase
            \/ \E next \in Phases \ {"calling"} : phase' = [phase EXCEPT ![w] = next]
        <4>1. CASE NextEvent(w)
          BY <2>1, <4>1, NextWorkerPhase
        <4>2. CASE Complete(w) \/ Fail(w) \/ FailThrows(w)
          BY <4>2 DEF Complete, Fail, FailThrows, EndEvent, Go, Phases
        <4>3. CASE CompleteThrows(w) \/ Throw(w) \/ AssignRider(w) \/ ReadRecipients(w)
                     \/ HandlersEnd(w)
          BY <4>3 DEF CompleteThrows, Throw, AssignRider, ReadRecipients, HandlersEnd,
               Go, Phases
        <4>4. CASE ClaimBatch(w) \/ SkipDelivered(w) \/ Send(w) \/ SendFails(w)
                     \/ RecordDelivery(w)
          BY <4>4 DEF ClaimBatch, SkipDelivered, Send, SendFails, RecordDelivery
        <4> QED BY <2>4, <4>1, <4>2, <4>3, <4>4 DEF WorkerStep
      <3>3. \A q \in Actors : phase'[q] = "calling" => phase[q] = "calling"
        BY <2>1, <3>2 DEF TypeOK
      <3> QED BY <3>1, <3>3 DEF OverlapInv
    <2>5. ASSUME NEW c \in Calls, RequestAccount(c) PROVE OverlapInv' /\ Lost
      BY <2>1, <2>5 DEF RequestAccount, Go, OverlapInv, TypeOK, wallet
    <2>6. CASE UNCHANGED <<account, overlapped, phase>>
      BY <2>6 DEF OverlapInv
    <2> QED BY <2>2, <2>3, <2>4, <2>5, <2>6, OutboxAssumption DEF Next, BackoffEnds,
          AdminClaims, SetPreference, CompleteProfile, vars, wallet
  <1> QED BY <1>1, <1>2, SpecInv, PTL DEF Spec, AccountLostOnlyToOverlap
=============================================================================
