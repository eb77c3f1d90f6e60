-------------------------------- MODULE Outbox --------------------------------
(***************************************************************************)
(* The transactional outbox and the worker processes that drain it.  A     *)
(* worker claims a batch, runs the handlers of one event after another and *)
(* then completes the event or gives it back; it may stop anywhere.  An    *)
(* administrator can claim events as well.  Dedicated accounts are         *)
(* provisioned by a handler and, over HTTP, by the customer: an actor is a *)
(* worker or one such call.                                                *)
(***************************************************************************)
EXTENDS Integers, FiniteSets

CONSTANTS
    Events,
    KindOf,      \* KindOf[e]: which handlers are registered for its type
    Deliveries,  \* a notification of a recipient on one channel
    EventOf,     \* EventOf[d]: the event that materialized the notification
    Workers,     \* worker processes, each with a locked_by of its own
    Calls,       \* POST /wallet/dedicated-account requests
    Admins,
    BatchSize,   \* WORKER_BATCH_SIZE
    MaxAttempts, \* WORKER_MAX_ATTEMPTS
    DvaEnabled,  \* WALLET_DVA_ENABLED
    Mortal,      \* bound: the worker processes that may stop
    MaxSwitches, \* bound: preferences switched, each once
    None

Actors == Workers \cup Calls
Phases == {"idle", "assigning", "checking", "reading", "sending", "completing",
           "failing", "calling", "stopped", "ended"}
Kinds == {"notice", "ready", "account"}

ASSUME OutboxAssumption ==
    /\ KindOf \in [Events -> Kinds]
    /\ EventOf \in [Deliveries -> Events]
    /\ \A d \in Deliveries : KindOf[EventOf[d]] # "account"
    /\ Mortal \subseteq Workers
    /\ Workers \cap (Calls \cup Admins) = {}
    /\ BatchSize \in Nat \ {0}
    /\ MaxAttempts \in Nat \ {0}
    /\ DvaEnabled \in BOOLEAN
    /\ None \notin Events \cup Deliveries \cup Workers \cup Admins

VARIABLES
    processed,  \* events with processed_at
    dead,       \* events with failed_at
    due,        \* events whose available_at has passed
    holder,     \* locked_by of each event
    attempts,
    wants,      \* deliveries the recipient's preferences enable
    recorded,   \* rows of notification_deliveries
    assigned,   \* "ready" events whose batch was offered to a rider
    phase,      \* what each actor is doing
    batch,      \* events a worker claimed and has not finished
    current,    \* the event whose handlers it runs
    todo,       \* deliveries findRecipientsForEvent returned, not yet visited
    at,         \* the delivery being made
    failures,   \* workers whose current event had a channel fail
    profile,    \* the wallet owner has an e-mail address and a phone number
    account,    \* wallet_dedicated_accounts.status of the one wallet
    changed,    \* history: deliveries whose preference was switched
    overlapped  \* history: provisionings under way at the last activation

table == <<processed, dead, due, holder, attempts>>
notices == <<wants, recorded, changed>>
memory == <<batch, current, todo, at, failures>>
wallet == <<profile, account, overlapped>>
vars == <<table, notices, assigned, phase, memory, wallet>>

Init ==
    /\ processed = {} /\ dead = {} /\ due = Events
    /\ holder = [e \in Events |-> None]
    /\ attempts = [e \in Events |-> 0]
    /\ wants \in SUBSET Deliveries
    /\ recorded = {} /\ assigned = {}
    /\ phase = [p \in Actors |-> "idle"]
    /\ batch = [w \in Workers |-> {}]
    /\ current = [w \in Workers |-> None]
    /\ todo = [w \in Workers |-> {}]
    /\ at = [w \in Workers |-> None]
    /\ failures = {}
    /\ profile \in BOOLEAN
    /\ account = "none"
    /\ changed = {} /\ overlapped = {}

-----------------------------------------------------------------------------
(* The claim, the acknowledgement and the retry.                           *)

Go(p, next) == phase' = [phase EXCEPT ![p] = next]

\* A claim takes what another worker holds, as soon as it is due.
ClaimableThoughLocked == {e \in due : e \notin processed \cup dead}

Claimable ==
    {e \in due : e \notin processed \cup dead /\ holder[e] = None}

\* A claim does not count the attempt.
TakeOverUncounted(p, claimed) ==
    /\ holder' = [e \in Events |-> IF e \in claimed THEN p ELSE holder[e]]
    /\ UNCHANGED <<processed, dead, due, attempts>>

TakeOver(p, claimed) ==
    /\ holder' = [e \in Events |-> IF e \in claimed THEN p ELSE holder[e]]
    /\ attempts' = [e \in Events |->
                      attempts[e] + (IF e \in claimed THEN 1 ELSE 0)]
    /\ UNCHANGED <<processed, dead, due>>

\* drainOnce asks for a batch; an empty one lets it sleep and ask again.
ClaimBatch(w) ==
    /\ phase[w] = "idle" /\ batch[w] = {}
    /\ \E claimed \in SUBSET Claimable \ {{}} :
        /\ Cardinality(claimed) <= BatchSize
        /\ Cardinality(claimed) = BatchSize \/ claimed = Claimable
        /\ TakeOver(w, claimed)
        /\ batch' = [batch EXCEPT ![w] = claimed]
    /\ UNCHANGED <<notices, assigned, phase, current, todo, at, failures, wallet>>

\* The handler EventDispatcher finds for the event.
FirstHandler(e) ==
    CASE KindOf[e] = "ready"   -> "assigning"
      [] KindOf[e] = "account" -> "checking"
      [] KindOf[e] = "notice"  -> "reading"

NextEvent(w) ==
    /\ phase[w] = "idle"
    /\ \E e \in batch[w] :
        /\ current' = [current EXCEPT ![w] = e]
        /\ Go(w, FirstHandler(e))
    /\ UNCHANGED <<table, notices, assigned, batch, todo, at, failures, wallet>>

\* The loop goes on with the rest of the batch.
EndEvent(w) ==
    /\ Go(w, "idle")
    /\ batch' = [batch EXCEPT ![w] = @ \ {current[w]}]
    /\ current' = [current EXCEPT ![w] = None]
    /\ failures' = failures \ {w}
    /\ todo' = [todo EXCEPT ![w] = {}]
    /\ UNCHANGED <<notices, assigned, at, wallet>>

MarkProcessed(e) ==
    /\ processed' = processed \cup {e}
    /\ holder' = [holder EXCEPT ![e] = None]
    /\ UNCHANGED <<dead, due, attempts>>

Complete(w) ==
    /\ phase[w] = "completing"
    /\ MarkProcessed(current[w])
    /\ EndEvent(w)

\* complete() is inside the try: an error it throws sends the event to
\* fail(), whether or not the update reached the database.
CompleteThrows(w) ==
    /\ phase[w] = "completing"
    /\ MarkProcessed(current[w]) \/ UNCHANGED table
    /\ Go(w, "failing")
    /\ UNCHANGED <<notices, assigned, memory, wallet>>

\* fail_outbox_event: dead-letter at the last attempt, back off before it.
GiveBack(e) ==
    /\ holder' = [holder EXCEPT ![e] = None]
    /\ IF attempts[e] >= MaxAttempts
         THEN dead' = dead \cup {e} /\ due' = due
         ELSE dead' = dead /\ due' = due \ {e}
    /\ UNCHANGED <<processed, attempts>>

Fail(w) ==
    /\ phase[w] = "failing"
    /\ GiveBack(current[w])
    /\ EndEvent(w)

\* An error of fail() itself leaves drainOnce; the rest of the batch stays
\* locked by a worker that has forgotten it.
FailThrows(w) ==
    /\ phase[w] = "failing"
    /\ Go(w, "idle")
    /\ batch' = [batch EXCEPT ![w] = {}]
    /\ current' = [current EXCEPT ![w] = None]
    /\ todo' = [todo EXCEPT ![w] = {}]
    /\ failures' = failures \ {w}
    /\ UNCHANGED <<table, notices, assigned, at, wallet>>

\* A signal exits the process in the middle of the batch, as a crash does.
Stop(w) ==
    /\ phase[w] # "stopped"
    /\ Go(w, "stopped")
    /\ batch' = [batch EXCEPT ![w] = {}]
    /\ current' = [current EXCEPT ![w] = None]
    /\ todo' = [todo EXCEPT ![w] = {}]
    /\ at' = [at EXCEPT ![w] = None]
    /\ failures' = failures \ {w}
    /\ overlapped' = overlapped \ {w}
    /\ UNCHANGED <<table, notices, assigned, profile, account>>

BackoffEnds(e) ==
    /\ e \notin due
    /\ due' = due \cup {e}
    /\ UNCHANGED <<processed, dead, holder, attempts, notices, assigned, phase,
                   memory, wallet>>

\* POST /admin/jobs/outbox/process: its condition does not look at failed_at,
\* and nobody handles what it claims.  A claim of several
\* events is several such claims.
AdminClaimable == {e \in due : e \notin processed /\ holder[e] = None}

AdminClaims(a) ==
    /\ \E e \in AdminClaimable : TakeOver(a, {e})
    /\ UNCHANGED <<notices, assigned, phase, memory, wallet>>

-----------------------------------------------------------------------------
(* The handlers.  Automatic dispatch runs before the notifications of the  *)
(* same event; an error of either ends the event's handlers.               *)

Throw(w) ==
    /\ phase[w] \in {"assigning", "reading", "sending"}
    /\ at[w] = None
    /\ Go(w, "failing")
    /\ UNCHANGED <<table, notices, assigned, memory, wallet>>

AssignRider(w) ==
    /\ phase[w] = "assigning"
    /\ assigned' = assigned \cup {current[w]}
    /\ Go(w, "reading")
    /\ UNCHANGED <<table, notices, memory, wallet>>

ReadRecipients(w) ==
    /\ phase[w] = "reading"
    /\ todo' = [todo EXCEPT ![w] = {d \in wants : EventOf[d] = current[w]}]
    /\ Go(w, "sending")
    /\ UNCHANGED <<table, notices, assigned, batch, current, at, failures, wallet>>

Visited(w, d) == todo' = [todo EXCEPT ![w] = @ \ {d}]

\* alreadyDelivered guards a channel a previous attempt has recorded.
SkipDelivered(w) ==
    /\ phase[w] = "sending" /\ at[w] = None
    /\ \E d \in todo[w] \cap recorded : Visited(w, d)
    /\ UNCHANGED <<table, notices, assigned, phase, batch, current, at, failures,
                   wallet>>

Send(w) ==
    /\ phase[w] = "sending" /\ at[w] = None
    /\ \E d \in todo[w] \ recorded : at' = [at EXCEPT ![w] = d]
    /\ UNCHANGED <<table, notices, assigned, phase, batch, current, todo, failures,
                   wallet>>

SendFails(w) ==
    /\ phase[w] = "sending" /\ at[w] = None
    /\ \E d \in todo[w] \ recorded : Visited(w, d)
    /\ failures' = failures \cup {w}
    /\ UNCHANGED <<table, notices, assigned, phase, batch, current, at, wallet>>

RecordDelivery(w) ==
    /\ at[w] # None
    /\ \/ recorded' = recorded \cup {at[w]} /\ failures' = failures
       \/ recorded' = recorded /\ failures' = failures \cup {w}
    /\ Visited(w, at[w])
    /\ at' = [at EXCEPT ![w] = None]
    /\ UNCHANGED <<table, wants, changed, assigned, phase, batch, current, wallet>>

\* The failures of the channels are swallowed.
HandlersEndQuietly(w) ==
    /\ phase[w] = "sending" /\ at[w] = None /\ todo[w] = {}
    /\ Go(w, "completing")
    /\ UNCHANGED <<table, notices, assigned, memory, wallet>>

\* Failures are rethrown once every channel has been tried.
HandlersEnd(w) ==
    /\ phase[w] = "sending" /\ at[w] = None /\ todo[w] = {}
    /\ Go(w, IF w \in failures THEN "failing" ELSE "completing")
    /\ UNCHANGED <<table, notices, assigned, memory, wallet>>

\* upsertPreferences switches a channel on or off, also for what is queued.
SetPreference(d) ==
    /\ d \notin changed /\ Cardinality(changed) < MaxSwitches
    /\ wants' = IF d \in wants THEN wants \ {d} ELSE wants \cup {d}
    /\ changed' = changed \cup {d}
    /\ UNCHANGED <<table, recorded, assigned, phase, memory, wallet>>

-----------------------------------------------------------------------------
(* Dedicated accounts.                                                     *)

RequestAccount(c) ==
    /\ phase[c] = "idle"
    /\ Go(c, "checking")
    /\ UNCHANGED <<table, notices, assigned, memory, wallet>>

Return(p) == Go(p, IF p \in Workers THEN "completing" ELSE "ended")
Rethrow(p) == Go(p, IF p \in Workers THEN "failing" ELSE "ended")

\* A provisioning does not look for an account first.
CheckProfileOnly(p) ==
    /\ phase[p] = "checking"
    /\ IF ~profile THEN Return(p) ELSE Go(p, "calling")
    /\ UNCHANGED <<table, notices, assigned, memory, wallet>>

\* The feature off, an active account, or a profile Paystack would refuse,
\* ends it here.
CheckAccount(p) ==
    /\ phase[p] = "checking"
    /\ IF ~DvaEnabled \/ account = "active" \/ ~profile THEN Return(p) ELSE Go(p, "calling")
    /\ UNCHANGED <<table, notices, assigned, memory, wallet>>

\* The customer and the account are created at Paystack and the row written.
StoreActive(p) ==
    /\ phase[p] = "calling"
    /\ account' = "active"
    /\ overlapped' = {q \in Actors \ {p} : phase[q] = "calling"}
    /\ Return(p)
    /\ UNCHANGED <<table, notices, assigned, memory, profile>>

\* Any of the three fails: the catch writes a failed row, or throws as well.
StoreFailed(p) ==
    /\ phase[p] = "calling"
    /\ account' \in {"failed", account}
    /\ overlapped' = overlapped \ {p}
    /\ Rethrow(p)
    /\ UNCHANGED <<table, notices, assigned, memory, profile>>

CompleteProfile ==
    /\ ~profile
    /\ profile' = TRUE
    /\ UNCHANGED <<table, notices, assigned, phase, memory, account, overlapped>>

-----------------------------------------------------------------------------
WorkerStep(w) ==
    \/ ClaimBatch(w) \/ NextEvent(w)
    \/ Complete(w) \/ CompleteThrows(w) \/ Fail(w) \/ FailThrows(w)
    \/ Throw(w) \/ AssignRider(w) \/ ReadRecipients(w)
    \/ SkipDelivered(w) \/ Send(w) \/ SendFails(w) \/ RecordDelivery(w)
    \/ HandlersEnd(w)

ProvisionStep(p) ==
    CheckAccount(p) \/ StoreActive(p) \/ StoreFailed(p)

Next ==
    \/ \E w \in Workers : WorkerStep(w)
    \/ \E w \in Mortal : Stop(w)
    \/ \E p \in Actors : ProvisionStep(p)
    \/ \E c \in Calls : RequestAccount(c)
    \/ \E e \in Events : BackoffEnds(e)
    \/ \E a \in Admins : AdminClaims(a)
    \/ \E d \in Deliveries : SetPreference(d)
    \/ CompleteProfile

Spec == Init /\ [][Next]_vars

\* A worker loops until it is stopped, and time passes.
LiveSpec ==
    /\ Spec
    /\ \A w \in Workers : WF_vars(WorkerStep(w) \/ ProvisionStep(w))
    /\ \A e \in Events : WF_vars(BackoffEnds(e))

-----------------------------------------------------------------------------
(* Properties.                                                             *)

TypeOK ==
    /\ processed \in SUBSET Events /\ dead \in SUBSET Events
    /\ due \in SUBSET Events
    /\ holder \in [Events -> Workers \cup Admins \cup {None}]
    /\ attempts \in [Events -> Nat]
    /\ wants \in SUBSET Deliveries
    /\ recorded \in SUBSET Deliveries /\ changed \in SUBSET Deliveries
    /\ assigned \in SUBSET Events
    /\ phase \in [Actors -> Phases]
    /\ batch \in [Workers -> SUBSET Events]
    /\ current \in [Workers -> Events \cup {None}]
    /\ todo \in [Workers -> SUBSET Deliveries]
    /\ at \in [Workers -> Deliveries \cup {None}]
    /\ failures \in SUBSET Workers
    /\ profile \in BOOLEAN
    /\ account \in {"none", "active", "failed"}
    /\ overlapped \in SUBSET Actors

\* An event marked processed has been handled: every notification its
\* recipients wanted all along is recorded as delivered on every channel, and
\* a ready order was offered to a rider.  Failing channels, batches cut
\* short and acknowledgements that throw do not lose one.
ProcessedIsHandled ==
    \A e \in processed :
        /\ \A d \in wants \ changed : EventOf[d] = e => d \in recorded
        /\ KindOf[e] = "ready" => e \in assigned

\* A delivery being made is not recorded yet and nobody else is making it:
\* alreadyDelivered is read before the send and the row written after it, so
\* only the lock on the event keeps a second worker from repeating it.
DeliveredByOne ==
    \A w \in Workers : at[w] # None =>
        at[w] \notin recorded /\ \A v \in Workers \ {w} : at[v] # at[w]

\* An active account number is taken away only by a provisioning that was
\* already under way when it was activated: one that starts later returns.
AccountLostOnlyToOverlap ==
    [][account = "active" /\ account' # "active" =>
         \E p \in overlapped : phase[p] = "calling" /\ phase'[p] # "calling"]_vars

\* What has become of an event for good: handled, dead-lettered, claimed by an
\* administrator, or locked by a worker that no longer knows of it.
Stranded(e) ==
    \/ holder[e] \in Admins
    \/ holder[e] \in Workers /\ e \notin batch[holder[e]]
EventResolved(e) == e \in processed \cup dead \/ Stranded(e)

\* No event is retried for ever or left unclaimed while a worker runs.
EventsResolve == \A e \in Events : <>EventResolved(e)
=============================================================================
