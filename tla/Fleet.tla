------------------------------- MODULE Fleet -------------------------------
(***************************************************************************)
(* Riders, the fleet partners they ride for, and the position each shares. *)
(* A rider's employer, shift and standing are columns of one row, written  *)
(* by the rider, a fleet manager and an administrator; a batch's assignment*)
(* is written by them and the worker; triggers on both tables delete the   *)
(* stored position.  The orders of a batch are those of module Dispatch.   *)
(***************************************************************************)
EXTENDS FiniteSets, Naturals

CONSTANTS
    Riders, Partners, Batches,
    Own,       \* the campus's own riders: fleet_partner_id is null
    Nobody,
    MaxMoves   \* bound: changes of employer in flight at once

VARIABLES
    partner,    \* "active" or "inactive": suspended or deactivated
    marking,    \* partners made inactive, whose riders are not yet off shift
    employer,   \* riders.fleet_partner_id
    available,  \* riders on shift
    suspended,  \* riders an administrator suspended, the others verified
    moving,     \* changes of employer past their checks: <<rider, from, to>>
    assignment, \* delivery_assignments of each batch
    picked,     \* the rider auto-dispatch chose and has not yet inserted
    desk,       \* fleet_assign_batch in progress
    ending,     \* batches whose assignment's end is not committed
    shared,     \* riders with a rider_locations row
    fix,        \* riders with a position past recordRiderLocation's checks
    excused     \* history: why an off-duty rider's position is still stored

employers == <<partner, marking, employer, moving>>
dispatch == <<assignment, picked, desk, ending>>
positions == <<shared, fix, excused>>
vars == <<employers, available, suspended, dispatch, positions>>

NoAssignment == [state |-> "none", rider |-> Nobody, fleet |-> Own]
Free == [stage |-> "free", fleet |-> Own, rider |-> Nobody]

Init ==
    /\ partner = [p \in Partners |-> "active"]
    /\ marking = {}
    /\ employer = [r \in Riders |-> Own]
    /\ available = {} /\ suspended = {} /\ moving = {}
    /\ assignment = [b \in Batches |-> NoAssignment]
    /\ picked = [b \in Batches |-> Nobody]
    /\ desk = [b \in Batches |-> Free]
    /\ ending = {} /\ shared = {} /\ fix = {} /\ excused = {}

-----------------------------------------------------------------------------
(* What is committed, what is locked, and the triggers.                    *)

\* Does rider r have an open assignment of one of "among"?
Carries(r, among) ==
    \E b \in among : /\ assignment[b].rider = r
                     /\ assignment[b].state \in {"assigned", "accepted"}

\* ... as another transaction sees it, to whom an end under way is not one.
Delivering(r) ==
    Carries(r, Batches) \/ \E b \in ending : assignment[b].rider = r

OffDuty(r) == r \notin available /\ ~Delivering(r)

\* fleet_assign_batch holds its batch, and its rider's row for share.
RiderUnlocked(r) ==
    \A b \in Batches : ~(desk[b].stage = "locked" /\ desk[b].rider = r)

\* Mutant: an insert that needs no lock on its batch.
UnlockedByInserters(b) == b \notin ending

\* ... and the assignment, which an insert reaches through its foreign key.
AssignmentUnlocked(b) == desk[b].stage # "locked" /\ b \notin ending

\* clear_rider_location_when_off_duty, for riders whose row leaves the shift:
\* one who still delivers keeps sharing, and one whose last delivery is just
\* ending was seen on shift by that end's trigger.
ClearOffDuty(gone) ==
    LET cleared == {r \in gone : ~Delivering(r)} IN
    /\ shared' = shared \ cleared
    /\ excused' = (excused \ cleared) \cup
          {r \in (gone \cap shared) \ cleared : ~Carries(r, Batches)}
    /\ UNCHANGED fix

-----------------------------------------------------------------------------
(* Fleet partners and the riders they employ.                              *)

\* updatePartner's first statement; the riders are taken off shift later.
UpdatePartner(p) ==
    /\ p \notin marking
    /\ \E status \in {"active", "inactive"} \ {partner[p]} :
          /\ partner' = [partner EXCEPT ![p] = status]
          /\ marking' = IF status = "active" THEN marking ELSE marking \cup {p}
    /\ UNCHANGED <<employer, moving, available, suspended, dispatch, positions>>

MarkFleetRidersUnavailable(p) ==
    LET off == {r \in available : employer[r] = p} IN
    /\ p \in marking
    /\ \A r \in off : RiderUnlocked(r)
    /\ marking' = marking \ {p}
    /\ available' = available \ off
    /\ ClearOffDuty(off)
    /\ UNCHANGED <<partner, employer, moving, suspended, dispatch>>

BeginMove(move) ==
    /\ Cardinality(moving) < MaxMoves
    /\ moving' = moving \cup {move}
    /\ UNCHANGED <<partner, marking, employer, available, suspended, dispatch,
                   positions>>

JoinFleet(r, p) ==
    /\ partner[p] = "active" /\ employer[r] = Own
    /\ BeginMove(<<r, Own, p>>)

\* An administrator attaches a rider to a partner of any status.
AttachRider(r, p) ==
    /\ employer[r] = Own
    /\ BeginMove(<<r, Own, p>>)

\* The rider leaves, or a manager or an administrator lets the rider go.
LeaveFleet(r) ==
    /\ employer[r] # Own
    /\ BeginMove(<<r, employer[r], Own>>)

\* Mutant: the move does not look at the employer it was checked against.
SetFleetAnyway(r, from, to) ==
    /\ employer' = [employer EXCEPT ![r] = to]
    /\ available' = available \ {r}
    /\ ClearOffDuty({r})

\* setRiderFleet: only while the employer is the one that was read.
SetRiderFleet(r, from, to) ==
    IF employer[r] = from
    THEN /\ employer' = [employer EXCEPT ![r] = to]
         /\ available' = available \ {r}
         /\ ClearOffDuty({r})
    ELSE UNCHANGED <<employer, available, positions>>

MoveRider(move) ==
    /\ move \in moving
    /\ RiderUnlocked(move[1])
    /\ moving' = moving \ {move}
    /\ SetRiderFleet(move[1], move[2], move[3])
    /\ UNCHANGED <<partner, marking, suspended, dispatch>>

-----------------------------------------------------------------------------
(* The shift and the standing.                                             *)

\* setAvailability looks at the standing and writes later, so that a rider
\* suspended meanwhile changes the shift too.
SetAvailability(r) ==
    /\ RiderUnlocked(r)
    /\ \/ /\ r \notin available
          /\ available' = available \cup {r}
          /\ UNCHANGED positions
       \/ /\ available' = available \ {r}
          /\ ClearOffDuty({r})
    /\ UNCHANGED <<employers, suspended, dispatch>>

\* setRiderStatus leaves the shift as it is; the trigger looks at it all the
\* same when the rider is not verified, or not on shift.
SetRiderStatus(r) ==
    /\ RiderUnlocked(r)
    /\ suspended' = IF r \in suspended THEN suspended \ {r}
                    ELSE suspended \cup {r}
    /\ ClearOffDuty({r} \ available)
    /\ UNCHANGED <<employers, available, dispatch>>

-----------------------------------------------------------------------------
(* Assigning batches.                                                      *)

\* The row as every writer leaves it, the trigger's snapshot of the employer
\* in it.  A rider who loses a batch this way passes no trigger.
Assign(b, r) ==
    LET old == assignment[b].rider IN
    /\ assignment' = [assignment EXCEPT ![b] =
           [state |-> "assigned", rider |-> r,
            fleet |-> IF r \in Riders THEN employer[r] ELSE Own]]
    /\ excused' = IF /\ old \in shared \ (available \cup {r})
                     /\ Carries(old, {b}) /\ ~Carries(old, Batches \ {b})
                  THEN excused \cup {old} ELSE excused
    /\ UNCHANGED <<shared, fix>>

\* assign_available_rider_to_batch: no assignment yet, and a rider to have it.
AutoPick(b) ==
    /\ picked[b] = Nobody /\ assignment[b].state = "none"
    /\ \E r \in available \ suspended :
          /\ employer[r] \in {Own} \cup {p \in Partners : partner[p] = "active"}
          /\ picked' = [picked EXCEPT ![b] = r]
    /\ UNCHANGED <<employers, available, suspended, assignment, desk, ending,
                   positions>>

\* The unique key on the batch lets one insert through.
AutoAssign(b) ==
    /\ picked[b] # Nobody /\ AssignmentUnlocked(b)
    /\ picked' = [picked EXCEPT ![b] = Nobody]
    /\ IF assignment[b].state = "none" THEN Assign(b, picked[b])
       ELSE UNCHANGED <<assignment, positions>>
    /\ UNCHANGED <<employers, available, suspended, desk, ending>>

\* fleet_assign_batch reads the partner, which no lock keeps as it is ...
FleetRead(b) ==
    /\ desk[b].stage = "free"
    /\ \E p \in Partners, r \in Riders :
          /\ partner[p] = "active"
          /\ desk' = [desk EXCEPT ![b] =
                          [stage |-> "read", fleet |-> p, rider |-> r]]
    /\ UNCHANGED <<employers, available, suspended, assignment, picked, ending,
                   positions>>

\* ... and then, under locks, what the decision rests on.
MayTake(b, p, r) ==
    /\ employer[r] = p /\ r \notin suspended
    /\ \/ assignment[b].state \in {"none", "cancelled"}
       \/ assignment[b].state = "assigned" /\ assignment[b].fleet = p

FleetCheck(b) ==
    /\ desk[b].stage = "read" /\ AssignmentUnlocked(b)
    /\ desk' = [desk EXCEPT ![b] = IF MayTake(b, @.fleet, @.rider)
                                   THEN [@ EXCEPT !.stage = "locked"]
                                   ELSE Free]
    /\ UNCHANGED <<employers, available, suspended, assignment, picked, ending,
                   positions>>

FleetAssign(b) ==
    /\ desk[b].stage = "locked"
    /\ desk' = [desk EXCEPT ![b] = Free]
    /\ Assign(b, desk[b].rider)
    /\ UNCHANGED <<employers, available, suspended, picked, ending>>

\* Two inserts of one batch may wait for each other, the manager's for the
\* key and the worker's for the batch: PostgreSQL ends the manager's.
FleetDeadlocks(b) ==
    /\ desk[b].stage = "locked" /\ assignment[b].state = "none"
    /\ picked[b] # Nobody
    /\ desk' = [desk EXCEPT ![b] = Free]
    /\ UNCHANGED <<employers, available, suspended, assignment, picked, ending,
                   positions>>

\* Of the riders of every partner, and of the vendor's own deliverers.
AdminAssign(b) ==
    /\ AssignmentUnlocked(b)
    /\ \E who \in Riders \cup {Nobody} : Assign(b, who)
    /\ UNCHANGED <<employers, available, suspended, picked, desk, ending>>

Accept(b) ==
    /\ assignment[b].state = "assigned" /\ assignment[b].rider \in Riders
    /\ AssignmentUnlocked(b)
    /\ assignment' = [assignment EXCEPT ![b].state = "accepted"]
    /\ UNCHANGED <<employers, available, suspended, picked, desk, ending,
                   positions>>

\* Mutant: no trigger on the assignment.
PositionKept(b, r) == UNCHANGED <<shared, excused>>

\* clear_rider_location_after_assignment, inside the transaction that ends
\* the assignment of b: of two ends under way neither sees the other.
ClearAfter(b, r) ==
    LET others == Batches \ {b}
        open == \/ Carries(r, others)
                \/ \E a \in ending \ {b} : assignment[a].rider = r
        cleared == IF r \in available \/ open THEN {} ELSE {r}
        missed == {r} \cap
            IF Carries(r, others) THEN {} ELSE shared \ (available \cup cleared)
    IN  /\ shared' = shared \ cleared
        /\ excused' = (excused \ cleared) \cup missed

\* Cancelled by an administrator, declined or completed by the rider.
EndAssignment(b) ==
    /\ AssignmentUnlocked(b)
    /\ \/ /\ assignment[b].state # "none"
          /\ assignment' = [assignment EXCEPT ![b].state = "cancelled"]
       \/ /\ assignment[b].state = "accepted"
          /\ assignment' = [assignment EXCEPT ![b].state = "completed"]
    /\ ending' = IF assignment[b].state \in {"assigned", "accepted"}
                 THEN ending \cup {b} ELSE ending
    /\ ClearAfter(b, assignment[b].rider)
    /\ UNCHANGED <<employers, available, suspended, picked, desk, fix>>

CommitEnd(b) ==
    /\ b \in ending
    /\ ending' = ending \ {b}
    /\ UNCHANGED <<employers, available, suspended, assignment, picked, desk,
                   positions>>

-----------------------------------------------------------------------------
(* Positions.                                                              *)

\* recordRiderLocation: the checks ...
CheckFix(r) ==
    /\ r \notin fix /\ r \notin suspended
    /\ r \in available \/ Delivering(r)
    /\ fix' = fix \cup {r}
    /\ UNCHANGED <<employers, available, suspended, dispatch, shared, excused>>

\* ... and the upsert, which finds the rider where the rider is by then.
StoreFix(r) ==
    /\ r \in fix
    /\ fix' = fix \ {r}
    /\ shared' = shared \cup {r}
    /\ excused' = IF r \in available \/ Carries(r, Batches)
                  THEN excused ELSE excused \cup {r}
    /\ UNCHANGED <<employers, available, suspended, dispatch>>

StopSharing(r) ==
    /\ shared' = shared \ {r}
    /\ excused' = excused \ {r}
    /\ UNCHANGED <<employers, available, suspended, dispatch, fix>>

Next ==
    \/ \E p \in Partners : UpdatePartner(p) \/ MarkFleetRidersUnavailable(p)
    \/ \E r \in Riders, p \in Partners : JoinFleet(r, p) \/ AttachRider(r, p)
    \/ \E r \in Riders :
          \/ LeaveFleet(r) \/ SetAvailability(r) \/ SetRiderStatus(r)
          \/ CheckFix(r) \/ StoreFix(r) \/ StopSharing(r)
    \/ \E move \in moving : MoveRider(move)
    \/ \E b \in Batches :
          \/ AutoPick(b) \/ AutoAssign(b) \/ FleetRead(b) \/ FleetCheck(b)
          \/ FleetAssign(b) \/ FleetDeadlocks(b) \/ AdminAssign(b)
          \/ Accept(b) \/ EndAssignment(b) \/ CommitEnd(b)

Spec == Init /\ [][Next]_vars

-----------------------------------------------------------------------------
\* "A change of employer": a rider goes from one partner to another only by
\* way of the campus, however the requests of the two overlap, and never
\* takes a shift along.
NoPoaching ==
    [][\A r \in Riders :
          employer'[r] # employer[r] =>
              Own \in {employer[r], employer'[r]} /\ r \notin available']_vars

\* "Validates and assigns atomically under row locks": what a manager's
\* assignment was allowed on is still so when it is written, so that it takes
\* no batch from a rider outside the fleet and gives none to one.
DecidedOnFacts ==
    \A b \in Batches :
        desk[b].stage = "locked" => MayTake(b, desk[b].fleet, desk[b].rider)

\* "A rider only has a row while on shift or mid-delivery": a stored position
\* outlives that only by a fix that came late, a batch given to someone else,
\* or a shift that ended while the last delivery was ending.
OffDutyPositionsHaveReasons ==
    \A r \in shared : OffDuty(r) => r \in excused
=============================================================================
