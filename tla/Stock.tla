-------------------------------- MODULE Stock --------------------------------
(***************************************************************************)
(* What checkout promises about dated inventory, with no counters, jobs or *)
(* payments: a slot's capacity is never shared out twice among the orders  *)
(* that hold units of it and those that took theirs, a unit taken is never *)
(* given back, and only a captured payment may stretch the capacity, by no *)
(* more than it needs.                                                     *)
(***************************************************************************)
EXTENDS Integers, FiniteSets

CONSTANTS
    Orders,   \* the orders that may ask for units
    Items,    \* the kinds of units
    Quantity  \* Quantity[o][i]: units of i that order o asks for

VARIABLES
    capacity,  \* units of each item
    holding,   \* orders holding their units while they wait for payment
    taken      \* orders that bought theirs

vars == <<capacity, holding, taken>>

Load(S, i) == Cardinality(UNION {{o} \X (1..Quantity[o][i]) : o \in S})
InUse(i) == Load(holding, i) + Load(taken, i)
Fits(o) == \A i \in Items : InUse(i) + Quantity[o][i] <= capacity[i]

Init ==
    /\ capacity \in [Items -> Nat]
    /\ holding = {}
    /\ taken = {}

Hold(o) ==
    /\ o \notin holding \cup taken
    /\ Fits(o)
    /\ holding' = holding \cup {o}
    /\ UNCHANGED <<capacity, taken>>

Release(o) ==
    /\ o \in holding
    /\ holding' = holding \ {o}
    /\ UNCHANGED <<capacity, taken>>

\* Bought out of the units it holds.
Take(o) ==
    /\ o \in holding \ taken
    /\ holding' = holding \ {o}
    /\ taken' = taken \cup {o}
    /\ UNCHANGED capacity

\* Bought at once, within the capacity.
Buy(o) ==
    /\ o \notin holding \cup taken
    /\ Fits(o)
    /\ taken' = taken \cup {o}
    /\ UNCHANGED <<capacity, holding>>

\* Paid for after its units were given back: honoured, whatever is left.
Recover(o) ==
    /\ o \notin taken
    /\ taken' = taken \cup {o}
    /\ capacity' = [i \in Items |->
          IF Quantity[o][i] > 0 /\ InUse(i) + Quantity[o][i] > capacity[i]
            THEN InUse(i) + Quantity[o][i] ELSE capacity[i]]
    /\ UNCHANGED holding

\* Vendors and administrators change the capacity, never below what is in use.
Restock(i) ==
    /\ capacity'[i] \in Nat
    /\ capacity'[i] >= InUse(i)
    /\ capacity' = [capacity EXCEPT ![i] = capacity'[i]]
    /\ UNCHANGED <<holding, taken>>

Next ==
    \/ \E o \in Orders : Hold(o) \/ Release(o) \/ Take(o) \/ Buy(o) \/ Recover(o)
    \/ \E i \in Items : Restock(i)

Spec == Init /\ [][Next]_vars
=============================================================================
