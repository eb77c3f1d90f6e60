------------------------------ MODULE MCPayouts ------------------------------
EXTENDS Payouts, TLC

CONSTANTS o1, o2, s1, s2, c1, c2

\* Every order earns two units, so that a refund of one leaves a rest.
TwoEach == [o \in Orders |-> 2]

\* Calls, orders served after the cutover and, where none is daily, settlements
\* are interchangeable.
WithdrawalSymmetry ==
    Permutations(Calls) \cup Permutations(Orders) \cup Permutations(Settlements)
=============================================================================
