------------------------------ MODULE MCRefunds ------------------------------
EXTENDS Refunds, TLC

CONSTANTS a1, a2, f1, f2

RowSymmetry == Permutations(Rows)
TaskAndRowSymmetry == Permutations(Rows) \cup Permutations(Tasks)
=============================================================================
