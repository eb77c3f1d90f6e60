----------------------------- MODULE MCDispatch -----------------------------
(* Instances of Dispatch for TLC.                                          *)
EXTENDS Dispatch, TLC

\* All orders go the same way, as they do from one vendor to one zone.
OneBatch == [o \in Orders |-> CHOOSE b \in Batches : TRUE]

Symmetry == Permutations(Orders)
=============================================================================
