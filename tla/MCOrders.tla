------------------------------ MODULE MCOrders ------------------------------
(* Instances of Orders for TLC: carts, stock and symmetry.                  *)
EXTENDS Orders, TLC

\* Every order asks for one unit of every item, on one line.
OneEach == [o \in Orders |-> [i \in Items |-> 1]]
OneLine == [o \in Orders |-> [i \in Items |-> 1]]

\* Every order names every item on two lines (two soups, say).
TwoLines == [o \in Orders |-> [i \in Items |-> 2]]

\* Room for one order only.
LastUnit == [i \in Items |-> 1]
TwoUnits == [i \in Items |-> 2]

Symmetry == Permutations(Orders)
=============================================================================
