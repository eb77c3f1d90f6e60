------------------------------ MODULE FeeCases ------------------------------
(***************************************************************************)
(* The edits, baskets and top-ups for which Fees is checked.               *)
(***************************************************************************)
EXTENDS Integers

\* Values that break an inequality alone or with another edit, or that pay
\* more than a zone brings in.
SomeChoices == {<<"base", 3>>, <<"riderOntime", 5>>, <<"riderLate", 4>>,
                <<"pointRider", 3>>}

Basket(food, discount, point, accepted, wallet) ==
    [food |-> food, service |-> 1, discount |-> discount, point |-> point,
     accepted |-> accepted, wallet |-> wallet]

\* With the default zone fee the first costs exactly the cap, the others more.
SomeBaskets ==
    {Basket(4, 0, FALSE, TRUE, FALSE), Basket(6, 0, TRUE, TRUE, FALSE),
     Basket(6, 1, FALSE, TRUE, FALSE), Basket(6, 0, FALSE, FALSE, TRUE)}

\* Around the waiver of the flat fee and the cap, and the unit test's.
SomeCredits == {50000, 100000, 240000, 246248, 246249, 249999, 250000, 500000,
                1000000, 5000000, 12660000, 12666667, 20000000}
=============================================================================
