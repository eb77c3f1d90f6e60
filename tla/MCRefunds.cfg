\* Two administrators on the refunds of one payment, dying at any step.
SPECIFICATION Spec
CONSTANTS
    a1 = a1
    a2 = a2
    f1 = f1
    f2 = f2
    Nothing = Nothing
    Tasks = {a1, a2}
    Rows = {f1, f2}
    Paid = 2
    Destinations = {"wallet", "paystack"}
SYMMETRY TaskAndRowSymmetry
INVARIANTS
    SucceededIsBacked
    RefundsAddUp
CHECK_DEADLOCK FALSE
