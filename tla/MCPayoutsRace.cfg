\* The pay-run and an administrator pay one settlement at once.
SPECIFICATION Spec
CONSTANTS
    o1 = o1
    o2 = o2
    s1 = s1
    s2 = s2
    c1 = c1
    c2 = c2
    Nothing = Nothing
    Earnings <- TwoEach
    Orders = {o1}
    Backlog = {o1}
    MaxRefund = 1
    Minimum = 1
    Settlements = {s1}
    Daily = {s1}
    Calls = {c1, c2}
    MaxAttempts = 2
    MaxRows = 3
    MaxListed = 2
    ManualFrom = {"approved"}
    Overlap = TRUE
    Opaque = FALSE
    Reversals = TRUE
INVARIANTS
    OnePaymentPerSettlement
CHECK_DEADLOCK FALSE
