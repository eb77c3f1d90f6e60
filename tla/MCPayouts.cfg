\* Withdrawals of two orders' earnings, two calls at once: safety.
SPECIFICATION Spec
CONSTANTS
    o1 = o1
    o2 = o2
    s1 = s1
    s2 = s2
    c1 = c1
    c2 = c2
    Nothing = Nothing
    Earnings <- TwoEach
    Orders = {o1, o2}
    Backlog = {}
    MaxRefund = 1
    Minimum = 1
    Settlements = {s1, s2}
    Daily = {}
    Calls = {c1, c2}
    MaxAttempts = 1
    MaxRows = 1
    MaxListed = 0
    ManualFrom = {"approved"}
    Overlap = FALSE
    Opaque = FALSE
    Reversals = FALSE
SYMMETRY WithdrawalSymmetry
INVARIANTS
    TablesAreTrue
    
    
CHECK_DEADLOCK FALSE
