\* A ready order with two notifications and an account request, drained by two
\* workers one of which may stop, with an administrator claiming.
SPECIFICATION LiveSpec
CONSTANTS
    ready = ready
    account1 = account1
    d1 = d1
    d2 = d2
    w1 = w1
    w2 = w2
    c1 = c1
    a1 = a1
    None = None
    Events = {ready, account1}
    KindOf <- OneReadyOneAccount
    Deliveries = {d1, d2}
    EventOf <- BothOfReady
    Workers = {w1, w2}
    Calls = {c1}
    Admins = {a1}
    BatchSize = 2
    MaxAttempts = 2
    Mortal = {w1}
    DvaEnabled = TRUE
    MaxSwitches = 1
INVARIANTS
    ProcessedIsHandled
    DeliveredByOne
PROPERTIES
    AccountLostOnlyToOverlap
    EventsResolve
\* Every event handled, dead or held, and the worker asleep, is the end.
CHECK_DEADLOCK FALSE
