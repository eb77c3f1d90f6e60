\* A double tap, a second device and a crossed cart; one order against every
\* actor, the whole status matrix.
SPECIFICATION CheckoutSpec
CONSTANTS
    r1 = r1
    r2 = r2
    r3 = r3
    r4 = r4
    k1 = k1
    k2 = k2
    k3 = k3
    c1 = c1
    c2 = c2
    i1 = i1
    i2 = i2
    i3 = i3
    Nobody = Nobody
    Requests <- AllRequests
    Keys = {k1, k2, k3}
    KeyOf <- TapKeys
    Customers = {c1, c2}
    CustomerOf <- TwoCustomers
    Items = {i1, i2, i3}
    Basket <- CrossedBaskets
    Stocked <- ShortStock
    ByWallet = {r1, r3}
    Promoted = {r2, r4}
    TotalLimit = 1
    PerUserLimit = 1
    StartBalance = 1
    o1 = o1
    Orders = {o1}
    MaxTotal = 2
    MaxAdjusted = 1
    Targets = {"paid", "ready", "out_for_delivery", "delivered",
               "administratively_completed", "cancelled", "expired", "refunded"}
INVARIANTS
    KeyIsIdempotent
    NothingOverspent
PROPERTIES
    ImplementsPlacing
    RequestsEnd
    PendingEnds
    CaptureNeverStranded
\* The requests are finitely many: creation stops when all have ended.
CHECK_DEADLOCK FALSE
