\* Two orders of one batch; a fleet rider and the vendor to deliver: safety.
SPECIFICATION Spec
CONSTANTS
    o1 = o1
    o2 = o2
    Orders = {o1, o2}
    b1 = b1
    Batches = {b1}
    r1 = r1
    Vendor = vendor
    Nobody = nobody
    NoCode = nocode
    BatchOf <- OneBatch
    Riders = {r1}
    Fleet = {r1}
    Codes = {1}
    Shares = {1, 2}
    Targets = {"delivered", "cancelled", "refunded"}
    Overlapping = TRUE
SYMMETRY Symmetry
INVARIANTS
    CompletedIsDone
    DeliveredIsShared
PROPERTIES
    SharesResolvedOnce
    RiderKeepsBatch
CHECK_DEADLOCK FALSE
