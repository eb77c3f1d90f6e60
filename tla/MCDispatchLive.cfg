\* Two orders handed over by one rider, creations one at a time: their codes, and
\* that the batch completes.
SPECIFICATION FairSpec
CONSTANTS
    o1 = o1
    o2 = o2
    Orders = {o1, o2}
    b1 = b1
    Batches = {b1}
    r1 = r1
    Riders = {r1}
    Fleet = {r1}
    Vendor = vendor
    Nobody = nobody
    NoCode = nocode
    BatchOf <- OneBatch
    Codes = {1, 2}
    Shares = {1}
    Targets = {"delivered"}
    Overlapping = FALSE
CHECK_DEADLOCK FALSE

    
PROPERTIES
    BatchCompletes
