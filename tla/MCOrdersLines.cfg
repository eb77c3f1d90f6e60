\* A cart that names one item on two lines, and the expiry job.
SPECIFICATION Spec
CONSTANTS
    o1 = o1
    i1 = i1
    Orders = {o1}
    Items = {i1}
    Cart <- OneEach
    Lines <- TwoLines
    StartTotal <- TwoUnits
    MaxTotal = 2
    MaxAdjusted = 1
    Targets = {"paid", "expired", "cancelled"}
PROPERTIES
    ReleasedInFull
