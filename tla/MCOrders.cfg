\* Two customers and the last unit of one item: every safety property.
SPECIFICATION Spec
CONSTANTS
    o1 = o1
    o2 = o2
    i1 = i1
    Orders = {o1, o2}
    Items = {i1}
    Cart <- OneEach
    Lines <- OneLine
    StartTotal <- LastUnit
    MaxTotal = 1
    MaxAdjusted = 1
    Targets = {"paid", "expired", "cancelled"}
SYMMETRY Symmetry
INVARIANTS
    InventoryBalances
    SalesHold
PROPERTIES
    ImplementsStock
