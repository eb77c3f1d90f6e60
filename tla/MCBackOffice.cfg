\* One order and one sample with two printers and a mishap; one user with two
\* vendors, an invitation and two metadata writes; a rider, two
\* partners, a batch and two moves; three pictures and two confirmations; two
\* items, two slots and two replacements; two settings edited at once, one
\* order and fees around the cap.
SPECIFICATION BackOfficeSpec
CONSTANTS
    o1 = o1
    t1 = t1
    p1 = p1
    p2 = p2
    u1 = u1
    v1 = v1
    v2 = v2
    i1 = i1
    r1 = r1
    f1 = f1
    f2 = f2
    b1 = b1
    k1 = k1
    k2 = k2
    k3 = k3
    c1 = c1
    c2 = c2
    m1 = m1
    m2 = m2
    s1 = s1
    s2 = s2
    e1 = e1
    e2 = e2
    None = None
    Orders = {o1}
    Tests = {t1}
    Printers = {p1, p2}
    Tokenless = {p2}
    MaxAttempts = 2
    MaxReprints = 1
    MaxMishaps = 1
    Removable = {p1}
    Closing = {o1}
    Users = {u1}
    Vendors = {v1, v2}
    OwnVendors = {v2}
    Invites = {i1}
    InvitedUser <- InvitesOneUser
    InvitedTo <- InvitesToOneVendor
    AdminRoles = {"campus_admin"}
    SelfService = {"rider", "vendor"}
    Copies = {1, 2}
    MaxCopies = 2
    NoRole = NoRole
    NoVendor = NoVendor
    Unread = Unread
    Riders = {r1}
    Partners = {f1, f2}
    Batches = {b1}
    Own = Own
    Nobody = Nobody
    MaxMoves = 2
    Images = {k1, k2, k3}
    Again = {k3}
    Confirms = {c1, c2}
    Items = {m1, m2}
    Slots = {s1, s2}
    Store = Store
    Edits = {e1, e2}
    Editors = {c1, c2}
    Choices <- SomeChoices
    ZoneFees = {3, 6}
    Baskets <- SomeBaskets
    Cap = 8
    SurchargeBps = 1500
    SurchargeFlat = 1
    Credits <- SomeCredits
    NoEdit = NoEdit
    NoOrder = NoOrder
INVARIANTS
    PaperMatchesJobs
    KeysWereGranted
    DecidedOnFacts
    OffDutyPositionsHaveReasons
    
    MissingStockHasReasons
    ResidualsHaveReasons
    
PROPERTIES
    NoPoaching
    TicketsComeOut
\* The bounds on metadata writes end some behaviours.
CHECK_DEADLOCK FALSE
