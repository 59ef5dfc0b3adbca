SPECIFICATION Spec
CONSTANTS
    t1 = t1
    t2 = t2
    t3 = t3
    t4 = t4
    TomPrice = TomPrice
    PortHedland = PortHedland
    a1 = a1
    a2 = a2
    tom = tom
    acme = acme
    ct = ct
    officer = officer
    Councils = {TomPrice, PortHedland}
    Assessments = {a1, a2}
    HomeOf <- MCHome
    People <- MCPeople
    Parents = {a1}
    Files <- MCFiles
    SeedOwner = seedOwner
    ChildCts <- MCChildCts
    Tokens = {t1, t2, t3, t4}
    Principals <- Officers
    TtlMs = 1
    MaxTime = 1
    MaxPending = 2
    None = None
VIEW RollView
INVARIANTS
    OwnersAreRegistered
    StrataTrailIsLegal
PROPERTIES
    ImportsRespectErasure
    PreviewedRowsLand
    ChildrenAreOnTheRollOnce
CHECK_DEADLOCK FALSE
