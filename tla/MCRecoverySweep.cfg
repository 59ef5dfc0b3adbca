SPECIFICATION SweepSpec
CONSTANTS
    o1 = o1
    o2 = o2
    TPS = TPS
    PH = PH
    miner = miner
    jane = jane
    MinerPtyLtd = MinerPtyLtd
    Jane = Jane
    Other = Other
    R1 = R1
    R2 = R2
    R3 = R3
    V1 = V1
    H1 = H1
    X1 = X1
    s1 = s1
    ct1 = ct1
    ct2 = ct2
    lot1 = lot1
    lot2 = lot2
    ga = ga
    Null = Null
    Officers = {o1, o2}
    Council = TPS
    RowsOf <- MCRowsOf
    Registers <- MCRegisters
    Owners <- MCOwners
    Feeds <- MCFeeds
    Bundled <- MCBundled
    RateTables <- MCRateTables
    RecentlyGrantedWindow = 1
    ConservativeYears = 3
    StatutoryYears = 5
    Year = 10
    Day = 1
    Dollar = 4
    TargetStateScope = "WA"
    TtlTicks = 1
    MaxTime = 1
    MaxChanges = 1
    MaxContexts = 2
SYMMETRY Symmetric
INVARIANTS
    OfficersListsAreRecent
    DistinctEvidenceOnly
    ArrearsWithinCeilings
    PrefilterKeepsVerdicts
CHECK_DEADLOCK FALSE
