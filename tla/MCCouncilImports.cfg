SPECIFICATION Spec
CONSTANTS
    t1 = t1
    t2 = t2
    t3 = t3
    TomPrice = TomPrice
    PortHedland = PortHedland
    officer = officer
    admin = admin
    fy25 = fy25
    fy26 = fy26
    grv = grv
    uv = uv
    v1 = v1
    v2 = v2
    a1 = a1
    tom = tom
    ann = ann
    lot1 = lot1
    lot2 = lot2
    enc1 = enc1
    enc2 = enc2
    ct1 = ct1
    card = card
    cust = cust
    None = None
    Councils = {TomPrice, PortHedland}
    Years = {fy25, fy26}
    RateCodes = {grv, uv}
    RateFiles <- MCRateFiles
    TitleFiles <- MCTitleFiles
    WcFiles <- MCWcFiles
    TitleRows <- MCTitleRows
    Supplied = {None, 0}
    Admins <- MCAdmins
    Tokens = {t1, t2, t3}
    Principals <- MCPrincipals
    TtlMs = 1
    MaxTime = 1
    MaxPending = 2
VIEW ImportsView
INVARIANTS
    CountsJoinUp
    OrderMattersOnlyBetweenConflicts
PROPERTIES
    ImportsStayInTheirScope
CHECK_DEADLOCK FALSE
