SPECIFICATION Spec
CONSTANTS
    None = None
    r1 = r1
    r2 = r2
    r3 = r3
    r4 = r4
    TomPrice = TomPrice
    Ashburton = Ashburton
    Newman = Newman
    Councils = {TomPrice, Ashburton, Newman}
    Tenants = {TomPrice, Ashburton}
    BypassesRls = TRUE
    First <- Alphabetical
    Subjects <- SharedOrNot
    Requests = {r1, r2, r3, r4}
    Session <- MCSession
    Imports = {i1}
    MaxRestarts = 1
INVARIANTS
    AnsweredMeansErased
    SharedOwnersAreProtected
    TrailIsComplete
    AnswersAreTruthful
CHECK_DEADLOCK FALSE
