SPECIFICATION Spec
CONSTANTS
    t1 = t1
    t2 = t2
    tomPrice = tomPrice
    alice = alice
    bob = bob
    n1 = n1
    n2 = n2
    a1 = a1
    a2 = a2
    note = note
    Owners = {o1}
    Properties = {a1, a2}
    CouncilCodes = {PHE}
    CouncilNames = {n1, n2}
    Notes = {note}
    Contacts = {new}
    Seed = seed
    SeedNotes <- OneSeeded
    ChildrenOf <- OneChild
    ChildNote = childNote
    Files <- TwoFiles
    MaxRollWrites = 2
    Tokens = {t1, t2}
    Principals <- TwoPrincipals
    TtlMs = 1
    MaxTime = 1
    None = None
SYMMETRY SameKind
VIEW ToolsView
INVARIANTS
    NoteTrailJoinsUp
    OneCouncilPerCode
PROPERTIES
    FieldsChangeOnlyAsPreviewed
CHECK_DEADLOCK FALSE
