SPECIFICATION Spec
CONSTANTS
    t1 = t1
    t2 = t2
    t3 = t3
    tomPrice = tomPrice
    portHedland = portHedland
    alice = alice
    bob = bob
    contact = contact
    note = note
    Tokens = {t1, t2, t3}
    Mutations <- TwoMutations
    Operations <- TwoOperations
    Principals <- ThreePrincipals
    TtlMs = 2
    MaxTime = 4
    None = None
SYMMETRY TokenSymmetry
INVARIANTS
    SingleUse
    CommitsOnlyAsPreviewed
    PreviewStaysUsable
CHECK_DEADLOCK FALSE
