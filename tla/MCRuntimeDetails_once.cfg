SPECIFICATION FairSpec
CONSTANTS
    Callers = {g1, g2, g3}
    Providers = {quiet, loud}
    Panicky = {loud}
    Reentrant = {}
    None = None
INVARIANTS
    TypeOK
    ComputedOnce
    LateProviderIgnored
PROPERTY
    ConstructionReturns
