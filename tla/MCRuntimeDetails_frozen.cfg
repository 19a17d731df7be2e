SPECIFICATION Spec
CONSTANTS
    Callers = {g1, g2}
    Providers = {quiet, loud}
    Panicky = {}
    Reentrant = {}
    None = None
SYMMETRY Symmetry
INVARIANT
    FrozenMeansNoOp
