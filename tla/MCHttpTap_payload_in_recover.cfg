SPECIFICATION Spec
CONSTANTS
    Stacks <- PayloadInRecover
    Ops <- JustHeader
    Codes = {200, 404}
    Caps <- OneCap
    Flushers = {TRUE, FALSE}
    Hijackers = {TRUE, FALSE}
    Panicky = {}
    MaxOps = 4
    MaxWrite = 2
CHECK_DEADLOCK FALSE
INVARIANT
    Transparent
