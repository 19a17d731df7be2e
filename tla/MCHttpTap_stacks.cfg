SPECIFICATION Spec
CONSTANTS
    Stacks <- Sound
    Ops <- SoundOps
    Codes = {200, 404}
    Caps <- AllCaps
    Flushers = {TRUE, FALSE}
    Hijackers = {TRUE}
    Panicky = {"recover", "access", "payload"}
    MaxOps = 4
    MaxWrite = 3
CHECK_DEADLOCK FALSE
INVARIANTS
    TypeOK
    Transparent
    PanicGives500
    AllOrNothing
    AbortPassesThrough
    HijackRespected
    StatusLogged
    CaptureExact
