SPECIFICATION Spec
CONSTANTS
    Calls = {c1, c2}
    file = file
    raw = raw
    Sinks = {file, raw}
    Guarded = {file}
    Reentrant = {raw}
    SinkLevels = {1}
    Panicky = {raw}
    Levels <- TwoLevels
    Handlers <- TwoHandlers
    HandlerSink <- TwoHandlerSink
    HandlerMin <- TwoHandlerMin
    NoLevel = NoLevel
    NoCall = NoCall
    MaxHookSeq = 1
    MaxHookLevels = 2
CHECK_DEADLOCK FALSE
SYMMETRY CallSymmetry
INVARIANTS
    TypeOK
    DeliveryMatchesConfig
    OncePerRegistration
    SinkNeverConcurrent
    ResultTellsTruth
PROPERTY
    IsAtomic
