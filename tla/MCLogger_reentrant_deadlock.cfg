SPECIFICATION Spec
CONSTANTS
    Calls = {c1, c2, c3}
    file = file
    raw = raw
    Sinks = {file, raw}
    Guarded = {file}
    Reentrant = {raw}
    SinkLevels = {1}
    Panicky = {}
    Levels <- TwoLevels
    Handlers <- TwoHandlers
    HandlerSink <- SwappedSink
    HandlerMin <- TwoHandlerMin
    NoLevel = NoLevel
    NoCall = NoCall
    MaxHookSeq = 0
    MaxHookLevels = 1
CHECK_DEADLOCK FALSE
INVARIANT NoWaitCycle
