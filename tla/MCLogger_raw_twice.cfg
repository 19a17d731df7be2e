SPECIFICATION Spec
CONSTANTS
    Calls = {c1, c2}
    file = file
    raw = raw
    Sinks = {file, raw}
    Guarded = {file}
    Reentrant = {}
    SinkLevels = {1}
    Panicky = {}
    Levels <- TwoLevels
    Handlers <- TwoHandlers
    HandlerSink <- TwoHandlerSink
    HandlerMin <- TwoHandlerMin
    NoLevel = NoLevel
    NoCall = NoCall
    MaxHookSeq = 1
    MaxHookLevels = 2
INVARIANT RawSinkSerialised
