SPECIFICATION FairSpec
CONSTANTS
    Calls = {c1, c2, c3}
    file = file
    raw = raw
    Sinks = {file, raw}
    Guarded = {file}
    Reentrant = {}
    SinkLevels = {1}
    Panicky = {raw}
    Levels <- OneLevel
    Handlers <- OneHandler
    HandlerSink <- OneHandlerSink
    HandlerMin <- OneHandlerMin
    NoLevel = NoLevel
    NoCall = NoCall
    MaxHookSeq = 0
    MaxHookLevels = 1
PROPERTY
    EveryCallReturns
