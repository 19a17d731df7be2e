SPECIFICATION StdSpec
CONSTANTS
    Calls = {c1, c2, c3}
    file = file
    telegram = telegram
    Sinks = {file, telegram}
    Guarded = {file, telegram}
    Reentrant = {telegram}
    SinkLevels = {}
    Panicky = {file}
    Levels <- TwoLevels
    Handlers <- BothHandlers
    HandlerSink <- BothSinks
    HandlerMin <- BothThresholds
    NoLevel = NoLevel
    NoCall = NoCall
    MaxHookSeq = 0
    MaxHookLevels = 1
    MinLevel = 1
    RedirectLevel = 1
CHECK_DEADLOCK FALSE
INVARIANT
    StdTypeOK
PROPERTY
    EveryPrintlnReturns
