SPECIFICATION Spec
CONSTANTS
    Scenarios <- AllScenariosChecked
    MaxFileSize = 3
    MaxAge = 1
    Sizes <- TwoSizes
    Absent = Absent
    MaxIndex = 7
    MaxMsgs = 6
CHECK_DEADLOCK FALSE
INVARIANTS
    TypeOK
    SizeCounterExact
    FileSizeBounded
    GzIsComplete
    NewestSurvives
    FaultsReported
    FilesBoundedAtRest
PROPERTIES
    IsRing
    ContentOnlyGrows
    NothingOverAge
