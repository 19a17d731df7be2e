SPECIFICATION Spec
CONSTANTS
    Scenarios <- Toggled
    MaxFileSize = 3
    MaxAge = 1
    Sizes <- TwoSizes
    Absent = Absent
    MaxIndex = 7
    MaxMsgs = 6
CHECK_DEADLOCK FALSE
INVARIANTS
    RetainedIsSuffix
