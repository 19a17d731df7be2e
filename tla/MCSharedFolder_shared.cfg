SPECIFICATION Spec
CONSTANTS
    Handlers <- Two
    Kinds <- AllKinds
    Limit <- LimitTwo
    Recurring <- Weekdays
    Places = {"itself", "nothing", "sibling"}
    Absent = Absent
    MaxMsgs = 3
    MaxRestarts = 1
CHECK_DEADLOCK FALSE
INVARIANTS
    TypeOK
    LossIsOldestFirst
    FilesBoundedAtRest
PROPERTY
    TopIsRing
