CONSTANTS
    MaxObjects = 2
    MaxServices = 2
SPECIFICATION Spec
CHECK_DEADLOCK FALSE
INVARIANTS
    TypeOK
    ListMatchesSessions
    ShownIsCurrent
    RunningIsOwned
PROPERTIES
    EnterKillsNothing
