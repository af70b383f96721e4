SPECIFICATION Spec
CONSTANTS
    Threads = {"t1", "t2"}
    Commands = {"probe", "passive"}
    MaxCalls = 2
INVARIANTS
    OutcomeIsTheOperations
    RunsAtMostOnce
    SetupIsReadyOnce
    EnvironmentIsRestored
    InterruptsAreKept
PROPERTIES
    EveryCallEnds
CHECK_DEADLOCK FALSE
