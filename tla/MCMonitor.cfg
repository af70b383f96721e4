SPECIFICATION Spec
CONSTANTS
    Tools <- MCTools
    Authored <- MCAuthored
    Imports <- MCImports
    MaxCount = 1
    TagPii = TRUE
    Clients = {c1, c2}
    MaxChecks = 3
INVARIANTS
    GroundedIsCurrent
    EveryCallIsCountedOnce
    AdmittedCallsKeepTheRules
SYMMETRY Symmetry
CHECK_DEADLOCK FALSE
