SPECIFICATION Spec
CONSTANTS
    Sessions = {1, 2, 3}
    Children = {2}
    Runs = {r1, r2}
    Scopes <- MCScopes
    Serial = TRUE
    InitLive <- MCLive
    InitManifests <- MCManifests
INVARIANTS
    NoSilentEmpty
    
    ParentsSurvive
PROPERTIES
    PromiseKept
SYMMETRY Symmetry
CHECK_DEADLOCK FALSE
