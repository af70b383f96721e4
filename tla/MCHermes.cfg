SPECIFICATION Spec
CONSTANTS
    Profiles <- MCProfiles
    Homes = {"default", "profile", "nowhere"}
    Calls = {"c1", "c2"}
    Kind <- MCKind
    MaxEvents = 3
INVARIANTS
    SettledCallsAreJoined
    IdleArchiveIsRead
CHECK_DEADLOCK FALSE
