SPECIFICATION Spec
CONSTANTS
    Profiles <- MCProfiles
    Homes = {"profile"}
    Calls = {"c1"}
    Kind <- MCOneCall
    MaxEvents = 1
INVARIANTS
    ArchiveNeverAborts
CHECK_DEADLOCK FALSE
