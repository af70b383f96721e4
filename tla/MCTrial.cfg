SPECIFICATION TrialSpec
CONSTANTS
    Shas = {1, 2, 3, 4}
    Paths = {"node_modules", ".venv"}
    DepsOf <- MCDepsOf
    Rollback = FALSE
    SerenaTools = {"find_symbol"}
    NativeTools = {"Grep", "Edit"}
    AgentCalls <- MCAgentCalls
    MaxCalls = 2
INVARIANTS
    EnsuredMeansBuilt
    HermeticTree
    ScoreIsEarned
PROPERTIES
    CacheIsKept
