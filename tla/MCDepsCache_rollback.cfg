SPECIFICATION Spec
CONSTANTS
    Shas = {1, 2, 3, 4}
    Paths = {"node_modules", ".venv"}
    DepsOf <- MCDepsOf
    Rollback = TRUE
INVARIANTS
    EnsuredMeansBuilt
