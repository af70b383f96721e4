SPECIFICATION CorpusSpec
CONSTANTS
    Entries <- MCEntries
    MaxRecords = 3
    MaxSessions = 2
    Agents = {claude, cowork}
    RunBranches = {"tb-1"}
    RunTrees <- MCTrees
    PathOf <- MCPathOf
    InWindow = {"a", "c"}
INVARIANTS
    BooksBalance
    ChurnStaysInItsSession
SYMMETRY MCSymmetry
CHECK_DEADLOCK FALSE
