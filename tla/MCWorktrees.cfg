SPECIFICATION Spec
CONSTANTS
    Trees = {"wt1", "wt2"}
    InitClones <- MCClones
    Idle = 7
    Modes = {"hook", "hook-compact"}
    MaxChanges = 2
INVARIANTS
    SafeWasTrueOnce
    NamedWasMeasured
    QuietReportIsExact
CHECK_DEADLOCK FALSE
