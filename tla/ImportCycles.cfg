SPECIFICATION Spec
CONSTANTS
    Files = {a, b, c}
    None = None
    MaxStatements = 2
CHECK_DEADLOCK FALSE
SYMMETRY FileSymmetry
INVARIANTS ReportsAreCycles NoCycleIsCleared
