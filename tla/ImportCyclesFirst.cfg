SPECIFICATION Spec
CONSTANTS
    Files = {a, b}
    None = None
    MaxStatements = 2
CHECK_DEADLOCK FALSE
INVARIANTS EveryCycleIsReported
