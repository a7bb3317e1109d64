SPECIFICATION Spec
CONSTANTS
    Files = {1, 3}
    Tsconfig = 2
    Rules = {r1}
    MaxCalls = 2
    MaxReports = 1
    MaxCap = 1
CHECK_DEADLOCK FALSE
INVARIANTS CapOnlySavesWork
