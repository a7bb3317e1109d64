SPECIFICATION Spec
CONSTANTS
    Files = {1, 3}
    Tsconfig = 2
    Rules = {r1, r2}
    MaxCalls = 2
    MaxReports = 2
    MaxCap = 2
SYMMETRY RuleSymmetry
CHECK_DEADLOCK FALSE
INVARIANTS PanicsLoseNothing StopsAtTheCap VerdictSurvivesTheCap MachineOutputIsComplete
