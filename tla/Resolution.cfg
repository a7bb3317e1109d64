SPECIFICATION Spec
CONSTANTS
    Depth = 2
    Configs <- SmallConfigs
    Invocations <- SmallInvocations
CHECK_DEADLOCK FALSE
INVARIANTS InnermostMentionWins BadConfigEndsTheRun LastMatchWins
