SPECIFICATION Spec
CONSTANTS
    Depth = 2
    Configs <- TinyConfigs
    Invocations <- SmallInvocations
CHECK_DEADLOCK FALSE
INVARIANTS ProjectConfigIsRead
