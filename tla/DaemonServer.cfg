SPECIFICATION FairSpec
CONSTANTS
    Conns = {1, 2}
    Request <- TwoRequests
    None = None
    MayCancel = TRUE
    MayClose = TRUE
    MayFail = TRUE
CHECK_DEADLOCK FALSE
INVARIANTS CleanShutdown OneHolder AtMostOneStranded
PROPERTIES ImplementsRole RunReturns GoroutinesEnd QueuedIsServed
