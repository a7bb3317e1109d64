SPECIFICATION FairSpec
CONSTANTS
    c1 = c1
    c2 = c2
    Clients = {c1, c2}
    None = None
    HasFlock = TRUE
    Faults = {"slow", "kill", "crash", "idle", "nospawn"}
    MaxKinds = 2
CHECK_DEADLOCK FALSE
INVARIANTS IInv OneLiveDaemon StartupUnderLock PidFileNamesTheDaemon UndisturbedRunsSucceed OneCrashIsSurvived
PROPERTIES SocketKept EveryClientFinishes
