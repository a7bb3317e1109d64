SPECIFICATION Spec
CONSTANTS
    c1 = c1
    c2 = c2
    Clients = {c1, c2}
    None = None
    HasFlock = TRUE
    Faults = {"idle"}
    MaxKinds = 1
CHECK_DEADLOCK FALSE
INVARIANTS ShutdownRaceIsServed
