\* A first start on the volume alone with one crash, which may hit the
\* copy of the generated config.
CONSTANTS
    Passwords = {p1, p2, p3}
    Mounts = {"absent"}
    MaxCrashes = 1
    MaxRestarts = 3
SPECIFICATION Spec
PROPERTIES ServesEventually
\* A running server, or a container whose restarts are spent, stays put.
CHECK_DEADLOCK FALSE
