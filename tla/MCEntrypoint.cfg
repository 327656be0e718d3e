\* Crashes at every point of the script, a first start on the volume alone
\* or on a host config file.
CONSTANTS
    Passwords = {p1, p2, p3}
    Mounts = {"absent", "file"}
    MaxCrashes = 2
    MaxRestarts = 2
SPECIFICATION Spec
INVARIANTS TypeOK PasswordShownOpensOper
PROPERTIES RecoversUnlessCopyInterrupted
\* A running server is where the container stays: no step follows it
\* once the crash bound is spent.
CHECK_DEADLOCK FALSE
