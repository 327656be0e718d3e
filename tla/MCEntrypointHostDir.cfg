\* compose.yaml's read-only bind mount when ./ircd.yaml is missing on the
\* host, so /ircd/ircd.yaml is a directory; no crash at all.
CONSTANTS
    Passwords = {p1, p2, p3, p4}
    Mounts = {"dir"}
    MaxCrashes = 0
    MaxRestarts = 3
SPECIFICATION Spec
PROPERTIES ServesEventually
\* A container whose restarts are spent stays put.
CHECK_DEADLOCK FALSE
