\* Three requests that race for two paths, two storage servers.
CONSTANTS
    Char = {"d", "x", "e", "/"}
    Slash = "/"
    Dot = "."
    HASHTABLE_SIZE = 2
    Path <- MCPath
    SS = {s1, s2}
    Threads = {t1, t2, t3}
    Requests <- RaceRequests
    Disks <- RaceDisks
    MaxCrashes = 0
SPECIFICATION Spec
INVARIANTS CreatedStaysVisible NoLostPath NoPhantomPath
SYMMETRY ThreadSymmetry
CHECK_DEADLOCK FALSE
