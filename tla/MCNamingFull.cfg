\* Three clients read three files within a second.
CONSTANTS
    Char = {"d", "x", "e", "/"}
    Slash = "/"
    Dot = "."
    HASHTABLE_SIZE = 2
    Path <- MCPath
    SS = {s1}
    Threads = {t1, t2, t3}
    Requests <- Reads
    Disks <- FullDisk
    MaxCrashes = 0
SPECIFICATION FairSpec
INVARIANT StaysUp
CHECK_DEADLOCK FALSE
