\* A create and a delete of one file, one after the other.
CONSTANTS
    Char = {"d", "x", "e", "/"}
    Slash = "/"
    Dot = "."
    HASHTABLE_SIZE = 2
    Path <- MCPath
    SS = {s1}
    Threads = {t1, t2}
    Requests <- OneFile
    Disks <- EmptyDisk
    MaxCrashes = 0
SPECIFICATION FairSpec
PROPERTY DeleteForgets
CHECK_DEADLOCK FALSE
