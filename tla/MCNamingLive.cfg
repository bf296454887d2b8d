\* Requests are answered and servers registered, with two servers that may crash.
CONSTANTS
    Char = {"d", "x", "e", "/"}
    Slash = "/"
    Dot = "."
    HASHTABLE_SIZE = 2
    Path <- MCPath
    SS = {s1, s2}
    Threads = {t1}
    Requests <- LiveRequests
    Disks <- LiveDisks
    MaxCrashes = 2
SPECIFICATION FairSpec
PROPERTIES NeverStuck EveryServerGoesUp
CHECK_DEADLOCK FALSE
