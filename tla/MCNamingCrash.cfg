\* Two requests of any kind, one storage server that may crash and restart.
CONSTANTS
    Char = {"d", "x", "e", "/"}
    Slash = "/"
    Dot = "."
    HASHTABLE_SIZE = 2
    Path <- MCPath
    SS = {s1}
    Threads = {t1, t2}
    Requests <- CrashRequests
    Disks <- CrashDisks
    MaxCrashes = 1
SPECIFICATION Spec
INVARIANTS CatalogueInv TypeOK AddressPublished Provenance NoDuplicateEntries
    CreatedStaysVisible NoLostPath NoPhantomPath
SYMMETRY ThreadSymmetry
CHECK_DEADLOCK FALSE
