\* Three requests of any kind for a folder and the file in it.
CONSTANTS
    Threads = {t1, t2, t3}
    Path <- MCPath
    Requests <- RaceRequests
    Trees <- MCTrees
    MaxChunks = 2
SPECIFICATION Spec
INVARIANTS StoreInv TypeOK DeleteRemovesWhatItOpened LeakNeedsRace DeletedIsGone
    Undisturbed MirrorKept
SYMMETRY ThreadSymmetry
CHECK_DEADLOCK FALSE
