\* Two requests around a folder with one file, two storage servers; the
\* table of copied paths fits one chunk.
CONSTANTS
    SS = {1, 2}
    Threads = {t1, t2}
    Path <- MCPath
    Requests <- MCRequests
    Worlds <- MCWorlds
    MAX_PATH_LENGTH = 1
    MAX_ACCESIBLE_PATHS = 8
    MAX_CHUNK_SIZE = 8
SPECIFICATION FairSpec
INVARIANTS TypeOK CopyIsWhole NothingButTheSource ListedIsThere ThereIsListed
    DeletedCopyStays
PROPERTIES UndisturbedCopyEnds
CHECK_DEADLOCK FALSE
