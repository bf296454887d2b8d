\* A read and a delete of one file, and a third request.
CONSTANTS
    Threads = {t1, t2, t3}
    Path <- MCPath
    Requests <- ReadAndDelete
    Trees <- FullTree
    MaxChunks = 1
SPECIFICATION FairClients
PROPERTY EveryRequestEnds
CHECK_DEADLOCK FALSE
