\* Nobody waits for another one's client.
CONSTANTS
    Threads = {t1, t2, t3}
    Path <- MCPath
    Requests <- LiveRequests
    Trees <- FullTree
    MaxChunks = 1
SPECIFICATION FairSpec
PROPERTY StalledClientBlocksNobody
CHECK_DEADLOCK FALSE
