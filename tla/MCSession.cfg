\* Three commands of any kind, servers that crash, a client that is killed.
CONSTANTS
    Commands = {"create", "delete", "copy", "read", "write", "get", "list"}
    MaxCommands = 3
    MaxChunks = 2
    MaxFd = 2
    MAX_CHUNK_SIZE = 1
SPECIFICATION FairSpec
INVARIANTS TypeOK ReceivedAsSent AgreeOnWhatComes EofMeansAll OkMeansWritten
    SpinsOnCutItems SameSocket ServersOutliveClients
CHECK_DEADLOCK FALSE
PROPERTIES CommandsEnd
