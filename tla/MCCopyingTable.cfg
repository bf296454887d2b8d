\* One copy, with the sizes of Common/requests.h and Common/network_config.h.
CONSTANTS
    SS = {1, 2}
    Threads = {t1}
    Path <- MCPath
    Requests <- OneCopy
    Worlds <- MCWorlds
    MAX_PATH_LENGTH = 4096
    MAX_ACCESIBLE_PATHS = 400
    MAX_CHUNK_SIZE = 1024
SPECIFICATION FairSpec
PROPERTIES CopyIsConfirmed
CHECK_DEADLOCK FALSE
