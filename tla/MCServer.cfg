CONSTANTS
    Nul = "NUL"
    Junk = "junk"
    Code <- MCCode
    HashMod = 1000
    Texts = {}
    SmallBuf = 8
    Capacities = {1, 2, 4, 8, 16, 32}
    MaxLen = 30
    Cwd <- MCCwd
    Base <- MCBase
    Files <- MCFiles
    Requests <- MCRequests
    Number <- MCNumber
    ConfigFiles <- MCConfigFiles
    MaxFaults = 1
SPECIFICATION Spec
INVARIANTS ClientReadsBodies KeyOutlivesHandler DeathHasCause ServesWithinLife
PROPERTIES EverythingEnds
CHECK_DEADLOCK FALSE
