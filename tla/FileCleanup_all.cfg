SPECIFICATION SweepSpec
CONSTANTS
    Sweeper = {c1, c2}
    Reader = {r1}
    s1 = s1
    Sid <- Sids
    NDir = 3
    DirOf <- Where
    Timeout = 1
    Grace = 2
    StaleAge = 2
    Configs <- AllConfigs
    NoSid = NoSid
    Worker = {}
    Key = {}
    MaxClients = 1
    MutexLocks = 1
    MayFail = {}
    Hashes = {}
    IntMax = 1
    NoWorker = NoWorker
INVARIANT InTurn
PROPERTIES OnlyExpired LockGoes
CHECK_DEADLOCK FALSE
