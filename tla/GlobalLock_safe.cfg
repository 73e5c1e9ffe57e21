SPECIFICATION MutexSpec
CONSTANTS
    Sweeper = {}
    Reader = {}
    s1 = s1
    Sid <- Sids
    NDir = 3
    DirOf <- Where
    Timeout = 1
    Grace = 2
    StaleAge = 2
    Configs = {}
    NoSid = NoSid
    Worker = {w1, w2}
    Key = {k1, k2}
    MaxClients = 5
    MutexLocks = 8
    MayFail <- FailNever2
    Hashes <- SomeHashes
    IntMax <- Int32
    NoWorker = NoWorker
SYMMETRY Symmetry
INVARIANTS MutexesAlive ZeroReserved
CHECK_DEADLOCK FALSE
