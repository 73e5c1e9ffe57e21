SPECIFICATION Spec
CONSTANTS
    w1 = w1
    w2 = w2
    s1 = s1
    s2 = s2
    s3 = s3
    Worker <- Workers
    Sid <- Sids
    SlotOf <- Hash
    Configs <- AllConfigs
    MaxSaves = 3
    NoSid = NoSid
    NoWorker = NoWorker
SYMMETRY WorkerSymmetry
CONSTRAINT SavesExplored
INVARIANTS OneObjectPerSid NoCircularWait StaysInvalid
PROPERTIES NoLostUpdate
CHECK_DEADLOCK FALSE
