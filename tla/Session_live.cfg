SPECIFICATION FairSpec
CONSTANTS
    w1 = w1
    w2 = w2
    s1 = s1
    s2 = s2
    s3 = s3
    Worker <- Workers
    Sid <- Sids
    SlotOf <- Hash
    Configs <- DbmConfig
    MaxSaves = 1
    NoSid = NoSid
    NoWorker = NoWorker
PROPERTIES RequestEnds ImplementsRegister
CHECK_DEADLOCK FALSE
