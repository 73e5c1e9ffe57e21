SPECIFICATION FairSpec
CONSTANTS
    Handler <- Handlers3
    Existing <- Existing2
    Configs <- AllConfigs
    MaxAdds = 1
INVARIANTS CalledIsListed RunInOrder RefusalStands
PROPERTY CleanupRuns
CHECK_DEADLOCK FALSE
