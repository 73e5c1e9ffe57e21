SPECIFICATION AllSpec
CONSTANTS
    MaxLength = 4
    HugeStringLen = 3
    Lens <- SomeLens
    Uses <- AllUses
    Fails <- Either
    FilterBytes = 3
    FilterBucket = 3
    FilterHuge = 2
    FilterLens <- SomeFilterLens
    FilterNewlines <- SomeNewlines
    FlushInside = FALSE
    FilterOps = 3
INVARIANTS NothingLost FullResults Delivered Copied FailureReturned
PROPERTY CallReturns
CHECK_DEADLOCK FALSE
