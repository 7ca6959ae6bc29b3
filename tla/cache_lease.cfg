SPECIFICATION LeaseSpec
CONSTANTS
    c1 = c1
    c2 = c2
    c3 = c3
    None = None
    Default = Default
    NoRow = NoRow
    Clients = {c1, c2, c3}
    Keys = {1}
    Objects <- Jobs
    Batches <- NoSets
    Patterns <- NoSets
    Ops <- AddAndCull
    Timeouts <- Lengths
    Deltas <- NoDeltas
    DefaultTimeout = 1
    MaxEntries <- Unlimited
    CullFrequency = 3
    CullChance = "sometimes"
    Compress <- NoCompression
    Skew <- SomeSkew
    Forever = 9
    IntMin <- MinusOne
    IntMax = 1
    MaxTime = 3
INVARIANT LeaseExclusive
INVARIANT LeaseBacked
