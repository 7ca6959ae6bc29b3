SPECIFICATION FairSpec
CONSTANTS
    c1 = c1
    c2 = c2
    None = None
    Default = Default
    NoRow = NoRow
    Clients = {c1, c2}
    Keys = {1, 2}
    Objects <- OneInt
    Batches <- NoSets
    Patterns <- NoSets
    Ops <- CronAndUsers
    Timeouts <- ShortOrForever
    Deltas <- NoDeltas
    DefaultTimeout = 1
    MaxEntries = 2
    CullFrequency = 0
    CullChance = "sometimes"
    Compress <- NoCompress
    Skew <- NoSkew
    Forever = 9
    IntMin <- MinusOne
    IntMax = 1
    MaxTime = 3
PROPERTY CallsReturn
PROPERTY ExpiredGoes
