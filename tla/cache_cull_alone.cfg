SPECIFICATION Spec
CONSTANTS
    c1 = c1
    c2 = c2
    None = None
    Default = Default
    NoRow = NoRow
    Clients = {c1}
    Keys = {1, 2, 3, 4, 5}
    Objects <- OneInt
    Batches <- PairOrNothing
    Patterns <- Pair
    Ops <- AllCalls
    Timeouts <- ShortOrForever
    Deltas <- PlusOne
    DefaultTimeout = 1
    MaxEntries = 3
    CullFrequency = 2
    CullChance = "always"
    Compress <- NoCompress
    Skew <- NoSkew
    Forever = 9
    IntMin = 0
    IntMax = 0
    MaxTime = 3
INVARIANT CullCompletes
PROPERTY CullFreesShare
