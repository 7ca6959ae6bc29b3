SPECIFICATION Spec
CONSTANTS
    c1 = c1
    c2 = c2
    None = None
    Default = Default
    NoRow = NoRow
    Clients = {c1, c2}
    Keys = {1, 2, 3}
    Objects <- OneInt
    Batches <- NoSets
    Patterns <- NoSets
    Ops <- SetAndCull
    Timeouts <- Short
    Deltas <- NoDeltas
    DefaultTimeout = 1
    MaxEntries = 2
    CullFrequency = 2
    CullChance = "always"
    Compress <- NoCompress
    Skew <- NoSkew
    Forever = 9
    IntMin <- MinusOne
    IntMax = 1
    MaxTime = 3
INVARIANT CullCompletes
