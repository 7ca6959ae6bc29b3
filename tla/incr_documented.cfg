SPECIFICATION Spec
CONSTANTS
    c1 = c1
    c2 = c2
    None = None
    Default = Default
    NoRow = NoRow
    Clients = {c1, c2}
    Keys = {1}
    Objects <- IntAndLarge
    Batches <- NoSets
    Patterns <- NoSets
    Ops <- OneKeyCalls
    Timeouts <- Short
    Deltas <- PlusOne
    DefaultTimeout = 1
    MaxEntries = 2
    CullFrequency = 2
    CullChance = "never"
    Compress <- MixedCompress
    Skew <- SomeSkew
    Forever = 9
    IntMin <- MinusOne
    IntMax = 1
    MaxTime = 3
PROPERTY ImplementsDocumented
