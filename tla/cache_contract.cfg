SPECIFICATION MixedSpec
CONSTANTS
    c1 = c1
    c2 = c2
    None = None
    Default = Default
    NoRow = NoRow
    Clients = {c1, c2}
    Keys = {1, 2}
    Objects <- IntAndLarge
    Batches <- PairOrNothing
    Patterns <- Pair
    Ops <- AllCalls
    Timeouts <- ZeroShortDefault
    Deltas <- PlusOne
    DefaultTimeout = None
    MaxEntries = 2
    CullFrequency = 2
    CullChance = "sometimes"
    Compress <- MixedCompress
    Skew <- SomeSkew
    Forever = 9
    IntMin <- MinusOne
    IntMax = 1
    MaxTime = 3
    BatchTime = 2
    OneKeyMethods = {"set", "add", "get", "has_key", "touch", "delete", "incr", "decr"}
INVARIANT TypeOK
INVARIANT TableReadable
PROPERTY ImplementsContract
