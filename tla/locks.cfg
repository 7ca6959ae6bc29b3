SPECIFICATION FairSpec
CONSTANTS
    Clients = {c1, c2}
    MaxSessions = 3
    Names = {job}
    NoName = NoName
    MaxDepth = 2
    Tables = {"child", "parent"}
    Parents <- ParentOf
    Requests <- Lists
INVARIANT TypeOK
INVARIANT OneInside
INVARIANT DirtyUnderLock
INVARIANT BlockKeepsLocks
PROPERTY ExitTellsLoss
PROPERTY OthersKeepOut
PROPERTY NoImplicitCommit
PROPERTY AcquireReturns
