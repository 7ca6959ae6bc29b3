SPECIFICATION FairSpec
CONSTANTS
    Pks = {1, 2, 3}
    Ranges <- SomeRanges
    ChunkSizes = {2}
    ChunkMin = 1
    ChunkMax = 2
    Rates = {0, 2}
    Unknown = Unknown
    NotFetched = NotFetched
INVARIANT TypeOK
INVARIANT Covered
INVARIANT NoOverlap
INVARIANT NewRowsSkipped
INVARIANT UnfinishedChunkUndone
INVARIANT ReportCounts
PROPERTY Terminates
