SPECIFICATION Spec
CONSTANTS
    Clients = {c1, c2}
    MaxSessions = 3
    Names = {job}
    NoName = NoName
    MaxDepth = 2
    Tables = {"child", "parent"}
    Parents <- ParentOf
    Requests <- Lists
INVARIANT LeavesNothing
