SPECIFICATION Spec
CONSTANTS
    Names = {a, b}
    Connections = {default, other}
    Hints <- SomeHints
    Limits = {0, 1}
    Tries <- SomeTries
    Tables <- SomeTables
    MaxMarks = 2
    MaxCalls = 4
    NoLimit = NoLimit
    None = None
    Absent = Absent
    ValueError = ValueError
    RuntimeError = RuntimeError
    RawMarks <- SomeRawMarks
    Clients = {"p", "q"}
    Chars = {"a", "b", ",", " "}
    Items <- OneOrTwo
    Values <- InPython
    TypedTexts <- Typed
    BaseMaxLength = 2
    MaxLength = 5
    Size = 2
    BaseRequired = TRUE
    Null = Null
    Specs <- SomeSpecs
    Mappings <- SomeMappings
    Registered <- SomeTransforms
INVARIANT FoundRowsRight
INVARIANT HintsReachServer
INVARIANT WellFormed
INVARIANT LookupsRight
INVARIANT DynamicReadable
PROPERTY ImplementsMembers
PROPERTY OnlyTablesApproximated
SYMMETRY Symmetry
