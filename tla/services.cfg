SPECIFICATION FairSpec
CONSTANTS
    Variables = {"running"}
    Levels = {0, 1, 2}
    Thresholds <- GivenThresholds
    WaitLengths = {0, 2}
    Sleep = 1
    MaxClock = 5
    SysVars = {"a", "b"}
    SysValues = {0, 1}
    Refused = Refused
    Overrides = {"both", "second", "bad"}
    Options <- BlockOptions
    Null = Null
    MaxNesting = 3
    Migrators = {m1, m2}
    Plugins <- PluginNames
    Plugin <- PluginToInstall
    Engines = {"InnoDB", "MyISAM"}
    NoEngine = "none given"
    Operations <- MigrationRuns
    Caches = {"default", "app"}
    KeyPrefix <- CachePrefixes
    Keys <- CacheKeysUsed
    Prefixes <- PrefixesUsed
    Versions = {"1", "2"}
    MaxRows = 2
INVARIANT EffectHolds
INVARIANT FailsOnlyInRace
PROPERTY TimedWaitEnds
PROPERTY LowLoadEndsWait
PROPERTY ExitRestores
PROPERTY PrefixExact
