\* The state machines in full, scores and configurations over enumerated inputs.
SPECIFICATION FairSpec
CONSTANTS
    Tables <- MCTables
    StableFor = 2
    Cooldown = 3
    Nothing = Nothing
    Threshold = 2
    InitialBackoff = 2
    MaxBackoff = 7
    MaxStreak = 4
    Samples = 3
    CheckTimeout = 2
    Spacing = 1
    MaxBody = 3
    Pipe = 1
    Attempts = 5
    Unreadable = Unreadable
    Missing = Missing
    MaxSaves = 3
    Scale = 100000
    Alpha = 3
    Hysteresis = 3
    NoRtt = NoRtt
    Dirs <- MCDirs
    Files <- MCFiles
    Links <- MCLinks
    Up = Up
    NotFound = NotFound
    Invalid = Invalid
    Absent = Absent
    Histories <- ShortHistories
    Recent = 3
    Rankings <- MCRankings
    Manifests <- MCManifests
    Configs <- MCConfigs
    Spellings <- MCSpellings
    Policies <- MCPolicies
CHECK_DEADLOCK FALSE
INVARIANTS
    HealthyMeansAnswered
    OnlyWholeBodies
    PoolIsFirstUsable
    RestartFindsReported
    RankingSound
    ConfigSound
PROPERTIES
    FollowsStableRoutes
    BackoffSound
    FailingIsRetried
    TickEndsInTime
    FetchEndsReaped
