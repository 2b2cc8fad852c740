SPECIFICATION Spec
CONSTANTS
    Attr <- MCAttr
    Suffix8 <- MCSuffix8
    Suffix4 <- MCSuffix4
    TemplateMinRepeats = 2
    Unit = 100
    RateWindow = 2
    MaxAge = 14
    Day = 2
    Week = 14
    RowBytes = 10
    BurstBytes = 6
    HeaderBytes = 20
    ServedBytes = 4
    Bar <- MCBar
    Bucket = 5
    Hour = 20
    Points <- MCPoints
    NegativeMarkers <- MCNegative
    Several = 2
    Many = 3
    GithubRoom = 2
    MinSampled = 3
    MaxCandidates = 1
    MapBytes = 20
    AgentBytes = 15
    CompactAgentBytes = 10
    TierBytes = 2
    InitLogs <- MCInitLogs
    Feed <- MCFeed
    OptionSets <- MCOptionSets
    Directory <- MCDirectory
    MaxLedgerDefault = 500
    MaxPolls <- MCMaxPolls
    InitStore <- MCInitStore
    Changes <- MCChanges
    Words <- MCWords
    UrlWords <- MCUrlWords
    Weight <- MCWeight
    MaxDfPercent = 60
    MaxTerms = 3
    MaxK = 3
    MaxTokens = 5
    LexicalBytes = 20
    MaxJobs <- MCMaxJobs
    MaxKills = 1
INVARIANTS
    TypeOK
    CompactFaithful
    BurstBuysNothing
    LivenessFaithful
    FrozenLogReproduces
    StaticFaithful
PROPERTIES
    ShardsStayPublished
CHECK_DEADLOCK FALSE
