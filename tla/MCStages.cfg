SPECIFICATION Spec
CONSTANTS
    CacheModels = {"o1/m", "o2/m", "o1/n", "o2/n"}
    CacheDirs = {"m", "n"}
    hf_local_dir <- MCDirOf
    Oversize = {"o2/n"}
    Unsized = {"o1/m"}
    Executors = {"daemon", "hand"}
    Service = "daemon"
    Tool = "tool"
    NoModel = "no model"
    Shards = 2
    Weighs <- MCWeighs
    Quota = 0
    MaxStagings = 2
    MaxAbandoned = 1
    Stages = {"stage"}
    Batches = {"batch"}
    Refreshers = {"refresh"}
    MaxCards = 3
    Repos <- MCRepos
    NoRepo = NoRepo
    PoolSize = 3
    StartLens = {0, 1024, 32768}
    AgentAttempts = 1
    Profiles <- MCProfiles
    ItemsPer = 2
    Runs = 3
    Burst = 2
    NItems = 2
    PlanIds = {"", "a", "b"}
INVARIANTS
    StagesTypeOK
    TornOnlyByTwoWriters
    LargeModelsAreGated
    GateAgreesWithStager
    NoConfigTwice
    
    ShortReportSaysSo
    SinglePurposeIsMeasured
    SilentEngineIsCaught
    StragglersAreWarned
PROPERTIES
    InUseTakenOnlyByStalePlan
    StagedIsCompleteOrExplained
    GoodCardLostOnlyByRaceOrRefresh
CHECK_DEADLOCK FALSE
