SPECIFICATION Spec
CONSTANTS
    Lanes = {"project", "skill"}
    LaneRuns = {"r1", "r2", "k1"}
    LaneOf <- MCLaneOf
    TargetOf <- MCTargetOf
    Limit = 2
    RecycleAfter = 1
    MaxLaneFaults = 1
    Passes = {"daemon", "hand"}
    ModesOf <- MCModes
    Resetters = {"hand"}
    HubModels = {"a", "g"}
    OffModality = {}
    Gated = {"g"}
    Curated = {"a", "g"}
    FromDate = 2
    MaxTime = 3
    MaxPages <- MCPages
    MaxRounds = 2
    MaxPassFaults = 1
    MaxInvocations = 2
    MaxUnitFaults = 2
    HealthyFor = 1
    KeepFor = 2
    MaxTicks = 5
    MaxBackupFaults = 2
INVARIANTS
    ServicesTypeOK
    StrandedOnlyByCrash
    DoneMeansAgentGone
    SeenHasRow
    NothingMissedSilently
    OkMeansRan
    OkIsForThisSpec
    OkQuotesItself
    HealthIsHonest
PROPERTIES
    RestorePointKept
    EveryRunEnds
CHECK_DEADLOCK FALSE
