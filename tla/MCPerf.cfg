SPECIFICATION ScoreSpec
CONSTANTS
    Profiles <- MCProfiles
    ItemsPer = 1
    Runs = 3
    Burst = 2
    NItems = 1
    PlanIds = {"a"}
INVARIANT P95AtLeastP50
CHECK_DEADLOCK FALSE
