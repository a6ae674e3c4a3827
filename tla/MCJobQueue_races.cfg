SPECIFICATION FairSpec
CONSTANTS
    m1 = m1
    m2 = m2
    timer = timer
    shell = shell
    hand1 = hand1
    Models = {m1, m2}
    Timers = {timer}
    Shells = {}
    Loop = loop
    Hands = {hand1}
    None = None
    Garbled = Garbled
    MaxJobs = 3
    MaxCrashes = 1
INVARIANTS TypeOK EachJobRunsOnce InProgressIsRunning RunsInEnqueueOrder LossIsExplained
PROPERTIES EveryJobRuns
CHECK_DEADLOCK FALSE
