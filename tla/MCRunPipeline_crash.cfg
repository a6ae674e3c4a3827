SPECIFICATION FairSpec
CONSTANTS
    r1 = r1
    r2 = r2
    cli = cli
    Runs = {r1, r2}
    None = None
    Loop = Loop
    Operators = {}
    Pipeline <- ShortPipeline
    Light = {r1}
    Ungated = {r2}
    Abortable = {}
    MaxDeployAttempts = 2
    MaxCrashes = 2
    DockerFaults = FALSE
    OutboxFaults = FALSE
    Overlap = FALSE
INVARIANTS TypeOK IndexMatchesState OkLeavesNothing
PROPERTIES ImplementsLifecycle EveryRunEnds
