SPECIFICATION Spec
CONSTANTS
    r1 = r1
    r2 = r2
    cli = cli
    Runs = {r1, r2}
    None = None
    Loop = Loop
    Operators = {}
    Pipeline <- STAGES_IN_ORDER
    Light = {r1}
    Ungated = {r2}
    Abortable = {}
    MaxDeployAttempts = 3
    MaxCrashes = 0
    DockerFaults = TRUE
    OutboxFaults = TRUE
    Overlap = FALSE
INVARIANTS LeakOnlyIfCleanupFailed ForeignOnlyAfterLeak
