SPECIFICATION Spec
CONSTANTS
    r1 = r1
    r2 = r2
    cli = cli
    Runs = {r1}
    None = None
    Loop = Loop
    Operators = {cli}
    Pipeline <- STAGES_IN_ORDER
    Light = {r1}
    Ungated = {}
    Abortable = {r1}
    MaxDeployAttempts = 2
    MaxCrashes = 3
    DockerFaults = TRUE
    OutboxFaults = TRUE
    Overlap = FALSE
INVARIANTS StagesInOrder OkMeansEveryStageOk
PROPERTIES StageOkStays
