SPECIFICATION Spec
CONSTANTS
    r1 = r1
    r2 = r2
    cli = cli
    Runs = {r1}
    None = None
    Loop = Loop
    Operators = {cli}
    Pipeline <- ShortPipeline
    Light = {}
    Ungated = {}
    Abortable = {}
    MaxDeployAttempts = 1
    MaxCrashes = 0
    DockerFaults = FALSE
    OutboxFaults = FALSE
    Overlap = TRUE
INVARIANTS SweptRunsAreDead
