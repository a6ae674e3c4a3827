SPECIFICATION Spec
CONSTANTS
    m1 = m1
    m2 = m2
    timer = timer
    shell = shell
    hand1 = hand1
    Models = {m1}
    Timers = {timer}
    Shells = {}
    Loop = loop
    Hands = {}
    None = None
    Garbled = Garbled
    MaxJobs = 2
    MaxCrashes = 0
INVARIANTS OneActiveJobPerModel
CHECK_DEADLOCK FALSE
