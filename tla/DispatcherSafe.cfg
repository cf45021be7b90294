CONSTANTS
    w1 = w1
    w2 = w2
    f1 = f1
    b1 = b1
    b2 = b2
    Pass = Pass
    FileLoop = FileLoop
    NoJob = NoJob
    Jobs = {w1, w2, f1}
    Pollers = {Pass, FileLoop}
    KindOf <- MCKindOf
    Wants <- MCWants
    Checked = {w1}
    BeadOf <- OwnBeads
    MaxConcurrent = 2
    MaxStops = 1
    MaxCrashes = 0
    MaxLost = 0
SPECIFICATION Spec
INVARIANTS SlotsMatchRuns DoneMeansAnAgentDidIt
CHECK_DEADLOCK FALSE
