CONSTANTS
    w1 = w1
    w2 = w2
    f1 = f1
    b1 = b1
    b2 = b2
    Pass = Pass
    FileLoop = FileLoop
    NoJob = NoJob
    Jobs = {w1, f1}
    Pollers = {Pass, FileLoop}
    KindOf <- MCKindOf
    Wants <- MCWants
    Checked = {w1}
    BeadOf <- OwnBeads
    MaxConcurrent = 1
    MaxStops = 1
    MaxCrashes = 1
    MaxLost = 1
SPECIFICATION LoopSpec
INVARIANTS RunningRowsAreAccountedFor
PROPERTIES ImplementsQueue ClaimedIsSettled StopIsBounded FilingDoesNotWait
CHECK_DEADLOCK FALSE
