CONSTANTS
    w1 = w1
    w2 = w2
    f1 = f1
    passA = passA
    passB = passB
    files = files
    NoJob = NoJob
    Jobs = {w1, w2, f1}
    Pollers = {passA, passB, files}
    KindOf <- MCKindOf
    Wants <- MCWants
    MaxChanges = 2
SPECIFICATION QueuesSpec
INVARIANTS LocksAreExclusive ProcessedWasProjected
PROPERTIES ImplementsLifecycle ProjectionCatchesUp
CHECK_DEADLOCK FALSE
