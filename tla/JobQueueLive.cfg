SPECIFICATION FairSpec
CONSTANTS
    a = a
    b = b
    c = c
    p = p
    q = q
    Job = {1, 2}
    Worker = {a, b}
    Replica = {p}
    Home <- OneProcess
    NoWorker = NoWorker
    BatchSize = 2
    MaxAttempts = 2
    MaxFaults = 1
    MaxSignals = 1
    MaxOverruns = 0
INVARIANTS
    ExclusiveInTime
    AttemptsInv
    AttemptsAccounted
PROPERTIES
    ImplementsExecution
    EveryJobEnds
