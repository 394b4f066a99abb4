SPECIFICATION Spec
CONSTANTS
    a = a
    b = b
    c = c
    p = p
    q = q
    Job = {1, 2}
    Worker = {a, b, c}
    Replica = {p, q}
    Home <- TwoProcesses
    NoWorker = NoWorker
    BatchSize = 2
    MaxAttempts = 2
    MaxFaults = 1
    MaxSignals = 0
    MaxOverruns = 1
INVARIANTS
    TypeOK
    OwnershipInv
    DuplicatesAccounted
PROPERTY
    FinalStaysInTime
