SPECIFICATION FairSpec
CONSTANTS
    Worker = {a, b}
    BatchSize = 2
    MaxAccounts = 2
    MaxRequests = 2
CHECK_DEADLOCK FALSE
PROPERTY
    SignalEndsProcess
