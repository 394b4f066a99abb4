SPECIFICATION FairSpec
CONSTANTS
    Member = {1, 2}
    Worker = {a, b}
    Link = Link
    Rule = {rule}
    AnyRelation = any
    Unset = Unset
    Limit = 1
    MaxQueued = 1
    MaxChanges = 1
    MaxDisconnects = 0
    MaxOutages = 0
    MaxFaults = 0
CHECK_DEADLOCK FALSE
PROPERTY
    Converges
