SPECIFICATION MCSpec
CONSTANTS
    Member = {1, 2}
    Worker = {a, b}
    Link = Link
    Rule = {rule}
    AnyRelation = any
    Unset = Unset
    Limit = 1
    MaxQueued = 1
    MaxChanges = 1
    MaxDisconnects = 1
    MaxOutages = 1
    MaxFaults = 1
CHECK_DEADLOCK FALSE
INVARIANTS
    TypeOK
    MirrorInv
