SPECIFICATION FairSpec
CONSTANTS
    Caller = {c, d}
    Admin = {a}
    Token = {t1, t2, t3, t4, t5}
    NoToken = NoToken
    MaxFaults = 1
    MaxRevocations = 1
INVARIANTS
    TypeOK
    SessionInv
PROPERTIES
    DeadSessionIsShown
    FalseAlarmEnds
