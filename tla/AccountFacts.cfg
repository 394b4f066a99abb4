SPECIFICATION MCSpec
CONSTANTS
    v = v
    l = l
    Viewer = {v, w}
    List = {l, k}
    Pack = {p}
    Refresher = {q, r}
    Cap = 1
    PageCap = 1
    MaxChanges = 2
    MaxFaults = 1
    MaxUnlinks = 1
    MaxDisturbances = 2
INVARIANTS
    TypeOK
    FetchedSteady
    SteadyKeepFlagsUnlessFailed
PROPERTIES
    FactsConverge
    RefreshesAreRight
