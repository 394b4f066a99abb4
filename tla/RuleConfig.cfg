SPECIFICATION Spec
CONSTANTS
    Tab = {a, b}
    Account = {x, y}
    NoAccount = NoAccount
    MaxSaves = 3
    MaxRegisters = 2
INVARIANTS
    TypeOK
    VersionsTell
    BoundUnlessRaced
PROPERTY
    NoClobberUnlessMisled
