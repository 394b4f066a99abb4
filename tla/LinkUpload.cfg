SPECIFICATION Spec
CONSTANTS
    few = few
    many = many
    Syncer = {s, t}
    NoOne = NoOne
    Nobody = Nobody
    List <- MCList
    Size <- MCSize
    MaxTokens = 2
    MaxFaults = 1
CHECK_DEADLOCK FALSE
INVARIANTS
    TypeOK
    UploadInv
    SessionAttended
    RowInv
PROPERTIES
    LiveRowKept
    ImplementsAtomicUpload
