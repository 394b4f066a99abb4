SPECIFICATION Spec
CONSTANTS
    blank = blank
    s = s
    t = t
    listX = listX
    listY = listY
    x = x
    y = y
    Text <- MCText
    Blank = {blank}
    List <- MCList
    Account = {x, y}
    Owner <- MCOwner
    NoAccount = NoAccount
    Matches <- MCMatches
    Regex = {s, t}
    Body <- MCBody
    Viewer <- MCViewer
    MAX_GROUPS = 2
    MAX_CONDITIONS_PER_GROUP = 2
INVARIANTS
    TypeOK
    SameVerdictOnSameGround
