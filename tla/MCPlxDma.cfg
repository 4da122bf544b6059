CONSTANTS
    s1 = s1
    s2 = s2
    Submitters <- MCSubmitters
    Size <- MCSize
    Kind <- MCKind
    Share <- MCShare
    RingSize = 4
    CookieMax = 4
    StartCookie = 3
    MaxTransfers = 3
SPECIFICATION FairSpec
INVARIANTS
    TypeOK
    CallbacksInOrder
    NothingStranded
PROPERTIES
    SyncCompletes
CHECK_DEADLOCK FALSE
