SPECIFICATION Spec
CONSTANTS
    c1 = c1
    c2 = c2
    c3 = c3
    u1 = u1
    u2 = u2
    bad = bad
    Calls <- MCCalls
    Urls <- MCUrls
    BadUrls <- MCBadUrls
    NoCall = NoCall
    NoUrl = NoUrl
    MaxConns = 3
    MaxEvents = 1
CHECK_DEADLOCK FALSE
INVARIANTS
    TypeOK
    GivenUpIsLeft
    ReturnsOwnReply
PROPERTIES
    CommandEnds
