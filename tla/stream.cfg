CONSTANTS
    Clients = {c1, c2, c3}
    c1 = c1
    c2 = c2
    c3 = c3
SPECIFICATION FairSpec
INVARIANTS
    TypeOK
    ListedOnceWhileOpen
    NobodyServedTwice
    MissedOnlyIfSkipped
PROPERTIES
    StreamGoesOn
    ClosedIsForgotten
