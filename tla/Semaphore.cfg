SPECIFICATION FairSpec
CONSTANTS
    a = a
    b = b
    c = c
    d = d
    Clients = {a, b, c, d}
    Masked = {d}
    Roots = {a, b, c}
    Permits = 3
    Want <- Mixed
    Rounds <- RoundsOf
INVARIANTS
    WithinPermits
    LostToInterrupts
    WaitersAreRight
PROPERTIES
    WaitersServed
CHECK_DEADLOCK FALSE
