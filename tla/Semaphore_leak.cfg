SPECIFICATION Spec
CONSTANTS
    a = a
    b = b
    c = c
    d = d
    Clients = {a, b, c}
    Masked = {}
    Roots = {}
    Permits = 3
    Want <- Mixed
    Rounds <- RoundsOf
INVARIANTS
    PermitsReturn
CHECK_DEADLOCK FALSE
