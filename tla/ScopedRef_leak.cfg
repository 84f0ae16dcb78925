SPECIFICATION ScopedSpec
CONSTANTS
    a = a
    b = b
    c = c
    d = d
    Clients = {a, b, c, d}
    Masked = {c, d}
    Roots = {a, b}
    Closer = d
    Permits = 1
    Want <- One
    Rounds <- Often
INVARIANT OldIsReleased
CHECK_DEADLOCK FALSE
