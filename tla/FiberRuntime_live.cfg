SPECIFICATION FairSpec
CONSTANTS
    root = root
    a = a
    b = b
    NoFiber = NoFiber
    Fibers = {root, a, b}
    Root = root
    Knows <- Acyclic
    Scopes <- OwnScopes
    Programs <- LivePrograms
PROPERTIES
    InterruptWakes
    EveryFiberExits
CHECK_DEADLOCK FALSE
