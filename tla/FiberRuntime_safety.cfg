SPECIFICATION Spec
CONSTANTS
    root = root
    a = a
    b = b
    NoFiber = NoFiber
    Fibers = {root, a, b}
    Root = root
    Knows <- AllKnow
    Scopes <- OwnScopes
    Programs <- SafetyPrograms
INVARIANTS
    TypeOK
    SingleRunLoop
    OneContinuation
    NoStrandedMessage
    InterruptedMakesNoProgress
    ExitsAreRight
    ChildrenExitFirst
    NothingLeftBehind
CHECK_DEADLOCK FALSE
