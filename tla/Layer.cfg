SPECIFICATION FairSpec
CONSTANTS
    top = top
    left = left
    right = right
    db = db
    users = users
    mails = mails
    app = app
    cache = cache
    other = other
    Scopes <- AllScopes
    Parallel = {top}
    Resources <- AllResources
    Leaves <- AllLeaves
    Fragile = {users}
    Composed <- AllComposed
    Kinds <- AllKinds
    Parts <- AllParts
    Top = top
    Shared = app
    Extra = cache
    Other = other
INVARIANTS AllocatedOnce ObserversWillRelease ServicesLive DependentsFirst NothingLeftOver
PROPERTIES BuildsEnd

CHECK_DEADLOCK FALSE
