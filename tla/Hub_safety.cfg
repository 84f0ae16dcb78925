SPECIFICATION Spec
CONSTANTS
    p = p
    q = q
    c = c
    d = d
    s = s
    t = t
    Publishers = {p}
    Consumers = {c, d}
    Subscriptions = {s, t}
    Of <- Own
    Kinds <- Sound
    MaxOffers = 3
    MaxBatch = 2
    MaxTakes = 1
    MaxInterrupts = 1
SYMMETRY Symmetric
INVARIANTS SlotsAreNeeded WaitersAreRight
PROPERTY RefinesBroadcast
CHECK_DEADLOCK FALSE
