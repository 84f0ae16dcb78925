SPECIFICATION FairSpec
CONSTANTS
    p1 = p1
    p2 = p2
    c1 = c1
    c2 = c2
    Producers <- TwoProducers
    Consumers <- TwoConsumers
    Strategies <- AllStrategies
    Capacity = 1
    MaxOffers <- Offers
    MaxBatch = 2
    MaxTakes = 1
INVARIANT WaitersAreRight
PROPERTIES RefinesChannel ShutdownFrees
CHECK_DEADLOCK FALSE
