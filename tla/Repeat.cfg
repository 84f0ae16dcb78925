SPECIFICATION FairSpec
CONSTANTS
    Plans <- AllPlans
    Plan <- Plan_
    Promise <- Promise_
    Bounded <- Ending
    Values <- Values_
    Longest = 2
    Late = 1
    MaxRuns = 4
    Infinite = 1000
    Steps = 3
    Slowest = 4
    DayLength = 2
    Months <- Months_
INVARIANTS NeverEarly 
PROPERTY LoopEnds
CHECK_DEADLOCK FALSE
