SPECIFICATION FairSpec
CONSTANTS
    Combinators <- AllCombinators
    Size <- Sizes
    Items = 3
    Strip <- StripFailures
    ErrorsIn <- Failures
    OnlyInterrupts <- IsInterruptedOnly
INVARIANTS EffectsEndFirst OutcomeIsRight
PROPERTIES ParentLeaves EffectsEnd
CHECK_DEADLOCK FALSE
