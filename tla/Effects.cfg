SPECIFICATION Spec
CONSTANTS
  MaxSize = 3
  MaxSignal = 76
  Refs = {env, notes, spans, labels}
  Values <- AnyValue
  RefValues <- AnyValue
  Environment = env
  Annotations = notes
  Spans = spans
  Labels = labels
  Undefined = undefined
  LoopStates = {1,2,3,4}
  Missing = missing
  NotANumber = nan
INVARIANTS FinalizersRun NothingAfterInterrupt InterruptionShows RegionsEnd
CHECK_DEADLOCK FALSE
