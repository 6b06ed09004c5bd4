SPECIFICATION Spec
CONSTANTS
  Exec <- MCExec
  Links <- MCLinks
  QueueSize = 6
  Outcomes <- MCOutcomes
  Units <- MCUnits
  RetryMax <- MCRetryMax
  Callers = {main}
  Entry <- MCEntry
  MaxEmits = 2
  MaxStops = 1
  EarlyEvents = FALSE
  InitialStates <- MCRecovered
INVARIANTS RecordIsStopped
CHECK_DEADLOCK FALSE
