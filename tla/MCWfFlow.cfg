SPECIFICATION FairSpec
CONSTANTS
  Exec <- MCExec
  Links <- MCLinks
  QueueSize = 2
  Outcomes <- MCOutcomes
  Units <- MCUnits
  RetryMax <- MCRetryMax
  Callers = {main}
  Entry <- MCEntry
  MaxEmits = 2
  MaxStops = 0
  EarlyEvents = FALSE
  InitialStates <- MCInitialStates
INVARIANTS TypeOK NoGridlock Conservation InOrder
PROPERTIES Drains
CHECK_DEADLOCK FALSE
