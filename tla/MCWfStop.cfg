SPECIFICATION FairSpec
CONSTANTS
  Exec <- MCExec
  Links <- MCLinks
  QueueSize = 6
  Outcomes <- MCOutcomes
  Units <- MCUnits
  RetryMax <- MCRetryMax
  Callers = {main, cron}
  Entry <- MCEntry
  MaxEmits = 1
  MaxStops = 1
  EarlyEvents = TRUE
  InitialStates <- MCInitialStates
INVARIANTS LateBound StateIsStopped
PROPERTIES StopCompletes
CHECK_DEADLOCK FALSE
