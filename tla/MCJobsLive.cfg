SPECIFICATION FairSpec
CONSTANTS
  a = a
  Job = {a}
  Answers = {"ok", "refused", "lost"}
  MaxDeletes = 1
  MaxCrashes = 1
PROPERTIES JobEnds
CHECK_DEADLOCK FALSE
