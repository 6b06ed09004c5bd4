SPECIFICATION Spec
CONSTANTS
  a = a
  b = b
  Job = {a, b}
  Answers = {"ok", "refused", "lost"}
  MaxDeletes = 1
  MaxCrashes = 1
SYMMETRY AnyJob
INVARIANTS Watched Agreement RunsBounded ReportsBounded ReportedHasEnded
CHECK_DEADLOCK FALSE
