CONSTANTS
  Procs <- OneProc
  Enabled <- OneEnabled
  Scope <- OneScope
  Reps = 1
  Concurrency = 1
  MaxStarts <- OneStart
  MaxErrors = 0
SPECIFICATION Spec
INVARIANT SeededThenSevered
CHECK_DEADLOCK FALSE
