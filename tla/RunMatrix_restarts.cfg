CONSTANTS
  Procs <- MCProcs
  Enabled <- MCEnabled
  Scope <- MCScope
  Reps = 1
  Concurrency = 2
  MaxStarts <- MCStarts
  MaxErrors = 1
SPECIFICATION FairSpec
INVARIANTS TypeOK OwnReport ShowsItsFault SkippedIsStored TornDown ArtifactsShowFailure
PROPERTIES ReportKept MatrixFinishes
CHECK_DEADLOCK FALSE
