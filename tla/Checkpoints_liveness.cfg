SPECIFICATION FairSpec
CONSTANTS
  a = a
  b = b
  c1 = c1
  c2 = c2
  Names <- TwoNames
  Clients <- OneClient
  MaxRequests = 4
  MaxWrites = 1
  MaxAborts = 1
  CacheLag = FALSE
  SlowGC = FALSE
  Patient = TRUE
  TasksEnabled = TRUE
  PromptOperator = TRUE
INVARIANT CheckpointsAreWhole
PROPERTY RequestsComplete
PROPERTY SavesGetListed
