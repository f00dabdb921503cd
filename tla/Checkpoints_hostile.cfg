SPECIFICATION Spec
CONSTANTS
  a = a
  b = b
  c1 = c1
  c2 = c2
  Names <- OneName
  Clients <- TwoClients
  MaxRequests = 2
  MaxWrites = 0
  MaxAborts = 1
  CacheLag = TRUE
  SlowGC = TRUE
  Patient = FALSE
  TasksEnabled = FALSE
  PromptOperator = FALSE
INVARIANT TypeOK
INVARIANT AckedSaveIsStored
INVARIANT DerivedStateSurvives
PROPERTY ObservedForward
