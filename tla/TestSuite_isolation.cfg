SPECIFICATION Spec
CHECK_DEADLOCK FALSE
CONSTANTS
  Configs <- MCConfigsIsolated
  Plans <- MCPlansAll
  MaxGen = 1
  MaxCrashes = 0
  MaxSwitches = 0
  Requests = FALSE
  InformerLag = TRUE
  ApiErrors = FALSE
  SlowGC = FALSE
  PromptOperator = FALSE
PROPERTY IsolationKept
