SPECIFICATION FairSpec
CHECK_DEADLOCK FALSE
CONSTANTS
  Configs <- MCConfigsDeadlined
  Plans <- MCPlansTwo
  MaxGen = 3
  MaxCrashes = 1
  MaxSwitches = 1
  Requests = TRUE
  InformerLag = FALSE
  ApiErrors = FALSE
  SlowGC = TRUE
  PromptOperator = TRUE
PROPERTY SuiteTerminates
