SPECIFICATION Spec
CHECK_DEADLOCK FALSE
CONSTANTS
  Configs <- MCConfigsEdited
  Plans <- MCPlansAll
  MaxGen = 3
  MaxCrashes = 0
  MaxSwitches = 0
  Requests = TRUE
  InformerLag = FALSE
  ApiErrors = FALSE
  SlowGC = FALSE
  PromptOperator = FALSE
INVARIANT VerdictCoversEdit
