SPECIFICATION Spec
CHECK_DEADLOCK FALSE
CONSTANTS
  Configs <- MCConfigsPipeline
  Plans <- MCPlansAll
  MaxGen = 3
  MaxCrashes = 0
  MaxSwitches = 0
  Requests = TRUE
  InformerLag = FALSE
  ApiErrors = TRUE
  SlowGC = FALSE
  PromptOperator = FALSE
INVARIANT TypeOK
INVARIANT VerdictCoversSpec
INVARIANT FreshResults
INVARIANT OneAtATime
PROPERTY PipelineSpec
