SPECIFICATION Spec
CONSTANTS
  Subjects <- MCSubjects
  Envs <- MCEnvs
  Isolations <- MCIsolations
  InitTables = {TRUE}
  MaxCrashes = 1
  MaxSlow = 1
  MaxDbErrors = 1
  MaxMishaps = 1
INVARIANTS NoFalseAlarm DriftSeen DriftReal ToldIsTrue FlakeSeen
PROPERTIES SuitesFinish
