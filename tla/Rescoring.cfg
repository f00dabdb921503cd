CONSTANTS
  Reports <- MCReports
  Names <- MCNames
  Findings <- MCFindings
  Noise <- MCNoise
SPECIFICATION Spec
INVARIANTS PortAgrees FixesOnlyWhereMeant MirrorsAgree SymptomNotCredited
PROPERTIES NoiseIgnored
CHECK_DEADLOCK FALSE
