CONSTANTS
  Chosen <- MCAll
  NCells = 2
  NWorkers = 2
  ShortLimit = 2
  MaxOutage = 6
  MaxFaults = 3
SPECIFICATION FairSpec
INVARIANTS TypeOK OwnNamespace
PROPERTIES AnswerKept TableComplete BatchDone
