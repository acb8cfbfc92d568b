CONSTANTS
  Workers = {w1, w2}
  Main = main
  Slots = 2
  MaxRequests = 2
  Names <- MCNames
  Trees <- MCTrees
SPECIFICATION FairScanSpec
INVARIANTS
  CountsEveryJob
  PathsOfThisRound
  ReportsContinue
  LogAsSequential
PROPERTIES
  ResetAlone
  ScanTerminates
