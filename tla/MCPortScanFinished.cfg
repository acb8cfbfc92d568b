CONSTANTS
  Workers = {w1, w2}
  Main = main
  Slots = 2
  MaxRequests = 1
  Names <- MCNames
  Trees <- MCTrees
SPECIFICATION ScanSpec
INVARIANTS
  FinishedLineLast
