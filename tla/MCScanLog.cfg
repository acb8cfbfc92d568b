CONSTANTS
  Results <- MCResults
  MaxStamp = 3
  MaxScans = 3
SPECIFICATION LogSpec
INVARIANTS
  LinkedLogsComplete
  LinksInOrder
  LogPublished
  ExitStatus
