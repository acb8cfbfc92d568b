CONSTANTS
  Results <- MCResults
  MaxStamp = 2
  MaxScans = 2
SPECIFICATION LogSpec
INVARIANTS
  LinksDiffer
