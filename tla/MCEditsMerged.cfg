SPECIFICATION EditsSpec
CONSTANTS
  FlagNames = {"B"}
  DedupNames = {"A", "C"}
  UsesNames = {"A"}
  CmakeNames = {"C"}
  Names <- MCNames
  Rank <- MCRank
  Block <- MCBlock
  UsesBlock = 2
  PlistBlock = 3
  Numeral <- MCNumeral
  MaxRevision = 2
  Letters = {"v"}
  GitHashes = {"g0"}
  Modes = {"merge"}
  Inputs <- MCFewInputs
  MergeTrees <- MCMergeTrees
  NewVersions <- MCNewVersions
PROPERTY EveryVariableMerged
