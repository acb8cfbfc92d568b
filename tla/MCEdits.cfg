SPECIFICATION EditsSpec
CONSTANTS
  FlagNames = {"B"}
  DedupNames = {"A", "C"}
  UsesNames = {"A"}
  CmakeNames = {"C"}
  Names <- MCNames
  Rank <- MCRank
  Block <- MCBlock
  UsesBlock = 2
  PlistBlock = 3
  Numeral <- MCNumeral
  MaxRevision = 2
  Letters = {"v"}
  GitHashes = {"g0"}
  Modes = {"portfmt", "sanitize-append", "sanitize-eol-comments", "merge",
           "bump-revision", "bump-epoch", "set-version"}
  Inputs <- MCInputs
  MergeTrees <- MCMergeTrees
  NewVersions <- MCNewVersions
INVARIANTS
  UneditedAsRead
  SecondRunChangesNothing
  CommentsKept
PROPERTIES
  CollapseKeepsValues
  AppendSanitized
  MergeTakesEffect
  MergeKeepsOthers
  MergeKeepsOrder
  BumpIncrements
  SetVersionTakesEffect
