CONSTANTS
  Texts <- MCTexts
  Continues <- MCContinues
  MaxLines = 5
SPECIFICATION Spec
CONSTRAINT ThreeLinesOrStructure
INVARIANTS
  RangesWithinInput
  LinesTokenizedOnce
  TargetsBracketed
  TypeOK
  NodeStackRooted
  StacksAgree
  BranchesLinked
  OneAlternative
  ConditionalsClosed
  SpansNest
  RoundTrip
  WalkInSourceOrder
PROPERTIES
  BlockNestingImplemented
