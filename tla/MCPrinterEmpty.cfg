SPECIFICATION Spec
CONSTANTS
  Files <- MCFiles
  Behaviors <- MCBehaviors
  WrapColumns <- MCWrapColumns
  SizeModulus = 1073741824
INVARIANTS
  EachCommandPrinted
