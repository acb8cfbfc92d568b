CONSTANTS
  Texts <- MCTexts
  Continues = {FALSE}
  MaxLines = 3
SPECIFICATION Spec
INVARIANTS
  MissingEndforRejected
