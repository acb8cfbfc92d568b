SPECIFICATION Spec
CONSTANTS
  Makefiles <- MCMakefiles
  Options <- MCOptions
  MaxBuffered = 2
INVARIANTS
  MakefileOnly
  FailureLeavesMakefile
  SuccessKeepsAll
