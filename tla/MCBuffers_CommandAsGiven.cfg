SPECIFICATION Spec
CONSTANTS
  Size = 4
  HdrIn = 3
  HdrOut = 1
  MaxArgs = 2
  MaxArg = 3
  MaxBytes = 11
INVARIANTS
  CommandAsGiven
