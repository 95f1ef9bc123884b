SPECIFICATION FairSpec
CONSTANTS
  MsPerSec = 2
  NsPerMs = 2
  ReadTimeout = 3
  Tries = 1
  SendTime = 2
  MaxLines = 2
  MaxSteps = 2
  MaxStep = 3
INVARIANTS
  TypeOK
  ElapsedExact
  WaitExact
  CommandDeadline
PROPERTIES
  Returns
