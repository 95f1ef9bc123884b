SPECIFICATION FairSpec
CONSTANTS
  MaxLines = 2
  MaxBackoff = 1
  MaxCmds = 2
  MaxSends = 2
INVARIANTS
  TypeOK
  Balanced
  ThreadHasObject
  NoLeftOverAnswer
PROPERTIES
  SockpushSpec
  EndsUnlessSignalLost
