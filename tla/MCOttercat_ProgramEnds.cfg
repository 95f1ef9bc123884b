SPECIFICATION FairSpec
CONSTANTS
  MaxLines = 2
  MaxBackoff = 1
  MaxCmds = 1
  MaxSends = 2
PROPERTIES
  ProgramEnds
