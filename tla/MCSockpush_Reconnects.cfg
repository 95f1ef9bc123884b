CONSTANTS
  MaxLines = 2
  MaxBackoff = 2
SPECIFICATION FairSpec
PROPERTY
  Reconnects
