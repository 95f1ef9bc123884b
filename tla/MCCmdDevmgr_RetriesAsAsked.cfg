CONSTANTS
  ReadTimeout = 2
  Tries = 1
  MaxCmds = 2
  MaxNoise = 1
  MaxCorrupt = 1
  MaxFrames = 1
SPECIFICATION Spec
INVARIANT
  RetriesAsAsked
