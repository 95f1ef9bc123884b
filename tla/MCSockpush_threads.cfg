CONSTANTS
  MaxLines = 4
  MaxBackoff = 3
SPECIFICATION FairSpec
INVARIANTS
  TypeOK
  IndInv
  NoRepeat
  NoOrphanLock
PROPERTIES
  MailSpec
  BufferStable
  ReadReturns
  ReadReleasesIo
  CloseCompletes
