CONSTANT
  MaxLen = 5
SPECIFICATION FairSpec
INVARIANTS
  TypeOK
  CursorInBounds
  LinesInOrder
  EmptyOnlyAtEnd
  StopsAtFailure
PROPERTY
  Ends
