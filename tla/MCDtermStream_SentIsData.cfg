CONSTANT
  MaxLen = 3
SPECIFICATION Spec
INVARIANT
  SentIsData
