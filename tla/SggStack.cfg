CONSTANTS
  Size = 4
  Vals = {a, b, c}
  None = None
SPECIFICATION RingSpec
INVARIANT RingTypeOK
INVARIANT SearchesAgree
PROPERTY ImplementsFifo
