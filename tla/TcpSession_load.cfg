SPECIFICATION Spec
CONSTANTS
  Conns = {"a", "b"}
  Units <- MCUnits
  Strips <- MCStrips
  Numbers <- MCNumbers
  Window = 20
INVARIANTS TypeOK OwnPlace SentIsStored CalcsAsked
CHECK_DEADLOCK FALSE
