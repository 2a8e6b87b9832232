SPECIFICATION Spec
CONSTANTS
  Conns = {"a", "b"}
  Units <- MCUnits
  Strips <- MCStrips
  Numbers <- MCNumbers
  Window = 20
INVARIANT WindowGivenBack
CHECK_DEADLOCK FALSE
