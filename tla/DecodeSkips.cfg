SPECIFICATION Spec
CONSTANTS
  Insts <- Multiplies
  DECODE_WIDTH = 2
  MAX_INST = 3
INVARIANT
  NothingSkipped
CHECK_DEADLOCK FALSE
