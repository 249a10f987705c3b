SPECIFICATION FairSpec
CONSTANTS
  Insts <- Decodable
  DECODE_WIDTH = 2
  MAX_INST = 3
INVARIANTS
  OperandsAgree
  EachQueuedOnce
PROPERTY
  EveryInstructionRetires
CHECK_DEADLOCK FALSE
