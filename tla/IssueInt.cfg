CONSTANTS
  DISPATCH_WIDTH = 2
  IQ_INT_SIZE = 3
  MAX_UOP = 4
SPECIFICATION FairSpec
INVARIANTS QueueExact NoneLostOrDoubled OperandsArrive
PROPERTIES EveryUopCompletes
