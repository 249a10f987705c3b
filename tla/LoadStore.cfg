SPECIFICATION FairSpec
CONSTANTS
  ADDR <- Bytes
  HALT_ADDR = 20
  CONSOLE_ADDR = 16
  DISPATCH_WIDTH = 2
  IQ_MEM_SIZE = 3
  COMMIT_WIDTH = 2
  ACCESSES <- Accesses
  MAX_UOP = 3
INVARIANTS QueuePacked ExecutesOnce BufferExact MemoryInOrder LoadsInProgramOrder StopsOnRequest
PROPERTIES EveryAccessCompletes
CHECK_DEADLOCK FALSE
