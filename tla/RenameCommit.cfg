CONSTANTS
  ARF_INT_SIZE = 3
  PRF_INT_SIZE = 5
  RENAME_WIDTH = 2
  COMMIT_WIDTH = 2
  ROB_SIZE = 3
  DECODED <- MCDecoded
SPECIFICATION Spec
INVARIANTS Dataflow RegisterAccounting NoAliasing NothingPastMispredict
CONSTRAINT NothingRefusedByRob
