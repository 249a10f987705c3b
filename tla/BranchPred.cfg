SPECIFICATION PredSpec
CONSTANTS
  FETCH_WIDTH = 2
  COMMIT_WIDTH = 2
  ADDR_SPACE = 8
  PROGRAM <- SmallProgram
  RETURNS <- Callers
  MAX_WINDOW = 6
  BHT_SIZE = 2
  PHT_SIZE = 4
  BTB_SIZE = 2
  BTB_WIDTH = 3
  TAG_UNIT = 4
INVARIANTS FetchChains RetiresProgram
PROPERTIES ImplementsFetchPath
