CONSTANTS
  ARF_INT_SIZE = 2
  PRF_INT_SIZE = 2
  RENAME_WIDTH = 2
  COMMIT_WIDTH = 2
  ROB_SIZE = 4
  GROUPS <- MCGroups
SPECIFICATION FairSpec
PROPERTIES ImplementsQueue HeadRetires
