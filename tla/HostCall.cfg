SPECIFICATION FairSpec
CONSTANTS
  PROGRAM <- TwoCalls
  Answer <- Reply
  TOHOST_CMD = 16
  EXIT_CODE = 3
  WINDOW = 6
PROPERTIES ImplementsRemoteCalls EveryCallReturns
CHECK_DEADLOCK FALSE
