SPECIFICATION Spec
CONSTANTS
  ARGVS <- Argvs
  SPACE = 32
  BUCKET = 8
  CHUNK = 4
  ALIGNS = {1, 4}
  BYTE <- Byte
  FILES <- Files
  NONE = "none"
  DEFAULT_ENTRY = 16
  RESET_VEC = 14
  RESET_CODE <- Code
  DRIVERS <- Drivers
  COMMANDS <- Asked
  MAX_COMMANDS = 4
  IDENTITY_SIZE = 2
  NAME <- Name
  MAGICMEM = 2
  SYSCALLS = {2, 3}
  SYS_EXIT = 3
  FESVR_TURNS = 2
  FESVR_TOHOST = 24
  FESVR_EXIT <- FesvrExit
  STOP_ADDR = 16
  SIM_TIME = 3
INVARIANTS MemoryExact ArgumentsSplit ImageLoaded OnlySoundFiles ConversationExact
CHECK_DEADLOCK FALSE
