SPECIFICATION ProgramsSpec
CONSTANTS
  HOST = {3, 4, 5, 6, 7}
  FILES = {1, 2, 3, 4, 5, 6}
  STDIN = 1
  STDOUT = 2
  CWD = "."
  TEXT <- Text
  DISKS <- Disks
  DATAS <- Datas
  MAX_FILE = 18
  ERRNO = {1, 2}
  CHAR = {0, 13, 77}
  BUFFERS <- Buffers
  TARGS <- Targs
  FDS <- Fds
  SIZES = {0, 2, 10}
  DIRS <- Dirs
  PATHS = {".", "Test"}
  PLACES = {"ibuf"}
  WORD = 1048576
  LOG2_FM_DIM = 2
  mula <- Mula
  PROGS <- Progs
  PORTS = {4, 24, 28}
  CONSOLE_ADDR = 24
  HALT_ADDR = 28
  RESET_TIME = 4
  TIME_LIMIT = 21
  MESSAGE <- Message
  ARRAYS <- Arrays
  IMAGES <- Pictures
  ANY <- AnyCalls
INVARIANTS FdsExact SobelExact ResultsExact LibraryExact
CHECK_DEADLOCK FALSE
