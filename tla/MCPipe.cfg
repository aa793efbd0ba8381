\* A buffer of three bytes, every starting value of avail, counts that wrap around.
SPECIFICATION Spec
CONSTANTS
  MAX_PIPES = 2
  PIPE_SIZE = 3
  UINT = 5
  Pids = {p, q}
  NULL = NULL
  INT_MAX = 2
  MaxWrites = 3
  MaxQueue = 1
  MaxUsers = 2
INVARIANTS
  TypeOK
  SemaphoreIdle
