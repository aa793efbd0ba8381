\* One pipe.
SPECIFICATION Spec
CONSTANTS
  MAX_PIPES = 1
  PIPE_SIZE = 3
  UINT = 6
  Pids = {p, q}
  NULL = NULL
  INT_MAX = 3
  MaxWrites = 5
  MaxQueue = 1
  MaxUsers = 3
INVARIANTS
  NothingToRead
