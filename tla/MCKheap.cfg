\* Three frames of 23 bytes, headers of two bytes.
SPECIFICATION Spec
CONSTANTS
  VMM_PAGE_SIZE = 23
  BLOCK_SIZE = 2
  MIN_ALLOC_SIZE = 1
  Sizes <- CallerSizes
  MaxFrames = 3
  NULL = NULL
INVARIANTS
  ListSound
  BlocksDisjoint
  LiveIntact
CHECK_DEADLOCK FALSE
