SPECIFICATION PmmSpec
CONSTANTS
  PMM_TOTAL_BLOCKS = 12
  PMM_BLOCK_SIZE = 4
  _reserved_pages = 5
  WORD = 4
  INT = 2
  BYTE = 1
INVARIANTS
  PmmTypeOK
  FreeListSound
  FramesConserved
