\* Tables of 4 entries; 32 frames mapped to themselves by 8 tables; stacks in
\* tables 8 and 9, the idle stack in table 10, windows from table 11 on, which
\* shares its flag with table 9; the flag of table 12 is not cleaned.
SPECIFICATION Spec
CONSTANTS
  ENTRIES_PER_TABLE = 4
  VMM_TOTAL_PTS = 12
  ONE_GB_OF_PAGES = 32
  VMM_PAGE_SIZE = 10
  WORD = 4
  INT = 2
  FirstFrame = 1
  LastFrame = 31
  MaxPages = 6
  Pids = {1}
  PAGES_PER_THREAD = 2
  Spawns = 1
  STACK_PAGES = 6
  PROC_BASE_STACK = 40
  MMAP_BASE = 44
  NULL = NULL
  Self = 1
  BLOCK_SIZE = 2
  MIN_ALLOC_SIZE = 1
  Sizes <- CallerSizes
INVARIANTS
  TypeOK
  FramesApart
  SearchEnds
  WindowsTiled
  LiveMapped
PROPERTY
  MappingStable
CHECK_DEADLOCK FALSE
