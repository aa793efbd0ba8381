\* Two rows of three columns with a tab stop inside the row: text wraps, scrolls
\* and is overwritten, and the cursor rests past the last cell.
SPECIFICATION Spec
CONSTANTS
  ROWS = 2
  COLS = 3
  TAB_SIZE = 2
  x = x
  y = y
  Text <- MCText
  Blank = Blank
  Input <- MCInput
  Moves <- MCMoves
  IdleMsg <- MCIdleMsg
  HaltMsg <- MCHaltMsg
  NULL = NULL
INVARIANTS
  TypeOK
  StoresInside
  ScreenSound
PROPERTIES
  ImplementsGrid
  TornScreenHeals
CHECK_DEADLOCK FALSE
