\* Lines of 6 characters, room for 3 arguments; a read takes up to 2 keys; an
\* unwritten character is 0, a letter or a newline; an int has 7 bits.
SPECIFICATION Spec
CONSTANTS
  Keys <- MCKeys
  Burst = 2
  Garbage = {0, 10, 97}
  SCANF_MAX_STR_BUFFER = 3
  MAX_DIGITS = 2
  SHELL_BUFFER_SIZE = 8
  MAX_ARGS = 3
  cmd_table <- MCTable
  INT_MAX = 63
  Self = 2
INVARIANTS
  TypeOK
  BufferClean
  PushbackStays
PROPERTY
  ImplementsCommandLine
CHECK_DEADLOCK FALSE
