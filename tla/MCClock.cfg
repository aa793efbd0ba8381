\* Every mode of the chip, two commands, three ticks.
SPECIFICATION Spec
CONSTANTS
  Modes <- AllModes
  Starts <- CarryTimes
  Args <- Arguments
  MaxTicks = 3
  MaxCalls = 2
INVARIANTS
  TypeOK
  ReadNotBehind
  SetNotAhead
CHECK_DEADLOCK FALSE
