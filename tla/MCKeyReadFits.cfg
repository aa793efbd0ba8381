SPECIFICATION Spec
CONSTANTS
  KEY_BUFFER_SIZE = 4
  KEY_UNKNOWN = unknown
  Keys = {a, unknown}
  Holds <- NoHolds
  HoldOf <- NoHoldOf
  Locks = {}
INVARIANTS
  ReadFits
