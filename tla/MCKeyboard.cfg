\* A buffer of four entries, two keys of which one is KEY_UNKNOWN, and both
\* shift keys: the indices wrap around, the buffer fills up, reads stop half
\* way, and the modifier is set and cleared by either key.
SPECIFICATION Spec
CONSTANTS
  KEY_BUFFER_SIZE = 4
  KEY_UNKNOWN = unknown
  Keys = {a, unknown}
  Holds <- ShiftKeys
  HoldOf <- ShiftOf
  Locks = {caps}
INVARIANTS
  TypeOK
  HoldNeverSticks
PROPERTIES
  ImplementsKeyQueue
  EveryKeyRead
  SilenceReturns
