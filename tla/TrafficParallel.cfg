SPECIFICATION Spec
CONSTANTS
  N = 4
  Workers = 2
INVARIANTS
  NoSendOnClosed
  EveryClassOnce
PROPERTIES
  NoGoroutineLeak
  ImplementsSum
