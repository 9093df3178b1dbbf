CONSTANTS
  Threads = {t1, t2}
  MaxEvents = 3
  MaxLists = 4

SPECIFICATION Spec
CHECK_DEADLOCK FALSE

INVARIANTS
  RolledBackSilent
