CONSTANTS
  Threads = {t1}
  MaxEvents = 4
  MaxLists = 4

SPECIFICATION Spec
CHECK_DEADLOCK FALSE

INVARIANTS
  RolledBackSilent
  DeliveredInOrder
  CollectorIsInnermost

PROPERTIES
  OutermostDelivered
