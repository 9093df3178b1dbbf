CONSTANTS
  NoRow = NoRow
  Refused = Refused
  Nobody = Nobody
  Starters <- MCStarters
  Requests <- MCRequests
  Rows <- MCRows
  Operation <- MCOperation
  Emits <- MCEmits
  MaxCrashes = 1

SPECIFICATION Spec
CHECK_DEADLOCK FALSE

INVARIANTS
  TrailChained
  DeliveredCommitted
  AnswerAccounts

PROPERTIES
  Answered
  ImplementsAtomic
