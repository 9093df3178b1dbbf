CONSTANTS
  Ann = Ann
  Bob = Bob
  NoUser = NoUser
  Absent = Absent
  AnyStep = AnyStep
  AnyState = AnyState
  Never = Never
  Sla <- MCSla
  Horizon = 2
  MaxSize = 1
  Allowed = {"pdf"}
  Uploads <- MCUploads
  MaxNotes = 1
  MaxLag = 1
  Users <- MCUsers
  Data <- MCData
  States <- MCStates
  Escalees <- MCEscalees
  Definitions <- ReportedDefinitions
  MaxMoves = 3
  MaxEscalations = 1
  MaxDelegations = 1

SPECIFICATION AuditedSpec

INVARIANTS
  TrailAccounts
  SpansConserve
  OutcomesPartition
  ReportsAgree
  StatisticsSound

PROPERTIES
  CountersNeverFall

CONSTRAINT Focus

CHECK_DEADLOCK FALSE
