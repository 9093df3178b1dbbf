CONSTANTS
  Ann = Ann
  Bob = Bob
  NoUser = NoUser
  Absent = Absent
  AnyStep = AnyStep
  Users <- MCUsers
  Data <- MCData
  States <- MCStates
  Escalees <- MCEscalees
  Definitions <- InspectedDefinitions
  MaxMoves = 3
  MaxEscalations = 1
  MaxDelegations = 1

SPECIFICATION Spec

INVARIANTS
  FindingsRespected
  CompletionVerified
  PathsComplete
  DryRunFollows
  InspectionAgrees
  AnswersTruthful
  WorkListed

PROPERTIES
  EffectsAnswered

CHECK_DEADLOCK FALSE
