CONSTANTS
  Ann = Ann
  Bob = Bob
  Cyd = Cyd
  NoUser = NoUser
  Absent = Absent
  AnyStep = AnyStep
  Users <- MCUsers
  Data <- MCData
  States <- MCStates
  Escalees <- MCEscalees
  Definitions <- MCDefinitions
  MaxMoves = 4
  MaxEscalations = 1
  MaxDelegations = 1

SPECIFICATION Spec

INVARIANTS
  TypeOK
  StepGuarded
  OneVotePerUser
  DecisionsBacked
  WaitingBallot

PROPERTIES
  DecisionsFinal
  CompletedIsFinal
  BallotHonoured
  ImplementsLifecycle
