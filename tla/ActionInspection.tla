-------------------------- MODULE ActionInspection --------------------------
(***************************************************************************)
(* What users are told they can do, beside what the engine lets them do:   *)
(* the queries of Workflow, the explanations, the answers of the REST      *)
(* endpoints and the work lists of the dashboard, each computed on its own *)
(* from the state of ApprovalEngine.                                       *)
(***************************************************************************)
EXTENDS ApprovalEngine

Candidates(action) ==
  {t \in definition.transitions : t.source = current /\ t.name = action}

ActionsFrom == {t.name : t \in {v \in definition.transitions : v.source = current}}

-----------------------------------------------------------------------------
(* Workflow.available_actions and Workflow.can_transition.                 *)

\* Variant: the actor is held against any passing candidate.
AvailableToAny(u) ==
  {action \in ActionsFrom : \E t \in Passing(action) : u \in t.may}

\* The actions listed: none if the list raises, which a transition of any
\* action makes it do.
AvailableActions(u) ==
  {action \in ActionsFrom :
     /\ \A other \in ActionsFrom : Raising(other) = {}
     /\ Cardinality(Passing(action)) = 1
     /\ \E t \in Passing(action) : u \in t.may}

\* It returns True: no candidate's conditions raise.
CanTransition(u, action) ==
  /\ ~Terminal(current)
  /\ Candidates(action) # {}
  /\ Raising(action) = {}
  /\ Cardinality(Passing(action)) = 1
  /\ \A t \in Passing(action) : u \in t.may

-----------------------------------------------------------------------------
(* explain: a candidate is tested for the actor first, then for the data,  *)
(* so that it raises only for conditions of those the actor is allowed.    *)

StructureReasons(action) ==
  (IF Terminal(current) THEN {"terminal"} ELSE {})
  \cup (IF Candidates(action) = {} THEN {"no_action"} ELSE {})

Satisfying(u, action) ==
  {t \in Passing(action) : u \in t.may}

BlockReasons(u, action) ==
  {IF u \notin t.may THEN "permission" ELSE "condition" :
     t \in Candidates(action) \ Satisfying(u, action)}

Explanation(u, action) ==
  LET structural == StructureReasons(action)
      satisfying == Satisfying(u, action)
  IN  IF structural # {} THEN [applicable |-> FALSE, reasons |-> structural]
      ELSE IF \E t \in Raising(action) : u \in t.may
      THEN [applicable |-> FALSE, reasons |-> {"ConditionEvaluationError"}]
      ELSE IF Cardinality(satisfying) > 1
      THEN [applicable |-> FALSE,
            reasons |-> BlockReasons(u, action) \cup {"ambiguous"}]
      ELSE IF satisfying # {} THEN [applicable |-> TRUE, reasons |-> {}]
      ELSE [applicable |-> FALSE, reasons |-> BlockReasons(u, action)]

-----------------------------------------------------------------------------
(* The REST endpoint `transition`: approve and reject go to the approval   *)
(* engine, any other action to execute_transition; the first exception     *)
(* raised there is what the client is told.                                *)

Votes == {"approve", "reject"}

\* Workflow.resolve_transition; what conditions raise goes through it.
ResolutionError(action) ==
  IF Candidates(action) = {} THEN "InvalidTransitionError"
  ELSE IF Raising(action) # {} THEN "ConditionEvaluationError"
  ELSE IF Passing(action) = {} THEN "ConditionFailedError"
  ELSE IF Resolved(action) = {} THEN "WorkflowConfigurationError"
  ELSE "none"

\* resolve_transition, then is_authorized, for whoever answers for the action.
TransitionError(u, action) ==
  IF ResolutionError(action) # "none" THEN ResolutionError(action)
  ELSE IF \A t \in Resolved(action) : u \notin t.may THEN "PermissionDeniedError"
  ELSE "none"

\* The transition that the action resolves to leads to a step whose approvers
\* cannot be resolved.
EntryFails(action) == \E t \in Resolved(action) : ~Enterable(t.target)

\* The same, then apply_transition.
RunError(u, action) ==
  IF TransitionError(u, action) # "none" THEN TransitionError(u, action)
  ELSE IF EntryFails(action) THEN "WorkflowConfigurationError"
  ELSE "none"

ExecuteError(u, action) ==
  IF Terminal(current) THEN "WorkflowAlreadyCompletedError"
  ELSE RunError(u, action)

\* The slot that u would decide, with the delegation that allows it.
Ballots(u) ==
  {b \in [slot : DOMAIN approvals, delegation : 0..Len(delegations)] :
     Candidate(u, b.slot, b.delegation)}

\* What a settled step runs into; the vote is rolled back with it.
SettlementError(u, b, status) ==
  LET rows == Voted(u, b.slot, b.delegation, status)
      outcome == StepOutcome(rows, current, b.slot)
  IN  CASE outcome = "partial" -> "none"
        [] outcome = "advance" ->
             RunError(Authority(u, b.delegation), "approve")
        [] OTHER -> RunError(Authority(u, b.delegation), "reject")

\* Variant: a proxy votes with rights of their own.
BallotErrorOfVoter(u, b, action) ==
  IF TransitionError(u, action) # "none"
     \/ ~SelfApprovalAllowed(approvals[b.slot], Authority(u, b.delegation))
  THEN "PermissionDeniedError"
  ELSE SettlementError(u, b, IF action = "approve" THEN "APPROVED" ELSE "REJECTED")

BallotError(u, b, action) ==
  IF TransitionError(Authority(u, b.delegation), action) # "none"
     \/ ~SelfApprovalAllowed(approvals[b.slot], Authority(u, b.delegation))
  THEN "PermissionDeniedError"
  ELSE SettlementError(u, b, IF action = "approve" THEN "APPROVED" ELSE "REJECTED")

\* Variant: a user who has decided the step, or has no slot, is let through.
VoteErrorUnchecked(u, action) ==
  IF ~Open THEN "WorkflowAlreadyCompletedError"
  ELSE IF ResolutionError(action) # "none" THEN ResolutionError(action)
  ELSE IF Ballots(u) = {} THEN "none"
  ELSE BallotError(u, CHOOSE b \in Ballots(u) : TRUE, action)

VoteError(u, action) ==
  IF ~Open THEN "WorkflowAlreadyCompletedError"
  ELSE IF ResolutionError(action) # "none" THEN ResolutionError(action)
  ELSE IF Ballots(u) = {} THEN "ApprovalNotPendingError"
  ELSE BallotError(u, CHOOSE b \in Ballots(u) : TRUE, action)

StatusOf(error) ==
  CASE error = "none" -> 200
    [] error = "PermissionDeniedError" -> 403
    [] error = "ConditionFailedError" -> 422
    [] error \in {"InvalidTransitionError", "WorkflowAlreadyCompletedError",
                  "ApprovalNotPendingError"} -> 409
    [] OTHER -> 500

Answer(u, action) ==
  StatusOf(IF action \in Votes THEN VoteError(u, action) ELSE ExecuteError(u, action))

-----------------------------------------------------------------------------
(* The dashboard's My Work page.                                           *)

\* Variant: slots that anybody may fill are on nobody's list.
PendingNamed(u) ==
  {i \in DOMAIN approvals :
     /\ approvals[i].status = "PENDING"
     /\ u \in approvals[i].who /\ approvals[i].who # Users}

\* _pending_approvals_for: by assignment alone, of every execution and step.
PendingApprovalsFor(u) ==
  {i \in DOMAIN approvals :
     approvals[i].status = "PENDING" /\ u \in approvals[i].who}

DelegatedTo(u) ==
  {d \in DOMAIN delegations : delegations[d].active /\ delegations[d].grantee = u}

-----------------------------------------------------------------------------
(* Invariants.                                                             *)

(* The three answers to "may this user do this now" are one: the actions   *)
(* listed, the actions that can_transition affirms and the actions that    *)
(* execute_transition would run, but for two errors.  A condition of some  *)
(* other action that cannot be evaluated takes the whole list with it; and *)
(* only running the action tells that the next step's approvers cannot be  *)
(* resolved.  An explanation never denies what can_transition affirms; it  *)
(* may only call applicable, besides, what the engine finds ambiguous, or  *)
(* cannot evaluate for a transition that the actor is not allowed.         *)
InspectionAgrees ==
  Started => \A u \in Actors, action \in Actions :
    /\ ExecuteError(u, action) = "none" <=>
         CanTransition(u, action) /\ ~EntryFails(action)
    /\ action \in AvailableActions(u) <=>
         CanTransition(u, action) /\ \A other \in ActionsFrom : Raising(other) = {}
    /\ CanTransition(u, action) => Explanation(u, action).applicable
    /\ Explanation(u, action).applicable /\ ~CanTransition(u, action) =>
         ExecuteError(u, action) \in
           {"WorkflowConfigurationError", "ConditionEvaluationError"}

\* What is wrong with the definition, or with the data it meets.
Misconfigured(action) ==
  \/ Cardinality(Passing(action)) > 1
  \/ Raising(action) # {}
  \/ EntryFails(action)

(* A client is told of a server error only where the definition routes     *)
(* ambiguously, a condition cannot be evaluated, or the step that would be *)
(* entered finds no approvers to resolve, be it by the client's action or  *)
(* by the transition that the vote would have triggered.  Every other      *)
(* refusal has an answer of its own.                                       *)
ServerErrorsExplained ==
  Started => \A u \in Users, action \in Actions :
    Answer(u, action) = 500 => \E routed \in Votes \cup {action} : Misconfigured(routed)

(* A client is told of success exactly when the call takes effect, and of  *)
(* a server error only where definition and data do not fit.               *)
AnswersTruthful ==
  /\ ServerErrorsExplained
  /\ Started /\ Len(path) < MaxMoves => \A u \in Users, action \in Actions :
       Answer(u, action) = 200 <=>
         CASE action = "approve" -> ENABLED Approve(u)
           [] action = "reject" -> ENABLED Reject(u)
           [] OTHER -> ENABLED Execute(u, action)

(* Whoever could vote now finds the work on their page: a slot of the      *)
(* current step, or the delegation that lets them fill one.                *)
WorkListed ==
  Started => \A u \in Users, action \in Votes :
    VoteError(u, action) = "none" =>
      \/ PendingApprovalsFor(u) \cap OfStep(approvals, current) # {}
      \/ \E d \in DelegatedTo(u) : delegations[d].step \in {AnyStep, current}

-----------------------------------------------------------------------------
(* An action property.                                                     *)

(* Whatever a user does takes effect only in a state in which the endpoint *)
(* answers that user with success, in one's own right or by proxy.         *)
EffectsAnswered ==
  [][\A u \in Users :
       /\ Approve(u) => Answer(u, "approve") = 200
       /\ Reject(u) => Answer(u, "reject") = 200
       /\ \A action \in Actions \ Votes :
            Execute(u, action) => Answer(u, action) = 200]_vars
=============================================================================
