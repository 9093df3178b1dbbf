--------------------------- MODULE ApprovalEngine ---------------------------
(***************************************************************************)
(* One workflow execution and everything the approval engine keeps for it: *)
(* the execution row, its Approval slots, its delegations and the          *)
(* transitions it has executed.  An action is one call of the public API.  *)
(* Every call locks the execution row for its whole transaction, so a call *)
(* is one atomic step here; a call that raises rolls back and is simply    *)
(* not enabled.  What the row lock buys when calls overlap is the subject  *)
(* of ExecutionTransactions.                                               *)
(***************************************************************************)
EXTENDS Integers, Sequences, FiniteSets

CONSTANTS
  Definitions,     \* the definitions of one workflow: registered, and of versions
  States,          \* the state names those definitions use
  Users,           \* persisted, authenticated users
  Data,            \* what conditions and resolvers read of the business object
  Escalees,        \* the user sets an escalation approver may resolve to
  NoUser,          \* an anonymous actor (user=None)
  Absent,          \* current_state of an execution that is not started
  AnyStep,         \* a delegation whose step is "" covers every step
  MaxMoves,        \* bound: transitions an execution takes
  MaxEscalations,  \* bound: escalations of an execution
  MaxDelegations   \* bound: delegations of an execution

Actors == Users \cup {NoUser}

(***************************************************************************)
(* A transition fires on `name` from `source` when its `conditions` pass   *)
(* for the object's data, and raise for none, and the actor is in `may`    *)
(* (its permission).  A requirement resolves its approvers, one set of     *)
(* users per slot, against the object when the step is entered; for data   *)
(* that is not in `resolvable` it raises.                                  *)
(***************************************************************************)
Verdicts == {"pass", "block", "raise"}

Transition ==
  [name : STRING, source : States, target : States,
   conditions : [Data -> Verdicts], may : SUBSET Actors]

Modes == {"ALL", "ANY", "QUORUM"}

Requirement ==
  [mode : Modes, quorum : Nat, allow_self : BOOLEAN,
   approvers : [Data -> Seq(SUBSET Users)], resolvable : SUBSET Data]

Workflow ==
  [initial : States, transitions : SUBSET Transition,
   requirement : [States -> Requirement]]

ASSUME DefinitionsAssumption ==
  /\ Definitions \subseteq Workflow
  /\ \A w \in Definitions, s \in States :
       w.requirement[s].mode = "QUORUM" => w.requirement[s].quorum >= 1
ASSUME FiniteAssumption ==
  IsFiniteSet(States) /\ \A w \in Definitions : IsFiniteSet(w.transitions)
ASSUME NamesAssumption ==
  Absent \notin States /\ AnyStep \notin States /\ NoUser \notin Users
ASSUME EscaleesAssumption == Escalees \subseteq SUBSET Users
ASSUME BoundsAssumption ==
  MaxMoves \in Nat /\ MaxEscalations \in Nat /\ MaxDelegations \in Nat

VARIABLES
  definition,   \* the definition the execution is bound to
  current,      \* WorkflowExecution.current_state
  completed,    \* WorkflowExecution.completed_at is set
  initiator,    \* WorkflowExecution.initiated_by
  approvals,    \* the Approval rows, in primary-key order
  delegations,  \* the WorkflowDelegation rows, in primary-key order
  path,         \* the transition_executed audit rows, oldest first
  data          \* the business object

vars ==
  <<definition, current, completed, initiator, approvals, delegations, path,
    data>>

Statuses == {"PENDING", "APPROVED", "REJECTED", "CANCELLED"}
Decided == {"APPROVED", "REJECTED"}

(***************************************************************************)
(* `delegation` is 0 for a decision taken in the approver's own right.     *)
(* `visit` is history, read by no action: how many transitions had been    *)
(* executed when the slot was created, so that the slots of one stay in a  *)
(* step share it.                                                          *)
(***************************************************************************)
Approval ==
  [step : States, status : Statuses, mode : Modes, quorum : Nat,
   allow_self : BOOLEAN, who : SUBSET Users, order : Nat,
   approver : Actors, delegation : Nat, escalated : BOOLEAN, visit : Nat]

Delegation ==
  [granter : Users, grantee : Users, step : States \cup {AnyStep},
   active : BOOLEAN]

-----------------------------------------------------------------------------
(* The definition: Workflow.is_terminal and Workflow.resolve_transition.   *)

Terminal(s) == \A t \in definition.transitions : t.source # s

Judged(action, verdict) ==
  {t \in definition.transitions :
     t.source = current /\ t.name = action /\ t.conditions[data] = verdict}

Passing(action) == Judged(action, "pass")

\* Those whose conditions raise: a field that is missing, values that do not
\* compare.  Every candidate is evaluated, so one of them spoils the action.
Raising(action) == Judged(action, "raise")

\* No passing transition blocks the action, more than one is refused as
\* ambiguous: the set holds the transition to run, or nothing.
Resolved(action) ==
  {t \in Passing(action) : Passing(action) = {t} /\ Raising(action) = {}}

Started == current # Absent

\* Where the execution began.
Origin == IF path = <<>> THEN current ELSE path[1].source

\* Variant: a completed execution is not refused.
OpenUnchecked == Started

\* The guard of decide, delegate and escalate.
Open == Started /\ ~Terminal(current) /\ ~completed

-----------------------------------------------------------------------------
(* The Approval rows.                                                      *)

OfStep(rows, s) == {i \in DOMAIN rows : rows[i].step = s}

WithStatus(rows, s, statuses) ==
  {i \in OfStep(rows, s) : rows[i].status \in statuses}

Pending(s) == WithStatus(approvals, s, {"PENDING"})

\* i comes first in S by order_by("order", "id"), the id being the position.
IsFirst(rows, S, i) ==
  /\ i \in S
  /\ \A j \in S :
       \/ rows[i].order < rows[j].order
       \/ rows[i].order = rows[j].order /\ i <= j

ApproversAtEntry(s) ==
  LET resolved == definition.requirement[s].approvers[data]
  IN  IF resolved = <<>> THEN <<Users>> ELSE resolved

\* What resolve_approvers does not raise for: a terminal state asks nobody.
Enterable(s) == Terminal(s) \/ data \in definition.requirement[s].resolvable

\* _create_step_approvals: the slots guarding a step that is being entered.
Opened(s) ==
  LET rule == definition.requirement[s]
      slots == ApproversAtEntry(s)
  IN  [k \in 1..Len(slots) |->
         [step |-> s, status |-> "PENDING", mode |-> rule.mode,
          quorum |-> rule.quorum, allow_self |-> rule.allow_self,
          who |-> slots[k],
          order |-> k, approver |-> NoUser, delegation |-> 0,
          escalated |-> FALSE, visit |-> Len(path) + 1]]

\* Variant: the decided slots are taken for siblings too.
SiblingsAnyStatus(rows, s) == OfStep(rows, s)

Siblings(rows, s) == WithStatus(rows, s, {"PENDING"})

\* _cancel_siblings: what is still pending on the step is cancelled.
Cancelled(rows, s) ==
  [i \in DOMAIN rows |->
     IF i \in Siblings(rows, s)
     THEN [rows[i] EXCEPT !.status = "CANCELLED"]
     ELSE rows[i]]

-----------------------------------------------------------------------------
(* Who may decide.                                                         *)

\* Variant: the check on earlier decisions is dropped.
NeverDecided(u, s) == FALSE

HasDecided(u, s) ==
  \E i \in WithStatus(approvals, s, Decided) : approvals[i].approver = u

\* Variant: the granter is not matched against the slot.
DelegationsUnmatched(u, i) ==
  {d \in DOMAIN delegations :
     /\ delegations[d].active
     /\ delegations[d].grantee = u
     /\ delegations[d].step \in {AnyStep, approvals[i].step}}

\* _delegation_for: active delegations that let u fill slot i.
DelegationsFor(u, i) ==
  {d \in DOMAIN delegations :
     /\ delegations[d].active
     /\ delegations[d].grantee = u
     /\ delegations[d].step \in {AnyStep, approvals[i].step}
     /\ delegations[d].granter \in approvals[i].who}

\* _candidate_slot picks slot i for u, directly (d = 0) or through its
\* newest delegation d; a directly assigned slot comes first.
Candidate(u, i, d) ==
  LET direct == {j \in Pending(current) : u \in approvals[j].who}
      granted == {j \in Pending(current) : DelegationsFor(u, j) # {}}
  IN  /\ ~HasDecided(u, current)
      /\ \/ IsFirst(approvals, direct, i) /\ d = 0
         \/ /\ direct = {} /\ IsFirst(approvals, granted, i)
            /\ d \in DelegationsFor(u, i)
            /\ \A e \in DelegationsFor(u, i) : e <= d

\* A decision carries the rights of the delegation's granter, never those
\* of the grantee.
Authority(u, d) == IF d = 0 THEN u ELSE delegations[d].granter

\* Variant: allow_self is ignored.
SelfAlwaysAllowed(slot, authority) == TRUE

SelfApprovalAllowed(slot, authority) ==
  slot.allow_self \/ initiator = NoUser \/ authority # initiator

-----------------------------------------------------------------------------
(* _step_outcome: the mode and the quorum are those of the step's first    *)
(* row, and the votes counted are those of every row the step ever had.    *)

Lead(rows, s) == rows[CHOOSE i \in DOMAIN rows : IsFirst(rows, OfStep(rows, s), i)]

\* Variant: a rejection does not veto.
NeverVetoed(rows, s) == FALSE

Vetoed(rows, s) == WithStatus(rows, s, {"REJECTED"}) # {}

\* Variant: off by one.
QuorumAlmostMet(rows, s) ==
  Cardinality(WithStatus(rows, s, {"APPROVED"})) + 1 >= Lead(rows, s).quorum

QuorumMet(rows, s) ==
  Cardinality(WithStatus(rows, s, {"APPROVED"})) >= Lead(rows, s).quorum

\* Variant: nobody notices that the last slot was decided.
NeverExhausted(rows, s) == FALSE

Exhausted(rows, s) == WithStatus(rows, s, {"PENDING"}) = {}

StepOutcome(rows, s, latest) ==
  CASE Lead(rows, s).mode = "ANY" ->
         IF rows[latest].status = "APPROVED" THEN "advance" ELSE "reject"
    [] Lead(rows, s).mode = "ALL" ->
         IF Vetoed(rows, s) THEN "reject"
         ELSE IF Exhausted(rows, s) THEN "advance" ELSE "partial"
    [] OTHER ->
         IF Vetoed(rows, s) THEN "reject"
         ELSE IF QuorumMet(rows, s) THEN "advance"
         ELSE IF Exhausted(rows, s) THEN "reject" ELSE "partial"

-----------------------------------------------------------------------------
(* Operations.                                                             *)

\* start_execution: in the initial state of the caller's workflow, which may
\* be another definition than that of the version it binds.  It gets no
\* approval.
Start(u) ==
  /\ ~Started
  /\ \E caller \in Definitions : current' = caller.initial
  /\ initiator' = u
  /\ UNCHANGED <<definition, completed, approvals, delegations, path, data>>

\* Variant: completed_at is not set on the way into a terminal state.
NeverSeals(t) == completed

Seals(t) == completed \/ Terminal(t.target)

\* apply_transition: `rows` are the approvals as the caller leaves them.
ApplyTransition(t, rows) ==
  /\ Len(path) < MaxMoves
  /\ Enterable(t.target)
  /\ current' = t.target
  /\ completed' = Seals(t)
  /\ path' = Append(path, t)
  /\ approvals' = IF Terminal(t.target) THEN rows ELSE rows \o Opened(t.target)

\* execute_transition: the actor's action, without regard to the step's slots.
Execute(u, action) ==
  /\ Started /\ ~Terminal(current)
  /\ \E t \in Resolved(action) :
       /\ u \in t.may
       /\ ApplyTransition(t, approvals)
  /\ UNCHANGED <<definition, initiator, delegations, data>>

\* Variant: approver and delegation are swapped.
VotedSwapped(u, i, d, status) ==
  [approvals EXCEPT ![i] = [@ EXCEPT !.status = status,
                                     !.approver = d,
                                     !.delegation = u]]

\* The rows once slot i carries u's vote.
Voted(u, i, d, status) ==
  [approvals EXCEPT ![i] = [@ EXCEPT !.status = status,
                                     !.approver = u,
                                     !.delegation = d]]

\* A vote that settles the step runs the step's own transition.
Settle(outcome, authority, rows) ==
  \E t \in Resolved(IF outcome = "advance" THEN "approve" ELSE "reject") :
    /\ authority \in t.may
    /\ ApplyTransition(t, Cancelled(rows, current))

Decide(u, action, status) ==
  /\ Open
  /\ \E t \in Resolved(action), i \in DOMAIN approvals,
        d \in 0..Len(delegations) :
       /\ Candidate(u, i, d)
       /\ Authority(u, d) \in t.may
       /\ SelfApprovalAllowed(approvals[i], Authority(u, d))
       /\ LET rows == Voted(u, i, d, status)
              outcome == StepOutcome(rows, current, i)
          IN  \/ /\ outcome = "partial"
                 /\ approvals' = rows
                 /\ UNCHANGED <<current, completed, path>>
              \/ /\ outcome # "partial"
                 /\ Settle(outcome, Authority(u, d), rows)
  /\ UNCHANGED <<definition, initiator, delegations, data>>

Approve(u) == Decide(u, "approve", "APPROVED")
Reject(u) == Decide(u, "reject", "REJECTED")

\* delegate_approval: the granter must match a slot pending on the scope.
Delegate(granter, grantee, step) ==
  /\ Open
  /\ Len(delegations) < MaxDelegations
  /\ \E i \in Pending(IF step = AnyStep THEN current ELSE step) :
       granter \in approvals[i].who
  /\ delegations' = Append(delegations,
       [granter |-> granter, grantee |-> grantee, step |-> step,
        active |-> TRUE])
  /\ UNCHANGED <<definition, current, completed, initiator, approvals, path,
                 data>>

\* A delegation is revoked, or its expires_at passes.
Lapse(d) ==
  /\ delegations[d].active
  /\ delegations' = [delegations EXCEPT ![d] = [@ EXCEPT !.active = FALSE]]
  /\ UNCHANGED <<definition, current, completed, initiator, approvals, path,
                 data>>

Escalations == Cardinality({i \in DOMAIN approvals : approvals[i].escalated})

\* escalate_execution: one any-of slot replaces what was pending.
Escalate(u, who) ==
  /\ Open
  /\ Escalations < MaxEscalations
  /\ \E t \in Resolved("approve") : u \in t.may
  /\ Pending(current) # {}
  /\ approvals' = Append(Cancelled(approvals, current),
       [step |-> current, status |-> "PENDING", mode |-> "ANY", quorum |-> 1,
        allow_self |-> TRUE, who |-> who,
        order |-> Cardinality(OfStep(approvals, current)) + 1,
        approver |-> NoUser, delegation |-> 0, escalated |-> TRUE,
        visit |-> Len(path)])
  /\ UNCHANGED <<definition, current, completed, initiator, delegations, path,
                 data>>

\* The application edits the business object between calls.
EditObject(value) ==
  /\ value # data
  /\ data' = value
  /\ UNCHANGED <<definition, current, completed, initiator, approvals,
                 delegations, path>>

-----------------------------------------------------------------------------
Init ==
  /\ definition \in Definitions
  /\ data \in Data
  /\ current = Absent
  /\ completed = FALSE
  /\ initiator = NoUser
  /\ approvals = <<>>
  /\ delegations = <<>>
  /\ path = <<>>

Actions == {t.name : t \in definition.transitions}

Next ==
  \/ \E u \in Actors : Start(u)
  \/ \E u \in Actors, action \in Actions : Execute(u, action)
  \/ \E u \in Users : Approve(u)
  \/ \E u \in Users : Reject(u)
  \/ \E granter, grantee \in Users, step \in States \cup {AnyStep} :
       Delegate(granter, grantee, step)
  \/ \E d \in DOMAIN delegations : Lapse(d)
  \/ \E u \in Actors, who \in Escalees : Escalate(u, who)
  \/ \E value \in Data : EditObject(value)

Spec == Init /\ [][Next]_vars

-----------------------------------------------------------------------------
(* Invariants.                                                             *)

(* Every row holds values the models allow.                                *)
TypeOK ==
  /\ definition \in Definitions
  /\ current \in States \cup {Absent}
  /\ completed \in BOOLEAN
  /\ initiator \in Actors
  /\ approvals \in Seq(Approval)
  /\ delegations \in Seq(Delegation)
  /\ path \in Seq(Transition)
  /\ data \in Data

Entered == path # <<>>

(* An execution that entered a step and is not completed always has a slot *)
(* pending on that step: whatever was voted, cancelled or escalated before *)
(* (in this or an earlier stay), somebody can still be asked to decide.    *)
StepGuarded == Entered /\ ~completed => Pending(current) # {}

(* Nobody decides two slots of one step, in their own right or through     *)
(* delegations, however often the step is entered or escalated.            *)
OneVotePerUser ==
  \A s \in States : \A i, j \in WithStatus(approvals, s, Decided) :
    approvals[i].approver = approvals[j].approver => i = j

(* Whoever's right a decision used was assigned the slot, and was not the  *)
(* initiator of an execution whose step forbids self-approval; a decision  *)
(* by proxy names a delegation from that person that covers the step.      *)
DecisionsBacked ==
  \A i \in DOMAIN approvals : approvals[i].status \in Decided =>
    LET slot == approvals[i]
        holder == Authority(slot.approver, slot.delegation)
    IN  /\ holder \in slot.who
        /\ ~slot.allow_self => holder # initiator
        /\ slot.delegation # 0 =>
             /\ slot.delegation \in DOMAIN delegations
             /\ delegations[slot.delegation].grantee = slot.approver
             /\ delegations[slot.delegation].step \in {AnyStep, slot.step}

\* The step is in its first stay and was not escalated: its rows are
\* exactly the slots its requirement opened.
Pristine ==
  \A i \in OfStep(approvals, current) :
    approvals[i].visit = Len(path) /\ ~approvals[i].escalated

(* A step that still waits carries no vote that should have settled it:    *)
(* no rejection at all, no decision in any-of mode, fewer approvals than   *)
(* the quorum in quorum mode.                                              *)
WaitingBallot ==
  Entered /\ ~completed /\ Pristine =>
    LET rule == definition.requirement[current]
        approved == WithStatus(approvals, current, {"APPROVED"})
    IN  /\ WithStatus(approvals, current, {"REJECTED", "CANCELLED"}) = {}
        /\ rule.mode = "ANY" => approved = {}
        /\ rule.mode = "QUORUM" => Cardinality(approved) < rule.quorum

-----------------------------------------------------------------------------
(* Action properties.                                                      *)

(* A decided or cancelled slot never changes again, no slot disappears,    *)
(* and a vote changes nothing of whom the slot was assigned to.            *)
DecisionsFinal ==
  [][\A i \in DOMAIN approvals :
       /\ i \in DOMAIN approvals'
       /\ approvals[i].status # "PENDING" => approvals'[i] = approvals[i]
       /\ approvals'[i].who = approvals[i].who
       /\ approvals'[i].step = approvals[i].step]_vars

(* Once completed, an execution takes no transition, no vote, no           *)
(* escalation and no delegation, even where slots were left pending.       *)
CompletedIsFinal ==
  [][completed =>
       /\ UNCHANGED <<current, completed, path, approvals>>
       /\ Len(delegations') = Len(delegations)]_vars

VoteCast ==
  \E i \in OfStep(approvals, current) :
    approvals[i].status = "PENDING" /\ approvals'[i].status \in Decided

LeftBy(action) == path' # path /\ path'[Len(path')].name = action

\* The votes a step leaves with are what its requirement asks for.
LeftByRule ==
  LET rule == definition.requirement[current]
      ballot == OfStep(approvals, current)
      approved == {i \in ballot : approvals'[i].status = "APPROVED"}
      rejected == {i \in ballot : approvals'[i].status = "REJECTED"}
  IN  /\ LeftBy("approve") =>
           /\ rejected = {}
           /\ rule.mode = "ALL" => approved = ballot
           /\ rule.mode = "ANY" => Cardinality(approved) = 1
           /\ rule.mode = "QUORUM" => Cardinality(approved) >= rule.quorum
      /\ LeftBy("reject") =>
           \/ rejected # {}
           \/ rule.mode = "QUORUM" /\ Cardinality(ballot) < rule.quorum

(* A vote moves a pristine step on only when its requirement is met: every *)
(* slot approved (ALL), one approval (ANY), a quorum of approvals          *)
(* (QUORUM), none of them against a rejection; and moves it to rejection   *)
(* only on a rejection, or when the slots run out below the quorum.        *)
BallotHonoured == [][VoteCast /\ Pristine => LeftByRule]_vars

-----------------------------------------------------------------------------
(* What the documentation says beyond this; the violation runs of          *)
(* ApprovalEngineMC show where the code does something else.               *)

(* docs/approvals.md: an escalated slot is one that the escalation         *)
(* approver alone decides, so their approval moves the step on.            *)
EscalationDecides ==
  [][\A i \in OfStep(approvals, current) :
       /\ approvals[i].escalated
       /\ approvals[i].status = "PENDING"
       /\ approvals'[i].status = "APPROVED"
       => LeftBy("approve")]_vars

(* docs/approvals.md: ALL rejects on a rejection.  When every slot of the  *)
(* present stay approved, the step is not left by its reject transition.   *)
UnanimousStayAdvances ==
  [][VoteCast /\ definition.requirement[current].mode = "ALL"
     /\ (\A i \in OfStep(approvals, current) :
            approvals[i].visit = Len(path) => approvals'[i].status = "APPROVED")
     => ~LeftBy("reject")]_vars

-----------------------------------------------------------------------------
Lifecycle == INSTANCE ExecutionLifecycle
  WITH stage <- current, sealed <- completed, trail <- path

(* The engine implements the lifecycle: votes, escalations, delegations    *)
(* and edits of the object are stutters of it.                             *)
ImplementsLifecycle == Lifecycle!Spec
=============================================================================
