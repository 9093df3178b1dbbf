----------------------- MODULE ApprovalEngine_proofs -----------------------
(***************************************************************************)
(* Theorems about ApprovalEngine, for every set of definitions, users and  *)
(* bounds.                                                                 *)
(***************************************************************************)
EXTENDS ApprovalEngine, Listing_proofs

-----------------------------------------------------------------------------
(* What the operations do to the rows of Approval.                         *)

(* _cancel_siblings keeps every row and changes only pending ones of the   *)
(* step, and of those only the status.                                     *)
LEMMA CancelledRows ==
  ASSUME NEW rows \in Seq(Approval), NEW s
  PROVE  /\ Cancelled(rows, s) \in Seq(Approval)
         /\ Len(Cancelled(rows, s)) = Len(rows)
         /\ \A j \in 1..Len(rows) :
              Cancelled(rows, s)[j] =
                IF rows[j].step = s /\ rows[j].status = "PENDING"
                THEN [rows[j] EXCEPT !.status = "CANCELLED"] ELSE rows[j]
<1> DEFINE row(j) == IF j \in Siblings(rows, s)
                     THEN [rows[j] EXCEPT !.status = "CANCELLED"]
                     ELSE rows[j]
<1>1. DOMAIN rows = 1..Len(rows) /\ Len(rows) \in Nat
  BY LenProperties
<1>2. \A j \in 1..Len(rows) : rows[j] \in Approval
  BY ElementOfSeq
<1>3. \A j \in 1..Len(rows) : row(j) \in Approval
  BY <1>2 DEF Approval, Statuses
<1>4. Cancelled(rows, s) = [j \in 1..Len(rows) |-> row(j)]
  BY <1>1 DEF Cancelled
<1>5. Cancelled(rows, s) \in [1..Len(rows) -> Approval]
  BY <1>3, <1>4
<1>6. Cancelled(rows, s) \in Seq(Approval) /\ Len(Cancelled(rows, s)) = Len(rows)
  BY <1>1, <1>5
<1>7. ASSUME NEW j \in 1..Len(rows)
      PROVE  Cancelled(rows, s)[j] =
               IF rows[j].step = s /\ rows[j].status = "PENDING"
               THEN [rows[j] EXCEPT !.status = "CANCELLED"] ELSE rows[j]
  BY <1>1, <1>4 DEF Siblings, WithStatus, OfStep
<1> QED BY <1>6, <1>7

(* A slot as the requirement of step s opens it.                           *)
OpenedAs(row, s) ==
  /\ row.step = s /\ row.status = "PENDING" /\ ~row.escalated
  /\ row.mode = definition.requirement[s].mode
  /\ row.quorum = definition.requirement[s].quorum
  /\ row.visit = Len(path) + 1

(* Entering a step opens at least one slot, as the requirement says.       *)
LEMMA OpenedRows ==
  ASSUME TypeOK, NEW s \in States
  PROVE  /\ Opened(s) \in Seq(Approval)
         /\ Len(Opened(s)) >= 1
         /\ \A k \in 1..Len(Opened(s)) : OpenedAs(Opened(s)[k], s)
<1> DEFINE slots == ApproversAtEntry(s)
           rule == definition.requirement[s]
           row(k) == [step |-> s, status |-> "PENDING", mode |-> rule.mode,
                      quorum |-> rule.quorum, allow_self |-> rule.allow_self,
                      who |-> slots[k], order |-> k, approver |-> NoUser,
                      delegation |-> 0, escalated |-> FALSE,
                      visit |-> Len(path) + 1]
<1>1. rule \in Requirement
  BY DefinitionsAssumption DEF TypeOK, Workflow
<1>2. rule.approvers[data] \in Seq(SUBSET Users)
  BY <1>1 DEF TypeOK, Requirement
<1>3. slots \in Seq(SUBSET Users) /\ slots # <<>>
  <2>1. <<Users>> \in Seq(SUBSET Users) /\ <<Users>> # <<>>
    OBVIOUS
  <2> QED BY <1>2, <2>1 DEF ApproversAtEntry
<1>4. Len(slots) \in Nat \ {0}
  BY <1>3, EmptySeq
<1>5. \A k \in 1..Len(slots) : slots[k] \in SUBSET Users
  BY <1>3, ElementOfSeq
<1>6. Len(path) \in Nat
  BY DEF TypeOK
<1>7. \A k \in 1..Len(slots) : row(k) \in Approval
  <2> SUFFICES ASSUME NEW k \in 1..Len(slots) PROVE row(k) \in Approval
    OBVIOUS
  <2>1. /\ rule.mode \in Modes /\ rule.quorum \in Nat
        /\ rule.allow_self \in BOOLEAN
    BY <1>1 DEF Requirement
  <2>2. /\ "PENDING" \in Statuses /\ NoUser \in Actors /\ k \in Nat /\ 0 \in Nat
        /\ Len(path) + 1 \in Nat /\ slots[k] \in SUBSET Users
    BY <1>4, <1>5, <1>6 DEF Statuses, Actors
  <2> HIDE DEF rule, slots
  <2> QED BY <2>1, <2>2 DEF Approval
<1>8. Opened(s) = [k \in 1..Len(slots) |-> row(k)]
  BY DEF Opened
<1>9. Opened(s) \in [1..Len(slots) -> Approval]
  BY <1>7, <1>8
<1>10. Opened(s) \in Seq(Approval) /\ Len(Opened(s)) = Len(slots)
  BY <1>4, <1>9
<1>11. \A k \in 1..Len(slots) : OpenedAs(Opened(s)[k], s)
  BY <1>8 DEF OpenedAs
<1> QED BY <1>4, <1>10, <1>11

(* A slot that carries a vote.                                             *)
WithVote(slot, u, d, status) ==
  [slot EXCEPT !.status = status, !.approver = u, !.delegation = d]

(* A vote keeps every row and changes only the one voted on.               *)
LEMMA VotedRows ==
  ASSUME TypeOK, NEW u \in Users, NEW i \in DOMAIN approvals,
         NEW d \in 0..Len(delegations), NEW status \in Decided
  PROVE  /\ Voted(u, i, d, status) \in Seq(Approval)
         /\ Len(Voted(u, i, d, status)) = Len(approvals)
         /\ \A j \in 1..Len(approvals) :
              Voted(u, i, d, status)[j] =
                IF j = i THEN WithVote(approvals[i], u, d, status)
                ELSE approvals[j]
<1>1. approvals \in Seq(Approval) /\ i \in 1..Len(approvals)
  BY DEF TypeOK
<1>2. approvals[i] \in Approval
  BY <1>1, ElementOfSeq
<1>3. d \in Nat /\ status \in Statuses /\ u \in Actors
  BY DEF TypeOK, Decided, Statuses, Actors
<1>4. WithVote(approvals[i], u, d, status) \in Approval
  BY <1>2, <1>3 DEF Approval, WithVote
<1>5. Voted(u, i, d, status) =
        [approvals EXCEPT ![i] = WithVote(approvals[i], u, d, status)]
  BY DEF Voted, WithVote
<1> QED BY <1>1, <1>4, <1>5, ExceptSeq

(***************************************************************************)
(* How one call turns the rows `old` into `new` once its vote, if any, is  *)
(* in: rows are kept or cancelled, and new ones are pending.               *)
(***************************************************************************)
Carried(old, new) ==
  /\ new \in Seq(Approval)
  /\ Len(new) >= Len(old)
  /\ \A j \in 1..Len(old) :
       \/ new[j] = old[j]
       \/ /\ old[j].status = "PENDING"
          /\ new[j] = [old[j] EXCEPT !.status = "CANCELLED"]
  /\ \A j \in Len(old) + 1 .. Len(new) : new[j].status = "PENDING"

LEMMA CancelledCarried ==
  ASSUME NEW rows \in Seq(Approval), NEW s
  PROVE  Carried(rows, Cancelled(rows, s))
<1>1. Len(rows) \in Nat
  OBVIOUS
<1> QED BY <1>1, CancelledRows DEF Carried

(* apply_transition leaves the rows it is given in place and adds slots    *)
(* opened on the target, at least one unless the target is terminal.       *)
LEMMA AppliedRows ==
  ASSUME TypeOK, NEW t \in definition.transitions, NEW rows \in Seq(Approval),
         ApplyTransition(t, rows)
  PROVE  /\ Carried(rows, approvals')
         /\ \A j \in 1..Len(rows) : approvals'[j] = rows[j]
         /\ \A j \in DOMAIN approvals' \ 1..Len(rows) :
              OpenedAs(approvals'[j], t.target)
         /\ ~Terminal(t.target) =>
              \E j \in DOMAIN approvals' :
                /\ approvals'[j].step = t.target
                /\ approvals'[j].status = "PENDING"
<1>1. t.target \in States
  BY DefinitionsAssumption DEF TypeOK, Workflow, Transition
<1>2. CASE Terminal(t.target)
  <2>1. approvals' = rows
    BY <1>2 DEF ApplyTransition
  <2> QED BY <1>2, <2>1 DEF Carried
<1>3. CASE ~Terminal(t.target)
  <2> DEFINE more == Opened(t.target)
  <2>1. approvals' = rows \o more
    BY <1>3 DEF ApplyTransition
  <2>2. /\ more \in Seq(Approval) /\ Len(more) >= 1
        /\ \A k \in 1..Len(more) : OpenedAs(more[k], t.target)
    BY <1>1, OpenedRows
  <2>3. Len(rows) \in Nat /\ Len(more) \in Nat
    BY <2>2
  <2> HIDE DEF more
  <2>4. /\ approvals' \in Seq(Approval)
        /\ Len(approvals') = Len(rows) + Len(more)
        /\ \A j \in 1..Len(rows) + Len(more) :
             approvals'[j] = IF j <= Len(rows) THEN rows[j]
                             ELSE more[j - Len(rows)]
    BY <2>1, <2>2, ConcatProperties
  <2>5. \A j \in 1..Len(rows) : approvals'[j] = rows[j]
    BY <2>3, <2>4
  <2>6. \A j \in Len(rows) + 1 .. Len(approvals') :
          OpenedAs(approvals'[j], t.target)
    <3> SUFFICES ASSUME NEW j \in Len(rows) + 1 .. Len(approvals')
                 PROVE  OpenedAs(approvals'[j], t.target)
      OBVIOUS
    <3>1. /\ j - Len(rows) \in 1..Len(more) /\ ~(j <= Len(rows))
          /\ j \in 1..Len(rows) + Len(more)
      BY <2>3, <2>4
    <3> QED BY <2>2, <2>4, <3>1
  <2>7. Len(rows) + 1 \in DOMAIN approvals'
        /\ Len(rows) + 1 \in Len(rows) + 1 .. Len(approvals')
    BY <2>2, <2>3, <2>4
  <2>8. /\ \A j \in Len(rows) + 1 .. Len(approvals') :
             /\ approvals'[j].step = t.target
             /\ approvals'[j].status = "PENDING"
        /\ \A j \in DOMAIN approvals' \ 1..Len(rows) :
             OpenedAs(approvals'[j], t.target)
    BY <2>3, <2>4, <2>6 DEF OpenedAs
  <2> QED BY <2>3, <2>4, <2>5, <2>7, <2>8 DEF Carried
<1> QED BY <1>2, <1>3

(* Two phases of one call compose.                                         *)
LEMMA CarriedTrans ==
  ASSUME NEW a \in Seq(Approval), NEW b, NEW c, Carried(a, b), Carried(b, c),
         \A j \in 1..Len(b) : c[j] = b[j]
  PROVE  Carried(a, c)
<1>1. b \in Seq(Approval) /\ c \in Seq(Approval)
  BY DEF Carried
<1>2. Len(a) \in Nat /\ Len(b) \in Nat /\ Len(c) \in Nat
  BY <1>1
<1>3. Len(b) >= Len(a) /\ Len(c) >= Len(b)
  BY DEF Carried
<1>4. \A j \in 1..Len(a) : c[j] = b[j]
  BY <1>2, <1>3
<1>5. \A j \in Len(a) + 1 .. Len(c) : c[j].status = "PENDING"
  <2> SUFFICES ASSUME NEW j \in Len(a) + 1 .. Len(c)
               PROVE  c[j].status = "PENDING"
    OBVIOUS
  <2>1. CASE j <= Len(b)
    BY <1>2, <2>1 DEF Carried
  <2>2. CASE j > Len(b)
    BY <1>2, <2>2 DEF Carried
  <2> QED BY <1>2, <2>1, <2>2
<1> QED BY <1>1, <1>2, <1>3, <1>4, <1>5 DEF Carried

(***************************************************************************)
(* What a vote of one call needs: the voter has not decided the step, the  *)
(* slot is pending there, and the right it uses was assigned the slot.     *)
(***************************************************************************)
Ballot(u, i, d) ==
  /\ i \in Pending(current)
  /\ ~HasDecided(u, current)
  /\ SelfApprovalAllowed(approvals[i], Authority(u, d))
  /\ Authority(u, d) \in approvals[i].who
  /\ d # 0 => /\ d \in DOMAIN delegations
              /\ delegations[d].grantee = u
              /\ delegations[d].step \in {AnyStep, approvals[i].step}

LEMMA CandidateBallot ==
  ASSUME TypeOK, NEW u \in Users, NEW i, NEW d, Candidate(u, i, d),
         SelfApprovalAllowed(approvals[i], Authority(u, d))
  PROVE  Ballot(u, i, d)
<1>1. CASE d = 0
  BY <1>1 DEF Candidate, Ballot, IsFirst, Authority, DelegationsFor, TypeOK
<1>2. CASE d # 0
  BY <1>2 DEF Candidate, Ballot, IsFirst, Authority, DelegationsFor
<1> QED BY <1>1, <1>2

(* Escalation keeps every row, cancelled where it was pending, and adds    *)
(* one that is pending on the step.                                        *)
LEMMA EscalatedRows ==
  ASSUME TypeOK, NEW u, NEW who \in Escalees, Escalate(u, who)
  PROVE  /\ Carried(approvals, approvals')
         /\ Len(approvals') = Len(approvals) + 1
         /\ LET row == approvals'[Len(approvals) + 1]
            IN  /\ row.step = current /\ row.status = "PENDING"
                /\ row.escalated /\ row.visit = Len(path)
<1>0. approvals \in Seq(Approval) /\ Len(approvals) \in Nat
  BY DEF TypeOK
<1> DEFINE row == [step |-> current, status |-> "PENDING", mode |-> "ANY",
      quorum |-> 1, allow_self |-> TRUE, who |-> who,
      order |-> Cardinality(OfStep(approvals, current)) + 1,
      approver |-> NoUser, delegation |-> 0, escalated |-> TRUE,
      visit |-> Len(path)]
           kept == Cancelled(approvals, current)
<1>1. approvals' = Append(kept, row)
  BY DEF Escalate
<1>2. Cardinality(OfStep(approvals, current)) \in Nat
  <2>1. OfStep(approvals, current) \in SUBSET (1..Len(approvals))
    BY <1>0 DEF OfStep
  <2>2. IsFiniteSet(1..Len(approvals))
    BY <1>0, FS_Interval
  <2>3. IsFiniteSet(OfStep(approvals, current))
    BY <2>1, <2>2, FS_Subset
  <2> QED BY <2>3, FS_CardinalityType
<1>3. row \in Approval
  <2>1. current \in States
    BY DEF Escalate, Open, Started, TypeOK
  <2>2. who \in SUBSET Users /\ Len(path) \in Nat
    BY EscaleesAssumption DEF TypeOK
  <2>3. Cardinality(OfStep(approvals, current)) + 1 \in Nat
    BY <1>2
  <2>4. NoUser \in Actors
    BY DEF Actors
  <2> QED BY <2>1, <2>2, <2>3, <2>4 DEF Approval, Statuses, Modes
<1>4. /\ kept \in Seq(Approval) /\ Len(kept) = Len(approvals)
      /\ Carried(approvals, kept)
  BY <1>0, CancelledRows, CancelledCarried
<1>5. /\ row.status = "PENDING" /\ row.step = current
      /\ row.escalated /\ row.visit = Len(path)
  OBVIOUS
<1> HIDE DEF row, kept
<1>6. /\ approvals' \in Seq(Approval)
      /\ Len(approvals') = Len(approvals) + 1
      /\ \A j \in 1..Len(approvals) : approvals'[j] = kept[j]
      /\ approvals'[Len(approvals) + 1] = row
  BY <1>0, <1>1, <1>3, <1>4, AppendProperties
<1> QED BY <1>0, <1>4, <1>5, <1>6 DEF Carried

(***************************************************************************)
(* Every step carries the rows over, after at most one vote.               *)
(***************************************************************************)
LEMMA StepRows ==
  ASSUME TypeOK, [Next]_vars
  PROVE  \/ Carried(approvals, approvals')
         \/ \E u \in Users, i \in DOMAIN approvals, d \in 0..Len(delegations),
              status \in Decided :
              /\ Ballot(u, i, d)
              /\ Carried(Voted(u, i, d, status), approvals')
              /\ UNCHANGED <<initiator, delegations>>
<1>1. approvals \in Seq(Approval) /\ Len(approvals) \in Nat
  BY DEF TypeOK
<1>2. Carried(approvals, approvals)
  BY <1>1 DEF Carried
<1>3. CASE UNCHANGED approvals
  BY <1>2, <1>3
<1>4. ASSUME NEW u \in Actors, NEW action, Execute(u, action)
      PROVE  Carried(approvals, approvals')
  <2>1. PICK t \in definition.transitions : ApplyTransition(t, approvals)
    BY <1>4 DEF Execute, Resolved, Passing, Judged
  <2> QED BY <1>1, <2>1, AppliedRows
<1>5. ASSUME NEW u \in Users, NEW action, NEW status \in Decided,
             Decide(u, action, status)
      PROVE  \E i \in DOMAIN approvals, d \in 0..Len(delegations) :
               /\ Ballot(u, i, d)
               /\ Carried(Voted(u, i, d, status), approvals')
               /\ UNCHANGED <<initiator, delegations>>
  <2>1. PICK i \in DOMAIN approvals, d \in 0..Len(delegations) :
          /\ Candidate(u, i, d)
          /\ SelfApprovalAllowed(approvals[i], Authority(u, d))
          /\ \/ approvals' = Voted(u, i, d, status)
             \/ \E outcome : Settle(outcome, Authority(u, d),
                                   Voted(u, i, d, status))
    BY <1>5 DEF Decide
  <2> DEFINE rows == Voted(u, i, d, status)
  <2>2. rows \in Seq(Approval) /\ Len(rows) \in Nat
    <3>1. rows \in Seq(Approval)
      BY VotedRows
    <3> QED BY <3>1, LenProperties
  <2> HIDE DEF rows
  <2>3. ASSUME approvals' = rows
        PROVE  Carried(rows, approvals')
    BY <2>2, <2>3 DEF Carried
  <2>4. ASSUME NEW outcome, Settle(outcome, Authority(u, d), rows)
        PROVE  Carried(rows, approvals')
    <3>1. PICK t \in definition.transitions :
            ApplyTransition(t, Cancelled(rows, current))
      BY <2>4 DEF Settle, Resolved, Passing, Judged
    <3>2. /\ Cancelled(rows, current) \in Seq(Approval)
          /\ Carried(rows, Cancelled(rows, current))
      BY <2>2, CancelledRows, CancelledCarried
    <3>3. /\ Carried(Cancelled(rows, current), approvals')
          /\ \A j \in 1..Len(Cancelled(rows, current)) :
               approvals'[j] = Cancelled(rows, current)[j]
      BY <3>1, <3>2, AppliedRows
    <3> QED BY <2>2, <3>2, <3>3, CarriedTrans
  <2>5. Carried(rows, approvals')
    BY <2>1, <2>3, <2>4 DEF rows
  <2>6. Ballot(u, i, d)
    BY <2>1, CandidateBallot
  <2> QED BY <1>5, <2>5, <2>6 DEF Decide, rows
<1>6. \A u \in Actors, who \in Escalees : Escalate(u, who) => Carried(approvals, approvals')
  BY EscalatedRows
<1>7. \A u \in Users : Approve(u) \/ Reject(u) =>
        \E status \in Decided : \E action : Decide(u, action, status)
  BY DEF Approve, Reject, Decided
<1> QED
  BY <1>3, <1>4, <1>5, <1>6, <1>7
  DEF Next, vars, Start, Delegate, Lapse, EditObject
-----------------------------------------------------------------------------
(* Types.                                                                  *)

LEMMA InitType == Init => TypeOK
<1>1. <<>> \in Seq(Approval) /\ <<>> \in Seq(Delegation) /\ <<>> \in Seq(Transition)
  OBVIOUS
<1> QED BY <1>1 DEF Init, TypeOK, Actors

(* apply_transition moves to a state of the definition and records it.     *)
LEMMA AppliedType ==
  ASSUME TypeOK, NEW t \in definition.transitions, NEW rows,
         ApplyTransition(t, rows)
  PROVE  /\ current' \in States /\ completed' \in BOOLEAN
         /\ t \in Transition /\ path' \in Seq(Transition)
<1>1. t \in Transition
  BY DefinitionsAssumption DEF TypeOK, Workflow
<1>2. path' \in Seq(Transition)
  BY <1>1, AppendProperties DEF TypeOK, ApplyTransition
<1>3. current' \in States
  BY <1>1 DEF ApplyTransition, Transition
<1> QED BY <1>1, <1>2, <1>3 DEF TypeOK, ApplyTransition, Seals, Terminal

LEMMA DelegationsType ==
  ASSUME TypeOK, [Next]_vars
  PROVE  /\ delegations' \in Seq(Delegation)
         /\ Len(delegations') >= Len(delegations)
         /\ \A d \in DOMAIN delegations :
              /\ delegations'[d].granter = delegations[d].granter
              /\ delegations'[d].grantee = delegations[d].grantee
              /\ delegations'[d].step = delegations[d].step
<1>1. delegations \in Seq(Delegation) /\ Len(delegations) \in Nat
  BY DEF TypeOK
<1>2. CASE UNCHANGED delegations
  BY <1>1, <1>2
<1>3. ASSUME NEW granter \in Users, NEW grantee \in Users,
             NEW step \in States \cup {AnyStep}, Delegate(granter, grantee, step)
      PROVE  /\ delegations' \in Seq(Delegation)
             /\ Len(delegations') >= Len(delegations)
             /\ \A d \in DOMAIN delegations : delegations'[d] = delegations[d]
  <2> DEFINE row == [granter |-> granter, grantee |-> grantee, step |-> step,
                     active |-> TRUE]
  <2>1. row \in Delegation
    BY DEF Delegation
  <2>2. delegations' = Append(delegations, row)
    BY <1>3 DEF Delegate
  <2> HIDE DEF row
  <2> QED BY <1>1, <2>1, <2>2, AppendProperties
<1>4. ASSUME NEW d \in DOMAIN delegations, Lapse(d)
      PROVE  /\ delegations' \in Seq(Delegation)
             /\ Len(delegations') >= Len(delegations)
             /\ \A e \in DOMAIN delegations :
                  /\ delegations'[e].granter = delegations[e].granter
                  /\ delegations'[e].grantee = delegations[e].grantee
                  /\ delegations'[e].step = delegations[e].step
  <2>1. delegations' = [delegations EXCEPT ![d] = [delegations[d] EXCEPT !.active = FALSE]]
    BY <1>4 DEF Lapse
  <2>2. delegations[d] \in Delegation /\ d \in 1..Len(delegations)
    BY <1>1
  <2>3. [delegations[d] EXCEPT !.active = FALSE] \in Delegation
    BY <2>2 DEF Delegation
  <2>4. /\ [delegations[d] EXCEPT !.active = FALSE].granter = delegations[d].granter
        /\ [delegations[d] EXCEPT !.active = FALSE].grantee = delegations[d].grantee
        /\ [delegations[d] EXCEPT !.active = FALSE].step = delegations[d].step
    BY <2>2 DEF Delegation
  <2> QED BY <1>1, <2>1, <2>2, <2>3, <2>4, ExceptSeq
<1>5. \/ UNCHANGED delegations
      \/ \E granter, grantee \in Users, step \in States \cup {AnyStep} :
           Delegate(granter, grantee, step)
      \/ \E d \in DOMAIN delegations : Lapse(d)
  BY DEF Next, vars, Start, Execute, Approve, Reject, Decide, Escalate,
         EditObject
<1> QED BY <1>1, <1>2, <1>3, <1>4, <1>5

LEMMA NextType ==
  ASSUME TypeOK, [Next]_vars
  PROVE  TypeOK'
<1>1. approvals' \in Seq(Approval)
  BY StepRows DEF Carried
<1>2. delegations' \in Seq(Delegation)
  BY DelegationsType
<1>3. definition' = definition
  BY DEF Next, vars, Start, Execute, Approve, Reject, Decide, Delegate, Lapse,
         Escalate, EditObject
<1>4. initiator' \in Actors /\ data' \in Data
  BY DEF TypeOK, Next, vars, Start, Execute, Approve, Reject, Decide, Delegate,
         Lapse, Escalate, EditObject
<1>5. /\ current' \in States \cup {Absent} /\ completed' \in BOOLEAN
      /\ path' \in Seq(Transition)
  <2>1. ASSUME NEW u \in Actors, Start(u)
        PROVE  /\ current' \in States /\ UNCHANGED <<completed, path>>
    BY <2>1, DefinitionsAssumption DEF Start, TypeOK, Workflow
  <2>2. ASSUME NEW u \in Actors, NEW action, Execute(u, action)
        PROVE  \E t \in definition.transitions : \E rows : ApplyTransition(t, rows)
    BY <2>2 DEF Execute, Resolved, Passing, Judged
  <2>3. ASSUME NEW u \in Users, NEW action, NEW status, Decide(u, action, status)
        PROVE  \/ UNCHANGED <<current, completed, path>>
               \/ \E t \in definition.transitions : \E rows : ApplyTransition(t, rows)
    BY <2>3 DEF Decide, Settle, Resolved, Passing, Judged
  <2>4. CASE UNCHANGED <<current, completed, path>>
    BY <2>4 DEF TypeOK
  <2>5. CASE \E t \in definition.transitions : \E rows : ApplyTransition(t, rows)
    BY <2>5, AppliedType
  <2> QED
    BY <2>1, <2>2, <2>3, <2>4, <2>5
    DEF TypeOK, Next, vars, Approve, Reject, Delegate, Lapse, Escalate, EditObject
<1> QED BY <1>1, <1>2, <1>3, <1>4, <1>5 DEF TypeOK

(* Every row of every reachable state holds values the models allow.       *)
THEOREM TypeCorrect == Spec => []TypeOK
<1>1. TypeOK /\ [Next]_vars => TypeOK'
  BY NextType
<1> QED BY <1>1, InitType, PTL DEF Spec

-----------------------------------------------------------------------------
(***************************************************************************)
(* The life of the execution row.  Votes can only be traced to the person  *)
(* they belong to because nothing is voted on before the start, which is   *)
(* when the initiator is set; an execution can only be sealed because      *)
(* nothing leaves a terminal state.                                        *)
(***************************************************************************)
Unstarted == ~Started => path = <<>> /\ approvals = <<>>

Sealed == completed <=> Entered /\ Terminal(current)

Life == TypeOK /\ Unstarted /\ Sealed

(* What a call can do to the execution row.                                *)
LEMMA StepLife ==
  ASSUME Life, [Next]_vars
  PROVE  /\ definition' = definition
         /\ \/ UNCHANGED <<current, completed, path, initiator>>
            \/ /\ ~Started /\ \E caller \in Definitions : current' = caller.initial
               /\ UNCHANGED <<completed, path, approvals>>
            \/ /\ Started /\ ~completed /\ UNCHANGED initiator
               /\ \E t \in definition.transitions, rows \in Seq(Approval) :
                    /\ t.source = current
                    /\ ApplyTransition(t, rows)
<1>1. definition' = definition
  BY DEF Next, vars, Start, Execute, Approve, Reject, Decide, Delegate, Lapse,
         Escalate, EditObject
<1>2. approvals \in Seq(Approval)
  BY DEF Life, TypeOK
<1>3. ASSUME NEW u \in Actors, NEW action, Execute(u, action)
      PROVE  /\ Started /\ ~completed /\ UNCHANGED initiator
             /\ \E t \in definition.transitions, rows \in Seq(Approval) :
                  t.source = current /\ ApplyTransition(t, rows)
  BY <1>2, <1>3 DEF Execute, Resolved, Passing, Judged, Life, Sealed
<1>4. ASSUME NEW u \in Users, NEW action, NEW status \in Decided,
             Decide(u, action, status),
             ~ UNCHANGED <<current, completed, path, initiator>>
      PROVE  /\ Started /\ ~completed /\ UNCHANGED initiator
             /\ \E t \in definition.transitions, rows \in Seq(Approval) :
                  t.source = current /\ ApplyTransition(t, rows)
  <2>1. PICK i \in DOMAIN approvals, d \in 0..Len(delegations) : \E outcome :
          Settle(outcome, Authority(u, d), Voted(u, i, d, status))
    BY <1>4 DEF Decide
  <2>2. Voted(u, i, d, status) \in Seq(Approval)
    BY VotedRows DEF Life
  <2>3. Cancelled(Voted(u, i, d, status), current) \in Seq(Approval)
    BY <2>2, CancelledRows
  <2>4. PICK t \in definition.transitions :
          /\ t.source = current
          /\ ApplyTransition(t, Cancelled(Voted(u, i, d, status), current))
    BY <2>1 DEF Settle, Resolved, Passing, Judged
  <2>5. Started /\ ~completed /\ UNCHANGED initiator
    BY <1>4 DEF Decide, Open
  <2> QED BY <2>3, <2>4, <2>5
<1>5. \A u \in Users : Approve(u) \/ Reject(u) =>
        \E status \in Decided : \E action : Decide(u, action, status)
  BY DEF Approve, Reject, Decided
<1>6. \/ UNCHANGED <<current, completed, path, initiator>>
      \/ \E u \in Actors : Start(u)
      \/ \E u \in Actors : \E action : Execute(u, action)
      \/ \E u \in Users, status \in Decided : \E action : Decide(u, action, status)
  BY <1>5 DEF Next, vars, Delegate, Lapse, Escalate, EditObject
<1> QED BY <1>1, <1>3, <1>4, <1>6 DEF Start

LEMMA LifeInvariant == Spec => []Life
<1>1. Init => Life
  BY InitType DEF Init, Life, Unstarted, Sealed, Started, Entered
<1>2. Life /\ [Next]_vars => Life'
  <2> SUFFICES ASSUME Life, [Next]_vars PROVE Life'
    OBVIOUS
  <2>1. TypeOK'
    BY NextType DEF Life
  <2>2. definition' = definition
    BY StepLife
  <2>3. CASE UNCHANGED <<current, completed, path, initiator>>
    <3>1. ~Started => approvals' = approvals
      BY DEF Next, vars, Start, Execute, Approve, Reject, Decide, Open,
             Delegate, Lapse, Escalate, EditObject
    <3> QED BY <2>1, <2>2, <2>3, <3>1 DEF Life, Unstarted, Sealed, Started,
            Entered, Terminal
  <2>4. CASE /\ ~Started /\ \E caller \in Definitions : current' = caller.initial
             /\ UNCHANGED <<completed, path, approvals>>
    <3>1. current' \in States
      BY <2>4, DefinitionsAssumption DEF Life, TypeOK, Workflow
    <3> QED BY <2>1, <2>4, <3>1, NamesAssumption
        DEF Life, Unstarted, Sealed, Started, Entered
  <2>5. ASSUME ~completed, NEW t \in definition.transitions, NEW rows,
               ApplyTransition(t, rows)
        PROVE  Life'
    <3>1. /\ current' = t.target /\ current' \in States
          /\ completed' = Terminal(t.target) /\ path' = Append(path, t)
      BY <2>5, AppliedType DEF ApplyTransition, Seals, Life, Terminal
    <3>2. path' # <<>>
      <4>1. path \in Seq(Transition) /\ t \in Transition
        BY AppliedType, <2>5 DEF Life, TypeOK
      <4> QED BY <3>1, <4>1
    <3> QED BY <2>1, <2>2, <3>1, <3>2, NamesAssumption
        DEF Life, Unstarted, Sealed, Started, Entered, Terminal
  <2> QED BY <2>3, <2>4, <2>5, StepLife
<1> QED BY <1>1, <1>2, PTL DEF Spec

-----------------------------------------------------------------------------
(* The lifecycle.                                                          *)

(* Whatever votes, escalations and edits of the object happen in between,  *)
(* the execution row goes through the lifecycle of its definition.         *)
THEOREM LifecycleImplemented == Spec => ImplementsLifecycle
<1>1. Init => Lifecycle!Init
  BY DEF Init, Lifecycle!Init
<1>2. Life /\ [Next]_vars => [Lifecycle!Next]_Lifecycle!vars
  <2> SUFFICES ASSUME Life, [Next]_vars
               PROVE  Lifecycle!Next \/ UNCHANGED Lifecycle!vars
    OBVIOUS
  <2>1. CASE UNCHANGED <<current, completed, path, initiator>>
    BY <2>1, StepLife DEF Lifecycle!vars
  <2>2. CASE /\ ~Started /\ \E caller \in Definitions : current' = caller.initial
             /\ UNCHANGED <<completed, path, approvals>>
    BY <2>2, StepLife DEF Lifecycle!Next, Lifecycle!Begin, Started
  <2>3. ASSUME ~completed, NEW t \in definition.transitions, NEW rows,
               t.source = current, ApplyTransition(t, rows)
        PROVE  Lifecycle!Move(t)
    BY <2>3, StepLife
    DEF Life, ApplyTransition, Seals, Terminal, Lifecycle!Move, Lifecycle!Final
  <2> QED BY <2>1, <2>2, <2>3, StepLife DEF Lifecycle!Next
<1> QED BY <1>1, <1>2, LifeInvariant, PTL
    DEF Spec, ImplementsLifecycle, Lifecycle!Spec

(* No call moves, votes on, escalates or delegates a completed execution.  *)
THEOREM CompletionFinal == Spec => CompletedIsFinal
<1>1. Life /\ [Next]_vars =>
        [completed =>
           /\ UNCHANGED <<current, completed, path, approvals>>
           /\ Len(delegations') = Len(delegations)]_vars
  <2> SUFFICES ASSUME Life, Next, completed
               PROVE  /\ UNCHANGED <<current, completed, path, approvals>>
                      /\ Len(delegations') = Len(delegations)
    OBVIOUS
  <2>1. Started /\ Terminal(current) /\ ~Open
    BY DEF Life, Unstarted, Sealed, Entered, Open
  <2>2. \/ \E d \in DOMAIN delegations : Lapse(d)
        \/ \E value \in Data : EditObject(value)
    BY <2>1 DEF Next, Start, Execute, Approve, Reject, Decide, Delegate, Escalate
  <2>3. ASSUME NEW d \in DOMAIN delegations, Lapse(d)
        PROVE  Len(delegations') = Len(delegations)
    BY <2>3 DEF Lapse, Life, TypeOK
  <2> QED BY <2>2, <2>3 DEF Lapse, EditObject
<1> QED BY <1>1, LifeInvariant, PTL DEF Spec, CompletedIsFinal

(* An execution that entered a step and is not completed has a slot        *)
(* pending there.                                                          *)
THEOREM StepAlwaysGuarded == Spec => []StepGuarded
<1>1. Init => StepGuarded
  BY DEF Init, StepGuarded, Entered
<1>2. Life /\ StepGuarded /\ [Next]_vars => StepGuarded'
  <2> SUFFICES ASSUME Life, StepGuarded, [Next]_vars PROVE StepGuarded'
    OBVIOUS
  <2>1. TypeOK /\ TypeOK'
    BY NextType DEF Life
  <2>2. ASSUME NEW t \in definition.transitions, NEW rows \in Seq(Approval),
               ApplyTransition(t, rows)
        PROVE  StepGuarded'
    <3>1. current' = t.target /\ (Terminal(t.target) => completed')
      BY <2>2 DEF ApplyTransition, Seals
    <3>2. ~Terminal(t.target) =>
            \E j \in DOMAIN approvals' :
              approvals'[j].step = t.target /\ approvals'[j].status = "PENDING"
      BY <2>1, <2>2, AppliedRows
    <3> QED BY <3>1, <3>2 DEF StepGuarded, Pending, WithStatus, OfStep
  <2>3. CASE UNCHANGED <<current, completed, path, approvals>>
    BY <2>3 DEF StepGuarded, Entered, Pending, WithStatus, OfStep
  <2>4. ASSUME ~Started, UNCHANGED path
        PROVE  StepGuarded'
    BY <2>4 DEF StepGuarded, Entered, Life, Unstarted
  <2>5. ASSUME NEW u \in Users, NEW action, NEW status \in Decided,
               Decide(u, action, status)
        PROVE  StepGuarded'
    <3>1. PICK i \in DOMAIN approvals, d \in 0..Len(delegations) :
            \/ /\ StepOutcome(Voted(u, i, d, status), current, i) = "partial"
               /\ approvals' = Voted(u, i, d, status)
               /\ UNCHANGED <<current, completed, path>>
            \/ \E outcome : Settle(outcome, Authority(u, d),
                                   Voted(u, i, d, status))
      BY <2>5 DEF Decide
    <3> DEFINE rows == Voted(u, i, d, status)
    <3>2. ASSUME StepOutcome(rows, current, i) = "partial", approvals' = rows,
                 UNCHANGED <<current, completed, path>>
          PROVE  StepGuarded'
      <4>1. ~Exhausted(rows, current)
        BY <3>2 DEF StepOutcome
      <4> QED BY <3>2, <4>1 DEF Exhausted, StepGuarded, Pending, WithStatus, OfStep
    <3>3. ASSUME NEW outcome, Settle(outcome, Authority(u, d), rows)
          PROVE  StepGuarded'
      <4>1. PICK t \in definition.transitions :
              ApplyTransition(t, Cancelled(rows, current))
        BY <3>3 DEF Settle, Resolved, Passing, Judged
      <4>2. rows \in Seq(Approval)
        BY <2>1, <2>5, VotedRows DEF Decide
      <4> QED BY <2>2, <4>1, <4>2, CancelledRows
    <3> QED BY <3>1, <3>2, <3>3
  <2>6. ASSUME NEW u, NEW who \in Escalees, Escalate(u, who)
        PROVE  StepGuarded'
    <3>1. current' = current
      BY <2>6 DEF Escalate
    <3>2. /\ Len(approvals) + 1 \in DOMAIN approvals'
          /\ approvals'[Len(approvals) + 1].step = current
          /\ approvals'[Len(approvals) + 1].status = "PENDING"
      BY <2>1, <2>6, EscalatedRows DEF TypeOK
    <3> QED BY <3>1, <3>2 DEF StepGuarded, Pending, WithStatus, OfStep
  <2>7. \A u \in Users : Approve(u) \/ Reject(u) =>
          \E status \in Decided : \E action : Decide(u, action, status)
    BY DEF Approve, Reject, Decided
  <2>8. \/ UNCHANGED <<current, completed, path, approvals>>
        \/ ~Started /\ UNCHANGED path
        \/ \E t \in definition.transitions : ApplyTransition(t, approvals)
        \/ \E u \in Users, status \in Decided : \E action : Decide(u, action, status)
        \/ \E u \in Actors, who \in Escalees : Escalate(u, who)
    BY <2>7 DEF Next, vars, Start, Execute, Resolved, Passing, Judged, Delegate, Lapse,
       EditObject
  <2> QED BY <2>1, <2>2, <2>3, <2>4, <2>5, <2>6, <2>8 DEF TypeOK
<1> QED BY <1>1, <1>2, LifeInvariant, PTL DEF Spec

-----------------------------------------------------------------------------
(* Votes.                                                                  *)

(* A row that was not pending is carried over as it is, and one that is    *)
(* decided was there, as it is, before.                                    *)
LEMMA CarriedDecided ==
  ASSUME NEW old \in Seq(Approval), NEW new, Carried(old, new)
  PROVE  /\ \A j \in DOMAIN old : j \in DOMAIN new
         /\ \A j \in DOMAIN new : new[j].status \in Decided =>
              j \in DOMAIN old /\ new[j] = old[j]
<1>1. /\ new \in Seq(Approval) /\ Len(old) \in Nat /\ Len(new) \in Nat
      /\ Len(old) <= Len(new)
      /\ DOMAIN old = 1..Len(old) /\ DOMAIN new = 1..Len(new)
  BY DEF Carried
<1>2. ASSUME NEW j \in 1..Len(new), new[j].status \in Decided
      PROVE  j \in 1..Len(old) /\ new[j] = old[j]
  <2>1. j \in 1..Len(old)
    BY <1>1, <1>2 DEF Carried, Decided
  <2>2. old[j] \in Approval
    BY <2>1
  <2> QED BY <1>2, <2>1, <2>2 DEF Carried, Decided, Approval
<1> QED BY <1>1, <1>2

(* A row is decided after a step when it was before, unchanged, or when    *)
(* the step is the one vote that decides it.                               *)
LEMMA StepVotes ==
  ASSUME TypeOK, [Next]_vars
  PROVE  \/ \A j \in DOMAIN approvals' : approvals'[j].status \in Decided =>
              j \in DOMAIN approvals /\ approvals'[j] = approvals[j]
         \/ \E u \in Users, i \in DOMAIN approvals, d \in 0..Len(delegations),
              status \in Decided :
              /\ Ballot(u, i, d)
              /\ UNCHANGED <<initiator, delegations>>
              /\ \A j \in DOMAIN approvals' : approvals'[j].status \in Decided =>
                   /\ j \in DOMAIN approvals
                   /\ approvals'[j] =
                        IF j = i THEN WithVote(approvals[i], u, d, status)
                        ELSE approvals[j]
<1>1. CASE Carried(approvals, approvals')
  BY <1>1, CarriedDecided DEF TypeOK
<1>2. ASSUME NEW u \in Users, NEW i \in DOMAIN approvals,
             NEW d \in 0..Len(delegations), NEW status \in Decided,
             Carried(Voted(u, i, d, status), approvals')
      PROVE  \A j \in DOMAIN approvals' : approvals'[j].status \in Decided =>
                   /\ j \in DOMAIN approvals
                   /\ approvals'[j] =
                        IF j = i THEN WithVote(approvals[i], u, d, status)
                        ELSE approvals[j]
  <2> DEFINE rows == Voted(u, i, d, status)
  <2>1. /\ rows \in Seq(Approval) /\ Len(rows) = Len(approvals)
        /\ \A j \in 1..Len(approvals) :
             rows[j] = IF j = i THEN WithVote(approvals[i], u, d, status)
                       ELSE approvals[j]
    BY VotedRows
  <2> HIDE DEF rows
  <2>2. \A j \in DOMAIN approvals' : approvals'[j].status \in Decided =>
          j \in DOMAIN rows /\ approvals'[j] = rows[j]
    BY <1>2, <2>1, CarriedDecided DEF rows
  <2>3. DOMAIN rows = 1..Len(approvals) /\ DOMAIN approvals = 1..Len(approvals)
    BY <2>1 DEF TypeOK
  <2> QED BY <2>1, <2>2, <2>3
<1> QED BY <1>1, <1>2, StepRows

(* Nobody decides two slots of one step.                                   *)
THEOREM OneVote == Spec => []OneVotePerUser
<1>1. Init => OneVotePerUser
  BY DEF Init, OneVotePerUser, WithStatus, OfStep
<1>2. TypeOK /\ OneVotePerUser /\ [Next]_vars => OneVotePerUser'
  <2> SUFFICES ASSUME TypeOK, OneVotePerUser, [Next]_vars,
                      NEW s \in States,
                      NEW i \in WithStatus(approvals', s, Decided),
                      NEW j \in WithStatus(approvals', s, Decided),
                      approvals'[i].approver = approvals'[j].approver
               PROVE  i = j
    BY DEF OneVotePerUser, WithStatus, OfStep
  <2>1. /\ i \in DOMAIN approvals' /\ j \in DOMAIN approvals'
        /\ approvals'[i].status \in Decided /\ approvals'[j].status \in Decided
        /\ approvals'[i].step = s /\ approvals'[j].step = s
    BY DEF WithStatus, OfStep
  <2>2. CASE \A k \in DOMAIN approvals' : approvals'[k].status \in Decided =>
               k \in DOMAIN approvals /\ approvals'[k] = approvals[k]
    BY <2>1, <2>2 DEF OneVotePerUser, WithStatus, OfStep
  <2>3. ASSUME NEW u \in Users, NEW v \in DOMAIN approvals, NEW d,
               NEW status \in Decided, Ballot(u, v, d),
               \A k \in DOMAIN approvals' : approvals'[k].status \in Decided =>
                 /\ k \in DOMAIN approvals
                 /\ approvals'[k] =
                      IF k = v THEN WithVote(approvals[v], u, d, status)
                      ELSE approvals[k]
        PROVE  i = j
    <3>1. approvals[v].step = current /\ approvals[v] \in Approval
      BY <2>3 DEF Ballot, Pending, WithStatus, OfStep, TypeOK
    <3>2. \A k \in DOMAIN approvals :
            approvals[k].step = current /\ approvals[k].status \in Decided =>
              approvals[k].approver # u
      BY <2>3 DEF Ballot, HasDecided, WithStatus, OfStep
    <3>3. \A k \in {i, j} : k = v =>
            /\ s = current /\ approvals'[k].approver = u
      BY <2>1, <2>3, <3>1 DEF Approval, WithVote
    <3>4. \A k \in {i, j} : k # v =>
            /\ approvals'[k] = approvals[k] /\ k \in WithStatus(approvals, s, Decided)
      BY <2>1, <2>3 DEF WithStatus, OfStep
    <3>5. CASE i # v /\ j # v
      BY <3>4, <3>5 DEF OneVotePerUser
    <3>6. CASE i = v /\ j # v
      BY <3>2, <3>3, <3>4, <3>6 DEF WithStatus, OfStep
    <3>7. CASE i # v /\ j = v
      BY <3>2, <3>3, <3>4, <3>7 DEF WithStatus, OfStep
    <3> QED BY <3>5, <3>6, <3>7
  <2> QED BY <2>2, <2>3, StepVotes
<1> QED BY <1>1, <1>2, TypeCorrect, PTL DEF Spec

(* What DecisionsBacked says of one decided slot.                          *)
Backed(slot) ==
  /\ Authority(slot.approver, slot.delegation) \in slot.who
  /\ ~slot.allow_self =>
       Authority(slot.approver, slot.delegation) # initiator
  /\ slot.delegation # 0 =>
       /\ slot.delegation \in DOMAIN delegations
       /\ delegations[slot.delegation].grantee = slot.approver
       /\ delegations[slot.delegation].step \in {AnyStep, slot.step}

(* Every decision is backed by the right of somebody the slot was assigned *)
(* to, who is not the initiator where self-approval is forbidden.          *)
THEOREM DecisionsAlwaysBacked == Spec => []DecisionsBacked
<1>0. DecisionsBacked <=> \A i \in DOMAIN approvals :
        approvals[i].status \in Decided => Backed(approvals[i])
  BY DEF DecisionsBacked, Backed
<1>1. Init => DecisionsBacked
  BY <1>0 DEF Init
<1>2. Life /\ DecisionsBacked /\ [Next]_vars => DecisionsBacked'
  <2> SUFFICES ASSUME Life, DecisionsBacked, [Next]_vars,
                      NEW i \in DOMAIN approvals',
                      approvals'[i].status \in Decided
               PROVE  Backed(approvals[i])'
    BY <1>0 DEF DecisionsBacked, Backed
  <2>1. TypeOK
    BY DEF Life
  <2>2. \A d \in DOMAIN delegations :
          /\ d \in DOMAIN delegations'
          /\ delegations'[d].granter = delegations[d].granter
          /\ delegations'[d].grantee = delegations[d].grantee
          /\ delegations'[d].step = delegations[d].step
    <3>1. /\ delegations \in Seq(Delegation) /\ delegations' \in Seq(Delegation)
          /\ Len(delegations') >= Len(delegations)
      BY <2>1, DelegationsType DEF TypeOK
    <3>2. \A d \in DOMAIN delegations : d \in DOMAIN delegations'
      BY <3>1
    <3> QED BY <2>1, <3>2, DelegationsType
  <2>3. ASSUME i \in DOMAIN approvals, approvals'[i] = approvals[i],
               UNCHANGED initiator
        PROVE  Backed(approvals[i])'
    <3>1. Backed(approvals[i])
      BY <1>0, <2>3
    <3> QED BY <2>2, <2>3, <3>1 DEF Backed, Authority
  <2>4. CASE \A j \in DOMAIN approvals' : approvals'[j].status \in Decided =>
               j \in DOMAIN approvals /\ approvals'[j] = approvals[j]
    <3>1. ~ Started => i \notin DOMAIN approvals
      BY DEF Life, Unstarted
    <3> QED BY <2>3, <2>4, <3>1, StepLife
  <2>5. ASSUME NEW u \in Users, NEW v \in DOMAIN approvals,
               NEW d \in 0..Len(delegations), NEW status \in Decided,
               Ballot(u, v, d), UNCHANGED <<initiator, delegations>>,
               i \in DOMAIN approvals,
               approvals'[i] = IF i = v
                               THEN WithVote(approvals[v], u, d, status)
                               ELSE approvals[i]
        PROVE  Backed(approvals[i])'
    <3>1. CASE i # v
      BY <2>3, <2>5, <3>1
    <3>2. CASE i = v
      <4>1. approvals[v] \in Approval
        BY <2>1 DEF TypeOK
      <4>2. /\ approvals'[i].approver = u /\ approvals'[i].delegation = d
            /\ approvals'[i].who = approvals[v].who
            /\ approvals'[i].step = approvals[v].step
            /\ approvals'[i].allow_self = approvals[v].allow_self
        BY <2>5, <3>2, <4>1 DEF Approval, WithVote
      <4>3. \/ approvals[v].allow_self \/ initiator = NoUser
            \/ Authority(u, d) # initiator
        BY <2>5 DEF Ballot, SelfApprovalAllowed
      <4>4. Authority(u, d) # NoUser
        BY <2>1, <2>5, <4>1, NamesAssumption DEF Ballot, Approval
      <4> QED BY <2>5, <4>2, <4>3, <4>4 DEF Ballot, Backed, Authority
    <3> QED BY <3>1, <3>2
  <2> QED BY <2>1, <2>4, <2>5, StepVotes
<1> QED BY <1>1, <1>2, LifeInvariant, PTL DEF Spec

(* A row stays, keeps its step and its approvers, and changes only while   *)
(* it is pending.                                                          *)
LEMMA StepFinal ==
  ASSUME TypeOK, [Next]_vars, NEW i \in DOMAIN approvals
  PROVE  /\ i \in DOMAIN approvals'
         /\ approvals[i].status # "PENDING" => approvals'[i] = approvals[i]
         /\ approvals'[i].who = approvals[i].who
         /\ approvals'[i].step = approvals[i].step
<1>1. approvals \in Seq(Approval) /\ approvals[i] \in Approval
  BY DEF TypeOK
<1>2. CASE Carried(approvals, approvals')
  <2>1. i \in DOMAIN approvals'
    BY <1>1, <1>2, CarriedDecided
  <2>2. \/ approvals'[i] = approvals[i]
        \/ /\ approvals[i].status = "PENDING"
           /\ approvals'[i] = [approvals[i] EXCEPT !.status = "CANCELLED"]
    BY <1>1, <1>2 DEF Carried
  <2> QED BY <1>1, <2>1, <2>2 DEF Approval
<1>3. ASSUME NEW u \in Users, NEW v \in DOMAIN approvals,
             NEW d \in 0..Len(delegations), NEW status \in Decided,
             Ballot(u, v, d), Carried(Voted(u, v, d, status), approvals')
      PROVE  /\ i \in DOMAIN approvals'
             /\ approvals[i].status # "PENDING" =>
                  approvals'[i] = approvals[i]
             /\ approvals'[i].who = approvals[i].who
             /\ approvals'[i].step = approvals[i].step
  <2> DEFINE rows == Voted(u, v, d, status)
  <2>1. /\ rows \in Seq(Approval) /\ Len(rows) = Len(approvals)
        /\ rows[i] = IF i = v THEN WithVote(approvals[v], u, d, status)
                     ELSE approvals[i]
    BY <1>1, VotedRows
  <2>2. approvals[v].status = "PENDING"
    BY <1>3 DEF Ballot, Pending, WithStatus
  <2>3. Carried(rows, approvals')
    BY <1>3
  <2> HIDE DEF rows
  <2>4. i \in 1..Len(rows) /\ rows[i] \in Approval
    BY <1>1, <2>1
  <2>5. i \in DOMAIN approvals'
    BY <2>1, <2>3, <2>4, CarriedDecided
  <2>6. \/ approvals'[i] = rows[i]
        \/ /\ rows[i].status = "PENDING"
           /\ approvals'[i] = [rows[i] EXCEPT !.status = "CANCELLED"]
    BY <2>1, <2>3, <2>4 DEF Carried
  <2>7. /\ approvals'[i].who = rows[i].who
        /\ approvals'[i].step = rows[i].step
        /\ rows[i].status # "PENDING" => approvals'[i] = rows[i]
    BY <2>4, <2>6 DEF Approval
  <2>8. rows[i].who = approvals[i].who /\ rows[i].step = approvals[i].step
    BY <1>1, <2>1 DEF WithVote, Approval
  <2> QED BY <2>1, <2>2, <2>5, <2>7, <2>8
<1> QED BY <1>2, <1>3, StepRows

(* Hence decisions are final.                                              *)
THEOREM DecisionsStayFinal == Spec => DecisionsFinal
<1>1. TypeOK /\ [Next]_vars =>
        [\A i \in DOMAIN approvals :
           /\ i \in DOMAIN approvals'
           /\ approvals[i].status # "PENDING" => approvals'[i] = approvals[i]
           /\ approvals'[i].who = approvals[i].who
           /\ approvals'[i].step = approvals[i].step]_vars
  BY StepFinal
<1> QED BY <1>1, TypeCorrect, PTL DEF Spec, DecisionsFinal

-----------------------------------------------------------------------------
(***************************************************************************)
(* A step in its first stay, not escalated, is decided by the requirement  *)
(* it was entered with: the theorems on WaitingBallot and BallotHonoured.  *)
(***************************************************************************)

(* The slot whose mode and quorum judge a step.                            *)

(* A step with rows has a first one, so that the mode of the step is the   *)
(* mode of one of its rows.                                                *)
LEMMA LeadIsOfStep ==
  ASSUME NEW rows \in Seq(Approval), NEW s, OfStep(rows, s) # {}
  PROVE  \E i \in OfStep(rows, s) : Lead(rows, s) = rows[i]
<1> DEFINE S == OfStep(rows, s)
<1>1. /\ DOMAIN rows = 1..Len(rows) /\ Len(rows) \in Nat
      /\ \A i \in DOMAIN rows : rows[i].order \in Nat
  <2>1. \A i \in DOMAIN rows : rows[i] \in Approval
    OBVIOUS
  <2> QED BY <2>1 DEF Approval
<1>2. S \subseteq DOMAIN rows /\ S \subseteq Nat
  BY <1>1 DEF OfStep
<1> HIDE DEF S
<1> DEFINE orders == {rows[i].order : i \in S}
<1>3. PICK o \in orders : \A n \in orders : o <= n
  <2>1. orders \subseteq Nat /\ orders # {}
    BY <1>1, <1>2 DEF S
  <2> HIDE DEF orders
  <2> QED BY <2>1, LeastNatural
<1> DEFINE firsts == {i \in S : rows[i].order = o}
<1>4. PICK i \in firsts : \A j \in firsts : i <= j
  <2>1. firsts \subseteq Nat /\ firsts # {}
    BY <1>2, <1>3
  <2> HIDE DEF firsts
  <2> QED BY <2>1, LeastNatural
<1>5. IsFirst(rows, S, i)
  <2> SUFFICES ASSUME NEW j \in S
               PROVE  \/ rows[i].order < rows[j].order
                      \/ rows[i].order = rows[j].order /\ i <= j
    BY DEF IsFirst
  <2>1. rows[i].order = o /\ o <= rows[j].order
    BY <1>3
  <2>2. o \in Nat /\ rows[j].order \in Nat
    BY <1>1, <1>2, <2>1
  <2>3. CASE o = rows[j].order
    BY <1>4, <2>1, <2>3
  <2>4. CASE o # rows[j].order
    BY <2>1, <2>2, <2>4
  <2> QED BY <2>3, <2>4
<1>6. \E k \in DOMAIN rows : IsFirst(rows, OfStep(rows, s), k)
  BY <1>2, <1>5 DEF S
<1> QED BY <1>6 DEF Lead, IsFirst

-----------------------------------------------------------------------------
(* What is fixed when a slot is created.                                   *)

(* The slots a step opened carry its requirement, and no slot is younger   *)
(* than the present stay.                                                  *)
Fits(row) ==
  /\ row.visit \in 1..Len(path)
  /\ ~row.escalated =>
       /\ row.mode = definition.requirement[row.step].mode
       /\ row.quorum = definition.requirement[row.step].quorum

RowsFit == \A i \in DOMAIN approvals : Fits(approvals[i])

(* b is a with its status or vote changed.                                 *)
SameSlot(a, b) ==
  /\ b.step = a.step /\ b.mode = a.mode /\ b.quorum = a.quorum
  /\ b.escalated = a.escalated /\ b.visit = a.visit

LEMMA CarriedSameSlot ==
  ASSUME NEW old \in Seq(Approval), NEW new, Carried(old, new)
  PROVE  \A j \in DOMAIN old : j \in DOMAIN new /\ SameSlot(old[j], new[j])
<1> SUFFICES ASSUME NEW j \in DOMAIN old
             PROVE  j \in DOMAIN new /\ SameSlot(old[j], new[j])
  OBVIOUS
<1>1. j \in 1..Len(old) /\ old[j] \in Approval
  OBVIOUS
<1>2. \/ new[j] = old[j]
      \/ new[j] = [old[j] EXCEPT !.status = "CANCELLED"]
  BY <1>1 DEF Carried
<1>3. SameSlot(old[j], new[j])
  BY <1>1, <1>2 DEF SameSlot, Approval
<1> QED BY <1>3, CarriedDecided

LEMMA VotedSameSlot ==
  ASSUME TypeOK, NEW u \in Users, NEW i \in DOMAIN approvals,
         NEW d \in 0..Len(delegations), NEW status \in Decided
  PROVE  LET rows == Voted(u, i, d, status)
         IN  /\ DOMAIN rows = DOMAIN approvals
             /\ \A j \in DOMAIN approvals : SameSlot(approvals[j], rows[j])
<1> DEFINE rows == Voted(u, i, d, status)
<1>1. /\ rows \in Seq(Approval) /\ Len(rows) = Len(approvals)
      /\ \A j \in 1..Len(approvals) :
           rows[j] = IF j = i THEN WithVote(approvals[i], u, d, status)
                     ELSE approvals[j]
  BY VotedRows
<1> HIDE DEF rows
<1>2. approvals \in Seq(Approval) /\ DOMAIN approvals = 1..Len(approvals)
  BY DEF TypeOK
<1>3. DOMAIN rows = DOMAIN approvals
  BY <1>1, <1>2
<1>4. ASSUME NEW j \in DOMAIN approvals
      PROVE  SameSlot(approvals[j], rows[j])
  <2>1. approvals[i] \in Approval
    BY <1>2
  <2>2. SameSlot(approvals[i], WithVote(approvals[i], u, d, status))
    BY <2>1 DEF SameSlot, WithVote, Approval
  <2>3. SameSlot(approvals[j], approvals[j])
    BY DEF SameSlot
  <2> QED BY <1>1, <1>2, <2>2, <2>3
<1> QED BY <1>3, <1>4 DEF rows

(***************************************************************************)
(* The three ways the rows of a step can change: a transition carries rows *)
(* over and opens slots on its target; a vote that leaves the step         *)
(* waiting; an escalation.                                                 *)
(***************************************************************************)
Moves(t, rows) ==
  /\ rows \in Seq(Approval)
  /\ DOMAIN approvals = DOMAIN rows
  /\ \A j \in DOMAIN approvals : SameSlot(approvals[j], rows[j])
  /\ ApplyTransition(t, rows)

Waits(u, i, d, status) ==
  /\ i \in Pending(current)
  /\ StepOutcome(Voted(u, i, d, status), current, i) = "partial"
  /\ approvals' = Voted(u, i, d, status)
  /\ UNCHANGED <<current, completed, path>>

LEMMA SettledMoves ==
  ASSUME TypeOK, NEW u \in Users, NEW i \in DOMAIN approvals,
         NEW d \in 0..Len(delegations), NEW status \in Decided, NEW t,
         ApplyTransition(t, Cancelled(Voted(u, i, d, status), current))
  PROVE  Moves(t, Cancelled(Voted(u, i, d, status), current))
<1> DEFINE rows == Voted(u, i, d, status)
           left == Cancelled(rows, current)
<1>1. rows \in Seq(Approval)
  BY VotedRows
<1>2. /\ DOMAIN rows = DOMAIN approvals
      /\ \A j \in DOMAIN approvals : SameSlot(approvals[j], rows[j])
  BY VotedSameSlot
<1> HIDE DEF rows
<1>3. /\ left \in Seq(Approval) /\ Len(left) = Len(rows)
      /\ \A j \in DOMAIN rows : SameSlot(rows[j], left[j])
  <2>1. /\ left \in Seq(Approval) /\ Len(left) = Len(rows)
        /\ Carried(rows, left)
    BY <1>1, CancelledRows, CancelledCarried
  <2> HIDE DEF left
  <2> QED BY <1>1, <2>1, CarriedSameSlot
<1> HIDE DEF left
<1>4. DOMAIN left = DOMAIN approvals
  BY <1>1, <1>2, <1>3
<1> QED BY <1>2, <1>3, <1>4 DEF Moves, SameSlot, rows, left

(* A vote waits for others, or settles the step with a transition.         *)
LEMMA DecideCases ==
  ASSUME TypeOK, NEW u \in Users, NEW action, NEW status \in Decided,
         Decide(u, action, status)
  PROVE  \/ \E t \in definition.transitions : \E rows : Moves(t, rows)
         \/ \E i \in DOMAIN approvals, d \in 0..Len(delegations) :
              Waits(u, i, d, status)
<1>1. PICK i \in DOMAIN approvals, d \in 0..Len(delegations) :
        /\ Candidate(u, i, d)
        /\ SelfApprovalAllowed(approvals[i], Authority(u, d))
        /\ \/ /\ StepOutcome(Voted(u, i, d, status), current, i) = "partial"
              /\ approvals' = Voted(u, i, d, status)
              /\ UNCHANGED <<current, completed, path>>
           \/ \E outcome : Settle(outcome, Authority(u, d),
                                 Voted(u, i, d, status))
  BY DEF Decide
<1>2. i \in Pending(current)
  BY <1>1, CandidateBallot DEF Ballot
<1>3. ASSUME NEW outcome,
             Settle(outcome, Authority(u, d), Voted(u, i, d, status))
      PROVE  \E t \in definition.transitions : \E rows : Moves(t, rows)
  <2>1. PICK t \in definition.transitions :
          ApplyTransition(t, Cancelled(Voted(u, i, d, status), current))
    BY <1>3 DEF Settle, Resolved, Passing, Judged
  <2> QED BY <2>1, SettledMoves
<1> QED BY <1>1, <1>2, <1>3 DEF Waits

LEMMA StepCases ==
  ASSUME TypeOK, [Next]_vars
  PROVE  \/ UNCHANGED <<current, completed, path, approvals>>
         \/ ~Started /\ UNCHANGED <<path, approvals>>
         \/ \E t \in definition.transitions : \E rows : Moves(t, rows)
         \/ \E u \in Users, i \in DOMAIN approvals, d \in 0..Len(delegations),
              status \in Decided : Waits(u, i, d, status)
         \/ \E u \in Actors, who \in Escalees : Escalate(u, who)
<1>1. ASSUME NEW u \in Actors, NEW action, Execute(u, action)
      PROVE  \E t \in definition.transitions : Moves(t, approvals)
  BY <1>1 DEF Execute, Resolved, Passing, Judged, Moves, SameSlot, TypeOK
<1>2. \A u \in Users : Approve(u) \/ Reject(u) =>
        \E status \in Decided : \E action : Decide(u, action, status)
  BY DEF Approve, Reject, Decided
<1>3. \/ UNCHANGED <<current, completed, path, approvals>>
      \/ ~Started /\ UNCHANGED <<path, approvals>>
      \/ \E u \in Actors : \E action : Execute(u, action)
      \/ \E u \in Users, status \in Decided : \E action : Decide(u, action, status)
      \/ \E u \in Actors, who \in Escalees : Escalate(u, who)
  BY <1>2 DEF Next, vars, Start, Delegate, Lapse, EditObject
<1> QED BY <1>1, <1>3, DecideCases

LEMMA RowsFitInvariant == Spec => []RowsFit
<1>1. Init => RowsFit
  BY DEF Init, RowsFit
<1>2. Life /\ RowsFit /\ [Next]_vars => RowsFit'
  <2> SUFFICES ASSUME Life, RowsFit, [Next]_vars, NEW i \in DOMAIN approvals'
               PROVE  Fits(approvals[i])'
    BY DEF RowsFit, Fits
  <2>1. TypeOK /\ TypeOK' /\ definition' = definition
    BY NextType, StepLife DEF Life
  <2>2. ASSUME i \in DOMAIN approvals, SameSlot(approvals[i], approvals'[i]),
               Len(path') >= Len(path)
        PROVE  Fits(approvals[i])'
    <3>1. Len(path) \in Nat /\ Len(path') \in Nat
      BY <2>1 DEF TypeOK
    <3> QED BY <2>1, <2>2, <3>1 DEF RowsFit, Fits, SameSlot
  <2>3. ASSUME UNCHANGED <<path, approvals>>
        PROVE  Fits(approvals[i])'
    BY <2>1, <2>3 DEF RowsFit, Fits
  <2>4. ASSUME NEW t \in definition.transitions, NEW rows, Moves(t, rows)
        PROVE  Fits(approvals[i])'
    <3>1. /\ rows \in Seq(Approval) /\ ApplyTransition(t, rows)
          /\ \A j \in 1..Len(rows) : approvals'[j] = rows[j]
          /\ \A j \in DOMAIN approvals' \ 1..Len(rows) :
               OpenedAs(approvals'[j], t.target)
      BY <2>1, <2>4, AppliedRows DEF Moves
    <3>2. Len(path') = Len(path) + 1 /\ Len(path) \in Nat
      <4>1. t \in Transition /\ path \in Seq(Transition)
        BY <2>1, <3>1, AppliedType DEF TypeOK
      <4> QED BY <3>1, <4>1 DEF ApplyTransition
    <3>3. CASE i \in 1..Len(rows)
      <4>1. i \in DOMAIN approvals /\ SameSlot(approvals[i], approvals'[i])
        BY <2>4, <3>1, <3>3 DEF Moves
      <4> QED BY <2>2, <3>2, <4>1
    <3>4. CASE i \notin 1..Len(rows)
      <4>1. OpenedAs(approvals'[i], t.target)
        BY <3>1, <3>4
      <4> QED BY <2>1, <3>2, <4>1 DEF OpenedAs, Fits
    <3> QED BY <3>3, <3>4
  <2>5. ASSUME NEW u \in Users, NEW v \in DOMAIN approvals,
               NEW d \in 0..Len(delegations), NEW status \in Decided,
               Waits(u, v, d, status)
        PROVE  Fits(approvals[i])'
    <3>1. /\ i \in DOMAIN approvals /\ SameSlot(approvals[i], approvals'[i])
          /\ path' = path
      BY <2>1, <2>5, VotedSameSlot DEF Waits
    <3> QED BY <2>1, <2>2, <3>1 DEF TypeOK
  <2>6. ASSUME NEW u \in Actors, NEW who \in Escalees, Escalate(u, who)
        PROVE  Fits(approvals[i])'
    <3>1. /\ Carried(approvals, approvals')
          /\ Len(approvals') = Len(approvals) + 1
          /\ approvals'[Len(approvals) + 1].escalated
          /\ approvals'[Len(approvals) + 1].visit = Len(path)
      BY <2>1, <2>6, EscalatedRows
    <3>2. path' = path /\ Len(path) \in Nat
      BY <2>1, <2>6 DEF Escalate, TypeOK
    <3>3. CASE i \in DOMAIN approvals
      <4>1. SameSlot(approvals[i], approvals'[i])
        BY <2>1, <3>1, <3>3, CarriedSameSlot DEF TypeOK
      <4> QED BY <2>2, <3>2, <3>3, <4>1
    <3>4. CASE i \notin DOMAIN approvals
      <4>1. i = Len(approvals) + 1
        BY <2>1, <3>1, <3>4 DEF TypeOK
      <4>2. Len(path) >= 1
        <5>1. PICK p \in DOMAIN approvals : TRUE
          BY <2>6 DEF Escalate, Pending, WithStatus, OfStep
        <5> QED BY <3>2, <5>1 DEF RowsFit, Fits
      <4> QED BY <3>1, <3>2, <4>1, <4>2 DEF Fits
    <3> QED BY <3>3, <3>4
  <2> QED BY <2>1, <2>3, <2>4, <2>5, <2>6, StepCases
<1> QED BY <1>1, <1>2, LifeInvariant, PTL DEF Spec

-----------------------------------------------------------------------------
(* Waiting.                                                                *)

(* The slots of a pristine step are judged by its requirement.             *)
LEMMA LeadRule ==
  ASSUME Life, RowsFit, Pristine, OfStep(approvals, current) # {},
         NEW rows \in Seq(Approval), DOMAIN rows = DOMAIN approvals,
         \A j \in DOMAIN approvals : SameSlot(approvals[j], rows[j])
  PROVE  /\ OfStep(rows, current) = OfStep(approvals, current)
         /\ Lead(rows, current).mode = definition.requirement[current].mode
         /\ Lead(rows, current).quorum = definition.requirement[current].quorum
<1>1. OfStep(rows, current) = OfStep(approvals, current)
  BY DEF OfStep, SameSlot
<1>2. PICK i \in OfStep(rows, current) : Lead(rows, current) = rows[i]
  BY <1>1, LeadIsOfStep
<1>3. i \in DOMAIN approvals /\ approvals[i].step = current
  BY <1>1, <1>2 DEF OfStep
<1>4. ~approvals[i].escalated
  BY <1>1, <1>2 DEF Pristine
<1> QED BY <1>1, <1>2, <1>3, <1>4 DEF RowsFit, Fits, SameSlot

(* A pristine step that waits carries no vote that should have settled it. *)
THEOREM BallotWaits == Spec => []WaitingBallot
<1>1. Init => WaitingBallot
  BY DEF Init, WaitingBallot, Entered
<1>2. Life /\ RowsFit /\ RowsFit' /\ WaitingBallot /\ [Next]_vars => WaitingBallot'
  <2> SUFFICES ASSUME Life, RowsFit, RowsFit', WaitingBallot, [Next]_vars
               PROVE  WaitingBallot'
    OBVIOUS
  <2>1. TypeOK /\ TypeOK' /\ definition' = definition
    BY NextType, StepLife DEF Life
  <2>2. CASE UNCHANGED <<current, completed, path, approvals>>
    BY <2>1, <2>2
    DEF WaitingBallot, Entered, Pristine, WithStatus, OfStep
  <2>3. CASE ~Started /\ UNCHANGED <<path, approvals>>
    BY <2>3 DEF Life, Unstarted, WaitingBallot, Entered
  <2>4. ASSUME NEW t \in definition.transitions, NEW rows, Moves(t, rows)
        PROVE  WaitingBallot'
    <3>1. /\ ApplyTransition(t, rows) /\ rows \in Seq(Approval)
          /\ \A j \in 1..Len(rows) : approvals'[j] = rows[j]
          /\ \A j \in DOMAIN approvals' \ 1..Len(rows) :
               OpenedAs(approvals'[j], t.target)
      BY <2>1, <2>4, AppliedRows DEF Moves
    <3>2. current' = t.target /\ current' \in States
      BY <2>1, <3>1, AppliedType DEF ApplyTransition
    <3>3. Len(path') = Len(path) + 1 /\ Len(path) \in Nat
      <4>1. t \in Transition /\ path \in Seq(Transition)
        BY <2>1, <3>1, AppliedType DEF TypeOK
      <4> QED BY <3>1, <4>1 DEF ApplyTransition
    <3>4. ASSUME Pristine', NEW j \in DOMAIN approvals',
                 approvals'[j].step = current'
          PROVE  approvals'[j].status = "PENDING"
      <4>1. approvals'[j].visit = Len(path) + 1
        BY <3>3, <3>4 DEF Pristine, OfStep
      <4>2. j \notin 1..Len(rows)
        <5> SUFFICES ASSUME j \in 1..Len(rows) PROVE FALSE
          OBVIOUS
        <5>1. j \in DOMAIN approvals /\ SameSlot(approvals[j], approvals'[j])
          BY <2>4, <3>1 DEF Moves
        <5>2. approvals[j].visit \in 1..Len(path)
          BY <5>1 DEF RowsFit, Fits
        <5> QED BY <3>3, <4>1, <5>1, <5>2 DEF SameSlot
      <4> QED BY <3>1, <4>2 DEF OpenedAs
    <3>5. ASSUME Pristine'
          PROVE  /\ WithStatus(approvals', current', {"REJECTED", "CANCELLED"}) = {}
                 /\ WithStatus(approvals', current', {"APPROVED"}) = {}
      BY <3>4, <3>5 DEF WithStatus, OfStep
    <3>6. definition.requirement[current'].mode = "QUORUM" =>
            definition.requirement[current'].quorum >= 1
      BY <2>1, <3>2, DefinitionsAssumption DEF TypeOK
    <3>7. /\ definition.requirement[current'].quorum \in Nat
          /\ Cardinality({}) = 0
      BY <2>1, <3>2, DefinitionsAssumption, FS_EmptySet
      DEF TypeOK, Workflow, Requirement
    <3> QED BY <2>1, <3>5, <3>6, <3>7 DEF WaitingBallot
  <2>5. ASSUME NEW u \in Users, NEW i \in DOMAIN approvals,
               NEW d \in 0..Len(delegations), NEW status \in Decided,
               Waits(u, i, d, status), Entered', ~completed', Pristine'
        PROVE  LET rule == definition.requirement[current]
                   approved == WithStatus(approvals', current, {"APPROVED"})
               IN  /\ WithStatus(approvals', current,
                                 {"REJECTED", "CANCELLED"}) = {}
                   /\ rule.mode = "ANY" => approved = {}
                   /\ rule.mode = "QUORUM" => Cardinality(approved) < rule.quorum
    <3> DEFINE rule == definition.requirement[current]
    <3>1. /\ approvals' = Voted(u, i, d, status)
          /\ StepOutcome(approvals', current, i) = "partial"
          /\ UNCHANGED <<current, completed, path>>
      BY <2>5 DEF Waits
    <3>2. /\ approvals' \in Seq(Approval) /\ DOMAIN approvals' = DOMAIN approvals
          /\ \A j \in DOMAIN approvals : SameSlot(approvals[j], approvals'[j])
      BY <2>1, <3>1, VotedSameSlot DEF TypeOK
    <3>3. Pristine /\ Entered /\ ~completed
      BY <2>5, <3>1, <3>2 DEF Pristine, Entered, OfStep, SameSlot
    <3>4. i \in OfStep(approvals, current)
      BY <2>5 DEF Waits, Pending, WithStatus
    <3>5. /\ Lead(approvals', current).mode = rule.mode
          /\ Lead(approvals', current).quorum = rule.quorum
      BY <3>2, <3>3, <3>4, LeadRule
    <3>6. /\ rule.mode # "ANY"
          /\ ~Vetoed(approvals', current)
          /\ rule.mode = "QUORUM" => ~QuorumMet(approvals', current)
      BY <3>1, <3>5 DEF StepOutcome
    <3>7. WithStatus(approvals', current, {"REJECTED", "CANCELLED"}) = {}
      <4> SUFFICES ASSUME NEW j \in OfStep(approvals', current),
                          approvals'[j].status \in {"REJECTED", "CANCELLED"}
                   PROVE  FALSE
        BY DEF WithStatus
      <4>1. approvals'[j].status = "CANCELLED"
        BY <3>6 DEF Vetoed, WithStatus
      <4>2. j \in OfStep(approvals, current)
        BY <3>2 DEF OfStep, SameSlot
      <4>3. approvals[j].status # "CANCELLED"
        BY <3>3, <4>2 DEF WaitingBallot, WithStatus
      <4>4. j \in 1..Len(approvals) /\ approvals[i] \in Approval
        BY <2>1, <4>2 DEF OfStep, TypeOK
      <4>5. Voted(u, i, d, status)[j] =
              IF j = i THEN WithVote(approvals[i], u, d, status) ELSE approvals[j]
        BY <2>1, <4>4, VotedRows
      <4>6. WithVote(approvals[i], u, d, status).status # "CANCELLED"
        BY <4>4 DEF WithVote, Approval, Decided
      <4> QED BY <3>1, <4>1, <4>3, <4>5, <4>6
    <3>8. rule.mode = "QUORUM" =>
            Cardinality(WithStatus(approvals', current, {"APPROVED"})) < rule.quorum
      <4>1. IsFiniteSet(WithStatus(approvals', current, {"APPROVED"}))
        <5>1. IsFiniteSet(DOMAIN approvals')
          BY <3>2, FS_Interval
        <5> QED BY <5>1, FS_Subset DEF WithStatus, OfStep
      <4>2. Cardinality(WithStatus(approvals', current, {"APPROVED"})) \in Nat
        BY <4>1, FS_CardinalityType
      <4>3. current \in States
        <5>1. approvals[i] \in Approval /\ approvals[i].step = current
          BY <2>1, <3>4 DEF OfStep, TypeOK
        <5> QED BY <5>1 DEF Approval
      <4>4. rule.quorum \in Nat
        <5>1. definition.requirement \in [States -> Requirement]
          BY <2>1, DefinitionsAssumption DEF TypeOK, Workflow
        <5> QED BY <4>3, <5>1 DEF Requirement
      <4> QED BY <3>5, <3>6, <4>2, <4>4 DEF QuorumMet
    <3> QED BY <3>6, <3>7, <3>8
  <2>6. ASSUME NEW u \in Actors, NEW who \in Escalees, Escalate(u, who)
        PROVE  ~Pristine'
    <3>1. /\ Len(approvals) + 1 \in DOMAIN approvals'
          /\ approvals'[Len(approvals) + 1].escalated
          /\ approvals'[Len(approvals) + 1].step = current
      BY <2>1, <2>6, EscalatedRows DEF TypeOK
    <3>2. current' = current
      BY <2>6 DEF Escalate
    <3> QED BY <3>1, <3>2 DEF Pristine, OfStep
  <2>7. ASSUME NEW u \in Users, NEW i \in DOMAIN approvals,
               NEW d \in 0..Len(delegations), NEW status \in Decided,
               Waits(u, i, d, status)
        PROVE  WaitingBallot'
    BY <2>1, <2>5, <2>7 DEF WaitingBallot, Waits
  <2> QED BY <2>1, <2>2, <2>3, <2>4, <2>6, <2>7, StepCases DEF WaitingBallot
<1> QED BY <1>1, <1>2, LifeInvariant, RowsFitInvariant, PTL DEF Spec

-----------------------------------------------------------------------------
(* Settling.                                                               *)

(* A call in which a slot of the step becomes decided is a vote on some    *)
(* slot i, which leaves the step waiting or runs one of its transitions.   *)
LEMMA VoteIsDecision ==
  ASSUME TypeOK, Next, VoteCast
  PROVE  \E u \in Users, i \in Pending(current), d \in 0..Len(delegations),
            status \in Decided :
           LET rows == Voted(u, i, d, status)
               outcome == StepOutcome(rows, current, i)
           IN  /\ ~completed
               /\ \/ UNCHANGED path
                  \/ /\ outcome # "partial"
                     /\ \E t \in definition.transitions :
                          /\ t.name = IF outcome = "advance" THEN "approve"
                                      ELSE "reject"
                          /\ ApplyTransition(t, Cancelled(rows, current))
<1>1. ~Carried(approvals, approvals')
  <2> SUFFICES ASSUME Carried(approvals, approvals') PROVE FALSE
    OBVIOUS
  <2>1. PICK i \in DOMAIN approvals :
          approvals[i].status = "PENDING" /\ approvals'[i].status \in Decided
    BY DEF VoteCast, OfStep
  <2>2. i \in DOMAIN approvals' /\ approvals'[i] = approvals[i]
    BY <2>1, CarriedDecided DEF TypeOK
  <2> QED BY <2>1, <2>2 DEF Decided
<1>2. ~UNCHANGED approvals
  BY DEF VoteCast, Decided
<1>3. ASSUME NEW u \in Actors, NEW action, Execute(u, action)
      PROVE  Carried(approvals, approvals')
  BY <1>3, AppliedRows DEF Execute, Resolved, Passing, Judged, TypeOK
<1>4. ASSUME NEW u \in Actors, NEW who \in Escalees, Escalate(u, who)
      PROVE  Carried(approvals, approvals')
  BY <1>4, EscalatedRows
<1>5. PICK u \in Users, status \in Decided : \E action : Decide(u, action, status)
  BY <1>1, <1>2, <1>3, <1>4
  DEF Next, Start, Approve, Reject, Delegate, Lapse, EditObject, Decided
<1>6. PICK i \in DOMAIN approvals, d \in 0..Len(delegations) :
        /\ Candidate(u, i, d)
        /\ SelfApprovalAllowed(approvals[i], Authority(u, d))
        /\ LET rows == Voted(u, i, d, status)
               outcome == StepOutcome(rows, current, i)
           IN  \/ UNCHANGED path
               \/ /\ outcome # "partial"
                  /\ Settle(outcome, Authority(u, d), rows)
  BY <1>5 DEF Decide
<1>7. i \in Pending(current)
  BY <1>6, CandidateBallot DEF Ballot
<1>8. ~completed
  BY <1>5 DEF Decide, Open
<1> QED BY <1>6, <1>7, <1>8 DEF Settle, Resolved, Passing, Judged

(* What settling does to the slots of the step: their votes are those of   *)
(* `rows`, and the rows put in place keep them.                            *)
LEMMA SettledVotes ==
  ASSUME TypeOK, NEW u \in Users, NEW i \in DOMAIN approvals,
         NEW d \in 0..Len(delegations), NEW status \in Decided,
         NEW t \in definition.transitions,
         ApplyTransition(t, Cancelled(Voted(u, i, d, status), current))
  PROVE  \A j \in DOMAIN approvals, v \in Decided :
           approvals'[j].status = v <=> Voted(u, i, d, status)[j].status = v
<1> DEFINE rows == Voted(u, i, d, status)
           left == Cancelled(rows, current)
<1>1. rows \in Seq(Approval) /\ Len(rows) = Len(approvals)
  BY VotedRows
<1> HIDE DEF rows
<1>2. /\ left \in Seq(Approval) /\ Len(left) = Len(rows)
      /\ \A j \in 1..Len(rows) :
           left[j] = IF rows[j].step = current /\ rows[j].status = "PENDING"
                     THEN [rows[j] EXCEPT !.status = "CANCELLED"] ELSE rows[j]
  BY <1>1, CancelledRows
<1> HIDE DEF left
<1>3. \A j \in 1..Len(left) : approvals'[j] = left[j]
  <2>1. ApplyTransition(t, left)
    BY DEF left, rows
  <2> QED BY <1>2, <2>1, AppliedRows
<1>4. ASSUME NEW j \in DOMAIN approvals, NEW v \in Decided
      PROVE  approvals'[j].status = v <=> rows[j].status = v
  <2>1. j \in 1..Len(rows) /\ rows[j] \in Approval
    BY <1>1 DEF TypeOK
  <2>2. approvals'[j] = left[j]
    BY <1>2, <1>3, <2>1
  <2> QED BY <1>2, <2>1, <2>2 DEF Decided, Approval
<1> QED BY <1>4 DEF rows

(* A vote moves a pristine step on when its requirement is met, and to     *)
(* rejection when it can no longer be.                                     *)
THEOREM BallotAlwaysHonoured == Spec => BallotHonoured
<1> DEFINE rule == definition.requirement[current]
           ballot == OfStep(approvals, current)
           approved == {j \in ballot : approvals'[j].status = "APPROVED"}
           rejected == {j \in ballot : approvals'[j].status = "REJECTED"}
<1>1. Life /\ RowsFit /\ WaitingBallot /\ [Next]_vars =>
        [VoteCast /\ Pristine => LeftByRule]_vars
  <2> SUFFICES ASSUME Life, RowsFit, WaitingBallot, Next, VoteCast, Pristine
               PROVE  LeftByRule
    OBVIOUS
  <2>1. TypeOK
    BY DEF Life
  <2>2. PICK u \in Users, i \in Pending(current), d \in 0..Len(delegations),
             status \in Decided :
          LET rows == Voted(u, i, d, status)
              outcome == StepOutcome(rows, current, i)
          IN  /\ ~completed
              /\ \/ UNCHANGED path
                 \/ /\ outcome # "partial"
                    /\ \E t \in definition.transitions :
                         /\ t.name = IF outcome = "advance" THEN "approve"
                                     ELSE "reject"
                         /\ ApplyTransition(t, Cancelled(rows, current))
    BY <2>1, VoteIsDecision
  <2>3. i \in ballot /\ approvals[i].status = "PENDING" /\ i \in DOMAIN approvals
    BY DEF Pending, WithStatus, OfStep
  <2> DEFINE rows == Voted(u, i, d, status)
             outcome == StepOutcome(rows, current, i)
  <2>4. CASE UNCHANGED path
    BY <2>4 DEF LeftBy, LeftByRule
  <2>5. ASSUME NEW t \in definition.transitions, outcome # "partial",
               t.name = IF outcome = "advance" THEN "approve" ELSE "reject",
               ApplyTransition(t, Cancelled(rows, current))
        PROVE  LeftByRule
    <3>1. /\ rows \in Seq(Approval) /\ DOMAIN rows = DOMAIN approvals
          /\ \A j \in DOMAIN approvals : SameSlot(approvals[j], rows[j])
      BY <2>1, <2>3, VotedRows, VotedSameSlot
    <3>2. /\ OfStep(rows, current) = ballot
          /\ Lead(rows, current).mode = rule.mode
          /\ Lead(rows, current).quorum = rule.quorum
      BY <2>3, <3>1, LeadRule
    <3>3. /\ approved = WithStatus(rows, current, {"APPROVED"})
          /\ rejected = WithStatus(rows, current, {"REJECTED"})
      <4>1. \A j \in DOMAIN approvals :
              /\ approvals'[j].status = "APPROVED" <=> rows[j].status = "APPROVED"
              /\ approvals'[j].status = "REJECTED" <=> rows[j].status = "REJECTED"
        BY <2>1, <2>3, <2>5, SettledVotes DEF Decided
      <4> QED BY <3>2, <4>1 DEF WithStatus, OfStep
    <3>4. rows[i].status = status
          /\ \A j \in ballot \ {i} : rows[j] = approvals[j]
      <4>1. approvals[i] \in Approval /\ \A j \in ballot : j \in 1..Len(approvals)
        BY <2>1, <2>3 DEF OfStep, TypeOK
      <4>2. \A j \in 1..Len(approvals) :
              rows[j] = IF j = i THEN WithVote(approvals[i], u, d, status)
                        ELSE approvals[j]
        BY <2>1, <2>3, VotedRows
      <4>3. WithVote(approvals[i], u, d, status).status = status
        BY <4>1 DEF WithVote, Approval
      <4> QED BY <2>3, <4>1, <4>2, <4>3
    <3> HIDE DEF rows
    <3>5. /\ \A j \in ballot : rows[j].status # "CANCELLED"
          /\ \A j \in ballot : rows[j].status = "REJECTED" => j = i
          /\ rule.mode = "ANY" =>
               \A j \in ballot : rows[j].status = "APPROVED" => j = i
      <4>1. Entered /\ ~completed
        BY <2>1, <2>2, <2>3, EmptySeq DEF Life, RowsFit, Fits, Entered, TypeOK
      <4>2. /\ WithStatus(approvals, current, {"REJECTED", "CANCELLED"}) = {}
            /\ rule.mode = "ANY" =>
                 WithStatus(approvals, current, {"APPROVED"}) = {}
        BY <4>1 DEF WaitingBallot
      <4> QED BY <2>3, <3>4, <4>2 DEF WithStatus, OfStep, Decided
    <3>6. rule.mode \in Modes /\ rule.quorum \in Nat
      <4>1. approvals[i] \in Approval /\ approvals[i].step = current
        BY <2>1, <2>3 DEF OfStep, TypeOK
      <4>2. current \in States
        BY <4>1 DEF Approval
      <4>3. definition.requirement \in [States -> Requirement]
        BY <2>1, DefinitionsAssumption DEF TypeOK, Workflow
      <4> QED BY <4>2, <4>3 DEF Requirement
    <3>7. /\ LeftBy("approve") => outcome = "advance"
          /\ LeftBy("reject") => outcome # "advance" /\ outcome # "partial"
      <4>1. path' = Append(path, t) /\ path \in Seq(Transition) /\ t \in Transition
        BY <2>1, <2>5, AppliedType DEF ApplyTransition, TypeOK
      <4>2. path'[Len(path')] = t
        BY <4>1
      <4> QED BY <2>5, <4>2 DEF LeftBy
    <3>8. ASSUME Exhausted(rows, current), ~Vetoed(rows, current)
          PROVE  approved = ballot
      <4>1. \A j \in ballot : rows[j] \in Approval
        BY <3>1 DEF OfStep
      <4> QED BY <3>2, <3>3, <3>5, <3>8, <4>1
          DEF Exhausted, Vetoed, WithStatus, OfStep, Approval, Statuses
    <3>9. ~Vetoed(rows, current) <=> rejected = {}
      BY <3>3 DEF Vetoed
    <3>10. CASE rule.mode = "ANY"
      <4>1. outcome = IF rows[i].status = "APPROVED" THEN "advance" ELSE "reject"
        BY <3>2, <3>10 DEF StepOutcome
      <4>2. CASE status = "APPROVED"
        <5>1. approved = {i} /\ rejected = {}
          BY <2>3, <3>2, <3>3, <3>4, <3>5, <3>10, <4>2 DEF WithStatus
        <5> QED BY <3>4, <3>7, <3>10, <4>1, <4>2, <5>1, FS_Singleton
            DEF LeftByRule
      <4>3. CASE status = "REJECTED"
        <5>1. i \in rejected
          BY <2>3, <3>2, <3>3, <3>4, <4>3 DEF WithStatus
        <5> QED BY <3>4, <3>7, <4>1, <4>3, <5>1 DEF LeftByRule
      <4> QED BY <4>2, <4>3 DEF Decided
    <3>11. CASE rule.mode = "ALL"
      <4>1. outcome = IF Vetoed(rows, current) THEN "reject"
                      ELSE IF Exhausted(rows, current) THEN "advance"
                      ELSE "partial"
        BY <3>2, <3>11 DEF StepOutcome
      <4> QED BY <3>7, <3>8, <3>9, <3>11, <4>1 DEF LeftByRule
    <3>12. CASE rule.mode = "QUORUM"
      <4>1. outcome = IF Vetoed(rows, current) THEN "reject"
                      ELSE IF QuorumMet(rows, current) THEN "advance"
                      ELSE IF Exhausted(rows, current) THEN "reject"
                      ELSE "partial"
        BY <3>2, <3>12 DEF StepOutcome
      <4>2. QuorumMet(rows, current) <=> Cardinality(approved) >= rule.quorum
        BY <3>2, <3>3 DEF QuorumMet
      <4>3. Cardinality(approved) \in Nat
        <5>1. IsFiniteSet(DOMAIN approvals)
          BY <2>1, FS_Interval DEF TypeOK
        <5>2. IsFiniteSet(approved)
          BY <5>1, FS_Subset DEF OfStep
        <5> QED BY <5>2, FS_CardinalityType
      <4>4. CASE outcome = "advance"
        BY <3>7, <3>9, <3>12, <4>1, <4>2, <4>4 DEF LeftByRule
      <4>5. CASE outcome # "advance"
        <5>1. LeftBy("reject") => Vetoed(rows, current) \/
                (~QuorumMet(rows, current) /\ Exhausted(rows, current))
          BY <3>7, <4>1, <4>5
        <5>2. ASSUME ~Vetoed(rows, current), ~QuorumMet(rows, current),
                     Exhausted(rows, current)
              PROVE  Cardinality(ballot) < rule.quorum
          <6>1. Cardinality(ballot) = Cardinality(approved)
            BY <3>8, <5>2
          <6>2. ~(Cardinality(approved) >= rule.quorum)
            BY <4>2, <5>2
          <6> HIDE DEF ballot, approved, rule
          <6> QED BY <3>6, <4>3, <6>1, <6>2
        <5> QED BY <3>7, <3>9, <3>12, <4>5, <5>1, <5>2 DEF LeftByRule
      <4> QED BY <4>4, <4>5
    <3> QED BY <3>6, <3>10, <3>11, <3>12 DEF Modes
  <2> QED BY <2>2, <2>4, <2>5
<1> QED BY <1>1, LifeInvariant, RowsFitInvariant, BallotWaits, PTL
    DEF Spec, BallotHonoured
=============================================================================
