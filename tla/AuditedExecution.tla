-------------------------- MODULE AuditedExecution --------------------------
(***************************************************************************)
(* ApprovalEngine with what it leaves behind for later readers: the audit  *)
(* trail every call appends to, and the times of the rows.  An action is   *)
(* an action of ApprovalEngine together with the audit rows its handler    *)
(* writes, in the order it writes them.  The clock may advance inside a    *)
(* call: what is stamped first (a vote, completed_at) is then earlier than *)
(* the audit rows and the slots that the same call creates.  Comments and  *)
(* attachments, which no other call reads, add their rows to the trail.    *)
(* The start of an execution is two transactions: the row of the execution *)
(* and then its row of the trail, before which other calls may come and    *)
(* which is missing where the call stopped or failed between the two.      *)
(***************************************************************************)
EXTENDS ApprovalEngine, Listing

CONSTANTS
  Sla,      \* the sla of each state's requirement, Never for none
  Never,    \* a time that is NULL
  MaxSize,  \* ATTACHMENT_MAX_SIZE, 0 for no limit
  Allowed,  \* ATTACHMENT_ALLOWED_CONTENT_TYPES, {} for all
  Uploads,  \* files that may be attached
  Horizon,  \* bound: the last tick of the clock
  MaxNotes, \* bound: comments and attachments
  MaxLag    \* bound: the ticks that one call may take

ASSUME ClockAssumption ==
  /\ Never \notin Nat
  /\ Sla \in [States -> Nat \cup {Never}]
  /\ Horizon \in Nat /\ MaxLag \in Nat /\ MaxNotes \in Nat

VARIABLES
  now,           \* timezone.now()
  started_at,    \* WorkflowExecution.started_at
  completed_at,  \* WorkflowExecution.completed_at
  trail,         \* the WorkflowEvent rows, in primary-key order
  stamps,        \* the times of the Approval rows
  notes          \* the WorkflowComment and WorkflowAttachment rows

auditedVars == <<vars, now, started_at, completed_at, trail, stamps, notes>>

Times == Nat \cup {Never}

EventTypes ==
  {"workflow_started", "transition_executed", "workflow_completed",
   "approval_required", "approval_approved", "approval_rejected",
   "approval_cancelled", "approval_escalated", "approval_delegated",
   "delegation_revoked", "comment_added", "attachment_added"}

\* A field that is left empty.
NoText == ""

\* What stands for the action where no transition is run.
Verbs == {"start", "approve", "reject", "delegate", "revoke", "escalate", NoText}

\* `slot` is the approval named by the metadata, 0 when none is.
AuditRow ==
  [type : EventTypes, action : STRING \cup Verbs,
   source : States \cup {NoText}, target : States \cup {NoText},
   slot : Nat, at : Nat]

Stamp == [created : Nat, updated : Nat, due : Times]

-----------------------------------------------------------------------------
(* What a call writes.                                                     *)

Row(type, action, source, target, slot, time) ==
  [type |-> type, action |-> action, source |-> source, target |-> target,
   slot |-> slot, at |-> time]

\* Variant: the sibling that is cancelled last is not recorded.
CancellationsButLast(kept, time) ==
  LET siblings == Pending(current) \ {kept}
      slots == Ascending({i \in siblings : \E j \in siblings : j > i})
  IN  [k \in DOMAIN slots |-> Row("approval_cancelled", NoText, current, NoText, slots[k], time)]

\* _cancel_siblings, of the slots but `kept`.
Cancellations(kept, time) ==
  LET slots == Ascending(Pending(current) \ {kept})
  IN  [k \in DOMAIN slots |-> Row("approval_cancelled", NoText, current, NoText, slots[k], time)]

\* Variant: a terminal transition is recorded as a plain one.
MoveWithoutEnd(time) ==
  LET t == path'[Len(path')]
  IN  <<Row("transition_executed", t.name, t.source, t.target, 0, time)>>
      \o IF Terminal(t.target)
         THEN <<Row("transition_executed", t.name, t.source, t.target, 0, time)>>
         ELSE [k \in 1..(Len(approvals') - Len(approvals)) |->
                 Row("approval_required", t.name, t.target, NoText, Len(approvals) + k, time)]

\* apply_transition and _create_step_approvals.
Move(time) ==
  LET t == path'[Len(path')]
  IN  <<Row("transition_executed", t.name, t.source, t.target, 0, time)>>
      \o IF Terminal(t.target)
         THEN <<Row("workflow_completed", t.name, t.source, t.target, 0, time)>>
         ELSE [k \in 1..(Len(approvals') - Len(approvals)) |->
                 Row("approval_required", t.name, t.target, NoText, Len(approvals) + k, time)]

DueAt(slot, time) ==
  IF slot.escalated \/ Sla[slot.step] = Never THEN Never
  ELSE time + Sla[slot.step]

\* The times of the Approval rows once the call has saved them.
Stamped(time) ==
  [i \in DOMAIN approvals' |->
     IF i \notin DOMAIN approvals
     THEN [created |-> time, updated |-> time, due |-> DueAt(approvals'[i], time)]
     ELSE IF approvals'[i] # approvals[i]
     THEN [stamps[i] EXCEPT !.updated = now]
     ELSE stamps[i]]

\* The call ends at `time`, having appended `rows`.
Record(rows, time) ==
  /\ now' = time
  /\ trail' = trail \o rows
  /\ stamps' = Stamped(time)
  /\ completed_at' = IF completed' /\ ~completed THEN now ELSE completed_at

Ends == {time \in now..(now + MaxLag) : time <= Horizon}

-----------------------------------------------------------------------------
(* Operations.                                                             *)

Begin(u) ==
  /\ Start(u)
  /\ started_at' = now
  /\ Record(<<>>, now)
  /\ UNCHANGED notes

\* The second transaction of start_execution, with the state the row began in.
RecordStart(time) ==
  /\ Started
  /\ \A k \in DOMAIN trail : trail[k].type # "workflow_started"
  /\ UNCHANGED <<vars, started_at, notes>>
  /\ Record(<<Row("workflow_started", "start", NoText, Origin, 0, time)>>, time)

Transit(u, action, time) ==
  /\ Execute(u, action)
  /\ Record(Move(time), time)
  /\ UNCHANGED started_at

\* A vote, and if it settles the step what follows from that.
Vote(type, status, time) ==
  \E i \in Pending(current) :
    /\ approvals'[i].status = status
    /\ Record(<<Row(type, IF status = "APPROVED" THEN "approve" ELSE "reject",
                    current, NoText, i, time)>>
              \o IF path' = path THEN <<>> ELSE Cancellations(i, time) \o Move(time),
              time)
    /\ UNCHANGED started_at

Forward(granter, grantee, step, time) ==
  /\ Delegate(granter, grantee, step)
  /\ Record(<<Row("approval_delegated", "delegate", current, current, 0, time)>>, time)
  /\ UNCHANGED started_at

\* A revocation is recorded, an expiry is not.
Withdraw(d, time) ==
  /\ Lapse(d)
  /\ \/ Record(<<Row("delegation_revoked", "revoke", current, current, 0, time)>>, time)
     \/ Record(<<>>, time)
  /\ UNCHANGED started_at

Raise(u, who, time) ==
  /\ Escalate(u, who)
  /\ Record(Cancellations(0, time) \o
            <<Row("approval_escalated", "escalate", current, current, Len(approvals'),
                  time)>>, time)
  /\ UNCHANGED started_at

\* A comment or an attachment is saved, and then its row of the trail: two
\* transactions, so that the process may stop between them.
Noted(kind, time) ==
  /\ notes' = Append(notes, kind)
  /\ \/ Record(<<Row(kind, NoText, current, NoText, 0, time)>>, time)
     \/ Record(<<>>, time)

\* add_comment, by anybody and at any time
Comment(time) ==
  /\ Started /\ Len(notes) < MaxNotes
  /\ UNCHANGED <<vars, started_at>>
  /\ Noted("comment_added", time)

\* _validate_upload
Acceptable(upload) ==
  /\ MaxSize # 0 => upload.size <= MaxSize
  /\ Allowed # {} => upload.content_type \in Allowed

\* add_attachment
Attach(upload, time) ==
  /\ Started /\ Len(notes) < MaxNotes
  /\ Acceptable(upload)
  /\ UNCHANGED <<vars, started_at>>
  /\ Noted("attachment_added", time)

Tick ==
  /\ now < Horizon
  /\ now' = now + 1
  /\ UNCHANGED <<vars, started_at, completed_at, trail, stamps, notes>>

AuditedInit ==
  /\ Init
  /\ now = 0
  /\ started_at = Never
  /\ completed_at = Never
  /\ trail = <<>>
  /\ stamps = <<>>
  /\ notes = <<>>

AuditedNext ==
  \/ \E u \in Actors : Begin(u)
  \/ \E time \in Ends :
       \/ RecordStart(time)
       \/ /\ UNCHANGED notes
          /\ \/ \E u \in Actors, action \in Actions : Transit(u, action, time)
             \/ \E u \in Users : Approve(u) /\ Vote("approval_approved", "APPROVED", time)
             \/ \E u \in Users : Reject(u) /\ Vote("approval_rejected", "REJECTED", time)
             \/ \E granter, grantee \in Users, step \in States \cup {AnyStep} :
                  Forward(granter, grantee, step, time)
             \/ \E d \in DOMAIN delegations : Withdraw(d, time)
             \/ \E u \in Actors, who \in Escalees : Raise(u, who, time)
       \/ Comment(time)
       \/ \E upload \in Uploads : Attach(upload, time)
  \/ \E value \in Data : EditObject(value)
       /\ UNCHANGED <<now, started_at, completed_at, trail, stamps, notes>>
  \/ Tick

AuditedSpec == AuditedInit /\ [][AuditedNext]_auditedVars

-----------------------------------------------------------------------------
(* Invariants.                                                             *)

RowsOf(types) == At(trail, {k \in DOMAIN trail : trail[k].type \in types})

NotesOf(kind) == {k \in DOMAIN notes : notes[k] = kind}

LastAbout(i, k) ==
  /\ k \in DOMAIN trail /\ trail[k].slot = i
  /\ \A j \in DOMAIN trail : j > k => trail[j].slot # i

StatusTold(type) ==
  CASE type \in {"approval_required", "approval_escalated"} -> "PENDING"
    [] type = "approval_approved" -> "APPROVED"
    [] type = "approval_rejected" -> "REJECTED"
    [] OTHER -> "CANCELLED"

StatusAccounted ==
  \A i \in DOMAIN approvals : \E k \in DOMAIN trail :
    LastAbout(i, k) /\ StatusTold(trail[k].type) = approvals[i].status

StateAccounted ==
  LET moves == RowsOf({"transition_executed"})
      start == IF moves = <<>> THEN current ELSE moves[1].source
  IN  /\ moves # <<>> => current = moves[Len(moves)].target
      /\ \A k \in DOMAIN trail :
           trail[k].type = "workflow_started" => trail[k].target = start

CompletionAccounted ==
  /\ completed <=> completed_at # Never
  /\ completed <=> RowsOf({"workflow_completed"}) # <<>>

NotesAccounted ==
  \A kind \in {"comment_added", "attachment_added"} :
    Len(RowsOf({kind})) <= Cardinality(NotesOf(kind))

(* The trail alone accounts for the execution: the last row that names an  *)
(* approval tells its status, the last transition recorded leads to the    *)
(* current state, and completion is recorded exactly when it has happened. *)
(* However late the start is recorded, its row names the state that the    *)
(* first transition left.  What it tells of comments and attachments,      *)
(* there is.                                                               *)
TrailAccounts ==
  StatusAccounted /\ StateAccounted /\ CompletionAccounted /\ NotesAccounted
=============================================================================
