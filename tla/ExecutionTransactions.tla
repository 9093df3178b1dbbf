----------------------- MODULE ExecutionTransactions -----------------------
(***************************************************************************)
(* Concurrent requests on one execution, each served by a process of its   *)
(* own, at the grain of database transactions.  Executing, deciding,       *)
(* delegating and escalating share one shape: inside capture() and         *)
(* transaction.atomic(), lock the execution row, validate what was read    *)
(* under the lock, write, commit; after the commit the captured events     *)
(* are dispatched.  start_execution has no transaction around it: it       *)
(* inserts the row and then its audit record.  The database may answer any *)
(* statement with an error, and a process may crash between any two steps. *)
(***************************************************************************)
EXTENDS Integers, Sequences, FiniteSets

CONSTANTS
  Requests,   \* the calls made, one process each
  Starters,   \* those of them that call start_execution
  Rows,       \* what the execution row and the rows it guards may hold
  NoRow,      \* the execution does not exist
  Refused,    \* the operation raises
  Operation,  \* what a request makes of what it reads
  Emits,      \* how many events a request captures
  Nobody,     \* no transaction holds the row
  MaxCrashes  \* bound: processes that crash

ASSUME RequestsAssumption == Starters \subseteq Requests /\ Nobody \notin Requests
ASSUME RowsAssumption == NoRow \notin Rows /\ Refused \notin Rows
ASSUME OperationAssumption ==
  /\ Operation \in [Requests -> [Rows \cup {NoRow} -> Rows \cup {Refused}]]
  /\ \A r \in Starters :
       /\ Operation[r][NoRow] \in Rows
       /\ \A x \in Rows : Operation[r][x] = Refused
  /\ \A r \in Requests \ Starters : Operation[r][NoRow] = Refused
ASSUME EmitsAssumption == Emits \in [Requests -> Nat] /\ MaxCrashes \in Nat

VARIABLES
  locking,    \* the backend has row locks, else it detects conflicts
  row,        \* committed: the execution and its approvals
  trail,      \* committed: the audit records of state changes
  log,        \* history: the requests whose change is committed, in order
  holder,     \* the request whose transaction holds the row
  pc,         \* where each request stands
  seen,       \* the row as a request last read it, and when
  sent,       \* how many of its events a request dispatched
  answers     \* what each request was answered

database == <<locking, row, trail, log>>
vars == <<locking, row, trail, log, holder, pc, seen, sent, answers>>

Phases == {"idle", "called", "reading", "written", "inserted", "committed", "done"}

Record == [by : Requests, source : Rows \cup {NoRow}, target : Rows]

\* `at` is the number of changes committed when the row was read.
Snapshot == [row : Rows \cup {NoRow}, at : Nat]
Nothing == [row |-> NoRow, at |-> 0]
Current == [row |-> row, at |-> Len(log)]

Init ==
  /\ locking \in BOOLEAN
  /\ row = NoRow
  /\ trail = <<>>
  /\ log = <<>>
  /\ holder = Nobody
  /\ pc = [r \in Requests |-> "idle"]
  /\ seen = [r \in Requests |-> Nothing]
  /\ sent = [r \in Requests |-> 0]
  /\ answers = [r \in Requests |-> "none"]

At(r, phase) == pc[r] = phase
Goto(r, phase) == pc' = [pc EXCEPT ![r] = phase]

\* The request ends: with its result, with an exception, or in a crash.
Ended(r, answer) ==
  /\ Goto(r, "done")
  /\ seen' = [seen EXCEPT ![r] = Nothing]
  /\ answers' = [answers EXCEPT ![r] = answer]

-----------------------------------------------------------------------------
(* The row lock, or the write lock of a backend without row locks.         *)

\* Variant: the row is never locked.
AlwaysFree == TRUE

Free == holder = Nobody

\* Variant: a transaction that ends keeps the lock.
KeptBy(r) == holder

ReleasedBy(r) == IF holder = r THEN Nobody ELSE holder

-----------------------------------------------------------------------------
(* execute_transition, _decide, delegate_approval and escalate_execution.  *)

\* The caller fetches the execution; get_execution raises when there is none.
Call(r) ==
  /\ r \notin Starters
  /\ At(r, "idle")
  /\ \/ /\ row # NoRow
        /\ Goto(r, "called")
        /\ seen' = [seen EXCEPT ![r] = Current]
        /\ UNCHANGED answers
     \/ row = NoRow /\ Ended(r, "refused")
  /\ UNCHANGED <<database, holder, sent>>

\* Variant: the caller's instance is trusted.
CallersInstance(r) == seen[r]

ReadAgain(r) == Current

\* select_for_update().get(): waits for the lock where there is one.
Read(r) ==
  /\ At(r, "called")
  /\ locking => Free
  /\ holder' = IF locking THEN r ELSE holder
  /\ seen' = [seen EXCEPT ![r] = ReadAgain(r)]
  /\ Goto(r, "reading")
  /\ UNCHANGED <<database, sent, answers>>

Result(r) == Operation[r][seen[r].row]

Valid(r) == Result(r) # Refused

\* Validation under the lock fails: rolled back, events discarded.
Refuse(r) ==
  /\ At(r, "reading")
  /\ ~Valid(r)
  /\ holder' = ReleasedBy(r)
  /\ Ended(r, "refused")
  /\ UNCHANGED <<database, sent>>

\* The writes of the transaction, which no other request sees yet.
Write(r) ==
  /\ At(r, "reading")
  /\ Valid(r)
  /\ ~locking => Free /\ seen[r].at = Len(log)
  /\ holder' = r
  /\ Goto(r, "written")
  /\ UNCHANGED <<database, seen, sent, answers>>

\* "database is locked": a backend without row locks refuses the write.
Conflict(r) ==
  /\ ~locking
  /\ At(r, "reading")
  /\ Valid(r)
  /\ ~Free \/ seen[r].at # Len(log)
  /\ Ended(r, "refused")
  /\ UNCHANGED <<database, holder, sent>>

Commit(r) ==
  /\ At(r, "written")
  /\ row' = Result(r)
  /\ trail' = Append(trail,
       [by |-> r, source |-> seen[r].row, target |-> Result(r)])
  /\ log' = Append(log, r)
  /\ holder' = ReleasedBy(r)
  /\ Goto(r, "committed")
  /\ UNCHANGED <<locking, seen, sent, answers>>

-----------------------------------------------------------------------------
(* start_execution: two writes that commit one after the other.            *)

\* The unique constraint refuses a second execution for the object.
Insert(r) ==
  /\ r \in Starters
  /\ At(r, "idle")
  /\ \/ /\ row = NoRow
        /\ row' = Operation[r][NoRow]
        /\ log' = Append(log, r)
        /\ Goto(r, "inserted")
        /\ UNCHANGED <<seen, answers>>
     \/ /\ row # NoRow
        /\ Ended(r, "refused")
        /\ UNCHANGED <<row, log>>
  /\ UNCHANGED <<locking, trail, holder, sent>>

RecordStart(r) ==
  /\ At(r, "inserted")
  /\ ~locking => Free
  /\ trail' = Append(trail,
       [by |-> r, source |-> NoRow, target |-> Operation[r][NoRow]])
  /\ Goto(r, "committed")
  /\ UNCHANGED <<locking, row, log, holder, seen, sent, answers>>

\* The database answers a statement of a request with an error, in which
\* waiting for its lock may end too.  A transaction rolls back, but a start
\* that has inserted the row leaves it behind, without record and events.
DatabaseError(r) ==
  /\ ~At(r, "committed") /\ ~At(r, "done")
  /\ holder' = ReleasedBy(r)
  /\ Ended(r, "refused")
  /\ UNCHANGED <<database, sent>>

-----------------------------------------------------------------------------
(* The exit of capture(), the answer, and the crash of a process.          *)

\* Variant: events are dispatched before the transaction is committed.
DispatchesInside(r) == pc[r] \in {"written", "committed"}

Dispatches(r) == pc[r] = "committed"

Dispatch(r) ==
  /\ Dispatches(r)
  /\ sent[r] < Emits[r]
  /\ sent' = [sent EXCEPT ![r] = @ + 1]
  /\ UNCHANGED <<database, holder, pc, seen, answers>>

\* Variant: only the first event is dispatched.
FirstSent(r) == sent[r] >= 1 \/ Emits[r] = 0

AllSent(r) == sent[r] = Emits[r]

Return(r) ==
  /\ At(r, "committed")
  /\ AllSent(r)
  /\ Ended(r, "ok")
  /\ UNCHANGED <<database, holder, sent>>

\* The database rolls back what was not committed and frees the row.
Crash(r) ==
  /\ ~At(r, "idle") /\ ~At(r, "done")
  /\ Cardinality({q \in Requests : answers[q] = "lost"}) < MaxCrashes
  /\ holder' = ReleasedBy(r)
  /\ Ended(r, "lost")
  /\ UNCHANGED <<database, sent>>

-----------------------------------------------------------------------------
Proceed(r) ==
  \/ Read(r) \/ Refuse(r) \/ Write(r) \/ Conflict(r) \/ Commit(r)
  \/ RecordStart(r) \/ Dispatch(r) \/ Return(r)

Next ==
  \E r \in Requests :
    Call(r) \/ Insert(r) \/ Proceed(r) \/ DatabaseError(r) \/ Crash(r)

\* A process that serves a request goes on until it answers or crashes.
Fairness == \A r \in Requests : WF_vars(Proceed(r))

Spec == Init /\ [][Next]_vars /\ Fairness

-----------------------------------------------------------------------------
TypeOK ==
  /\ locking \in BOOLEAN
  /\ row \in Rows \cup {NoRow}
  /\ trail \in Seq(Record)
  /\ log \in Seq(Requests)
  /\ holder \in Requests \cup {Nobody}
  /\ pc \in [Requests -> Phases]
  /\ seen \in [Requests -> Snapshot]
  /\ sent \in [Requests -> Nat]
  /\ answers \in [Requests -> {"none", "ok", "refused", "lost"}]

IsMove(i) == trail[i].source # NoRow

Follows(j, i) ==
  /\ i < j /\ IsMove(i) /\ IsMove(j)
  /\ \A k \in (i + 1)..(j - 1) : ~IsMove(k)

(* The audit trail accounts for the state: every recorded change starts    *)
(* from what the one before it left, and the last one led to the row as it *)
(* is, whatever requests overlapped, conflicted or crashed.                *)
TrailChained ==
  \A i \in DOMAIN trail : IsMove(i) =>
    /\ \A j \in DOMAIN trail : Follows(j, i) => trail[j].source = trail[i].target
    /\ (\A j \in DOMAIN trail : j > i => ~IsMove(j)) => trail[i].target = row

Committed(r) == \E i \in DOMAIN log : log[i] = r

(* Handlers hear of a request only after its change is committed, so never *)
(* of one that was refused, lost a conflict or crashed before.             *)
DeliveredCommitted == \A r \in Requests : sent[r] > 0 => Committed(r)

Recorded(r) == \E i \in DOMAIN trail : trail[i].by = r

(* The answer tells the caller what became of the request: a result means  *)
(* that the change, its audit record and all its events are out, once; an  *)
(* exception that no record and no event is, and no change either, except  *)
(* that a start may have left its execution behind without them.  What a   *)
(* crashed request did is open.                                            *)
AnswerAccounts ==
  \A r \in Requests :
    /\ answers[r] = "ok" => Committed(r) /\ Recorded(r) /\ sent[r] = Emits[r]
    /\ answers[r] = "refused" =>
         /\ ~Recorded(r) /\ sent[r] = 0
         /\ Committed(r) => r \in Starters
    /\ \A i, j \in DOMAIN trail : trail[i].by = r /\ trail[j].by = r => i = j

(* Every request that is being served is answered, unless its process      *)
(* crashes: nobody waits forever for a row another request locked.         *)
Answered ==
  \A r \in Requests : (pc[r] # "idle") ~> (answers[r] # "none")

-----------------------------------------------------------------------------
Atomic == INSTANCE AtomicExecution

(* Requests behave as if each took effect in one step, at most once, on    *)
(* what the previous ones left, and were answered accordingly: an exception *)
(* leaves open only whether a start took effect.                           *)
ImplementsAtomic == Atomic!Spec
=============================================================================
