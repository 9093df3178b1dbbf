-------------------- MODULE ExecutionTransactions_proofs --------------------
(***************************************************************************)
(* Proofs about overlapping requests: type correctness, the audit trail,   *)
(* delivery after commit, truthful answers, what keeps everybody moving,   *)
(* and that ExecutionTransactions implements AtomicExecution, for any      *)
(* requests, rows and operations.                                          *)
(***************************************************************************)
EXTENDS ExecutionTransactions, TLAPS

(***************************************************************************)
(* The invariant.  A request that validates under a row lock, or has       *)
(* written, holds the row, and the row is still what it read; where there  *)
(* are no row locks, what it read is still current as long as nothing was  *)
(* committed since.                                                        *)
(***************************************************************************)
Holds(r) == pc[r] = "written" \/ (locking /\ pc[r] = "reading")

Locked ==
  \A r \in Requests :
    /\ Holds(r) => holder = r /\ seen[r].row = row
    /\ pc[r] \in {"called", "reading", "written"} =>
         row # NoRow /\ seen[r].row \in Rows
    /\ pc[r] = "reading" =>
         /\ seen[r].at <= Len(log)
         /\ seen[r].at = Len(log) => seen[r].row = row
    /\ pc[r] = "written" => Valid(r)

Logged ==
  \A r \in Requests :
    /\ pc[r] = "done" <=> answers[r] # "none"
    /\ pc[r] \in {"idle", "called", "reading", "written"} => ~Committed(r)
    /\ pc[r] \in {"inserted", "committed"} => Committed(r)
    /\ pc[r] = "inserted" => r \in Starters /\ row # NoRow

Trailed == TrailChained /\ (row = NoRow => trail = <<>>)

Inv == TypeOK /\ Locked /\ Logged /\ Trailed

-----------------------------------------------------------------------------
(* What a step does.                                                       *)

LEMMA ResultType ==
  ASSUME TypeOK, NEW r \in Requests
  PROVE  Valid(r) => Result(r) \in Rows
BY OperationAssumption DEF TypeOK, Valid, Result, Snapshot

LEMMA StarterType ==
  ASSUME NEW r \in Starters
  PROVE  Operation[r][NoRow] \in Rows
BY OperationAssumption

LEMMA EndedType ==
  ASSUME TypeOK, NEW r \in Requests,
         NEW answer \in {"ok", "refused", "lost"}, Ended(r, answer)
  PROVE  /\ pc' \in [Requests -> Phases]
         /\ seen' \in [Requests -> Snapshot]
         /\ answers' \in [Requests -> {"none", "ok", "refused", "lost"}]
BY DEF TypeOK, Ended, Goto, Phases, Nothing, Snapshot

LEMMA ReleasedType ==
  ASSUME TypeOK, NEW r
  PROVE  ReleasedBy(r) \in Requests \cup {Nobody}
BY DEF TypeOK, ReleasedBy

LEMMA NextType ==
  ASSUME TypeOK, Locked, Logged, [Next]_vars
  PROVE  TypeOK'
<1>1. ASSUME NEW r \in Requests, Call(r)
      PROVE  TypeOK'
  <2>1. CASE row # NoRow
    <3>1. /\ Goto(r, "called") /\ seen' = [seen EXCEPT ![r] = Current]
          /\ UNCHANGED <<locking, row, trail, log, holder, sent, answers>>
      BY <1>1, <2>1 DEF Call, database
    <3>2. Current \in Snapshot
      BY DEF TypeOK, Current, Snapshot
    <3> QED BY <3>1, <3>2 DEF Goto, TypeOK, Phases
  <2>2. CASE Ended(r, "refused")
    BY <1>1, <2>2, EndedType DEF Call, TypeOK, database
  <2> QED BY <1>1, <2>1, <2>2 DEF Call
<1>2. ASSUME NEW r \in Requests, Insert(r)
      PROVE  TypeOK'
  <2>1. CASE row = NoRow
    <3>1. /\ row' = Operation[r][NoRow] /\ log' = Append(log, r)
          /\ Goto(r, "inserted")
          /\ UNCHANGED <<locking, trail, holder, seen, sent, answers>>
      BY <1>2, <2>1 DEF Insert
    <3>2. row' \in Rows
      BY <1>2, <3>1, StarterType DEF Insert
    <3>3. log' \in Seq(Requests)
      BY <3>1 DEF TypeOK
    <3> QED BY <3>1, <3>2, <3>3 DEF Goto, TypeOK, Phases
  <2>2. CASE Ended(r, "refused") /\ UNCHANGED <<row, log>>
    BY <1>2, <2>2, EndedType DEF Insert, TypeOK
  <2> QED BY <1>2, <2>1, <2>2 DEF Insert
<1>3. ASSUME NEW r \in Requests, Read(r)
      PROVE  TypeOK'
  BY <1>3 DEF Read, ReadAgain, Current, Goto, TypeOK, Phases, Snapshot, database
<1>4. ASSUME NEW r \in Requests, Refuse(r)
      PROVE  TypeOK'
  BY <1>4, EndedType, ReleasedType DEF Refuse, TypeOK, database
<1>5. ASSUME NEW r \in Requests, Write(r)
      PROVE  TypeOK'
  BY <1>5 DEF Write, Goto, TypeOK, Phases, database
<1>6. ASSUME NEW r \in Requests, Conflict(r)
      PROVE  TypeOK'
  BY <1>6, EndedType DEF Conflict, TypeOK, database
<1>7. ASSUME NEW r \in Requests, Commit(r)
      PROVE  TypeOK'
  <2>1. Result(r) \in Rows
    BY <1>7, ResultType DEF Commit, At, Locked
  <2>2. [by |-> r, source |-> seen[r].row, target |-> Result(r)] \in Record
    BY <2>1 DEF TypeOK, Snapshot, Record
  <2> QED BY <1>7, <2>1, <2>2, ReleasedType DEF Commit, Goto, TypeOK, Phases
<1>8. ASSUME NEW r \in Requests, RecordStart(r)
      PROVE  TypeOK'
  <2>1. [by |-> r, source |-> NoRow, target |-> Operation[r][NoRow]] \in Record
    BY <1>8, StarterType DEF RecordStart, At, Logged, Record
  <2> QED BY <1>8, <2>1 DEF RecordStart, Goto, TypeOK, Phases
<1>9. ASSUME NEW r \in Requests, Dispatch(r)
      PROVE  TypeOK'
  BY <1>9 DEF Dispatch, TypeOK, database
<1>10. ASSUME NEW r \in Requests, Return(r)
      PROVE  TypeOK'
  BY <1>10, EndedType DEF Return, TypeOK, database
<1>11. ASSUME NEW r \in Requests, Crash(r)
      PROVE  TypeOK'
  BY <1>11, EndedType, ReleasedType DEF Crash, TypeOK, database
<1>12. ASSUME NEW r \in Requests, DatabaseError(r)
       PROVE  TypeOK'
  BY <1>12, EndedType, ReleasedType DEF DatabaseError, TypeOK, database
<1>13. CASE UNCHANGED vars
  BY <1>13 DEF TypeOK, vars
<1> QED
  BY <1>1, <1>2, <1>3, <1>4, <1>5, <1>6, <1>7, <1>8, <1>9, <1>10, <1>11, <1>12,
     <1>13
  DEF Next, Proceed

\* Appending to the log commits one request more.
LEMMA LogAppended ==
  ASSUME TypeOK, NEW r \in Requests, log' = Append(log, r)
  PROVE  /\ \A q \in Requests : Committed(q)' <=> Committed(q) \/ q = r
         /\ Len(log') = Len(log) + 1
<1>1. log \in Seq(Requests) /\ Len(log) \in Nat
  BY DEF TypeOK
<1>2. Len(log') = Len(log) + 1 /\ DOMAIN log' = 1..(Len(log) + 1)
  BY <1>1
<1>3. /\ log'[Len(log) + 1] = r
      /\ \A i \in 1..Len(log) : log'[i] = log[i]
  BY <1>1
<1>4. DOMAIN log = 1..Len(log)
  BY <1>1
<1> QED BY <1>1, <1>2, <1>3, <1>4 DEF Committed

-----------------------------------------------------------------------------
LEMMA NextLocked ==
  ASSUME TypeOK, Locked, [Next]_vars
  PROVE  Locked'
<1> USE DEF Locked, Holds
<1>1. ASSUME NEW r \in Requests, Call(r)
      PROVE  Locked'
  BY <1>1 DEF Call, At, Ended, Goto, Current, TypeOK, Valid, Result, database
<1>2. ASSUME NEW r \in Requests, Insert(r)
      PROVE  Locked'
  <2>1. CASE row = NoRow
    BY <1>2, <2>1, StarterType, RowsAssumption
    DEF Insert, At, Goto, TypeOK, Valid, Result
  <2>2. CASE Ended(r, "refused") /\ UNCHANGED <<row, log>>
    BY <1>2, <2>2 DEF Insert, At, Goto, Ended, TypeOK, Valid, Result
  <2> QED BY <1>2, <2>1, <2>2 DEF Insert
<1>3. ASSUME NEW r \in Requests, Read(r)
      PROVE  Locked'
  BY <1>3, RequestsAssumption
  DEF Read, ReadAgain, Current, Free, At, Goto, TypeOK, Valid, Result, database
<1>4. ASSUME NEW r \in Requests, Refuse(r)
      PROVE  Locked'
  BY <1>4 DEF Refuse, ReleasedBy, At, Goto, Ended, TypeOK, Valid, Result, database
<1>5. ASSUME NEW r \in Requests, Write(r)
      PROVE  Locked'
  BY <1>5, RequestsAssumption DEF Write, Free, At, Goto, TypeOK, Valid, Result, database
<1>6. ASSUME NEW r \in Requests, Conflict(r)
      PROVE  Locked'
  BY <1>6 DEF Conflict, At, Goto, Ended, TypeOK, Valid, Result, database
<1>7. ASSUME NEW r \in Requests, Commit(r)
      PROVE  Locked'
  <2>1. Len(log') = Len(log) + 1 /\ Len(log) \in Nat
    BY <1>7, LogAppended DEF Commit, TypeOK
  <2>2. row' \in Rows
    BY <1>7, ResultType DEF Commit, At
  <2>3. \A q \in Requests : q # r => ~Holds(q) /\ pc'[q] = pc[q]
    BY <1>7 DEF Commit, At, Goto, TypeOK
  <2>4. pc'[r] = "committed"
    BY <1>7 DEF Commit, Goto, TypeOK
  <2>5. UNCHANGED seen
    BY <1>7 DEF Commit
  <2>6. ASSUME NEW q \in Requests, q # r, pc[q] = "reading"
        PROVE  seen'[q].at < Len(log')
    BY <2>1, <2>5, <2>6 DEF TypeOK, Snapshot
  <2>7. ASSUME NEW q \in Requests, q # r
        PROVE  ~Holds(q)' /\ pc'[q] # "written"
    BY <1>7, <2>3, <2>7 DEF Commit
  <2>8. row' # NoRow
    BY <2>2, RowsAssumption
  <2>9. ASSUME NEW q \in Requests, pc'[q] \in {"called", "reading", "written"}
        PROVE  q # r /\ seen'[q].row \in Rows
    BY <2>3, <2>4, <2>5, <2>9
  <2>10. ASSUME NEW q \in Requests, pc'[q] = "reading"
         PROVE  seen'[q].at < Len(log')
    BY <2>3, <2>4, <2>6, <2>10
  <2>11. Len(log') \in Nat /\ \A q \in Requests : seen'[q].at \in Nat
    BY <2>1, <2>5 DEF TypeOK, Snapshot
  <2>12. ASSUME NEW q \in Requests
         PROVE  ~Holds(q)' /\ pc'[q] # "written"
    BY <2>4, <2>7
  <2> QED BY <2>8, <2>9, <2>10, <2>11, <2>12
<1>8. ASSUME NEW r \in Requests, RecordStart(r)
      PROVE  Locked'
  BY <1>8 DEF RecordStart, At, Goto, TypeOK, Valid, Result
<1>9. ASSUME NEW r \in Requests, Dispatch(r)
      PROVE  Locked'
  BY <1>9 DEF Dispatch, TypeOK, Valid, Result, database
<1>10. ASSUME NEW r \in Requests, Return(r)
      PROVE  Locked'
  BY <1>10 DEF Return, At, Goto, Ended, TypeOK, Valid, Result, database
<1>11. ASSUME NEW r \in Requests, Crash(r)
      PROVE  Locked'
  BY <1>11 DEF Crash, ReleasedBy, At, Goto, Ended, TypeOK, Valid, Result, database
<1>12. ASSUME NEW r \in Requests, DatabaseError(r)
       PROVE  Locked'
  BY <1>12
  DEF DatabaseError, ReleasedBy, At, Goto, Ended, TypeOK, Valid, Result, database
<1>13. CASE UNCHANGED vars
  BY <1>13 DEF vars, Valid, Result
<1> QED
  BY <1>1, <1>2, <1>3, <1>4, <1>5, <1>6, <1>7, <1>8, <1>9, <1>10, <1>11, <1>12,
     <1>13
  DEF Next, Proceed

LEMMA NextLogged ==
  ASSUME TypeOK, Locked, Logged, [Next]_vars
  PROVE  Logged'
<1> USE DEF Logged
<1>1. ASSUME NEW r \in Requests, log' = Append(log, r), UNCHANGED answers,
             pc[r] # "done", row' # NoRow, Goto(r, "inserted") \/ Goto(r, "committed"),
             Goto(r, "inserted") => r \in Starters
      PROVE  Logged'
  <2>1. \A q \in Requests : Committed(q)' <=> Committed(q) \/ q = r
    BY <1>1, LogAppended
  <2>2. /\ \A q \in Requests : q # r => pc'[q] = pc[q]
        /\ pc'[r] = "committed" \/ (pc'[r] = "inserted" /\ r \in Starters)
    BY <1>1 DEF Goto, TypeOK
  <2> QED BY <1>1, <2>1, <2>2
<1>2. ASSUME NEW r \in Requests, Commit(r)
      PROVE  Logged'
  <2>1. row' # NoRow
    BY <1>2, ResultType, RowsAssumption DEF Commit, At, Locked
  <2>2. Goto(r, "inserted") => r \in Starters
    BY <1>2 DEF Commit, Goto, TypeOK
  <2> QED BY <1>1, <1>2, <2>1, <2>2 DEF Commit, At
<1>3. ASSUME NEW r \in Requests, Insert(r), row = NoRow
      PROVE  Logged'
  <2>1. /\ r \in Starters /\ pc[r] = "idle" /\ row' = Operation[r][NoRow]
        /\ log' = Append(log, r) /\ Goto(r, "inserted") /\ UNCHANGED answers
    BY <1>3 DEF Insert, At
  <2>2. row' # NoRow
    BY <2>1, StarterType, RowsAssumption
  <2> QED BY <1>1, <2>1, <2>2
<1>4. ASSUME UNCHANGED <<row, log>>
      PROVE  \A q \in Requests : Committed(q)' <=> Committed(q)
  BY <1>4 DEF Committed
<1>5. ASSUME NEW r \in Requests, UNCHANGED <<row, log>>, UNCHANGED answers,
             \/ pc[r] = "idle" /\ Goto(r, "called")
             \/ pc[r] = "called" /\ Goto(r, "reading")
             \/ pc[r] = "reading" /\ Goto(r, "written")
             \/ pc[r] = "inserted" /\ Goto(r, "committed")
             \/ UNCHANGED pc
      PROVE  Logged'
  <2>1. \A q \in Requests : q # r => pc'[q] = pc[q]
    BY <1>5 DEF Goto, TypeOK
  <2>2. \/ pc[r] = "idle" /\ pc'[r] = "called"
        \/ pc[r] = "called" /\ pc'[r] = "reading"
        \/ pc[r] = "reading" /\ pc'[r] = "written"
        \/ pc[r] = "inserted" /\ pc'[r] = "committed"
        \/ pc'[r] = pc[r]
    BY <1>5 DEF Goto, TypeOK
  <2> QED BY <1>4, <1>5, <2>1, <2>2
<1>6. ASSUME NEW r \in Requests, UNCHANGED <<row, log>>,
             NEW answer \in {"ok", "refused", "lost"}, Ended(r, answer)
      PROVE  Logged'
  <2>1. /\ \A q \in Requests : q # r => pc'[q] = pc[q] /\ answers'[q] = answers[q]
        /\ pc'[r] = "done" /\ answers'[r] # "none"
    BY <1>6 DEF Ended, Goto, TypeOK
  <2> QED BY <1>4, <1>6, <2>1
<1>7. ASSUME NEW r \in Requests,
             \/ Call(r) \/ Read(r) \/ Write(r) \/ RecordStart(r) \/ Dispatch(r)
             \/ Refuse(r) \/ Conflict(r) \/ Return(r) \/ Crash(r)
             \/ DatabaseError(r) \/ (Insert(r) /\ row # NoRow)
      PROVE  Logged'
  <2>1. CASE Call(r)
    BY <1>5, <1>6, <2>1 DEF Call, At, database
  <2>2. CASE Read(r) \/ Write(r) \/ RecordStart(r) \/ Dispatch(r)
    BY <1>5, <2>2 DEF Read, Write, RecordStart, Dispatch, At, database
  <2>3. CASE Refuse(r) \/ Conflict(r) \/ Return(r) \/ Crash(r) \/ DatabaseError(r)
    BY <1>6, <2>3 DEF Refuse, Conflict, Return, Crash, DatabaseError, database
  <2>4. CASE Insert(r) /\ row # NoRow
    BY <1>6, <2>4 DEF Insert
  <2> QED BY <1>7, <2>1, <2>2, <2>3, <2>4
<1>8. CASE UNCHANGED vars
  BY <1>8 DEF vars, Committed
<1> QED BY <1>2, <1>3, <1>7, <1>8 DEF Next, Proceed

-----------------------------------------------------------------------------
(* The trail.                                                              *)

LEMMA TrailAppended ==
  ASSUME TypeOK, NEW e \in Record, trail' = Append(trail, e)
  PROVE  /\ DOMAIN trail = 1..Len(trail) /\ Len(trail) \in Nat
         /\ DOMAIN trail' = 1..(Len(trail) + 1)
         /\ trail'[Len(trail) + 1] = e
         /\ \A i \in DOMAIN trail : trail'[i] = trail[i]
BY DEF TypeOK

\* A move that starts from the row as it is keeps the trail chained.
LEMMA MoveAppended ==
  ASSUME TypeOK, TrailChained, NEW e \in Record, e.source # NoRow,
         trail' = Append(trail, e), e.source = row, row' = e.target
  PROVE  TrailChained'
<1>0. PICK n \in Nat : n = Len(trail) + 1
  BY DEF TypeOK
<1>1. /\ DOMAIN trail = 1..Len(trail) /\ Len(trail) \in Nat
      /\ DOMAIN trail' = 1..n /\ trail'[n] = e
      /\ \A i \in DOMAIN trail : trail'[i] = trail[i]
  BY <1>0, TrailAppended
<1>2. /\ IsMove(n)'
      /\ \A i \in DOMAIN trail : IsMove(i)' <=> IsMove(i)
  <2>1. IsMove(n)'
    BY <1>1 DEF IsMove
  <2>2. ASSUME NEW i \in DOMAIN trail
        PROVE  IsMove(i)' <=> IsMove(i)
    <3>1. trail'[i] = trail[i]
      BY <1>1
    <3> QED BY <3>1 DEF IsMove
  <2> QED BY <2>1, <2>2
<1>3. ASSUME NEW i \in DOMAIN trail', IsMove(i)'
      PROVE  /\ \A j \in DOMAIN trail' : Follows(j, i)' => trail'[j].source = trail'[i].target
             /\ (\A j \in DOMAIN trail' : j > i => ~IsMove(j)') => trail'[i].target = row'
  <2>1. CASE i = n
    BY <1>1, <2>1 DEF Follows
  <2>2. CASE i # n
    <3>1. i \in DOMAIN trail /\ IsMove(i) /\ i < n
      BY <1>1, <1>2, <1>3, <2>2
    <3>2. ASSUME NEW j \in DOMAIN trail, Follows(j, i)'
          PROVE  trail'[j].source = trail'[i].target
      <4>1. Follows(j, i)
        BY <1>1, <1>2, <3>1, <3>2 DEF Follows
      <4> QED BY <1>1, <3>1, <4>1 DEF TrailChained
    <3>3. ASSUME Follows(n, i)'
          PROVE  trail'[n].source = trail'[i].target
      <4>1. \A j \in DOMAIN trail : j > i => ~IsMove(j)
        BY <1>1, <1>2, <3>1, <3>3 DEF Follows
      <4> QED BY <1>1, <3>1, <4>1 DEF TrailChained
    <3>4. ~\A j \in DOMAIN trail' : j > i => ~IsMove(j)'
      <4>1. n \in DOMAIN trail' /\ n > i
        BY <1>1, <3>1
      <4> QED BY <1>2, <4>1
    <3>5. \A j \in DOMAIN trail' : j \in DOMAIN trail \/ j = n
      BY <1>1
    <3> QED BY <3>2, <3>3, <3>4, <3>5
  <2> QED BY <2>1, <2>2
<1> QED BY <1>3 DEF TrailChained

\* A record that is no move changes nothing of the chain.
LEMMA StartAppended ==
  ASSUME TypeOK, TrailChained, NEW e \in Record, e.source = NoRow,
         trail' = Append(trail, e), row' = row
  PROVE  TrailChained'
<1>0. PICK n \in Nat : n = Len(trail) + 1
  BY DEF TypeOK
<1>1. /\ DOMAIN trail = 1..Len(trail) /\ Len(trail) \in Nat
      /\ DOMAIN trail' = 1..n /\ trail'[n] = e
      /\ \A i \in DOMAIN trail : trail'[i] = trail[i]
  BY <1>0, TrailAppended
<1>2. /\ ~IsMove(n)'
      /\ \A i \in DOMAIN trail : IsMove(i)' <=> IsMove(i)
  <2>1. ~IsMove(n)'
    BY <1>1 DEF IsMove
  <2>2. ASSUME NEW i \in DOMAIN trail
        PROVE  IsMove(i)' <=> IsMove(i)
    <3>1. trail'[i] = trail[i]
      BY <1>1
    <3> QED BY <3>1 DEF IsMove
  <2> QED BY <2>1, <2>2
<1>3. ASSUME NEW i \in DOMAIN trail', IsMove(i)'
      PROVE  /\ \A j \in DOMAIN trail' : Follows(j, i)' => trail'[j].source = trail'[i].target
             /\ (\A j \in DOMAIN trail' : j > i => ~IsMove(j)') => trail'[i].target = row'
  <2>1. i \in DOMAIN trail /\ IsMove(i)
    BY <1>1, <1>2, <1>3
  <2>2. ASSUME NEW j \in DOMAIN trail', Follows(j, i)'
        PROVE  trail'[j].source = trail'[i].target
    <3>1. j \in DOMAIN trail
      <4>1. IsMove(j)'
        BY <2>2 DEF Follows
      <4>2. j # n
        BY <1>2, <4>1
      <4> QED BY <1>1, <2>2, <4>2
    <3>2. Follows(j, i)
      BY <1>1, <1>2, <2>1, <2>2, <3>1 DEF Follows
    <3> QED BY <1>1, <2>1, <3>1, <3>2 DEF TrailChained
  <2>3. ASSUME \A j \in DOMAIN trail' : j > i => ~IsMove(j)'
        PROVE  trail'[i].target = row'
    <3>1. \A j \in DOMAIN trail : j > i => ~IsMove(j)
      BY <1>1, <1>2, <2>3
    <3> QED BY <1>1, <2>1, <3>1 DEF TrailChained
  <2> QED BY <2>2, <2>3
<1> QED BY <1>3 DEF TrailChained

LEMMA NextTrailed ==
  ASSUME Inv, [Next]_vars
  PROVE  Trailed'
<1> USE DEF Inv
<1>1. ASSUME NEW r \in Requests, Commit(r)
      PROVE  Trailed'
  <2> DEFINE e == [by |-> r, source |-> seen[r].row, target |-> Result(r)]
  <2>1. /\ seen[r].row = row /\ seen[r].row \in Rows
        /\ Result(r) \in Rows
    BY <1>1, ResultType DEF Commit, At, Locked, Holds
  <2>2. e \in Record /\ e.source # NoRow /\ e.source = row /\ e.target = Result(r)
    BY <2>1, RowsAssumption DEF Record
  <2>3. TrailChained'
    BY <1>1, <2>2, MoveAppended DEF Commit, Trailed
  <2> QED BY <1>1, <2>1, <2>3, RowsAssumption DEF Commit, Trailed
<1>2. ASSUME NEW r \in Requests, RecordStart(r)
      PROVE  Trailed'
  <2> DEFINE e == [by |-> r, source |-> NoRow, target |-> Operation[r][NoRow]]
  <2>1. e \in Record /\ e.source = NoRow
    BY <1>2, StarterType DEF RecordStart, At, Logged, Record
  <2>2. TrailChained'
    BY <1>2, <2>1, StartAppended DEF RecordStart, Trailed
  <2>3. row # NoRow
    BY <1>2 DEF RecordStart, At, Logged
  <2> QED BY <1>2, <2>2, <2>3 DEF RecordStart, Trailed
<1>3. ASSUME NEW r \in Requests, Insert(r), row = NoRow
      PROVE  Trailed'
  <2>1. trail' = <<>> /\ row' \in Rows
    BY <1>3, StarterType DEF Insert, Trailed
  <2> QED BY <2>1, RowsAssumption DEF Trailed, TrailChained
<1>4. ASSUME UNCHANGED <<row, trail>>
      PROVE  Trailed'
  BY <1>4 DEF Trailed, TrailChained, Follows, IsMove
<1>5. \A r \in Requests :
        /\ Call(r) \/ Read(r) \/ Refuse(r) \/ Write(r) \/ Conflict(r)
           \/ Dispatch(r) \/ Return(r) \/ Crash(r) \/ DatabaseError(r)
           => UNCHANGED <<row, trail>>
        /\ Insert(r) => row = NoRow \/ UNCHANGED <<row, trail>>
  BY DEF Call, Read, Refuse, Write, Conflict, Dispatch, Return, Crash,
         DatabaseError, Insert, database
<1> QED BY <1>1, <1>2, <1>3, <1>4, <1>5 DEF Next, Proceed, vars

-----------------------------------------------------------------------------
LEMMA InitInv == Init => Inv
BY RequestsAssumption, RowsAssumption
DEF Init, Inv, TypeOK, Locked, Holds, Logged, Committed, Trailed, TrailChained,
    Nothing, Snapshot, Phases

LEMMA Invariance == Spec => []Inv
<1>1. Inv /\ [Next]_vars => Inv'
  BY NextType, NextLocked, NextLogged, NextTrailed DEF Inv
<1> QED BY InitInv, <1>1, PTL DEF Spec

(* Every variable keeps its type, whatever the requests do.                *)
THEOREM TypeCorrect == Spec => []TypeOK
<1>1. Inv => TypeOK
  BY DEF Inv
<1> QED BY <1>1, Invariance, PTL

(* The audit trail accounts for the state of the execution, whatever       *)
(* requests overlap, conflict or crash.                                    *)
THEOREM TrailAlwaysChained == Spec => []TrailChained
<1>1. Inv => TrailChained
  BY DEF Inv, Trailed
<1> QED BY <1>1, Invariance, PTL

(* No event of a request is dispatched before its change is committed.     *)
THEOREM DeliveredAfterCommit == Spec => []DeliveredCommitted
<1>1. Init => DeliveredCommitted
  BY DEF Init, DeliveredCommitted
<1>2. Inv /\ DeliveredCommitted /\ [Next]_vars => DeliveredCommitted'
  <2> SUFFICES ASSUME Inv, DeliveredCommitted, [Next]_vars, NEW q \in Requests,
                      sent'[q] > 0
               PROVE  Committed(q)'
    BY DEF DeliveredCommitted
  <2>1. ASSUME NEW r \in Requests, log' = Append(log, r)
        PROVE  \A x \in Requests : Committed(x) => Committed(x)'
    BY <2>1, LogAppended DEF Inv
  <2>2. ASSUME UNCHANGED log
        PROVE  \A x \in Requests : Committed(x) => Committed(x)'
    BY <2>2 DEF Committed
  <2>3. UNCHANGED log \/ \E r \in Requests : log' = Append(log, r)
    BY DEF Next, Proceed, vars, Call, Insert, Read, Refuse, Write, Conflict,
           Commit, RecordStart, Dispatch, Return, DatabaseError, Crash, database
  <2>4. UNCHANGED sent \/ \E r \in Requests : Dispatch(r)
    BY DEF Next, Proceed, vars, Call, Insert, Read, Refuse, Write, Conflict,
           Commit, RecordStart, Return, DatabaseError, Crash
  <2>5. CASE sent[q] > 0
    BY <2>1, <2>2, <2>3, <2>5 DEF DeliveredCommitted
  <2>6. CASE ~(sent[q] > 0)
    <3>1. PICK r \in Requests : Dispatch(r)
      BY <2>4, <2>6
    <3>2. r = q
      BY <2>6, <3>1 DEF Dispatch, Inv, TypeOK
    <3> QED BY <2>1, <2>2, <2>3, <3>1, <3>2 DEF Dispatch, Dispatches, Inv, Logged
  <2> QED BY <2>5, <2>6
<1> QED BY <1>1, <1>2, Invariance, PTL DEF Spec

-----------------------------------------------------------------------------
(* The lock is free, or held by a request that can leave its transaction.  *)

(* Whoever waits for the row waits for a request that is inside its        *)
(* transaction and needs nobody to leave it: nobody waits for a request    *)
(* that is gone or waits itself.                                           *)
NobodyStuck ==
  ~Free => pc[holder] = "written" \/ (locking /\ pc[holder] = "reading")

\* What a step of r may do to the lock.
LEMMA LockPassed ==
  ASSUME TypeOK, NobodyStuck, NEW r \in Requests, NEW phase, Goto(r, phase),
         UNCHANGED locking,
         \/ holder' = ReleasedBy(r)
         \/ UNCHANGED holder /\ holder # r
         \/ holder' = r /\ (phase = "written" \/ (locking /\ phase = "reading"))
  PROVE  NobodyStuck'
<1>1. \A q \in Requests : pc'[q] = IF q = r THEN phase ELSE pc[q]
  BY DEF Goto, TypeOK
<1> SUFFICES ASSUME ~Free'
             PROVE  pc'[holder'] = "written" \/ (locking' /\ pc'[holder'] = "reading")
  BY DEF NobodyStuck
<1>2. CASE holder' = r /\ (phase = "written" \/ (locking /\ phase = "reading"))
  BY <1>1, <1>2
<1>3. CASE holder' = holder /\ holder # r
  <2>1. holder \in Requests /\ ~Free
    BY <1>3 DEF Free, TypeOK
  <2> QED BY <1>1, <1>3, <2>1 DEF NobodyStuck
<1>4. CASE holder' = ReleasedBy(r)
  <2>1. holder' = holder /\ holder # r
    BY <1>4 DEF ReleasedBy, Free
  <2> QED BY <1>3, <2>1
<1> QED BY <1>2, <1>3, <1>4

LEMMA NextUnstuck ==
  ASSUME Inv, NobodyStuck, [Next]_vars
  PROVE  NobodyStuck'
<1>t. TypeOK
  BY DEF Inv
<1>1. ASSUME NEW r \in Requests, pc[r] \notin {"reading", "written"}
      PROVE  holder # r
  BY <1>1, RequestsAssumption DEF NobodyStuck, Free
<1>2. ASSUME NEW r \in Requests,
             \/ Call(r) \/ Insert(r) \/ RecordStart(r) \/ Return(r)
      PROVE  NobodyStuck'
  <2>1. holder # r
    BY <1>1, <1>2 DEF Call, Insert, RecordStart, Return, At
  <2>2. /\ UNCHANGED <<locking, holder>>
        /\ \E phase : Goto(r, phase)
    BY <1>2 DEF Call, Insert, RecordStart, Return, Ended, database
  <2> QED BY <1>t, <2>1, <2>2, LockPassed
<1>3. ASSUME NEW r \in Requests, Read(r) PROVE NobodyStuck'
  <2>1. holder # r /\ UNCHANGED locking /\ Goto(r, "reading")
    BY <1>1, <1>3 DEF Read, At, database
  <2>2. holder' = IF locking THEN r ELSE holder
    BY <1>3 DEF Read
  <2> QED BY <1>t, <2>1, <2>2, LockPassed
<1>4. ASSUME NEW r \in Requests,
             Refuse(r) \/ Commit(r) \/ Crash(r) \/ DatabaseError(r)
      PROVE  NobodyStuck'
  <2>1. /\ holder' = ReleasedBy(r) /\ UNCHANGED locking
        /\ \E phase : Goto(r, phase)
    BY <1>4 DEF Refuse, Commit, Crash, DatabaseError, Ended, database
  <2> QED BY <1>t, <2>1, LockPassed
<1>5. ASSUME NEW r \in Requests, Write(r) PROVE NobodyStuck'
  <2>1. holder' = r /\ UNCHANGED locking /\ Goto(r, "written")
    BY <1>5 DEF Write, database
  <2> QED BY <1>t, <2>1, LockPassed
<1>6. ASSUME NEW r \in Requests, Conflict(r) PROVE NobodyStuck'
  <2>1. holder # r
    BY <1>6, RequestsAssumption DEF Conflict, At, NobodyStuck, Free
  <2>2. UNCHANGED <<locking, holder>> /\ Goto(r, "done")
    BY <1>6 DEF Conflict, Ended, database
  <2> QED BY <1>t, <2>1, <2>2, LockPassed
<1>7. ASSUME UNCHANGED <<locking, holder, pc>> PROVE NobodyStuck'
  BY <1>7 DEF NobodyStuck, Free
<1>8. \A r \in Requests : Dispatch(r) => UNCHANGED <<locking, holder, pc>>
  BY DEF Dispatch, database
<1> QED BY <1>2, <1>3, <1>4, <1>5, <1>6, <1>7, <1>8 DEF Next, Proceed, vars

(* Nobody waits for a request that is gone, or that waits itself.          *)
THEOREM NobodyEverStuck == Spec => []NobodyStuck
<1>1. Init => NobodyStuck
  BY DEF Init, NobodyStuck, Free
<1>2. Inv /\ NobodyStuck /\ [Next]_vars => NobodyStuck'
  BY NextUnstuck
<1> QED BY <1>1, <1>2, Invariance, PTL DEF Spec

-----------------------------------------------------------------------------
(* Answers, changes, records and events.                                   *)

Early == {"idle", "called", "reading", "written", "inserted"}

\* How far a request has come is how much of it is out.
Progress ==
  \A r \in Requests :
    /\ sent[r] <= Emits[r]
    /\ pc[r] \in Early => sent[r] = 0 /\ ~Recorded(r)
    /\ pc[r] = "committed" => Recorded(r)

Accounted == Inv /\ Progress /\ AnswerAccounts

LEMMA RecordAppended ==
  ASSUME TypeOK, NEW e \in Record, trail' = Append(trail, e), ~Recorded(e.by)
  PROVE  /\ \A q \in Requests : Recorded(q)' <=> Recorded(q) \/ q = e.by
         /\ \A q \in Requests :
              (\A i, j \in DOMAIN trail : trail[i].by = q /\ trail[j].by = q => i = j)
              => \A i, j \in DOMAIN trail' : trail'[i].by = q /\ trail'[j].by = q => i = j
<1>0. PICK n \in Nat : n = Len(trail) + 1
  BY DEF TypeOK
<1>1. /\ DOMAIN trail = 1..Len(trail) /\ Len(trail) \in Nat
      /\ DOMAIN trail' = 1..n /\ trail'[n] = e
      /\ \A i \in DOMAIN trail : trail'[i] = trail[i]
  BY <1>0, TrailAppended
<1>2. \A i \in DOMAIN trail' : i = n \/ i \in DOMAIN trail
  BY <1>0, <1>1
<1>3. n \in DOMAIN trail' /\ DOMAIN trail \subseteq DOMAIN trail'
  BY <1>0, <1>1
<1>4. ASSUME NEW q \in Requests PROVE Recorded(q)' <=> Recorded(q) \/ q = e.by
  BY <1>1, <1>2, <1>3 DEF Recorded
<1>5. ASSUME NEW q \in Requests,
             \A i, j \in DOMAIN trail : trail[i].by = q /\ trail[j].by = q => i = j,
             NEW i \in DOMAIN trail', NEW j \in DOMAIN trail',
             trail'[i].by = q, trail'[j].by = q
      PROVE  i = j
  <2>1. CASE q = e.by
    <3>1. \A k \in DOMAIN trail : trail'[k].by # q
      BY <1>1, <2>1 DEF Recorded
    <3> QED BY <1>2, <1>5, <3>1
  <2>2. CASE q # e.by
    BY <1>1, <1>2, <1>5, <2>2
  <2> QED BY <2>1, <2>2
<1> QED BY <1>4, <1>5

\* What was committed stays committed, and what is committed is r's.
LEMMA LogGrows ==
  ASSUME TypeOK, NEW r \in Requests, UNCHANGED log \/ log' = Append(log, r)
  PROVE  /\ \A q \in Requests : Committed(q) => Committed(q)'
         /\ \A q \in Requests \ {r} : Committed(q)' => Committed(q)
         /\ UNCHANGED log => (Committed(r)' <=> Committed(r))
<1>1. CASE UNCHANGED log
  BY <1>1 DEF Committed
<1>2. CASE log' = Append(log, r) /\ ~UNCHANGED log
  BY <1>2, LogAppended
<1> QED BY <1>1, <1>2

LEMMA NextAccounted ==
  ASSUME Accounted, [Next]_vars
  PROVE  Accounted'
<1>t. TypeOK /\ Logged
  BY DEF Accounted, Inv
<1>i. Inv'
  BY NextType, NextLocked, NextLogged, NextTrailed DEF Accounted, Inv
\* Nothing is told: the request moves on, and may take effect.
<1>1. ASSUME NEW r \in Requests, UNCHANGED <<trail, sent, answers>>,
             UNCHANGED log \/ log' = Append(log, r),
             pc[r] \in Early, NEW phase \in Early, Goto(r, phase)
      PROVE  Accounted'
  <2>1. \A q \in Requests : Recorded(q)' <=> Recorded(q)
    BY <1>1 DEF Recorded
  <2>2. /\ \A q \in Requests : Committed(q) => Committed(q)'
        /\ \A q \in Requests \ {r} : Committed(q)' => Committed(q)
    BY <1>1, <1>t, LogGrows
  <2>3. answers[r] = "none"
    BY <1>1, <1>t DEF Logged, Early, TypeOK
  <2>4. \A q \in Requests : pc'[q] = IF q = r THEN phase ELSE pc[q]
    BY <1>1, <1>t DEF Goto, TypeOK
  <2>5. Progress'
    BY <1>1, <2>1, <2>4 DEF Progress, Accounted, Early
  <2>6. AnswerAccounts'
    BY <1>1, <2>1, <2>2, <2>3 DEF AnswerAccounts, Accounted
  <2> QED BY <1>i, <2>5, <2>6 DEF Accounted
\* The record is written.
<1>2. ASSUME NEW r \in Requests, UNCHANGED <<sent, answers>>,
             UNCHANGED log \/ log' = Append(log, r),
             NEW e \in Record, e.by = r, trail' = Append(trail, e),
             pc[r] \in {"written", "inserted"}, Goto(r, "committed")
      PROVE  Accounted'
  <2>0. ~Recorded(r) /\ answers[r] = "none"
    BY <1>2, <1>t DEF Accounted, Progress, Early, Logged, TypeOK
  <2>1. /\ \A q \in Requests : Recorded(q)' <=> Recorded(q) \/ q = r
        /\ \A q \in Requests :
             (\A i, j \in DOMAIN trail : trail[i].by = q /\ trail[j].by = q => i = j)
             => \A i, j \in DOMAIN trail' : trail'[i].by = q /\ trail'[j].by = q => i = j
    BY <1>2, <1>t, <2>0, RecordAppended
  <2>2. /\ \A q \in Requests : Committed(q) => Committed(q)'
        /\ \A q \in Requests \ {r} : Committed(q)' => Committed(q)
    BY <1>2, <1>t, LogGrows
  <2>3. \A q \in Requests : pc'[q] = IF q = r THEN "committed" ELSE pc[q]
    BY <1>2, <1>t DEF Goto, TypeOK
  <2>4. Progress'
    BY <1>2, <2>1, <2>3 DEF Progress, Accounted, Early
  <2>5. AnswerAccounts'
    BY <1>2, <2>0, <2>1, <2>2 DEF AnswerAccounts, Accounted
  <2> QED BY <1>i, <2>4, <2>5 DEF Accounted
\* The request ends.
<1>3. ASSUME NEW r \in Requests, UNCHANGED <<trail, log, sent>>,
             NEW answer \in {"ok", "refused", "lost"}, Ended(r, answer),
             pc[r] # "done",
             answer = "ok" => pc[r] = "committed" /\ sent[r] = Emits[r],
             answer = "refused" =>
               pc[r] \in Early /\ (Committed(r) => r \in Starters)
      PROVE  Accounted'
  <2>1. \A q \in Requests : (Recorded(q)' <=> Recorded(q)) /\ (Committed(q)' <=> Committed(q))
    BY <1>3 DEF Recorded, Committed
  <2>2. \A q \in Requests :
          /\ pc'[q] = IF q = r THEN "done" ELSE pc[q]
          /\ answers'[q] = IF q = r THEN answer ELSE answers[q]
    BY <1>3, <1>t DEF Ended, Goto, TypeOK
  <2>3. Progress'
    BY <1>3, <2>1, <2>2 DEF Progress, Accounted, Early
  <2>4. answer = "ok" => Committed(r) /\ Recorded(r) /\ sent[r] = Emits[r]
    BY <1>3, <1>t DEF Logged, Accounted, Progress
  <2>5. answer = "refused" =>
          ~Recorded(r) /\ sent[r] = 0 /\ (Committed(r) => r \in Starters)
    BY <1>3 DEF Accounted, Progress
  <2>6. AnswerAccounts'
    BY <1>3, <2>1, <2>2, <2>4, <2>5 DEF AnswerAccounts, Accounted
  <2> QED BY <1>i, <2>3, <2>6 DEF Accounted
<1>4. ASSUME NEW r \in Requests, Dispatch(r) PROVE Accounted'
  <2>1. /\ UNCHANGED <<trail, log, pc, answers>> /\ pc[r] = "committed"
        /\ \A q \in Requests : sent'[q] = IF q = r THEN sent[r] + 1 ELSE sent[q]
        /\ sent[r] < Emits[r]
    BY <1>4, <1>t DEF Dispatch, Dispatches, database, TypeOK
  <2>2. \A q \in Requests : (Recorded(q)' <=> Recorded(q)) /\ (Committed(q)' <=> Committed(q))
    BY <2>1 DEF Recorded, Committed
  <2>3. \A q \in Requests : sent[q] \in Nat /\ Emits[q] \in Nat
    BY <1>t, EmitsAssumption DEF TypeOK
  <2>4. Progress'
    BY <2>1, <2>2, <2>3 DEF Progress, Accounted, Early
  <2>5. answers[r] = "none"
    BY <2>1, <1>t DEF Logged, TypeOK
  <2>6. AnswerAccounts'
    BY <2>1, <2>2, <2>5 DEF AnswerAccounts, Accounted
  <2> QED BY <1>i, <2>4, <2>6 DEF Accounted
<1>5. ASSUME NEW r \in Requests, Call(r) PROVE Accounted'
  <2>1. pc[r] = "idle" /\ ~Committed(r)
    BY <1>5, <1>t DEF Call, At, Logged
  <2>2. CASE Goto(r, "called") /\ UNCHANGED answers
    BY <1>1, <1>5, <2>1, <2>2 DEF Call, database, Early
  <2>3. CASE Ended(r, "refused")
    BY <1>3, <1>5, <2>1, <2>3 DEF Call, database, Early
  <2> QED BY <1>5, <2>2, <2>3 DEF Call
<1>6. ASSUME NEW r \in Requests, Insert(r) PROVE Accounted'
  <2>1. pc[r] = "idle" /\ ~Committed(r)
    BY <1>6, <1>t DEF Insert, At, Logged
  <2>2. CASE row = NoRow
    BY <1>1, <1>6, <2>1, <2>2 DEF Insert, Early
  <2>3. CASE row # NoRow
    BY <1>3, <1>6, <2>1, <2>3 DEF Insert, Early
  <2> QED BY <2>2, <2>3
<1>7. ASSUME NEW r \in Requests, Read(r) \/ Write(r) PROVE Accounted'
  BY <1>1, <1>7 DEF Read, Write, At, database, Early
<1>8. ASSUME NEW r \in Requests, Refuse(r) \/ Conflict(r) PROVE Accounted'
  <2>1. pc[r] = "reading" /\ ~Committed(r)
    BY <1>8, <1>t DEF Refuse, Conflict, At, Logged
  <2> QED BY <1>3, <1>8, <2>1 DEF Refuse, Conflict, database, Early
<1>9. ASSUME NEW r \in Requests, Commit(r) PROVE Accounted'
  <2> DEFINE e == [by |-> r, source |-> seen[r].row, target |-> Result(r)]
  <2>1. Result(r) \in Rows /\ seen[r].row \in Rows \cup {NoRow}
    BY <1>9, <1>t, ResultType DEF Commit, At, Accounted, Inv, Locked, TypeOK, Snapshot
  <2>2. e \in Record /\ e.by = r
    BY <2>1 DEF Record
  <2>3. /\ UNCHANGED <<sent, answers>> /\ log' = Append(log, r) /\ trail' = Append(trail, e)
        /\ pc[r] = "written" /\ Goto(r, "committed")
    BY <1>9 DEF Commit, At
  <2> HIDE DEF e
  <2> QED BY <1>2, <2>2, <2>3
<1>10. ASSUME NEW r \in Requests, RecordStart(r) PROVE Accounted'
  <2> DEFINE e == [by |-> r, source |-> NoRow, target |-> Operation[r][NoRow]]
  <2>1. e \in Record /\ e.by = r
    BY <1>10, <1>t, StarterType DEF RecordStart, At, Logged, Record
  <2>2. /\ UNCHANGED <<sent, answers, log>> /\ trail' = Append(trail, e)
        /\ pc[r] = "inserted" /\ Goto(r, "committed")
    BY <1>10 DEF RecordStart, At
  <2> HIDE DEF e
  <2> QED BY <1>2, <2>1, <2>2
<1>11. ASSUME NEW r \in Requests, Return(r) PROVE Accounted'
  BY <1>3, <1>11 DEF Return, AllSent, At, database
<1>12. ASSUME NEW r \in Requests, Crash(r) PROVE Accounted'
  BY <1>3, <1>12 DEF Crash, At, database
<1>13. ASSUME NEW r \in Requests, DatabaseError(r) PROVE Accounted'
  <2>1. pc[r] \in Early
    BY <1>13, <1>t DEF DatabaseError, At, TypeOK, Phases, Early
  <2>2. Committed(r) => r \in Starters
    BY <2>1, <1>13, <1>t DEF DatabaseError, At, Logged, Early
  <2> QED BY <1>3, <1>13, <2>1, <2>2 DEF DatabaseError, At, database
<1>14. CASE UNCHANGED vars
  BY <1>i, <1>14 DEF vars, Accounted, Progress, AnswerAccounts, Recorded, Committed
<1> QED
  BY <1>4, <1>5, <1>6, <1>7, <1>8, <1>9, <1>10, <1>11, <1>12, <1>13, <1>14
  DEF Next, Proceed

LEMMA AlwaysAccounted == Spec => []Accounted
<1>1. Init => Accounted
  <2> SUFFICES ASSUME Init PROVE Accounted
    OBVIOUS
  <2>1. \A r \in Requests :
          pc[r] = "idle" /\ sent[r] = 0 /\ answers[r] = "none" /\ Emits[r] \in Nat
    BY EmitsAssumption DEF Init
  <2>2. DOMAIN trail = {}
    BY DEF Init
  <2> QED BY <2>1, <2>2, InitInv DEF Accounted, Progress, AnswerAccounts, Recorded
<1>2. Accounted /\ [Next]_vars => Accounted'
  BY NextAccounted
<1> QED BY <1>1, <1>2, PTL DEF Spec

(* What a caller is told is what happened, however requests overlap, fail  *)
(* and crash: a result is all of the change, its record and its events, an *)
(* exception none of them, but for the execution a start leaves behind.    *)
THEOREM AnswersAccount == Spec => []AnswerAccounts
<1>1. Accounted => AnswerAccounts
  BY DEF Accounted
<1> QED BY AlwaysAccounted, <1>1, PTL

-----------------------------------------------------------------------------
(* Every step brings some request nearer to its end.                       *)

\* What a request has left to do.
StepsLeft(r) ==
  CASE At(r, "idle") -> 5 [] At(r, "called") -> 4 [] At(r, "reading") -> 3
    [] At(r, "committed") -> 1 [] OTHER -> 2
Left(r) == IF At(r, "done") THEN 0 ELSE StepsLeft(r) + Emits[r] - sent[r]

StepCounts ==
  \E r \in Requests :
    /\ Left(r)' \in 0..(Left(r) - 1)
    /\ \A q \in Requests \ {r} : Left(q)' = Left(q)

LEMMA LeftOf ==
  ASSUME Accounted, NEW r \in Requests
  PROVE  /\ StepsLeft(r) \in 1..5
         /\ Emits[r] - sent[r] \in Nat
         /\ pc[r] = "done" => Left(r) = 0
         /\ pc[r] # "done" => Left(r) = StepsLeft(r) + (Emits[r] - sent[r]) /\ Left(r) >= 1
         /\ Left(r) \in Nat
<1>1. Emits[r] \in Nat /\ sent[r] \in Nat /\ sent[r] <= Emits[r]
  BY EmitsAssumption DEF Accounted, Progress, Inv, TypeOK
<1>2. StepsLeft(r) \in 1..5
  BY DEF StepsLeft
<1>3. /\ pc[r] = "done" => Left(r) = 0
      /\ pc[r] # "done" => Left(r) = StepsLeft(r) + Emits[r] - sent[r]
  BY DEF Left, At
<1> QED BY <1>1, <1>2, <1>3

LEMMA NextCounts ==
  ASSUME Accounted, Next
  PROVE  StepCounts
<1>t. TypeOK
  BY DEF Accounted, Inv
\* Only r moves, and it ends, or goes on with nothing sent, or sends one more.
<1>1. ASSUME NEW r \in Requests,
             \A q \in Requests \ {r} : pc'[q] = pc[q] /\ sent'[q] = sent[q],
             Left(r)' \in 0..(Left(r) - 1)
      PROVE  StepCounts
  <2>1. \A q \in Requests \ {r} : Left(q)' = Left(q)
    BY <1>1 DEF Left, StepsLeft, At
  <2> QED BY <1>1, <2>1 DEF StepCounts
<1>2. ASSUME NEW r \in Requests, Goto(r, "done"), pc[r] # "done", UNCHANGED sent
      PROVE  StepCounts
  <2>1. pc'[r] = "done" /\ \A q \in Requests \ {r} : pc'[q] = pc[q] /\ sent'[q] = sent[q]
    BY <1>2, <1>t DEF Goto, TypeOK
  <2>2. Left(r)' = 0
    BY <2>1 DEF Left, At
  <2>3. Left(r) \in Nat /\ Left(r) >= 1
    BY <1>2, LeftOf
  <2> QED BY <1>1, <2>1, <2>2, <2>3
<1>3. ASSUME NEW r \in Requests, NEW phase, Goto(r, phase), UNCHANGED sent,
             \/ pc[r] = "idle" /\ phase \in {"called", "inserted"}
             \/ pc[r] = "called" /\ phase = "reading"
             \/ pc[r] = "reading" /\ phase = "written"
             \/ pc[r] \in {"written", "inserted"} /\ phase = "committed"
      PROVE  StepCounts
  <2>1. /\ pc'[r] = phase
        /\ \A q \in Requests \ {r} : pc'[q] = pc[q] /\ sent'[q] = sent[q]
    BY <1>3, <1>t DEF Goto, TypeOK
  <2>2. StepsLeft(r)' \in 1..(StepsLeft(r) - 1)
    BY <1>3, <2>1 DEF StepsLeft, At
  <2>3. /\ Left(r) = StepsLeft(r) + (Emits[r] - sent[r])
        /\ StepsLeft(r) \in 1..5 /\ Emits[r] - sent[r] \in Nat
    BY <1>3, LeftOf
  <2>4. Left(r)' = StepsLeft(r)' + (Emits[r] - sent[r])
    <3>1. Emits[r] \in Nat /\ sent[r] \in Nat
      BY <1>t, EmitsAssumption DEF TypeOK
    <3>2. Left(r)' = StepsLeft(r)' + Emits[r] - sent[r]
      BY <1>3, <2>1 DEF Left, At
    <3> QED BY <2>2, <2>3, <3>1, <3>2
  <2> HIDE DEF StepsLeft
  <2> QED BY <1>1, <2>1, <2>2, <2>3, <2>4
<1>4. ASSUME NEW r \in Requests, Dispatch(r) PROVE StepCounts
  <2>1. /\ pc[r] = "committed" /\ UNCHANGED pc /\ sent[r] < Emits[r]
        /\ sent'[r] = sent[r] + 1 /\ \A q \in Requests \ {r} : sent'[q] = sent[q]
    BY <1>4, <1>t DEF Dispatch, Dispatches, TypeOK
  <2>2. Emits[r] \in Nat /\ sent[r] \in Nat
    BY <1>t, EmitsAssumption DEF TypeOK
  <2>3. Left(r) = 1 + Emits[r] - sent[r] /\ Left(r)' = 1 + Emits[r] - sent'[r]
    BY <2>1 DEF Left, StepsLeft, At
  <2>4. Left(r)' \in 0..(Left(r) - 1)
    BY <2>1, <2>2, <2>3
  <2> QED BY <1>1, <2>1, <2>4
<1>5. ASSUME NEW r \in Requests, Call(r) \/ Insert(r) PROVE StepCounts
  BY <1>2, <1>3, <1>5 DEF Call, Insert, Ended, At
<1>6. ASSUME NEW r \in Requests, Read(r) \/ Write(r) \/ Commit(r) \/ RecordStart(r)
      PROVE  StepCounts
  BY <1>3, <1>6 DEF Read, Write, Commit, RecordStart, At
<1>7. ASSUME NEW r \in Requests,
             \/ Refuse(r) \/ Conflict(r) \/ Return(r)
             \/ DatabaseError(r) \/ Crash(r)
      PROVE  StepCounts
  BY <1>2, <1>7 DEF Refuse, Conflict, Return, DatabaseError, Crash, Ended, At
<1> QED BY <1>4, <1>5, <1>6, <1>7 DEF Next, Proceed

(* No step is in vain: it brings one request nearer to its end and sets no *)
(* other back, since conflicts are answered, never tried again behind the  *)
(* caller's back.  With nobody stuck, all requests come to their ends if   *)
(* those that can go on do.                                                *)
THEOREM EveryStepAlwaysCounts == Spec => [][StepCounts]_vars
<1>1. Accounted /\ [Next]_vars => [StepCounts]_vars
  BY NextCounts
<1> QED BY AlwaysAccounted, <1>1, PTL DEF Spec

-----------------------------------------------------------------------------
(* Refinement: the commit of a transaction, or the insertion of the row,   *)
(* is the step in which a request takes effect.                            *)
LEMMA CommitPerforms ==
  ASSUME Inv, NEW r \in Requests, Commit(r)
  PROVE  Atomic!Perform(r)
<1>1. pc[r] = "written" /\ answers[r] = "none" /\ ~Committed(r)
  BY DEF Inv, Logged, Commit, At, TypeOK
<1>2. Result(r) = Operation[r][row] /\ Result(r) # Refused
  BY <1>1 DEF Inv, Locked, Holds, Valid, Result
<1> QED BY <1>1, <1>2 DEF Commit, Committed, Atomic!Perform, Atomic!Performed

LEMMA InsertPerforms ==
  ASSUME Inv, NEW r \in Requests, Insert(r)
  PROVE  Atomic!Perform(r) \/ Atomic!Reply(r, "refused")
<1>1. pc[r] = "idle" /\ answers[r] = "none" /\ ~Committed(r)
  BY DEF Inv, Logged, Insert, At, TypeOK
<1>2. r \in Starters /\ Operation[r][NoRow] # Refused
  BY StarterType, RowsAssumption DEF Insert
<1> QED
  BY <1>1, <1>2
  DEF Insert, Ended, Committed, Atomic!Perform, Atomic!Reply, Atomic!Performed

LEMMA EndReplies ==
  ASSUME Inv, NEW r \in Requests,
         Refuse(r) \/ Conflict(r) \/ Return(r) \/ DatabaseError(r) \/ Crash(r)
  PROVE  \E answer \in {"ok", "refused", "lost"} : Atomic!Reply(r, answer)
<1>1. answers[r] = "none"
  BY DEF Inv, Logged, Refuse, Conflict, Return, DatabaseError, Crash, At
<1>2. CASE Refuse(r) \/ Conflict(r)
  <2>1. ~Committed(r)
    BY <1>2 DEF Inv, Logged, Refuse, Conflict, At
  <2> QED
    BY <1>1, <1>2, <2>1
    DEF Refuse, Conflict, Ended, database, Committed, Atomic!Reply, Atomic!Performed
<1>3. CASE Return(r)
  <2>1. Committed(r)
    BY <1>3 DEF Inv, Logged, Return, At
  <2> QED
    BY <1>1, <1>3, <2>1
    DEF Return, Ended, database, Committed, Atomic!Reply, Atomic!Performed
<1>4. CASE Crash(r)
  BY <1>1, <1>4 DEF Crash, Ended, database, Atomic!Reply
<1>5. CASE DatabaseError(r)
  <2>1. ~Committed(r) \/ r \in Starters
    BY <1>5 DEF Inv, TypeOK, Phases, Logged, DatabaseError, At
  <2> QED
    BY <1>1, <1>5, <2>1
    DEF DatabaseError, Ended, database, Committed, Atomic!Reply, Atomic!Performed
<1> QED BY <1>2, <1>3, <1>4, <1>5

LEMMA CallReplies ==
  ASSUME Inv, NEW r \in Requests, Call(r)
  PROVE  UNCHANGED <<row, log, answers>> \/ Atomic!Reply(r, "refused")
<1>1. pc[r] = "idle" /\ answers[r] = "none" /\ ~Committed(r)
  BY DEF Inv, Logged, Call, At, TypeOK
<1> QED
  BY <1>1 DEF Call, Ended, database, Committed, Atomic!Reply, Atomic!Performed

(* Overlapping requests behave as if each took effect in one step, at most *)
(* once, on what the earlier ones left, and were answered accordingly: an  *)
(* exception leaves open only whether a start took effect.                 *)
THEOREM AtomicImplemented == Spec => ImplementsAtomic
<1>1. Init => Atomic!Init
  BY DEF Init, Atomic!Init
<1>2. Inv /\ [Next]_vars => [Atomic!Next]_Atomic!vars
  <2> SUFFICES ASSUME Inv, [Next]_vars
               PROVE  Atomic!Next \/ UNCHANGED Atomic!vars
    OBVIOUS
  <2>1. ASSUME NEW r \in Requests,
               Read(r) \/ Write(r) \/ RecordStart(r) \/ Dispatch(r)
        PROVE  UNCHANGED Atomic!vars
    BY <2>1 DEF Read, Write, RecordStart, Dispatch, database, Atomic!vars
  <2>2. ASSUME UNCHANGED vars
        PROVE  UNCHANGED Atomic!vars
    BY <2>2 DEF vars, Atomic!vars
  <2>3. ASSUME NEW r \in Requests, Call(r) \/ Insert(r) \/ Commit(r)
        PROVE  Atomic!Next \/ UNCHANGED Atomic!vars
    BY <2>3, CallReplies, InsertPerforms, CommitPerforms DEF Atomic!Next, Atomic!vars
  <2>4. ASSUME NEW r \in Requests,
               \/ Refuse(r) \/ Conflict(r) \/ Return(r)
               \/ DatabaseError(r) \/ Crash(r)
        PROVE  Atomic!Next
    BY <2>4, EndReplies DEF Atomic!Next
  <2> QED BY <2>1, <2>2, <2>3, <2>4 DEF Next, Proceed
<1> QED BY <1>1, <1>2, Invariance, PTL DEF Spec, ImplementsAtomic, Atomic!Spec
=============================================================================
