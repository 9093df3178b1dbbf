-------------------------- MODULE Analytics_proofs ---------------------------
(***************************************************************************)
(* The audit trail and the reports that read it, for every definition,     *)
(* every set of users and every length of run.  The audited engine         *)
(* implements the engine of ApprovalEngine, so that whatever is proved of  *)
(* that one holds here; its trail tells what happened (the inductive       *)
(* invariant is Life /\ Accounted); the classes of executions are counted  *)
(* from the trail without overlap; and the counters never fall.  With the  *)
(* times and the escalations of the trail in order (Clocked and            *)
(* EscalationsTold), the reports agree with one another, the time they     *)
(* report for the states is the time that has passed, and their statistics *)
(* are in order.                                                           *)
(***************************************************************************)
EXTENDS Analytics, ApprovalEngine_proofs

-----------------------------------------------------------------------------
(* What the percentiles of the reports read, for samples of every size.    *)

(* Python's round stays within a half of the quotient.                     *)
LEMMA RoundedNear ==
  ASSUME NEW a \in Nat
  PROVE  /\ RoundedQuotient(a, 100) \in Nat
         /\ 100 * RoundedQuotient(a, 100) <= a + 50
         /\ a <= 100 * RoundedQuotient(a, 100) + 50
<1> DEFINE q == a \div 100
           r == a % 100
<1>1. q \in Nat /\ r \in 0..99 /\ a = 100 * q + r
  OBVIOUS
<1> HIDE DEF q, r
<1>2. 2 * r < 100 \/ (2 * r = 100 /\ q % 2 = 0) => 2 * r <= 100
  BY <1>1
<1>3. ~ (2 * r < 100 \/ (2 * r = 100 /\ q % 2 = 0)) => 2 * r >= 100
  BY <1>1
<1>4. RoundedQuotient(a, 100) =
        IF 2 * r < 100 \/ (2 * r = 100 /\ q % 2 = 0) THEN q ELSE q + 1
  BY DEF RoundedQuotient, q, r
<1> QED BY <1>1, <1>2, <1>3, <1>4

(* The nearest rank, characterised.                                        *)
LEMMA NearestNear ==
  ASSUME NEW n \in Nat, NEW percent \in 0..100
  PROVE  /\ NearestRank(n, percent) \in Nat
         /\ percent * n <= 100 * NearestRank(n, percent)
         /\ 100 * NearestRank(n, percent) <= percent * n + 99
<1> DEFINE a == percent * n + 99
<1>1. percent * n \in Nat /\ a \in Nat
  OBVIOUS
<1>2. NearestRank(n, percent) = a \div 100
  BY DEF NearestRank
<1>3. ASSUME NEW b \in Nat
      PROVE  /\ b \div 100 \in Nat
             /\ b < 100 * (b \div 100) + 100 /\ 100 * (b \div 100) <= b
  OBVIOUS
<1> QED BY <1>1, <1>2, <1>3

(* The 95th and the 99th percentile of a sample of any size are values of  *)
(* it, at the nearest rank or the one below.                               *)
THEOREM RanksAlwaysSound == \A n \in Nat \ {0} : RankSound(n)
<1> SUFFICES ASSUME NEW n \in Nat \ {0}, NEW percent \in {95, 99}
             PROVE  /\ Rank(n, percent) \in 1..n
                    /\ Rank(n, percent) \in {NearestRank(n, percent) - 1, NearestRank(n, percent)}
  BY DEF RankSound
<1> DEFINE a == percent * n
           round == RoundedQuotient(a, 100)
           nearest == NearestRank(n, percent)
<1>1. a \in Nat /\ 95 * n <= a /\ a <= 99 * n /\ n >= 1
  <2>1. CASE percent = 95
    BY <2>1
  <2>2. CASE percent = 99
    BY <2>2
  <2> QED BY <2>1, <2>2
<1>2. round \in Nat /\ 100 * round <= a + 50 /\ a <= 100 * round + 50
  BY <1>1, RoundedNear
<1>3. nearest \in Nat /\ a <= 100 * nearest /\ 100 * nearest <= a + 99
  <2>1. n \in Nat /\ percent \in 0..100
    OBVIOUS
  <2> QED BY <2>1, NearestNear
<1>4. Rank(n, percent) =
        LET index == round - 1
            positive == IF index < 0 THEN 0 ELSE index
        IN  1 + IF positive < n - 1 THEN positive ELSE n - 1
  BY DEF Rank
<1> HIDE DEF a, round, nearest
<1>5. round >= 1 /\ round <= n
  BY <1>1, <1>2
<1>6. Rank(n, percent) = round
  BY <1>2, <1>4, <1>5
<1>7. round = nearest - 1 \/ round = nearest
  BY <1>1, <1>2, <1>3
<1> QED BY <1>2, <1>5, <1>6, <1>7 DEF nearest

-----------------------------------------------------------------------------
(* The audited execution is an execution of the engine.                    *)

LEMMA EngineStep ==
  ASSUME [AuditedNext]_auditedVars
  PROVE  [Next]_vars
<1>1. CASE UNCHANGED auditedVars
  BY <1>1 DEF auditedVars
<1>2. CASE AuditedNext
  <2>1. ASSUME NEW u \in Actors, Begin(u)
        PROVE  Next
    BY <2>1 DEF Begin, Next
  <2>2. ASSUME NEW u \in Actors, NEW action \in Actions, NEW time \in Ends,
               Transit(u, action, time)
        PROVE  Next
    BY <2>2 DEF Transit, Next
  <2>3. ASSUME NEW u \in Users, Approve(u) \/ Reject(u)
        PROVE  Next
    BY <2>3 DEF Next
  <2>4. ASSUME NEW granter \in Users, NEW grantee \in Users,
               NEW step \in States \cup {AnyStep}, NEW time \in Ends,
               Forward(granter, grantee, step, time)
        PROVE  Next
    BY <2>4 DEF Forward, Next
  <2>5. ASSUME NEW d \in DOMAIN delegations, NEW time \in Ends, Withdraw(d, time)
        PROVE  Next
    BY <2>5 DEF Withdraw, Next
  <2>6. ASSUME NEW u \in Actors, NEW who \in Escalees, NEW time \in Ends, Raise(u, who, time)
        PROVE  Next
    BY <2>6 DEF Raise, Next
  <2>7. ASSUME NEW time \in Ends,
               \/ RecordStart(time) \/ Comment(time)
               \/ \E upload \in Uploads : Attach(upload, time)
        PROVE  UNCHANGED vars
    BY <2>7 DEF RecordStart, Comment, Attach
  <2>8. ASSUME NEW value \in Data, EditObject(value)
        PROVE  Next
    BY <2>8 DEF Next
  <2>9. Tick => UNCHANGED vars
    BY DEF Tick
  <2> QED BY <1>2, <2>1, <2>2, <2>3, <2>4, <2>5, <2>6, <2>7, <2>8, <2>9 DEF AuditedNext
<1> QED BY <1>1, <1>2

(* What leaves an audit trail behaves as the engine does, so that every    *)
(* theorem about the engine holds of it.                                   *)
THEOREM EngineImplemented == AuditedSpec => Spec
<1>1. AuditedInit => Init
  BY DEF AuditedInit
<1>2. [AuditedNext]_auditedVars => [Next]_vars
  BY EngineStep
<1> QED BY <1>1, <1>2, PTL DEF AuditedSpec, Spec

-----------------------------------------------------------------------------
(* What a list of audit rows tells.                                        *)

(* The last row about slot i tells this status.                            *)
Tells(list, i, status) ==
  \E k \in DOMAIN list :
    /\ list[k].slot = i /\ StatusTold(list[k].type) = status
    /\ \A j \in DOMAIN list : j > k => list[j].slot # i

Silent(list, i) == \A k \in DOMAIN list : list[k].slot # i

Without(list, type) == \A k \in DOMAIN list : list[k].type # type

(* The last transition of the list leads to state s.                       *)
Leads(list, s) ==
  \E k \in DOMAIN list :
    /\ list[k].type = "transition_executed" /\ list[k].target = s
    /\ \A j \in DOMAIN list : j > k => list[j].type # "transition_executed"

(* The list records one completion, by the transition of this name.        *)
Completes(list, name) ==
  \E k \in DOMAIN list :
    /\ list[k].type = "workflow_completed" /\ list[k].action = name
    /\ \A j \in DOMAIN list : list[j].type = "workflow_completed" => j = k

(* What the list tells of the state where the execution began and of the   *)
(* one it is in: a recorded start names the former, a transition leaves    *)
(* the latter.                                                             *)
Based(list) ==
  \A k \in DOMAIN list :
    /\ list[k].type = "workflow_started" => Started /\ list[k].target = Origin
    /\ list[k].type = "transition_executed" => list[k].source = current

(* The first transition of the list, if it has one, leaves state s.        *)
Departs(list, s) ==
  \A k \in DOMAIN list :
    /\ list[k].type = "transition_executed"
    /\ \A j \in DOMAIN list : j < k => list[j].type # "transition_executed"
    => list[k].source = s

(* All rows of the list carry this time.                                   *)
AllAt(list, time) == \A k \in DOMAIN list : list[k].at = time

(* The rows of one list after another.                                     *)
LEMMA RowsOfConcat ==
  ASSUME NEW a \in Seq(AuditRow), NEW b \in Seq(AuditRow)
  PROVE  /\ a \o b \in Seq(AuditRow)
         /\ \A k \in DOMAIN a : k \in DOMAIN (a \o b) /\ (a \o b)[k] = a[k]
         /\ \A k \in DOMAIN b : Len(a) + k \in DOMAIN (a \o b) /\ (a \o b)[Len(a) + k] = b[k]
         /\ \A k \in DOMAIN (a \o b) :
              \/ k \in DOMAIN a /\ (a \o b)[k] = a[k]
              \/ k - Len(a) \in DOMAIN b /\ (a \o b)[k] = b[k - Len(a)]
         /\ \A j \in DOMAIN a, k \in DOMAIN b : j < Len(a) + k
         /\ Len(a) \in Nat /\ DOMAIN a \subseteq Nat /\ DOMAIN b \subseteq Nat
<1>1. /\ a \o b \in Seq(AuditRow) /\ Len(a) \in Nat /\ Len(b) \in Nat
      /\ DOMAIN a = 1..Len(a) /\ DOMAIN b = 1..Len(b)
      /\ Len(a \o b) = Len(a) + Len(b)
      /\ \A k \in 1..Len(a) + Len(b) :
           (a \o b)[k] = IF k <= Len(a) THEN a[k] ELSE b[k - Len(a)]
  BY ConcatProperties
<1>2. DOMAIN (a \o b) = 1..Len(a) + Len(b)
  BY <1>1
<1>3. \A k \in DOMAIN (a \o b) :
        \/ k \in DOMAIN a /\ (a \o b)[k] = a[k]
        \/ k - Len(a) \in DOMAIN b /\ (a \o b)[k] = b[k - Len(a)]
  BY <1>1, <1>2
<1>4. \A k \in DOMAIN b : Len(a) + k \in DOMAIN (a \o b) /\ (a \o b)[Len(a) + k] = b[k]
  <2> TAKE k \in DOMAIN b
  <2>1. Len(a) + k \in 1..Len(a) + Len(b) /\ ~(Len(a) + k <= Len(a)) /\ Len(a) + k - Len(a) = k
    BY <1>1
  <2> QED BY <1>1, <1>2, <2>1
<1>5. \A k \in DOMAIN a : k \in DOMAIN (a \o b) /\ (a \o b)[k] = a[k]
  BY <1>1, <1>2
<1> QED BY <1>1, <1>3, <1>4, <1>5

LEMMA RowsAssociate ==
  ASSUME NEW first \in Seq(AuditRow), NEW second \in Seq(AuditRow), NEW third \in Seq(AuditRow)
  PROVE  (first \o second) \o third = first \o (second \o third)
BY ConcatAssociative, SMTT(30)

LEMMA ConcatAllAt ==
  ASSUME NEW a \in Seq(AuditRow), NEW b \in Seq(AuditRow), NEW time,
         AllAt(a, time), AllAt(b, time)
  PROVE  AllAt(a \o b, time)
BY RowsOfConcat DEF AllAt

(* Of two lists, the second has the last word.                             *)
LEMMA ConcatTells ==
  ASSUME NEW a \in Seq(AuditRow), NEW b \in Seq(AuditRow), NEW i, NEW status
  PROVE  /\ Tells(b, i, status) => Tells(a \o b, i, status)
         /\ Tells(a, i, status) /\ Silent(b, i) => Tells(a \o b, i, status)
         /\ Silent(a, i) /\ Silent(b, i) => Silent(a \o b, i)
<1> DEFINE c == a \o b
<1>1. /\ \A k \in DOMAIN a : k \in DOMAIN c /\ c[k] = a[k]
      /\ \A k \in DOMAIN b : Len(a) + k \in DOMAIN c /\ c[Len(a) + k] = b[k]
      /\ \A k \in DOMAIN c : \/ k \in DOMAIN a /\ c[k] = a[k]
                             \/ k - Len(a) \in DOMAIN b /\ c[k] = b[k - Len(a)]
      /\ \A j \in DOMAIN a, k \in DOMAIN b : j < Len(a) + k
      /\ Len(a) \in Nat /\ DOMAIN a \subseteq Nat /\ DOMAIN b \subseteq Nat
  BY RowsOfConcat
<1>0. \A k \in DOMAIN c : k \in Int
  <2>1. c \in Seq(AuditRow)
    BY RowsOfConcat
  <2> HIDE DEF c
  <2> QED BY <2>1
<1> HIDE DEF c
<1>2. ASSUME Tells(b, i, status)
      PROVE  Tells(c, i, status)
  <2>1. PICK k \in DOMAIN b :
          /\ b[k].slot = i /\ StatusTold(b[k].type) = status
          /\ \A j \in DOMAIN b : j > k => b[j].slot # i
    BY <1>2 DEF Tells
  <2>2. ASSUME NEW j \in DOMAIN c, j > Len(a) + k
        PROVE  c[j].slot # i
    <3>1. ~(j \in DOMAIN a)
      BY <1>1, <2>2
    <3>2. j - Len(a) \in DOMAIN b /\ c[j] = b[j - Len(a)] /\ j \in Int
      BY <1>0, <1>1, <2>2, <3>1
    <3>3. j - Len(a) > k
      BY <1>1, <2>2, <3>2
    <3> QED BY <2>1, <3>2, <3>3
  <2>3. Len(a) + k \in DOMAIN c /\ c[Len(a) + k] = b[k]
    BY <1>1
  <2> QED BY <2>1, <2>2, <2>3 DEF Tells
<1>3. ASSUME Tells(a, i, status), Silent(b, i)
      PROVE  Tells(c, i, status)
  <2>1. PICK k \in DOMAIN a :
          /\ a[k].slot = i /\ StatusTold(a[k].type) = status
          /\ \A j \in DOMAIN a : j > k => a[j].slot # i
    BY <1>3 DEF Tells
  <2>2. ASSUME NEW j \in DOMAIN c, j > k
        PROVE  c[j].slot # i
    BY <1>1, <1>3, <2>1, <2>2 DEF Silent
  <2> QED BY <1>1, <2>1, <2>2 DEF Tells
<1>4. ASSUME Silent(a, i), Silent(b, i)
      PROVE  Silent(c, i)
  BY <1>1, <1>4 DEF Silent
<1> QED BY <1>2, <1>3, <1>4 DEF c

LEMMA ConcatLeads ==
  ASSUME NEW a \in Seq(AuditRow), NEW b \in Seq(AuditRow), NEW s, NEW name
  PROVE  /\ Leads(b, s) => Leads(a \o b, s)
         /\ Leads(a, s) /\ Without(b, "transition_executed") => Leads(a \o b, s)
         /\ \A type \in EventTypes :
              Without(a, type) /\ Without(b, type) => Without(a \o b, type)
         /\ Completes(a, name) /\ Without(b, "workflow_completed") => Completes(a \o b, name)
         /\ Without(a, "workflow_completed") /\ Completes(b, name) => Completes(a \o b, name)
<1> DEFINE c == a \o b
<1>1. /\ \A k \in DOMAIN a : k \in DOMAIN c /\ c[k] = a[k]
      /\ \A k \in DOMAIN b : Len(a) + k \in DOMAIN c /\ c[Len(a) + k] = b[k]
      /\ \A k \in DOMAIN c : \/ k \in DOMAIN a /\ c[k] = a[k]
                             \/ k - Len(a) \in DOMAIN b /\ c[k] = b[k - Len(a)]
      /\ \A j \in DOMAIN a, k \in DOMAIN b : j < Len(a) + k
      /\ Len(a) \in Nat /\ DOMAIN a \subseteq Nat /\ DOMAIN b \subseteq Nat
  BY RowsOfConcat
<1>2. \A k \in DOMAIN c : k \in Int
  <2>1. c \in Seq(AuditRow)
    BY RowsOfConcat
  <2> HIDE DEF c
  <2> QED BY <2>1
<1> HIDE DEF c
<1>3. ASSUME Leads(b, s)
      PROVE  Leads(c, s)
  <2>1. PICK k \in DOMAIN b :
          /\ b[k].type = "transition_executed" /\ b[k].target = s
          /\ \A j \in DOMAIN b : j > k => b[j].type # "transition_executed"
    BY <1>3 DEF Leads
  <2>2. ASSUME NEW j \in DOMAIN c, j > Len(a) + k
        PROVE  c[j].type # "transition_executed"
    <3>1. ~(j \in DOMAIN a)
      BY <1>1, <2>2
    <3>2. j - Len(a) \in DOMAIN b /\ c[j] = b[j - Len(a)] /\ j \in Int
      BY <1>1, <1>2, <2>2, <3>1
    <3>3. j - Len(a) > k
      BY <1>1, <2>2, <3>2
    <3> QED BY <2>1, <3>2, <3>3
  <2>3. Len(a) + k \in DOMAIN c /\ c[Len(a) + k] = b[k]
    BY <1>1
  <2> QED BY <2>1, <2>2, <2>3 DEF Leads
<1>4. ASSUME Leads(a, s), Without(b, "transition_executed")
      PROVE  Leads(c, s)
  <2>1. PICK k \in DOMAIN a :
          /\ a[k].type = "transition_executed" /\ a[k].target = s
          /\ \A j \in DOMAIN a : j > k => a[j].type # "transition_executed"
    BY <1>4 DEF Leads
  <2>2. ASSUME NEW j \in DOMAIN c, j > k
        PROVE  c[j].type # "transition_executed"
    BY <1>1, <1>4, <2>1, <2>2 DEF Without
  <2> QED BY <1>1, <2>1, <2>2 DEF Leads
<1>5. \A type \in EventTypes : Without(a, type) /\ Without(b, type) => Without(c, type)
  BY <1>1 DEF Without
<1>6. ASSUME Completes(a, name), Without(b, "workflow_completed")
      PROVE  Completes(c, name)
  <2>1. PICK k \in DOMAIN a :
          /\ a[k].type = "workflow_completed" /\ a[k].action = name
          /\ \A j \in DOMAIN a : a[j].type = "workflow_completed" => j = k
    BY <1>6 DEF Completes
  <2>2. ASSUME NEW j \in DOMAIN c, c[j].type = "workflow_completed"
        PROVE  j = k
    BY <1>1, <1>6, <2>1, <2>2 DEF Without
  <2> QED BY <1>1, <2>1, <2>2 DEF Completes
<1>7. ASSUME Without(a, "workflow_completed"), Completes(b, name)
      PROVE  Completes(c, name)
  <2>1. PICK k \in DOMAIN b :
          /\ b[k].type = "workflow_completed" /\ b[k].action = name
          /\ \A j \in DOMAIN b : b[j].type = "workflow_completed" => j = k
    BY <1>7 DEF Completes
  <2>2. ASSUME NEW j \in DOMAIN c, c[j].type = "workflow_completed"
        PROVE  j = Len(a) + k
    <3>1. j - Len(a) \in DOMAIN b /\ c[j] = b[j - Len(a)]
      BY <1>1, <1>7, <2>2 DEF Without
    <3>2. j - Len(a) = k
      BY <2>1, <2>2, <3>1
    <3> QED BY <1>1, <1>2, <3>2
  <2>3. Len(a) + k \in DOMAIN c /\ c[Len(a) + k] = b[k]
    BY <1>1
  <2> QED BY <2>1, <2>2, <2>3 DEF Completes
<1> QED BY <1>3, <1>4, <1>5, <1>6, <1>7 DEF c

(* Of two lists, the first has the first word.                             *)
LEMMA ConcatBased ==
  ASSUME NEW a \in Seq(AuditRow), NEW b \in Seq(AuditRow), NEW s
  PROVE  /\ Based(a) /\ Based(b) => Based(a \o b)
         /\ Departs(a, s) /\ ~Without(a, "transition_executed") => Departs(a \o b, s)
         /\ Without(a, "transition_executed") /\ Based(b) => Departs(a \o b, current)
         /\ Departs(a, s) /\ Without(b, "transition_executed") => Departs(a \o b, s)
<1> DEFINE c == a \o b
<1>1. /\ \A k \in DOMAIN a : k \in DOMAIN c /\ c[k] = a[k]
      /\ \A k \in DOMAIN c : \/ k \in DOMAIN a /\ c[k] = a[k]
                             \/ k - Len(a) \in DOMAIN b /\ c[k] = b[k - Len(a)]
      /\ \A j \in DOMAIN a, k \in DOMAIN b : j < Len(a) + k
      /\ Len(a) \in Nat /\ DOMAIN a \subseteq Nat /\ DOMAIN b \subseteq Nat
  BY RowsOfConcat
<1>2. \A k \in DOMAIN c : k \in Int
  <2>1. c \in Seq(AuditRow)
    BY RowsOfConcat
  <2> HIDE DEF c
  <2> QED BY <2>1
<1> HIDE DEF c
<1>3. Based(a) /\ Based(b) => Based(c)
  BY <1>1 DEF Based
<1>4. ASSUME Departs(a, s), ~Without(a, "transition_executed")
      PROVE  Departs(c, s)
  <2>1. PICK i \in DOMAIN a : a[i].type = "transition_executed"
    BY <1>4 DEF Without
  <2>2. ASSUME NEW k \in DOMAIN c, c[k].type = "transition_executed",
               \A j \in DOMAIN c : j < k => c[j].type # "transition_executed"
        PROVE  c[k].source = s
    <3>1. ~(i < k)
      BY <1>1, <2>1, <2>2
    <3>2. k \in DOMAIN a /\ c[k] = a[k]
      <4>1. ASSUME k - Len(a) \in DOMAIN b
            PROVE  FALSE
        <5>1. i < Len(a) + (k - Len(a))
          BY <1>1, <4>1
        <5>2. Len(a) + (k - Len(a)) = k
          BY <1>1, <1>2
        <5> QED BY <3>1, <5>1, <5>2
      <4> QED BY <1>1, <4>1
    <3>3. \A j \in DOMAIN a : j < k => a[j].type # "transition_executed"
      BY <1>1, <2>2
    <3> QED BY <1>4, <2>2, <3>2, <3>3 DEF Departs
  <2> QED BY <2>2 DEF Departs
<1>5. ASSUME Without(a, "transition_executed"), Based(b)
      PROVE  Departs(c, current)
  BY <1>1, <1>5 DEF Without, Based, Departs
<1>6. ASSUME Departs(a, s), Without(b, "transition_executed")
      PROVE  Departs(c, s)
  <2>1. ASSUME NEW k \in DOMAIN c, c[k].type = "transition_executed",
               \A j \in DOMAIN c : j < k => c[j].type # "transition_executed"
        PROVE  c[k].source = s
    <3>1. k \in DOMAIN a /\ c[k] = a[k]
      BY <1>1, <1>6, <2>1 DEF Without
    <3>2. \A j \in DOMAIN a : j < k => a[j].type # "transition_executed"
      BY <1>1, <2>1
    <3> QED BY <1>6, <2>1, <3>1, <3>2 DEF Departs
  <2> QED BY <2>1 DEF Departs
<1> QED BY <1>3, <1>4, <1>5, <1>6 DEF c

(* Rows of other kinds say nothing of either state.                        *)
LEMMA OtherBased ==
  ASSUME NEW list, Without(list, "transition_executed"), Without(list, "workflow_started")
  PROVE  Based(list)
BY DEF Without, Based

(* A list of one row.                                                      *)
LEMMA OneRow ==
  ASSUME NEW row \in AuditRow
  PROVE  /\ <<row>> \in Seq(AuditRow)
         /\ Tells(<<row>>, row.slot, StatusTold(row.type))
         /\ \A i : i # row.slot => Silent(<<row>>, i)
         /\ \A type : type # row.type => Without(<<row>>, type)
         /\ row.type = "transition_executed" => Leads(<<row>>, row.target)
         /\ row.type = "workflow_completed" => Completes(<<row>>, row.action)
         /\ AllAt(<<row>>, row.at)
<1>1. <<row>> \in Seq(AuditRow) /\ DOMAIN <<row>> = {1} /\ <<row>>[1] = row
  OBVIOUS
<1> DEFINE list == <<row>>
<1> HIDE DEF list
<1>2. DOMAIN list = {1} /\ list[1] = row
  BY <1>1 DEF list
<1>3. Tells(list, row.slot, StatusTold(row.type))
  BY <1>2 DEF Tells
<1>4. \A i : i # row.slot => Silent(list, i)
  BY <1>2 DEF Silent
<1>5. \A type : type # row.type => Without(list, type)
  BY <1>2 DEF Without
<1>6. row.type = "transition_executed" => Leads(list, row.target)
  BY <1>2 DEF Leads
<1>7. row.type = "workflow_completed" => Completes(list, row.action)
  BY <1>2 DEF Completes
<1>8. AllAt(list, row.at)
  BY <1>2 DEF AllAt
<1> QED BY <1>1, <1>3, <1>4, <1>5, <1>6, <1>7, <1>8 DEF list

(* What a transition that is applied writes: the move, and then either the *)
(* completion or a request for each slot that was opened.                  *)
LEMMA MoveRows ==
  ASSUME TypeOK, NEW t \in definition.transitions, NEW rows \in Seq(Approval),
         Len(rows) = Len(approvals), ApplyTransition(t, rows), NEW time \in Nat
  PROVE  /\ Move(time) \in Seq(AuditRow) /\ AllAt(Move(time), time)
         /\ Leads(Move(time), t.target)
         /\ t.source = current => Based(Move(time))
         /\ Terminal(t.target) => Completes(Move(time), t.name)
         /\ ~Terminal(t.target) => Without(Move(time), "workflow_completed")
         /\ \A type \in EventTypes :
              type \notin {"transition_executed", "workflow_completed", "approval_required"}
              => Without(Move(time), type)
         /\ \A i \in DOMAIN approvals : Silent(Move(time), i)
         /\ \A i \in DOMAIN approvals' :
              i \notin DOMAIN approvals => Tells(Move(time), i, "PENDING")
<1>1. t \in Transition /\ path \in Seq(Transition)
  BY AppliedType DEF TypeOK
<1>2. path'[Len(path')] = t
  BY <1>1, AppendProperties DEF ApplyTransition
<1>3. /\ t.name \in STRING \cup Verbs
      /\ t.source \in States \cup {NoText} /\ t.target \in States \cup {NoText}
  BY <1>1 DEF Transition
<1>4. /\ approvals \in Seq(Approval) /\ approvals' \in Seq(Approval)
      /\ Len(approvals) \in Nat /\ Len(approvals') \in Nat
      /\ Len(approvals') - Len(approvals) \in Nat
  <2>1. approvals \in Seq(Approval)
    BY DEF TypeOK
  <2>2. approvals' \in Seq(Approval) /\ Len(approvals') >= Len(rows)
    BY AppliedRows DEF Carried
  <2> QED BY <2>1, <2>2
<1> DEFINE head == Row("transition_executed", t.name, t.source, t.target, 0, time)
           end == Row("workflow_completed", t.name, t.source, t.target, 0, time)
           n == Len(approvals') - Len(approvals)
           asked(k) == Row("approval_required", t.name, t.target, NoText,
                           Len(approvals) + k, time)
           requests == [k \in 1..n |-> asked(k)]
           rest == IF Terminal(t.target) THEN <<end>> ELSE requests
<1>5. Move(time) = <<head>> \o rest
  BY <1>2 DEF Move
<1>6. /\ head \in AuditRow /\ head.type = "transition_executed"
      /\ head.target = t.target /\ head.slot = 0 /\ head.at = time
      /\ head.source = t.source
  <2>1. "transition_executed" \in EventTypes
    BY DEF EventTypes
  <2>2. head \in AuditRow
    BY <1>3, <2>1 DEF Row, AuditRow
  <2> QED BY <2>2 DEF Row
<1>7. /\ end \in AuditRow /\ end.type = "workflow_completed"
      /\ end.action = t.name /\ end.slot = 0 /\ end.at = time
  <2>1. "workflow_completed" \in EventTypes
    BY DEF EventTypes
  <2>2. end \in AuditRow
    BY <1>3, <2>1 DEF Row, AuditRow
  <2> QED BY <2>2 DEF Row
<1>8. ASSUME NEW k \in 1..n
      PROVE  /\ asked(k) \in AuditRow /\ asked(k).type = "approval_required"
             /\ asked(k).slot = Len(approvals) + k /\ asked(k).at = time
  <2>1. "approval_required" \in EventTypes /\ Len(approvals) + k \in Nat
    BY <1>4 DEF EventTypes
  <2>2. NoText \in States \cup {NoText}
    OBVIOUS
  <2> HIDE DEF n
  <2>3. asked(k) \in AuditRow
    BY <1>3, <2>1, <2>2 DEF Row, AuditRow
  <2> QED BY <2>3 DEF Row
<1>9. /\ requests \in Seq(AuditRow) /\ DOMAIN requests = 1..n
      /\ \A k \in 1..n : requests[k].type = "approval_required"
                         /\ requests[k].slot = Len(approvals) + k
                         /\ requests[k].at = time
  <2>1. n \in Nat
    BY <1>4
  <2> HIDE DEF n, asked
  <2>2. requests \in [1..n -> AuditRow]
    BY <1>8
  <2>3. requests \in Seq(AuditRow) /\ DOMAIN requests = 1..n
    BY <2>1, <2>2
  <2> QED BY <1>8, <2>3
<1> HIDE DEF head, end, requests
<1>12. t.source = current => Based(Move(time))
  <2>1. <<head>> \in Seq(AuditRow) /\ rest \in Seq(AuditRow)
    BY <1>6, <1>7, <1>9
  <2>2. t.source = current => Based(<<head>>)
    BY <1>6 DEF Based
  <2>3. Based(rest)
    <3>1. Based(<<end>>)
      BY <1>7 DEF Based
    <3>2. Based(requests)
      <4> HIDE DEF n
      <4> QED BY <1>9 DEF Based
    <3> QED BY <3>1, <3>2
  <2> DEFINE one == <<head>>
  <2>4. /\ one \in Seq(AuditRow) /\ rest \in Seq(AuditRow) /\ Move(time) = one \o rest
        /\ Based(rest) /\ (t.source = current => Based(one))
    BY <1>5, <2>1, <2>2, <2>3
  <2> HIDE DEF rest, one
  <2> QED BY <2>4, ConcatBased
<1>10. CASE Terminal(t.target)
  <2>1. rest = <<end>>
    BY <1>10
  <2>2. \A i \in DOMAIN approvals' : i \in DOMAIN approvals
    BY <1>4, <1>10 DEF ApplyTransition
  <2>3. \A i \in DOMAIN approvals : i # 0
    BY <1>4
  <2>4. /\ <<head>> \in Seq(AuditRow) /\ <<end>> \in Seq(AuditRow)
        /\ Leads(<<head>>, t.target) /\ Completes(<<end>>, t.name)
        /\ \A type : type # "transition_executed" => Without(<<head>>, type)
        /\ \A type : type # "workflow_completed" => Without(<<end>>, type)
        /\ \A i : i # 0 => Silent(<<head>>, i) /\ Silent(<<end>>, i)
        /\ AllAt(<<head>>, time) /\ AllAt(<<end>>, time)
    BY <1>6, <1>7, OneRow, Zenon
  <2>5. /\ <<head>> \o <<end>> \in Seq(AuditRow) /\ AllAt(<<head>> \o <<end>>, time)
        /\ Leads(<<head>> \o <<end>>, t.target) /\ Completes(<<head>> \o <<end>>, t.name)
        /\ \A type \in EventTypes :
             type \notin {"transition_executed", "workflow_completed", "approval_required"}
             => Without(<<head>> \o <<end>>, type)
        /\ \A i : i # 0 => Silent(<<head>> \o <<end>>, i)
    <3> DEFINE a == <<head>>
               b == <<end>>
    <3> HIDE DEF a, b
    <3>1. a \in Seq(AuditRow) /\ b \in Seq(AuditRow)
      BY <2>4 DEF a, b
    <3>2. /\ a \o b \in Seq(AuditRow) /\ Leads(a \o b, t.target) /\ Completes(a \o b, t.name)
          /\ \A type \in EventTypes :
               type \notin {"transition_executed", "workflow_completed", "approval_required"}
               => Without(a \o b, type)
      <4>1. Leads(a, t.target) /\ Completes(b, t.name)
        BY <2>4 DEF a, b
      <4>2. /\ \A type : type # "transition_executed" => Without(a, type)
            /\ \A type : type # "workflow_completed" => Without(b, type)
        BY <2>4 DEF a, b
      <4>3. Without(b, "transition_executed") /\ Without(a, "workflow_completed")
        BY <4>2
      <4>4. a \o b \in Seq(AuditRow)
        BY <3>1, RowsOfConcat
      <4>5. Leads(a \o b, t.target) /\ Completes(a \o b, t.name)
        BY <3>1, <4>1, <4>3, ConcatLeads, Zenon
      <4>6. \A type \in EventTypes :
              type # "transition_executed" /\ type # "workflow_completed"
              => Without(a \o b, type)
        BY <3>1, <4>2, ConcatLeads, Zenon
      <4> QED BY <4>4, <4>5, <4>6
    <3>3. \A i : i # 0 => Silent(a, i) /\ Silent(b, i)
      BY <2>4 DEF a, b
    <3>4. \A i : i # 0 => Silent(a \o b, i)
      BY <3>1, <3>3, ConcatTells, Zenon
    <3>5. AllAt(a \o b, time)
      <4>1. AllAt(a, time) /\ AllAt(b, time)
        BY <2>4 DEF a, b
      <4> QED BY <3>1, <4>1, ConcatAllAt
    <3> QED BY <3>2, <3>4, <3>5 DEF a, b
  <2> QED BY <1>5, <1>10, <1>12, <2>1, <2>2, <2>3, <2>5
<1>11. CASE ~Terminal(t.target)
  <2>1. rest = requests
    BY <1>11
  <2>2. \A i \in DOMAIN approvals : i \in Nat /\ i # 0 /\ i <= Len(approvals)
    BY <1>4
  <2>3. /\ \A type : type # "approval_required" => Without(requests, type)
        /\ \A i \in DOMAIN approvals : Silent(requests, i)
    <3>1. \A type : type # "approval_required" => Without(requests, type)
      BY <1>9 DEF Without
    <3>2. \A i \in DOMAIN approvals, k \in 1..n : Len(approvals) + k # i
      BY <1>4
    <3>3. \A i \in DOMAIN approvals : Silent(requests, i)
      <4> HIDE DEF n
      <4> QED BY <1>9, <3>2 DEF Silent
    <3> QED BY <3>1, <3>3
  <2>4. ASSUME NEW i \in DOMAIN approvals', i \notin DOMAIN approvals
        PROVE  Tells(requests, i, "PENDING")
    <3>1. i - Len(approvals) \in 1..n /\ Len(approvals) + (i - Len(approvals)) = i
      BY <1>4, <2>4
    <3>2. /\ i - Len(approvals) \in DOMAIN requests
          /\ requests[i - Len(approvals)].slot = i
          /\ requests[i - Len(approvals)].type = "approval_required"
      BY <1>9, <3>1
    <3>3. \A j \in DOMAIN requests : j > i - Len(approvals) => requests[j].slot # i
      <4>1. i \in Nat
        BY <1>4
      <4>2. \A j \in 1..n : j > i - Len(approvals) => Len(approvals) + j # i
        BY <1>4, <4>1
      <4> HIDE DEF n
      <4> QED BY <1>9, <4>2
    <3>4. StatusTold("approval_required") = "PENDING"
      BY DEF StatusTold
    <3> QED BY <3>2, <3>3, <3>4 DEF Tells
  <2>5. /\ <<head>> \in Seq(AuditRow)
        /\ Leads(<<head>>, t.target)
        /\ \A type : type # "transition_executed" => Without(<<head>>, type)
        /\ \A i : i # 0 => Silent(<<head>>, i)
        /\ AllAt(<<head>>, time)
    BY <1>6, OneRow, Zenon
  <2> DEFINE a == <<head>>
  <2> HIDE DEF a
  <2>6. a \in Seq(AuditRow) /\ requests \in Seq(AuditRow) /\ Move(time) = a \o requests
    BY <1>5, <1>9, <2>1, <2>5 DEF a
  <2>7. /\ Leads(a, t.target)
        /\ \A type : type # "transition_executed" => Without(a, type)
        /\ \A i : i # 0 => Silent(a, i)
        /\ AllAt(a, time)
    BY <2>5 DEF a
  <2>8. a \o requests \in Seq(AuditRow)
    BY <2>6, RowsOfConcat
  <2>15. AllAt(a \o requests, time)
    <3>1. AllAt(requests, time)
      BY <1>9 DEF AllAt
    <3> QED BY <2>6, <2>7, <3>1, ConcatAllAt
  <2>9. Without(requests, "transition_executed")
    BY <2>3
  <2>10. Leads(a \o requests, t.target)
    BY <2>6, <2>7, <2>9, ConcatLeads, Zenon
  <2>11. \A type \in EventTypes :
           type # "transition_executed" /\ type # "approval_required"
           => Without(a \o requests, type)
    BY <2>3, <2>6, <2>7, ConcatLeads, Zenon
  <2>12. "workflow_completed" \in EventTypes
    BY DEF EventTypes
  <2>13. \A i \in DOMAIN approvals : Silent(a \o requests, i)
    BY <2>2, <2>3, <2>6, <2>7, ConcatTells, Zenon
  <2>14. \A i \in DOMAIN approvals' :
           i \notin DOMAIN approvals => Tells(a \o requests, i, "PENDING")
    BY <2>4, <2>6, ConcatTells, Zenon
  <2> QED BY <1>11, <1>12, <2>6, <2>8, <2>10, <2>11, <2>12, <2>13, <2>14, <2>15
<1> QED BY <1>10, <1>11

(* What cancelling the siblings of a slot writes.                          *)
LEMMA CancelRows ==
  ASSUME TypeOK, Started, NEW kept, NEW time \in Nat
  PROVE  /\ Cancellations(kept, time) \in Seq(AuditRow)
         /\ AllAt(Cancellations(kept, time), time)
         /\ \A type : type # "approval_cancelled" => Without(Cancellations(kept, time), type)
         /\ \A i \in Pending(current) \ {kept} :
              Tells(Cancellations(kept, time), i, "CANCELLED")
         /\ \A i : i \notin Pending(current) \ {kept} => Silent(Cancellations(kept, time), i)
<1> DEFINE S == Pending(current) \ {kept}
           n == Cardinality(S)
           slots == Ascending(S)
           list == Cancellations(kept, time)
           told(k) == Row("approval_cancelled", NoText, current, NoText, slots[k], time)
<1>1. approvals \in Seq(Approval) /\ current \in States
  BY DEF TypeOK, Started
<1>2. S \in SUBSET Int /\ IsFiniteSet(S) /\ S \subseteq Nat
  <2>1. S \in SUBSET (1..Len(approvals)) /\ Len(approvals) \in Nat
    BY <1>1 DEF Pending, WithStatus, OfStep
  <2> HIDE DEF S
  <2>2. IsFiniteSet(1..Len(approvals))
    BY <2>1, FS_Interval
  <2>3. IsFiniteSet(S)
    BY <2>1, <2>2, FS_Subset
  <2>4. S \subseteq Nat
    BY <2>1
  <2> QED BY <2>3, <2>4
<1> HIDE DEF S
<1>3. /\ n \in Nat
      /\ slots \in [1..n -> S]
      /\ \A k, l \in 1..n : k < l => slots[k] < slots[l]
      /\ \A i \in S : \E k \in 1..n : slots[k] = i
  BY <1>2, AscendingLists
<1>4. list = [k \in DOMAIN slots |-> told(k)]
  BY DEF Cancellations, S
<1> HIDE DEF n, slots, list
<1>5. ASSUME NEW k \in 1..n
      PROVE  /\ told(k) \in AuditRow /\ told(k).type = "approval_cancelled"
             /\ told(k).slot = slots[k] /\ told(k).at = time
  <2>1. "approval_cancelled" \in EventTypes /\ slots[k] \in Nat
    BY <1>2, <1>3 DEF EventTypes
  <2>2. NoText \in States \cup {NoText} /\ NoText \in STRING \cup Verbs
        /\ current \in States \cup {NoText}
    BY <1>1 DEF Verbs
  <2>3. told(k) \in AuditRow
    BY <2>1, <2>2 DEF Row, AuditRow
  <2>4. /\ told(k).type = "approval_cancelled" /\ told(k).slot = slots[k]
        /\ told(k).at = time
    BY DEF Row
  <2> QED BY <2>3, <2>4
<1>6. /\ list \in Seq(AuditRow) /\ DOMAIN list = 1..n
      /\ \A k \in 1..n : /\ list[k].type = "approval_cancelled" /\ list[k].slot = slots[k]
                         /\ list[k].at = time
  <2> HIDE DEF told
  <2>1. list \in [1..n -> AuditRow]
    BY <1>3, <1>4, <1>5
  <2> QED BY <1>3, <1>4, <1>5, <2>1
<1>7. \A type : type # "approval_cancelled" => Without(list, type)
  BY <1>6 DEF Without
<1>8. ASSUME NEW i \in S
      PROVE  Tells(list, i, "CANCELLED")
  <2>1. PICK k \in 1..n : slots[k] = i
    BY <1>3
  <2>2. \A j \in 1..n : j > k => slots[j] # i
    BY <1>2, <1>3, <2>1
  <2>3. StatusTold("approval_cancelled") = "CANCELLED"
    BY DEF StatusTold
  <2> QED BY <1>6, <2>1, <2>2, <2>3 DEF Tells
<1>9. \A i : i \notin S => Silent(list, i)
  BY <1>3, <1>6 DEF Silent
<1>10. AllAt(list, time)
  BY <1>6 DEF AllAt
<1> QED BY <1>6, <1>7, <1>8, <1>9, <1>10 DEF S, list

-----------------------------------------------------------------------------
(***************************************************************************)
(* What the trail tells of the execution, each part on its own: the last   *)
(* row about a slot tells its status; the last transition recorded leads   *)
(* to the current state; the recorded start and the first transition both  *)
(* name where it began; completion is recorded once, under the name of     *)
(* the transition that brought it; and no comment or attachment is         *)
(* recorded that there is not.                                             *)
(***************************************************************************)
NoteKinds == {"comment_added", "attachment_added"}

AuditTypes ==
  /\ trail \in Seq(AuditRow)
  /\ now \in Nat /\ completed_at \in Times
  /\ notes \in Seq(NoteKinds)

SlotsTold == \A i \in DOMAIN approvals : Tells(trail, i, approvals[i].status)

MovesTold ==
  \/ ~Entered /\ Without(trail, "transition_executed")
  \/ Entered /\ Leads(trail, current)

StartTold ==
  /\ \A k \in DOMAIN trail :
       trail[k].type = "workflow_started" => Started /\ trail[k].target = Origin
  /\ Departs(trail, Origin)

CompletionTold ==
  /\ completed <=> completed_at # Never
  /\ IF completed THEN Completes(trail, path[Len(path)].name)
     ELSE Without(trail, "workflow_completed")

Having(list, type) == {k \in DOMAIN list : list[k].type = type}

NotesTold ==
  \A kind \in NoteKinds : Cardinality(Having(trail, kind)) <= Cardinality(NotesOf(kind))

NothingForwarded == ~Started => delegations = <<>>

Accounted ==
  /\ AuditTypes /\ SlotsTold /\ MovesTold /\ StartTold
  /\ CompletionTold /\ NotesTold /\ NothingForwarded

(* A list without rows of comments, attachments and escalations.           *)
Plain(rows) == \A type \in NoteKinds \cup {"approval_escalated"} : Without(rows, type)

Quiet(rows) == \A type \in NoteKinds : Without(rows, type)

LEMMA ConcatPlain ==
  ASSUME NEW a \in Seq(AuditRow), NEW b \in Seq(AuditRow)
  PROVE  /\ Plain(a) /\ Plain(b) => Plain(a \o b)
         /\ Quiet(a) /\ Quiet(b) => Quiet(a \o b)
<1>1. NoteKinds \cup {"approval_escalated"} \subseteq EventTypes
  BY DEF NoteKinds, EventTypes
<1>2. \A type \in EventTypes : Without(a, type) /\ Without(b, type) => Without(a \o b, type)
  BY ConcatLeads, Zenon
<1> QED BY <1>1, <1>2 DEF Plain, Quiet

(* The rows that a call appends tell what the call did.                    *)
Told(rows) ==
  /\ rows \in Seq(AuditRow)
  /\ \A i \in DOMAIN approvals' :
       \/ Tells(rows, i, approvals'[i].status)
       \/ /\ i \in DOMAIN approvals /\ Silent(rows, i)
          /\ approvals'[i].status = approvals[i].status
  /\ \/ /\ Without(rows, "transition_executed") /\ Without(rows, "workflow_completed")
        /\ UNCHANGED <<path, completed>>
        /\ Started => UNCHANGED current
     \/ /\ Entered' /\ ~completed
        /\ Started /\ Started' /\ Origin' = Origin
        /\ Leads(rows, current')
        /\ IF completed' THEN Completes(rows, path'[Len(path')].name)
           ELSE Without(rows, "workflow_completed")
  /\ Based(rows)
  /\ definition' = definition

(* A call that ends with a transition, after rows that tell what it did to *)
(* the slots before.                                                       *)
LEMMA MoveTold ==
  ASSUME TypeOK, Started, ~completed, UNCHANGED definition,
         NEW t \in definition.transitions, t.source = current, NEW rows \in Seq(Approval),
         Len(rows) = Len(approvals), ApplyTransition(t, rows), NEW time \in Nat,
         NEW front \in Seq(AuditRow), Without(front, "workflow_completed"), Based(front),
         \A i \in DOMAIN approvals :
           \/ Tells(front, i, rows[i].status)
           \/ Silent(front, i) /\ rows[i].status = approvals[i].status
  PROVE  Told(front \o Move(time))
<1> DEFINE move == Move(time)
<1>1. /\ move \in Seq(AuditRow)
      /\ Leads(move, t.target) /\ Based(move)
      /\ Terminal(t.target) => Completes(move, t.name)
      /\ ~Terminal(t.target) => Without(move, "workflow_completed")
      /\ \A i \in DOMAIN approvals : Silent(move, i)
      /\ \A i \in DOMAIN approvals' :
           i \notin DOMAIN approvals => Tells(move, i, "PENDING")
  BY MoveRows
<1>2. /\ t \in Transition /\ path \in Seq(Transition)
      /\ path' = Append(path, t) /\ current' = t.target
      /\ completed' = Terminal(t.target)
  BY AppliedType DEF TypeOK, ApplyTransition, Seals, Terminal
<1>3. path'[Len(path')] = t /\ Entered'
  BY <1>2, AppendProperties DEF Entered
<1>12. Started' /\ Origin' = Origin
  <2>1. Started'
    BY <1>2, NamesAssumption DEF Transition, Started
  <2>2. path' # <<>> /\ path'[1] = IF path = <<>> THEN t ELSE path[1]
    BY <1>2
  <2> QED BY <2>1, <2>2 DEF Origin
<1>4. /\ approvals \in Seq(Approval) /\ Len(approvals) \in Nat
      /\ \A i \in DOMAIN approvals : approvals'[i] = rows[i]
      /\ \A i \in DOMAIN approvals' :
           i \notin DOMAIN approvals => approvals'[i].status = "PENDING"
  <2>1. approvals \in Seq(Approval)
    BY DEF TypeOK
  <2>2. /\ \A j \in 1..Len(rows) : approvals'[j] = rows[j]
        /\ \A j \in DOMAIN approvals' \ 1..Len(rows) : OpenedAs(approvals'[j], t.target)
    BY AppliedRows
  <2>3. DOMAIN approvals = 1..Len(rows)
    BY <2>1
  <2> QED BY <2>1, <2>2, <2>3 DEF OpenedAs
<1> HIDE DEF move
<1>5. front \o move \in Seq(AuditRow)
  BY <1>1, RowsOfConcat
<1>6. Leads(front \o move, t.target)
  BY <1>1, ConcatLeads, Zenon
<1>7. Terminal(t.target) => Completes(front \o move, t.name)
  BY <1>1, ConcatLeads, Zenon
<1>8. ~Terminal(t.target) => Without(front \o move, "workflow_completed")
  <2>1. "workflow_completed" \in EventTypes
    BY DEF EventTypes
  <2> QED BY <1>1, <2>1, ConcatLeads, Zenon
<1>9. ASSUME NEW i \in DOMAIN approvals'
      PROVE  \/ Tells(front \o move, i, approvals'[i].status)
             \/ /\ i \in DOMAIN approvals /\ Silent(front \o move, i)
                /\ approvals'[i].status = approvals[i].status
  <2>1. CASE i \notin DOMAIN approvals
    <3>1. Tells(move, i, "PENDING") /\ approvals'[i].status = "PENDING"
      BY <1>1, <1>4, <2>1
    <3>2. Tells(front \o move, i, "PENDING")
      BY <1>1, <3>1, ConcatTells, Zenon
    <3> QED BY <3>1, <3>2
  <2>2. CASE i \in DOMAIN approvals
    <3>1. Silent(move, i) /\ approvals'[i] = rows[i]
      BY <1>1, <1>4, <2>2
    <3>2. Tells(front, i, rows[i].status) => Tells(front \o move, i, rows[i].status)
      BY <1>1, <3>1, ConcatTells, Zenon
    <3>3. Silent(front, i) => Silent(front \o move, i)
      BY <1>1, <3>1, ConcatTells, Zenon
    <3> QED BY <2>2, <3>1, <3>2, <3>3
  <2> QED BY <2>1, <2>2
<1>10. IF completed' THEN Completes(front \o move, path'[Len(path')].name)
       ELSE Without(front \o move, "workflow_completed")
  BY <1>2, <1>3, <1>7, <1>8, Zenon
<1>11. Told(front \o move)
  <2> DEFINE list == front \o move
  <2> HIDE DEF list
  <2>1. /\ list \in Seq(AuditRow) /\ Leads(list, current')
        /\ IF completed' THEN Completes(list, path'[Len(path')].name)
           ELSE Without(list, "workflow_completed")
    BY <1>2, <1>5, <1>6, <1>10 DEF list
  <2>2. \A i \in DOMAIN approvals' :
          \/ Tells(list, i, approvals'[i].status)
          \/ /\ i \in DOMAIN approvals /\ Silent(list, i)
             /\ approvals'[i].status = approvals[i].status
    BY <1>9 DEF list
  <2>4. Based(list)
    BY <1>1, ConcatBased DEF list
  <2>3. Told(list)
    BY <1>3, <1>12, <2>1, <2>2, <2>4, Zenon DEF Told
  <2> QED BY <2>3 DEF list
<1> QED BY <1>11 DEF move

LEMMA TransitTold ==
  ASSUME Life, NEW u, NEW action, Execute(u, action), NEW time \in Nat
  PROVE  Told(Move(time))
<1>1. TypeOK /\ approvals \in Seq(Approval) /\ UNCHANGED definition
  BY DEF Life, TypeOK, Execute
<1>2. ~completed /\ Started
  BY DEF Life, Sealed, Execute
<1>3. PICK t \in definition.transitions : ApplyTransition(t, approvals) /\ t.source = current
  BY DEF Execute, Resolved, Passing, Judged
<1>4. /\ <<>> \in Seq(AuditRow)
      /\ Without(<<>>, "workflow_completed") /\ \A i : Silent(<<>>, i)
      /\ Based(<<>>)
  BY DEF Without, Silent, Based
<1> DEFINE none == <<>>
           move == Move(time)
<1> HIDE DEF none
<1>5. Told(none \o Move(time))
  <2>1. /\ none \in Seq(AuditRow) /\ Based(none)
        /\ Without(none, "workflow_completed") /\ \A i : Silent(none, i)
    BY <1>4 DEF none
  <2>2. \A i \in DOMAIN approvals :
          \/ Tells(none, i, approvals[i].status)
          \/ Silent(none, i) /\ approvals[i].status = approvals[i].status
    BY <2>1
  <2> QED BY <1>1, <1>2, <1>3, <2>1, <2>2, MoveTold
<1>6. move \in Seq(AuditRow)
  BY <1>1, <1>3, MoveRows
<1>7. none \o Move(time) = Move(time)
  <2> HIDE DEF move
  <2>1. none \o move = move
    BY <1>6, ConcatEmptySeq DEF none
  <2> QED BY <2>1 DEF move
<1> QED BY <1>5, <1>7

(* A call that leaves the slots and the execution row alone.               *)
LEMMA AsideTold ==
  ASSUME TypeOK, UNCHANGED <<definition, approvals, path, completed>>,
         Started => UNCHANGED current, NEW rows \in Seq(AuditRow), Based(rows),
         \A i : i # 0 => Silent(rows, i),
         Without(rows, "transition_executed"), Without(rows, "workflow_completed")
  PROVE  Told(rows)
<1>1. \A i \in DOMAIN approvals' :
        /\ i \in DOMAIN approvals /\ Silent(rows, i)
        /\ approvals'[i].status = approvals[i].status
  <2>1. \A i \in DOMAIN approvals : i # 0
    BY DEF TypeOK
  <2> QED BY <2>1
<1> QED BY <1>1, Zenon DEF Told

(* The row of a vote.                                                      *)
VoteRow(i, status, time) ==
  Row(IF status = "APPROVED" THEN "approval_approved" ELSE "approval_rejected",
      IF status = "APPROVED" THEN "approve" ELSE "reject",
      current, NoText, i, time)

LEMMA VoteRowTells ==
  ASSUME TypeOK, Started, NEW i \in Nat, NEW status \in Decided, NEW time \in Nat
  PROVE  /\ <<VoteRow(i, status, time)>> \in Seq(AuditRow)
         /\ AllAt(<<VoteRow(i, status, time)>>, time)
         /\ Tells(<<VoteRow(i, status, time)>>, i, status)
         /\ \A j : j # i => Silent(<<VoteRow(i, status, time)>>, j)
         /\ \A type \in {"transition_executed", "workflow_completed", "approval_escalated",
                         "workflow_started"} \cup NoteKinds :
              Without(<<VoteRow(i, status, time)>>, type)
<1> DEFINE row == VoteRow(i, status, time)
           type == IF status = "APPROVED" THEN "approval_approved" ELSE "approval_rejected"
<1>1. current \in States \cup {NoText}
  BY DEF TypeOK, Started
<1>2. /\ type \in EventTypes
      /\ type \notin {"transition_executed", "workflow_completed", "approval_escalated",
                      "workflow_started"} \cup NoteKinds
  BY DEF EventTypes, NoteKinds
<1>3. row = Row(type, IF status = "APPROVED" THEN "approve" ELSE "reject",
                current, NoText, i, time)
  BY DEF VoteRow
<1>4. StatusTold(type) = status
  <2>1. StatusTold("approval_approved") = "APPROVED"
    BY DEF StatusTold
  <2>2. StatusTold("approval_rejected") = "REJECTED"
    BY DEF StatusTold
  <2> QED BY <2>1, <2>2 DEF Decided
<1> HIDE DEF row, type
<1>5. row \in AuditRow /\ row.type = type /\ row.slot = i /\ row.at = time
  <2> DEFINE action == IF status = "APPROVED" THEN "approve" ELSE "reject"
  <2>1. action \in STRING \cup Verbs
    BY DEF Verbs
  <2>2. row = Row(type, action, current, NoText, i, time)
    BY <1>3
  <2> HIDE DEF action
  <2>3. Row(type, action, current, NoText, i, time) \in AuditRow
    BY <1>1, <1>2, <2>1 DEF Row, AuditRow
  <2> QED BY <2>2, <2>3 DEF Row
<1>6. /\ <<row>> \in Seq(AuditRow) /\ AllAt(<<row>>, time)
      /\ Tells(<<row>>, i, status)
      /\ \A j : j # i => Silent(<<row>>, j)
      /\ \A other : other # type => Without(<<row>>, other)
  BY <1>4, <1>5, OneRow
<1> QED BY <1>2, <1>6 DEF row

(* What a vote appends tells what the vote did: the slot voted on, then,   *)
(* when the vote settles the step, the siblings and the transition.        *)
LEMMA VoteTold ==
  ASSUME Life, NEW u \in Users, NEW action, NEW status \in Decided,
         Decide(u, action, status), NEW i \in Pending(current),
         approvals'[i].status = status, NEW time \in Nat
  PROVE  Told(<<VoteRow(i, status, time)>> \o
              IF path' = path THEN <<>> ELSE Cancellations(i, time) \o Move(time))
<1>1. TypeOK /\ approvals \in Seq(Approval) /\ Started /\ ~completed
  BY DEF Life, TypeOK, Decide, Open
<1>2. PICK v \in DOMAIN approvals, d \in 0..Len(delegations) :
        /\ Candidate(u, v, d)
        /\ SelfApprovalAllowed(approvals[v], Authority(u, d))
        /\ LET rows == Voted(u, v, d, status)
               outcome == StepOutcome(rows, current, v)
           IN  \/ /\ outcome = "partial"
                  /\ approvals' = rows
                  /\ UNCHANGED <<current, completed, path>>
               \/ /\ outcome # "partial"
                  /\ Settle(outcome, Authority(u, d), rows)
  BY DEF Decide
<1> DEFINE rows == Voted(u, v, d, status)
           after == Cancelled(rows, current)
           vote == <<VoteRow(i, status, time)>>
           cancelled == Cancellations(i, time)
<1>3. Ballot(u, v, d)
  BY <1>1, <1>2, CandidateBallot
<1>4. /\ rows \in Seq(Approval) /\ Len(rows) = Len(approvals)
      /\ \A j \in DOMAIN approvals :
           rows[j] = IF j = v THEN WithVote(approvals[v], u, d, status) ELSE approvals[j]
  <2>1. /\ rows \in Seq(Approval) /\ Len(rows) = Len(approvals)
        /\ \A j \in 1..Len(approvals) :
             rows[j] = IF j = v THEN WithVote(approvals[v], u, d, status) ELSE approvals[j]
    BY <1>1, VotedRows
  <2> QED BY <1>1, <2>1
<1>5. /\ \/ approvals' = rows /\ UNCHANGED <<current, completed, path>>
         \/ \E t \in definition.transitions : ApplyTransition(t, after) /\ t.source = current
      /\ UNCHANGED definition
  BY <1>2 DEF Settle, Resolved, Passing, Judged, Decide
<1> HIDE DEF rows, after, vote, cancelled
<1>6. /\ rows[v].status = status /\ rows[v].step = current
      /\ approvals[v] \in Approval /\ approvals[v].status = "PENDING"
      /\ \A j \in DOMAIN approvals : j # v => rows[j] = approvals[j]
  <2>1. approvals[v] \in Approval /\ approvals[v].step = current /\ approvals[v].status = "PENDING"
    BY <1>1, <1>3 DEF Ballot, Pending, WithStatus, OfStep
  <2>2. /\ WithVote(approvals[v], u, d, status).status = status
        /\ WithVote(approvals[v], u, d, status).step = approvals[v].step
    BY <2>1 DEF WithVote, Approval
  <2> QED BY <1>4, <2>1, <2>2
<1>7. /\ after \in Seq(Approval) /\ Len(after) = Len(approvals)
      /\ \A j \in DOMAIN approvals :
           /\ rows[j].step = current /\ rows[j].status = "PENDING"
              => after[j].status = "CANCELLED"
           /\ ~(rows[j].step = current /\ rows[j].status = "PENDING")
              => after[j] = rows[j]
  <2>1. /\ after \in Seq(Approval) /\ Len(after) = Len(rows)
        /\ \A j \in 1..Len(rows) :
             after[j] = IF rows[j].step = current /\ rows[j].status = "PENDING"
                        THEN [rows[j] EXCEPT !.status = "CANCELLED"] ELSE rows[j]
    BY <1>4, CancelledRows DEF after
  <2>2. DOMAIN approvals = 1..Len(rows)
    BY <1>1, <1>4
  <2>3. \A j \in DOMAIN approvals : rows[j] \in Approval
    BY <1>4, <2>2
  <2>4. \A j \in DOMAIN approvals : [rows[j] EXCEPT !.status = "CANCELLED"].status = "CANCELLED"
    BY <2>3 DEF Approval
  <2> QED BY <1>4, <2>1, <2>2, <2>4
<1>8. status # "PENDING" /\ status # "CANCELLED"
  BY DEF Decided
<1>9. i = v
  <2>1. i \in DOMAIN approvals /\ approvals[i].status = "PENDING"
    BY DEF Pending, WithStatus, OfStep
  <2>2. SUFFICES ASSUME i # v PROVE FALSE
    OBVIOUS
  <2>3. rows[i].status = "PENDING"
    BY <1>6, <2>1, <2>2
  <2>4. CASE approvals' = rows
    BY <1>8, <2>3, <2>4
  <2>5. ASSUME NEW t \in definition.transitions, ApplyTransition(t, after)
        PROVE  FALSE
    <3>1. \A j \in 1..Len(after) : approvals'[j] = after[j]
      BY <1>1, <1>7, <2>5, AppliedRows
    <3>2. approvals'[i] = after[i]
      BY <1>1, <1>7, <2>1, <3>1
    <3>3. after[i].status \in {"PENDING", "CANCELLED"}
      BY <1>7, <2>1, <2>3
    <3> QED BY <1>8, <3>2, <3>3
  <2> QED BY <1>5, <2>4, <2>5
<1>10. i \in Nat
  BY <1>1, <1>9
<1>11. /\ vote \in Seq(AuditRow)
       /\ Tells(vote, i, status)
       /\ \A j : j # i => Silent(vote, j)
       /\ Without(vote, "transition_executed") /\ Without(vote, "workflow_completed")
       /\ Without(vote, "workflow_started")
  BY <1>1, <1>10, VoteRowTells DEF vote
<1>14. Based(vote)
  BY <1>11, OtherBased
<1>12. CASE approvals' = rows /\ UNCHANGED <<current, completed, path>>
  <2>1. \A j \in DOMAIN approvals' :
          \/ Tells(vote, j, approvals'[j].status)
          \/ /\ j \in DOMAIN approvals /\ Silent(vote, j)
             /\ approvals'[j].status = approvals[j].status
    <3>1. DOMAIN approvals' = DOMAIN approvals
      BY <1>1, <1>4, <1>12
    <3> QED BY <1>6, <1>9, <1>11, <1>12, <3>1
  <2>2. Told(vote)
    BY <1>1, <1>5, <1>11, <1>12, <1>14, <2>1, Zenon DEF Told
  <2>3. vote \o <<>> = vote
    BY <1>11, ConcatEmptySeq
  <2> QED BY <1>12, <2>2, <2>3 DEF vote
<1>13. ASSUME NEW t \in definition.transitions, ApplyTransition(t, after),
              t.source = current
       PROVE  Told(vote \o IF path' = path THEN <<>> ELSE Cancellations(i, time) \o Move(time))
  <2>1. path' # path
    <3>1. path \in Seq(Transition) /\ t \in Transition /\ path' = Append(path, t)
      BY <1>1, <1>13, AppliedType DEF TypeOK, ApplyTransition
    <3>2. Len(path') = Len(path) + 1 /\ Len(path) \in Nat
      BY <3>1, AppendProperties
    <3> QED BY <3>2
  <2>2. /\ cancelled \in Seq(AuditRow)
        /\ \A type : type # "approval_cancelled" => Without(cancelled, type)
        /\ \A j \in Pending(current) \ {i} : Tells(cancelled, j, "CANCELLED")
        /\ \A j : j \notin Pending(current) \ {i} => Silent(cancelled, j)
    BY <1>1, CancelRows DEF cancelled
  <2>9. Based(vote \o cancelled)
    <3>1. Based(cancelled)
      BY <2>2, OtherBased
    <3> QED BY <1>11, <1>14, <2>2, <3>1, ConcatBased
  <2>3. vote \o cancelled \in Seq(AuditRow)
    BY <1>11, <2>2, RowsOfConcat
  <2>4. Without(vote \o cancelled, "workflow_completed")
    <3>1. "workflow_completed" \in EventTypes /\ Without(cancelled, "workflow_completed")
      BY <2>2 DEF EventTypes
    <3> QED BY <1>11, <2>2, <3>1, ConcatLeads, Zenon
  <2>5. ASSUME NEW j \in DOMAIN approvals
        PROVE  \/ Tells(vote \o cancelled, j, after[j].status)
               \/ Silent(vote \o cancelled, j) /\ after[j].status = approvals[j].status
    <3>1. CASE j = i
      <4>1. after[j].status = status
        BY <1>6, <1>7, <1>8, <1>9, <3>1
      <4>2. Tells(vote, j, after[j].status) /\ Silent(cancelled, j)
        BY <4>1, <1>11, <2>2, <3>1
      <4> QED BY <1>11, <2>2, <4>1, <4>2, ConcatTells, Zenon
    <3>2. CASE j \in Pending(current) \ {i}
      <4>1. after[j].status = "CANCELLED"
        BY <1>6, <1>7, <1>9, <3>2 DEF Pending, WithStatus, OfStep
      <4>2. Tells(cancelled, j, after[j].status)
        BY <2>2, <3>2, <4>1
      <4> QED BY <1>11, <2>2, <4>1, <4>2, ConcatTells, Zenon
    <3>3. CASE j # i /\ j \notin Pending(current)
      <4>1. after[j] = approvals[j]
        BY <1>6, <1>7, <1>9, <3>3 DEF Pending, WithStatus, OfStep
      <4>2. Silent(vote, j) /\ Silent(cancelled, j)
        BY <1>11, <2>2, <3>3
      <4> QED BY <1>11, <2>2, <4>1, <4>2, ConcatTells, Zenon
    <3> QED BY <3>1, <3>2, <3>3
  <2> DEFINE front == vote \o cancelled
             move == Move(time)
  <2> HIDE DEF front
  <2>6. Told(front \o Move(time))
    BY <1>1, <1>5, <1>7, <1>13, <2>3, <2>4, <2>5, <2>9, MoveTold DEF front
  <2>7. move \in Seq(AuditRow)
    BY <1>1, <1>7, <1>13, MoveRows
  <2>8. front \o Move(time) = vote \o (cancelled \o Move(time))
    <3> HIDE DEF vote, cancelled, move
    <3>1. vote \in Seq(AuditRow) /\ cancelled \in Seq(AuditRow) /\ move \in Seq(AuditRow)
      BY <1>11, <2>2, <2>7
    <3>2. (vote \o cancelled) \o move = vote \o (cancelled \o move)
      BY <3>1, RowsAssociate, Zenon
    <3> QED BY <3>2 DEF front, move
  <2> QED BY <2>1, <2>6, <2>8 DEF cancelled
<1> QED BY <1>5, <1>12, <1>13 DEF vote

(* The row of an escalation, which names the slot that it adds.            *)
RaiseRow(time) ==
  Row("approval_escalated", "escalate", current, current, Len(approvals'), time)

RaiseRows(time) == Cancellations(0, time) \o <<RaiseRow(time)>>

LEMMA RaiseRowType ==
  ASSUME Life, NEW u \in Actors, NEW who \in Escalees, Escalate(u, who), NEW time \in Nat
  PROVE  /\ RaiseRow(time) \in AuditRow /\ RaiseRow(time).type = "approval_escalated"
         /\ RaiseRow(time).slot = Len(approvals') /\ RaiseRow(time).at = time
<1>1. current \in States /\ approvals' \in Seq(Approval)
  <2>1. TypeOK /\ Started
    BY DEF Life, Escalate, Open
  <2> QED BY <2>1, EscalatedRows DEF Carried, TypeOK, Started
<1> DEFINE slot == Len(approvals')
<1>2. slot \in Nat
  BY <1>1
<1> HIDE DEF slot
<1>3. "approval_escalated" \in EventTypes
  BY DEF EventTypes
<1>4. "escalate" \in STRING \cup Verbs /\ current \in States \cup {NoText}
  BY <1>1 DEF Verbs
<1>5. Row("approval_escalated", "escalate", current, current, slot, time) \in AuditRow
  BY <1>2, <1>3, <1>4 DEF Row, AuditRow
<1> QED BY <1>5 DEF Row, RaiseRow, slot

(* What an escalation appends tells what it did.                           *)
LEMMA RaiseTold ==
  ASSUME Life, NEW u \in Actors, NEW who \in Escalees, Escalate(u, who), NEW time \in Nat
  PROVE  Told(RaiseRows(time)) /\ Quiet(RaiseRows(time))
<1>1. /\ TypeOK /\ approvals \in Seq(Approval) /\ Len(approvals) \in Nat
      /\ Started /\ current \in States
  BY DEF Life, TypeOK, Escalate, Open, Started
<1> DEFINE cancelled == Cancellations(0, time)
           row == RaiseRow(time)
           list == cancelled \o <<row>>
<1>2. /\ approvals' \in Seq(Approval)
      /\ Len(approvals') = Len(approvals) + 1
      /\ approvals'[Len(approvals')].status = "PENDING"
  BY <1>1, EscalatedRows DEF Carried
<1>3. \A j \in DOMAIN approvals :
        /\ j \in Pending(current) => approvals'[j].status = "CANCELLED"
        /\ j \notin Pending(current) => approvals'[j] = approvals[j]
  <2> DEFINE kept == Cancelled(approvals, current)
  <2>1. \E new : approvals' = Append(kept, new)
    BY DEF Escalate
  <2>2. /\ kept \in Seq(Approval) /\ Len(kept) = Len(approvals)
        /\ \A j \in 1..Len(approvals) :
             kept[j] = IF approvals[j].step = current /\ approvals[j].status = "PENDING"
                       THEN [approvals[j] EXCEPT !.status = "CANCELLED"] ELSE approvals[j]
    BY <1>1, CancelledRows
  <2> HIDE DEF kept
  <2>3. PICK new : approvals' = Append(kept, new)
    BY <2>1
  <2>4. \A j \in 1..Len(approvals) : approvals'[j] = kept[j]
    BY <1>1, <2>2, <2>3
  <2>5. \A j \in 1..Len(approvals) :
          [approvals[j] EXCEPT !.status = "CANCELLED"].status = "CANCELLED"
    <3>1. \A j \in 1..Len(approvals) : approvals[j] \in Approval
      BY <1>1
    <3> QED BY <3>1 DEF Approval
  <2>6. DOMAIN approvals = 1..Len(approvals)
    BY <1>1
  <2> QED BY <2>2, <2>4, <2>5, <2>6, ZenonT(60) DEF Pending, WithStatus, OfStep
<1>4. /\ cancelled \in Seq(AuditRow)
      /\ \A type : type # "approval_cancelled" => Without(cancelled, type)
      /\ \A i \in Pending(current) \ {0} : Tells(cancelled, i, "CANCELLED")
      /\ \A i : i \notin Pending(current) \ {0} => Silent(cancelled, i)
  BY <1>1, CancelRows
<1> HIDE DEF cancelled
<1>5. /\ row \in AuditRow /\ row.type = "approval_escalated" /\ row.slot = Len(approvals')
  BY RaiseRowType
<1>6. row.type # "transition_executed" /\ row.type # "workflow_completed"
  BY <1>5
<1>7. StatusTold(row.type) = "PENDING"
  <2>1. StatusTold("approval_escalated") = "PENDING"
    BY DEF StatusTold
  <2> QED BY <1>5, <2>1
<1> HIDE DEF row
<1> DEFINE last == <<row>>
<1>8. /\ last \in Seq(AuditRow)
      /\ Tells(last, Len(approvals'), "PENDING")
      /\ \A i : i # Len(approvals') => Silent(last, i)
      /\ Without(last, "transition_executed") /\ Without(last, "workflow_completed")
      /\ Quiet(last)
  <2>1. row.type \notin NoteKinds
    BY <1>5 DEF NoteKinds
  <2> QED BY <1>5, <1>6, <1>7, <2>1, OneRow DEF Quiet
<1> HIDE DEF last
<1>9. /\ cancelled \o last \in Seq(AuditRow)
      /\ Without(cancelled \o last, "transition_executed")
      /\ Without(cancelled \o last, "workflow_completed")
      /\ Quiet(cancelled \o last)
  <2>1. "workflow_completed" \in EventTypes /\ "transition_executed" \in EventTypes
    BY DEF EventTypes
  <2>2. Without(cancelled, "transition_executed") /\ Without(cancelled, "workflow_completed")
    BY <1>4
  <2>3. cancelled \o last \in Seq(AuditRow)
    BY <1>4, <1>8, RowsOfConcat
  <2>4. Without(cancelled \o last, "transition_executed")
    BY <1>4, <1>8, <2>1, <2>2, ConcatLeads, Zenon
  <2>5. Without(cancelled \o last, "workflow_completed")
    BY <1>4, <1>8, <2>1, <2>2, ConcatLeads, Zenon
  <2>6. Quiet(cancelled)
    BY <1>4 DEF Quiet, NoteKinds
  <2>7. Quiet(cancelled \o last)
    BY <1>4, <1>8, <2>6, ConcatPlain, Zenon
  <2> QED BY <2>3, <2>4, <2>5, <2>7
<1>10. ASSUME NEW i \in DOMAIN approvals'
       PROVE  \/ Tells(cancelled \o last, i, approvals'[i].status)
              \/ /\ i \in DOMAIN approvals /\ Silent(cancelled \o last, i)
                 /\ approvals'[i].status = approvals[i].status
  <2>1. CASE i = Len(approvals')
    <3>1. Tells(last, i, approvals'[i].status)
      BY <1>2, <1>8, <2>1
    <3> QED BY <1>4, <1>8, <3>1, ConcatTells, Zenon
  <2>2. CASE i # Len(approvals')
    <3>1. i \in DOMAIN approvals /\ i # 0 /\ Silent(last, i)
      BY <1>1, <1>2, <1>8, <2>2
    <3>2. CASE i \in Pending(current)
      <4>1. Tells(cancelled, i, approvals'[i].status)
        BY <1>3, <1>4, <3>1, <3>2
      <4> QED BY <1>4, <1>8, <3>1, <4>1, ConcatTells, Zenon
    <3>3. CASE i \notin Pending(current)
      <4>1. Silent(cancelled, i) /\ approvals'[i] = approvals[i]
        BY <1>3, <1>4, <3>1, <3>3
      <4>2. Silent(cancelled \o last, i)
        BY <1>4, <1>8, <3>1, <4>1, ConcatTells, Zenon
      <4> QED BY <3>1, <4>1, <4>2
    <3> QED BY <3>2, <3>3
  <2> QED BY <2>1, <2>2
<1>11. UNCHANGED <<definition, current, completed, path>> /\ Started
  BY <1>1 DEF Escalate
<1> HIDE DEF list
<1>12. list = cancelled \o last
  BY DEF list, last
<1>15. Based(list)
  <2>1. Based(cancelled)
    BY <1>4, OtherBased
  <2>2. Based(last)
    BY <1>5, <1>6 DEF Based, last
  <2> QED BY <1>4, <1>8, <1>12, <2>1, <2>2, ConcatBased
<1>13. Told(list)
  BY <1>9, <1>10, <1>11, <1>12, <1>15, Zenon DEF Told
<1>14. Quiet(list)
  BY <1>9, <1>12
<1> QED BY <1>13, <1>14 DEF list, cancelled, row, RaiseRows

-----------------------------------------------------------------------------
(* What a recorded call keeps of the account.                              *)

LEMMA RecordTells ==
  ASSUME Life, Accounted, NEW time \in Nat, NEW rows, Told(rows), Record(rows, time)
  PROVE  /\ trail' \in Seq(AuditRow) /\ now' \in Nat /\ completed_at' \in Times
         /\ SlotsTold' /\ MovesTold' /\ StartTold' /\ CompletionTold'
<1>1. /\ trail \in Seq(AuditRow) /\ rows \in Seq(AuditRow) /\ trail' = trail \o rows
      /\ now \in Nat /\ completed_at \in Times /\ now' = time
      /\ completed_at' = IF completed' /\ ~completed THEN now ELSE completed_at
  BY DEF Accounted, AuditTypes, Told, Record
<1>2. trail' \in Seq(AuditRow) /\ now' \in Nat /\ completed_at' \in Times
  <2>1. trail' \in Seq(AuditRow)
    BY <1>1, RowsOfConcat
  <2> QED BY <1>1, <2>1 DEF Times
<1>3. SlotsTold'
  <2>1. ASSUME NEW i \in DOMAIN approvals'
        PROVE  Tells(trail \o rows, i, approvals'[i].status)
    <3>1. CASE Tells(rows, i, approvals'[i].status)
      BY <1>1, <3>1, ConcatTells, Zenon
    <3>2. CASE /\ i \in DOMAIN approvals /\ Silent(rows, i)
               /\ approvals'[i].status = approvals[i].status
      <4>1. Tells(trail, i, approvals'[i].status)
        BY <3>2 DEF Accounted, SlotsTold
      <4> QED BY <1>1, <3>2, <4>1, ConcatTells, Zenon
    <3> QED BY <3>1, <3>2 DEF Told
  <2> QED BY <1>1, <2>1 DEF SlotsTold
<1>4. \/ /\ Without(rows, "transition_executed") /\ Without(rows, "workflow_completed")
         /\ UNCHANGED <<path, completed, definition>>
         /\ Started => UNCHANGED current
      \/ /\ Entered' /\ ~completed
         /\ Started /\ Started' /\ Origin' = Origin
         /\ Leads(rows, current')
         /\ IF completed' THEN Completes(rows, path'[Len(path')].name)
            ELSE Without(rows, "workflow_completed")
  BY DEF Told
<1>5. /\ "transition_executed" \in EventTypes /\ "workflow_completed" \in EventTypes
      /\ "workflow_started" \in EventTypes
  BY DEF EventTypes
<1>8. /\ \A k \in DOMAIN trail :
           trail[k].type = "workflow_started" => Started /\ trail[k].target = Origin
      /\ Departs(trail, Origin) /\ Based(rows)
  BY DEF Accounted, StartTold, Told
<1>9. \A k \in DOMAIN (trail \o rows) :
        (trail \o rows)[k].type = "workflow_started"
        => (trail \o rows)[k].target = Origin
  <2> DEFINE both == trail \o rows
  <2>1. \A k \in DOMAIN both :
          (k \in DOMAIN trail /\ both[k] = trail[k]) \/ \E j \in DOMAIN rows : both[k] = rows[j]
    BY <1>1, RowsOfConcat
  <2> HIDE DEF both
  <2>2. \A k \in DOMAIN both : both[k].type = "workflow_started" => both[k].target = Origin
    BY <1>8, <2>1 DEF Based
  <2> QED BY <2>2 DEF both
<1>6. CASE /\ Without(rows, "transition_executed") /\ Without(rows, "workflow_completed")
           /\ UNCHANGED <<path, completed, definition>>
           /\ Started => UNCHANGED current
  <2>1. MovesTold'
    <3>1. CASE ~Entered
      <4>1. Without(trail, "transition_executed")
        BY <3>1 DEF Accounted, MovesTold
      <4>2. Without(trail \o rows, "transition_executed")
        BY <1>1, <1>5, <1>6, <4>1, ConcatLeads, Zenon
      <4>3. ~Entered'
        BY <1>6, <3>1 DEF Entered
      <4> QED BY <1>1, <4>2, <4>3 DEF MovesTold
    <3>2. CASE Entered
      <4>1. Leads(trail, current) /\ Started
        BY <3>2 DEF Accounted, MovesTold, Entered, Life, Unstarted
      <4>2. Leads(trail \o rows, current)
        BY <1>1, <1>6, <4>1, ConcatLeads, Zenon
      <4>3. Entered' /\ current' = current
        BY <1>6, <3>2, <4>1 DEF Entered
      <4> QED BY <1>1, <4>2, <4>3 DEF MovesTold
    <3> QED BY <3>1, <3>2
  <2>2. CompletionTold'
    <3>1. completed' <=> completed_at' # Never
      BY <1>1, <1>6 DEF Accounted, CompletionTold
    <3>2. IF completed THEN Completes(trail \o rows, path[Len(path)].name)
          ELSE Without(trail \o rows, "workflow_completed")
      <4>1. CASE completed
        <5>1. Completes(trail, path[Len(path)].name)
          BY <4>1 DEF Accounted, CompletionTold
        <5> QED BY <1>1, <1>6, <4>1, <5>1, ConcatLeads, Zenon
      <4>2. CASE ~completed
        <5>1. Without(trail, "workflow_completed")
          BY <4>2 DEF Accounted, CompletionTold
        <5> QED BY <1>1, <1>5, <1>6, <4>2, <5>1, ConcatLeads, Zenon
      <4> QED BY <4>1, <4>2
    <3> QED BY <1>1, <1>6, <3>1, <3>2 DEF CompletionTold
  <2>3. StartTold'
    <3>1. CASE Started
      <4>1. Started' /\ Origin' = Origin
        BY <1>6, <3>1 DEF Started, Origin
      <4>2. Departs(trail \o rows, Origin)
        BY <1>1, <1>6, <1>8, ConcatBased, Zenon
      <4> QED BY <1>1, <1>9, <4>1, <4>2 DEF StartTold
    <3>2. CASE ~Started
      <4>1. Without(trail, "workflow_started") /\ Without(rows, "workflow_started")
        BY <1>8, <3>2 DEF Without, Based
      <4>2. Without(trail \o rows, "workflow_started")
        BY <1>1, <1>5, <4>1, ConcatLeads, Zenon
      <4>3. Without(trail, "transition_executed")
        <5>1. ~Entered
          BY <3>2 DEF Life, Unstarted, Entered
        <5> QED BY <5>1 DEF Accounted, MovesTold
      <4>4. Without(trail \o rows, "transition_executed")
        BY <1>1, <1>5, <1>6, <4>3, ConcatLeads, Zenon
      <4> QED BY <1>1, <4>2, <4>4 DEF StartTold, Without, Departs
    <3> QED BY <3>1, <3>2
  <2> QED BY <1>2, <1>3, <2>1, <2>2, <2>3
<1>7. CASE /\ Entered' /\ ~completed
           /\ Started /\ Started' /\ Origin' = Origin
           /\ Leads(rows, current')
           /\ IF completed' THEN Completes(rows, path'[Len(path')].name)
              ELSE Without(rows, "workflow_completed")
  <2>1. MovesTold'
    <3>1. Leads(trail \o rows, current')
      BY <1>1, <1>7, ConcatLeads, Zenon
    <3> QED BY <1>1, <1>7, <3>1 DEF MovesTold
  <2>2. Without(trail, "workflow_completed") /\ completed_at = Never
    BY <1>7 DEF Accounted, CompletionTold
  <2>3. completed' <=> completed_at' # Never
    BY <1>1, <1>7, <2>2, ClockAssumption
  <2>4. IF completed' THEN Completes(trail \o rows, path'[Len(path')].name)
        ELSE Without(trail \o rows, "workflow_completed")
    <3>1. CASE completed'
      BY <1>1, <1>7, <2>2, <3>1, ConcatLeads, ZenonT(60)
    <3>2. CASE ~completed'
      BY <1>1, <1>5, <1>7, <2>2, <3>2, ConcatLeads, Zenon
    <3> QED BY <3>1, <3>2
  <2>5. CompletionTold'
    BY <1>1, <2>3, <2>4 DEF CompletionTold
  <2>6. StartTold'
    <3>1. Departs(trail \o rows, Origin)
      <4>1. CASE Entered
        <5>1. ~Without(trail, "transition_executed")
          BY <4>1 DEF Accounted, MovesTold, Leads, Without
        <5> QED BY <1>1, <1>8, <5>1, ConcatBased, Zenon
      <4>2. CASE ~Entered
        <5>1. Without(trail, "transition_executed") /\ Origin = current
          BY <4>2 DEF Accounted, MovesTold, Entered, Origin
        <5> QED BY <1>1, <1>8, <5>1, ConcatBased, Zenon
      <4> QED BY <4>1, <4>2
    <3> QED BY <1>1, <1>7, <1>9, <3>1 DEF StartTold
  <2> QED BY <1>2, <1>3, <2>1, <2>5, <2>6
<1> QED BY <1>4, <1>6, <1>7

(* How many rows of a type there are.                                      *)
LEMMA HavingConcat ==
  ASSUME NEW a \in Seq(AuditRow), NEW b \in Seq(AuditRow), NEW type
  PROVE  /\ IsFiniteSet(Having(a, type)) /\ Having(a, type) \subseteq DOMAIN a
         /\ Having(a, type) \subseteq Having(a \o b, type)
         /\ Without(b, type) => Having(a \o b, type) = Having(a, type)
         /\ Len(b) = 1 => Having(a \o b, type) \subseteq Having(a, type) \cup {Len(a) + 1}
<1> DEFINE c == a \o b
<1>1. /\ \A k \in DOMAIN a : k \in DOMAIN c /\ c[k] = a[k]
      /\ \A k \in DOMAIN b : Len(a) + k \in DOMAIN c /\ c[Len(a) + k] = b[k]
      /\ \A k \in DOMAIN c : \/ k \in DOMAIN a /\ c[k] = a[k]
                             \/ k - Len(a) \in DOMAIN b /\ c[k] = b[k - Len(a)]
      /\ Len(a) \in Nat /\ c \in Seq(AuditRow)
  BY RowsOfConcat
<1> HIDE DEF c
<1>2. Having(a, type) \subseteq DOMAIN a /\ DOMAIN a = 1..Len(a)
  BY DEF Having
<1>3. IsFiniteSet(Having(a, type))
  <2>0. Len(a) \in Int
    BY <1>1
  <2>1. IsFiniteSet(1..Len(a))
    BY <2>0, FS_Interval
  <2> DEFINE all == 1..Len(a)
             some == Having(a, type)
  <2>2. IsFiniteSet(all) /\ some \in SUBSET all
    BY <1>2, <2>1
  <2> HIDE DEF all, some
  <2>3. IsFiniteSet(some)
    BY <2>2, FS_Subset
  <2> QED BY <2>3 DEF some
<1>4. Having(a, type) \subseteq Having(c, type)
  BY <1>1 DEF Having
<1>5. Without(b, type) => Having(c, type) = Having(a, type)
  BY <1>1 DEF Having, Without
<1>6. ASSUME Len(b) = 1
      PROVE  Having(c, type) \subseteq Having(a, type) \cup {Len(a) + 1}
  <2>1. ASSUME NEW k \in Having(c, type)
        PROVE  k \in Having(a, type) \cup {Len(a) + 1}
    <3>1. k \in DOMAIN c /\ c[k].type = type
      BY <2>1 DEF Having
    <3>2. k \in Int
      BY <1>1, <3>1
    <3>3. CASE k \in DOMAIN a /\ c[k] = a[k]
      BY <3>1, <3>3 DEF Having
    <3>4. CASE k - Len(a) \in DOMAIN b
      <4>1. k - Len(a) = 1
        BY <1>6, <3>4
      <4> QED BY <1>1, <3>2, <4>1
    <3> QED BY <1>1, <3>1, <3>3, <3>4
  <2> QED BY <2>1
<1> QED BY <1>2, <1>3, <1>4, <1>5, <1>6 DEF c

(* A call that writes neither of them keeps the account of notes.          *)
LEMMA NotesKept ==
  ASSUME Accounted, NEW time, NEW rows \in Seq(AuditRow), Quiet(rows), Record(rows, time),
         UNCHANGED notes
  PROVE  NotesTold' /\ notes' \in Seq(NoteKinds)
<1>1. trail \in Seq(AuditRow) /\ trail' = trail \o rows /\ notes \in Seq(NoteKinds)
  BY DEF Accounted, AuditTypes, Record
<1>2. \A kind \in NoteKinds : Having(trail \o rows, kind) = Having(trail, kind)
  BY <1>1, HavingConcat, Zenon DEF Quiet
<1>3. \A kind \in NoteKinds : Having(trail', kind) = Having(trail, kind)
  BY <1>1, <1>2
<1>4. \A kind \in NoteKinds : Cardinality(Having(trail, kind)) <= Cardinality(NotesOf(kind))
  BY DEF Accounted, NotesTold
<1> QED BY <1>1, <1>3, <1>4 DEF NotesTold, NotesOf

(* A comment or an attachment is there before its row is.                  *)
LEMMA NoteRecorded ==
  ASSUME Accounted, Started, TypeOK, UNCHANGED vars, NEW time \in Nat,
         NEW kind \in NoteKinds, Noted(kind, time)
  PROVE  /\ NotesTold' /\ notes' \in Seq(NoteKinds)
         /\ \E rows : /\ Told(rows) /\ Record(rows, time) /\ AllAt(rows, time)
                      /\ Without(rows, "approval_escalated")
<1> DEFINE row == Row(kind, NoText, current, NoText, 0, time)
<1>1. /\ row \in AuditRow /\ row.type = kind /\ row.slot = 0 /\ row.at = time
      /\ kind \notin {"transition_executed", "workflow_completed", "approval_escalated"}
  <2>1. /\ kind \in EventTypes
        /\ kind \notin {"transition_executed", "workflow_completed", "approval_escalated"}
    BY DEF NoteKinds, EventTypes
  <2>2. /\ current \in States \cup {NoText} /\ NoText \in States \cup {NoText}
        /\ NoText \in STRING \cup Verbs
    BY DEF TypeOK, Started, Verbs
  <2>3. row \in AuditRow
    BY <2>1, <2>2 DEF Row, AuditRow
  <2> QED BY <2>1, <2>3 DEF Row
<1>2. \/ Record(<<row>>, time)
      \/ Record(<<>>, time)
  BY DEF Noted
<1> HIDE DEF row
<1> DEFINE one == <<row>>
           none == <<>>
<1>3. /\ one \in Seq(AuditRow) /\ Len(one) = 1 /\ AllAt(one, time)
      /\ \A i : i # 0 => Silent(one, i)
      /\ \A type : type # kind => Without(one, type)
  BY <1>1, OneRow
<1>4. /\ none \in Seq(AuditRow) /\ \A i : Silent(none, i) /\ AllAt(none, time)
      /\ \A type : Without(none, type)
  BY DEF Silent, Without, AllAt
<1>5. Record(one, time) \/ Record(none, time)
  BY <1>2
<1> HIDE DEF one, none
<1>6. Told(one) /\ Told(none)
  <2>1. UNCHANGED <<definition, approvals, path, completed, current>>
    BY DEF vars
  <2>2. kind # "workflow_started"
    BY DEF NoteKinds
  <2>3. Based(one) /\ Based(none)
    BY <1>1, <1>3, <1>4, <2>2, OtherBased
  <2> QED BY <1>1, <1>3, <1>4, <2>1, <2>3, AsideTold
<1>7. \E rows : /\ Told(rows) /\ Record(rows, time) /\ AllAt(rows, time)
               /\ Without(rows, "approval_escalated")
  BY <1>1, <1>3, <1>4, <1>5, <1>6
<1>8. /\ trail \in Seq(AuditRow) /\ notes \in Seq(NoteKinds) /\ Len(notes) \in Nat
      /\ trail' = trail \o one \/ trail' = trail \o none
      /\ notes' = Append(notes, kind)
  BY <1>5 DEF Accounted, AuditTypes, Record, Noted
<1>9. /\ notes' \in Seq(NoteKinds) /\ DOMAIN notes' = 1..Len(notes) + 1
      /\ \A k \in 1..Len(notes) : notes'[k] = notes[k]
      /\ notes'[Len(notes) + 1] = kind
      /\ DOMAIN notes = 1..Len(notes)
  BY <1>8, AppendProperties
<1>10. ASSUME NEW other \in NoteKinds
       PROVE  Cardinality(Having(trail', other)) <= Cardinality(NotesOf(other)')
  <2> DEFINE before == NotesOf(other)
             after == {k \in DOMAIN notes' : notes'[k] = other}
             told == Having(trail, other)
             tells == Having(trail', other)
  <2>1. Cardinality(told) <= Cardinality(before)
    BY DEF Accounted, NotesTold
  <2>2. /\ IsFiniteSet(before)
        /\ after = IF other = kind THEN before \cup {Len(notes) + 1} ELSE before
        /\ Len(notes) + 1 \notin before
    <3>1. before \subseteq 1..Len(notes)
      BY <1>9 DEF NotesOf
    <3>6. IsFiniteSet(1..Len(notes))
      BY <1>8, FS_Interval
    <3>2. IsFiniteSet(before)
      <4> HIDE DEF before
      <4> QED BY <3>1, <3>6, FS_Subset
    <3>3. Len(notes) + 1 \notin before
      BY <1>8, <3>1
    <3>4. DOMAIN notes' = DOMAIN notes \cup {Len(notes) + 1}
      BY <1>8, <1>9
    <3>5. after = IF other = kind THEN before \cup {Len(notes) + 1} ELSE before
      BY <1>8, <1>9, <3>4 DEF NotesOf
    <3> QED BY <3>2, <3>3, <3>5
  <2>3. /\ IsFiniteSet(told) /\ Len(trail) + 1 \notin told
        /\ other # kind => tells = told
        /\ tells \subseteq told \cup {Len(trail) + 1}
    <3>1. IsFiniteSet(told) /\ told \subseteq DOMAIN trail
      BY <1>3, <1>8, HavingConcat
    <3>2. Len(trail) + 1 \notin told
      BY <1>8, <3>1
    <3>3. other # kind => Without(one, other)
      BY <1>3
    <3>4. Having(trail \o none, other) = told
      BY <1>4, <1>8, HavingConcat, Zenon
    <3>5. other # kind => Having(trail \o one, other) = told
      BY <1>3, <1>8, <3>3, HavingConcat, Zenon
    <3>6. Having(trail \o one, other) \subseteq told \cup {Len(trail) + 1}
      BY <1>3, <1>8, HavingConcat, Zenon
    <3> QED BY <1>8, <3>1, <3>2, <3>4, <3>5, <3>6
  <2> HIDE DEF before, after, told, tells
  <2>4. Cardinality(told) \in Nat /\ Cardinality(before) \in Nat
    BY <2>2, <2>3, FS_CardinalityType
  <2>5. CASE other # kind
    <3>1. tells = told /\ after = before
      BY <2>2, <2>3, <2>5
    <3> QED BY <2>1, <3>1 DEF after, tells, NotesOf
  <2>6. CASE other = kind
    <3> DEFINE T == told \cup {Len(trail) + 1}
    <3>1. IsFiniteSet(T) /\ Cardinality(T) = Cardinality(told) + 1
      BY <2>3, FS_AddElement
    <3>2. Cardinality(after) = Cardinality(before) + 1
      BY <2>2, <2>6, FS_AddElement
    <3>3. Cardinality(tells) <= Cardinality(T) /\ Cardinality(tells) \in Nat
      <4>1. tells \subseteq T
        BY <2>3
      <4> HIDE DEF T
      <4>2. IsFiniteSet(tells) /\ Cardinality(tells) <= Cardinality(T)
        BY <3>1, <4>1, FS_Subset
      <4> QED BY <4>2, FS_CardinalityType
    <3>4. Cardinality(tells) <= Cardinality(after)
      BY <2>1, <2>4, <3>1, <3>2, <3>3
    <3> QED BY <3>4 DEF after, tells, NotesOf
  <2> QED BY <2>5, <2>6
<1>11. NotesTold'
  BY <1>10 DEF NotesTold
<1> QED BY <1>7, <1>9, <1>11

LEMMA StartKept ==
  ASSUME Life, NothingForwarded, [Next]_vars
  PROVE  NothingForwarded' /\ (Started => Started')
<1>1. Started => Started'
  <2>1. CASE UNCHANGED <<current, completed, path, initiator>>
    BY <2>1 DEF Started
  <2>2. ASSUME Started, NEW t \in definition.transitions, NEW rows, ApplyTransition(t, rows)
        PROVE  Started'
    <3>1. current' \in States
      BY <2>2, AppliedType DEF Life
    <3> QED BY <3>1, NamesAssumption DEF Started
  <2> QED BY <2>1, <2>2, StepLife
<1>2. CASE UNCHANGED delegations
  BY <1>1, <1>2 DEF NothingForwarded
<1>3. ASSUME NEW granter \in Users, NEW grantee \in Users,
             NEW step \in States \cup {AnyStep}, Delegate(granter, grantee, step)
      PROVE  Started'
  BY <1>3, <1>1 DEF Delegate, Open
<1>4. ASSUME NEW d \in DOMAIN delegations, Lapse(d)
      PROVE  Started'
  <2>1. delegations # <<>>
    <3>1. delegations \in Seq(Delegation)
      BY DEF Life, TypeOK
    <3> QED BY <1>4, <3>1
  <2> QED BY <1>1, <2>1 DEF NothingForwarded
<1>5. \/ UNCHANGED delegations
      \/ \E granter, grantee \in Users, step \in States \cup {AnyStep} :
           Delegate(granter, grantee, step)
      \/ \E d \in DOMAIN delegations : Lapse(d)
  BY DEF Next, vars, Start, Execute, Approve, Reject, Decide, Escalate, EditObject
<1> QED BY <1>1, <1>2, <1>3, <1>4, <1>5 DEF NothingForwarded

(* A row that names no slot.                                               *)
LEMMA PlainRow ==
  ASSUME NEW type \in {"workflow_started", "approval_delegated", "delegation_revoked"},
         NEW action \in Verbs, NEW source \in States \cup {NoText},
         NEW target \in States \cup {NoText}, NEW time \in Nat
  PROVE  LET rows == <<Row(type, action, source, target, 0, time)>>
         IN  /\ rows \in Seq(AuditRow) /\ Plain(rows) /\ AllAt(rows, time)
             /\ \A i : i # 0 => Silent(rows, i)
             /\ Without(rows, "transition_executed") /\ Without(rows, "workflow_completed")
             /\ (type = "workflow_started" => Started /\ target = Origin) => Based(rows)
<1> DEFINE row == Row(type, action, source, target, 0, time)
<1>1. type \in EventTypes /\ action \in STRING \cup Verbs
  BY DEF EventTypes
<1>2. row \in AuditRow
  BY <1>1 DEF Row, AuditRow
<1>3. row.type = type /\ row.slot = 0 /\ row.at = time /\ row.target = target
  BY DEF Row
<1> HIDE DEF row
<1>6. (type = "workflow_started" => Started /\ target = Origin) => Based(<<row>>)
  BY <1>3 DEF Based
<1>4. /\ <<row>> \in Seq(AuditRow) /\ AllAt(<<row>>, time)
      /\ \A i : i # 0 => Silent(<<row>>, i)
      /\ \A other : other # type => Without(<<row>>, other)
  BY <1>2, <1>3, OneRow
<1>5. type \notin NoteKinds \cup {"approval_escalated", "transition_executed",
                                  "workflow_completed"}
  BY DEF NoteKinds
<1> QED BY <1>4, <1>5, <1>6 DEF row, Plain

LEMMA VotePlain ==
  ASSUME Life, NEW u \in Users, NEW action, NEW status \in Decided,
         Decide(u, action, status), NEW i \in Pending(current), NEW time \in Nat
  PROVE  LET rest == IF path' = path THEN <<>> ELSE Cancellations(i, time) \o Move(time)
             rows == <<VoteRow(i, status, time)>> \o rest
         IN  Plain(rows) /\ rows \in Seq(AuditRow) /\ AllAt(rows, time)
<1>1. TypeOK /\ Started /\ i \in Nat /\ approvals \in Seq(Approval)
  <2>1. TypeOK /\ Started /\ approvals \in Seq(Approval)
    BY DEF Life, TypeOK, Decide, Open
  <2> QED BY <2>1 DEF Pending, WithStatus, OfStep
<1> DEFINE vote == <<VoteRow(i, status, time)>>
           cancelled == Cancellations(i, time)
           move == Move(time)
           none == <<>>
<1>2. vote \in Seq(AuditRow) /\ Plain(vote) /\ AllAt(vote, time)
  BY <1>1, VoteRowTells DEF Plain
<1>3. cancelled \in Seq(AuditRow) /\ Plain(cancelled) /\ AllAt(cancelled, time)
  BY <1>1, CancelRows DEF Plain, NoteKinds
<1>4. none \in Seq(AuditRow) /\ Plain(none) /\ AllAt(none, time)
  BY DEF Plain, Without, AllAt
<1>5. ASSUME path' # path
      PROVE  move \in Seq(AuditRow) /\ Plain(move) /\ AllAt(move, time)
  <2>1. PICK v \in DOMAIN approvals, d \in 0..Len(delegations) : \E outcome :
          Settle(outcome, Authority(u, d), Voted(u, v, d, status))
    BY <1>5 DEF Decide
  <2> DEFINE rows == Cancelled(Voted(u, v, d, status), current)
  <2>2. rows \in Seq(Approval) /\ Len(rows) = Len(approvals)
    <3>1. /\ Voted(u, v, d, status) \in Seq(Approval)
          /\ Len(Voted(u, v, d, status)) = Len(approvals)
      BY <1>1, VotedRows
    <3> QED BY <3>1, CancelledRows
  <2>3. PICK t \in definition.transitions : ApplyTransition(t, rows)
    BY <2>1 DEF Settle, Resolved, Passing, Judged
  <2> HIDE DEF rows
  <2>4. /\ move \in Seq(AuditRow) /\ AllAt(move, time)
        /\ \A type \in EventTypes :
             type \notin {"transition_executed", "workflow_completed", "approval_required"}
             => Without(move, type)
    BY <1>1, <2>2, <2>3, MoveRows
  <2>5. /\ NoteKinds \cup {"approval_escalated"} \subseteq EventTypes
        /\ \A type \in NoteKinds \cup {"approval_escalated"} :
             type \notin {"transition_executed", "workflow_completed", "approval_required"}
    BY DEF NoteKinds, EventTypes
  <2> HIDE DEF move
  <2> QED BY <2>4, <2>5 DEF Plain
<1> HIDE DEF vote, cancelled, move, none
<1>6. CASE path' = path
  <2>1. /\ vote \o none \in Seq(AuditRow) /\ Plain(vote \o none)
        /\ AllAt(vote \o none, time)
    BY <1>2, <1>4, ConcatPlain, ConcatAllAt, RowsOfConcat
  <2> QED BY <1>6, <2>1 DEF vote, none
<1>7. CASE path' # path
  <2>1. /\ cancelled \o move \in Seq(AuditRow) /\ Plain(cancelled \o move)
        /\ AllAt(cancelled \o move, time)
    BY <1>3, <1>5, <1>7, ConcatPlain, ConcatAllAt, RowsOfConcat
  <2> DEFINE rest == cancelled \o move
  <2> HIDE DEF rest
  <2>2. /\ vote \o rest \in Seq(AuditRow) /\ Plain(vote \o rest)
        /\ AllAt(vote \o rest, time)
    BY <1>2, <2>1, ConcatPlain, ConcatAllAt, RowsOfConcat DEF rest
  <2> QED BY <1>7, <2>2 DEF vote, rest, cancelled, move
<1> QED BY <1>6, <1>7

LEMMA TransitPlain ==
  ASSUME Life, NEW u, NEW action, Execute(u, action), NEW time \in Nat
  PROVE  Plain(Move(time)) /\ AllAt(Move(time), time)
<1>1. TypeOK /\ approvals \in Seq(Approval)
  BY DEF Life, TypeOK
<1>2. PICK t \in definition.transitions : ApplyTransition(t, approvals)
  BY DEF Execute, Resolved, Passing, Judged
<1> DEFINE move == Move(time)
<1>3. \A type \in EventTypes :
        type \notin {"transition_executed", "workflow_completed", "approval_required"}
        => Without(move, type)
  BY <1>1, <1>2, MoveRows
<1>4. /\ NoteKinds \cup {"approval_escalated"} \subseteq EventTypes
      /\ \A type \in NoteKinds \cup {"approval_escalated"} :
           type \notin {"transition_executed", "workflow_completed", "approval_required"}
  BY DEF NoteKinds, EventTypes
<1>5. AllAt(move, time)
  BY <1>1, <1>2, MoveRows
<1> HIDE DEF move
<1>6. Plain(move)
  BY <1>3, <1>4 DEF Plain
<1> QED BY <1>5, <1>6 DEF move

(* No slot is withdrawn, nor raised after it was created.                  *)
SlotsStay ==
  \A i \in DOMAIN approvals :
    i \in DOMAIN approvals' /\ approvals'[i].escalated = approvals[i].escalated

Unraised ==
  SlotsStay /\ \A i \in DOMAIN approvals' \ DOMAIN approvals : ~approvals'[i].escalated

(* Transitions and votes raise nothing.                                    *)
LEMMA CallUnraised ==
  ASSUME TypeOK,
         \/ \E u \in Actors : \E action : Execute(u, action)
         \/ \E u \in Users, status \in Decided : \E action : Decide(u, action, status)
  PROVE  Unraised
<1>1. ASSUME NEW t \in definition.transitions, NEW rows, Moves(t, rows)
      PROVE  Unraised
  <2>1. /\ rows \in Seq(Approval) /\ DOMAIN rows = DOMAIN approvals
        /\ \A j \in DOMAIN approvals : rows[j].escalated = approvals[j].escalated
        /\ ApplyTransition(t, rows)
    BY <1>1 DEF Moves, SameSlot
  <2>2. /\ Carried(rows, approvals')
        /\ \A j \in 1..Len(rows) : approvals'[j] = rows[j]
        /\ \A j \in DOMAIN approvals' \ 1..Len(rows) : ~approvals'[j].escalated
    BY <2>1, AppliedRows DEF OpenedAs
  <2>3. DOMAIN rows = 1..Len(rows) /\ DOMAIN rows \subseteq DOMAIN approvals'
    BY <2>1, <2>2 DEF Carried
  <2> QED BY <2>1, <2>2, <2>3 DEF Unraised, SlotsStay
<1>2. ASSUME NEW u \in Users, NEW i \in DOMAIN approvals, NEW d \in 0..Len(delegations),
             NEW status \in Decided, Waits(u, i, d, status)
      PROVE  Unraised
  <2>1. /\ DOMAIN approvals' = DOMAIN approvals
        /\ \A j \in DOMAIN approvals : SameSlot(approvals[j], approvals'[j])
    BY <1>2, VotedSameSlot DEF Waits
  <2> QED BY <2>1 DEF Unraised, SlotsStay, SameSlot
<1>3. ASSUME NEW u \in Actors, NEW action, Execute(u, action)
      PROVE  \E t \in definition.transitions : Moves(t, approvals)
  BY <1>3 DEF Execute, Resolved, Passing, Judged, Moves, SameSlot, TypeOK
<1> QED BY <1>1, <1>2, <1>3, DecideCases

(* An escalation raises one slot, the last.                                *)
LEMMA EscalationRaises ==
  ASSUME TypeOK, NEW u \in Actors, NEW who \in Escalees, Escalate(u, who)
  PROVE  /\ SlotsStay
         /\ DOMAIN approvals' = DOMAIN approvals \cup {Len(approvals')}
         /\ Len(approvals') \notin DOMAIN approvals
         /\ approvals'[Len(approvals')].escalated
<1>1. /\ approvals \in Seq(Approval) /\ approvals' \in Seq(Approval)
      /\ Carried(approvals, approvals')
      /\ Len(approvals') = Len(approvals) + 1
      /\ approvals'[Len(approvals')].escalated
  BY EscalatedRows DEF TypeOK, Carried
<1>2. SlotsStay
  BY <1>1, CarriedSameSlot DEF SlotsStay, SameSlot
<1>3. DOMAIN approvals = 1..Len(approvals) /\ DOMAIN approvals' = 1..(Len(approvals) + 1)
      /\ Len(approvals) \in Nat
  BY <1>1
<1> QED BY <1>1, <1>2, <1>3

(* The list records one escalation, of this slot.                          *)
RaisesOne(list, slot) ==
  \E k \in DOMAIN list :
    /\ list[k].type = "approval_escalated" /\ list[k].slot = slot
    /\ \A j \in DOMAIN list : list[j].type = "approval_escalated" => j = k

LEMMA RaiseRecorded ==
  ASSUME Life, NEW u \in Actors, NEW who \in Escalees, Escalate(u, who), NEW time \in Nat
  PROVE  RaisesOne(RaiseRows(time), Len(approvals')) /\ AllAt(RaiseRows(time), time)
<1> DEFINE a == Cancellations(0, time)
           row == RaiseRow(time)
           b == <<row>>
<1>1. TypeOK /\ Started
  BY DEF Life, Escalate, Open
<1>2. /\ a \in Seq(AuditRow) /\ AllAt(a, time)
      /\ \A k \in DOMAIN a : a[k].type # "approval_escalated"
  BY <1>1, CancelRows DEF Without
<1>3. /\ row \in AuditRow /\ row.type = "approval_escalated" /\ row.slot = Len(approvals')
      /\ row.at = time
  BY RaiseRowType
<1> HIDE DEF a, row
<1>4. b \in Seq(AuditRow) /\ DOMAIN b = {1} /\ b[1] = row
  BY <1>3
<1> HIDE DEF b
<1>5. AllAt(b, time)
  BY <1>3, <1>4 DEF AllAt
<1>6. AllAt(a \o b, time)
  BY <1>2, <1>4, <1>5, ConcatAllAt
<1>7. RaisesOne(a \o b, Len(approvals'))
  <2> DEFINE c == a \o b
  <2>1. /\ Len(a) + 1 \in DOMAIN c /\ c[Len(a) + 1] = row
        /\ \A j \in DOMAIN c : \/ j \in DOMAIN a /\ c[j] = a[j]
                               \/ j - Len(a) = 1
        /\ Len(a) \in Nat /\ DOMAIN c \subseteq Nat
    BY <1>2, <1>4, RowsOfConcat
  <2> HIDE DEF c
  <2>2. \A j \in DOMAIN c : c[j].type = "approval_escalated" => j = Len(a) + 1
    BY <1>2, <2>1
  <2>3. RaisesOne(c, Len(approvals'))
    BY <1>3, <2>1, <2>2 DEF RaisesOne
  <2> QED BY <2>3 DEF c
<1> QED BY <1>6, <1>7 DEF a, b, row, RaiseRows

(* What any step does to the trail: nothing, or what a call appends.       *)
LEMMA CallTold ==
  ASSUME Life, Accounted, [AuditedNext]_auditedVars
  PROVE  \/ /\ UNCHANGED <<definition, current, completed, approvals, path, delegations>>
            /\ UNCHANGED <<completed_at, trail, stamps, notes>>
            /\ now' \in Nat /\ now' >= now
         \/ \E time \in Nat, rows \in Seq(AuditRow) :
              /\ Told(rows) /\ Record(rows, time) /\ Plain(rows) /\ UNCHANGED notes
              /\ AllAt(rows, time) /\ Unraised
              /\ time >= now /\ time <= now + MaxLag
         \/ \E time \in Nat, u \in Actors, who \in Escalees :
              /\ Escalate(u, who)
              /\ Told(RaiseRows(time)) /\ Quiet(RaiseRows(time))
              /\ Record(RaiseRows(time), time) /\ UNCHANGED notes
              /\ time >= now /\ time <= now + MaxLag
         \/ \E time \in Nat, kind \in NoteKinds :
              /\ Started /\ UNCHANGED vars /\ Noted(kind, time)
              /\ time >= now /\ time <= now + MaxLag
<1>0. TypeOK /\ now \in Nat
  BY DEF Life, Accounted, AuditTypes
<1> DEFINE Still ==
             /\ UNCHANGED <<definition, current, completed, approvals, path, delegations>>
             /\ UNCHANGED <<completed_at, trail, stamps, notes>>
             /\ now' \in Nat /\ now' >= now
           Plainly(time) ==
             \E rows \in Seq(AuditRow) :
               /\ Told(rows) /\ Record(rows, time) /\ Plain(rows)
               /\ AllAt(rows, time) /\ Unraised
<1>1. CASE UNCHANGED auditedVars
  <2>1. Still
    BY <1>0, <1>1 DEF auditedVars, vars
  <2> QED BY <2>1
<1>2. CASE Tick
  <2>1. Still
    BY <1>0, <1>2 DEF Tick, vars
  <2> QED BY <2>1
<1>3. ASSUME NEW value \in Data, EditObject(value),
             UNCHANGED <<now, started_at, completed_at, trail, stamps, notes>>
      PROVE  Still
  BY <1>0, <1>3 DEF EditObject
<1>4. \A time \in Ends : time \in Nat /\ time >= now /\ time <= now + MaxLag
  BY <1>0, ClockAssumption DEF Ends
<1>5. ASSUME NEW u \in Actors, Begin(u)
      PROVE  Plainly(now) /\ UNCHANGED notes
  <2> DEFINE none == <<>>
  <2>1. /\ none \in Seq(AuditRow) /\ Plain(none) /\ AllAt(none, now)
        /\ \A i : i # 0 => Silent(none, i)
        /\ Without(none, "transition_executed") /\ Without(none, "workflow_completed")
        /\ Based(none)
    BY DEF Plain, Silent, Without, AllAt, Based
  <2>2. Record(none, now) /\ UNCHANGED notes
    BY <1>5 DEF Begin
  <2> HIDE DEF none
  <2>3. UNCHANGED <<definition, approvals, path, completed>> /\ ~Started
    BY <1>5 DEF Begin, Start
  <2>4. Told(none)
    BY <1>0, <2>1, <2>3, AsideTold
  <2>5. Unraised
    BY <2>3 DEF Unraised, SlotsStay
  <2> QED BY <2>1, <2>2, <2>4, <2>5
<1>14. ASSUME NEW time \in Ends, RecordStart(time)
       PROVE  Plainly(time) /\ UNCHANGED notes
  <2> DEFINE rows == <<Row("workflow_started", "start", NoText, Origin, 0, time)>>
  <2>1. Record(rows, time) /\ Started /\ UNCHANGED notes
    BY <1>14 DEF RecordStart
  <2>2. UNCHANGED <<definition, approvals, path, completed, current>>
    BY <1>14 DEF RecordStart, vars
  <2>3. Origin \in States \cup {NoText}
    <3>1. current \in States /\ path \in Seq(Transition)
      BY <1>0, <2>1 DEF TypeOK, Started
    <3>2. path # <<>> => path[1] \in Transition
      BY <3>1
    <3> QED BY <3>1, <3>2 DEF Origin, Transition
  <2>4. /\ rows \in Seq(AuditRow) /\ Plain(rows) /\ AllAt(rows, time)
        /\ \A i : i # 0 => Silent(rows, i)
        /\ Without(rows, "transition_executed") /\ Without(rows, "workflow_completed")
        /\ Based(rows)
    <3>1. "start" \in Verbs /\ NoText \in States \cup {NoText}
      BY DEF Verbs
    <3> QED BY <1>4, <2>1, <2>3, <3>1, PlainRow
  <2> HIDE DEF rows
  <2>5. Told(rows)
    BY <1>0, <2>2, <2>4, AsideTold
  <2>6. Unraised
    BY <2>2 DEF Unraised, SlotsStay
  <2> QED BY <2>1, <2>4, <2>5, <2>6
<1>6. ASSUME NEW time \in Ends, NEW u \in Actors, NEW action \in Actions,
             Transit(u, action, time)
      PROVE  Plainly(time)
  <2>1. Execute(u, action) /\ Record(Move(time), time)
    BY <1>6 DEF Transit
  <2>2. Told(Move(time)) /\ Plain(Move(time)) /\ AllAt(Move(time), time)
    BY <1>4, <2>1, TransitTold, TransitPlain
  <2>3. Move(time) \in Seq(AuditRow)
    BY <2>2 DEF Told
  <2>4. Unraised
    BY <1>0, <2>1, CallUnraised
  <2> QED BY <2>1, <2>2, <2>3, <2>4
<1>7. ASSUME NEW time \in Ends, NEW u \in Users, NEW action, NEW status \in Decided,
             Decide(u, action, status),
             Vote(IF status = "APPROVED" THEN "approval_approved" ELSE "approval_rejected",
                  status, time)
      PROVE  Plainly(time)
  <2>1. PICK i \in Pending(current) :
          /\ approvals'[i].status = status
          /\ Record(<<VoteRow(i, status, time)>>
                    \o IF path' = path THEN <<>> ELSE Cancellations(i, time) \o Move(time),
                    time)
    BY <1>7 DEF Vote, VoteRow
  <2> DEFINE rest == IF path' = path THEN <<>> ELSE Cancellations(i, time) \o Move(time)
             rows == <<VoteRow(i, status, time)>> \o rest
  <2>2. Told(rows)
    BY <1>4, <1>7, <2>1, VoteTold
  <2>3. Plain(rows) /\ rows \in Seq(AuditRow) /\ AllAt(rows, time)
    BY <1>4, <1>7, <2>1, VotePlain
  <2>4. Record(rows, time)
    BY <2>1
  <2>5. Unraised
    BY <1>0, <1>7, CallUnraised
  <2> HIDE DEF rows
  <2> QED BY <2>2, <2>3, <2>4, <2>5
<1>8. ASSUME NEW time \in Ends, NEW granter \in Users, NEW grantee \in Users,
             NEW step \in States \cup {AnyStep}, Forward(granter, grantee, step, time)
      PROVE  Plainly(time)
  <2> DEFINE rows == <<Row("approval_delegated", "delegate", current, current, 0, time)>>
  <2>1. Record(rows, time)
    BY <1>8 DEF Forward
  <2>2. /\ UNCHANGED <<definition, approvals, path, completed, current>> /\ Started
        /\ current \in States
    BY <1>0, <1>8 DEF Forward, Delegate, Open, TypeOK, Started
  <2>3. /\ rows \in Seq(AuditRow) /\ Plain(rows) /\ AllAt(rows, time)
        /\ \A i : i # 0 => Silent(rows, i)
        /\ Without(rows, "transition_executed") /\ Without(rows, "workflow_completed")
        /\ Based(rows)
    <3>1. "delegate" \in Verbs /\ current \in States \cup {NoText}
      BY <2>2 DEF Verbs
    <3> QED BY <1>4, <3>1, PlainRow
  <2> HIDE DEF rows
  <2>4. Told(rows)
    BY <1>0, <2>2, <2>3, AsideTold
  <2>5. Unraised
    BY <2>2 DEF Unraised, SlotsStay
  <2> QED BY <2>1, <2>3, <2>4, <2>5
<1>9. ASSUME NEW time \in Ends, NEW d \in DOMAIN delegations, Withdraw(d, time)
      PROVE  Plainly(time)
  <2> DEFINE rows == <<Row("delegation_revoked", "revoke", current, current, 0, time)>>
             none == <<>>
  <2>1. Record(rows, time) \/ Record(none, time)
    BY <1>9 DEF Withdraw
  <2>2. /\ UNCHANGED <<definition, approvals, path, completed, current>> /\ Started
        /\ current \in States
    <3>1. delegations # <<>>
      <4>1. delegations \in Seq(Delegation)
        BY <1>0 DEF TypeOK
      <4> QED BY <1>9, <4>1
    <3> QED BY <1>0, <1>9, <3>1
        DEF Withdraw, Lapse, TypeOK, Started, Accounted, NothingForwarded
  <2>3. /\ rows \in Seq(AuditRow) /\ Plain(rows) /\ AllAt(rows, time)
        /\ \A i : i # 0 => Silent(rows, i)
        /\ Without(rows, "transition_executed") /\ Without(rows, "workflow_completed")
        /\ Based(rows)
    <3>1. "revoke" \in Verbs /\ current \in States \cup {NoText}
      BY <2>2 DEF Verbs
    <3> QED BY <1>4, <3>1, PlainRow
  <2>4. /\ none \in Seq(AuditRow) /\ Plain(none) /\ AllAt(none, time)
        /\ \A i : i # 0 => Silent(none, i)
        /\ Without(none, "transition_executed") /\ Without(none, "workflow_completed")
        /\ Based(none)
    BY DEF Plain, Silent, Without, AllAt, Based
  <2> HIDE DEF rows, none
  <2>5. Told(rows) /\ Told(none)
    BY <1>0, <2>2, <2>3, <2>4, AsideTold
  <2>6. Unraised
    BY <2>2 DEF Unraised, SlotsStay
  <2> QED BY <2>1, <2>3, <2>4, <2>5, <2>6
<1>10. ASSUME NEW time \in Ends, NEW u \in Actors, NEW who \in Escalees, Raise(u, who, time)
       PROVE  /\ Escalate(u, who) /\ Record(RaiseRows(time), time)
              /\ Told(RaiseRows(time)) /\ Quiet(RaiseRows(time))
  BY <1>4, <1>10, RaiseTold DEF Raise, RaiseRows, RaiseRow
<1>11. ASSUME NEW time \in Ends,
              Comment(time) \/ \E upload \in Uploads : Attach(upload, time)
       PROVE  \E kind \in NoteKinds : Started /\ UNCHANGED vars /\ Noted(kind, time)
  BY <1>11 DEF Comment, Attach, NoteKinds
<1>12. ASSUME NEW time \in Ends, NEW u \in Users,
              \/ Approve(u) /\ Vote("approval_approved", "APPROVED", time)
              \/ Reject(u) /\ Vote("approval_rejected", "REJECTED", time)
       PROVE  Plainly(time)
  <2>1. CASE Approve(u) /\ Vote("approval_approved", "APPROVED", time)
    BY <1>7, <2>1 DEF Approve, Decided
  <2>2. CASE Reject(u) /\ Vote("approval_rejected", "REJECTED", time)
    BY <1>7, <2>2 DEF Reject, Decided
  <2> QED BY <1>12, <2>1, <2>2
<1>13. CASE AuditedNext
  <2>1. \/ Tick
        \/ \E value \in Data : EditObject(value)
             /\ UNCHANGED <<now, started_at, completed_at, trail, stamps, notes>>
        \/ \E time \in Ends : Plainly(time) /\ UNCHANGED notes
        \/ Plainly(now) /\ UNCHANGED notes
        \/ \E time \in Ends, u \in Actors, who \in Escalees :
             Raise(u, who, time) /\ UNCHANGED notes
        \/ \E time \in Ends : Comment(time) \/ \E upload \in Uploads : Attach(upload, time)
    <3> HIDE DEF Plainly
    <3> QED BY <1>5, <1>6, <1>8, <1>9, <1>12, <1>13, <1>14 DEF AuditedNext
  <2>2. CASE \E time \in Ends : Plainly(time) /\ UNCHANGED notes
    BY <1>4, <2>2
  <2>3. CASE \E time \in Ends, u \in Actors, who \in Escalees :
               Raise(u, who, time) /\ UNCHANGED notes
    BY <1>4, <1>10, <2>3
  <2>4. CASE \E time \in Ends : Comment(time) \/ \E upload \in Uploads : Attach(upload, time)
    BY <1>4, <1>11, <2>4
  <2>5. CASE Plainly(now) /\ UNCHANGED notes
    <3>1. now >= now /\ now <= now + MaxLag
      BY <1>0, ClockAssumption
    <3> QED BY <1>0, <2>5, <3>1
  <2> QED BY <1>2, <1>3, <2>1, <2>2, <2>3, <2>4, <2>5
<1> QED BY <1>1, <1>13

-----------------------------------------------------------------------------
(* Told slots, moves and completion stay as they are when nothing happens. *)
LEMMA StillAccounted ==
  ASSUME Accounted,
         UNCHANGED <<definition, current, completed, approvals, path, delegations>>,
         UNCHANGED <<completed_at, trail, stamps, notes>>, now' \in Nat
  PROVE  Accounted'
<1>1. AuditTypes'
  BY DEF Accounted, AuditTypes
<1>2. SlotsTold'
  BY DEF Accounted, SlotsTold
<1>3. MovesTold'
  BY DEF Accounted, MovesTold, Entered, Started
<1>6. StartTold'
  BY DEF Accounted, StartTold, Started, Origin, Departs
<1>4. CompletionTold'
  BY DEF Accounted, CompletionTold
<1>5. NotesTold' /\ NothingForwarded'
  BY DEF Accounted, NotesTold, NotesOf, NothingForwarded, Started
<1> QED BY <1>1, <1>2, <1>3, <1>4, <1>5, <1>6 DEF Accounted

LEMMA StepAccounted ==
  ASSUME Life, Accounted, [AuditedNext]_auditedVars
  PROVE  Accounted'
<1>1. TypeOK /\ [Next]_vars
  BY EngineStep DEF Life
<1>2. NothingForwarded'
  BY <1>1, StartKept DEF Accounted
<1>3. ASSUME NEW time \in Nat, NEW rows \in Seq(AuditRow), Told(rows), Record(rows, time),
             Quiet(rows), UNCHANGED notes
      PROVE  Accounted'
  <2>1. /\ trail' \in Seq(AuditRow) /\ now' \in Nat /\ completed_at' \in Times
        /\ SlotsTold' /\ MovesTold' /\ StartTold' /\ CompletionTold'
    BY <1>3, RecordTells
  <2>2. NotesTold' /\ notes' \in Seq(NoteKinds)
    BY <1>3, NotesKept
  <2> QED BY <1>2, <2>1, <2>2 DEF Accounted, AuditTypes
<1>4. ASSUME NEW time \in Nat, NEW u \in Actors, NEW who \in Escalees, Escalate(u, who),
             Told(RaiseRows(time)), Quiet(RaiseRows(time)), Record(RaiseRows(time), time),
             UNCHANGED notes
      PROVE  Accounted'
  <2> DEFINE rows == RaiseRows(time)
  <2>1. Quiet(rows) /\ rows \in Seq(AuditRow)
    BY <1>4 DEF Told
  <2>2. Told(rows) /\ Record(rows, time)
    BY <1>4
  <2> HIDE DEF rows
  <2> QED BY <1>3, <1>4, <2>1, <2>2
<1>5. ASSUME NEW time \in Nat, NEW kind \in NoteKinds, Started, UNCHANGED vars,
             Noted(kind, time)
      PROVE  Accounted'
  <2>1. /\ NotesTold' /\ notes' \in Seq(NoteKinds)
        /\ \E rows : Told(rows) /\ Record(rows, time)
    BY <1>1, <1>5, NoteRecorded
  <2>2. /\ trail' \in Seq(AuditRow) /\ now' \in Nat /\ completed_at' \in Times
        /\ SlotsTold' /\ MovesTold' /\ StartTold' /\ CompletionTold'
    BY <2>1, RecordTells
  <2> QED BY <1>2, <2>1, <2>2 DEF Accounted, AuditTypes
<1>6. \A rows : Plain(rows) => Quiet(rows)
  BY DEF Plain, Quiet
<1>7. CASE /\ UNCHANGED <<definition, current, completed, approvals, path, delegations>>
           /\ UNCHANGED <<completed_at, trail, stamps, notes>>
           /\ now' \in Nat
  BY <1>7, StillAccounted
<1> QED BY <1>3, <1>4, <1>5, <1>6, <1>7, CallTold

LEMMA InitAccounted == AuditedInit => Accounted
<1> SUFFICES ASSUME AuditedInit PROVE Accounted
  OBVIOUS
<1>1. /\ trail = <<>> /\ now = 0 /\ completed_at = Never /\ notes = <<>>
      /\ approvals = <<>> /\ path = <<>> /\ current = Absent /\ ~completed
      /\ delegations = <<>>
  BY DEF AuditedInit, Init
<1>2. AuditTypes
  BY <1>1 DEF AuditTypes, Times
<1>3. SlotsTold /\ NothingForwarded
  BY <1>1 DEF SlotsTold, NothingForwarded
<1>4. MovesTold /\ StartTold /\ CompletionTold
  BY <1>1 DEF MovesTold, StartTold, Departs, CompletionTold, Entered, Started, Without
<1>5. NotesTold
  <2>1. \A kind \in NoteKinds : Having(trail, kind) = {} /\ NotesOf(kind) = {}
    BY <1>1 DEF Having, NotesOf
  <2> QED BY <2>1, FS_EmptySet DEF NotesTold
<1> QED BY <1>2, <1>3, <1>4, <1>5 DEF Accounted

(* The inductive invariant of the audit: Accounted, beside the engine's    *)
(* own Life.                                                               *)
LEMMA AlwaysAccounted == AuditedSpec => [](Life /\ Accounted)
<1>1. AuditedSpec => []Life
  BY EngineImplemented, LifeInvariant, PTL
<1>2. Life /\ Accounted /\ [AuditedNext]_auditedVars => Accounted'
  BY StepAccounted
<1> QED BY <1>1, <1>2, InitAccounted, PTL DEF AuditedSpec

(* The rows of some types, taken out of a list.                            *)
LEMMA TakenRows ==
  ASSUME NEW list \in Seq(AuditRow), NEW types
  PROVE  LET S == {k \in DOMAIN list : list[k].type \in types}
             rows == At(list, S)
         IN  /\ IsFiniteSet(S) /\ Cardinality(S) \in Nat
             /\ rows \in Seq(AuditRow) /\ Len(rows) = Cardinality(S)
             /\ rows # <<>> <=> S # {}
             /\ \A k \in S : (\A j \in S : j <= k) => rows[Len(rows)] = list[k]
<1> DEFINE S == {k \in DOMAIN list : list[k].type \in types}
           n == Cardinality(S)
           rows == At(list, S)
<1>1. S \in SUBSET DOMAIN list /\ S \subseteq Nat /\ S \in SUBSET Int
  OBVIOUS
<1> HIDE DEF S
<1>3. /\ IsFiniteSet(S) /\ n \in Nat
      /\ rows \in Seq(AuditRow) /\ Len(rows) = n
      /\ \A k \in 1..n : rows[k] = list[Ascending(S)[k]]
  BY <1>1, AtTakes
<1> HIDE DEF rows
<1>5. n = 0 <=> S = {}
  BY <1>3, FS_EmptySet
<1>6. rows # <<>> <=> S # {}
  BY <1>3, <1>5
<1>7. ASSUME NEW k \in S, \A j \in S : j <= k
      PROVE  rows[Len(rows)] = list[k]
  <2>1. /\ Ascending(S) \in [1..n -> S]
        /\ \A j, l \in 1..n : j < l => Ascending(S)[j] < Ascending(S)[l]
        /\ \A i \in S : \E j \in 1..n : Ascending(S)[j] = i
    BY <1>1, <1>3, AscendingLists
  <2>2. PICK j \in 1..n : Ascending(S)[j] = k
    BY <2>1
  <2>3. n \in 1..n
    BY <1>3
  <2>4. Ascending(S)[n] \in S
    BY <2>1, <2>3
  <2>5. Ascending(S)[n] \in Nat /\ k \in Nat /\ Ascending(S)[n] <= k
    BY <1>1, <1>7, <2>4
  <2>6. j = n
    <3>1. j < n => Ascending(S)[j] < Ascending(S)[n]
      BY <2>1, <2>3
    <3> QED BY <1>3, <2>2, <2>5, <3>1
  <2> QED BY <1>3, <2>2, <2>3, <2>6
<1> QED BY <1>3, <1>6, <1>7 DEF S, rows, n

LEMMA TakenFirst ==
  ASSUME NEW list \in Seq(AuditRow), NEW types
  PROVE  LET S == {k \in DOMAIN list : list[k].type \in types}
             rows == At(list, S)
         IN  S # {} => \E k \in S : rows[1] = list[k] /\ \A j \in S : k <= j
<1> DEFINE S == {k \in DOMAIN list : list[k].type \in types}
           n == Cardinality(S)
           rows == At(list, S)
<1> SUFFICES ASSUME S # {}
             PROVE  \E k \in S : rows[1] = list[k] /\ \A j \in S : k <= j
  OBVIOUS
<1>1. S \in SUBSET DOMAIN list /\ S \subseteq Nat /\ S \in SUBSET Int
  OBVIOUS
<1> HIDE DEF S
<1>2. /\ IsFiniteSet(S) /\ n \in Nat
      /\ \A k \in 1..n : rows[k] = list[Ascending(S)[k]]
  BY <1>1, AtTakes
<1> HIDE DEF rows
<1>3. /\ Ascending(S) \in [1..n -> S]
      /\ \A j, l \in 1..n : j < l => Ascending(S)[j] < Ascending(S)[l]
      /\ \A i \in S : \E j \in 1..n : Ascending(S)[j] = i
  BY <1>1, <1>2, AscendingLists
<1>4. 1 \in 1..n
  <2>1. n # 0
    BY <1>2, FS_EmptySet
  <2> QED BY <1>2, <2>1
<1>5. Ascending(S)[1] \in S /\ rows[1] = list[Ascending(S)[1]]
  BY <1>2, <1>3, <1>4
<1>6. ASSUME NEW i \in S
      PROVE  Ascending(S)[1] <= i
  <2>1. PICK j \in 1..n : Ascending(S)[j] = i
    BY <1>3
  <2>2. j = 1 \/ 1 < j
    BY <1>2
  <2>3. Ascending(S)[1] \in Nat /\ i \in Nat
    BY <1>1, <1>5
  <2> QED BY <1>3, <1>4, <2>1, <2>2, <2>3
<1> QED BY <1>5, <1>6 DEF rows

(* The trail alone accounts for the execution: for the status of every     *)
(* slot, the current state, completion, and at most the notes there are.   *)
THEOREM TrailAlwaysAccounts == AuditedSpec => []TrailAccounts
<1>1. Life /\ Accounted => TrailAccounts
  <2> SUFFICES ASSUME Life, Accounted PROVE TrailAccounts
    OBVIOUS
  <2> DEFINE taken == RowsOf({"transition_executed"})
             S == {k \in DOMAIN trail : trail[k].type \in {"transition_executed"}}
  <2>1. trail \in Seq(AuditRow) /\ DOMAIN trail \subseteq Nat
    BY DEF Accounted, AuditTypes
  <2>2. StatusAccounted
    BY DEF StatusAccounted, Accounted, SlotsTold, Tells, LastAbout
  <2>3. /\ taken # <<>> <=> S # {}
        /\ \A k \in S : (\A j \in S : j <= k) => taken[Len(taken)] = trail[k]
    BY <2>1, TakenRows, Zenon DEF RowsOf
  <2>12. S # {} => \E k \in S : taken[1] = trail[k] /\ \A j \in S : k <= j
    BY <2>1, TakenFirst, Zenon DEF RowsOf
  <2> HIDE DEF taken
  <2>4. taken # <<>> => current = taken[Len(taken)].target
    <3>1. CASE Without(trail, "transition_executed")
      <4>1. S = {}
        BY <3>1 DEF Without
      <4> QED BY <2>3, <4>1
    <3>2. CASE Leads(trail, current)
      <4>1. PICK k \in DOMAIN trail :
              /\ trail[k].type = "transition_executed" /\ trail[k].target = current
              /\ \A j \in DOMAIN trail : j > k => trail[j].type # "transition_executed"
        BY <3>2 DEF Leads
      <4>2. k \in S /\ \A j \in S : j <= k
        BY <2>1, <4>1
      <4> HIDE DEF S
      <4> QED BY <2>3, <4>1, <4>2
    <3> QED BY <3>1, <3>2 DEF Accounted, MovesTold
  <2>11. Origin = IF taken = <<>> THEN current ELSE taken[1].source
    <3>1. CASE S = {}
      <4>1. ~Entered
        BY <3>1 DEF Accounted, MovesTold, Leads
      <4> QED BY <2>3, <3>1, <4>1 DEF Entered, Origin
    <3>2. CASE S # {}
      <4>1. PICK k \in S : taken[1] = trail[k] /\ \A j \in S : k <= j
        BY <2>12, <3>2
      <4>2. \A j \in DOMAIN trail : j < k => trail[j].type # "transition_executed"
        BY <2>1, <4>1
      <4>3. trail[k].source = Origin
        BY <4>1, <4>2 DEF Accounted, StartTold, Departs
      <4> HIDE DEF S
      <4> QED BY <2>3, <3>2, <4>1, <4>3
    <3> QED BY <3>1, <3>2
  <2>5. completed <=> completed_at # Never
    BY DEF Accounted, CompletionTold
  <2>6. completed <=> RowsOf({"workflow_completed"}) # <<>>
    <3> DEFINE ends == RowsOf({"workflow_completed"})
               E == {k \in DOMAIN trail : trail[k].type \in {"workflow_completed"}}
    <3>1. ends # <<>> <=> E # {}
      BY <2>1, TakenRows, Zenon DEF RowsOf
    <3> HIDE DEF ends
    <3>2. completed <=> E # {}
      BY DEF Accounted, CompletionTold, Completes, Without
    <3> QED BY <3>1, <3>2 DEF ends
  <2>7. ASSUME NEW kind \in {"comment_added", "attachment_added"}
        PROVE  Len(RowsOf({kind})) <= Cardinality(NotesOf(kind))
    <3>1. Len(RowsOf({kind})) = Cardinality({k \in DOMAIN trail : trail[k].type \in {kind}})
      BY <2>1, TakenRows, Zenon DEF RowsOf
    <3>2. {k \in DOMAIN trail : trail[k].type \in {kind}} = Having(trail, kind)
      BY DEF Having
    <3>3. Cardinality(Having(trail, kind)) <= Cardinality(NotesOf(kind))
      BY DEF Accounted, NotesTold, NoteKinds
    <3> QED BY <3>1, <3>2, <3>3
  <2> HIDE DEF S
  <2>8. StateAccounted
    BY <2>4, <2>11 DEF StateAccounted, taken, Accounted, StartTold
  <2>9. CompletionAccounted
    BY <2>5, <2>6 DEF CompletionAccounted
  <2>10. NotesAccounted
    BY <2>7 DEF NotesAccounted
  <2> QED BY <2>2, <2>8, <2>9, <2>10 DEF TrailAccounts
<1> QED BY <1>1, AlwaysAccounted, PTL

-----------------------------------------------------------------------------
(* How executions are counted.                                             *)

(* An execution is classified by the transition that completed it, and by  *)
(* nothing before.                                                         *)
LEMMA Classified ==
  ASSUME Life, Accounted
  PROVE  /\ completed => Started /\ CompletedBy = {path[Len(path)].name}
         /\ ~completed => CompletedBy = {}
         /\ completed <=> completed_at # Never
<1>1. ASSUME completed
      PROVE  Started /\ CompletedBy = {path[Len(path)].name}
  <2>1. PICK k \in DOMAIN trail :
          /\ trail[k].type = "workflow_completed" /\ trail[k].action = path[Len(path)].name
          /\ \A j \in DOMAIN trail : trail[j].type = "workflow_completed" => j = k
    BY <1>1 DEF Accounted, CompletionTold, Completes
  <2>2. {j \in DOMAIN trail : trail[j].type = "workflow_completed"} = {k}
    BY <2>1
  <2>3. CompletedBy = {trail[j].action : j \in {k}}
    BY <2>2 DEF CompletedBy
  <2> QED BY <1>1, <2>1, <2>3 DEF Life, Sealed, Unstarted, Entered
<1>2. ASSUME ~completed
      PROVE  CompletedBy = {}
  <2>1. \A j \in DOMAIN trail : trail[j].type # "workflow_completed"
    BY <1>2 DEF Accounted, CompletionTold, Without
  <2> QED BY <2>1 DEF CompletedBy
<1> QED BY <1>1, <1>2 DEF Accounted, CompletionTold

(* A completed execution shows as completed, rejected or cancelled, one    *)
(* that is running as active, and none as failed.                          *)
THEOREM OutcomesAlwaysPartition == AuditedSpec => []OutcomesPartition
<1>1. Life /\ Accounted => OutcomesPartition
  <2> SUFFICES ASSUME Life, Accounted PROVE OutcomesPartition
    OBVIOUS
  <2> DEFINE metrics == ExecutionMetrics
             name == path[Len(path)].name
  <2>1. /\ metrics.started = Count(Started)
        /\ metrics.active = Count(Started /\ completed_at = Never)
        /\ metrics.completed = Count(CompletedBy \ {"reject", "cancel"} # {})
        /\ metrics.rejected = Count(RejectedEvent \/ "reject" \in CompletedBy)
        /\ metrics.cancelled = Count("cancel" \in CompletedBy)
        /\ metrics.failed = Count(completed_at # Never /\ CompletedBy = {} /\ ~RejectedEvent)
    BY DEF ExecutionMetrics
  <2>2. /\ completed => Started /\ CompletedBy = {name}
        /\ ~completed => CompletedBy = {}
        /\ completed <=> completed_at # Never
    BY Classified
  <2> HIDE DEF metrics, name
  <2>3. metrics.failed = 0
    BY <2>1, <2>2 DEF Count
  <2>4. metrics.started = metrics.active + metrics.completed + metrics.cancelled
                          + Count("reject" \in CompletedBy)
    <3>1. CASE ~completed
      BY <2>1, <2>2, <3>1 DEF Count
    <3>2. CASE completed
      <4>1. metrics.started = 1 /\ metrics.active = 0
        BY <2>1, <2>2, <3>2 DEF Count
      <4>2. CASE name = "reject"
        BY <2>1, <2>2, <3>2, <4>1, <4>2 DEF Count
      <4>3. CASE name = "cancel"
        BY <2>1, <2>2, <3>2, <4>1, <4>3 DEF Count
      <4>4. CASE name # "reject" /\ name # "cancel"
        <5>1. CompletedBy \ {"reject", "cancel"} = {name}
          BY <2>2, <3>2, <4>4
        <5> QED BY <2>1, <2>2, <3>2, <4>1, <4>4, <5>1 DEF Count
      <4> QED BY <4>2, <4>3, <4>4
    <3> QED BY <3>1, <3>2
  <2>5. completed /\ name = "reject" => metrics.rejected = 1
    BY <2>1, <2>2 DEF Count
  <2> QED BY <2>3, <2>4, <2>5 DEF OutcomesPartition, metrics, name
<1> QED BY <1>1, AlwaysAccounted, PTL

-----------------------------------------------------------------------------
(* How counters grow.                                                      *)

(* A call appends to the trail and changes nothing of it.                  *)
LEMMA TrailGrows ==
  ASSUME Life, Accounted, [AuditedNext]_auditedVars
  PROVE  /\ trail' \in Seq(AuditRow)
         /\ \A k \in DOMAIN trail : k \in DOMAIN trail' /\ trail'[k] = trail[k]
<1>1. trail \in Seq(AuditRow)
  BY DEF Accounted, AuditTypes
<1>2. \/ trail' = trail
      \/ \E rows \in Seq(AuditRow) : trail' = trail \o rows
  <2>1. ASSUME NEW time, NEW rows, Told(rows), Record(rows, time)
        PROVE  rows \in Seq(AuditRow) /\ trail' = trail \o rows
    BY <2>1 DEF Told, Record
  <2>2. ASSUME NEW time \in Nat, NEW kind \in NoteKinds, Started, UNCHANGED vars,
               Noted(kind, time)
        PROVE  \E rows \in Seq(AuditRow) : trail' = trail \o rows
    <3>1. PICK rows : Told(rows) /\ Record(rows, time)
      BY <2>2, NoteRecorded DEF Life
    <3> QED BY <2>1, <3>1
  <2>3. ASSUME NEW time \in Nat, Told(RaiseRows(time)), Record(RaiseRows(time), time)
        PROVE  \E rows \in Seq(AuditRow) : trail' = trail \o rows
    <3> DEFINE rows == RaiseRows(time)
    <3>1. Told(rows) /\ Record(rows, time)
      BY <2>3
    <3> HIDE DEF rows
    <3> QED BY <2>1, <3>1
  <2> QED BY <2>1, <2>2, <2>3, CallTold
<1>3. CASE trail' = trail
  BY <1>1, <1>3
<1>4. ASSUME NEW rows \in Seq(AuditRow), trail' = trail \o rows
      PROVE  /\ trail' \in Seq(AuditRow)
             /\ \A k \in DOMAIN trail : k \in DOMAIN trail' /\ trail'[k] = trail[k]
  BY <1>1, <1>4, RowsOfConcat
<1> QED BY <1>2, <1>3, <1>4

(* What is counted by the rows of the trail, or of the approvals, only     *)
(* grows.                                                                  *)
LEMMA SetGrows ==
  ASSUME NEW S, NEW T, IsFiniteSet(T), S \subseteq T
  PROVE  Cardinality(T) >= Cardinality(S)
BY FS_Subset, FS_CardinalityType

LEMMA StepCounters ==
  ASSUME Life, Accounted, [AuditedNext]_auditedVars
  PROVE  /\ Count(Started') >= Count(Started)
         /\ Count((CompletedBy \ {"reject", "cancel"} # {})') >=
              Count(CompletedBy \ {"reject", "cancel"} # {})
         /\ Count((RejectedEvent \/ "reject" \in CompletedBy)') >=
              Count(RejectedEvent \/ "reject" \in CompletedBy)
         /\ Count(("cancel" \in CompletedBy)') >= Count("cancel" \in CompletedBy)
         /\ Count((Escalated # <<>>)') >= Count(Escalated # <<>>)
         /\ Len(Escalated') >= Len(Escalated)
         /\ Len(Escalated) \in Nat /\ Len(Escalated') \in Nat
<1>1. /\ trail \in Seq(AuditRow) /\ trail' \in Seq(AuditRow)
      /\ \A k \in DOMAIN trail : k \in DOMAIN trail' /\ trail'[k] = trail[k]
  BY TrailGrows DEF Accounted, AuditTypes
<1>2. Started => Started'
  BY StartKept, EngineStep DEF Accounted
<1>3. CompletedBy \subseteq CompletedBy'
  BY <1>1 DEF CompletedBy
<1>4. RejectedEvent => RejectedEvent'
  BY <1>1 DEF RejectedEvent, HasRow
<1> DEFINE S == {k \in DOMAIN trail : trail[k].type \in {"approval_escalated"}}
           T == {k \in DOMAIN trail' : trail'[k].type \in {"approval_escalated"}}
<1>5. S \subseteq T
  BY <1>1
<1>6. Len(Escalated) = Cardinality(S) /\ (Escalated # <<>> <=> S # {})
      /\ IsFiniteSet(S) /\ Cardinality(S) \in Nat
  BY <1>1, TakenRows, Zenon DEF Escalated, RowsOf
<1>7. Len(Escalated') = Cardinality(T) /\ (Escalated' # <<>> <=> T # {})
      /\ IsFiniteSet(T) /\ Cardinality(T) \in Nat
  BY <1>1, TakenRows, Zenon DEF Escalated, RowsOf
<1> HIDE DEF S, T
<1> QED BY <1>2, <1>3, <1>4, <1>5, <1>6, <1>7, SetGrows DEF Count

(* Requests are never withdrawn, and a decided one stays as it is.         *)
LEMMA StepRequests ==
  ASSUME TypeOK, [Next]_vars
  PROVE  /\ Scope(AnyState) \subseteq Scope(AnyState)' /\ IsFiniteSet(Scope(AnyState)')
         /\ \A status \in {"APPROVED", "REJECTED", "CANCELLED"} :
              /\ InStatus(Scope(AnyState), status) \subseteq InStatus(Scope(AnyState), status)'
              /\ IsFiniteSet(InStatus(Scope(AnyState), status)')
<1>1. /\ \A i \in DOMAIN approvals :
           /\ i \in DOMAIN approvals'
           /\ approvals[i].status # "PENDING" => approvals'[i] = approvals[i]
  BY StepFinal
<1>2. IsFiniteSet(DOMAIN approvals')
  <2>1. approvals' \in Seq(Approval)
    BY NextType DEF TypeOK
  <2>2. DOMAIN approvals' = 1..Len(approvals') /\ Len(approvals') \in Nat
    BY <2>1
  <2>3. IsFiniteSet(1..Len(approvals'))
    BY <2>2, FS_Interval
  <2> QED BY <2>2, <2>3
<1>3. Scope(AnyState) = DOMAIN approvals /\ Scope(AnyState)' = DOMAIN approvals'
  BY DEF Scope
<1>4. ASSUME NEW status \in {"APPROVED", "REJECTED", "CANCELLED"}
      PROVE  /\ InStatus(Scope(AnyState), status) \subseteq InStatus(Scope(AnyState), status)'
             /\ IsFiniteSet(InStatus(Scope(AnyState), status)')
  <2>1. /\ InStatus(Scope(AnyState), status)
             = {i \in DOMAIN approvals : approvals[i].status = status}
        /\ InStatus(Scope(AnyState), status)'
             = {i \in DOMAIN approvals' : approvals'[i].status = status}
    BY <1>3 DEF InStatus
  <2>2. status # "PENDING"
    OBVIOUS
  <2>3. InStatus(Scope(AnyState), status)' \subseteq DOMAIN approvals'
    BY <2>1
  <2> QED BY <1>1, <1>2, <2>1, <2>2, <2>3, FS_Subset
<1> QED BY <1>1, <1>2, <1>3, <1>4

LEMMA StepApprovalCounters ==
  ASSUME TypeOK, [Next]_vars,
         Len(Escalated') >= Len(Escalated), Len(Escalated) \in Nat, Len(Escalated') \in Nat,
         NEW p, p = ApprovalMetrics(AnyState), NEW q, q = ApprovalMetrics(AnyState)'
  PROVE  \A name \in {"requested", "approved", "rejected", "cancelled", "escalated"} :
           q[name] >= p[name]
<1> DEFINE S == Scope(AnyState)
           T == Scope(AnyState)'
           s(status) == InStatus(Scope(AnyState), status)
           t(status) == InStatus(Scope(AnyState), status)'
<1>1. /\ S \subseteq T /\ IsFiniteSet(T)
      /\ \A status \in {"APPROVED", "REJECTED", "CANCELLED"} :
           s(status) \subseteq t(status) /\ IsFiniteSet(t(status))
  BY StepRequests
<1>2. /\ p.requested = Cardinality(S)
      /\ p.approved = Cardinality(s("APPROVED"))
      /\ p.rejected = Cardinality(s("REJECTED"))
      /\ p.cancelled = Cardinality(s("CANCELLED"))
      /\ p.escalated = IF S = {} THEN 0 ELSE Len(Escalated)
  BY DEF ApprovalMetrics
<1>3. /\ q.requested = Cardinality(T)
      /\ q.approved = Cardinality(t("APPROVED"))
      /\ q.rejected = Cardinality(t("REJECTED"))
      /\ q.cancelled = Cardinality(t("CANCELLED"))
      /\ q.escalated = IF T = {} THEN 0 ELSE Len(Escalated')
  BY DEF ApprovalMetrics
<1> HIDE DEF S, T, s, t
<1>4. /\ Cardinality(T) >= Cardinality(S)
      /\ Cardinality(t("APPROVED")) >= Cardinality(s("APPROVED"))
      /\ Cardinality(t("REJECTED")) >= Cardinality(s("REJECTED"))
      /\ Cardinality(t("CANCELLED")) >= Cardinality(s("CANCELLED"))
  BY <1>1, SetGrows
<1> QED BY <1>1, <1>2, <1>3, <1>4

LEMMA StepExecutionCounters ==
  ASSUME Life, Accounted, [AuditedNext]_auditedVars,
         (completed_at # Never => CompletedBy # {})',
         NEW a, a = ExecutionMetrics, NEW b, b = ExecutionMetrics'
  PROVE  \A name \in {"started", "completed", "rejected", "failed", "cancelled",
                      "escalated"} : b[name] >= a[name]
<1>1. /\ Count(Started') >= Count(Started)
      /\ Count((CompletedBy \ {"reject", "cancel"} # {})') >=
           Count(CompletedBy \ {"reject", "cancel"} # {})
      /\ Count((RejectedEvent \/ "reject" \in CompletedBy)') >=
           Count(RejectedEvent \/ "reject" \in CompletedBy)
      /\ Count(("cancel" \in CompletedBy)') >= Count("cancel" \in CompletedBy)
      /\ Count((Escalated # <<>>)') >= Count(Escalated # <<>>)
  BY StepCounters
<1>2. /\ a.started = Count(Started)
      /\ a.completed = Count(CompletedBy \ {"reject", "cancel"} # {})
      /\ a.rejected = Count(RejectedEvent \/ "reject" \in CompletedBy)
      /\ a.cancelled = Count("cancel" \in CompletedBy)
      /\ a.escalated = Count(Escalated # <<>>)
      /\ a.failed = Count(completed_at # Never /\ CompletedBy = {} /\ ~RejectedEvent)
  BY DEF ExecutionMetrics
<1>3. /\ b.started = Count(Started')
      /\ b.completed = Count((CompletedBy \ {"reject", "cancel"} # {})')
      /\ b.rejected = Count((RejectedEvent \/ "reject" \in CompletedBy)')
      /\ b.cancelled = Count(("cancel" \in CompletedBy)')
      /\ b.escalated = Count((Escalated # <<>>)')
      /\ b.failed = Count((completed_at # Never /\ CompletedBy = {} /\ ~RejectedEvent)')
  BY DEF ExecutionMetrics
<1>4. a.failed = 0 /\ b.failed = 0
  <2>1. completed_at # Never => CompletedBy # {}
    BY Classified
  <2> QED BY <1>2, <1>3, <2>1 DEF Count
<1> QED BY <1>1, <1>2, <1>3, <1>4

(* What is exposed as a counter never falls.                               *)
THEOREM CountersAlwaysGrow == AuditedSpec => CountersNeverFall
<1> DEFINE Known == completed_at # Never => CompletedBy # {}
           Grows ==
             \A before \in {Exposition}, after \in {Exposition'} :
               /\ \A name \in {"started", "completed", "rejected", "failed", "cancelled",
                              "escalated"} :
                    after.executions[name] >= before.executions[name]
               /\ \A name \in {"requested", "approved", "rejected", "cancelled",
                              "escalated"} :
                    after.approval_requests[name] >= before.approval_requests[name]
<1>1. Life /\ Accounted => Known
  BY Classified
<1>2. ASSUME Life, Accounted, Known', [AuditedNext]_auditedVars
      PROVE  Grows
  <2>1. \A name \in {"started", "completed", "rejected", "failed", "cancelled",
                     "escalated"} : ExecutionMetrics'[name] >= ExecutionMetrics[name]
    BY <1>2, StepExecutionCounters
  <2>2. TypeOK /\ [Next]_vars
    BY <1>2, EngineStep DEF Life
  <2>3. /\ Len(Escalated') >= Len(Escalated) /\ Len(Escalated) \in Nat
        /\ Len(Escalated') \in Nat
    BY <1>2, StepCounters
  <2>4. \A name \in {"requested", "approved", "rejected", "cancelled", "escalated"} :
          ApprovalMetrics(AnyState)'[name] >= ApprovalMetrics(AnyState)[name]
    BY <2>2, <2>3, StepApprovalCounters
  <2> DEFINE a == ExecutionMetrics
             b == ExecutionMetrics'
             p == ApprovalMetrics(AnyState)
             q == ApprovalMetrics(AnyState)'
  <2>5. /\ Exposition.executions = a /\ Exposition'.executions = b
        /\ Exposition.approval_requests = p /\ Exposition'.approval_requests = q
    BY DEF Exposition
  <2> HIDE DEF a, b, p, q
  <2> DEFINE X == Exposition
             Y == Exposition'
  <2>6. /\ X.executions = a /\ Y.executions = b
        /\ X.approval_requests = p /\ Y.approval_requests = q
    BY <2>5
  <2>7. /\ \A name \in {"started", "completed", "rejected", "failed", "cancelled",
                        "escalated"} : b[name] >= a[name]
        /\ \A name \in {"requested", "approved", "rejected", "cancelled", "escalated"} :
             q[name] >= p[name]
    BY <2>1, <2>4 DEF a, b, p, q
  <2> HIDE DEF X, Y
  <2>8. \A before \in {X}, after \in {Y} :
          /\ \A name \in {"started", "completed", "rejected", "failed", "cancelled",
                         "escalated"} :
               after.executions[name] >= before.executions[name]
          /\ \A name \in {"requested", "approved", "rejected", "cancelled",
                         "escalated"} :
               after.approval_requests[name] >= before.approval_requests[name]
    BY <2>6, <2>7
  <2> QED BY <2>8 DEF X, Y
<1> HIDE DEF Known
<1>3. Life /\ Accounted /\ (Life /\ Accounted)' /\ [AuditedNext]_auditedVars => [Grows]_auditedVars
  <2>1. (Life /\ Accounted)' => Known'
    BY <1>1, PTL
  <2> QED BY <1>2, <2>1
<1> QED BY <1>3, AlwaysAccounted, PTL DEF AuditedSpec, CountersNeverFall

-----------------------------------------------------------------------------
(* Sums over finite sets.                                                  *)

(* What a sum counts: for each x of S, f[x] units.                         *)
Units(f, S) == {u \in S \X Nat : 1 <= u[2] /\ u[2] <= f[u[1]]}

(* The sums as the fold computes them, one element at a time.              *)
Folded(f, S, g) ==
  g = [s \in SUBSET S |->
         IF s = {} THEN 0
         ELSE f[CHOOSE x \in s : TRUE] + g[s \ {CHOOSE x \in s : TRUE}]]

(* There are n numbers up to n.                                            *)
LEMMA FirstNumbers ==
  ASSUME NEW n \in Nat
  PROVE  IsFiniteSet(1..n) /\ Cardinality(1..n) = n
<1>1. IsFiniteSet(1..n) /\ Cardinality(1..n) = IF 1 > n THEN 0 ELSE n - 1 + 1
  BY FS_Interval
<1>2. 1 > n => n = 0
  OBVIOUS
<1> QED BY <1>1, <1>2

(* Nothing is counted for no element, and f[x] more with x.                *)
LEMMA UnitsStep ==
  ASSUME NEW f, NEW S, NEW x \in S, f[x] \in Nat, IsFiniteSet(Units(f, S \ {x}))
  PROVE  /\ IsFiniteSet(Units(f, S))
         /\ Cardinality(Units(f, S)) = f[x] + Cardinality(Units(f, S \ {x}))
<1> DEFINE A == Units(f, S \ {x})
           I == 1..f[x]
           B == {x} \X I
<1>1. Units(f, S) = A \cup B /\ A \cap B = {}
  <2>1. \A u : u \in B <=> u \in {x} \X Nat /\ 1 <= u[2] /\ u[2] <= f[x]
    <3>1. \A k : k \in I <=> k \in Nat /\ 1 <= k /\ k <= f[x]
      OBVIOUS
    <3> HIDE DEF I
    <3> QED BY <3>1
  <2> HIDE DEF B
  <2>2. A \cap B = {}
    BY <2>1 DEF Units
  <2>3. \A u : u \in Units(f, S) <=> u \in A \/ u \in B
    BY <2>1 DEF Units
  <2> HIDE DEF A
  <2> QED BY <2>2, <2>3
<1>2. IsFiniteSet(I) /\ Cardinality(I) = f[x]
  BY FirstNumbers
<1>3. IsFiniteSet({x}) /\ Cardinality({x}) = 1
  BY FS_Singleton
<1> HIDE DEF I
<1>4. IsFiniteSet(B) /\ Cardinality(B) = 1 * f[x]
  BY <1>2, <1>3, FS_Product, SMTT(30)
<1> HIDE DEF B
<1>5. IsFiniteSet(A) /\ Cardinality(A) \in Nat
  BY FS_CardinalityType
<1> HIDE DEF A
<1>6. /\ IsFiniteSet(A \cup B)
      /\ Cardinality(A \cup B) = Cardinality(A) + Cardinality(B) - Cardinality(A \cap B)
  BY <1>4, <1>5, FS_Union
<1>7. Cardinality(A \cap B) = 0
  BY <1>1, FS_EmptySet
<1>8. Cardinality(A \cup B) = f[x] + Cardinality(A)
  BY <1>4, <1>5, <1>6, <1>7
<1> QED BY <1>1, <1>6, <1>8 DEF A

LEMMA UnitsOfNone ==
  ASSUME NEW f
  PROVE  IsFiniteSet(Units(f, {})) /\ Cardinality(Units(f, {})) = 0
<1>1. Units(f, {}) = {}
  BY DEF Units
<1> QED BY <1>1, FS_EmptySet

(* A sum counts the units, in whatever order it takes the elements.        *)
LEMMA SumCounts ==
  ASSUME NEW S, IsFiniteSet(S), NEW f, \A x \in S : f[x] \in Nat
  PROVE  /\ IsFiniteSet(Units(f, S)) /\ Cardinality(Units(f, S)) \in Nat
         /\ \A g : Folded(f, S, g) => g[S] = Cardinality(Units(f, S))
<1> DEFINE Right(s) ==
             /\ IsFiniteSet(Units(f, s))
             /\ \A g : Folded(f, S, g) => g[s] = Cardinality(Units(f, s))
           T == {n \in Nat : \A s \in SUBSET S :
                   IsFiniteSet(s) /\ Cardinality(s) = n => Right(s)}
<1>1. 0 \in T
  <2> SUFFICES ASSUME NEW s \in SUBSET S, IsFiniteSet(s), Cardinality(s) = 0
               PROVE  Right(s)
    OBVIOUS
  <2>1. s = {}
    BY FS_EmptySet
  <2>2. \A g : Folded(f, S, g) => g[{}] = 0
    BY DEF Folded
  <2> QED BY <2>1, <2>2, UnitsOfNone
<1>2. ASSUME NEW n \in Nat, n \in T
      PROVE  n + 1 \in T
  <2> SUFFICES ASSUME NEW s \in SUBSET S, IsFiniteSet(s), Cardinality(s) = n + 1
               PROVE  Right(s)
    OBVIOUS
  <2> DEFINE x == CHOOSE x \in s : TRUE
  <2>1. s # {}
    BY FS_EmptySet
  <2>2. x \in s
    BY <2>1
  <2>3. \A g : Folded(f, S, g) => g[s] = f[x] + g[s \ {x}]
    BY <2>1 DEF Folded
  <2> HIDE DEF x
  <2>4. IsFiniteSet(s \ {x}) /\ Cardinality(s \ {x}) = n
    <3>1. IsFiniteSet(s \ {x}) /\ Cardinality(s \ {x}) = Cardinality(s) - 1
      BY <2>2, FS_RemoveElement, Zenon
    <3> QED BY <3>1
  <2>5. Right(s \ {x})
    BY <1>2, <2>4
  <2>6. /\ IsFiniteSet(Units(f, s))
        /\ Cardinality(Units(f, s)) = f[x] + Cardinality(Units(f, s \ {x}))
    BY <2>2, <2>5, UnitsStep
  <2> QED BY <2>3, <2>5, <2>6
<1> HIDE DEF T
<1>3. Cardinality(S) \in T
  <2>1. \A n \in Nat : n \in T => n + 1 \in T
    BY <1>2
  <2> QED BY <1>1, <2>1, EveryNatural, FS_CardinalityType
<1>4. Right(S)
  BY <1>3 DEF T
<1> QED BY <1>4, FS_CardinalityType

(* The fold is defined: the numbers of units satisfy its equation.         *)
LEMMA SumExists ==
  ASSUME NEW S, IsFiniteSet(S), NEW f, \A x \in S : f[x] \in Nat
  PROVE  \E g : Folded(f, S, g)
<1> DEFINE g == [s \in SUBSET S |-> Cardinality(Units(f, s))]
           step(s) == IF s = {} THEN 0
                      ELSE f[CHOOSE x \in s : TRUE] + g[s \ {CHOOSE x \in s : TRUE}]
<1>1. ASSUME NEW s \in SUBSET S
      PROVE  g[s] = step(s)
  <2>1. CASE s = {}
    BY <2>1, UnitsOfNone
  <2>2. CASE s # {}
    <3> DEFINE x == CHOOSE x \in s : TRUE
    <3>1. x \in s
      BY <2>2
    <3>2. step(s) = f[x] + g[s \ {x}]
      BY <2>2
    <3> HIDE DEF x, step
    <3>3. IsFiniteSet(s \ {x}) /\ \A y \in s \ {x} : f[y] \in Nat
      BY FS_Subset
    <3>4. IsFiniteSet(Units(f, s \ {x}))
      BY <3>3, SumCounts
    <3>5. Cardinality(Units(f, s)) = f[x] + Cardinality(Units(f, s \ {x}))
      <4>1. f[x] \in Nat
        BY <3>1
      <4> QED BY <3>1, <3>4, <4>1, UnitsStep
    <3> QED BY <3>2, <3>5
  <2> QED BY <2>1, <2>2
<1> HIDE DEF step
<1>2. g = [s \in SUBSET S |-> step(s)]
  BY <1>1
<1> HIDE DEF g
<1>3. Folded(f, S, g)
  BY <1>2 DEF Folded, step
<1> QED BY <1>3

-----------------------------------------------------------------------------
(* What the escalation rows and the times of the trail stand for.          *)

(* Escalation rows and raised slots correspond, and are of the same call.  *)
EscalationsTold ==
  /\ DOMAIN stamps = DOMAIN approvals
  /\ \A k \in DOMAIN trail : trail[k].type = "approval_escalated" =>
       /\ trail[k].slot \in DOMAIN approvals /\ approvals[trail[k].slot].escalated
       /\ trail[k].at = stamps[trail[k].slot].created
  /\ \A i \in DOMAIN approvals :
       /\ stamps[i] \in Stamp
       /\ approvals[i].escalated =>
            \E k \in DOMAIN trail :
              /\ trail[k].type = "approval_escalated" /\ trail[k].slot = i
              /\ \A j \in DOMAIN trail :
                   trail[j].type = "approval_escalated" /\ trail[j].slot = i => j = k

LastMove(list, k) ==
  /\ k \in DOMAIN list /\ list[k].type = "transition_executed"
  /\ \A j \in DOMAIN list : j > k => list[j].type # "transition_executed"

(* The trail is in the order of its times, from the start to the present,  *)
(* and ends its moves within MaxLag of completion.                         *)
Clocked ==
  /\ IF Started THEN started_at \in Nat /\ started_at <= now ELSE trail = <<>>
  /\ \A k \in DOMAIN trail : started_at <= trail[k].at /\ trail[k].at <= now
  /\ \A j, k \in DOMAIN trail : j < k => trail[j].at <= trail[k].at
  /\ completed =>
       /\ completed_at \in Nat
       /\ \A k : LastMove(trail, k) =>
            completed_at <= trail[k].at /\ trail[k].at <= completed_at + MaxLag

(* The slots of a call, as its escalation rows tell them.                  *)
RaisesTold(rows) ==
  \/ Unraised /\ Without(rows, "approval_escalated")
  \/ /\ DOMAIN approvals' = DOMAIN approvals \cup {Len(approvals')}
     /\ Len(approvals') \notin DOMAIN approvals
     /\ approvals'[Len(approvals')].escalated
     /\ RaisesOne(rows, Len(approvals'))

(* CallTold with the calls taken together.                                 *)
LEMMA StepRecorded ==
  ASSUME Life, Accounted, [AuditedNext]_auditedVars
  PROVE  \/ /\ UNCHANGED <<definition, current, completed, approvals, path, delegations>>
            /\ UNCHANGED <<completed_at, trail, stamps>>
            /\ now' \in Nat /\ now' >= now
         \/ \E time \in Nat, rows \in Seq(AuditRow) :
              /\ Told(rows) /\ Record(rows, time) /\ AllAt(rows, time)
              /\ SlotsStay /\ RaisesTold(rows)
              /\ time >= now /\ time <= now + MaxLag
<1> DEFINE Recorded ==
             \E time \in Nat, rows \in Seq(AuditRow) :
               /\ Told(rows) /\ Record(rows, time) /\ AllAt(rows, time)
               /\ SlotsStay /\ RaisesTold(rows)
               /\ time >= now /\ time <= now + MaxLag
<1>1. ASSUME NEW time \in Nat, NEW rows \in Seq(AuditRow), Told(rows), Record(rows, time),
             Plain(rows), AllAt(rows, time), Unraised, time >= now, time <= now + MaxLag
      PROVE  Recorded
  <2>1. RaisesTold(rows) /\ SlotsStay
    BY <1>1 DEF Plain, RaisesTold, Unraised
  <2> QED BY <1>1, <2>1
<1>2. ASSUME NEW time \in Nat, NEW u \in Actors, NEW who \in Escalees, Escalate(u, who),
             Told(RaiseRows(time)), Record(RaiseRows(time), time),
             time >= now, time <= now + MaxLag
      PROVE  Recorded
  <2> DEFINE rows == RaiseRows(time)
  <2>1. RaisesOne(rows, Len(approvals')) /\ AllAt(rows, time)
    BY <1>2, RaiseRecorded
  <2>2. rows \in Seq(AuditRow) /\ Told(rows) /\ Record(rows, time)
    BY <1>2 DEF Told
  <2> HIDE DEF rows
  <2>3. /\ SlotsStay
        /\ DOMAIN approvals' = DOMAIN approvals \cup {Len(approvals')}
        /\ Len(approvals') \notin DOMAIN approvals
        /\ approvals'[Len(approvals')].escalated
    BY <1>2, EscalationRaises DEF Life
  <2>4. RaisesTold(rows)
    BY <2>1, <2>3 DEF RaisesTold
  <2> QED BY <1>2, <2>1, <2>2, <2>3, <2>4
<1>3. ASSUME NEW time \in Nat, NEW kind \in NoteKinds, Started, UNCHANGED vars,
             Noted(kind, time), time >= now, time <= now + MaxLag
      PROVE  Recorded
  <2>1. PICK rows : /\ Told(rows) /\ Record(rows, time) /\ AllAt(rows, time)
                    /\ Without(rows, "approval_escalated")
    BY <1>3, NoteRecorded DEF Life
  <2>2. Unraised /\ SlotsStay
    BY <1>3 DEF Unraised, SlotsStay, vars
  <2>3. rows \in Seq(AuditRow)
    BY <2>1 DEF Told
  <2> QED BY <1>3, <2>1, <2>2, <2>3 DEF RaisesTold
<1> HIDE DEF Recorded
<1>4. \/ /\ UNCHANGED <<definition, current, completed, approvals, path, delegations>>
         /\ UNCHANGED <<completed_at, trail, stamps>>
         /\ now' \in Nat /\ now' >= now
      \/ Recorded
  BY <1>1, <1>2, <1>3, CallTold
<1> QED BY <1>4 DEF Recorded

(* The execution is started once, and dated then.                          *)
LEMMA StartDated ==
  ASSUME Life, Accounted, [AuditedNext]_auditedVars
  PROVE  \/ Started /\ Started' /\ started_at' = started_at
         \/ ~Started /\ Started' /\ started_at' = now
         \/ ~Started /\ ~Started' /\ trail' = trail
<1>1. Started => Started'
  BY StartKept, EngineStep DEF Accounted
<1>2. ASSUME NEW u, Begin(u)
      PROVE  ~Started /\ Started' /\ started_at' = now
  <2>1. current' \in States
    BY <1>2, DefinitionsAssumption DEF Begin, Start, Workflow
  <2> QED BY <1>2, <2>1, NamesAssumption DEF Begin, Start, Started
<1>3. ASSUME NEW d \in DOMAIN delegations, NEW time, Withdraw(d, time)
      PROVE  Started
  <2>1. delegations # <<>>
    BY <1>3 DEF Life, TypeOK
  <2> QED BY <2>1 DEF Accounted, NothingForwarded
<1>4. CASE UNCHANGED <<vars, started_at, trail>>
  BY <1>1, <1>4 DEF Started, vars
<1>5. CASE AuditedNext
  <2>1. \/ Tick
        \/ \E value \in Data : EditObject(value)
             /\ UNCHANGED <<now, started_at, completed_at, trail, stamps, notes>>
        \/ \E u \in Actors : Begin(u)
        \/ Started /\ UNCHANGED started_at
    <3>1. ASSUME NEW time, NEW u, NEW action, Transit(u, action, time)
          PROVE  Started /\ UNCHANGED started_at
      <4>1. Started
        BY <3>1, Zenon DEF Transit, Execute
      <4>2. UNCHANGED started_at
        BY <3>1, Zenon DEF Transit
      <4> QED BY <4>1, <4>2
    <3>2. ASSUME NEW u, Approve(u) \/ Reject(u)
          PROVE  Started
      <4>1. ASSUME NEW action, NEW status, Decide(u, action, status)
            PROVE  Open
        BY <4>1, Zenon DEF Decide
      <4>2. Open
        BY <3>2, <4>1, Zenon DEF Approve, Reject
      <4> QED BY <4>2, Zenon DEF Open
    <3>3. ASSUME NEW type, NEW status, NEW time, Vote(type, status, time)
          PROVE  UNCHANGED started_at
      BY <3>3, Zenon DEF Vote
    <3>4. ASSUME NEW time, NEW granter, NEW grantee, NEW step,
                 Forward(granter, grantee, step, time)
          PROVE  Started /\ UNCHANGED started_at
      <4>1. Delegate(granter, grantee, step) /\ UNCHANGED started_at
        BY <3>4, Zenon DEF Forward
      <4>2. Open
        BY <4>1, Zenon DEF Delegate
      <4> QED BY <4>1, <4>2, Zenon DEF Open
    <3>5. ASSUME NEW time, NEW d \in DOMAIN delegations, Withdraw(d, time)
          PROVE  Started /\ UNCHANGED started_at
      BY <1>3, <3>5 DEF Withdraw
    <3>6. ASSUME NEW time, NEW u, NEW who, Raise(u, who, time)
          PROVE  Started /\ UNCHANGED started_at
      <4>1. Escalate(u, who) /\ UNCHANGED started_at
        BY <3>6, Zenon DEF Raise
      <4>2. Open
        BY <4>1, Zenon DEF Escalate
      <4> QED BY <4>1, <4>2, Zenon DEF Open
    <3>7. ASSUME NEW time, NEW upload, RecordStart(time) \/ Comment(time) \/ Attach(upload, time)
          PROVE  Started /\ UNCHANGED started_at
      BY <3>7 DEF RecordStart, Comment, Attach
    <3> QED BY <1>5, <3>1, <3>2, <3>3, <3>4, <3>5, <3>6, <3>7 DEF AuditedNext
  <2>2. CASE Tick
    BY <1>4, <2>2 DEF Tick
  <2>3. CASE \E value \in Data : EditObject(value)
               /\ UNCHANGED <<now, started_at, completed_at, trail, stamps, notes>>
    BY <1>1, <2>3 DEF EditObject, Started
  <2> QED BY <1>1, <1>2, <2>1, <2>2, <2>3
<1> QED BY <1>4, <1>5 DEF auditedVars

LEMMA StepClocked ==
  ASSUME Life, Accounted, Clocked, [AuditedNext]_auditedVars
  PROVE  Clocked'
<1>1. now \in Nat /\ MaxLag \in Nat /\ trail \in Seq(AuditRow)
  BY ClockAssumption DEF Accounted, AuditTypes
<1>0. \A row \in AuditRow : row.at \in Nat
  BY DEF AuditRow
<1>2. CASE /\ UNCHANGED <<definition, current, completed, approvals, path, delegations>>
           /\ UNCHANGED <<completed_at, trail, stamps>>
           /\ now' \in Nat /\ now' >= now
  <2>1. \A k \in DOMAIN trail : trail[k].at \in Nat
    BY <1>0, <1>1
  <2>2. \/ Started /\ Started' /\ started_at' = started_at
        \/ ~Started /\ ~Started'
    <3>1. Started' = Started
      BY <1>2 DEF Started
    <3> QED BY <3>1, StartDated
  <2>3. CASE Started
    BY <1>1, <1>2, <2>1, <2>2, <2>3 DEF Clocked, LastMove
  <2>4. CASE ~Started
    <3>1. trail = <<>>
      BY <2>4 DEF Clocked
    <3> QED BY <1>2, <2>2, <2>4, <3>1 DEF Clocked, LastMove
  <2> QED BY <2>3, <2>4
<1>3. ASSUME NEW time \in Nat, NEW rows \in Seq(AuditRow),
             Told(rows), Record(rows, time), AllAt(rows, time),
             time >= now, time <= now + MaxLag
      PROVE  Clocked'
  <2>1. trail' = trail \o rows /\ now' = time
    BY <1>3 DEF Record
  <2> DEFINE n == Len(trail)
             both == trail'
  <2>2. /\ both \in Seq(AuditRow)
        /\ \A k \in DOMAIN trail : k \in DOMAIN both /\ both[k] = trail[k]
        /\ \A k \in DOMAIN rows : n + k \in DOMAIN both /\ both[n + k] = rows[k]
        /\ \A k \in DOMAIN both :
             \/ k \in DOMAIN trail /\ both[k] = trail[k]
             \/ k - n \in DOMAIN rows /\ both[k] = rows[k - n]
        /\ \A j \in DOMAIN trail, k \in DOMAIN rows : j < n + k
        /\ n \in Nat /\ DOMAIN trail \subseteq Nat /\ DOMAIN rows \subseteq Nat
    BY <1>1, <2>1, RowsOfConcat, SMTT(30)
  <2>3. /\ \A k \in DOMAIN both : both[k].at \in Nat /\ k \in Nat
        /\ \A k \in DOMAIN trail : trail[k].at \in Nat
    <3>1. \A k \in DOMAIN both : both[k] \in AuditRow /\ k \in Nat
      BY <2>2
    <3>2. \A k \in DOMAIN trail : trail[k] \in AuditRow
      BY <1>1
    <3> QED BY <1>0, <3>1, <3>2
  <2>4. /\ \A k \in DOMAIN trail : trail[k].at <= now
        /\ \A j, k \in DOMAIN trail : j < k => trail[j].at <= trail[k].at
    BY DEF Clocked
  <2>5. \A k \in DOMAIN rows : rows[k].at = time
    BY <1>3 DEF AllAt
  <2> HIDE DEF both, n
  <2>6. \A j, k \in DOMAIN both : j < k => both[j].at <= both[k].at
    <3> SUFFICES ASSUME NEW j \in DOMAIN both, NEW k \in DOMAIN both, j < k
                 PROVE  both[j].at <= both[k].at
      OBVIOUS
    <3>1. CASE k - n \in DOMAIN rows /\ both[k] = rows[k - n]
      <4>1. both[k].at = time
        BY <2>5, <3>1
      <4>2. both[j].at <= time
        <5>1. CASE j \in DOMAIN trail /\ both[j] = trail[j]
          BY <1>1, <1>3, <2>3, <2>4, <5>1
        <5>2. CASE j - n \in DOMAIN rows /\ both[j] = rows[j - n]
          BY <2>5, <5>2
        <5> QED BY <2>2, <5>1, <5>2
      <4> QED BY <4>1, <4>2
    <3>2. CASE k \in DOMAIN trail /\ both[k] = trail[k]
      <4>1. j \notin DOMAIN trail => j - n \in DOMAIN rows /\ j = n + (j - n)
        BY <2>2, <2>3
      <4>2. j \in DOMAIN trail
        BY <2>2, <2>3, <3>2, <4>1
      <4> QED BY <2>2, <2>4, <3>2, <4>2
    <3> QED BY <2>2, <3>1, <3>2
  <2>7. ASSUME NEW k \in DOMAIN both
        PROVE  both[k].at <= now'
    <3>1. CASE k \in DOMAIN trail /\ both[k] = trail[k]
      BY <1>1, <1>3, <2>1, <2>3, <2>4, <3>1
    <3>2. CASE k - n \in DOMAIN rows /\ both[k] = rows[k - n]
      BY <1>3, <2>1, <2>5, <3>2
    <3> QED BY <2>2, <3>1, <3>2
  <2>8. /\ Started' => started_at' \in Nat /\ started_at' <= now'
        /\ Started' => \A k \in DOMAIN both : started_at' <= both[k].at
        /\ ~Started' => both = <<>>
    <3>1. CASE Started /\ Started' /\ started_at' = started_at
      <4>1. started_at \in Nat /\ started_at <= now
            /\ \A k \in DOMAIN trail : started_at <= trail[k].at
        BY <3>1 DEF Clocked
      <4>2. started_at <= time
        BY <1>1, <1>3, <4>1
      <4>3. ASSUME NEW k \in DOMAIN both
            PROVE  started_at <= both[k].at
        <5>1. CASE k \in DOMAIN trail /\ both[k] = trail[k]
          BY <4>1, <5>1
        <5>2. CASE k - n \in DOMAIN rows /\ both[k] = rows[k - n]
          BY <2>5, <4>2, <5>2
        <5> QED BY <2>2, <5>1, <5>2
      <4> QED BY <2>1, <3>1, <4>1, <4>2, <4>3
    <3>2. CASE ~Started /\ Started' /\ started_at' = now
      <4>1. trail = <<>>
        BY <3>2 DEF Clocked
      <4>2. \A k \in DOMAIN both : both[k].at = time
        BY <2>2, <2>5, <4>1
      <4> QED BY <1>1, <1>3, <2>1, <3>2, <4>2
    <3>3. CASE ~Started /\ ~Started' /\ trail' = trail
      <4>1. trail = <<>>
        BY <3>3 DEF Clocked
      <4> QED BY <3>3, <4>1 DEF both
    <3> QED BY <3>1, <3>2, <3>3, StartDated
  <2>9. \A k : LastMove(both, k) =>
          \/ both[k].at = time /\ k \notin DOMAIN trail
          \/ LastMove(trail, k) /\ both[k] = trail[k]
    <3> SUFFICES ASSUME NEW k \in DOMAIN both, LastMove(both, k)
                 PROVE  \/ both[k].at = time /\ k \notin DOMAIN trail
                        \/ LastMove(trail, k) /\ both[k] = trail[k]
      BY DEF LastMove
    <3>1. CASE k \in DOMAIN trail
      BY <2>2, <3>1 DEF LastMove
    <3>2. CASE k \notin DOMAIN trail
      BY <2>2, <2>5, <3>2
    <3> QED BY <3>1, <3>2
  <2>10. completed' => /\ completed_at' \in Nat
                       /\ \A k : LastMove(both, k) =>
                            /\ completed_at' <= both[k].at
                            /\ both[k].at <= completed_at' + MaxLag
    <3> SUFFICES ASSUME completed'
                 PROVE  /\ completed_at' \in Nat
                        /\ \A k : LastMove(both, k) =>
                             /\ completed_at' <= both[k].at
                             /\ both[k].at <= completed_at' + MaxLag
      OBVIOUS
    <3>1. CASE completed
      <4>1. /\ completed_at' = completed_at /\ completed_at \in Nat
            /\ \A k : LastMove(trail, k) =>
                 completed_at <= trail[k].at /\ trail[k].at <= completed_at + MaxLag
        BY <1>3, <3>1 DEF Clocked, Record
      <4>2. Without(rows, "transition_executed")
        BY <1>3, <3>1 DEF Told
      <4>3. \A k : LastMove(both, k) => k \in DOMAIN trail
        BY <2>2, <4>2 DEF LastMove, Without
      <4> QED BY <2>9, <4>1, <4>3
    <3>2. CASE ~completed
      <4>1. completed_at' = now
        BY <1>3, <3>2 DEF Record
      <4>2. Leads(rows, current')
        BY <1>3, <3>2 DEF Told
      <4>3. PICK m \in DOMAIN rows : rows[m].type = "transition_executed"
        BY <4>2 DEF Leads
      <4>4. \A k : LastMove(both, k) => k \notin DOMAIN trail
        <5>1. n + m \in DOMAIN both /\ both[n + m].type = "transition_executed"
          BY <2>2, <4>3
        <5>2. \A j \in DOMAIN trail : j < n + m
          BY <2>2, <4>3
        <5> QED BY <2>2, <5>1, <5>2 DEF LastMove
      <4>5. \A k : LastMove(both, k) => both[k].at = time
        BY <2>9, <4>4 DEF LastMove
      <4> QED BY <1>1, <1>3, <4>1, <4>5
    <3> QED BY <3>1, <3>2
  <2> QED BY <2>6, <2>7, <2>8, <2>10 DEF both, Clocked
<1> QED BY <1>2, <1>3, StepRecorded

LEMMA StepEscalations ==
  ASSUME Life, Accounted, EscalationsTold, [AuditedNext]_auditedVars
  PROVE  EscalationsTold'
<1>1. now \in Nat /\ trail \in Seq(AuditRow) /\ TypeOK
  BY DEF Accounted, AuditTypes, Life
<1>2. CASE UNCHANGED <<approvals, trail, stamps>>
  BY <1>2 DEF EscalationsTold
<1>3. ASSUME NEW time \in Nat, NEW rows \in Seq(AuditRow),
             Record(rows, time), AllAt(rows, time), SlotsStay, RaisesTold(rows)
      PROVE  EscalationsTold'
  <2>1. trail' = trail \o rows /\ stamps' = Stamped(time)
    BY <1>3 DEF Record
  <2> DEFINE n == Len(trail)
             both == trail'
  <2>2. /\ \A k \in DOMAIN trail : k \in DOMAIN both /\ both[k] = trail[k]
        /\ \A k \in DOMAIN rows : n + k \in DOMAIN both /\ both[n + k] = rows[k]
        /\ \A k \in DOMAIN both :
             \/ k \in DOMAIN trail /\ both[k] = trail[k]
             \/ k - n \in DOMAIN rows /\ both[k] = rows[k - n] /\ k \in Nat
        /\ n \in Nat /\ DOMAIN trail \subseteq Nat /\ DOMAIN rows \subseteq Nat
    BY <1>1, <2>1, RowsOfConcat, SMTT(30)
  <2> HIDE DEF both, n
  <2>3. /\ DOMAIN stamps' = DOMAIN approvals'
        /\ \A i \in DOMAIN approvals :
             /\ stamps'[i] \in Stamp /\ stamps'[i].created = stamps[i].created
        /\ \A i \in DOMAIN approvals' :
             i \notin DOMAIN approvals =>
               stamps'[i] \in Stamp /\ stamps'[i].created = time
    <3>1. DOMAIN stamps' = DOMAIN approvals'
      BY <2>1 DEF Stamped
    <3>2. ASSUME NEW i \in DOMAIN approvals
          PROVE  stamps'[i] \in Stamp /\ stamps'[i].created = stamps[i].created
      <4>1. i \in DOMAIN approvals' /\ stamps[i] \in Stamp
        BY <1>3 DEF SlotsStay, EscalationsTold
      <4>2. stamps'[i] = [stamps[i] EXCEPT !.updated = now] \/ stamps'[i] = stamps[i]
        BY <2>1, <4>1 DEF Stamped
      <4> QED BY <1>1, <4>1, <4>2 DEF Stamp
    <3>3. ASSUME NEW i \in DOMAIN approvals', i \notin DOMAIN approvals
          PROVE  stamps'[i] \in Stamp /\ stamps'[i].created = time
      <4> DEFINE due == DueAt(approvals'[i], time)
      <4>1. stamps'[i] = [created |-> time, updated |-> time, due |-> due]
        BY <2>1, <3>3 DEF Stamped
      <4>2. due \in Times
        <5>1. approvals'[i].step \in States
          <6>1. approvals' \in Seq(Approval)
            BY <1>1, EngineStep, NextType DEF TypeOK
          <6>2. approvals'[i] \in Approval
            BY <6>1
          <6> QED BY <6>2 DEF Approval
        <5>2. Sla[approvals'[i].step] \in Nat \cup {Never}
          BY <5>1, ClockAssumption
        <5> QED BY <5>2 DEF DueAt, Times
      <4> HIDE DEF due
      <4> QED BY <4>1, <4>2 DEF Stamp
    <3> QED BY <3>1, <3>2, <3>3
  <2>4. /\ \A k \in DOMAIN trail : trail[k].type = "approval_escalated" =>
             /\ trail[k].slot \in DOMAIN approvals /\ approvals[trail[k].slot].escalated
             /\ trail[k].at = stamps[trail[k].slot].created
        /\ \A i \in DOMAIN approvals : approvals[i].escalated =>
             \E k \in DOMAIN trail :
               /\ trail[k].type = "approval_escalated" /\ trail[k].slot = i
               /\ \A j \in DOMAIN trail :
                    trail[j].type = "approval_escalated" /\ trail[j].slot = i => j = k
    BY DEF EscalationsTold
  <2>5. \A i \in DOMAIN approvals :
          i \in DOMAIN approvals' /\ approvals'[i].escalated = approvals[i].escalated
    BY <1>3 DEF SlotsStay
  <2>6. \A k \in DOMAIN rows : rows[k].at = time
    BY <1>3 DEF AllAt
  <2>7. \A k \in DOMAIN rows : rows[k].type = "approval_escalated" =>
          /\ rows[k].slot \in DOMAIN approvals' \ DOMAIN approvals
          /\ approvals'[rows[k].slot].escalated
          /\ \A j \in DOMAIN rows : rows[j].type = "approval_escalated" => j = k
    <3>1. CASE Without(rows, "approval_escalated")
      BY <3>1, Zenon DEF Without
    <3>2. CASE /\ DOMAIN approvals' = DOMAIN approvals \cup {Len(approvals')}
               /\ Len(approvals') \notin DOMAIN approvals
               /\ approvals'[Len(approvals')].escalated
               /\ RaisesOne(rows, Len(approvals'))
      BY <3>2, Zenon DEF RaisesOne
    <3>3. \/ Without(rows, "approval_escalated")
          \/ /\ DOMAIN approvals' = DOMAIN approvals \cup {Len(approvals')}
             /\ Len(approvals') \notin DOMAIN approvals
             /\ approvals'[Len(approvals')].escalated
             /\ RaisesOne(rows, Len(approvals'))
      BY <1>3, Zenon DEF RaisesTold
    <3> QED BY <3>1, <3>2, <3>3, Zenon
  <2>8. \A i \in DOMAIN approvals' \ DOMAIN approvals : approvals'[i].escalated =>
          \E k \in DOMAIN rows : rows[k].type = "approval_escalated" /\ rows[k].slot = i
    <3>1. CASE Unraised
      BY <3>1 DEF Unraised
    <3>2. CASE /\ DOMAIN approvals' = DOMAIN approvals \cup {Len(approvals')}
               /\ RaisesOne(rows, Len(approvals'))
      BY <3>2, Zenon DEF RaisesOne
    <3>3. \/ Unraised
          \/ /\ DOMAIN approvals' = DOMAIN approvals \cup {Len(approvals')}
             /\ RaisesOne(rows, Len(approvals'))
      BY <1>3, Zenon DEF RaisesTold
    <3> QED BY <3>1, <3>2, <3>3, Zenon
  <2>9. ASSUME NEW k \in DOMAIN both, both[k].type = "approval_escalated"
        PROVE  /\ both[k].slot \in DOMAIN approvals' /\ approvals'[both[k].slot].escalated
               /\ both[k].at = stamps'[both[k].slot].created
    <3>1. CASE k \in DOMAIN trail /\ both[k] = trail[k]
      BY <2>3, <2>4, <2>5, <2>9, <3>1
    <3>2. CASE k - n \in DOMAIN rows /\ both[k] = rows[k - n]
      BY <2>3, <2>6, <2>7, <2>9, <3>2
    <3> QED BY <2>2, <3>1, <3>2
  <2>10. ASSUME NEW i \in DOMAIN approvals', approvals'[i].escalated
         PROVE  \E k \in DOMAIN both :
                  /\ both[k].type = "approval_escalated" /\ both[k].slot = i
                  /\ \A j \in DOMAIN both :
                       both[j].type = "approval_escalated" /\ both[j].slot = i => j = k
    <3>1. CASE i \in DOMAIN approvals
      <4>1. PICK k \in DOMAIN trail :
              /\ trail[k].type = "approval_escalated" /\ trail[k].slot = i
              /\ \A j \in DOMAIN trail :
                   trail[j].type = "approval_escalated" /\ trail[j].slot = i => j = k
        BY <2>4, <2>5, <2>10, <3>1
      <4>2. ASSUME NEW j \in DOMAIN both, both[j].type = "approval_escalated",
                   both[j].slot = i
            PROVE  j = k
        <5>1. j \in DOMAIN trail /\ both[j] = trail[j]
          BY <2>2, <2>7, <3>1, <4>2
        <5> QED BY <4>1, <4>2, <5>1
      <4> QED BY <2>2, <4>1, <4>2
    <3>2. CASE i \notin DOMAIN approvals
      <4>1. PICK m \in DOMAIN rows : rows[m].type = "approval_escalated" /\ rows[m].slot = i
        BY <2>8, <2>10, <3>2
      <4>2. ASSUME NEW j \in DOMAIN both, both[j].type = "approval_escalated",
                   both[j].slot = i
            PROVE  j = n + m
        <5>1. j - n \in DOMAIN rows /\ both[j] = rows[j - n] /\ j \in Nat
          BY <2>2, <2>4, <3>2, <4>2
        <5>2. j - n = m
          BY <2>7, <4>1, <4>2, <5>1
        <5> QED BY <2>2, <5>1, <5>2
      <4> QED BY <2>2, <4>1, <4>2
    <3> QED BY <3>1, <3>2
  <2>11. \A i \in DOMAIN approvals' : stamps'[i] \in Stamp
    BY <2>3
  <2> QED BY <2>3, <2>9, <2>10, <2>11 DEF both, EscalationsTold
<1> QED BY <1>2, <1>3, StepRecorded

LEMMA InitReckoned == AuditedInit => Clocked /\ EscalationsTold
<1> SUFFICES ASSUME AuditedInit PROVE Clocked /\ EscalationsTold
  OBVIOUS
<1>1. /\ trail = <<>> /\ now = 0 /\ stamps = <<>> /\ approvals = <<>>
      /\ current = Absent /\ ~completed
  BY DEF AuditedInit, Init
<1> QED BY <1>1 DEF Clocked, EscalationsTold, Started

(* The inductive invariant of the reports: what the trail tells, with its  *)
(* times and its escalations.                                              *)
LEMMA AlwaysReckoned == AuditedSpec => [](Life /\ Accounted /\ Clocked /\ EscalationsTold)
<1>1. /\ Life /\ Accounted /\ Clocked /\ EscalationsTold /\ [AuditedNext]_auditedVars
      => Clocked' /\ EscalationsTold'
  BY StepClocked, StepEscalations
<1> QED BY <1>1, AlwaysAccounted, InitReckoned, PTL DEF AuditedSpec

-----------------------------------------------------------------------------
(* Counting by classes.                                                    *)

(* A function that maps one finite set one-to-one onto another.            *)
LEMMA SameSize ==
  ASSUME NEW S, NEW T, IsFiniteSet(S), NEW b \in [S -> T],
         \A x, y \in S : b[x] = b[y] => x = y, \A z \in T : \E x \in S : b[x] = z
  PROVE  IsFiniteSet(T) /\ Cardinality(T) = Cardinality(S)
<1>1. b \in Bijection(S, T)
  BY DEF Bijection, Injection, Surjection, IsInjective
<1>2. ExistsBijection(S, T)
  BY <1>1 DEF ExistsBijection
<1> QED BY <1>2, FS_Bijection

ClassOf(c, s) == {i \in DOMAIN c : c[i] = s}

(* The classes of a finite set of numbers, counted one by one, make up all *)
(* of it.                                                                  *)
LEMMA ClassesCount ==
  ASSUME NEW D \in SUBSET Nat, IsFiniteSet(D), NEW K, NEW c \in Surjection(D, K),
         NEW f, \A s \in K : f[s] = Cardinality(ClassOf(c, s))
  PROVE  /\ IsFiniteSet(K) /\ \A s \in K : f[s] \in Nat
         /\ Cardinality(Units(f, K)) = Cardinality(D)
<1> DEFINE class(s) == {i \in D : c[i] = s}
           units == Units(f, K)
           b == [u \in units |-> Ascending(class(u[1]))[u[2]]]
<1>1. IsFiniteSet(K)
  BY FS_Surjection
<1>2. \A s \in K : f[s] = Cardinality(class(s))
  BY DEF ClassOf, Surjection
<1>3. ASSUME NEW s \in K
      PROVE  /\ class(s) \in SUBSET D /\ IsFiniteSet(class(s))
             /\ f[s] \in Nat
             /\ Ascending(class(s)) \in [1..f[s] -> class(s)]
             /\ \A k, l \in 1..f[s] :
                  k < l => Ascending(class(s))[k] < Ascending(class(s))[l]
             /\ \A i \in class(s) : \E k \in 1..f[s] : Ascending(class(s))[k] = i
  <2>1. class(s) \in SUBSET D /\ class(s) \in SUBSET Int
    <3>1. D \subseteq Int
      OBVIOUS
    <3>2. class(s) \subseteq D
      OBVIOUS
    <3> QED BY <3>1, <3>2, Zenon
  <2> HIDE DEF class
  <2>2. IsFiniteSet(class(s))
    BY <2>1, FS_Subset
  <2>3. /\ Cardinality(class(s)) \in Nat
        /\ Ascending(class(s)) \in [1..Cardinality(class(s)) -> class(s)]
        /\ \A k, l \in 1..Cardinality(class(s)) :
             k < l => Ascending(class(s))[k] < Ascending(class(s))[l]
        /\ \A i \in class(s) : \E k \in 1..Cardinality(class(s)) : Ascending(class(s))[k] = i
    BY <2>1, <2>2, AscendingLists
  <2>4. f[s] = Cardinality(class(s))
    BY <1>2
  <2> QED BY <2>1, <2>2, <2>3, <2>4
<1>4. IsFiniteSet(units)
  BY <1>1, <1>3, SumCounts
<1>5. \A i, s : i \in class(s) <=> i \in D /\ c[i] = s
  OBVIOUS
<1>6. \A u : u \in units <=> u = <<u[1], u[2]>> /\ u[1] \in K /\ u[2] \in 1..f[u[1]]
  <2>1. \A u : u \in units <=>
          u = <<u[1], u[2]>> /\ u[1] \in K /\ u[2] \in Nat /\ 1 <= u[2] /\ u[2] <= f[u[1]]
    BY DEF Units
  <2> HIDE DEF units, class
  <2>2. \A s \in K : \A k : k \in Nat /\ 1 <= k /\ k <= f[s] <=> k \in 1..f[s]
    BY <1>3
  <2> QED BY <2>1, <2>2
<1>7. \A i \in D : c[i] \in K
  BY DEF Surjection
<1> HIDE DEF class, units
<1>8. ASSUME NEW u \in units
      PROVE  /\ b[u] = Ascending(class(u[1]))[u[2]]
             /\ b[u] \in D /\ c[b[u]] = u[1]
  BY <1>3, <1>5, <1>6
<1>9. b \in [units -> D]
  BY <1>8
<1>10. ASSUME NEW u \in units, NEW v \in units, b[u] = b[v]
       PROVE  u = v
  <2>1. u[1] = v[1]
    BY <1>8, <1>10
  <2>2. /\ u[1] \in K /\ u[2] \in 1..f[u[1]] /\ v[2] \in 1..f[u[1]]
        /\ u = <<u[1], u[2]>> /\ v = <<v[1], v[2]>>
    BY <1>6, <2>1
  <2>3. Ascending(class(u[1]))[u[2]] = Ascending(class(u[1]))[v[2]]
    BY <1>8, <1>10, <2>1
  <2>4. Ascending(class(u[1]))[u[2]] \in Nat
    BY <1>3, <2>2
  <2>5. u[2] = v[2]
    <3>1. \A k, l \in 1..f[u[1]] :
            k < l => Ascending(class(u[1]))[k] < Ascending(class(u[1]))[l]
      BY <1>3, <2>2
    <3>2. u[2] < v[2] \/ v[2] < u[2] \/ u[2] = v[2]
      BY <2>2
    <3> QED BY <2>2, <2>3, <2>4, <3>1, <3>2
  <2> QED BY <2>1, <2>2, <2>5
<1>11. ASSUME NEW i \in D
       PROVE  \E u \in units : b[u] = i
  <2>1. PICK k \in 1..f[c[i]] : Ascending(class(c[i]))[k] = i
    BY <1>3, <1>5, <1>7
  <2> DEFINE u == <<c[i], k>>
  <2>2. u[1] = c[i] /\ u[2] = k
    OBVIOUS
  <2> HIDE DEF u
  <2>3. u \in units
    BY <1>6, <1>7, <2>1, <2>2 DEF u
  <2> QED BY <1>8, <2>1, <2>2, <2>3
<1> HIDE DEF b
<1>12. Cardinality(D) = Cardinality(units)
  BY <1>4, <1>9, <1>10, <1>11, SameSize
<1> QED BY <1>1, <1>3, <1>12 DEF units

(* The two sums of the reports, counted.                                   *)
LEMMA RequestsCounted ==
  ASSUME NEW totals, NEW S, IsFiniteSet(S), \A s \in S : totals[s].requested \in Nat
  PROVE  MapThenSumSet(LAMBDA s : totals[s].requested, S)
           = Cardinality(Units([s \in S |-> totals[s].requested], S))
<1> DEFINE f == [s \in S |-> totals[s].requested]
           Sums(g) ==
             g = [s \in SUBSET S |->
                    IF s = {} THEN 0
                    ELSE totals[CHOOSE x \in s : TRUE].requested
                         + g[s \ {CHOOSE x \in s : TRUE}]]
<1>1. MapThenSumSet(LAMBDA s : totals[s].requested, S) = (CHOOSE g : Sums(g))[S]
  BY Zenon DEF MapThenSumSet, MapThenFoldSet
<1>2. \A x \in S : f[x] \in Nat
  OBVIOUS
<1>3. \A g : Sums(g) <=> Folded(f, S, g)
  <2>1. ASSUME NEW g, NEW s \in SUBSET S, s # {}
        PROVE  totals[CHOOSE x \in s : TRUE].requested = f[CHOOSE x \in s : TRUE]
    <3>1. (CHOOSE x \in s : TRUE) \in S
      BY <2>1
    <3> QED BY <3>1
  <2> HIDE DEF f
  <2> QED BY <2>1 DEF Folded
<1> HIDE DEF f, Sums
<1>4. PICK g : Folded(f, S, g)
  BY <1>2, SumExists
<1>5. Folded(f, S, CHOOSE h : Sums(h))
  BY <1>3, <1>4
<1>6. (CHOOSE h : Sums(h))[S] = Cardinality(Units(f, S))
  BY <1>2, <1>5, SumCounts
<1> QED BY <1>1, <1>6 DEF f

LEMMA SumCounted ==
  ASSUME NEW f, NEW S, IsFiniteSet(S), \A s \in S : f[s] \in Nat
  PROVE  MapThenSumSet(LAMBDA s : f[s], S) = Cardinality(Units(f, S))
<1> DEFINE g == CHOOSE g : Folded(f, S, g)
<1>1. MapThenSumSet(LAMBDA s : f[s], S) = g[S]
  BY Zenon DEF MapThenSumSet, MapThenFoldSet, Folded
<1>2. Folded(f, S, g)
  BY SumExists
<1> HIDE DEF g
<1> QED BY <1>1, <1>2, SumCounts

-----------------------------------------------------------------------------
(* Reports that count the same thing.                                      *)

LEMMA EscalationsCounted ==
  ASSUME Life, Accounted, EscalationsTold
  PROVE  LET raised == {i \in DOMAIN approvals : approvals[i].escalated}
         IN  /\ Escalated \in Seq(AuditRow)
             /\ Len(Escalated) = Cardinality(raised)
             /\ IsFiniteSet(raised)
             /\ DOMAIN EscalationDelays = DOMAIN Escalated
             /\ \A k \in DOMAIN Escalated : EscalationDelays[k] = 0
<1> DEFINE raised == {i \in DOMAIN approvals : approvals[i].escalated}
           S == {k \in DOMAIN trail : trail[k].type \in {"approval_escalated"}}
           b == [k \in S |-> trail[k].slot]
<1>1. trail \in Seq(AuditRow)
  BY DEF Accounted, AuditTypes
<1>2. \A k \in S :
        /\ k \in DOMAIN trail /\ trail[k] \in AuditRow
        /\ trail[k].slot \in raised /\ trail[k].at = stamps[trail[k].slot].created
  BY <1>1 DEF EscalationsTold
<1>3. \A i \in raised : \E k \in S :
        /\ trail[k].slot = i
        /\ \A j \in S : trail[j].slot = i => j = k
  BY DEF EscalationsTold
<1>4. Escalated = At(trail, S)
  BY DEF Escalated, RowsOf
<1>5. S \in SUBSET DOMAIN trail
  OBVIOUS
<1> HIDE DEF S, raised
<1>6. /\ IsFiniteSet(S) /\ Escalated \in Seq(AuditRow) /\ Len(Escalated) = Cardinality(S)
      /\ \A k \in 1..Cardinality(S) :
           Ascending(S)[k] \in S /\ Escalated[k] = trail[Ascending(S)[k]]
  BY <1>1, <1>4, <1>5, AtTakes
<1>7. IsFiniteSet(raised) /\ Cardinality(raised) = Cardinality(S)
  <2>1. b \in [S -> raised]
    BY <1>2
  <2>2. \A x, y \in S : b[x] = b[y] => x = y
    BY <1>2, <1>3
  <2>3. \A i \in raised : \E x \in S : b[x] = i
    BY <1>3
  <2> HIDE DEF b
  <2> QED BY <1>6, <2>1, <2>2, <2>3, SameSize
<1>8. ASSUME NEW k \in DOMAIN Escalated
      PROVE  EscalationDelays[k] = 0
  <2>1. PICK m \in S : Escalated[k] = trail[m]
    BY <1>6
  <2>2. trail[m].at \in Nat /\ trail[m].at = stamps[trail[m].slot].created
    BY <1>2, <2>1 DEF AuditRow
  <2>3. EscalationDelays[k] = Escalated[k].at - stamps[Escalated[k].slot].created
    BY DEF EscalationDelays
  <2> QED BY <2>1, <2>2, <2>3
<1>9. DOMAIN EscalationDelays = DOMAIN Escalated
  BY DEF EscalationDelays
<1> QED BY <1>6, <1>7, <1>8, <1>9 DEF raised

LEMMA EscalationsByStateCounted ==
  ASSUME Escalated \in Seq(AuditRow)
  PROVE  MapThenSumSet(LAMBDA s : EscalationsByState[s], DOMAIN EscalationsByState)
           = Len(Escalated)
<1> DEFINE rows == Escalated
           D == DOMAIN rows
           c == [k \in D |-> rows[k].source]
           f == EscalationsByState
           K == {c[k] : k \in D}
<1>1. D \in SUBSET Nat /\ IsFiniteSet(D) /\ Cardinality(D) = Len(rows)
  <2> DEFINE n == Len(rows)
  <2>1. D = 1..n /\ n \in Nat
    OBVIOUS
  <2> HIDE DEF D, n
  <2>2. D \in SUBSET Nat
    BY <2>1
  <2>3. IsFiniteSet(1..n) /\ Cardinality(1..n) = n
    BY <2>1, FS_Interval
  <2> QED BY <2>1, <2>2, <2>3 DEF n
<1>2. /\ DOMAIN f = K /\ \A s \in K : f[s] = Cardinality(ClassOf(c, s))
      /\ c \in Surjection(D, K)
  <2>1. DOMAIN f = K /\ c \in Surjection(D, K)
    BY DEF EscalationsByState, Surjection
  <2>2. ASSUME NEW s \in K
        PROVE  f[s] = Cardinality(ClassOf(c, s))
    <3>1. ClassOf(c, s) = {k \in DOMAIN Escalated : Escalated[k].source = s}
      BY DEF ClassOf
    <3>2. f[s] = Cardinality({k \in DOMAIN Escalated : Escalated[k].source = s})
      BY DEF EscalationsByState
    <3> QED BY <3>1, <3>2
  <2> QED BY <2>1, <2>2
<1> HIDE DEF D, c, f, rows, K
<1>3. /\ IsFiniteSet(K) /\ \A s \in K : f[s] \in Nat
      /\ Cardinality(Units(f, K)) = Cardinality(D)
  BY <1>1, <1>2, ClassesCount
<1>4. MapThenSumSet(LAMBDA s : f[s], K) = Cardinality(D)
  BY <1>3, SumCounted
<1>5. MapThenSumSet(LAMBDA s : f[s], DOMAIN f) = Len(rows)
  BY <1>1, <1>2, <1>4
<1> QED BY <1>5 DEF f, rows

(* The approvals, split by status; what is reported of them counts alike.  *)
LEMMA ScopesFinite ==
  ASSUME TypeOK
  PROVE  /\ DOMAIN approvals \in SUBSET Nat /\ IsFiniteSet(DOMAIN approvals)
         /\ \A T \in SUBSET DOMAIN approvals : IsFiniteSet(T) /\ Cardinality(T) \in Nat
         /\ \A s : Scope(s) \in SUBSET DOMAIN approvals
         /\ \A i \in DOMAIN approvals : /\ approvals[i].step \in States
                                        /\ approvals[i].status \in Statuses
<1>1. approvals \in Seq(Approval)
  BY DEF TypeOK
<1> DEFINE D == DOMAIN approvals
           n == Len(approvals)
<1>2. D = 1..n /\ n \in Nat /\ \A i \in D : approvals[i] \in Approval
  BY <1>1
<1> HIDE DEF n
<1>3. D \in SUBSET Nat /\ IsFiniteSet(D)
  <2>1. IsFiniteSet(1..n)
    BY <1>2, FS_Interval
  <2> QED BY <1>2, <2>1
<1>4. \A T \in SUBSET D : IsFiniteSet(T) /\ Cardinality(T) \in Nat
  BY <1>3, FS_Subset, FS_CardinalityType
<1>5. \A s : Scope(s) \in SUBSET D
  BY DEF Scope
<1>6. \A i \in D : approvals[i].step \in States /\ approvals[i].status \in Statuses
  BY <1>2 DEF Approval
<1> QED BY <1>3, <1>4, <1>5, <1>6

(* Two sets without a common element, counted together.                    *)
LEMMA DisjointCount ==
  ASSUME NEW S, NEW T, IsFiniteSet(S), IsFiniteSet(T), S \cap T = {}
  PROVE  /\ IsFiniteSet(S \cup T) /\ Cardinality(S \cup T) = Cardinality(S) + Cardinality(T)
         /\ Cardinality(S) \in Nat /\ Cardinality(T) \in Nat
<1>1. /\ IsFiniteSet(S \cup T)
      /\ Cardinality(S \cup T) = Cardinality(S) + Cardinality(T) - Cardinality(S \cap T)
  BY FS_Union
<1>2. Cardinality(S \cap T) = 0 /\ Cardinality(S) \in Nat /\ Cardinality(T) \in Nat
  BY FS_EmptySet, FS_CardinalityType
<1> QED BY <1>1, <1>2

LEMMA BreachesAgree ==
  ASSUME TypeOK
  PROVE  LET asked == ApprovalMetrics(AnyState)
             sla == SlaMetrics(AnyState)
         IN  /\ sla.breached = asked.sla_breached
             /\ ExecutionMetrics.sla_breached = Count(sla.breached > 0)
             /\ sla.pending_overdue = Cardinality(Overdue(DOMAIN approvals))
             /\ sla.decided <= asked.approved + asked.rejected
<1> DEFINE D == DOMAIN approvals
           tracked == Tracked(AnyState)
           decided == InStatus(tracked, "APPROVED") \cup InStatus(tracked, "REJECTED")
           late == {i \in decided : stamps[i].updated > stamps[i].due}
           pending == Overdue(tracked)
           breached == {i \in D : Breached(i)}
           approved == InStatus(D, "APPROVED")
           rejected == InStatus(D, "REJECTED")
<1>1. /\ SlaMetrics(AnyState).breached = Cardinality(late) + Cardinality(pending)
      /\ SlaMetrics(AnyState).pending_overdue = Cardinality(pending)
      /\ SlaMetrics(AnyState).decided = Cardinality(decided)
  BY DEF SlaMetrics
<1>2. Scope(AnyState) = D
  BY DEF Scope
<1>3. /\ ApprovalMetrics(AnyState).sla_breached = Cardinality(breached)
      /\ ApprovalMetrics(AnyState).approved = Cardinality(approved)
      /\ ApprovalMetrics(AnyState).rejected = Cardinality(rejected)
  BY <1>2 DEF ApprovalMetrics
<1>4. ExecutionMetrics.sla_breached = Count(breached # {})
  <2>1. ExecutionMetrics.sla_breached = Count(\E i \in D : Breached(i))
    BY DEF ExecutionMetrics
  <2>2. (\E i \in D : Breached(i)) <=> breached # {}
    OBVIOUS
  <2> QED BY <2>1, <2>2 DEF Count
<1>5. pending = Overdue(D)
  BY <1>2 DEF Overdue, InStatus, Tracked
<1>6. breached = late \cup pending /\ late \cap pending = {}
  BY <1>2 DEF Breached, Overdue, InStatus, Tracked, Decided
<1>7. decided \subseteq approved \cup rejected
  BY <1>2 DEF InStatus, Tracked
<1>8. /\ late \in SUBSET D /\ pending \in SUBSET D /\ breached \in SUBSET D
      /\ approved \in SUBSET D /\ rejected \in SUBSET D /\ decided \in SUBSET D
  BY <1>2 DEF Overdue, InStatus, Tracked
<1> HIDE DEF D, late, pending, breached, approved, rejected, decided
<1>9. \A T \in SUBSET D : IsFiniteSet(T) /\ Cardinality(T) \in Nat
  BY ScopesFinite DEF D
<1>10. Cardinality(breached) = Cardinality(late) + Cardinality(pending)
  BY <1>6, <1>8, <1>9, DisjointCount
<1>11. breached # {} <=> Cardinality(breached) > 0
  <2>1. Cardinality(breached) = 0 <=> breached = {}
    BY <1>8, <1>9, FS_EmptySet
  <2> QED BY <1>8, <1>9, <2>1
<1>12. Cardinality(decided) <= Cardinality(approved) + Cardinality(rejected)
  <2>1. /\ IsFiniteSet(approved \cup rejected)
        /\ Cardinality(approved \cup rejected)
             = Cardinality(approved) + Cardinality(rejected) - Cardinality(approved \cap rejected)
    BY <1>8, <1>9, FS_Union
  <2>2. Cardinality(approved \cap rejected) \in Nat
    <3>1. approved \cap rejected \in SUBSET D
      BY <1>8
    <3> QED BY <1>9, <3>1
  <2>3. Cardinality(decided) <= Cardinality(approved \cup rejected)
    BY <1>7, <2>1, FS_Subset
  <2>4. /\ Cardinality(approved) \in Nat /\ Cardinality(rejected) \in Nat
        /\ Cardinality(decided) \in Nat
    BY <1>8, <1>9
  <2> QED BY <2>1, <2>2, <2>3, <2>4
<1>13. Count(breached # {}) = Count(Cardinality(breached) > 0)
  BY <1>11 DEF Count
<1> QED BY <1>1, <1>3, <1>4, <1>5, <1>10, <1>12, <1>13 DEF D

LEMMA TotalsAgree ==
  ASSUME TypeOK
  PROVE  LET totals == ApprovalTotals
         IN  /\ DOMAIN totals = {approvals[i].step : i \in DOMAIN approvals}
             /\ \A s \in DOMAIN totals :
                  LET there == ApprovalMetrics(s)
                  IN  /\ totals[s] = [approved |-> there.approved,
                                      rejected |-> there.rejected,
                                      pending |-> there.pending,
                                      cancelled |-> there.cancelled,
                                      requested |-> there.requested]
                      /\ totals[s].requested = Cardinality(Scope(s))
<1> DEFINE D == DOMAIN approvals
           totals == ApprovalTotals
           all(s) == Cardinality(InStatus(Scope(s), "APPROVED"))
                     + Cardinality(InStatus(Scope(s), "REJECTED"))
                     + Cardinality(InStatus(Scope(s), "PENDING"))
                     + Cardinality(InStatus(Scope(s), "CANCELLED"))
<1>1. /\ DOMAIN totals = {approvals[i].step : i \in D}
      /\ \A s \in DOMAIN totals :
           totals[s] = [approved |-> Cardinality(InStatus(Scope(s), "APPROVED")),
                        rejected |-> Cardinality(InStatus(Scope(s), "REJECTED")),
                        pending |-> Cardinality(InStatus(Scope(s), "PENDING")),
                        cancelled |-> Cardinality(InStatus(Scope(s), "CANCELLED")),
                        requested |-> all(s)]
  BY DEF ApprovalTotals
<1>2. ASSUME NEW s
      PROVE  all(s) = Cardinality(Scope(s))
  <2> DEFINE S == Scope(s)
             a == InStatus(S, "APPROVED")
             r == InStatus(S, "REJECTED")
             p == InStatus(S, "PENDING")
             c == InStatus(S, "CANCELLED")
  <2>1. S \in SUBSET D /\ \A i \in S : approvals[i].status \in Statuses
    BY ScopesFinite
  <2> HIDE DEF S
  <2>2. /\ a \in SUBSET D /\ r \in SUBSET D /\ p \in SUBSET D /\ c \in SUBSET D
        /\ S = ((a \cup r) \cup p) \cup c
        /\ a \cap r = {} /\ (a \cup r) \cap p = {} /\ ((a \cup r) \cup p) \cap c = {}
    BY <2>1 DEF InStatus, Statuses
  <2>3. IsFiniteSet(a) /\ IsFiniteSet(r) /\ IsFiniteSet(p) /\ IsFiniteSet(c)
    BY <2>2, ScopesFinite
  <2> HIDE DEF a, r, p, c
  <2>4. /\ IsFiniteSet(a \cup r) /\ Cardinality(a \cup r) = Cardinality(a) + Cardinality(r)
    BY <2>2, <2>3, DisjointCount
  <2>5. /\ IsFiniteSet((a \cup r) \cup p)
        /\ Cardinality((a \cup r) \cup p) = Cardinality(a \cup r) + Cardinality(p)
    BY <2>2, <2>3, <2>4, DisjointCount
  <2>6. Cardinality(((a \cup r) \cup p) \cup c)
          = Cardinality((a \cup r) \cup p) + Cardinality(c)
    BY <2>2, <2>3, <2>5, DisjointCount
  <2>7. Cardinality(S) = Cardinality(a) + Cardinality(r) + Cardinality(p) + Cardinality(c)
    BY <2>2, <2>4, <2>5, <2>6
  <2> QED BY <2>7 DEF S, a, r, p, c
<1>3. ASSUME NEW s
      PROVE  /\ ApprovalMetrics(s).approved = Cardinality(InStatus(Scope(s), "APPROVED"))
             /\ ApprovalMetrics(s).rejected = Cardinality(InStatus(Scope(s), "REJECTED"))
             /\ ApprovalMetrics(s).pending = Cardinality(InStatus(Scope(s), "PENDING"))
             /\ ApprovalMetrics(s).cancelled = Cardinality(InStatus(Scope(s), "CANCELLED"))
             /\ ApprovalMetrics(s).requested = Cardinality(Scope(s))
  BY DEF ApprovalMetrics
<1> HIDE DEF totals, all
<1>4. ASSUME NEW s \in DOMAIN totals
      PROVE  totals[s].requested = Cardinality(Scope(s))
  <2> DEFINE row(a, r, p, c, n) ==
               [approved |-> a, rejected |-> r, pending |-> p, cancelled |-> c, requested |-> n]
  <2>1. totals[s] = row(Cardinality(InStatus(Scope(s), "APPROVED")),
                        Cardinality(InStatus(Scope(s), "REJECTED")),
                        Cardinality(InStatus(Scope(s), "PENDING")),
                        Cardinality(InStatus(Scope(s), "CANCELLED")), all(s))
    BY <1>1, Zenon
  <2>2. \A a, r, p, c, n : row(a, r, p, c, n).requested = n
    OBVIOUS
  <2> HIDE DEF row
  <2>3. totals[s].requested = all(s)
    BY <2>1, <2>2
  <2> QED BY <1>2, <2>3
<1> QED BY <1>1, <1>2, <1>3, <1>4 DEF totals

LEMMA RequestsAgree ==
  ASSUME TypeOK
  PROVE  LET totals == ApprovalTotals
         IN  ApprovalMetrics(AnyState).requested
               = MapThenSumSet(LAMBDA s : totals[s].requested, DOMAIN totals)
<1> DEFINE totals == ApprovalTotals
           D == DOMAIN approvals
           K == DOMAIN totals
           c == [i \in D |-> approvals[i].step]
           f == [s \in K |-> totals[s].requested]
<1>1. /\ K = {approvals[i].step : i \in D}
      /\ \A s \in K : totals[s].requested = Cardinality(Scope(s))
  BY TotalsAgree
<1>2. c \in Surjection(D, K)
  BY <1>1 DEF Surjection
<1>3. D \in SUBSET Nat /\ IsFiniteSet(D)
  BY ScopesFinite
<1>4. ASSUME NEW s \in K
      PROVE  f[s] = Cardinality(ClassOf(c, s))
  <2>1. s # AnyState
    BY <1>1, ScopesFinite, AnyStateAssumption
  <2>2. ClassOf(c, s) = Scope(s)
    BY <2>1 DEF ClassOf, Scope
  <2> QED BY <1>1, <2>2
<1>5. \A s \in K : f[s] = totals[s].requested
  OBVIOUS
<1> HIDE DEF c, f, totals, K
<1>6. /\ IsFiniteSet(K) /\ \A s \in K : f[s] \in Nat
      /\ Cardinality(Units(f, K)) = Cardinality(D)
  BY <1>2, <1>3, <1>4, ClassesCount
<1>7. MapThenSumSet(LAMBDA s : totals[s].requested, K) = Cardinality(Units(f, K))
  BY <1>5, <1>6, RequestsCounted DEF f
<1>8. ApprovalMetrics(AnyState).requested = Cardinality(D)
  BY DEF ApprovalMetrics, Scope
<1> QED BY <1>6, <1>7, <1>8 DEF K, totals

(* Reports that count the same thing by different queries agree, and the   *)
(* delays reported for escalations are nothing.                            *)
THEOREM ReportsAlwaysAgree == AuditedSpec => []ReportsAgree
<1>1. Life /\ Accounted /\ Clocked /\ EscalationsTold => ReportsAgree
  <2> SUFFICES ASSUME Life, Accounted, EscalationsTold PROVE ReportsAgree
    OBVIOUS
  <2> DEFINE asked == ApprovalMetrics(AnyState)
             raised == {i \in DOMAIN approvals : approvals[i].escalated}
  <2>1. TypeOK
    BY DEF Life
  <2>2. /\ Escalated \in Seq(AuditRow) /\ Len(Escalated) = Cardinality(raised)
        /\ IsFiniteSet(raised) /\ DOMAIN EscalationDelays = DOMAIN Escalated
        /\ \A k \in DOMAIN Escalated : EscalationDelays[k] = 0
    BY EscalationsCounted
  <2>3. asked.escalated = Cardinality(raised)
    <3>1. asked.escalated = IF DOMAIN approvals = {} THEN 0 ELSE Len(Escalated)
      BY DEF ApprovalMetrics, Scope
    <3>2. DOMAIN approvals = {} => Cardinality(raised) = 0
      BY FS_EmptySet
    <3> QED BY <2>2, <3>1, <3>2
  <2>4. MapThenSumSet(LAMBDA s : EscalationsByState[s], DOMAIN EscalationsByState)
          = asked.escalated
    BY <2>2, <2>3, EscalationsByStateCounted
  <2>5. \A k \in DOMAIN EscalationDelays : EscalationDelays[k] = 0
    BY <2>2
  <2> HIDE DEF asked, raised
  <2> QED BY <2>1, <2>3, <2>4, <2>5, BreachesAgree, TotalsAgree, RequestsAgree
      DEF ReportsAgree, asked, raised
<1> QED BY <1>1, AlwaysReckoned, PTL

-----------------------------------------------------------------------------
(* Time spent.                                                             *)

(* The spans between times in order, the empty ones left out, add up to    *)
(* the time between the first and the last.                                *)
LEMMA SpansCount ==
  ASSUME NEW m \in Nat, NEW e \in [1..(m + 1) -> Nat],
         \A j, k \in 1..(m + 1) : j <= k => e[j] <= e[k],
         NEW P \in SUBSET (1..m), \A k \in 1..m : k \in P <=> e[k] < e[k + 1],
         NEW f, \A j \in 1..Cardinality(P) :
                  f[j] = e[Ascending(P)[j] + 1] - e[Ascending(P)[j]]
  PROVE  /\ \A j \in 1..Cardinality(P) : f[j] \in Nat
         /\ Cardinality(Units(f, 1..Cardinality(P))) = e[m + 1] - e[1]
<1> DEFINE c == Cardinality(P)
           A == Ascending(P)
           units == Units(f, 1..c)
           T == (e[1] + 1)..e[m + 1]
           b == [u \in units |-> e[A[u[1]]] + u[2]]
<1>1. /\ c \in Nat /\ A \in [1..c -> P]
      /\ \A k, l \in 1..c : k < l => A[k] < A[l]
      /\ \A i \in P : \E k \in 1..c : A[k] = i
  <2>1. P \in SUBSET (1..m) /\ P \in SUBSET Int
    OBVIOUS
  <2>2. IsFiniteSet(P)
    <3>1. IsFiniteSet(1..m)
      BY FS_Interval
    <3> QED BY <2>1, <3>1, FS_Subset
  <2> QED BY <2>1, <2>2, AscendingLists
<1>2. \A k : k \in P <=> k \in 1..m /\ e[k] < e[k + 1]
  <2>1. \A k \in P : k \in 1..m
    OBVIOUS
  <2> QED BY <2>1
<1>3. \A k \in 1..(m + 1) : e[k] \in Nat
  OBVIOUS
<1>4. \A j \in 1..c : f[j] = e[A[j] + 1] - e[A[j]]
  OBVIOUS
<1> HIDE DEF c, A
<1>5. ASSUME NEW j \in 1..c
      PROVE  /\ A[j] \in 1..m /\ A[j] + 1 \in 1..(m + 1) /\ A[j] \in 1..(m + 1)
             /\ f[j] \in Nat
             /\ e[A[j] + 1] = e[A[j]] + f[j]
  <2>1. A[j] \in P
    BY <1>1
  <2>2. A[j] \in 1..m /\ e[A[j]] < e[A[j] + 1]
    BY <1>2, <2>1
  <2>3. A[j] + 1 \in 1..(m + 1) /\ A[j] \in 1..(m + 1)
    BY <2>2, SMTT(30)
  <2>4. e[A[j] + 1] \in Nat /\ e[A[j]] \in Nat
    BY <1>3, <2>3
  <2>5. f[j] = e[A[j] + 1] - e[A[j]]
    BY <1>4
  <2> DEFINE x == e[A[j]]
             y == e[A[j] + 1]
             z == f[j]
  <2>6. x \in Nat /\ y \in Nat /\ x < y /\ z = y - x
    BY <2>2, <2>4, <2>5
  <2> HIDE DEF x, y, z
  <2>7. z \in Nat /\ y = x + z
    BY <2>6
  <2> QED BY <2>2, <2>3, <2>7, Zenon DEF x, y, z
<1>6. IsFiniteSet(units)
  <2>1. IsFiniteSet(1..c)
    BY <1>1, FS_Interval
  <2> QED BY <1>5, <2>1, SumCounts
<1>7. \A u : u \in units <=>
        /\ u = <<u[1], u[2]>> /\ u[1] \in 1..c /\ u[2] \in Nat
        /\ 1 <= u[2] /\ u[2] <= f[u[1]]
  <2> DEFINE D == 1..c
  <2>1. units = Units(f, D)
    OBVIOUS
  <2> HIDE DEF D, units
  <2>2. \A u : u \in units <=>
          /\ u = <<u[1], u[2]>> /\ u[1] \in D /\ u[2] \in Nat
          /\ 1 <= u[2] /\ u[2] <= f[u[1]]
    BY <2>1 DEF Units
  <2> QED BY <2>2 DEF D
<1> HIDE DEF units
<1>8. ASSUME NEW u \in units
      PROVE  /\ b[u] = e[A[u[1]]] + u[2] /\ u[1] \in 1..c /\ u[2] \in Nat
             /\ e[A[u[1]]] \in Nat /\ e[A[u[1]] + 1] \in Nat /\ b[u] \in Nat
             /\ e[A[u[1]]] < b[u] /\ b[u] <= e[A[u[1]] + 1]
  <2>1. /\ u[1] \in 1..c /\ u[2] \in Nat /\ 1 <= u[2] /\ u[2] <= f[u[1]]
    BY <1>7
  <2>2. /\ A[u[1]] \in 1..(m + 1) /\ A[u[1]] + 1 \in 1..(m + 1) /\ f[u[1]] \in Nat
        /\ e[A[u[1]] + 1] = e[A[u[1]]] + f[u[1]]
    BY <1>5, <2>1
  <2>3. e[A[u[1]]] \in Nat /\ e[A[u[1]] + 1] \in Nat
    BY <1>3, <2>2
  <2>4. b[u] = e[A[u[1]]] + u[2]
    OBVIOUS
  <2> HIDE DEF b
  <2> DEFINE w == u[2]
             x == e[A[u[1]]]
             y == e[A[u[1]] + 1]
             z == f[u[1]]
             t == b[u]
  <2>5. /\ w \in Nat /\ 1 <= w /\ w <= z /\ z \in Nat /\ x \in Nat /\ y = x + z
        /\ t = x + w
    BY <2>1, <2>2, <2>3, <2>4, Zenon
  <2> HIDE DEF w, x, y, z, t
  <2>6. y \in Nat /\ t \in Nat /\ x < t /\ t <= y
    BY <2>5
  <2> QED BY <2>1, <2>3, <2>4, <2>6, Zenon DEF w, x, y, z, t
<1>9. 1 \in 1..(m + 1) /\ m + 1 \in 1..(m + 1) /\ e[1] \in Nat /\ e[m + 1] \in Nat
      /\ e[1] <= e[m + 1]
  <2>1. 1 \in 1..(m + 1) /\ m + 1 \in 1..(m + 1) /\ 1 <= m + 1
    OBVIOUS
  <2> QED BY <1>3, <2>1
<1>10. b \in [units -> T]
  <2>1. ASSUME NEW u \in units PROVE b[u] \in T
    <3>1. A[u[1]] \in 1..(m + 1) /\ A[u[1]] + 1 \in 1..(m + 1)
      BY <1>5, <1>8
    <3>2. e[1] <= e[A[u[1]]] /\ e[A[u[1]] + 1] <= e[m + 1]
      <4>1. 1 <= A[u[1]] /\ A[u[1]] + 1 <= m + 1
        BY <3>1
      <4> QED BY <1>9, <3>1, <4>1
    <3> HIDE DEF b
    <3> QED BY <1>8, <1>9, <3>2, SMTT(30)
  <2> QED BY <2>1
<1>11. ASSUME NEW u \in units, NEW v \in units, u[1] < v[1]
       PROVE  b[u] < b[v]
  <2>1. u[1] \in 1..c /\ v[1] \in 1..c
    BY <1>8
  <2>2. A[u[1]] < A[v[1]]
    BY <1>1, <1>11, <2>1
  <2>3. A[u[1]] \in 1..m /\ A[u[1]] + 1 \in 1..(m + 1) /\ A[v[1]] \in 1..(m + 1)
    BY <1>5, <2>1
  <2>4. A[u[1]] + 1 <= A[v[1]]
    BY <2>2, <2>3, SMTT(30)
  <2>5. e[A[u[1]] + 1] <= e[A[v[1]]]
    BY <2>3, <2>4
  <2> HIDE DEF b
  <2>6. /\ b[u] <= e[A[u[1]] + 1] /\ e[A[v[1]]] < b[v]
        /\ b[u] \in Nat /\ b[v] \in Nat /\ e[A[u[1]] + 1] \in Nat /\ e[A[v[1]]] \in Nat
    BY <1>8
  <2> QED BY <2>5, <2>6
<1>12. ASSUME NEW u \in units, NEW v \in units, b[u] = b[v]
       PROVE  u = v
  <2> HIDE DEF b
  <2>1. b[u] \in Nat /\ b[v] \in Nat /\ u[1] \in 1..c /\ v[1] \in 1..c
    BY <1>8
  <2>2. u[1] = v[1]
    <3>1. u[1] < v[1] \/ v[1] < u[1] \/ u[1] = v[1]
      BY <1>1, <2>1
    <3>2. ~(b[u] < b[v]) /\ ~(b[v] < b[u])
      BY <1>12, <2>1
    <3> QED BY <1>11, <3>1, <3>2
  <2>3. u[2] = v[2]
    <3>1. /\ b[u] = e[A[u[1]]] + u[2] /\ u[2] \in Nat /\ e[A[u[1]]] \in Nat
          /\ b[v] = e[A[u[1]]] + v[2] /\ v[2] \in Nat
      BY <1>8, <2>2
    <3>2. \A x, y, z \in Nat : z + x = z + y => x = y
      OBVIOUS
    <3>3. e[A[u[1]]] + u[2] = e[A[u[1]]] + v[2]
      BY <1>12, <3>1
    <3> QED BY <3>1, <3>2, <3>3
  <2> QED BY <1>7, <2>2, <2>3
<1>13. ASSUME NEW t \in T
       PROVE  \E u \in units : b[u] = t
  <2> DEFINE L == {k \in 1..(m + 1) : t <= e[k]}
  <2>1. t \in Nat /\ e[1] < t /\ t <= e[m + 1]
    BY <1>9
  <2>2. m + 1 \in L /\ L \in SUBSET Nat
    BY <1>9, <2>1
  <2>3. PICK q \in L : \A k \in L : q <= k
    <3> HIDE DEF L
    <3> QED BY <2>2, LeastNatural
  <2>4. q \in 1..(m + 1) /\ t <= e[q] /\ q # 1
    BY <1>9, <2>1, <2>3
  <2> DEFINE k == q - 1
  <2>5. k \in 1..m /\ k + 1 = q /\ k \in 1..(m + 1) /\ k \in Nat
    BY <2>4
  <2>6. e[k] \in Nat /\ e[k] < t
    <3>1. k \notin L
      BY <2>3, <2>4
    <3>2. e[k] \in Nat
      BY <1>3, <2>5
    <3> HIDE DEF k
    <3> QED BY <2>1, <2>5, <3>1, <3>2
  <2>7. t <= e[k + 1] /\ e[k + 1] \in Nat
    <3>1. e[q] \in Nat
      BY <1>3, <2>4
    <3> QED BY <2>4, <2>5, <3>1
  <2> HIDE DEF k
  <2>8. k \in P
    BY <1>2, <2>1, <2>5, <2>6, <2>7
  <2>9. PICK j \in 1..c : A[j] = k
    BY <1>1, <2>8
  <2> DEFINE u == <<j, t - e[k]>>
  <2>10. u[1] = j /\ u[2] = t - e[k]
    OBVIOUS
  <2>11. e[k + 1] = e[k] + f[j] /\ f[j] \in Nat
    BY <1>5, <2>9
  <2>12. u \in units
    <3>1. u[2] \in Nat /\ 1 <= u[2] /\ u[2] <= f[j]
      <4>1. t - e[k] \in Nat /\ 1 <= t - e[k] /\ t - e[k] <= f[j]
        <5>1. \A x, y, z \in Nat : x < y /\ y <= x + z =>
                y - x \in Nat /\ 1 <= y - x /\ y - x <= z
          OBVIOUS
        <5>2. t <= e[k] + f[j]
          BY <2>7, <2>11
        <5> QED BY <2>1, <2>6, <2>11, <5>1, <5>2
      <4> QED BY <2>10, <4>1
    <3>2. u = <<u[1], u[2]>>
      BY <2>10
    <3> HIDE DEF u
    <3> QED BY <1>7, <2>10, <3>1, <3>2
  <2>13. b[u] = t
    <3>1. b[u] = e[A[u[1]]] + u[2]
      BY <1>8, <2>12
    <3> HIDE DEF u, b
    <3> QED BY <2>1, <2>6, <2>9, <2>10, <3>1
  <2> QED BY <2>12, <2>13
<1> HIDE DEF b, T
<1>14. Cardinality(T) = Cardinality(units)
  BY <1>6, <1>10, <1>12, <1>13, SameSize
<1>15. Cardinality(T) = e[m + 1] - e[1]
  <2>1. e[1] + 1 \in Int /\ e[m + 1] \in Int
    BY <1>9
  <2>2. Cardinality(T) = IF e[1] + 1 > e[m + 1] THEN 0 ELSE e[m + 1] - (e[1] + 1) + 1
    BY <2>1, FS_Interval DEF T
  <2> QED BY <1>9, <2>2
<1> QED BY <1>5, <1>14, <1>15 DEF units, c

(* The time of all spans of a report, counted.                             *)
LEMMA SecondsCounted ==
  ASSUME NEW spans, NEW S, IsFiniteSet(S), \A k \in S : spans[k].seconds \in Nat
  PROVE  MapThenSumSet(LAMBDA k : spans[k].seconds, S)
           = Cardinality(Units([k \in S |-> spans[k].seconds], S))
<1> DEFINE f == [k \in S |-> spans[k].seconds]
           Sums(g) ==
             g = [s \in SUBSET S |->
                    IF s = {} THEN 0
                    ELSE spans[CHOOSE x \in s : TRUE].seconds
                         + g[s \ {CHOOSE x \in s : TRUE}]]
<1>1. MapThenSumSet(LAMBDA k : spans[k].seconds, S) = (CHOOSE g : Sums(g))[S]
  BY Zenon DEF MapThenSumSet, MapThenFoldSet
<1>2. \A x \in S : f[x] \in Nat
  OBVIOUS
<1>3. \A g : Sums(g) <=> Folded(f, S, g)
  <2>1. ASSUME NEW g, NEW s \in SUBSET S, s # {}
        PROVE  spans[CHOOSE x \in s : TRUE].seconds = f[CHOOSE x \in s : TRUE]
    <3>1. (CHOOSE x \in s : TRUE) \in S
      BY <2>1
    <3> QED BY <3>1
  <2> HIDE DEF f
  <2> QED BY <2>1 DEF Folded
<1> HIDE DEF f, Sums
<1>4. PICK g : Folded(f, S, g)
  BY <1>2, SumExists
<1>5. Folded(f, S, CHOOSE h : Sums(h))
  BY <1>3, <1>4
<1>6. (CHOOSE h : Sums(h))[S] = Cardinality(Units(f, S))
  BY <1>2, <1>5, SumCounts
<1> QED BY <1>1, <1>6 DEF f

(* The same of a report that leaves the empty spans out.                   *)
LEMMA SpansTotal ==
  ASSUME NEW m \in Nat, NEW e \in [1..(m + 1) -> Nat],
         \A j, k \in 1..(m + 1) : j <= k => e[j] <= e[k],
         NEW P \in SUBSET (1..m), \A k \in 1..m : k \in P <=> e[k] < e[k + 1],
         NEW spans, \A k \in P : spans[k].seconds = e[k + 1] - e[k]
  PROVE  Total(At(spans, P)) = e[m + 1] - e[1]
<1> DEFINE c == Cardinality(P)
           A == Ascending(P)
           list == At(spans, P)
           f == [j \in 1..c |-> list[j].seconds]
<1>1. c \in Nat /\ A \in [1..c -> P] /\ IsFiniteSet(1..c)
  <2>1. P \in SUBSET (1..m) /\ P \in SUBSET Int
    OBVIOUS
  <2>2. IsFiniteSet(P)
    <3>1. IsFiniteSet(1..m)
      BY FS_Interval
    <3> QED BY <2>1, <3>1, FS_Subset
  <2>3. c \in Nat /\ A \in [1..c -> P]
    BY <2>1, <2>2, AscendingLists
  <2> QED BY <2>3, FS_Interval
<1>2. DOMAIN list = 1..c /\ \A j \in 1..c : list[j] = spans[A[j]]
  BY DEF At
<1> HIDE DEF list
<1>3. \A j \in 1..c : list[j].seconds = e[A[j] + 1] - e[A[j]]
  <2> HIDE DEF c, A
  <2> QED BY <1>1, <1>2
<1>4. \A j \in 1..c : f[j] = list[j].seconds
  OBVIOUS
<1>5. /\ \A j \in 1..c : f[j] \in Nat
      /\ Cardinality(Units(f, 1..c)) = e[m + 1] - e[1]
  <2> HIDE DEF f
  <2>1. \A j \in 1..c : f[j] = e[A[j] + 1] - e[A[j]]
    BY <1>3, <1>4
  <2> QED BY <2>1, SpansCount
<1>6. MapThenSumSet(LAMBDA k : list[k].seconds, 1..c) = Cardinality(Units(f, 1..c))
  <2> DEFINE D == 1..c
  <2>1. IsFiniteSet(D) /\ \A k \in D : list[k].seconds \in Nat
    BY <1>1, <1>4, <1>5
  <2> HIDE DEF D
  <2>2. MapThenSumSet(LAMBDA k : list[k].seconds, D)
          = Cardinality(Units([k \in D |-> list[k].seconds], D))
    BY <2>1, SecondsCounted
  <2> QED BY <2>2 DEF D
<1>7. Total(list) = MapThenSumSet(LAMBDA k : list[k].seconds, 1..c)
  BY <1>2, Zenon DEF Total
<1> QED BY <1>5, <1>6, <1>7 DEF list

(* What the state durations start from: the states entered since the       *)
(* start, in the order of the times they were entered at.                  *)
LEMMA EntriesTold ==
  ASSUME Life, Accounted, Clocked, Started
  PROVE  /\ Len(Entries) \in Nat \ {0} /\ DOMAIN Entries = 1..Len(Entries)
         /\ \A k \in DOMAIN Entries : Entries[k].at \in Nat /\ Entries[k].at <= now
         /\ Entries[1].at = started_at
         /\ \A j, k \in DOMAIN Entries : j <= k => Entries[j].at <= Entries[k].at
         /\ completed => /\ completed_at <= Entries[Len(Entries)].at
                         /\ Entries[Len(Entries)].at <= completed_at + MaxLag
<1> DEFINE S == {k \in DOMAIN trail : trail[k].type \in {"transition_executed"}}
           n == Cardinality(S)
           A == Ascending(S)
           moves == RowsOf({"transition_executed"})
<1>1. trail \in Seq(AuditRow) /\ DOMAIN trail \subseteq Nat
      /\ \A k \in DOMAIN trail : trail[k].at \in Nat
  <2>1. trail \in Seq(AuditRow)
    BY DEF Accounted, AuditTypes
  <2>2. \A k \in DOMAIN trail : trail[k] \in AuditRow
    BY <2>1
  <2> QED BY <2>1, <2>2 DEF AuditRow
<1>2. S \in SUBSET DOMAIN trail /\ S \in SUBSET Int
  BY <1>1
<1>3. /\ IsFiniteSet(S) /\ n \in Nat
      /\ moves \in Seq(AuditRow) /\ Len(moves) = n
      /\ \A k \in 1..n : moves[k] = trail[A[k]]
  <2> HIDE DEF S
  <2>1. moves = At(trail, S)
    BY DEF RowsOf, S
  <2> QED BY <1>1, <1>2, <2>1, AtTakes
<1>4. /\ A \in [1..n -> S]
      /\ \A k, l \in 1..n : k < l => A[k] < A[l]
      /\ \A i \in S : \E k \in 1..n : A[k] = i
  <2> HIDE DEF S
  <2> QED BY <1>2, <1>3, AscendingLists
<1>5. \A k : k \in S <=> k \in DOMAIN trail /\ trail[k].type = "transition_executed"
  OBVIOUS
<1>6. Entries = IF moves = <<>> THEN <<[at |-> started_at, state |-> current]>>
                ELSE <<[at |-> started_at, state |-> moves[1].source]>>
                     \o [k \in DOMAIN moves |-> [at |-> moves[k].at,
                                                 state |-> moves[k].target]]
  BY DEF Entries
<1> HIDE DEF S, n, A, moves
<1>7. started_at \in Nat /\ started_at <= now /\ now \in Nat
  BY DEF Clocked, Accounted, AuditTypes
<1>8. \A j, k \in DOMAIN trail : j <= k => trail[j].at <= trail[k].at
  BY <1>1 DEF Clocked
<1>9. \A k \in DOMAIN trail : started_at <= trail[k].at /\ trail[k].at <= now
  BY DEF Clocked
<1>10. \A k \in 1..n : A[k] \in DOMAIN trail
  BY <1>2, <1>4
<1>11. \A j, k \in 1..n : j <= k => trail[A[j]].at <= trail[A[k]].at
  <2> SUFFICES ASSUME NEW j \in 1..n, NEW k \in 1..n, j <= k
               PROVE  trail[A[j]].at <= trail[A[k]].at
    OBVIOUS
  <2>1. A[j] \in DOMAIN trail /\ A[k] \in DOMAIN trail /\ A[j] \in Nat /\ A[k] \in Nat
    BY <1>1, <1>10
  <2>2. A[j] <= A[k]
    <3>1. j = k \/ j < k
      BY <1>3
    <3> QED BY <1>4, <2>1, <3>1
  <2> QED BY <1>8, <2>1, <2>2
<1>12. CASE moves = <<>>
  <2>1. n = 0
    BY <1>3, <1>12
  <2>2. ~completed
    <3> SUFFICES ASSUME completed PROVE FALSE
      OBVIOUS
    <3>1. Entered
      BY DEF Life, Sealed
    <3>2. PICK k \in DOMAIN trail : trail[k].type = "transition_executed"
      BY <3>1 DEF Accounted, MovesTold, Leads
    <3> QED BY <1>4, <1>5, <2>1, <3>2
  <2>3. Entries = <<[at |-> started_at, state |-> current]>>
    BY <1>6, <1>12
  <2>4. /\ Len(Entries) = 1 /\ DOMAIN Entries = 1..1
        /\ Entries[1].at = started_at
    BY <2>3
  <2> HIDE DEF Entries
  <2> QED BY <1>7, <2>2, <2>4
<1>13. CASE moves # <<>>
  <2> DEFINE first == [at |-> started_at, state |-> moves[1].source]
             rest == [k \in DOMAIN moves |-> [at |-> moves[k].at, state |-> moves[k].target]]
             entry == [at : Nat, state : {moves[1].source} \cup {moves[k].target : k \in 1..n}]
  <2>1. n >= 1 /\ DOMAIN moves = 1..n
    BY <1>3, <1>13
  <2>2. first \in entry
    BY <1>7
  <2>3. \A k \in 1..n : moves[k].at = trail[A[k]].at /\ moves[k].at \in Nat
    BY <1>1, <1>3, <1>10
  <2>4. rest \in Seq(entry) /\ Len(rest) = n /\ \A k \in 1..n : rest[k].at = trail[A[k]].at
    <3> DEFINE told(k) == [at |-> moves[k].at, state |-> moves[k].target]
    <3>1. \A k \in 1..n : told(k) \in entry /\ told(k).at = trail[A[k]].at
      BY <2>3
    <3>2. rest = [k \in 1..n |-> told(k)]
      BY <2>1
    <3> HIDE DEF entry, rest, told
    <3> QED BY <1>3, <3>1, <3>2
  <2> HIDE DEF rest, entry
  <2>5. Entries = <<first>> \o rest
    BY <1>6, <1>13 DEF rest
  <2>6. /\ Len(Entries) = n + 1 /\ DOMAIN Entries = 1..(n + 1)
        /\ Entries[1] = first /\ \A k \in 1..n : Entries[k + 1] = rest[k]
    <3> HIDE DEF first
    <3> QED BY <1>3, <2>2, <2>4, <2>5
  <2>7. Entries[1].at = started_at
    BY <2>6
  <2> HIDE DEF first, Entries
  <2>8. \A k \in 1..n : Entries[k + 1].at = trail[A[k]].at
    BY <2>4, <2>6
  <2>9. \A k \in DOMAIN Entries : k = 1 \/ (k - 1 \in 1..n /\ Entries[k].at = trail[A[k - 1]].at)
    <3> SUFFICES ASSUME NEW k \in 1..(n + 1), k # 1
                 PROVE  k - 1 \in 1..n /\ Entries[k].at = trail[A[k - 1]].at
      BY <2>6
    <3>1. k - 1 \in 1..n /\ (k - 1) + 1 = k
      BY <1>3
    <3> QED BY <2>8, <3>1
  <2>10. \A k \in DOMAIN Entries : /\ Entries[k].at \in Nat /\ Entries[k].at <= now
                                   /\ started_at <= Entries[k].at
    BY <1>1, <1>7, <1>9, <1>10, <2>7, <2>9
  <2>11. \A j, k \in DOMAIN Entries : j <= k => Entries[j].at <= Entries[k].at
    <3> SUFFICES ASSUME NEW j \in DOMAIN Entries, NEW k \in DOMAIN Entries, j <= k
                 PROVE  Entries[j].at <= Entries[k].at
      OBVIOUS
    <3>1. CASE j = 1
      BY <2>7, <2>10, <3>1
    <3>2. CASE j # 1
      <4>1. j - 1 \in 1..n /\ k - 1 \in 1..n /\ j - 1 <= k - 1 /\ k # 1
        BY <1>3, <2>6, <3>2
      <4>2. trail[A[j - 1]].at <= trail[A[k - 1]].at
        BY <1>11, <4>1
      <4> QED BY <2>9, <3>2, <4>1, <4>2
    <3> QED BY <3>1, <3>2
  <2>12. completed => /\ completed_at <= Entries[n + 1].at
                      /\ Entries[n + 1].at <= completed_at + MaxLag
    <3>1. n \in 1..n
      BY <1>3, <2>1
    <3>2. LastMove(trail, A[n])
      <4>1. A[n] \in S
        BY <1>4, <3>1
      <4>2. ASSUME NEW j \in DOMAIN trail, j > A[n], trail[j].type = "transition_executed"
            PROVE  FALSE
        <5>1. PICK i \in 1..n : A[i] = j
          BY <1>4, <1>5, <4>2
        <5>2. i = n \/ i < n
          BY <1>3
        <5>3. A[i] \in Nat /\ A[n] \in Nat
          BY <1>1, <1>10, <3>1
        <5> QED BY <1>4, <3>1, <4>2, <5>1, <5>2, <5>3
      <4> QED BY <1>5, <4>1, <4>2 DEF LastMove
    <3>3. completed => /\ completed_at <= trail[A[n]].at
                       /\ trail[A[n]].at <= completed_at + MaxLag
      BY <3>2 DEF Clocked
    <3> QED BY <2>8, <3>1, <3>3
  <2>13. n + 1 \in Nat \ {0}
    BY <1>3
  <2> QED BY <2>6, <2>7, <2>10, <2>11, <2>12, <2>13
<1> QED BY <1>12, <1>13

(* What is reported for the states is the age of a running execution, and  *)
(* of a completed one its completion time, and what the last call took.    *)
THEOREM SpansAlwaysConserve == AuditedSpec => []SpansConserve
<1>1. Life /\ Accounted /\ Clocked => SpansConserve
  <2> SUFFICES ASSUME Life, Accounted, Clocked, Started
               PROVE  IF completed_at = Never THEN Total(Spans) = now - started_at
                      ELSE Total(Spans)
                             \in CompletionTimes[1]..(CompletionTimes[1] + MaxLag)
    BY DEF SpansConserve
  <2> DEFINE entries == Entries
             n == Len(entries)
             exit(k) == IF k < n THEN entries[k + 1].at ELSE EndAt
             span(k) == [state |-> entries[k].state, seconds |-> exit(k) - entries[k].at]
             spans == [k \in DOMAIN entries |-> span(k)]
             P == {k \in DOMAIN entries : spans[k].seconds > 0}
  <2>1. Spans = At(spans, P)
    BY DEF Spans
  <2>2. /\ n \in Nat \ {0} /\ DOMAIN entries = 1..n
        /\ \A k \in DOMAIN entries : entries[k].at \in Nat /\ entries[k].at <= now
        /\ entries[1].at = started_at
        /\ \A j, k \in DOMAIN entries : j <= k => entries[j].at <= entries[k].at
        /\ completed => completed_at <= entries[n].at /\ entries[n].at <= completed_at + MaxLag
    BY EntriesTold
  <2>3. /\ now \in Nat /\ started_at \in Nat
        /\ completed => completed_at \in Nat
        /\ completed <=> completed_at # Never
    BY DEF Clocked, Accounted, AuditTypes, CompletionTold
  <2> HIDE DEF entries
  <2>4. \A k \in 1..n : spans[k].seconds = exit(k) - entries[k].at
    BY <2>2
  <2>5. P \in SUBSET (1..n) /\ \A k \in 1..n : k \in P <=> spans[k].seconds > 0
    BY <2>2
  <2> HIDE DEF spans, P, n
  <2>6. CASE ~completed
    <3> DEFINE e == [k \in 1..(n + 1) |-> IF k <= n THEN entries[k].at ELSE now]
    <3>1. EndAt = now
      BY <2>3, <2>6 DEF EndAt
    <3>2. \A k \in 1..n : /\ k \in 1..(n + 1) /\ k + 1 \in 1..(n + 1) /\ k <= n
                          /\ k + 1 <= n <=> k < n
      BY <2>2
    <3>3. n + 1 \in 1..(n + 1) /\ ~(n + 1 <= n) /\ 1 \in 1..(n + 1) /\ 1 <= n
      BY <2>2
    <3>4. \A k \in 1..n : e[k] = entries[k].at /\ e[k + 1] = exit(k)
      BY <3>1, <3>2
    <3>5. e[n + 1] = now /\ e[1] = started_at
      BY <2>2, <3>3
    <3>6. e \in [1..(n + 1) -> Nat]
      <4>1. \A k \in 1..(n + 1) : k <= n => k \in 1..n
        BY <2>2
      <4> QED BY <2>2, <2>3, <4>1
    <3>7. \A j, k \in 1..(n + 1) : j <= k => e[j] <= e[k]
      <4> SUFFICES ASSUME NEW j \in 1..(n + 1), NEW k \in 1..(n + 1), j <= k
                   PROVE  e[j] <= e[k]
        OBVIOUS
      <4>1. CASE k <= n
        <5>1. j \in 1..n /\ k \in 1..n
          BY <2>2, <4>1
        <5>2. e[j] = entries[j].at /\ e[k] = entries[k].at
          BY <3>4, <5>1
        <5> HIDE DEF e
        <5> QED BY <2>2, <5>1, <5>2
      <4>2. CASE ~(k <= n) /\ j <= n
        <5>1. j \in 1..n
          BY <2>2, <4>2
        <5>2. e[j] = entries[j].at /\ e[k] = now
          BY <3>4, <4>2, <5>1
        <5> HIDE DEF e
        <5> QED BY <2>2, <5>1, <5>2
      <4>3. CASE ~(k <= n) /\ ~(j <= n)
        <5>1. e[j] = now /\ e[k] = now
          BY <4>3
        <5> HIDE DEF e
        <5> QED BY <2>3, <5>1
      <4> QED BY <4>1, <4>2, <4>3
    <3> HIDE DEF e
    <3>8. \A k \in 1..n : spans[k].seconds = e[k + 1] - e[k]
      BY <2>4, <3>4
    <3>9. \A k \in 1..n : k \in P <=> e[k] < e[k + 1]
      <4>1. \A k \in 1..n : e[k] \in Nat /\ e[k + 1] \in Nat
        BY <3>2, <3>6
      <4>2. \A x, y \in Nat : \A z : z = y - x => (z > 0 <=> x < y)
        OBVIOUS
      <4> QED BY <2>5, <3>8, <4>1, <4>2, ZenonT(60)
    <3>10. \A k \in P : spans[k].seconds = e[k + 1] - e[k]
      BY <2>5, <3>8
    <3>11. Total(At(spans, P)) = e[n + 1] - e[1]
      BY <2>2, <2>5, <3>6, <3>7, <3>9, <3>10, SpansTotal
    <3> QED BY <2>1, <2>3, <2>6, <3>5, <3>11
  <2>7. CASE completed
    <3> DEFINE m == n - 1
               e == [k \in 1..(m + 1) |-> entries[k].at]
    <3>1. m \in Nat /\ m + 1 = n
      BY <2>2
    <3>2. EndAt = completed_at
      BY <2>3, <2>7 DEF EndAt
    <3>3. \A k \in 1..n : e[k] = entries[k].at
      BY <3>1
    <3>4. e \in [1..(m + 1) -> Nat]
      BY <2>2, <3>1
    <3>5. \A j, k \in 1..(m + 1) : j <= k => e[j] <= e[k]
      <4> HIDE DEF e, m
      <4> QED BY <2>2, <3>1, <3>3
    <3> HIDE DEF e, m
    <3>6. \A k \in 1..m : /\ k \in 1..n /\ k + 1 \in 1..n /\ k < n
      BY <2>2, <3>1
    <3>7. \A k \in 1..m : spans[k].seconds = e[k + 1] - e[k]
      BY <2>4, <3>3, <3>6
    <3>8. n \notin P
      <4>1. n \in 1..n /\ ~(n < n)
        BY <2>2
      <4>2. spans[n].seconds = completed_at - entries[n].at
        BY <2>4, <3>2, <4>1
      <4>3. completed_at \in Nat /\ entries[n].at \in Nat /\ completed_at <= entries[n].at
        BY <2>2, <2>3, <2>7, <4>1
      <4>4. ~(spans[n].seconds > 0)
        BY <4>2, <4>3
      <4> QED BY <2>5, <4>1, <4>4
    <3>9. P \in SUBSET (1..m)
      <4>1. \A k \in 1..n : k # n => k \in 1..m
        BY <2>2, <3>1
      <4> QED BY <2>5, <3>8, <4>1
    <3>10. \A k \in 1..m : k \in P <=> e[k] < e[k + 1]
      <4>1. \A k \in 1..m : e[k] \in Nat /\ e[k + 1] \in Nat
        BY <3>1, <3>4, <3>6
      <4>2. \A x, y \in Nat : \A z : z = y - x => (z > 0 <=> x < y)
        OBVIOUS
      <4> QED BY <2>5, <3>6, <3>7, <4>1, <4>2, ZenonT(60)
    <3>11. Total(At(spans, P)) = e[m + 1] - e[1]
      <4>1. \A k \in P : spans[k].seconds = e[k + 1] - e[k]
        BY <3>7, <3>9
      <4> QED BY <3>1, <3>4, <3>5, <3>9, <3>10, <4>1, SpansTotal
    <3>12. Total(Spans) = entries[n].at - started_at
      <4>1. 1 \in 1..n /\ n \in 1..n
        BY <2>2
      <4> QED BY <2>1, <2>2, <3>1, <3>3, <3>11, <4>1
    <3>13. CompletionTimes[1] = completed_at - started_at
      BY <2>3, <2>7 DEF CompletionTimes
    <3>14. /\ completed_at \in Nat /\ entries[n].at \in Nat /\ MaxLag \in Nat
           /\ completed_at <= entries[n].at /\ entries[n].at <= completed_at + MaxLag
      <4>1. n \in 1..n
        BY <2>2
      <4> QED BY <2>2, <2>3, <2>7, <4>1, ClockAssumption
    <3> QED BY <2>3, <2>7, <3>12, <3>13, <3>14
  <2> QED BY <2>6, <2>7
<1> QED BY <1>1, AlwaysReckoned, PTL

-----------------------------------------------------------------------------
(* The statistics of durations.                                            *)

(* A list of numbers, sorted: what Ordered chooses is there, in order.     *)
LEMMA OrderedSorted ==
  ASSUME NEW values \in Seq(Int)
  PROVE  LET n == Len(values)
         IN  /\ n \in Nat
             /\ \A k \in 1..n : /\ Ordered(values)[k] \in Int
                                /\ \E i \in 1..n : Ordered(values)[k] = values[i]
             /\ \A j, k \in 1..n : j <= k => Ordered(values)[j] <= Ordered(values)[k]
<1> DEFINE n == Len(values)
           D == 1..n
           V == {values[i] : i \in D}
           below(v) == {i \in D : values[i] < v}
           upto(v) == {i \in D : values[i] <= v}
           kth(k, v) == Cardinality(below(v)) < k /\ k <= Cardinality(upto(v))
<1>1. n \in Nat /\ DOMAIN values = D /\ \A i \in D : values[i] \in Int
  OBVIOUS
<1>2. IsFiniteSet(D) /\ Cardinality(D) = n
  <2> HIDE DEF n
  <2>1. IsFiniteSet(1..n) /\ Cardinality(1..n) = n
    BY <1>1, FS_Interval
  <2> QED BY <2>1
<1>3. Ordered(values) = [k \in D |-> CHOOSE v \in V : kth(k, v)]
  BY <1>1 DEF Ordered
<1>4. \A v : below(v) \subseteq D /\ upto(v) \subseteq D
  OBVIOUS
<1>5. \A v : /\ IsFiniteSet(below(v)) /\ Cardinality(below(v)) \in Nat
             /\ IsFiniteSet(upto(v)) /\ Cardinality(upto(v)) \in Nat
  <2> HIDE DEF D, below, upto
  <2> QED BY <1>2, <1>4, FS_Subset, FS_CardinalityType
<1>6. V \in SUBSET Int /\ \A i \in D : values[i] \in V
  BY <1>1
<1>7. IsFiniteSet(V)
  <2> DEFINE s == [i \in D |-> values[i]]
  <2>1. s \in Surjection(D, V)
    BY DEF Surjection
  <2> HIDE DEF D, V, s
  <2> QED BY <1>2, <2>1, FS_Surjection
<1>8. ASSUME NEW k \in D
      PROVE  \E v \in V : kth(k, v)
  <2> DEFINE c == Cardinality(V)
             A == Ascending(V)
             enough == {j \in 1..c : k <= Cardinality(upto(A[j]))}
  <2>1. /\ c \in Nat /\ A \in [1..c -> V]
        /\ \A j, l \in 1..c : j < l => A[j] < A[l]
        /\ \A v \in V : \E j \in 1..c : A[j] = v
    <3> HIDE DEF V
    <3> QED BY <1>6, <1>7, AscendingLists
  <2>2. \A i \in D : \E j \in 1..c : A[j] = values[i]
    <3> HIDE DEF V, c, A
    <3> QED BY <1>6, <2>1
  <2>3. \A j \in 1..c : A[j] \in Int /\ A[j] \in V
    <3> HIDE DEF V, c, A
    <3> QED BY <1>6, <2>1
  <2> HIDE DEF c, A, V
  <2>4. c \in enough
    <3>1. c \in 1..c
      <4>1. \E j \in 1..c : TRUE
        BY <2>2
      <4> QED BY <2>1, <4>1
    <3>2. \A i \in D : values[i] <= A[c]
      <4> SUFFICES ASSUME NEW i \in D PROVE values[i] <= A[c]
        OBVIOUS
      <4>1. PICK j \in 1..c : A[j] = values[i]
        BY <2>2
      <4>2. j = c \/ j < c
        BY <2>1
      <4> QED BY <2>1, <2>3, <3>1, <4>1, <4>2
    <3>3. upto(A[c]) = D
      BY <3>2
    <3> HIDE DEF upto
    <3> QED BY <1>1, <1>2, <3>1, <3>3
  <2>5. PICK q \in enough : \A j \in enough : q <= j
    <3>1. enough \in SUBSET Nat
      OBVIOUS
    <3> HIDE DEF enough
    <3> QED BY <2>4, <3>1, LeastNatural
  <2>6. q \in 1..c /\ k <= Cardinality(upto(A[q]))
    BY <2>5
  <2>7. Cardinality(below(A[q])) < k
    <3>1. CASE q = 1
      <4>1. below(A[q]) = {}
        <5> SUFFICES ASSUME NEW i \in D, values[i] < A[q] PROVE FALSE
          OBVIOUS
        <5>1. PICK j \in 1..c : A[j] = values[i]
          BY <2>2
        <5>2. j = 1 \/ 1 < j
          OBVIOUS
        <5> QED BY <2>1, <2>3, <2>6, <3>1, <5>1, <5>2
      <4>2. Cardinality(below(A[q])) = 0
        BY <4>1, FS_EmptySet
      <4> QED BY <1>1, <4>2
    <3>2. CASE q # 1
      <4> DEFINE p == q - 1
      <4>1. p \in 1..c /\ p < q
        BY <2>1, <2>6, <3>2
      <4>2. p \notin enough
        <5> HIDE DEF p, enough
        <5>1. q \in Nat /\ p \in Nat
          BY <2>6, <4>1
        <5> QED BY <2>5, <4>1, <5>1
      <4>3. ~(k <= Cardinality(upto(A[p])))
        BY <4>1, <4>2
      <4> HIDE DEF p
      <4>4. below(A[q]) = upto(A[p])
        <5>1. ASSUME NEW i \in D
              PROVE  values[i] < A[q] <=> values[i] <= A[p]
          <6>1. PICK j \in 1..c : A[j] = values[i]
            BY <2>2
          <6>2. j < q <=> j <= p
            <7>1. j < q <=> j <= q - 1
              BY <2>6
            <7> QED BY <7>1 DEF p
          <6>3. j < q => A[j] < A[q]
            BY <2>1, <2>6
          <6>4. ~(j < q) => A[q] <= A[j]
            <7>1. ~(j < q) => j = q \/ q < j
              BY <2>6
            <7> QED BY <2>1, <2>3, <2>6, <7>1
          <6>5. j <= p => A[j] <= A[p]
            <7>1. j <= p => j = p \/ j < p
              BY <4>1
            <7> QED BY <2>1, <2>3, <4>1, <7>1
          <6>6. A[p] < A[q]
            BY <2>1, <2>6, <4>1
          <6> QED BY <2>3, <2>6, <4>1, <6>1, <6>2, <6>3, <6>4, <6>5, <6>6
        <5> QED BY <5>1
      <4>5. k \in Nat /\ Cardinality(upto(A[p])) \in Nat
        <5>1. k \in Nat
          BY <1>1
        <5> HIDE DEF upto
        <5> QED BY <1>5, <5>1
      <4> HIDE DEF upto, below
      <4> QED BY <4>3, <4>4, <4>5
    <3> QED BY <3>1, <3>2
  <2> QED BY <2>3, <2>6, <2>7
<1> HIDE DEF kth
<1>9. ASSUME NEW k \in D
      PROVE  Ordered(values)[k] \in V /\ kth(k, Ordered(values)[k])
  <2>1. Ordered(values)[k] = CHOOSE v \in V : kth(k, v)
    BY <1>3
  <2> HIDE DEF V
  <2> QED BY <1>8, <2>1
<1>10. ASSUME NEW j \in D, NEW k \in D, j <= k
       PROVE  Ordered(values)[j] <= Ordered(values)[k]
  <2> DEFINE v == Ordered(values)[j]
             w == Ordered(values)[k]
  <2>1. v \in Int /\ w \in Int /\ kth(j, v) /\ kth(k, w)
    BY <1>6, <1>9
  <2> HIDE DEF v, w
  <2>2. SUFFICES ASSUME w < v PROVE FALSE
    BY <2>1 DEF v, w
  <2>3. upto(w) \subseteq below(v)
    BY <1>1, <2>1, <2>2
  <2> HIDE DEF upto, below
  <2>4. Cardinality(upto(w)) <= Cardinality(below(v))
    BY <1>5, <2>3, FS_Subset
  <2>5. Cardinality(upto(w)) \in Nat /\ Cardinality(below(v)) \in Nat /\ j \in Nat /\ k \in Nat
    BY <1>5
  <2> QED BY <1>10, <2>1, <2>4, <2>5 DEF kth
<1> QED BY <1>1, <1>6, <1>9, <1>10

(* The ranks that the percentiles and the median read are in this order.   *)
LEMMA RoundedGrows ==
  ASSUME NEW a \in Nat, NEW b \in Nat, a <= b
  PROVE  RoundedQuotient(a, 100) <= RoundedQuotient(b, 100)
<1> DEFINE p == a \div 100
           q == b \div 100
           r == a % 100
           s == b % 100
<1>1. /\ p \in Nat /\ r \in 0..99 /\ a = 100 * p + r
      /\ q \in Nat /\ s \in 0..99 /\ b = 100 * q + s
  OBVIOUS
<1>2. /\ RoundedQuotient(a, 100) =
           IF 2 * r < 100 \/ (2 * r = 100 /\ p % 2 = 0) THEN p ELSE p + 1
      /\ RoundedQuotient(b, 100) =
           IF 2 * s < 100 \/ (2 * s = 100 /\ q % 2 = 0) THEN q ELSE q + 1
  BY DEF RoundedQuotient
<1> HIDE DEF p, q, r, s
<1>3. (p = q /\ r <= s) \/ p + 1 <= q
  BY <1>1
<1>4. CASE p = q /\ r <= s
  BY <1>1, <1>2, <1>4
<1>5. CASE p + 1 <= q
  <2>1. RoundedQuotient(a, 100) <= p + 1 /\ q <= RoundedQuotient(b, 100)
        /\ RoundedQuotient(a, 100) \in Nat /\ RoundedQuotient(b, 100) \in Nat
    BY <1>1, <1>2
  <2> QED BY <1>1, <1>5, <2>1
<1> QED BY <1>3, <1>4, <1>5

LEMMA RanksInOrder ==
  ASSUME NEW n \in Nat \ {0}
  PROVE  /\ 1 \in 1..n /\ n \in 1..n /\ n \div 2 + 1 \in 1..n /\ (n + 1) \div 2 \in 1..n
         /\ Rank(n, 95) \in 1..n /\ Rank(n, 99) \in 1..n
         /\ n \div 2 + 1 <= Rank(n, 95) /\ (n + 1) \div 2 <= Rank(n, 95)
         /\ Rank(n, 95) <= Rank(n, 99)
<1> DEFINE h == n \div 2
           g == (n + 1) \div 2
           a == RoundedQuotient(95 * n, 100)
           b == RoundedQuotient(99 * n, 100)
<1>1. /\ h \in Nat /\ g \in Nat /\ 2 * h <= n /\ n <= 2 * h + 1 /\ g <= h + 1 /\ 1 <= g
      /\ h + 1 <= n \/ n = 1
  OBVIOUS
<1>2. h + 1 <= n /\ g <= n
  BY <1>1
<1>3. 95 * n \in Nat /\ 99 * n \in Nat /\ 95 * n <= 99 * n
  OBVIOUS
<1>4. /\ a \in Nat /\ b \in Nat /\ a <= b
      /\ 95 * n <= 100 * a + 50
  BY <1>3, RoundedNear, RoundedGrows
<1>5. /\ Rank(n, 95) = LET positive == IF a - 1 < 0 THEN 0 ELSE a - 1
                       IN  1 + IF positive < n - 1 THEN positive ELSE n - 1
      /\ Rank(n, 99) = LET positive == IF b - 1 < 0 THEN 0 ELSE b - 1
                       IN  1 + IF positive < n - 1 THEN positive ELSE n - 1
  BY DEF Rank
<1> HIDE DEF a, b, h, g
<1>6. /\ Rank(n, 95) \in 1..n /\ Rank(n, 99) \in 1..n /\ Rank(n, 95) <= Rank(n, 99)
      /\ Rank(n, 95) = n \/ Rank(n, 95) >= a
  BY <1>4, <1>5
<1>7. n = 1 \/ h + 1 <= a
  BY <1>1, <1>4
<1>8. h + 1 <= Rank(n, 95) /\ g <= Rank(n, 95)
  BY <1>1, <1>2, <1>4, <1>6, <1>7
<1> QED BY <1>1, <1>2, <1>6, <1>8 DEF h, g

(* The statistics of any durations are in order.                           *)
LEMMA StatisticsOrdered ==
  ASSUME NEW values \in Seq(Int)
  PROVE  StatsOrdered(DurationStats(values))
<1> DEFINE n == Len(values)
           o == Ordered(values)
           stats == DurationStats(values)
<1>1. n \in Nat
  OBVIOUS
<1>2. CASE n = 0
  <2>1. stats = [count |-> 0]
    BY <1>2 DEF DurationStats
  <2>2. stats.count = 0
    BY <2>1
  <2> QED BY <2>2 DEF StatsOrdered
<1>3. CASE n # 0
  <2>1. /\ stats.minimum = o[1] /\ stats.maximum = o[n]
        /\ stats.twice_median = o[n \div 2 + 1] + o[(n + 1) \div 2]
        /\ stats.p95 = o[Rank(n, 95)] /\ stats.p99 = o[Rank(n, 99)]
    BY <1>3 DEF DurationStats
  <2> HIDE DEF stats
  <2>2. /\ \A k \in 1..n : o[k] \in Int
        /\ \A j, k \in 1..n : j <= k => o[j] <= o[k]
    BY OrderedSorted
  <2> DEFINE h == n \div 2 + 1
             g == (n + 1) \div 2
             r == Rank(n, 95)
             t == Rank(n, 99)
  <2>3. /\ 1 \in 1..n /\ n \in 1..n /\ h \in 1..n /\ g \in 1..n /\ r \in 1..n /\ t \in 1..n
        /\ h <= r /\ g <= r /\ r <= t
    BY <1>1, <1>3, RanksInOrder, ZenonT(60)
  <2> HIDE DEF n, o, h, g, r, t
  <2>4. /\ o[1] <= o[h] /\ o[1] <= o[g] /\ o[h] <= o[r] /\ o[g] <= o[r] /\ o[r] <= o[t]
        /\ o[t] <= o[n]
    <3>1. 1 <= h /\ 1 <= g /\ t <= n
      BY <1>1, <2>3
    <3> QED BY <2>2, <2>3, <3>1
  <2>5. /\ o[1] \in Int /\ o[h] \in Int /\ o[g] \in Int /\ o[r] \in Int /\ o[t] \in Int
        /\ o[n] \in Int
    BY <2>2, <2>3
  <2>6. 2 * o[1] <= o[h] + o[g] /\ o[h] + o[g] <= 2 * o[r]
    BY <2>4, <2>5
  <2>7. /\ stats.minimum = o[1] /\ stats.maximum = o[n] /\ stats.twice_median = o[h] + o[g]
        /\ stats.p95 = o[r] /\ stats.p99 = o[t]
    BY <2>1 DEF h, g, r, t
  <2> QED BY <2>4, <2>6, <2>7 DEF StatsOrdered, stats
<1> QED BY <1>2, <1>3

(* A sum of numbers that are all at least a is at least a for each.        *)
LEMMA SumAtLeast ==
  ASSUME NEW S, IsFiniteSet(S), NEW a \in Nat, NEW f, \A x \in S : f[x] \in Nat /\ a <= f[x]
  PROVE  a * Cardinality(S) <= Cardinality(Units(f, S))
<1> DEFINE Right(s) == a * Cardinality(s) <= Cardinality(Units(f, s))
           T == {n \in Nat : \A s \in SUBSET S :
                   IsFiniteSet(s) /\ Cardinality(s) = n => Right(s)}
<1>1. 0 \in T
  <2> SUFFICES ASSUME NEW s \in SUBSET S, IsFiniteSet(s), Cardinality(s) = 0
               PROVE  Right(s)
    OBVIOUS
  <2>1. s = {}
    BY FS_EmptySet
  <2>2. Cardinality(Units(f, s)) = 0
    BY <2>1, UnitsOfNone
  <2> QED BY <2>2
<1>2. ASSUME NEW n \in Nat, n \in T
      PROVE  n + 1 \in T
  <2> SUFFICES ASSUME NEW s \in SUBSET S, IsFiniteSet(s), Cardinality(s) = n + 1
               PROVE  Right(s)
    OBVIOUS
  <2>1. PICK x \in s : TRUE
    <3>1. s # {}
      BY FS_EmptySet
    <3> QED BY <3>1
  <2> DEFINE t == s \ {x}
  <2>2. IsFiniteSet(t) /\ Cardinality(t) = n
    <3>1. IsFiniteSet(s \ {x}) /\ Cardinality(s \ {x}) = Cardinality(s) - 1
      BY <2>1, FS_RemoveElement, Zenon
    <3> QED BY <3>1
  <2>3. t \in SUBSET S /\ f[x] \in Nat /\ a <= f[x] /\ \A y \in t : f[y] \in Nat
    OBVIOUS
  <2>4. Right(t)
    BY <1>2, <2>2, <2>3
  <2>5. IsFiniteSet(Units(f, t)) /\ Cardinality(Units(f, t)) \in Nat
    <3> HIDE DEF t
    <3> QED BY <2>2, <2>3, SumCounts
  <2>6. Cardinality(Units(f, s)) = f[x] + Cardinality(Units(f, t))
    <3>1. f[x] \in Nat /\ IsFiniteSet(Units(f, s \ {x})) /\ x \in s
      BY <2>1, <2>3, <2>5
    <3>2. Cardinality(Units(f, s)) = f[x] + Cardinality(Units(f, s \ {x}))
      BY <3>1, UnitsStep
    <3> QED BY <3>2
  <2>7. a * (n + 1) = a * n + a /\ a * n \in Nat
    <3>1. \A b, c \in Nat : b * (c + 1) = b * c + b
      OBVIOUS
    <3>2. \A b, c \in Nat : b * c \in Nat
      OBVIOUS
    <3> QED BY <3>1, <3>2
  <2> HIDE DEF t
  <2>8. a * n <= Cardinality(Units(f, t))
    BY <2>2, <2>4
  <2> QED BY <2>3, <2>5, <2>6, <2>7, <2>8
<1> HIDE DEF T
<1>3. Cardinality(S) \in T
  <2>1. \A n \in Nat : n \in T => n + 1 \in T
    BY <1>2
  <2> QED BY <1>1, <2>1, EveryNatural, FS_CardinalityType
<1> QED BY <1>3 DEF T

(* The products as the fold computes them, one element at a time.          *)
Multiplied(f, S, g) ==
  g = [s \in SUBSET S |->
         IF s = {} THEN 1
         ELSE g[s \ {CHOOSE x \in s : TRUE}] * f[CHOOSE x \in s : TRUE]]

(* The fold is defined: its values for sets of at most n elements give     *)
(* those for sets of n + 1.                                                *)
LEMMA ProductExists ==
  ASSUME NEW S, IsFiniteSet(S), NEW f
  PROVE  \E g : Multiplied(f, S, g)
<1> DEFINE step(s, g) == IF s = {} THEN 1
                         ELSE g[s \ {CHOOSE x \in s : TRUE}] * f[CHOOSE x \in s : TRUE]
           Upto(n, g) == \A s \in SUBSET S : Cardinality(s) <= n => g[s] = step(s, g)
           T == {n \in Nat : \E g : Upto(n, g)}
<1>1. \A s \in SUBSET S : IsFiniteSet(s) /\ Cardinality(s) \in Nat
                          /\ Cardinality(s) <= Cardinality(S)
  BY FS_Subset, FS_CardinalityType
<1>2. 0 \in T
  <2> DEFINE g == [s \in SUBSET S |-> 1]
  <2>1. ASSUME NEW s \in SUBSET S, Cardinality(s) <= 0
        PROVE  g[s] = step(s, g)
    <3>1. s = {}
      <4>1. Cardinality(s) = 0
        BY <1>1, <2>1
      <4> QED BY <1>1, <4>1, FS_EmptySet
    <3> QED BY <3>1
  <2> HIDE DEF g, step
  <2>2. Upto(0, g)
    BY <2>1
  <2> QED BY <2>2
<1>3. ASSUME NEW n \in Nat, n \in T
      PROVE  n + 1 \in T
  <2>1. PICK g : Upto(n, g)
    BY <1>3
  <2> DEFINE h == [s \in SUBSET S |-> IF Cardinality(s) <= n THEN g[s] ELSE step(s, g)]
  <2>2. ASSUME NEW s \in SUBSET S, Cardinality(s) <= n + 1
        PROVE  h[s] = step(s, h)
    <3>1. h[s] = step(s, g)
      BY <2>1
    <3>2. step(s, h) = step(s, g)
      <4>1. CASE s = {}
        BY <4>1
      <4>2. CASE s # {}
        <5> DEFINE x == CHOOSE x \in s : TRUE
                   t == s \ {x}
        <5>1. x \in s
          BY <4>2
        <5>2. step(s, h) = h[t] * f[x] /\ step(s, g) = g[t] * f[x]
          BY <4>2
        <5> HIDE DEF x
        <5>3. Cardinality(t) = Cardinality(s) - 1
          BY <1>1, <5>1, FS_RemoveElement, Zenon
        <5>4. t \in SUBSET S /\ Cardinality(t) <= n
          BY <1>1, <2>2, <5>3
        <5> HIDE DEF t, step
        <5>5. h[t] = g[t]
          BY <5>4
        <5> QED BY <5>2, <5>5
      <4> QED BY <4>1, <4>2
    <3> QED BY <3>1, <3>2
  <2> HIDE DEF h, step
  <2>3. Upto(n + 1, h)
    BY <2>2
  <2> QED BY <2>3
<1>4. Cardinality(S) \in T
  <2> HIDE DEF T
  <2>1. \A n \in Nat : n \in T => n + 1 \in T
    BY <1>3
  <2> QED BY <1>2, <2>1, EveryNatural, FS_CardinalityType
<1>5. PICK g : Upto(Cardinality(S), g)
  BY <1>4
<1> DEFINE h == [s \in SUBSET S |-> g[s]]
<1>6. ASSUME NEW s \in SUBSET S
      PROVE  h[s] = step(s, h)
  <2>1. \A t \in SUBSET S : h[t] = g[t]
    OBVIOUS
  <2>2. g[s] = step(s, g)
    BY <1>1, <1>5
  <2>3. s # {} => s \ {CHOOSE x \in s : TRUE} \in SUBSET S
    OBVIOUS
  <2> HIDE DEF h
  <2> QED BY <2>1, <2>2, <2>3
<1>7. h = [s \in SUBSET S |-> step(s, h)]
  <2> HIDE DEF step
  <2>1. h = [s \in SUBSET S |-> h[s]]
    OBVIOUS
  <2> HIDE DEF h
  <2> QED BY <1>6, <2>1
<1> HIDE DEF h
<1>8. Multiplied(f, S, h)
  BY <1>7 DEF Multiplied
<1> QED BY <1>8

(* Each factor divides the product, and no factor makes it zero.           *)
LEMMA ProductDivides ==
  ASSUME NEW S, IsFiniteSet(S), NEW f, \A x \in S : f[x] \in Nat \ {0},
         NEW g, Multiplied(f, S, g)
  PROVE  /\ g[S] \in Nat \ {0}
         /\ \A x \in S : \E q \in Nat \ {0} : g[S] = q * f[x]
<1> DEFINE Right(s) == /\ g[s] \in Nat \ {0}
                       /\ \A x \in s : \E q \in Nat \ {0} : g[s] = q * f[x]
           T == {n \in Nat : \A s \in SUBSET S :
                   IsFiniteSet(s) /\ Cardinality(s) = n => Right(s)}
<1>1. 0 \in T
  <2> SUFFICES ASSUME NEW s \in SUBSET S, IsFiniteSet(s), Cardinality(s) = 0
               PROVE  Right(s)
    OBVIOUS
  <2>1. s = {}
    BY FS_EmptySet
  <2>2. g[{}] = 1
    BY DEF Multiplied
  <2> QED BY <2>1, <2>2
<1>2. ASSUME NEW n \in Nat, n \in T
      PROVE  n + 1 \in T
  <2> SUFFICES ASSUME NEW s \in SUBSET S, IsFiniteSet(s), Cardinality(s) = n + 1
               PROVE  Right(s)
    OBVIOUS
  <2> DEFINE x == CHOOSE x \in s : TRUE
             t == s \ {x}
  <2>1. s # {}
    BY FS_EmptySet
  <2>2. x \in s
    BY <2>1
  <2>3. g[s] = g[t] * f[x]
    BY <2>1 DEF Multiplied
  <2> HIDE DEF x
  <2>4. IsFiniteSet(t) /\ Cardinality(t) = n
    <3>1. IsFiniteSet(s \ {x}) /\ Cardinality(s \ {x}) = Cardinality(s) - 1
      BY <2>2, FS_RemoveElement, Zenon
    <3> QED BY <3>1
  <2>5. Right(t)
    <3>1. t \in SUBSET S
      OBVIOUS
    <3> HIDE DEF t, Right
    <3> QED BY <1>2, <2>4, <3>1
  <2>6. \A y \in s : y = x \/ y \in t
    OBVIOUS
  <2>7. /\ \A b, c \in Nat \ {0} : b * c \in Nat \ {0}
        /\ \A b, c, d \in Nat \ {0} : (b * c) * d = (b * d) * c
    OBVIOUS
  <2>8. f[x] \in Nat \ {0} /\ \A y \in t : f[y] \in Nat \ {0}
    BY <2>2
  <2> HIDE DEF t
  <2>9. g[s] \in Nat \ {0}
    BY <2>3, <2>5, <2>7, <2>8
  <2>10. ASSUME NEW y \in s
         PROVE  \E q \in Nat \ {0} : g[s] = q * f[y]
    <3>1. CASE y = x
      BY <2>3, <2>5, <3>1
    <3>2. CASE y \in t
      <4>1. PICK q \in Nat \ {0} : g[t] = q * f[y]
        BY <2>5, <3>2
      <4>2. (q * f[y]) * f[x] = (q * f[x]) * f[y] /\ q * f[x] \in Nat \ {0}
        BY <2>7, <2>8, <3>2
      <4>3. g[s] = (q * f[x]) * f[y]
        BY <2>3, <4>1, <4>2
      <4> QED BY <4>2, <4>3
    <3> QED BY <2>6, <3>1, <3>2
  <2> QED BY <2>9, <2>10
<1> HIDE DEF T
<1>3. Cardinality(S) \in T
  <2>1. \A n \in Nat : n \in T => n + 1 \in T
    BY <1>2
  <2> QED BY <1>1, <2>1, EveryNatural, FS_CardinalityType
<1>4. Right(S)
  BY <1>3 DEF T
<1> QED BY <1>4

(* The total of durations.                                                 *)
LEMMA DurationsAdd ==
  ASSUME NEW values \in Seq(Nat)
  PROVE  FoldSeq(+, 0, values) \in Nat
<1> DEFINE D == DOMAIN values
           Sums(g) ==
             g = [s \in SUBSET D |->
                    IF s = {} THEN 0
                    ELSE values[CHOOSE x \in s : TRUE] + g[s \ {CHOOSE x \in s : TRUE}]]
<1>1. FoldSeq(+, 0, values) = (CHOOSE g : Sums(g))[D]
  BY Zenon DEF FoldSeq, FoldFunction, FoldFunctionOnSet, MapThenFoldSet
<1>2. IsFiniteSet(D) /\ \A x \in D : values[x] \in Nat
  <2> DEFINE n == Len(values)
  <2>1. D = 1..n /\ n \in Nat /\ \A x \in D : values[x] \in Nat
    OBVIOUS
  <2> HIDE DEF n
  <2>2. IsFiniteSet(1..n)
    BY <2>1, FS_Interval
  <2> QED BY <2>1, <2>2
<1>3. \A g : Sums(g) <=> Folded(values, D, g)
  BY DEF Folded
<1> HIDE DEF D, Sums
<1>4. PICK g : Folded(values, D, g)
  BY <1>2, SumExists
<1>5. Folded(values, D, CHOOSE h : Sums(h))
  BY <1>3, <1>4
<1>6. (CHOOSE h : Sums(h))[D] = Cardinality(Units(values, D))
      /\ Cardinality(Units(values, D)) \in Nat
  BY <1>2, <1>5, SumCounts
<1> QED BY <1>1, <1>6

LEMMA DurationsCounted ==
  ASSUME NEW values \in Seq(Nat), Len(values) # 0
  PROVE  LET stats == DurationStats(values)
         IN  /\ stats.count \in Nat \ {0} /\ stats.total \in Nat
             /\ StatsOrdered(stats)
<1>1. values \in Seq(Int) /\ Len(values) \in Nat
  OBVIOUS
<1>2. /\ DurationStats(values).count = Len(values)
      /\ DurationStats(values).total = FoldSeq(+, 0, values)
  BY DEF DurationStats
<1> QED BY <1>1, <1>2, DurationsAdd, StatisticsOrdered

(* Whoever is flagged stays longer on average than whoever is not, and not *)
(* everyone is above a quarter more than the average of all.               *)
LEMMA BottlenecksSound ==
  ASSUME IsFiniteSet(DOMAIN StateDurations),
         \A s \in DOMAIN StateDurations :
           /\ StateDurations[s].count \in Nat \ {0} /\ StateDurations[s].total \in Nat
  PROVE  LET rows == StateDurations
             flagged == Bottlenecks(125)
         IN  /\ flagged # {} => flagged # DOMAIN rows
             /\ \A s \in flagged, r \in DOMAIN rows \ flagged :
                  rows[s].total * rows[r].count > rows[r].total * rows[s].count
<1> DEFINE rows == StateDurations
           D == DOMAIN rows
           N == Cardinality(D)
           product == FoldSet(LAMBDA s, p : p * rows[s].count, 1, D)
           average(s) == rows[s].total * (product \div rows[s].count)
           overall == MapThenSumSet(average, D)
           flagged == Bottlenecks(125)
           Products(g) ==
             g = [s \in SUBSET D |->
                    IF s = {} THEN 1
                    ELSE g[s \ {CHOOSE x \in s : TRUE}]
                         * rows[CHOOSE x \in s : TRUE].count]
           Sums(g) ==
             g = [s \in SUBSET D |->
                    IF s = {} THEN 0
                    ELSE average(CHOOSE x \in s : TRUE) + g[s \ {CHOOSE x \in s : TRUE}]]
           counts == [s \in D |-> rows[s].count]
           averages == [s \in D |-> average(s)]
<1>1. flagged = {s \in D : average(s) * N * 100 > overall * 125}
  BY DEF Bottlenecks
<1>2. product = (CHOOSE g : Products(g))[D]
  BY Zenon DEF FoldSet, MapThenFoldSet
<1> HIDE DEF rows, product
<1>3. overall = (CHOOSE g : Sums(g))[D]
  BY Zenon DEF MapThenSumSet, MapThenFoldSet
<1> HIDE DEF overall, flagged
<1>4. IsFiniteSet(D) /\ N \in Nat
      /\ \A s \in D : rows[s].count \in Nat \ {0} /\ rows[s].total \in Nat
  <2>1. IsFiniteSet(D)
    BY DEF rows
  <2> QED BY <2>1, FS_CardinalityType DEF rows
<1>5. \A s \in SUBSET D : s # {} => (CHOOSE x \in s : TRUE) \in D
  OBVIOUS
<1>6. /\ product \in Nat \ {0}
      /\ \A s \in D : \E q \in Nat \ {0} : product = q * rows[s].count
  <2>1. \A g : Products(g) <=> Multiplied(counts, D, g)
    <3>1. ASSUME NEW s \in SUBSET D, s # {}
          PROVE  rows[CHOOSE x \in s : TRUE].count = counts[CHOOSE x \in s : TRUE]
      BY <1>5, <3>1
    <3> DEFINE a(s, g) == IF s = {} THEN 1
                          ELSE g[s \ {CHOOSE x \in s : TRUE}]
                               * rows[CHOOSE x \in s : TRUE].count
               b(s, g) == IF s = {} THEN 1
                          ELSE g[s \ {CHOOSE x \in s : TRUE}]
                               * counts[CHOOSE x \in s : TRUE]
    <3> HIDE DEF counts, D
    <3>2. \A g : \A s \in SUBSET D : a(s, g) = b(s, g)
      BY <3>1
    <3> HIDE DEF a, b
    <3>3. \A g : [s \in SUBSET D |-> a(s, g)] = [s \in SUBSET D |-> b(s, g)]
      BY <3>2
    <3>4. \A g : Products(g) <=> g = [s \in SUBSET D |-> a(s, g)]
      BY DEF a
    <3>5. \A g : Multiplied(counts, D, g) <=> g = [s \in SUBSET D |-> b(s, g)]
      BY DEF Multiplied, b
    <3> HIDE DEF Products
    <3> QED BY <3>3, <3>4, <3>5, ZenonT(60)
  <2>2. \A s \in D : counts[s] \in Nat \ {0} /\ counts[s] = rows[s].count
    BY <1>4
  <2> HIDE DEF counts, Products, D
  <2>3. PICK g : Multiplied(counts, D, g)
    BY <1>4, ProductExists
  <2>4. Multiplied(counts, D, CHOOSE h : Products(h))
    BY <2>1, <2>3
  <2> DEFINE h == CHOOSE h : Products(h)
  <2>5. product = h[D] /\ Multiplied(counts, D, h)
    BY <1>2, <2>4
  <2> HIDE DEF h
  <2>6. /\ h[D] \in Nat \ {0}
        /\ \A s \in D : \E q \in Nat \ {0} : h[D] = q * counts[s]
    BY <1>4, <2>2, <2>5, ProductDivides
  <2> QED BY <2>2, <2>5, <2>6
<1>7. ASSUME NEW s \in D
      PROVE  \E q \in Nat \ {0} : /\ product = q * rows[s].count
                                  /\ average(s) = rows[s].total * q
                                  /\ average(s) \in Nat
  <2>1. PICK q \in Nat \ {0} : product = q * rows[s].count
    BY <1>6
  <2>2. product \div rows[s].count = q
    <3>1. \A c \in Nat \ {0}, k \in Nat : (k * c) \div c = k
      OBVIOUS
    <3> QED BY <1>4, <2>1, <3>1
  <2>3. rows[s].total * q \in Nat
    <3>1. \A b, c \in Nat : b * c \in Nat
      OBVIOUS
    <3> QED BY <1>4, <3>1
  <2> QED BY <2>1, <2>2, <2>3
<1>8. overall = Cardinality(Units(averages, D))
  <2>1. \A g : Sums(g) <=> Folded(averages, D, g)
    <3>1. ASSUME NEW s \in SUBSET D, s # {}
          PROVE  average(CHOOSE x \in s : TRUE) = averages[CHOOSE x \in s : TRUE]
      BY <1>5, <3>1
    <3> DEFINE a(s, g) == IF s = {} THEN 0
                          ELSE average(CHOOSE x \in s : TRUE)
                               + g[s \ {CHOOSE x \in s : TRUE}]
               b(s, g) == IF s = {} THEN 0
                          ELSE averages[CHOOSE x \in s : TRUE]
                               + g[s \ {CHOOSE x \in s : TRUE}]
    <3> HIDE DEF averages, average, D
    <3>2. \A g : \A s \in SUBSET D : a(s, g) = b(s, g)
      BY <3>1
    <3> HIDE DEF a, b
    <3>3. \A g : [s \in SUBSET D |-> a(s, g)] = [s \in SUBSET D |-> b(s, g)]
      BY <3>2
    <3>4. \A g : Sums(g) <=> g = [s \in SUBSET D |-> a(s, g)]
      BY DEF a
    <3>5. \A g : Folded(averages, D, g) <=> g = [s \in SUBSET D |-> b(s, g)]
      BY DEF Folded, b
    <3> HIDE DEF Sums
    <3> QED BY <3>3, <3>4, <3>5, ZenonT(60)
  <2>2. \A s \in D : averages[s] \in Nat
    BY <1>7
  <2> HIDE DEF averages, Sums, D
  <2>3. PICK g : Folded(averages, D, g)
    BY <1>4, <2>2, SumExists
  <2> DEFINE h == CHOOSE h : Sums(h)
  <2>4. overall = h[D] /\ Folded(averages, D, h)
    BY <1>3, <2>1, <2>3
  <2> HIDE DEF h
  <2> QED BY <1>4, <2>2, <2>4, SumCounts
<1>9. overall \in Nat /\ \A s \in D : averages[s] \in Nat /\ averages[s] = average(s)
  <2>1. \A s \in D : averages[s] \in Nat /\ averages[s] = average(s)
    BY <1>7
  <2> HIDE DEF averages, D
  <2> QED BY <1>4, <1>8, <2>1, SumCounts
<1> HIDE DEF average, averages, D
<1>10. ASSUME flagged # {}, flagged = D
       PROVE  FALSE
  <2>1. D # {}
    BY <1>10
  <2> DEFINE some == {averages[s] : s \in D}
  <2>2. PICK a \in some : \A b \in some : a <= b
    <3>1. some \in SUBSET Nat /\ some # {}
      BY <1>9, <2>1
    <3> HIDE DEF some
    <3> QED BY <3>1, LeastNatural
  <2>3. a \in Nat /\ \A s \in D : averages[s] \in Nat /\ a <= averages[s]
    BY <1>9, <2>2
  <2>4. a * N <= overall
    BY <1>4, <1>8, <2>3, SumAtLeast DEF N
  <2>5. PICK s \in D : averages[s] = a
    BY <2>2
  <2>6. a * N * 100 > overall * 125
    BY <1>1, <1>9, <1>10, <2>5
  <2>7. a * N \in Nat
    <3>1. \A b, c \in Nat : b * c \in Nat
      OBVIOUS
    <3> QED BY <1>4, <2>3, <3>1
  <2> DEFINE m == a * N
  <2> HIDE DEF m
  <2>8. m \in Nat /\ m <= overall /\ m * 100 > overall * 125
    BY <2>4, <2>6, <2>7 DEF m
  <2> QED BY <1>9, <2>8
<1>11. ASSUME NEW s \in flagged, NEW r \in D \ flagged
       PROVE  rows[s].total * rows[r].count > rows[r].total * rows[s].count
  <2>1. /\ s \in D /\ average(s) * N * 100 > overall * 125
        /\ ~(average(r) * N * 100 > overall * 125)
    BY <1>1, <1>11
  <2>2. PICK p \in Nat \ {0} : product = p * rows[s].count
                               /\ average(s) = rows[s].total * p /\ average(s) \in Nat
    BY <1>7, <2>1
  <2>3. PICK q \in Nat \ {0} : product = q * rows[r].count
                               /\ average(r) = rows[r].total * q /\ average(r) \in Nat
    BY <1>7, <1>11
  <2>4. ~(average(s) <= average(r))
    <3>1. \A x, y, z \in Nat : x <= y => x * z * 100 <= y * z * 100
      OBVIOUS
    <3>2. \A x, z \in Nat : x * z * 100 \in Nat
      OBVIOUS
    <3>3. average(s) * N * 100 \in Nat /\ average(r) * N * 100 \in Nat /\ overall * 125 \in Nat
      BY <1>4, <1>9, <2>2, <2>3, <3>2
    <3> HIDE DEF N
    <3>4. average(s) <= average(r) => average(s) * N * 100 <= average(r) * N * 100
      BY <1>4, <2>2, <2>3, <3>1
    <3> QED BY <1>9, <2>1, <3>3, <3>4
  <2> DEFINE a == rows[s].total
             b == rows[r].total
             c == rows[s].count
             d == rows[r].count
  <2>5. /\ a \in Nat /\ b \in Nat /\ c \in Nat \ {0} /\ d \in Nat \ {0}
        /\ p * c = q * d /\ p * c \in Nat \ {0} /\ ~(a * p <= b * q)
    BY <1>4, <1>6, <1>11, <2>1, <2>2, <2>3, <2>4
  <2> HIDE DEF a, b, c, d
  <2>6. ~(a * d <= b * c)
    <3> SUFFICES ASSUME a * d <= b * c PROVE a * p <= b * q
      BY <2>5
    <3>1. \A x, y \in Nat : x * y \in Nat
      OBVIOUS
    <3>2. \A x, y, z \in Nat : x <= y => x * z <= y * z
      OBVIOUS
    <3>3. \A x, y \in Nat, z \in Nat \ {0} : x * z <= y * z => x <= y
      OBVIOUS
    <3>4. (a * d) * (p * q) <= (b * c) * (p * q)
      BY <2>5, <3>1, <3>2
    <3>5. (a * d) * (p * q) = (a * p) * (q * d) /\ (b * c) * (p * q) = (b * q) * (p * c)
      <4>1. \A w, x, y, z \in Nat : (w * x) * (y * z) = (w * y) * (z * x)
        OBVIOUS
      <4>2. \A w, x, y, z \in Nat : (w * x) * (y * z) = (w * z) * (y * x)
        OBVIOUS
      <4> QED BY <2>5, <4>1, <4>2
    <3>6. (a * p) * (p * c) <= (b * q) * (p * c)
      BY <2>5, <3>4, <3>5
    <3> QED BY <2>5, <3>1, <3>3, <3>6
  <2>7. a * d \in Nat /\ b * c \in Nat
    <3>1. \A x, y \in Nat : x * y \in Nat
      OBVIOUS
    <3> QED BY <2>5, <3>1
  <2>8. a * d > b * c
    <3>1. \A x, y \in Nat : ~(x <= y) => x > y
      OBVIOUS
    <3> QED BY <2>6, <2>7, <3>1
  <2> QED BY <2>8 DEF a, b, c, d
<1> QED BY <1>10, <1>11 DEF rows, flagged, D

(* What the statistics of states are taken of.                             *)
LEMMA SpansTimed ==
  ASSUME Life, Accounted, Clocked
  PROVE  Spans \in Seq([state : {Spans[k].state : k \in DOMAIN Spans}, seconds : Nat])
<1>1. CASE ~Started
  BY <1>1 DEF Spans
<1>2. CASE Started
  <2> DEFINE entries == Entries
             n == Len(entries)
             exit(k) == IF k < n THEN entries[k + 1].at ELSE EndAt
             span(k) == [state |-> entries[k].state, seconds |-> exit(k) - entries[k].at]
             spans == [k \in DOMAIN entries |-> span(k)]
             P == {k \in DOMAIN entries : spans[k].seconds > 0}
             timed == [state : {entries[k].state : k \in DOMAIN entries}, seconds : Int]
  <2>1. Spans = At(spans, P)
    BY <1>2 DEF Spans
  <2>2. /\ n \in Nat \ {0} /\ DOMAIN entries = 1..n
        /\ \A k \in DOMAIN entries : entries[k].at \in Nat
    BY <1>2, EntriesTold
  <2>3. EndAt \in Nat
    BY DEF EndAt, Clocked, Accounted, AuditTypes, CompletionTold
  <2> HIDE DEF entries
  <2>4. \A k \in 1..n : exit(k) \in Nat
    <3>1. \A k \in 1..n : k < n => k + 1 \in 1..n
      BY <2>2
    <3> QED BY <2>2, <2>3, <3>1
  <2>5. spans \in Seq(timed)
    <3>1. \A k \in 1..n : span(k) \in timed
      <4> HIDE DEF exit
      <4> QED BY <2>2, <2>4
    <3>2. spans = [k \in 1..n |-> span(k)]
      BY <2>2
    <3> HIDE DEF span, timed, spans, n
    <3> QED BY <2>2, <3>1, <3>2
  <2>6. P \in SUBSET DOMAIN spans /\ \A k \in P : spans[k].seconds > 0
    OBVIOUS
  <2> HIDE DEF spans, P
  <2>7. /\ Spans \in Seq(timed)
        /\ Cardinality(P) \in Nat /\ Len(Spans) = Cardinality(P)
        /\ \A k \in 1..Cardinality(P) : \E j \in P : Spans[k] = spans[j]
    <3> HIDE DEF timed
    <3> QED BY <2>1, <2>5, <2>6, AtTakes
  <2>8. DOMAIN Spans = 1..Len(Spans)
    BY <2>7
  <2>9. ASSUME NEW k \in DOMAIN Spans
        PROVE  Spans[k] \in [state : {Spans[j].state : j \in DOMAIN Spans}, seconds : Nat]
    <3>1. Spans[k] \in timed
      <4> HIDE DEF timed
      <4> QED BY <2>7, <2>9
    <3>2. Spans[k].seconds > 0
      BY <2>6, <2>7, <2>8
    <3> HIDE DEF Spans
    <3>3. /\ Spans[k] = [state |-> Spans[k].state, seconds |-> Spans[k].seconds]
          /\ Spans[k].seconds \in Int
      BY <3>1
    <3>4. Spans[k].seconds \in Nat
      BY <3>2, <3>3
    <3>5. Spans[k].state \in {Spans[j].state : j \in DOMAIN Spans}
      OBVIOUS
    <3> QED BY <3>3, <3>4, <3>5
  <2> DEFINE D == [state : {Spans[j].state : j \in DOMAIN Spans}, seconds : Nat]
  <2>10. \A k \in 1..Len(Spans) : Spans[k] \in D
    BY <2>8, <2>9
  <2>11. Len(Spans) \in Nat /\ Spans = [k \in 1..Len(Spans) |-> Spans[k]]
    <3> HIDE DEF timed, Spans, D
    <3> QED BY <2>7, <2>8
  <2> HIDE DEF D, timed
  <2>12. Spans \in Seq(D)
    BY <2>10, <2>11
  <2> QED BY <2>12 DEF D
<1> QED BY <1>1, <1>2

LEMMA StatesTimed ==
  ASSUME Life, Accounted, Clocked
  PROVE  /\ IsFiniteSet(DOMAIN StateDurations)
         /\ \A s \in DOMAIN StateDurations :
              \E values \in Seq(Nat) :
                Len(values) # 0 /\ StateDurations[s] = DurationStats(values)
<1> DEFINE spans == Spans
           states == {spans[k].state : k \in DOMAIN spans}
           D == [state : states, seconds : Nat]
<1>1. StateDurations = [s \in states |-> DurationStats(SecondsIn(spans, s))]
  BY DEF StateDurations
<1>2. spans \in Seq(D)
  BY SpansTimed
<1> HIDE DEF spans
<1>3. IsFiniteSet(states)
  <2> DEFINE n == Len(spans)
             b == [k \in 1..n |-> spans[k].state]
  <2>1. n \in Nat /\ DOMAIN spans = 1..n
    BY <1>2
  <2>2. b \in Surjection(1..n, states)
    BY <2>1 DEF Surjection
  <2>3. IsFiniteSet(1..n)
    <3> HIDE DEF n
    <3> QED BY <2>1, FS_Interval
  <2> HIDE DEF b, states, n
  <2> QED BY <2>2, <2>3, FS_Surjection
<1>4. ASSUME NEW s \in states
      PROVE  SecondsIn(spans, s) \in Seq(Nat) /\ Len(SecondsIn(spans, s)) # 0
  <2> DEFINE S == {k \in DOMAIN spans : spans[k].state = s}
             chosen == At(spans, S)
             c == Cardinality(S)
  <2>1. S \in SUBSET DOMAIN spans /\ S # {}
    OBVIOUS
  <2>2. SecondsIn(spans, s) = [k \in DOMAIN chosen |-> chosen[k].seconds]
    BY DEF SecondsIn
  <2> HIDE DEF S
  <2>3. IsFiniteSet(S) /\ c \in Nat /\ chosen \in Seq(D) /\ Len(chosen) = c
    <3> HIDE DEF D
    <3> QED BY <1>2, <2>1, AtTakes
  <2>4. c # 0
    BY <2>1, <2>3, FS_EmptySet
  <2> HIDE DEF chosen, c, states
  <2>5. DOMAIN chosen = 1..c /\ \A k \in 1..c : chosen[k].seconds \in Nat
    <3>1. DOMAIN chosen = 1..c /\ \A k \in 1..c : chosen[k] \in D
      <4> HIDE DEF D
      <4> QED BY <2>3
    <3> QED BY <3>1
  <2>6. SecondsIn(spans, s) = [k \in 1..c |-> chosen[k].seconds]
    BY <2>2, <2>5
  <2> QED BY <2>3, <2>4, <2>5, <2>6
<1> HIDE DEF states
<1> QED BY <1>1, <1>3, <1>4

LEMMA DecisionsTimed ==
  ASSUME Life, EscalationsTold, NEW status
  PROVE  StatsOrdered(DecisionTimes(Scope(AnyState), status))
<1> DEFINE chosen == InStatus(Scope(AnyState), status)
           slots == Ascending(chosen)
           c == Cardinality(chosen)
           values == [k \in DOMAIN slots |-> stamps[slots[k]].updated - stamps[slots[k]].created]
<1>1. DecisionTimes(Scope(AnyState), status) = DurationStats(values)
  BY DEF DecisionTimes
<1>2. chosen \in SUBSET DOMAIN approvals /\ chosen \in SUBSET Int /\ IsFiniteSet(chosen)
  <2>1. chosen \in SUBSET DOMAIN approvals
    BY DEF InStatus, Scope
  <2>2. DOMAIN approvals \in SUBSET Nat /\ IsFiniteSet(DOMAIN approvals)
    BY ScopesFinite DEF Life
  <2> HIDE DEF chosen
  <2>3. IsFiniteSet(chosen)
    BY <2>1, <2>2, FS_Subset
  <2> QED BY <2>1, <2>2, <2>3
<1> HIDE DEF chosen
<1>3. c \in Nat /\ slots \in [1..c -> chosen]
  BY <1>2, AscendingLists
<1> HIDE DEF c, slots
<1>4. DOMAIN slots = 1..c
  BY <1>3
<1>5. ASSUME NEW k \in 1..c
      PROVE  stamps[slots[k]].updated - stamps[slots[k]].created \in Int
  <2>1. stamps[slots[k]] \in Stamp
    BY <1>2, <1>3 DEF EscalationsTold
  <2> QED BY <2>1 DEF Stamp
<1>6. values = [k \in 1..c |-> stamps[slots[k]].updated - stamps[slots[k]].created]
  BY <1>4
<1> HIDE DEF values
<1>7. values \in Seq(Int)
  BY <1>3, <1>5, <1>6
<1> QED BY <1>1, <1>7, StatisticsOrdered

(* The reported percentiles are values of the sample, the statistics of    *)
(* every duration are in order, and the bottlenecks are the states where   *)
(* executions stay longest on average, never all of them.                  *)
THEOREM StatisticsAlwaysSound == AuditedSpec => []StatisticsSound
<1>1. Life /\ Accounted /\ Clocked /\ EscalationsTold => StatisticsSound
  <2> SUFFICES ASSUME Life, Accounted, Clocked, EscalationsTold
               PROVE  StatisticsSound
    OBVIOUS
  <2>1. \A n \in 1..120 : RankSound(n)
    BY RanksAlwaysSound
  <2>2. \A status \in Decided : StatsOrdered(DecisionDurations(AnyState)[status])
    BY DecisionsTimed DEF DecisionDurations
  <2>3. /\ IsFiniteSet(DOMAIN StateDurations)
        /\ \A s \in DOMAIN StateDurations :
             /\ StateDurations[s].count \in Nat \ {0} /\ StateDurations[s].total \in Nat
             /\ StatsOrdered(StateDurations[s])
    BY StatesTimed, DurationsCounted
  <2>4. LET rows == StateDurations
            flagged == Bottlenecks(125)
        IN  /\ flagged # {} => flagged # DOMAIN rows
            /\ \A s \in flagged, r \in DOMAIN rows \ flagged :
                 rows[s].total * rows[r].count > rows[r].total * rows[s].count
    BY <2>3, BottlenecksSound
  <2> QED BY <2>1, <2>2, <2>3, <2>4, Zenon DEF StatisticsSound
<1> QED BY <1>1, AlwaysReckoned, PTL
=============================================================================
