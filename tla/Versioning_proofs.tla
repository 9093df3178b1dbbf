------------------------- MODULE Versioning_proofs -------------------------
(***************************************************************************)
(* Theorems about Versioning, for every set of processes, objects and      *)
(* definitions and all bounds.  The types and what the caches serve hold   *)
(* whatever overlaps and whatever is refused.  The others need that saves  *)
(* do not overlap: the run overlapping_saves shows why.  What is published *)
(* stays fixed although instances keep changes that were not saved; what   *)
(* is published or started needs that no process is in Unsaved, since      *)
(* publish_version and start_execution trust the instance they are given.  *)
(***************************************************************************)
EXTENDS Versioning, SequenceTheorems, WellFoundedInduction, TLAPS

-----------------------------------------------------------------------------
(* The highest published version.                                          *)

(* A set of naturals has a least element.                                  *)
LEMMA LeastOf ==
  ASSUME NEW T, T \subseteq Nat, T # {}
  PROVE  \E x \in T : \A y \in T : x <= y
<1> DEFINE R == OpToRel(<, Nat)
<1>1. \A x, y \in Nat : x < y => <<x, y>> \in R
  BY DEF OpToRel
<1>2. IsWellFoundedOn(R, Nat)
  BY NatLessThanWellFounded
<1> HIDE DEF R
<1>3. PICK x \in T : \A y \in T : <<y, x>> \notin R
  BY <1>2, WFMin
<1>4. ASSUME NEW y \in T PROVE x <= y
  <2>1. x \in Nat /\ y \in Nat
    OBVIOUS
  <2>2. ~ (y < x)
    BY <1>1, <1>3, <2>1, Zenon
  <2> QED BY <2>1, <2>2
<1> QED BY <1>4

(* A bounded set of naturals has a greatest element.                       *)
LEMMA MaxOfBounded ==
  ASSUME NEW b \in Nat, NEW S \in SUBSET (0..b), S # {}
  PROVE  Max(S) \in S
<1> DEFINE T == {n \in 0..b : b - n \in S}
<1>1. PICK s \in S : TRUE
  OBVIOUS
<1>2. b - s \in T /\ T \subseteq 0..b /\ T \subseteq Nat
  BY <1>1
<1>3. PICK x \in T : \A y \in T : x <= y
  <2> HIDE DEF T
  <2> QED BY <1>2, LeastOf
<1>4. x \in 0..b /\ b - x \in S
  OBVIOUS
<1>5. ASSUME NEW y \in S PROVE b - x >= y
  <2>1. b - y \in T /\ y \in 0..b
    OBVIOUS
  <2>2. x <= b - y
    BY <1>3, <2>1
  <2> QED BY <1>4, <2>1, <2>2
<1> QED BY <1>4, <1>5 DEF Max

(* active_version is a published one, if any.                              *)
LEMMA ActivePublished ==
  ASSUME TypeOK
  PROVE  /\ Active \in {0} \cup DOMAIN versions
         /\ Active # 0 => versions[Active].status = "PUBLISHED"
<1> DEFINE S == {0} \cup {n \in DOMAIN versions : versions[n].status = "PUBLISHED"}
<1>1. Len(versions) \in Nat /\ DOMAIN versions = 1..Len(versions)
  BY DEF TypeOK
<1>2. S \in SUBSET (0..Len(versions)) /\ S # {}
  BY <1>1
<1>3. Max(S) \in S
  BY <1>1, <1>2, MaxOfBounded
<1> QED BY <1>3 DEF Active

-----------------------------------------------------------------------------
(* Types.                                                                  *)

\* Instances and jobs refer to versions that exist, or are about to.
Reach ==
  \A p \in Processes :
    /\ instance[p].number \in 0..Len(versions)
    /\ At(p, "creating") => job[p].number \in 1..(Len(versions) + 1)
    /\ At(p, "pinning") => job[p].number \in DOMAIN versions
    /\ At(p, "starting") => job[p].number \in 0..Len(versions)

TypeInv == TypeOK /\ Reach

JobType == [phase : Phases, number : Numbers, lenient : BOOLEAN]

DirtyTyped == dirty \in [Processes -> SUBSET Numbers]

(* A row that is rewritten or added leaves a sequence of rows.             *)
LEMMA RowWritten ==
  ASSUME NEW s \in Seq(Row), NEW n, NEW row \in Row
  PROVE  LET t == [s EXCEPT ![n] = row]
         IN  /\ t \in Seq(Row) /\ Len(t) = Len(s) /\ DOMAIN t = DOMAIN s
             /\ \A i \in DOMAIN s : t[i] = IF i = n THEN row ELSE s[i]
<1> DEFINE t == [s EXCEPT ![n] = row]
<1>1. Len(s) \in Nat /\ s \in [1..Len(s) -> Row]
  OBVIOUS
<1>2. t \in [1..Len(s) -> Row]
  BY <1>1
<1>3. t \in Seq(Row) /\ Len(t) = Len(s)
  BY <1>1, <1>2, IsASeq, LenProperties
<1> QED BY <1>1, <1>3

LEMMA RowAdded ==
  ASSUME NEW s \in Seq(Row), NEW row \in Row
  PROVE  LET t == Append(s, row)
         IN  /\ t \in Seq(Row) /\ Len(t) = Len(s) + 1
             /\ t[Len(s) + 1] = row
             /\ \A i \in DOMAIN s : t[i] = s[i]
BY AppendProperties

(* Whatever changes at one process and leaves the rows alone keeps the     *)
(* types, if the new values have theirs.                                   *)
LEMMA LocalTypes ==
  ASSUME TypeInv, DirtyTyped', NEW p \in Processes,
         NEW x \in Instance, NEW k \in [1..MaxVersions -> Entry], NEW j \in JobType,
         x.number \in 0..Len(versions),
         j.phase = "creating" => j.number \in 1..(Len(versions) + 1),
         j.phase = "pinning" => j.number \in DOMAIN versions,
         j.phase = "starting" => j.number \in 0..Len(versions),
         instance' = [instance EXCEPT ![p] = x],
         cache' = [cache EXCEPT ![p] = k],
         job' = [job EXCEPT ![p] = j],
         versions' = versions, clock' = clock,
         bound' \in [Objects -> {NotStarted, Unversioned} \cup DOMAIN versions],
         relaxed' \subseteq Objects
  PROVE  TypeInv'
<1>1. instance' \in [Processes -> Instance] /\ cache' \in [Processes -> [1..MaxVersions -> Entry]]
      /\ job' \in [Processes -> JobType]
  BY DEF TypeInv, TypeOK, JobType
<1>2. TypeOK'
  BY <1>1 DEF TypeInv, TypeOK, JobType, DirtyTyped
<1>3. Reach'
  BY DEF TypeInv, TypeOK, Reach, At, JobType
<1> QED BY <1>2, <1>3 DEF TypeInv

LEMMA LoadTyped ==
  ASSUME TypeInv, NEW n \in DOMAIN versions
  PROVE  /\ n \in 1..Len(versions) /\ n \in 1..MaxVersions
         /\ Load(n) \in Instance /\ Load(n).number = n
<1>1. Len(versions) \in Nat /\ DOMAIN versions = 1..Len(versions) /\ versions[n] \in Row
  BY DEF TypeInv, TypeOK
<1>2. Len(versions) <= MaxVersions
  BY DEF TypeInv, TypeOK
<1> QED BY <1>1, <1>2, BoundsAssumption DEF Load, Instance, Row, Numbers

(* What a process is in the middle of, written out.                        *)
LEMMA JobShape ==
  ASSUME NEW phase \in Phases, NEW n \in Int
  PROVE  /\ [Idle EXCEPT !.phase = phase] = [phase |-> phase, number |-> 0, lenient |-> FALSE]
         /\ [Idle EXCEPT !.phase = phase, !.number = n] =
              [phase |-> phase, number |-> n, lenient |-> FALSE]
<1> DEFINE T == [phase : Phases, number : Int, lenient : BOOLEAN]
<1>1. ASSUME NEW x \in T, NEW y \in T,
             x.phase = y.phase, x.number = y.number, x.lenient = y.lenient
      PROVE  x = y
  BY <1>1
<1>2. Idle \in T /\ Idle.number = 0 /\ Idle.lenient = FALSE
  BY DEF Idle, Phases
<1>3. [Idle EXCEPT !.phase = phase] \in T /\ [Idle EXCEPT !.phase = phase, !.number = n] \in T
  BY <1>2
<1>4. /\ [phase |-> phase, number |-> 0, lenient |-> FALSE] \in T
      /\ [phase |-> phase, number |-> n, lenient |-> FALSE] \in T
  OBVIOUS
<1>5. [Idle EXCEPT !.phase = phase] = [phase |-> phase, number |-> 0, lenient |-> FALSE]
  BY <1>1, <1>2, <1>3, <1>4
<1>6. [Idle EXCEPT !.phase = phase, !.number = n] =
        [phase |-> phase, number |-> n, lenient |-> FALSE]
  BY <1>1, <1>2, <1>3, <1>4
<1> QED BY <1>5, <1>6

LEMMA PhaseShape ==
  ASSUME NEW phase \in Phases
  PROVE  [Idle EXCEPT !.phase = phase] = [phase |-> phase, number |-> 0, lenient |-> FALSE]
<1>1. 0 \in Int
  OBVIOUS
<1> QED BY <1>1, JobShape

(* What a process keeps of a snapshot it can rebuild is a definition.      *)
LEMMA RememberTyped ==
  ASSUME TypeInv, NEW p \in Processes, NEW x \in Instance,
         x.number \in 1..MaxVersions, Usable(p, x), Remember(p, x)
  PROVE  \E k \in [1..MaxVersions -> Entry] : cache' = [cache EXCEPT ![p] = k]
<1> DEFINE e == [stamp |-> x.stamp, workflow |-> WorkflowOf(p, x)]
           k == [cache[p] EXCEPT ![x.number] = e]
<1>1. cache[p] \in [1..MaxVersions -> Entry]
  BY DEF TypeInv, TypeOK
<1>2. WorkflowOf(p, x) \in Definitions
  <2>1. cache[p][x.number].workflow \in Definitions
    BY <1>1 DEF Entry
  <2>2. x.definition \in Definitions \cup {Malformed}
    BY DEF Instance, Snapshots
  <2> QED BY <2>1, <2>2 DEF Usable, WorkflowOf
<1>3. e \in Entry
  BY <1>2 DEF Entry, Instance
<1>4. k \in [1..MaxVersions -> Entry]
  <2> HIDE DEF e
  <2> QED BY <1>1, <1>3
<1>5. cache' = [cache EXCEPT ![p] = k]
  BY DEF Remember, TypeInv, TypeOK
<1> QED BY <1>4, <1>5

(* The types of what a process has, and of what all share.                 *)
TypesAt(p) ==
  /\ instance[p] \in Instance /\ instance[p].number \in 0..Len(versions)
  /\ cache[p] \in [1..MaxVersions -> Entry] /\ job[p] \in JobType
  /\ instance = [instance EXCEPT ![p] = instance[p]]
  /\ cache = [cache EXCEPT ![p] = cache[p]]
  /\ job = [job EXCEPT ![p] = job[p]]
  /\ Len(versions) \in Nat /\ DOMAIN versions = 1..Len(versions)
  /\ Len(versions) <= MaxVersions /\ MaxVersions \in Nat
  /\ bound \in [Objects -> {NotStarted, Unversioned} \cup DOMAIN versions]
  /\ relaxed \subseteq Objects

LEMMA ProcessTypes ==
  ASSUME TypeInv, NEW p \in Processes
  PROVE  TypesAt(p)
BY BoundsAssumption DEF TypesAt, TypeInv, TypeOK, Reach, JobType

(* Reading, and the steps of a process between its reads and writes.       *)
LEMMA ReadingTypes ==
  ASSUME TypeInv, DirtyTyped', NEW p \in Processes,
         \/ \E n \in DOMAIN versions : Fetch(p, n)
         \/ \E o \in Objects : Use(p, o)
         \/ Draft(p) \/ Ensure(p) \/ Lose(p) \/ Pin(p)
         \/ ResolveDefault(p) \/ Restart(p)
         \/ \E o \in Objects : Create(p, o)
  PROVE  TypeInv'
<1> USE DEF database, shared
<1>t. TypesAt(p)
  BY ProcessTypes
<1> USE DEF TypesAt
<1>i. Idle \in JobType /\ Idle.phase = "idle"
  BY <1>t DEF Idle, JobType, Phases, Numbers
<1>n. ASSUME NEW phase \in Phases, NEW n \in Numbers
      PROVE  [phase |-> phase, number |-> n, lenient |-> FALSE] \in JobType
  BY DEF JobType
<1>g. ASSUME Goto(p, "idle")
      PROVE  job' = [job EXCEPT ![p] = Idle]
  BY <1>g, PhaseShape DEF Goto, Idle, Phases
<1>a. Active \in {0} \cup DOMAIN versions
  BY ActivePublished DEF TypeInv
<1>1. ASSUME NEW n \in DOMAIN versions, Fetch(p, n) PROVE TypeInv'
  <2>1. /\ instance' = [instance EXCEPT ![p] = Load(n)]
        /\ versions' = versions /\ bound' = bound /\ clock' = clock
        /\ relaxed' = relaxed /\ cache' = cache /\ job' = job
        /\ job[p].phase = "idle"
    BY <1>1 DEF Fetch, Hold, At
  <2>2. Load(n) \in Instance /\ Load(n).number \in 0..Len(versions)
    BY <1>t, LoadTyped
  <2> DEFINE x == Load(n)
             k == cache[p]
             j == job[p]
  <2>3. /\ instance' = [instance EXCEPT ![p] = x]
        /\ cache' = [cache EXCEPT ![p] = k] /\ job' = [job EXCEPT ![p] = j]
        /\ x \in Instance /\ x.number \in 0..Len(versions)
        /\ k \in [1..MaxVersions -> Entry] /\ j \in JobType
    BY <1>t, <2>1, <2>2
  <2>4. j.phase # "creating" /\ j.phase # "pinning" /\ j.phase # "starting"
    BY <2>1
  <2>5. /\ versions' = versions /\ clock' = clock
        /\ bound' \in [Objects -> {NotStarted, Unversioned} \cup DOMAIN versions]
        /\ relaxed' \subseteq Objects
    BY <1>t, <2>1
  <2> HIDE DEF TypesAt, x, k, j
  <2> QED BY <2>3, <2>4, <2>5, LocalTypes
<1>2. ASSUME NEW o \in Objects, Use(p, o) PROVE TypeInv'
  <2>1. bound[o] \in DOMAIN versions
    BY <1>t, <1>2 DEF Use, NotStarted, Unversioned
  <2>2. PICK k \in [1..MaxVersions -> Entry] : cache' = [cache EXCEPT ![p] = k]
    BY <1>2, <2>1, LoadTyped, RememberTyped DEF Use
  <2> QED BY <1>2, <1>t, <2>2, LocalTypes DEF Use, At
<1>3. ASSUME Draft(p) PROVE TypeInv'
  <2>1. Len(versions) + 1 \in Numbers /\ "creating" \in Phases
    BY <1>3, <1>t DEF Draft, Numbers, Phases
  <2> DEFINE j == [phase |-> "creating", number |-> Len(versions) + 1, lenient |-> FALSE]
  <2>2. j \in JobType /\ j.phase = "creating" /\ j.number = Len(versions) + 1
    BY <2>1, <1>n
  <2>3. job' = [job EXCEPT ![p] = j]
    <3>1. Len(versions) + 1 \in Int /\ "creating" \in Phases
      BY <1>t DEF Phases
    <3> QED BY <1>3, <3>1, JobShape DEF Draft, Doing
  <2>4. /\ UNCHANGED <<versions, bound, clock, relaxed>>
        /\ instance' = [instance EXCEPT ![p] = instance[p]]
        /\ cache' = [cache EXCEPT ![p] = cache[p]]
    BY <1>3, <1>t DEF Draft
  <2>5. /\ j.phase = "creating" => j.number \in 1..(Len(versions) + 1)
        /\ j.phase # "pinning" /\ j.phase # "starting"
    BY <2>2, <1>t
  <2> HIDE DEF j
  <2> QED BY <1>t, <2>2, <2>3, <2>4, <2>5, LocalTypes
<1>4. ASSUME Ensure(p) PROVE TypeInv'
  <2> DEFINE j == [phase |-> "ensuring", number |-> 0, lenient |-> FALSE]
  <2>1. j \in JobType /\ j.phase = "ensuring"
    BY <1>t DEF JobType, Phases, Numbers
  <2>2. job' = [job EXCEPT ![p] = j]
    BY <1>4, PhaseShape DEF Ensure, Goto, Phases
  <2> HIDE DEF j
  <2> QED BY <1>4, <1>t, <2>1, <2>2, LocalTypes DEF Ensure
<1>5. ASSUME Lose(p) PROVE TypeInv'
  <2>1. CASE Active # 0 /\ Doing(p, "pinning", Active) /\ Hold(p, Load(Active))
    <3> DEFINE j == [phase |-> "pinning", number |-> Active, lenient |-> FALSE]
    <3>1. Active \in DOMAIN versions /\ Active \in Numbers /\ "pinning" \in Phases
      BY <2>1, <1>a, <1>t DEF Numbers, Phases
    <3>2. j \in JobType /\ j.phase = "pinning" /\ j.number = Active
      BY <3>1, <1>n
    <3>3. job' = [job EXCEPT ![p] = j] /\ instance' = [instance EXCEPT ![p] = Load(Active)]
      <4>1. Active \in Int /\ "pinning" \in Phases
        BY <3>1, <1>t
      <4> QED BY <2>1, <4>1, JobShape DEF Doing, Hold
    <3>4. UNCHANGED <<versions, bound, clock, relaxed, cache>>
      BY <1>5 DEF Lose
    <3>5. Load(Active) \in Instance /\ Load(Active).number \in 0..Len(versions)
      BY <3>1, <1>t, LoadTyped
    <3> HIDE DEF j
    <3> QED BY <1>t, <3>1, <3>2, <3>3, <3>4, <3>5, LocalTypes
  <2>2. CASE Goto(p, "idle") /\ UNCHANGED instance
    <3>1. job' = [job EXCEPT ![p] = Idle]
      BY <2>2, <1>g
    <3> QED BY <1>5, <2>2, <1>t, <1>i, <3>1, LocalTypes DEF Lose
  <2> QED BY <1>5, <2>1, <2>2 DEF Lose
<1>6. ASSUME Pin(p) PROVE TypeInv'
  <2>1. job' = [job EXCEPT ![p] = Idle]
    BY <1>6, <1>g DEF Pin
  <2>2. job[p].number \in DOMAIN versions
    BY <1>6 DEF Pin, TypeInv, Reach
  <2>3. bound' \in [Objects -> {NotStarted, Unversioned} \cup DOMAIN versions]
    BY <1>6, <1>t, <2>2 DEF Pin, Pinned
  <2> QED BY <1>6, <1>t, <1>i, <2>1, <2>3, LocalTypes DEF Pin
<1>7. ASSUME ResolveDefault(p) PROVE TypeInv'
  <2> DEFINE j == [phase |-> "starting", number |-> Active, lenient |-> FALSE]
  <2>1. j \in JobType /\ j.phase = "starting" /\ j.number \in 0..Len(versions)
    BY <1>a, <1>t DEF JobType, Phases, Numbers
  <2>2. job' = [job EXCEPT ![p] = j]
    BY <1>7 DEF ResolveDefault, Starting
  <2> HIDE DEF j
  <2> QED BY <1>7, <1>t, <2>1, <2>2, LocalTypes DEF ResolveDefault
<1>8. ASSUME Restart(p) PROVE TypeInv'
  <2>1. NoInstance \in Instance /\ NoInstance.number = 0
    BY <1>t, DefinitionsAssumption DEF NoInstance, Instance, Numbers, Statuses, Snapshots
  <2>2. EmptyCache \in [1..MaxVersions -> Entry]
    BY DefinitionsAssumption DEF EmptyCache, NoEntry, Entry
  <2>3. /\ UNCHANGED <<versions, bound, clock, relaxed>>
        /\ instance' = [instance EXCEPT ![p] = NoInstance]
        /\ cache' = [cache EXCEPT ![p] = EmptyCache]
        /\ job' = [job EXCEPT ![p] = Idle]
    BY <1>8 DEF Restart, Hold
  <2>4. NoInstance.number \in 0..Len(versions)
    BY <1>t, <2>1
  <2> HIDE DEF database, shared
  <2> QED BY <1>t, <1>i, <2>1, <2>2, <2>3, <2>4, LocalTypes
<1>9. ASSUME NEW o \in Objects, Create(p, o) PROVE TypeInv'
  <2>1. job' = [job EXCEPT ![p] = Idle]
    BY <1>9, <1>g DEF Create
  <2>2. job[p].number \in 0..Len(versions)
    BY <1>9 DEF Create, TypeInv, Reach
  <2>3. bound' \in [Objects -> {NotStarted, Unversioned} \cup DOMAIN versions]
    BY <1>9, <1>t, <2>2 DEF Create, Unversioned
  <2>4. relaxed' \subseteq Objects
    BY <1>9, <1>t DEF Create
  <2> QED BY <1>9, <1>t, <1>i, <2>1, <2>3, <2>4, LocalTypes DEF Create
<1> QED BY <1>1, <1>2, <1>3, <1>4, <1>5, <1>6, <1>7, <1>8, <1>9

(* save() up to its check.                                                 *)
LEMMA SaveTypes ==
  ASSUME TypeInv, DirtyTyped', NEW p \in Processes, NEW x \in Instance, NEW phase \in {"saving", "editing"},
         x.number \in 0..Len(versions), Save(p, x, phase),
         NEW k \in [1..MaxVersions -> Entry], cache' = [cache EXCEPT ![p] = k]
  PROVE  TypeInv'
<1>t. TypesAt(p)
  BY ProcessTypes
<1> DEFINE next == IF Permitted(x) THEN phase ELSE "idle"
           j == [phase |-> next, number |-> 0, lenient |-> FALSE]
<1>1. next \in Phases /\ next \notin {"creating", "pinning", "starting"}
  BY DEF Phases
<1>2. j \in JobType /\ j.phase = next
  BY <1>1, <1>t DEF JobType, Numbers, TypesAt
<1>3. job' = [job EXCEPT ![p] = j]
  BY <1>1, PhaseShape DEF Save, Goto
<1>4. /\ UNCHANGED <<versions, bound, clock, relaxed>>
      /\ instance' = [instance EXCEPT ![p] = x]
  BY DEF Save, Hold, database, shared
<1> HIDE DEF j, next
<1> QED BY <1>t, <1>1, <1>2, <1>3, <1>4, LocalTypes DEF TypesAt

LEMMA SavingTypes ==
  ASSUME TypeInv, DirtyTyped', NEW p \in Processes,
         \/ Publish(p) \/ Retire(p)
         \/ \E d \in Snapshots : Edit(p, d)
         \/ \E d \in Definitions : Update(p, d)
  PROVE  TypeInv'
<1>t. TypesAt(p)
  BY ProcessTypes
<1>1. ASSUME NEW d \in Snapshots,
             Save(p, [instance[p] EXCEPT !.definition = d], "saving") \/
             Save(p, [instance[p] EXCEPT !.definition = d], "editing"),
             UNCHANGED cache
      PROVE  TypeInv'
  <2> DEFINE x == [instance[p] EXCEPT !.definition = d]
  <2>1. x \in Instance /\ x.number = instance[p].number
    BY <1>t DEF TypesAt, Instance
  <2> HIDE DEF x
  <2> QED BY <1>t, <1>1, <2>1, SaveTypes DEF TypesAt, x
<1>2. ASSUME NEW status \in Statuses,
             Save(p, [instance[p] EXCEPT !.status = status], "saving"),
             NEW k \in [1..MaxVersions -> Entry], cache' = [cache EXCEPT ![p] = k]
      PROVE  TypeInv'
  <2> DEFINE x == [instance[p] EXCEPT !.status = status]
  <2>1. x \in Instance /\ x.number = instance[p].number
    BY <1>t DEF TypesAt, Instance
  <2>2. Save(p, x, "saving")
    BY <1>2
  <2> HIDE DEF x
  <2> QED BY <1>t, <1>2, <2>1, <2>2, SaveTypes DEF TypesAt
<1>3. ASSUME Publish(p) PROVE TypeInv'
  <2>1. instance[p].number \in 1..MaxVersions
    BY <1>3, <1>t DEF Publish, Holds, TypesAt
  <2>2. PICK k \in [1..MaxVersions -> Entry] : cache' = [cache EXCEPT ![p] = k]
    BY <1>3, <1>t, <2>1, RememberTyped DEF Publish, Publishable, TypesAt
  <2> QED BY <1>2, <1>3, <2>2 DEF Publish, Statuses
<1>4. ASSUME Retire(p) PROVE TypeInv'
  BY <1>2, <1>4, <1>t DEF Retire, Statuses, TypesAt
<1>5. ASSUME NEW d \in Snapshots, Edit(p, d) PROVE TypeInv'
  BY <1>1, <1>5 DEF Edit
<1>6. ASSUME NEW d \in Definitions, Update(p, d) PROVE TypeInv'
  BY <1>1, <1>6 DEF Update, Snapshots
<1> QED BY <1>3, <1>4, <1>5, <1>6

LEMMA ResolvingTypes ==
  ASSUME TypeInv, DirtyTyped', NEW p \in Processes, NEW x \in Instance, NEW lenient \in BOOLEAN,
         x.number \in 0..Len(versions), ResolveGiven(p, x, lenient)
  PROVE  TypeInv'
<1>t. TypesAt(p)
  BY ProcessTypes
<1> DEFINE j == [phase |-> "starting", number |-> x.number,
                 lenient |-> lenient /\ x.status # "PUBLISHED"]
<1>1. j \in JobType /\ j.phase = "starting" /\ j.number \in 0..Len(versions)
  BY <1>t DEF JobType, Phases, Numbers, TypesAt
<1>2. x.number \in 1..MaxVersions
  BY <1>t DEF ResolveGiven, TypesAt
<1>3. PICK k \in [1..MaxVersions -> Entry] : cache' = [cache EXCEPT ![p] = k]
  BY <1>2, RememberTyped DEF ResolveGiven
<1>4. /\ UNCHANGED <<versions, bound, clock, relaxed>>
      /\ instance' = [instance EXCEPT ![p] = instance[p]]
      /\ job' = [job EXCEPT ![p] = j]
  BY <1>t DEF ResolveGiven, Starting, database, shared, TypesAt
<1> HIDE DEF j
<1> QED BY <1>t, <1>1, <1>3, <1>4, LocalTypes DEF TypesAt

(* Whatever a process writes keeps the types, if no row disappears.        *)
LEMMA WritingTypes ==
  ASSUME TypeInv, DirtyTyped', NEW p \in Processes,
         NEW x \in Instance, NEW k \in [1..MaxVersions -> Entry], NEW j \in JobType,
         versions' \in Seq(Row), Len(versions') \in Len(versions)..MaxVersions,
         clock' \in Nat,
         x.number \in 0..Len(versions'),
         j.phase \notin {"creating", "starting"},
         j.phase = "pinning" => j.number \in DOMAIN versions',
         instance' = [instance EXCEPT ![p] = x],
         cache' = [cache EXCEPT ![p] = k],
         job' = [job EXCEPT ![p] = j],
         UNCHANGED <<bound, relaxed>>
  PROVE  TypeInv'
<1>0. /\ Len(versions) \in Nat /\ DOMAIN versions = 1..Len(versions)
      /\ Len(versions') \in Nat /\ DOMAIN versions' = 1..Len(versions')
      /\ Len(versions) <= Len(versions') /\ Len(versions') <= MaxVersions
      /\ DOMAIN versions \subseteq DOMAIN versions'
  BY BoundsAssumption DEF TypeInv, TypeOK
<1>1. instance' \in [Processes -> Instance] /\ cache' \in [Processes -> [1..MaxVersions -> Entry]]
      /\ job' \in [Processes -> JobType]
  BY DEF TypeInv, TypeOK, JobType
<1>2. bound' \in [Objects -> {NotStarted, Unversioned} \cup DOMAIN versions']
  BY <1>0 DEF TypeInv, TypeOK
<1>3. TypeOK'
  BY <1>0, <1>1, <1>2 DEF TypeInv, TypeOK, JobType, DirtyTyped
<1>4. Reach'
  <2> SUFFICES ASSUME NEW q \in Processes
               PROVE  /\ instance'[q].number \in 0..Len(versions')
                      /\ At(q, "creating")' => job'[q].number \in 1..(Len(versions') + 1)
                      /\ At(q, "pinning")' => job'[q].number \in DOMAIN versions'
                      /\ At(q, "starting")' => job'[q].number \in 0..Len(versions')
    BY DEF Reach, At
  <2>1. CASE q = p
    BY <1>0, <2>1 DEF At, TypeInv, TypeOK
  <2>2. CASE q # p
    <3>1. instance'[q] = instance[q] /\ job'[q] = job[q]
      BY <2>2 DEF TypeInv, TypeOK
    <3>2. /\ instance[q].number \in 0..Len(versions)
          /\ At(q, "creating") => job[q].number \in 1..(Len(versions) + 1)
          /\ At(q, "pinning") => job[q].number \in DOMAIN versions
          /\ At(q, "starting") => job[q].number \in 0..Len(versions)
      BY DEF TypeInv, Reach
    <3> QED BY <1>0, <3>1, <3>2 DEF At
  <2> QED BY <2>1, <2>2
<1> QED BY <1>3, <1>4 DEF TypeInv

(* What a save writes: the instance's columns, and the time.               *)
LEMMA Stored ==
  ASSUME TypeInv, NEW p \in Processes, Store(p)
  PROVE  LET x == instance[p]
             row == [status |-> x.status, definition |-> x.definition, stamp |-> clock']
         IN  /\ row \in Row
             /\ clock' = clock + 1 /\ clock' \in Nat
             /\ versions' \in Seq(Row) /\ Len(versions') = Len(versions)
             /\ DOMAIN versions' = DOMAIN versions
             /\ \A n \in DOMAIN versions :
                  versions'[n] = IF n = x.number THEN row ELSE versions[n]
             /\ instance' = [instance EXCEPT ![p] = [x EXCEPT !.stamp = clock']]
             /\ [x EXCEPT !.stamp = clock'] \in Instance
             /\ [x EXCEPT !.stamp = clock'].number = x.number
             /\ job' = [job EXCEPT ![p] = Idle]
<1> DEFINE x == instance[p]
           row == [status |-> x.status, definition |-> x.definition, stamp |-> clock']
<1>1. x \in Instance
  BY DEF TypeInv, TypeOK
<1>2. clock' = clock + 1 /\ clock' \in Nat
  BY DEF Store, TypeInv, TypeOK
<1>3. row \in Row
  BY <1>1, <1>2 DEF Row, Instance
<1>4. versions' = [versions EXCEPT ![x.number] = row]
  BY DEF Store
<1>5. versions \in Seq(Row)
  BY DEF TypeInv, TypeOK
<1>6. /\ [x EXCEPT !.stamp = clock'] \in Instance
      /\ [x EXCEPT !.stamp = clock'].number = x.number
  BY <1>1, <1>2 DEF Instance
<1>7. instance' = [instance EXCEPT ![p] = [x EXCEPT !.stamp = clock']]
  BY DEF Store, Hold
<1>8. job' = [job EXCEPT ![p] = Idle]
  BY PhaseShape DEF Store, Goto, Idle, Phases
<1>9. /\ versions' \in Seq(Row) /\ Len(versions') = Len(versions)
      /\ DOMAIN versions' = DOMAIN versions
      /\ \A n \in DOMAIN versions :
           versions'[n] = IF n = x.number THEN row ELSE versions[n]
  <2> HIDE DEF x, row
  <2> QED BY <1>3, <1>4, <1>5, RowWritten
<1> QED BY <1>2, <1>3, <1>6, <1>7, <1>8, <1>9

(* A version is added with the number its creator took.                    *)
LEMMA Inserted ==
  ASSUME TypeInv, NEW p \in Processes, NEW d \in Snapshots, Insert(p, d),
         job[p].number > Len(versions)
  PROVE  LET n == Len(versions) + 1
             row == [status |-> "DRAFT", definition |-> d, stamp |-> clock']
             x == [number |-> n, status |-> "DRAFT", definition |-> d, stamp |-> clock']
         IN  /\ n = job[p].number /\ n <= MaxVersions
             /\ row \in Row /\ x \in Instance
             /\ clock' = clock + 1 /\ clock' \in Nat
             /\ versions' = Append(versions, row)
             /\ versions' \in Seq(Row) /\ Len(versions') = n
             /\ versions'[n] = row
             /\ \A i \in DOMAIN versions : versions'[i] = versions[i]
             /\ instance' = [instance EXCEPT ![p] = x]
             /\ job' = [job EXCEPT ![p] = Idle]
             /\ UNCHANGED <<bound, cache, relaxed>>
<1> DEFINE n == Len(versions) + 1
           row == [status |-> "DRAFT", definition |-> d, stamp |-> clock']
           x == [number |-> n, status |-> "DRAFT", definition |-> d, stamp |-> clock']
<1>0. /\ Len(versions) \in Nat /\ versions \in Seq(Row)
      /\ job[p].number \in Numbers /\ job[p].number \in 1..(Len(versions) + 1)
  BY DEF Insert, TypeInv, TypeOK, Reach
<1>1. n = job[p].number /\ n <= MaxVersions /\ n \in Numbers
  BY <1>0, BoundsAssumption DEF Numbers
<1>2. clock' = clock + 1 /\ clock' \in Nat
  BY <1>0 DEF Insert, TypeInv, TypeOK, Numbers
<1>3. row \in Row /\ x \in Instance
  BY <1>1, <1>2 DEF Row, Instance, Statuses
<1>4. /\ versions' = Append(versions, row)
      /\ instance' = [instance EXCEPT ![p] = x]
      /\ UNCHANGED <<bound, cache, relaxed>>
  BY <1>0, <1>1 DEF Insert, Hold, Numbers
<1>5. job' = [job EXCEPT ![p] = Idle]
  BY PhaseShape DEF Insert, Goto, Idle, Phases
<1>6. /\ versions' \in Seq(Row) /\ Len(versions') = n /\ versions'[n] = row
      /\ \A i \in DOMAIN versions : versions'[i] = versions[i]
  <2> HIDE DEF row
  <2> QED BY <1>0, <1>3, <1>4, RowAdded
<1> QED BY <1>1, <1>2, <1>3, <1>4, <1>5, <1>6

(* The first version is created published.                                 *)
LEMMA CreatedFirst ==
  ASSUME TypeInv, NEW p \in Processes, CreateFirst(p), versions = <<>>
  PROVE  LET row == [status |-> "PUBLISHED", definition |-> Registered, stamp |-> clock']
             x == [number |-> 1, status |-> "PUBLISHED", definition |-> Registered,
                   stamp |-> clock']
             j == [phase |-> "pinning", number |-> 1, lenient |-> FALSE]
         IN  /\ row \in Row /\ x \in Instance /\ j \in JobType
             /\ MaxVersions >= 1
             /\ clock' = clock + 1 /\ clock' \in Nat
             /\ versions' = <<row>> /\ versions' \in Seq(Row) /\ Len(versions') = 1
             /\ versions'[1] = row
             /\ instance' = [instance EXCEPT ![p] = x]
             /\ job' = [job EXCEPT ![p] = j]
             /\ UNCHANGED <<bound, cache, relaxed>>
<1> DEFINE row == [status |-> "PUBLISHED", definition |-> Registered, stamp |-> clock']
           x == [number |-> 1, status |-> "PUBLISHED", definition |-> Registered,
                 stamp |-> clock']
           j == [phase |-> "pinning", number |-> 1, lenient |-> FALSE]
<1>1. /\ MaxVersions > 0 /\ clock' = clock + 1
      /\ versions' = <<row>>
      /\ instance' = [instance EXCEPT ![p] = x]
      /\ Doing(p, "pinning", 1)
      /\ UNCHANGED <<bound, cache, relaxed>>
  BY DEF CreateFirst, Hold
<1>2. MaxVersions \in Nat /\ clock' \in Nat
  BY <1>1, BoundsAssumption DEF TypeInv, TypeOK
<1>3. row \in Row /\ x \in Instance
  BY <1>1, <1>2, DefinitionsAssumption DEF Row, Instance, Statuses, Numbers, Snapshots
<1>4. j \in JobType
  BY <1>1, <1>2 DEF JobType, Phases, Numbers
<1>5. job' = [job EXCEPT ![p] = j]
  <2>1. "pinning" \in Phases /\ 1 \in Int
    BY DEF Phases
  <2> QED BY <1>1, <2>1, JobShape DEF Doing
<1>6. versions' \in Seq(Row) /\ Len(versions') = 1 /\ versions'[1] = row
  <2> HIDE DEF row
  <2> QED BY <1>1, <1>3
<1> QED BY <1>1, <1>2, <1>3, <1>4, <1>5, <1>6

LEMMA StoreTypes ==
  ASSUME TypeInv, DirtyTyped', NEW p \in Processes, Store(p)
  PROVE  TypeInv'
<1>t. TypesAt(p)
  BY ProcessTypes
<1> DEFINE x == instance[p]
           e == IF At(p, "saving") THEN NoEntry ELSE cache[p][x.number]
           k == [cache[p] EXCEPT ![x.number] = e]
           y == [x EXCEPT !.stamp = clock']
<1>1. cache' = [cache EXCEPT ![p] = k] \/ cache' = [cache EXCEPT ![p] = cache[p]]
  BY <1>t DEF Store, TypesAt, TypeInv, TypeOK
<1>3. k \in [1..MaxVersions -> Entry]
  <2>1. NoEntry \in Entry
    BY DefinitionsAssumption DEF NoEntry, Entry
  <2> HIDE DEF x
  <2>2. cache[p] \in [1..MaxVersions -> Entry]
    BY <1>t DEF TypesAt
  <2>3. ASSUME x.number \in 1..MaxVersions PROVE e \in Entry
    BY <2>1, <2>2, <2>3
  <2> HIDE DEF e
  <2> QED BY <2>2, <2>3
<1>4. /\ y \in Instance /\ y.number \in 0..Len(versions')
      /\ versions' \in Seq(Row) /\ Len(versions') \in Len(versions)..MaxVersions
      /\ clock' \in Nat
      /\ instance' = [instance EXCEPT ![p] = y] /\ job' = [job EXCEPT ![p] = Idle]
  <2>1. /\ y \in Instance /\ y.number = x.number
        /\ versions' \in Seq(Row) /\ Len(versions') = Len(versions) /\ clock' \in Nat
        /\ instance' = [instance EXCEPT ![p] = y] /\ job' = [job EXCEPT ![p] = Idle]
    BY Stored
  <2>2. /\ x.number \in 0..Len(versions)
        /\ Len(versions) \in Nat /\ MaxVersions \in Nat /\ Len(versions) <= MaxVersions
    BY <1>t DEF TypesAt
  <2> HIDE DEF x, y
  <2> QED BY <2>1, <2>2
<1>5. Idle \in JobType /\ Idle.phase = "idle"
  BY <1>t DEF Idle, JobType, Phases, Numbers, TypesAt
<1>6. UNCHANGED <<bound, relaxed>>
  BY DEF Store
<1> HIDE DEF k, y
<1>7. \E c \in [1..MaxVersions -> Entry] : cache' = [cache EXCEPT ![p] = c]
  BY <1>t, <1>1, <1>3 DEF TypesAt
<1> QED BY <1>4, <1>5, <1>6, <1>7, WritingTypes

LEMMA CreatingTypes ==
  ASSUME TypeInv, DirtyTyped', NEW p \in Processes,
         CreateFirst(p) \/ \E d \in Snapshots : Insert(p, d)
  PROVE  TypeInv'
<1>t. TypesAt(p)
  BY ProcessTypes
<1>i. Idle \in JobType /\ Idle.phase = "idle"
  BY <1>t DEF Idle, JobType, Phases, Numbers, TypesAt
<1>g. ASSUME NEW phase \in {"idle", "losing"}, Goto(p, phase),
             UNCHANGED <<database, instance, cache>>
      PROVE  TypeInv'
  <2> DEFINE j == [phase |-> phase, number |-> 0, lenient |-> FALSE]
  <2>1. j \in JobType /\ j.phase = phase
    BY <1>t DEF JobType, Phases, Numbers, TypesAt
  <2>2. job' = [job EXCEPT ![p] = j]
    BY <1>g, PhaseShape DEF Goto, Phases
  <2>3. UNCHANGED <<versions, bound, clock, relaxed, instance, cache>>
    BY <1>g DEF database, shared
  <2> HIDE DEF j
  <2> QED BY <1>t, <2>1, <2>2, <2>3, LocalTypes DEF TypesAt
<1>1. ASSUME CreateFirst(p), versions = <<>> PROVE TypeInv'
  <2> DEFINE x == [number |-> 1, status |-> "PUBLISHED", definition |-> Registered,
                   stamp |-> clock']
             j == [phase |-> "pinning", number |-> 1, lenient |-> FALSE]
  <2>1. x.number = 1 /\ j.phase = "pinning" /\ j.number = 1
    OBVIOUS
  <2>2. /\ x \in Instance /\ j \in JobType /\ MaxVersions >= 1 /\ clock' \in Nat
        /\ versions' \in Seq(Row) /\ Len(versions') = 1
        /\ instance' = [instance EXCEPT ![p] = x] /\ job' = [job EXCEPT ![p] = j]
        /\ UNCHANGED <<bound, cache, relaxed>>
    BY <1>1, CreatedFirst
  <2>3. Len(versions) = 0 /\ DOMAIN versions' = 1..Len(versions')
    BY <1>1, <2>2
  <2>4. Len(versions') \in Len(versions)..MaxVersions
    BY <2>2, <2>3, <1>t DEF TypesAt
  <2>5. cache' = [cache EXCEPT ![p] = cache[p]] /\ cache[p] \in [1..MaxVersions -> Entry]
    BY <2>2, <1>t DEF TypesAt
  <2>6. x.number \in 0..Len(versions') /\ j.number \in DOMAIN versions'
    BY <2>1, <2>2, <2>3
  <2> HIDE DEF x, j
  <2> QED BY <2>1, <2>2, <2>4, <2>5, <2>6, WritingTypes
<1>2. ASSUME CreateFirst(p), versions # <<>> PROVE TypeInv'
  BY <1>2, <1>g DEF CreateFirst, database, shared
<1>3. ASSUME NEW d \in Snapshots, Insert(p, d) PROVE TypeInv'
  <2>1. CASE job[p].number > Len(versions)
    <3> DEFINE x == [number |-> Len(versions) + 1, status |-> "DRAFT", definition |-> d,
                     stamp |-> clock']
    <3>1. x.number = Len(versions) + 1
      OBVIOUS
    <3>2. /\ x \in Instance /\ Len(versions) + 1 <= MaxVersions /\ clock' \in Nat
          /\ versions' \in Seq(Row) /\ Len(versions') = Len(versions) + 1
          /\ instance' = [instance EXCEPT ![p] = x] /\ job' = [job EXCEPT ![p] = Idle]
          /\ UNCHANGED <<bound, cache, relaxed>>
      BY <1>3, <2>1, Inserted
    <3>3. x.number \in 0..Len(versions') /\ Len(versions') \in Len(versions)..MaxVersions
      BY <3>1, <3>2, <1>t DEF TypesAt
    <3>4. cache' = [cache EXCEPT ![p] = cache[p]] /\ cache[p] \in [1..MaxVersions -> Entry]
      BY <3>2, <1>t DEF TypesAt
    <3> HIDE DEF x
    <3> QED BY <1>i, <3>2, <3>3, <3>4, WritingTypes
  <2>2. CASE ~ (job[p].number > Len(versions))
    <3>1. Goto(p, "idle") /\ UNCHANGED <<database, instance, cache>>
      BY <1>3, <2>2 DEF Insert, database, shared
    <3> QED BY <1>g, <3>1
  <2> QED BY <2>1, <2>2
<1> QED BY <1>1, <1>2, <1>3

LEMMA AssignTypes ==
  ASSUME TypeInv, DirtyTyped', NEW p \in Processes, NEW d \in Snapshots, Assign(p, d)
  PROVE  TypeInv'
<1>t. TypesAt(p)
  BY ProcessTypes
<1> DEFINE x == [instance[p] EXCEPT !.definition = d]
<1>1. x \in Instance /\ x.number \in 0..Len(versions)
  BY <1>t DEF TypesAt, Instance
<1>2. /\ instance' = [instance EXCEPT ![p] = x]
      /\ UNCHANGED <<versions, bound, clock, relaxed, cache, job>>
  BY DEF Assign, Hold, database, shared
<1> HIDE DEF x
<1>3. instance' \in [Processes -> Instance]
  BY <1>1, <1>2 DEF TypeInv, TypeOK
<1>4. TypeOK'
  BY <1>2, <1>3 DEF TypeInv, TypeOK, DirtyTyped
<1>5. ASSUME NEW q \in Processes PROVE instance'[q].number \in 0..Len(versions)
  BY <1>1, <1>2 DEF TypeInv, TypeOK, Reach
<1>6. Reach'
  BY <1>2, <1>5 DEF TypeInv, Reach, At
<1> QED BY <1>4, <1>6 DEF TypeInv

(* What a refused write leaves behind: at most a new stamp.                *)
LEMMA Failed ==
  ASSUME TypeInv, NEW p \in Processes, Fail(p)
  PROVE  /\ clock' \in Nat
         /\ job' = [job EXCEPT ![p] = Idle]
         /\ UNCHANGED <<versions, bound, relaxed, cache>>
         /\ \E x \in Instance :
              /\ x.number = instance[p].number
              /\ instance' = [instance EXCEPT ![p] = x]
<1>t. TypesAt(p) /\ clock \in Nat
  BY ProcessTypes DEF TypeInv, TypeOK
<1>1. job' = [job EXCEPT ![p] = Idle]
  BY PhaseShape DEF Fail, Goto, Idle, Phases
<1>2. CASE UNCHANGED <<instance, clock>>
  BY <1>t, <1>1, <1>2 DEF Fail, TypesAt
<1>3. CASE clock' = clock + 1 /\ Hold(p, [instance[p] EXCEPT !.stamp = clock'])
  <2> DEFINE x == [instance[p] EXCEPT !.stamp = clock']
  <2>1. clock' \in Nat
    BY <1>t, <1>3
  <2>2. x \in Instance /\ x.number = instance[p].number
    BY <1>t, <2>1 DEF TypesAt, Instance
  <2>3. instance' = [instance EXCEPT ![p] = x]
    BY <1>3 DEF Hold
  <2> HIDE DEF x
  <2> QED BY <1>1, <2>1, <2>2, <2>3 DEF Fail
<1> QED BY <1>2, <1>3 DEF Fail

LEMMA FailTypes ==
  ASSUME TypeInv, DirtyTyped', NEW p \in Processes, Fail(p)
  PROVE  TypeInv'
<1>t. TypesAt(p) /\ versions \in Seq(Row)
  BY ProcessTypes DEF TypeInv, TypeOK
<1>1. /\ clock' \in Nat /\ job' = [job EXCEPT ![p] = Idle]
      /\ UNCHANGED <<versions, bound, relaxed, cache>>
  BY Failed
<1>2. PICK x \in Instance : /\ x.number = instance[p].number
                            /\ instance' = [instance EXCEPT ![p] = x]
  BY Failed
<1>3. Idle \in JobType /\ Idle.phase = "idle"
  BY <1>t DEF Idle, JobType, Phases, Numbers, TypesAt
<1>4. /\ cache' = [cache EXCEPT ![p] = cache[p]]
      /\ cache[p] \in [1..MaxVersions -> Entry]
  BY <1>t, <1>1 DEF TypesAt
<1>5. /\ versions' \in Seq(Row) /\ Len(versions') \in Len(versions)..MaxVersions
      /\ x.number \in 0..Len(versions')
  BY <1>t, <1>1, <1>2 DEF TypesAt
<1> QED BY <1>1, <1>2, <1>3, <1>4, <1>5, WritingTypes

(* What is marked as changed are versions.                                 *)
LEMMA DirtyStep ==
  ASSUME TypeInv, [Next]_vars
  PROVE  DirtyTyped'
<1>0. DirtyTyped
  BY DEF TypeInv, TypeOK, DirtyTyped
<1>1. ASSUME dirty' = dirty PROVE DirtyTyped'
  BY <1>0, <1>1 DEF DirtyTyped
<1>2. ASSUME NEW p \in Processes, NEW n \in Numbers,
             dirty' = [dirty EXCEPT ![p] = @ \cup {n}]
      PROVE  DirtyTyped'
  BY <1>0, <1>2 DEF DirtyTyped
<1>3. ASSUME NEW p \in Processes, NEW x \in Instance, Keep(p, x) PROVE DirtyTyped'
  <2>1. x.number \in Numbers
    BY DEF Instance
  <2> QED BY <1>1, <1>2, <1>3, <2>1 DEF Keep
<1>4. ASSUME NEW p \in Processes, NEW x \in Instance, NEW phase, Save(p, x, phase)
      PROVE  DirtyTyped'
  BY <1>1, <1>3, <1>4 DEF Save
<1>5. ASSUME NEW p \in Processes, Publish(p) \/ Retire(p) \/ Store(p) \/ Restart(p) \/ Fail(p)
      PROVE  DirtyTyped'
  <2>1. instance[p] \in Instance
    BY DEF TypeInv, TypeOK
  <2>2. CASE Publish(p)
    <3>1. [instance[p] EXCEPT !.status = "PUBLISHED"] \in Instance
      BY <2>1 DEF Instance, Statuses
    <3> QED BY <1>4, <2>2, <3>1 DEF Publish
  <2>3. CASE Retire(p)
    <3>1. [instance[p] EXCEPT !.status = "RETIRED"] \in Instance
      BY <2>1 DEF Instance, Statuses
    <3> QED BY <1>4, <2>3, <3>1 DEF Retire
  <2>4. CASE Store(p)
    BY <1>0, <2>4 DEF Store, DirtyTyped
  <2>5. CASE Restart(p)
    BY <1>0, <2>5 DEF Restart, DirtyTyped
  <2>6. CASE Fail(p)
    BY <1>1, <1>3, <2>1, <2>6 DEF Fail
  <2> QED BY <1>5, <2>2, <2>3, <2>4, <2>5, <2>6
<1>6. ASSUME NEW p \in Processes, NEW d \in Snapshots,
             Edit(p, d) \/ Update(p, d) \/ Assign(p, d) \/ Insert(p, d)
      PROVE  DirtyTyped'
  <2>1. instance[p] \in Instance /\ [instance[p] EXCEPT !.definition = d] \in Instance
    BY DEF TypeInv, TypeOK, Instance
  <2> QED BY <1>1, <1>3, <1>4, <1>6, <2>1 DEF Edit, Update, Assign, Insert
<1>7. ASSUME NEW p \in Processes,
             \/ \E n \in DOMAIN versions : Fetch(p, n)
             \/ Draft(p) \/ Ensure(p) \/ CreateFirst(p) \/ Lose(p) \/ Pin(p) \/ Serve(p)
      PROVE  DirtyTyped'
  <2>1. dirty' = dirty
    BY <1>7 DEF Fetch, Draft, Ensure, CreateFirst, Lose, Pin, Serve, ResolveDefault,
                ResolveGiven, Create, Use, database
  <2> QED BY <1>1, <2>1
<1>8. ASSUME Next PROVE DirtyTyped'
  <2>1. Definitions \subseteq Snapshots
    BY DEF Snapshots
  <2> QED BY <1>5, <1>6, <1>7, <1>8, <2>1 DEF Next, Manage
<1>9. CASE UNCHANGED vars
  BY <1>1, <1>9 DEF vars
<1> QED BY <1>8, <1>9

(* Every step keeps the types.                                             *)
LEMMA TypeStep ==
  ASSUME TypeInv, [Next]_vars
  PROVE  TypeInv'
<1>0. DirtyTyped'
  BY DirtyStep
<1>1. ASSUME UNCHANGED vars PROVE TypeInv'
  BY <1>1 DEF vars, TypeInv, TypeOK, Reach, At
<1>2. ASSUME NEW p \in Processes, Manage(p) PROVE TypeInv'
  BY <1>0, <1>2, ReadingTypes, SavingTypes, StoreTypes, CreatingTypes DEF Manage
<1>3. ASSUME NEW p \in Processes, Serve(p) PROVE TypeInv'
  <2>1. instance[p] \in Instance /\ instance[p].number \in 0..Len(versions)
        /\ Len(versions) \in Nat /\ DOMAIN versions = 1..Len(versions)
    BY ProcessTypes DEF TypesAt
  <2>2. ASSUME NEW lenient \in BOOLEAN, ResolveGiven(p, instance[p], lenient) PROVE TypeInv'
    BY <1>0, <2>1, <2>2, ResolvingTypes
  <2>3. ASSUME NEW lenient \in BOOLEAN, NEW n \in DOMAIN versions,
               ResolveGiven(p, Load(n), lenient)
        PROVE  TypeInv'
    <3>1. Load(n) \in Instance /\ Load(n).number \in 0..Len(versions)
      BY <2>1, LoadTyped
    <3> QED BY <1>0, <2>3, <3>1, ResolvingTypes
  <2> QED BY <1>0, <1>3, <2>2, <2>3, ReadingTypes DEF Serve
<1>4. ASSUME NEW p \in Processes, Restart(p) PROVE TypeInv'
  BY <1>0, <1>4, ReadingTypes
<1>5. ASSUME NEW p \in Processes, NEW d \in Snapshots, Assign(p, d) PROVE TypeInv'
  BY <1>0, <1>5, AssignTypes
<1>6. ASSUME NEW p \in Processes, Fail(p) PROVE TypeInv'
  BY <1>0, <1>6, FailTypes
<1> QED BY <1>1, <1>2, <1>3, <1>4, <1>5, <1>6 DEF Next

LEMMA TypeStart == Init => TypeInv
<1> SUFFICES ASSUME Init PROVE TypeInv
  OBVIOUS
<1> USE DEF Init
<1>1. versions \in Seq(Row) /\ Len(versions) = 0
  OBVIOUS
<1>2. NoInstance \in Instance /\ NoInstance.number = 0
  BY BoundsAssumption, DefinitionsAssumption
     DEF NoInstance, Instance, Numbers, Statuses, Snapshots
<1>3. Idle \in JobType /\ Idle.phase = "idle"
  BY BoundsAssumption DEF Idle, JobType, Phases, Numbers
<1>4. EmptyCache \in [1..MaxVersions -> Entry]
  BY DefinitionsAssumption DEF EmptyCache, NoEntry, Entry
<1>5. bound \in [Objects -> {NotStarted, Unversioned} \cup DOMAIN versions]
  OBVIOUS
<1>6. TypeOK
  BY <1>1, <1>2, <1>3, <1>4, <1>5, BoundsAssumption DEF TypeOK, JobType
<1>7. Reach
  BY <1>1, <1>2, <1>3 DEF Reach, At
<1> QED BY <1>6, <1>7 DEF TypeInv

(* Every variable keeps its type, whatever overlaps.                       *)
THEOREM TypesHold == Spec => []TypeOK
<1>1. TypeInv /\ [Next]_vars => TypeInv'
  BY TypeStep
<1>2. TypeInv => TypeOK
  BY DEF TypeInv
<1> QED BY TypeStart, <1>1, <1>2, PTL DEF Spec

-----------------------------------------------------------------------------
(* The invariant, of saves that do not overlap.  Its parts are about the   *)
(* rows, and about what one process has: an instance x, a cache k and a    *)
(* job j.  They are operators of all these, so that a write's effect on    *)
(* the others can be told without the variables.                           *)

SavingPhases == {"saving", "editing"}

\* No stamp is ahead of the clock, and an instance has one.
InTime(time, x, k) ==
  /\ x.stamp <= time
  /\ x.number # 0 => x.stamp > 0
  /\ \A n \in 1..MaxVersions : k[n].stamp <= time

\* What save() checks against the row.
Allows(row, x) ==
  /\ row.status = "RETIRED" => x.status = "RETIRED"
  /\ row.status = "PUBLISHED" => x.status # "DRAFT"
  /\ row.status # "DRAFT" => x.definition = row.definition

\* An instance that is being saved: its check still holds.
Writable(rows, x) ==
  /\ x.number # 0
  /\ Allows(rows[x.number], x)
  /\ x.status # "DRAFT" => x.definition # Malformed
  /\ x.status = "RETIRED" => rows[x.number].status # "DRAFT"

\* Any other claims no more than its row, and the same of a draft when it is
\* the row's latest reading.
Faithful(row, x) ==
  /\ x.status # "DRAFT" => row.status # "DRAFT"
  /\ row.status = "DRAFT" /\ x.stamp = row.stamp => x.definition = row.definition

\* While the row is a draft, an instance and a cache entry of one reading
\* have one definition.
Agreeing(row, x, entry) ==
  row.status = "DRAFT" /\ entry.stamp = x.stamp => entry.workflow = x.definition

\* A cache entry of a draft's latest reading holds the row's definition.
CachedIn(rows, k) ==
  \A n \in DOMAIN rows :
    rows[n].status = "DRAFT" /\ k[n].stamp = rows[n].stamp =>
      k[n].workflow = rows[n].definition

\* What an execution is about to be bound to has been published.
Sound(rows, j) ==
  j.number # 0 /\ (j.phase = "pinning" \/ (j.phase = "starting" /\ ~j.lenient)) =>
    rows[j.number].status # "DRAFT"

Consistent(rows, time, x, k, j) ==
  /\ InTime(time, x, k)
  /\ j.phase \in SavingPhases => Writable(rows, x)
  /\ x.number # 0 /\ j.phase \notin SavingPhases =>
       Faithful(rows[x.number], x) /\ Agreeing(rows[x.number], x, k[x.number])
  /\ CachedIn(rows, k)
  /\ Sound(rows, j)

RowsTimed == \A n \in DOMAIN versions : versions[n].stamp \in 1..clock

OneSaver == \A p, q \in Processes : Saving(p) /\ Saving(q) => p = q

Inv ==
  /\ TypeInv /\ RowsTimed /\ OneSaver
  /\ PublishedValid /\ StartedFromPublished
  /\ \A p \in Processes : Consistent(versions, clock, instance[p], cache[p], job[p])

(* What a process has stays consistent when another one writes: a row that *)
(* changes gets a new stamp and is no draft again.                         *)
LEMMA Outlasts ==
  ASSUME NEW rows \in Seq(Row), NEW rows2 \in Seq(Row), NEW time \in Nat,
         NEW x \in Instance, NEW k \in [1..MaxVersions -> Entry], NEW j \in JobType,
         x.number \in 0..Len(rows), Len(rows) <= Len(rows2), Len(rows2) <= MaxVersions,
         j.phase \in {"pinning", "starting"} => j.number \in 0..Len(rows),
         \A n \in 1..Len(rows) :
           \/ rows2[n] = rows[n]
           \/ /\ rows2[n].stamp = time + 1
              /\ rows[n].status # "DRAFT" => rows2[n].status # "DRAFT",
         \A n \in 1..Len(rows2) : n > Len(rows) => rows2[n].stamp = time + 1,
         j.phase \in SavingPhases => rows2[x.number] = rows[x.number],
         Consistent(rows, time, x, k, j)
  PROVE  Consistent(rows2, time + 1, x, k, j)
<1>0. /\ Len(rows) \in Nat /\ Len(rows2) \in Nat /\ MaxVersions \in Nat
      /\ DOMAIN rows = 1..Len(rows) /\ DOMAIN rows2 = 1..Len(rows2)
      /\ x.stamp \in Nat /\ \A n \in 1..MaxVersions : k[n].stamp \in Nat
  BY BoundsAssumption DEF Instance, Entry
<1>1. InTime(time + 1, x, k)
  <2>1. InTime(time, x, k)
    BY DEF Consistent
  <2>2. x.stamp <= time + 1 /\ (x.number # 0 => x.stamp > 0)
    BY <1>0, <2>1 DEF InTime
  <2>3. ASSUME NEW n \in 1..MaxVersions PROVE k[n].stamp <= time + 1
    <3>1. k[n].stamp <= time /\ k[n].stamp \in Nat
      BY <1>0, <2>1 DEF InTime
    <3> QED BY <3>1
  <2> QED BY <2>2, <2>3 DEF InTime
<1>2. ASSUME j.phase \in SavingPhases PROVE Writable(rows2, x)
  <2>1. Writable(rows, x) /\ rows2[x.number] = rows[x.number]
    BY <1>2 DEF Consistent
  <2> QED BY <2>1 DEF Writable
<1>3. ASSUME x.number # 0, j.phase \notin SavingPhases
      PROVE  Faithful(rows2[x.number], x) /\ Agreeing(rows2[x.number], x, k[x.number])
  <2>1. x.number \in 1..Len(rows) /\ x.stamp <= time
    BY <1>0, <1>3 DEF Consistent, InTime
  <2>2. Faithful(rows[x.number], x) /\ Agreeing(rows[x.number], x, k[x.number])
    BY <1>3 DEF Consistent
  <2>3. CASE rows2[x.number] = rows[x.number]
    BY <2>2, <2>3
  <2>4. CASE /\ rows2[x.number].stamp = time + 1
             /\ rows[x.number].status # "DRAFT" => rows2[x.number].status # "DRAFT"
    <3> DEFINE row == rows[x.number]
               row2 == rows2[x.number]
    <3>1. row2.stamp # x.stamp
      BY <1>0, <2>1, <2>4
    <3>2. row2.status = "DRAFT" => row.status = "DRAFT"
      BY <2>4
    <3> HIDE DEF row, row2
    <3>3. Faithful(row, x) /\ Agreeing(row, x, k[x.number])
      BY <2>2 DEF row
    <3>4. Faithful(row2, x) /\ Agreeing(row2, x, k[x.number])
      BY <3>1, <3>2, <3>3 DEF Faithful, Agreeing
    <3> QED BY <3>4 DEF row2
  <2> QED BY <2>1, <2>3, <2>4
<1>4. CachedIn(rows2, k)
  <2> SUFFICES ASSUME NEW n \in 1..Len(rows2), rows2[n].status = "DRAFT",
                      k[n].stamp = rows2[n].stamp
               PROVE  k[n].workflow = rows2[n].definition
    BY <1>0 DEF CachedIn
  <2>1. n \in 1..MaxVersions /\ k[n].stamp <= time /\ k[n].stamp \in Nat
    BY <1>0 DEF Consistent, InTime
  <2>2. rows2[n].stamp # time + 1
    BY <2>1
  <2>3. n \in 1..Len(rows)
    BY <1>0, <2>2
  <2>4. rows2[n] = rows[n]
    BY <2>2, <2>3
  <2> QED BY <1>0, <2>3, <2>4 DEF Consistent, CachedIn
<1>5. Sound(rows2, j)
  BY <1>0 DEF Consistent, Sound
<1> QED BY <1>1, <1>2, <1>3, <1>4, <1>5 DEF Consistent

(* A process that neither was nor is saving keeps what it has, if its new  *)
(* job is sound.                                                           *)
LEMMA Continues ==
  ASSUME NEW rows, NEW time, NEW x, NEW k, NEW i, NEW j,
         Consistent(rows, time, x, k, i), i.phase \notin SavingPhases,
         j.phase \notin SavingPhases, Sound(rows, j)
  PROVE  Consistent(rows, time, x, k, j)
BY DEF Consistent

(* A step that writes no row keeps the invariant, if what its process has  *)
(* afterwards is consistent.                                               *)
LEMMA LocalInv ==
  ASSUME Inv, TypeInv', NEW p \in Processes, NEW x, NEW k, NEW j,
         instance' = [instance EXCEPT ![p] = x],
         cache' = [cache EXCEPT ![p] = k],
         job' = [job EXCEPT ![p] = j],
         versions' = versions, clock' = clock,
         StartedFromPublished',
         Consistent(versions, clock, x, k, j),
         j.phase \in SavingPhases => \A q \in Processes : ~Saving(q)
  PROVE  Inv'
<1>1. /\ instance \in [Processes -> Instance] /\ cache \in [Processes -> [1..MaxVersions -> Entry]]
      /\ job \in [Processes -> JobType]
  BY DEF Inv, TypeInv, TypeOK, JobType
<1>2. /\ instance'[p] = x /\ cache'[p] = k /\ job'[p] = j
      /\ \A q \in Processes \ {p} :
           instance'[q] = instance[q] /\ cache'[q] = cache[q] /\ job'[q] = job[q]
  BY <1>1
<1>3. RowsTimed' /\ PublishedValid'
  BY DEF Inv, RowsTimed, PublishedValid
<1>4. OneSaver'
  BY <1>2 DEF Inv, OneSaver, Saving, SavingPhases
<1>5. ASSUME NEW q \in Processes
      PROVE  Consistent(versions', clock', instance'[q], cache'[q], job'[q])
  BY <1>2 DEF Inv
<1> QED BY <1>3, <1>4, <1>5 DEF Inv

(* A step that writes rows keeps it, if the rows go on as Outlasts wants,  *)
(* and the writer is consistent afterwards and not saving.                 *)
LEMMA WritingInv ==
  ASSUME Inv, TypeInv', NEW p \in Processes, NEW x, NEW k, NEW j,
         instance' = [instance EXCEPT ![p] = x],
         cache' = [cache EXCEPT ![p] = k],
         job' = [job EXCEPT ![p] = j],
         clock' = clock + 1, bound' = bound, relaxed' = relaxed,
         Len(versions) <= Len(versions'),
         \A n \in 1..Len(versions) :
           \/ versions'[n] = versions[n]
           \/ /\ versions'[n].stamp = clock + 1
              /\ versions[n].status # "DRAFT" => versions'[n].status # "DRAFT",
         \A n \in 1..Len(versions') : n > Len(versions) => versions'[n].stamp = clock + 1,
         \A q \in Processes \ {p} :
           Saving(q) => versions'[instance[q].number] = versions[instance[q].number],
         PublishedValid',
         Consistent(versions', clock', x, k, j),
         j.phase \notin SavingPhases
  PROVE  Inv'
<1>1. /\ instance \in [Processes -> Instance] /\ cache \in [Processes -> [1..MaxVersions -> Entry]]
      /\ job \in [Processes -> JobType]
      /\ versions \in Seq(Row) /\ clock \in Nat /\ versions' \in Seq(Row)
      /\ Len(versions') <= MaxVersions
  BY DEF Inv, TypeInv, TypeOK, JobType
<1>2. /\ instance'[p] = x /\ cache'[p] = k /\ job'[p] = j
      /\ \A q \in Processes \ {p} :
           instance'[q] = instance[q] /\ cache'[q] = cache[q] /\ job'[q] = job[q]
  BY <1>1
<1>3. /\ Len(versions) \in Nat /\ DOMAIN versions = 1..Len(versions)
      /\ Len(versions') \in Nat /\ DOMAIN versions' = 1..Len(versions')
  BY <1>1
<1>4. RowsTimed'
  <2> SUFFICES ASSUME NEW n \in 1..Len(versions') PROVE versions'[n].stamp \in 1..clock'
    BY <1>3 DEF RowsTimed
  <2>1. CASE n \in 1..Len(versions) /\ versions'[n] = versions[n]
    <3>1. versions[n].stamp \in 1..clock
      BY <1>3, <2>1 DEF Inv, RowsTimed
    <3> QED BY <1>1, <2>1, <3>1
  <2>2. CASE versions'[n].stamp = clock + 1
    BY <1>1, <2>2
  <2> QED BY <1>3, <2>1, <2>2
<1>5. OneSaver'
  BY <1>2 DEF Inv, OneSaver, Saving, SavingPhases
<1>6. StartedFromPublished'
  <2> SUFFICES ASSUME NEW o \in Objects \ relaxed, bound[o] > 0
               PROVE  versions'[bound[o]].status # "DRAFT"
    BY DEF StartedFromPublished
  <2>1. versions[bound[o]].status # "DRAFT"
    BY DEF Inv, StartedFromPublished
  <2>2. bound[o] \in 1..Len(versions)
    BY <1>3 DEF Inv, TypeInv, TypeOK, NotStarted, Unversioned
  <2> QED BY <2>1, <2>2
<1>7. ASSUME NEW q \in Processes
      PROVE  Consistent(versions', clock', instance'[q], cache'[q], job'[q])
  <2>1. CASE q = p
    BY <1>2, <2>1
  <2>2. CASE q # p
    <3>1. /\ instance[q] \in Instance /\ cache[q] \in [1..MaxVersions -> Entry]
          /\ job[q] \in JobType
      BY <1>1
    <3>2. /\ instance[q].number \in 0..Len(versions)
          /\ job[q].phase \in {"pinning", "starting"} => job[q].number \in 0..Len(versions)
      BY <1>3 DEF Inv, TypeInv, Reach, At
    <3>3. job[q].phase \in SavingPhases =>
            versions'[instance[q].number] = versions[instance[q].number]
      BY <2>2 DEF Saving, SavingPhases
    <3>4. Consistent(versions, clock, instance[q], cache[q], job[q])
      BY DEF Inv
    <3>5. Consistent(versions', clock + 1, instance[q], cache[q], job[q])
      BY <1>1, <3>1, <3>2, <3>3, <3>4, Outlasts
    <3> QED BY <1>2, <2>2, <3>5
  <2> QED BY <2>1, <2>2
<1> QED BY <1>4, <1>5, <1>6, <1>7 DEF Inv

(* What the invariant says of one process.                                 *)
LEMMA InvAt ==
  ASSUME Inv, NEW p \in Processes
  PROVE  /\ TypeInv /\ TypesAt(p)
         /\ Consistent(versions, clock, instance[p], cache[p], job[p])
BY ProcessTypes DEF Inv

(* A cache serves a draft read anew as it is.                              *)
LEMMA ServedRow ==
  ASSUME Inv, NEW p \in Processes, NEW n \in DOMAIN versions,
         versions[n].status = "DRAFT"
  PROVE  WorkflowOf(p, Load(n)) = versions[n].definition
<1>1. CachedIn(versions, cache[p])
  BY InvAt DEF Consistent
<1> QED BY <1>1 DEF CachedIn, WorkflowOf, Hit, Load

(* A row read anew is faithful, and agrees with a consistent cache.        *)
LEMMA LoadedRow ==
  ASSUME Inv, NEW p \in Processes, NEW n \in DOMAIN versions, NEW j,
         j.phase \notin SavingPhases, Sound(versions, j)
  PROVE  /\ Load(n).stamp <= clock
         /\ Consistent(versions, clock, Load(n), cache[p], j)
<1>1. CachedIn(versions, cache[p]) /\ InTime(clock, instance[p], cache[p])
  BY InvAt DEF Consistent
<1>2. versions[n].stamp \in 1..clock /\ clock \in Nat
  BY DEF Inv, RowsTimed, TypeInv, TypeOK
<1>3. Load(n).stamp <= clock /\ Load(n).stamp > 0
  BY <1>2 DEF Load
<1>4. InTime(clock, Load(n), cache[p])
  BY <1>1, <1>3 DEF InTime
<1>5. Faithful(versions[n], Load(n)) /\ Agreeing(versions[n], Load(n), cache[p][n])
  BY <1>1 DEF Faithful, Agreeing, Load, CachedIn
<1>6. Load(n).number = n
  BY DEF Load
<1> QED BY <1>1, <1>3, <1>4, <1>5, <1>6 DEF Consistent

(* Keeping what was rebuilt from x leaves a process that holds y           *)
(* consistent, if x is faithful to its row and tells the same of it as y.  *)
LEMMA Remembering ==
  ASSUME Inv, NEW p \in Processes, At(p, "idle"),
         NEW x \in Instance, x.number \in DOMAIN versions, x.stamp <= clock,
         versions[x.number].status = "DRAFT" /\ x.stamp = versions[x.number].stamp =>
           x.definition = versions[x.number].definition,
         Remember(p, x), TypeInv',
         versions[x.number].status = "DRAFT" /\ instance[p].number = x.number
           /\ instance[p].stamp = x.stamp => WorkflowOf(p, x) = instance[p].definition
  PROVE  \E k : cache' = [cache EXCEPT ![p] = k] /\ k = cache'[p]
                /\ Consistent(versions, clock, instance[p], k, job[p])
<1>t. TypesAt(p) /\ Consistent(versions, clock, instance[p], cache[p], job[p]) /\ TypeInv
  BY InvAt
<1> DEFINE e == [stamp |-> x.stamp, workflow |-> WorkflowOf(p, x)]
           k == [cache[p] EXCEPT ![x.number] = e]
           y == instance[p]
<1>1. /\ cache' = [cache EXCEPT ![p] = k] /\ cache'[p] = k
      /\ cache[p] \in [1..MaxVersions -> Entry]
      /\ x.number \in 1..MaxVersions /\ DOMAIN versions = 1..Len(versions)
      /\ Len(versions) \in Nat /\ Len(versions) <= MaxVersions /\ MaxVersions \in Nat
  BY <1>t DEF Remember, TypesAt, TypeInv, TypeOK
<1>2. /\ k[x.number] = e
      /\ \A n \in 1..MaxVersions : n # x.number => k[n] = cache[p][n]
  <2> HIDE DEF e
  <2> QED BY <1>1
<1>3. e.stamp = x.stamp /\ e.workflow = WorkflowOf(p, x)
  OBVIOUS
<1>4. CachedIn(versions, cache[p]) /\ InTime(clock, y, cache[p]) /\ Sound(versions, job[p])
  BY <1>t DEF Consistent
<1> HIDE DEF k, e
<1>5. InTime(clock, y, k)
  <2> SUFFICES ASSUME NEW n \in 1..MaxVersions PROVE k[n].stamp <= clock
    BY <1>4 DEF InTime
  <2> QED BY <1>2, <1>3, <1>4 DEF InTime
<1>6. CachedIn(versions, k)
  <2> SUFFICES ASSUME NEW n \in DOMAIN versions, versions[n].status = "DRAFT",
                      k[n].stamp = versions[n].stamp
               PROVE  k[n].workflow = versions[n].definition
    BY DEF CachedIn
  <2>1. CASE n # x.number
    BY <1>1, <1>2, <1>4, <2>1 DEF CachedIn
  <2>2. CASE n = x.number
    BY <1>2, <1>3, <1>4, <2>2 DEF CachedIn, WorkflowOf, Hit
  <2> QED BY <2>1, <2>2
<1>7. job[p].phase \notin SavingPhases
  BY DEF At, SavingPhases
<1>8. ASSUME y.number # 0
      PROVE  Faithful(versions[y.number], y) /\ Agreeing(versions[y.number], y, k[y.number])
  <2>1. Faithful(versions[y.number], y) /\ Agreeing(versions[y.number], y, cache[p][y.number])
    BY <1>t, <1>7, <1>8 DEF Consistent
  <2>2. y.number \in 1..MaxVersions
    BY <1>t, <1>1, <1>8 DEF TypesAt
  <2>3. CASE y.number # x.number
    BY <1>2, <2>1, <2>2, <2>3
  <2>4. CASE y.number = x.number
    BY <1>2, <1>3, <2>1, <2>4 DEF Agreeing
  <2> QED BY <2>3, <2>4
<1>9. Consistent(versions, clock, y, k, job[p])
  BY <1>4, <1>5, <1>6, <1>7, <1>8 DEF Consistent
<1> QED BY <1>1, <1>9

(* get_version_workflow of a row read anew.                                *)
LEMMA RememberingRow ==
  ASSUME Inv, NEW p \in Processes, At(p, "idle"), NEW n \in DOMAIN versions,
         Remember(p, Load(n)), TypeInv'
  PROVE  \E k : cache' = [cache EXCEPT ![p] = k] /\ k = cache'[p]
                /\ Consistent(versions, clock, instance[p], k, job[p])
<1> DEFINE x == Load(n)
<1>1. x \in Instance /\ x.number = n
  BY LoadTyped, InvAt
<1>2. x.stamp = versions[n].stamp /\ x.definition = versions[n].definition
  BY DEF Load
<1>3. versions[n].stamp \in 1..clock /\ clock \in Nat
  BY DEF Inv, RowsTimed, TypeInv, TypeOK
<1>4. versions[n].status = "DRAFT" => WorkflowOf(p, x) = versions[n].definition
  BY ServedRow
<1>5. ASSUME versions[n].status = "DRAFT", instance[p].number = n,
             instance[p].stamp = x.stamp
      PROVE  WorkflowOf(p, x) = instance[p].definition
  <2>1. n # 0 /\ job[p].phase \notin SavingPhases
    BY InvAt DEF At, SavingPhases, TypesAt
  <2>2. Faithful(versions[n], instance[p])
    BY <1>5, <2>1, InvAt DEF Consistent
  <2> QED BY <1>2, <1>4, <1>5, <2>2 DEF Faithful
<1> HIDE DEF x
<1>6. x.stamp <= clock
  BY <1>2, <1>3
<1>7. Remember(p, x)
  BY DEF x
<1> QED BY <1>1, <1>2, <1>5, <1>6, <1>7, Remembering

(* get_version_workflow of the instance a process holds.                   *)
LEMMA RememberingHeld ==
  ASSUME Inv, NEW p \in Processes, At(p, "idle"), Holds(p),
         Remember(p, instance[p]), TypeInv'
  PROVE  \E k : cache' = [cache EXCEPT ![p] = k] /\ k = cache'[p]
                /\ Consistent(versions, clock, instance[p], k, job[p])
<1> DEFINE x == instance[p]
           row == versions[x.number]
<1>1. x \in Instance /\ x.number \in DOMAIN versions /\ x.number # 0
  BY InvAt DEF TypesAt, Holds
<1>2. job[p].phase \notin SavingPhases
  BY DEF At, SavingPhases
<1>3. /\ InTime(clock, x, cache[p])
      /\ Faithful(row, x) /\ Agreeing(row, x, cache[p][x.number])
  BY <1>1, <1>2, InvAt DEF Consistent
<1>4. x.stamp <= clock
  BY <1>3 DEF InTime
<1>5. row.status = "DRAFT" /\ x.stamp = row.stamp => x.definition = row.definition
  BY <1>3 DEF Faithful
<1>6. row.status = "DRAFT" => WorkflowOf(p, x) = x.definition
  BY <1>3 DEF Agreeing, WorkflowOf, Hit
<1> QED BY <1>1, <1>4, <1>5, <1>6, Remembering

LEMMA BoundKept ==
  ASSUME Inv, UNCHANGED <<versions, bound, relaxed>>
  PROVE  StartedFromPublished'
BY DEF Inv, StartedFromPublished

(* Reading.                                                                *)
LEMMA ReadingInv ==
  ASSUME Inv, TypeInv', NEW p \in Processes,
         \/ \E n \in DOMAIN versions : Fetch(p, n)
         \/ \E o \in Objects : Use(p, o)
         \/ Lose(p) \/ Restart(p)
  PROVE  Inv'
<1>t. TypesAt(p) /\ Consistent(versions, clock, instance[p], cache[p], job[p]) /\ TypeInv
  BY InvAt
<1> USE DEF database, shared
<1>1. ASSUME NEW n \in DOMAIN versions, Fetch(p, n) PROVE Inv'
  <2>1. job[p].phase \notin SavingPhases
    BY <1>1 DEF Fetch, At, SavingPhases
  <2>2. Sound(versions, job[p])
    BY <1>t DEF Consistent
  <2>3. Consistent(versions, clock, Load(n), cache[p], job[p])
    BY <2>1, <2>2, LoadedRow
  <2>4. /\ UNCHANGED <<versions, bound, clock, relaxed>>
        /\ instance' = [instance EXCEPT ![p] = Load(n)]
        /\ cache' = [cache EXCEPT ![p] = cache[p]] /\ job' = [job EXCEPT ![p] = job[p]]
    BY <1>1, <1>t DEF Fetch, Hold, TypesAt
  <2> QED BY <2>1, <2>3, <2>4, BoundKept, LocalInv
<1>2. ASSUME NEW o \in Objects, Use(p, o) PROVE Inv'
  <2>1. bound[o] \in DOMAIN versions
    BY <1>t, <1>2 DEF Use, NotStarted, Unversioned, TypesAt
  <2>2. PICK k : /\ cache' = [cache EXCEPT ![p] = k]
                 /\ Consistent(versions, clock, instance[p], k, job[p])
    BY <1>2, <2>1, RememberingRow DEF Use
  <2>3. job[p].phase \notin SavingPhases
    BY <1>2 DEF Use, At, SavingPhases
  <2>4. /\ UNCHANGED <<versions, bound, clock, relaxed>>
        /\ instance' = [instance EXCEPT ![p] = instance[p]]
        /\ job' = [job EXCEPT ![p] = job[p]]
    BY <1>2, <1>t DEF Use, TypesAt
  <2> QED BY <2>2, <2>3, <2>4, BoundKept, LocalInv
<1>3. ASSUME Lose(p) PROVE Inv'
  <2>1. job[p].phase \notin SavingPhases
    BY <1>3 DEF Lose, At, SavingPhases
  <2>2. UNCHANGED <<versions, bound, clock, relaxed>> /\ cache' = [cache EXCEPT ![p] = cache[p]]
    BY <1>3, <1>t DEF Lose, TypesAt
  <2>3. CASE Active # 0 /\ Doing(p, "pinning", Active) /\ Hold(p, Load(Active))
    <3> DEFINE j == [phase |-> "pinning", number |-> Active, lenient |-> FALSE]
    <3>1. Active \in DOMAIN versions /\ versions[Active].status = "PUBLISHED"
      BY <2>3, <1>t, ActivePublished DEF TypeInv
    <3>2. Sound(versions, j) /\ j.phase \notin SavingPhases
      BY <3>1 DEF Sound, SavingPhases
    <3>3. job' = [job EXCEPT ![p] = j]
      <4>1. Active \in Int /\ "pinning" \in Phases
        BY <3>1, <1>t DEF TypesAt, Phases
      <4> QED BY <2>3, <4>1, JobShape DEF Doing
    <3>4. instance' = [instance EXCEPT ![p] = Load(Active)]
      BY <2>3 DEF Hold
    <3> HIDE DEF j
    <3>5. Consistent(versions, clock, Load(Active), cache[p], j)
      BY <3>1, <3>2, LoadedRow
    <3> QED BY <2>2, <3>2, <3>3, <3>4, <3>5, BoundKept, LocalInv
  <2>4. CASE Goto(p, "idle") /\ UNCHANGED instance
    <3>1. job' = [job EXCEPT ![p] = Idle] /\ Idle.phase \notin SavingPhases /\ Sound(versions, Idle)
      BY <2>4, PhaseShape DEF Goto, Idle, Phases, SavingPhases, Sound
    <3>2. instance' = [instance EXCEPT ![p] = instance[p]]
      BY <2>4, <1>t DEF TypesAt
    <3>3. Consistent(versions, clock, instance[p], cache[p], Idle)
      BY <1>t, <2>1, <3>1, Continues
    <3> QED BY <2>2, <3>1, <3>2, <3>3, BoundKept, LocalInv
  <2> QED BY <1>3, <2>3, <2>4 DEF Lose
<1>4. ASSUME Restart(p) PROVE Inv'
  <2>1. /\ UNCHANGED <<versions, bound, clock, relaxed>>
        /\ instance' = [instance EXCEPT ![p] = NoInstance]
        /\ cache' = [cache EXCEPT ![p] = EmptyCache]
        /\ job' = [job EXCEPT ![p] = Idle]
    BY <1>4 DEF Restart, Hold
  <2>2. Idle.phase \notin SavingPhases /\ Sound(versions, Idle)
    BY DEF Idle, SavingPhases, Sound
  <2>3. NoInstance.number = 0 /\ NoInstance.stamp = 0
    BY DEF NoInstance
  <2>4. \A n \in 1..MaxVersions : EmptyCache[n].stamp = 0
    BY DEF EmptyCache, NoEntry
  <2>5. clock \in Nat /\ \A n \in DOMAIN versions : versions[n].stamp \in 1..clock
    BY DEF Inv, RowsTimed, TypeInv, TypeOK
  <2> HIDE DEF database, shared
  <2>6. InTime(clock, NoInstance, EmptyCache)
    BY <2>3, <2>4, <2>5 DEF InTime
  <2>7. CachedIn(versions, EmptyCache)
    <3> SUFFICES ASSUME NEW n \in DOMAIN versions PROVE EmptyCache[n].stamp # versions[n].stamp
      BY DEF CachedIn
    <3>1. n \in 1..MaxVersions
      BY LoadTyped, <1>t
    <3> QED BY <2>4, <2>5, <3>1
  <2>8. Consistent(versions, clock, NoInstance, EmptyCache, Idle)
    BY <2>2, <2>3, <2>6, <2>7 DEF Consistent
  <2> QED BY <2>1, <2>2, <2>8, BoundKept, LocalInv
<1> QED BY <1>1, <1>2, <1>3, <1>4

(* Steps between reads and writes, and of executions.                      *)
LEMMA WorkingInv ==
  ASSUME Inv, TypeInv', NEW p \in Processes,
         \/ Draft(p) \/ Ensure(p) \/ Pin(p) \/ ResolveDefault(p)
         \/ \E o \in Objects : Create(p, o)
  PROVE  Inv'
<1>t. TypesAt(p) /\ Consistent(versions, clock, instance[p], cache[p], job[p]) /\ TypeInv
  BY InvAt
<1>g. ASSUME NEW j, j.phase \notin SavingPhases, job[p].phase \notin SavingPhases,
             Sound(versions, j), job' = [job EXCEPT ![p] = j],
             UNCHANGED <<versions, clock, instance, cache>>, StartedFromPublished'
      PROVE  Inv'
  <2>1. Consistent(versions, clock, instance[p], cache[p], j)
    BY <1>g, <1>t, Continues
  <2>2. /\ instance' = [instance EXCEPT ![p] = instance[p]]
        /\ cache' = [cache EXCEPT ![p] = cache[p]]
    BY <1>g, <1>t DEF TypesAt
  <2> QED BY <1>g, <2>1, <2>2, LocalInv
<1>i. Idle.phase \notin SavingPhases /\ Sound(versions, Idle)
  BY DEF Idle, SavingPhases, Sound
<1>1. ASSUME Draft(p) PROVE Inv'
  <2> DEFINE j == [phase |-> "creating", number |-> Len(versions) + 1, lenient |-> FALSE]
  <2>1. j.phase \notin SavingPhases /\ Sound(versions, j)
    BY DEF SavingPhases, Sound
  <2>2. job' = [job EXCEPT ![p] = j]
    <3>1. Len(versions) + 1 \in Int /\ "creating" \in Phases
      BY <1>t DEF Phases, TypesAt
    <3> QED BY <1>1, <3>1, JobShape DEF Draft, Doing
  <2>3. job[p].phase \notin SavingPhases /\ UNCHANGED <<versions, bound, clock, relaxed, instance, cache>>
    BY <1>1 DEF Draft, At, SavingPhases, database, shared
  <2> HIDE DEF j
  <2> QED BY <1>g, <2>1, <2>2, <2>3, BoundKept
<1>2. ASSUME Ensure(p) PROVE Inv'
  <2> DEFINE j == [phase |-> "ensuring", number |-> 0, lenient |-> FALSE]
  <2>1. j.phase \notin SavingPhases /\ Sound(versions, j)
    BY DEF SavingPhases, Sound
  <2>2. job' = [job EXCEPT ![p] = j]
    BY <1>2, PhaseShape DEF Ensure, Goto, Phases
  <2>3. job[p].phase \notin SavingPhases /\ UNCHANGED <<versions, bound, clock, relaxed, instance, cache>>
    BY <1>2 DEF Ensure, At, SavingPhases, database, shared
  <2> HIDE DEF j
  <2> QED BY <1>g, <2>1, <2>2, <2>3, BoundKept
<1>3. ASSUME Pin(p) PROVE Inv'
  <2>1. job' = [job EXCEPT ![p] = Idle]
    BY <1>3, PhaseShape DEF Pin, Goto, Idle, Phases
  <2>2. /\ job[p].phase \notin SavingPhases /\ job[p].phase = "pinning"
        /\ UNCHANGED <<versions, clock, relaxed, instance, cache>>
    BY <1>3 DEF Pin, At, SavingPhases
  <2>3. job[p].number \in DOMAIN versions /\ job[p].number # 0
    BY <2>2, <1>t DEF TypeInv, Reach, At, TypesAt
  <2>4. versions[job[p].number].status # "DRAFT"
    BY <2>2, <2>3, <1>t DEF Consistent, Sound
  <2>5. StartedFromPublished'
    <3> SUFFICES ASSUME NEW o \in Objects \ relaxed, bound'[o] > 0
                 PROVE  versions[bound'[o]].status # "DRAFT"
      BY <2>2 DEF StartedFromPublished
    <3>1. bound'[o] = job[p].number \/ bound'[o] = bound[o]
      BY <1>3, <1>t DEF Pin, Pinned, TypesAt
    <3> QED BY <2>4, <3>1 DEF Inv, StartedFromPublished
  <2> QED BY <1>g, <1>i, <2>1, <2>2, <2>5
<1>4. ASSUME ResolveDefault(p) PROVE Inv'
  <2> DEFINE j == [phase |-> "starting", number |-> Active, lenient |-> FALSE]
  <2>1. j.phase \notin SavingPhases /\ Sound(versions, j)
    BY <1>t, ActivePublished DEF SavingPhases, Sound, TypeInv
  <2>2. job' = [job EXCEPT ![p] = j]
    BY <1>4 DEF ResolveDefault, Starting
  <2>3. job[p].phase \notin SavingPhases /\ UNCHANGED <<versions, bound, clock, relaxed, instance, cache>>
    BY <1>4 DEF ResolveDefault, At, SavingPhases, database, shared
  <2> HIDE DEF j
  <2> QED BY <1>g, <2>1, <2>2, <2>3, BoundKept
<1>5. ASSUME NEW o \in Objects, Create(p, o) PROVE Inv'
  <2>1. job' = [job EXCEPT ![p] = Idle]
    BY <1>5, PhaseShape DEF Create, Goto, Idle, Phases
  <2>2. /\ job[p].phase \notin SavingPhases /\ job[p].phase = "starting"
        /\ UNCHANGED <<versions, clock, instance, cache>>
    BY <1>5 DEF Create, At, SavingPhases
  <2>3. job[p].number # 0 /\ ~job[p].lenient => versions[job[p].number].status # "DRAFT"
    BY <2>2, <1>t DEF Consistent, Sound
  <2>4. StartedFromPublished'
    <3> SUFFICES ASSUME NEW w \in Objects \ relaxed', bound'[w] > 0
                 PROVE  versions[bound'[w]].status # "DRAFT"
      BY <2>2 DEF StartedFromPublished
    <3>1. CASE bound'[w] = bound[w] /\ w \notin relaxed
      BY <3>1 DEF Inv, StartedFromPublished
    <3>2. CASE bound[o] = NotStarted /\ w = o
      <4>1. bound'[w] = job[p].number /\ ~job[p].lenient
        BY <1>5, <1>t, <3>2 DEF Create, TypesAt
      <4>2. job[p].number # 0
        BY <4>1
      <4> QED BY <2>3, <4>1, <4>2
    <3> QED BY <1>5, <1>t, <3>1, <3>2 DEF Create, TypesAt
  <2> QED BY <1>g, <1>i, <2>1, <2>2, <2>4
<1> QED BY <1>1, <1>2, <1>3, <1>4, <1>5

(* An explicit version to start with.                                      *)
LEMMA ResolvingInv ==
  ASSUME Inv, TypeInv', NEW p \in Processes, NEW x \in Instance, NEW lenient \in BOOLEAN,
         x.number \in DOMAIN versions,
         x.status # "DRAFT" => versions[x.number].status # "DRAFT",
         ResolveGiven(p, x, lenient),
         \E k : cache' = [cache EXCEPT ![p] = k] /\ k = cache'[p]
               /\ Consistent(versions, clock, instance[p], k, job[p])
  PROVE  Inv'
<1>t. TypesAt(p)
  BY InvAt
<1> DEFINE j == [phase |-> "starting", number |-> x.number,
                 lenient |-> lenient /\ x.status # "PUBLISHED"]
<1>1. PICK k : /\ cache' = [cache EXCEPT ![p] = k]
               /\ Consistent(versions, clock, instance[p], k, job[p])
  OBVIOUS
<1>2. ~j.lenient => x.status = "PUBLISHED"
  BY DEF ResolveGiven, Selectable
<1>3. j.phase \notin SavingPhases /\ Sound(versions, j)
  BY <1>2 DEF SavingPhases, Sound
<1>4. /\ job' = [job EXCEPT ![p] = j] /\ job[p].phase \notin SavingPhases
      /\ instance' = [instance EXCEPT ![p] = instance[p]]
      /\ UNCHANGED <<versions, bound, clock, relaxed>>
  BY <1>t DEF ResolveGiven, Starting, At, SavingPhases, database, shared, TypesAt
<1> HIDE DEF j
<1>5. Consistent(versions, clock, instance[p], k, j)
  BY <1>1, <1>3, <1>4, Continues
<1> QED BY <1>1, <1>3, <1>4, <1>5, BoundKept, LocalInv

LEMMA ServingInv ==
  ASSUME Inv, TypeInv', NEW p \in Processes, NEW lenient \in BOOLEAN,
         \/ ResolveGiven(p, instance[p], lenient)
         \/ \E n \in DOMAIN versions : ResolveGiven(p, Load(n), lenient)
  PROVE  Inv'
<1>1. ASSUME ResolveGiven(p, instance[p], lenient) PROVE Inv'
  <2>1. Holds(p) /\ At(p, "idle") /\ Remember(p, instance[p])
    BY <1>1 DEF ResolveGiven, Holds
  <2>2. instance[p] \in Instance /\ instance[p].number \in DOMAIN versions
    BY <2>1, InvAt DEF Holds, TypesAt
  <2>3. instance[p].status # "DRAFT" => versions[instance[p].number].status # "DRAFT"
    BY <2>1, InvAt DEF Consistent, Faithful, Holds, At, SavingPhases
  <2> QED BY <1>1, <2>1, <2>2, <2>3, RememberingHeld, ResolvingInv
<1>2. ASSUME NEW n \in DOMAIN versions, ResolveGiven(p, Load(n), lenient) PROVE Inv'
  <2>1. At(p, "idle") /\ Remember(p, Load(n))
    BY <1>2 DEF ResolveGiven
  <2>2. Load(n) \in Instance /\ Load(n).number = n
    BY LoadTyped, InvAt
  <2>3. Load(n).status = versions[n].status
    BY DEF Load
  <2> QED BY <1>2, <2>1, <2>2, <2>3, RememberingRow, ResolvingInv
<1> QED BY <1>1, <1>2

(* save() up to its check: afterwards the instance can be written, or is   *)
(* as faithful to its row as before.                                       *)
LEMMA SaveInv ==
  ASSUME Inv, TypeInv', ~Overlapping, NEW p \in Processes, At(p, "idle"), Holds(p),
         NEW k, cache' = [cache EXCEPT ![p] = k],
         Consistent(versions, clock, instance[p], k, job[p]),
         NEW x \in Instance, NEW phase \in SavingPhases, Save(p, x, phase),
         x.number = instance[p].number, x.stamp = instance[p].stamp,
         \/ x.status = instance[p].status
         \/ instance[p].status = "DRAFT" /\ x.status = "PUBLISHED"
         \/ instance[p].status = "PUBLISHED" /\ x.status = "RETIRED",
         versions[x.number].status = "DRAFT" /\ x.status # "DRAFT" => x.definition # Malformed
  PROVE  Inv'
<1>t. TypesAt(p) /\ TypeInv
  BY InvAt
<1> DEFINE row == versions[x.number]
           next == IF Permitted(x) THEN phase ELSE "idle"
           j == [phase |-> next, number |-> 0, lenient |-> FALSE]
<1>1. /\ UNCHANGED <<versions, bound, clock, relaxed>>
      /\ instance' = [instance EXCEPT ![p] = x]
  BY DEF Save, Hold, database, shared
<1>2. job' = [job EXCEPT ![p] = j] /\ j.phase = next /\ Sound(versions, j)
  <2>1. next \in Phases
    BY DEF Phases, SavingPhases
  <2>2. job' = [job EXCEPT ![p] = [Idle EXCEPT !.phase = next]]
    BY DEF Save, Goto
  <2>3. job' = [job EXCEPT ![p] = j]
    <3> HIDE DEF next
    <3> QED BY <2>1, <2>2, PhaseShape
  <2> QED BY <2>3 DEF Sound
<1>3. \A q \in Processes : ~Saving(q)
  BY DEF Save
<1>4. x.number \in DOMAIN versions /\ x.number # 0
  BY <1>t DEF TypesAt, Holds
<1>5. /\ InTime(clock, instance[p], k) /\ CachedIn(versions, k)
      /\ Faithful(row, instance[p]) /\ Agreeing(row, instance[p], k[x.number])
  BY <1>4 DEF Consistent, At, SavingPhases
<1>6. InTime(clock, x, k)
  BY <1>5 DEF InTime
<1>7. row \in Row
  BY <1>4, <1>t DEF TypeInv, TypeOK
<1>8. Permitted(x) <=> Allows(row, x)
  BY DEF Permitted, Allows
<1>9. row.status # "DRAFT" => row.definition # Malformed
  BY <1>4 DEF Inv, PublishedValid
<1>10. ASSUME Permitted(x) PROVE Writable(versions, x)
  <2>1. x.status = "RETIRED" => row.status # "DRAFT"
    BY <1>5 DEF Faithful
  <2>2. x.status # "DRAFT" => x.definition # Malformed
    BY <1>8, <1>9, <1>10 DEF Allows
  <2> QED BY <1>4, <1>8, <1>10, <2>1, <2>2 DEF Writable
<1>11. ASSUME ~Permitted(x)
       PROVE  Faithful(row, x) /\ Agreeing(row, x, k[x.number])
  <2>1. row.status # "DRAFT"
    BY <1>8, <1>11 DEF Allows
  <2> QED BY <2>1 DEF Faithful, Agreeing
<1>12. Consistent(versions, clock, x, k, j)
  <2>1. j.phase \in SavingPhases => Writable(versions, x)
    BY <1>2, <1>10 DEF SavingPhases
  <2>2. j.phase \notin SavingPhases => Faithful(row, x) /\ Agreeing(row, x, k[x.number])
    BY <1>2, <1>11
  <2> HIDE DEF j
  <2> QED BY <1>2, <1>5, <1>6, <2>1, <2>2 DEF Consistent
<1> HIDE DEF j, next
<1> QED BY <1>1, <1>2, <1>3, <1>12, BoundKept, LocalInv

LEMMA SavingInv ==
  ASSUME Inv, TypeInv', ~Overlapping, NEW p \in Processes,
         \/ Publish(p) \/ Retire(p)
         \/ \E d \in Snapshots : Edit(p, d)
         \/ \E d \in Definitions : Update(p, d)
  PROVE  Inv'
<1>t. TypesAt(p) /\ Consistent(versions, clock, instance[p], cache[p], job[p])
  BY InvAt
<1>s. "saving" \in SavingPhases /\ "editing" \in SavingPhases
  BY DEF SavingPhases
<1>1. ASSUME NEW d \in Snapshots, NEW phase \in SavingPhases,
             At(p, "idle"), Holds(p),
             Save(p, [instance[p] EXCEPT !.definition = d], phase), UNCHANGED cache
      PROVE  Inv'
  <2> DEFINE x == [instance[p] EXCEPT !.definition = d]
  <2>1. /\ x \in Instance /\ x.number = instance[p].number
        /\ x.stamp = instance[p].stamp /\ x.status = instance[p].status
    BY <1>t DEF TypesAt, Instance
  <2>2. Save(p, x, phase)
    BY <1>1
  <2>3. cache' = [cache EXCEPT ![p] = cache[p]]
    BY <1>1, <1>t DEF TypesAt
  <2>4. x.status # "DRAFT" => versions[x.number].status # "DRAFT"
    BY <1>t, <1>1, <2>1 DEF Consistent, Faithful, At, SavingPhases, Holds
  <2> HIDE DEF x
  <2> QED BY <1>t, <1>1, <2>1, <2>2, <2>3, <2>4, SaveInv
<1>2. ASSUME Publish(p) PROVE Inv'
  <2> DEFINE x == [instance[p] EXCEPT !.status = "PUBLISHED"]
  <2>1. /\ x \in Instance /\ x.number = instance[p].number
        /\ x.stamp = instance[p].stamp /\ x.status = "PUBLISHED"
        /\ x.definition = instance[p].definition
    BY <1>t DEF TypesAt, Instance, Statuses
  <2>2. /\ At(p, "idle") /\ Holds(p) /\ instance[p].status = "DRAFT"
        /\ Usable(p, instance[p]) /\ Remember(p, instance[p]) /\ Save(p, x, "saving")
    BY <1>2 DEF Publish, Publishable
  <2>3. PICK k : /\ cache' = [cache EXCEPT ![p] = k]
                 /\ Consistent(versions, clock, instance[p], k, job[p])
    BY <2>2, RememberingHeld
  <2>4. versions[x.number].status = "DRAFT" => x.definition # Malformed
    <3>1. Agreeing(versions[instance[p].number], instance[p], cache[p][instance[p].number])
      BY <1>t, <2>2 DEF Consistent, At, SavingPhases, Holds
    <3>2. WorkflowOf(p, instance[p]) # Malformed
      BY <2>2 DEF Usable
    <3> HIDE DEF x
    <3> QED BY <2>1, <3>1, <3>2 DEF WorkflowOf, Hit, Agreeing
  <2> HIDE DEF x
  <2> QED BY <1>s, <2>1, <2>2, <2>3, <2>4, SaveInv
<1>3. ASSUME Retire(p) PROVE Inv'
  <2> DEFINE x == [instance[p] EXCEPT !.status = "RETIRED"]
  <2>1. /\ x \in Instance /\ x.number = instance[p].number
        /\ x.stamp = instance[p].stamp /\ x.status = "RETIRED"
        /\ x.definition = instance[p].definition
    BY <1>t DEF TypesAt, Instance, Statuses
  <2>2. /\ At(p, "idle") /\ Holds(p) /\ instance[p].status = "PUBLISHED"
        /\ Save(p, x, "saving")
    BY <1>3 DEF Retire
  <2>3. cache' = [cache EXCEPT ![p] = cache[p]]
    BY <1>3, <1>t DEF Retire, TypesAt
  <2>4. versions[x.number].status # "DRAFT"
    BY <1>t, <2>1, <2>2 DEF Consistent, Faithful, At, SavingPhases, Holds
  <2> HIDE DEF x
  <2> QED BY <1>s, <1>t, <2>1, <2>2, <2>3, <2>4, SaveInv
<1>4. ASSUME NEW d \in Snapshots, Edit(p, d) PROVE Inv'
  BY <1>1, <1>4, <1>s DEF Edit
<1>5. ASSUME NEW d \in Definitions, Update(p, d) PROVE Inv'
  BY <1>1, <1>5, <1>s DEF Update, Snapshots
<1> QED BY <1>2, <1>3, <1>4, <1>5

(* The write of a save.                                                    *)
LEMMA StoreInv ==
  ASSUME Inv, TypeInv', NEW p \in Processes, Store(p)
  PROVE  Inv'
<1>t. TypesAt(p) /\ Consistent(versions, clock, instance[p], cache[p], job[p]) /\ TypeInv
  BY InvAt
<1> DEFINE x == instance[p]
           row == [status |-> x.status, definition |-> x.definition, stamp |-> clock']
           y == [x EXCEPT !.stamp = clock']
           k == cache'[p]
<1>0. /\ Len(versions) \in Nat /\ DOMAIN versions = 1..Len(versions)
      /\ clock \in Nat /\ x \in Instance /\ cache[p] \in [1..MaxVersions -> Entry]
      /\ Len(versions) <= MaxVersions /\ MaxVersions \in Nat
  BY <1>t DEF TypesAt, TypeInv, TypeOK
<1>1. /\ clock' = clock + 1
      /\ Len(versions') = Len(versions) /\ DOMAIN versions' = DOMAIN versions
      /\ \A n \in DOMAIN versions :
           versions'[n] = IF n = x.number THEN row ELSE versions[n]
      /\ instance' = [instance EXCEPT ![p] = y]
      /\ job' = [job EXCEPT ![p] = Idle]
  BY <1>t, Stored
<1>2. Saving(p) /\ UNCHANGED <<bound, relaxed>>
  BY DEF Store
<1>3. Writable(versions, x) /\ x.number \in DOMAIN versions
  BY <1>2, <1>t DEF Consistent, Saving, SavingPhases, Writable, TypesAt
<1>4. /\ y.number = x.number /\ y.status = x.status
      /\ y.definition = x.definition /\ y.stamp = clock'
  BY <1>0 DEF Instance
<1>5. row.status = x.status /\ row.definition = x.definition /\ row.stamp = clock'
  OBVIOUS
<1> HIDE DEF row, y
<1>6. /\ cache' = [cache EXCEPT ![p] = k]
      /\ \A n \in 1..MaxVersions :
           k[n] = cache[p][n] \/ (n = x.number /\ k[n] = NoEntry)
  <2>1. CASE At(p, "saving")
    <3>1. cache' = [cache EXCEPT ![p][x.number] = NoEntry]
      BY <2>1 DEF Store
    <3> QED BY <3>1, <1>0, <1>t DEF TypeInv, TypeOK
  <2>2. CASE ~At(p, "saving")
    <3>1. cache' = cache
      BY <2>2 DEF Store
    <3> QED BY <3>1, <1>t DEF TypeInv, TypeOK
  <2> QED BY <2>1, <2>2
<1> HIDE DEF k
<1>7. \A n \in 1..MaxVersions : k[n].stamp \in Nat /\ k[n].stamp <= clock
  <2> SUFFICES ASSUME NEW n \in 1..MaxVersions PROVE k[n].stamp \in Nat /\ k[n].stamp <= clock
    OBVIOUS
  <2>1. cache[p][n].stamp \in Nat /\ cache[p][n].stamp <= clock
    BY <1>0, <1>t DEF Consistent, InTime, Entry
  <2>2. NoEntry.stamp = 0
    BY DEF NoEntry
  <2> QED BY <1>0, <1>6, <2>1, <2>2
<1>8. InTime(clock', y, k)
  <2>1. y.stamp <= clock' /\ y.stamp > 0
    BY <1>0, <1>1, <1>4
  <2>2. \A n \in 1..MaxVersions : k[n].stamp <= clock'
    BY <1>0, <1>1, <1>7
  <2> QED BY <2>1, <2>2 DEF InTime
<1>9. versions'[x.number] = row
  BY <1>1, <1>3
<1>10. Faithful(row, y) /\ Agreeing(row, y, k[x.number])
  <2>1. k[x.number].stamp # y.stamp
    BY <1>0, <1>1, <1>3, <1>4, <1>7
  <2> QED BY <1>4, <1>5, <2>1 DEF Faithful, Agreeing
<1>11. CachedIn(versions', k)
  <2> SUFFICES ASSUME NEW n \in DOMAIN versions, versions'[n].status = "DRAFT",
                      k[n].stamp = versions'[n].stamp
               PROVE  k[n].workflow = versions'[n].definition
    BY <1>1 DEF CachedIn
  <2>1. n \in 1..MaxVersions
    BY <1>0
  <2>2. n # x.number
    BY <1>0, <1>1, <1>5, <1>7, <1>9, <2>1
  <2>3. versions'[n] = versions[n] /\ k[n] = cache[p][n]
    BY <1>1, <1>6, <2>1, <2>2
  <2> QED BY <1>t, <2>3 DEF Consistent, CachedIn
<1>12. Idle.phase \notin SavingPhases /\ Sound(versions', Idle)
  BY DEF Idle, SavingPhases, Sound
<1>13. Consistent(versions', clock', y, k, Idle)
  BY <1>4, <1>8, <1>9, <1>10, <1>11, <1>12 DEF Consistent
<1>14. versions[x.number].status # "DRAFT" => x.status # "DRAFT"
  <2>0. versions[x.number] \in Row
    BY <1>3, <1>t DEF TypeInv, TypeOK
  <2>1. versions[x.number].status \in Statuses
    BY <2>0 DEF Row
  <2> QED BY <1>3, <2>1 DEF Writable, Allows, Statuses
<1>15. PublishedValid'
  <2> SUFFICES ASSUME NEW n \in DOMAIN versions, versions'[n].status # "DRAFT"
               PROVE  versions'[n].definition # Malformed
    BY <1>1 DEF PublishedValid
  <2>1. CASE n = x.number
    BY <1>3, <1>5, <1>9, <2>1 DEF Writable
  <2>2. CASE n # x.number
    BY <1>1, <2>2 DEF Inv, PublishedValid
  <2> QED BY <2>1, <2>2
<1>16. ASSUME NEW q \in Processes \ {p}
       PROVE  Saving(q) => versions'[instance[q].number] = versions[instance[q].number]
  BY <1>2 DEF Inv, OneSaver
<1>17. \A n \in 1..Len(versions) :
         \/ versions'[n] = versions[n]
         \/ /\ versions'[n].stamp = clock + 1
            /\ versions[n].status # "DRAFT" => versions'[n].status # "DRAFT"
  BY <1>0, <1>1, <1>5, <1>14
<1>18. /\ Len(versions) <= Len(versions')
       /\ \A n \in 1..Len(versions') : n > Len(versions) => versions'[n].stamp = clock + 1
  BY <1>0, <1>1
<1>19. /\ clock' = clock + 1 /\ instance' = [instance EXCEPT ![p] = y]
       /\ job' = [job EXCEPT ![p] = Idle] /\ cache' = [cache EXCEPT ![p] = k]
       /\ bound' = bound /\ relaxed' = relaxed /\ Idle.phase \notin SavingPhases
  BY <1>1, <1>2, <1>6, <1>12
<1> HIDE DEF x
<1> QED BY <1>13, <1>15, <1>16, <1>17, <1>18, <1>19, WritingInv

(* A new version.                                                          *)
LEMMA AddedInv ==
  ASSUME Inv, TypeInv', NEW p \in Processes, job[p].phase \notin SavingPhases,
         NEW row \in Row, NEW x \in Instance, NEW j, j.phase \notin SavingPhases,
         x.number = Len(versions) + 1, x.number <= MaxVersions,
         x.status = row.status, x.definition = row.definition,
         x.stamp = clock', row.stamp = clock', clock' = clock + 1,
         row.status # "DRAFT" => row.definition # Malformed,
         Len(versions') = Len(versions) + 1, versions' \in Seq(Row),
         versions'[x.number] = row,
         \A n \in DOMAIN versions : versions'[n] = versions[n],
         Sound(versions', j),
         instance' = [instance EXCEPT ![p] = x], job' = [job EXCEPT ![p] = j],
         UNCHANGED <<bound, cache, relaxed>>
  PROVE  Inv'
<1>t. TypesAt(p) /\ Consistent(versions, clock, instance[p], cache[p], job[p]) /\ TypeInv
  BY InvAt
<1> DEFINE k == cache[p]
<1>0. /\ Len(versions) \in Nat /\ DOMAIN versions = 1..Len(versions)
      /\ DOMAIN versions' = 1..(Len(versions) + 1)
      /\ clock \in Nat /\ k \in [1..MaxVersions -> Entry]
      /\ MaxVersions \in Nat /\ x.number \in 1..MaxVersions
      /\ cache' = [cache EXCEPT ![p] = k]
  BY <1>t DEF TypesAt, TypeInv, TypeOK
<1>1. \A n \in 1..MaxVersions : k[n].stamp \in Nat /\ k[n].stamp <= clock
  BY <1>0, <1>t DEF Consistent, InTime, Entry
<1> HIDE DEF k
<1>2. InTime(clock', x, k)
  <2>1. x.stamp <= clock' /\ x.stamp > 0
    BY <1>0
  <2>2. \A n \in 1..MaxVersions : k[n].stamp <= clock'
    BY <1>0, <1>1
  <2> QED BY <2>1, <2>2 DEF InTime
<1>3. k[x.number].stamp # clock'
  BY <1>0, <1>1
<1>4. Faithful(row, x) /\ Agreeing(row, x, k[x.number])
  BY <1>3 DEF Faithful, Agreeing
<1>5. CachedIn(versions', k)
  <2> SUFFICES ASSUME NEW n \in 1..(Len(versions) + 1), versions'[n].status = "DRAFT",
                      k[n].stamp = versions'[n].stamp
               PROVE  k[n].workflow = versions'[n].definition
    BY <1>0 DEF CachedIn
  <2>1. n # x.number
    BY <1>3
  <2>2. n \in DOMAIN versions /\ versions'[n] = versions[n]
    BY <1>0, <2>1
  <2> QED BY <1>t, <2>2 DEF Consistent, CachedIn, k
<1>6. Consistent(versions', clock', x, k, j)
  BY <1>2, <1>4, <1>5 DEF Consistent
<1>7. PublishedValid'
  <2> SUFFICES ASSUME NEW n \in 1..(Len(versions) + 1), versions'[n].status # "DRAFT"
               PROVE  versions'[n].definition # Malformed
    BY <1>0 DEF PublishedValid
  <2>1. CASE n = x.number
    BY <2>1
  <2>2. CASE n # x.number
    <3>1. n \in DOMAIN versions
      BY <1>0, <2>2
    <3> QED BY <3>1 DEF Inv, PublishedValid
  <2> QED BY <2>1, <2>2
<1>8. ASSUME NEW q \in Processes \ {p}, Saving(q)
      PROVE  versions'[instance[q].number] = versions[instance[q].number]
  <2>1. Writable(versions, instance[q]) /\ instance[q].number \in 0..Len(versions)
    BY <1>8, InvAt DEF Consistent, Saving, SavingPhases, TypesAt
  <2>2. instance[q].number \in DOMAIN versions
    BY <1>0, <2>1 DEF Writable
  <2> QED BY <2>2
<1>9. Len(versions) <= Len(versions')
  BY <1>0
<1>10. \A n \in 1..Len(versions) : versions'[n] = versions[n]
  BY <1>0
<1>11. \A n \in 1..Len(versions') : n > Len(versions) => versions'[n].stamp = clock + 1
  <2> SUFFICES ASSUME NEW n \in 1..Len(versions'), n > Len(versions)
               PROVE  versions'[n].stamp = clock + 1
    OBVIOUS
  <2>1. n = x.number
    BY <1>0
  <2> QED BY <2>1
<1> QED BY <1>0, <1>6, <1>7, <1>8, <1>9, <1>10, <1>11, WritingInv

LEMMA CreatingInv ==
  ASSUME Inv, TypeInv', NEW p \in Processes,
         CreateFirst(p) \/ \E d \in Snapshots : Insert(p, d)
  PROVE  Inv'
<1>t. TypesAt(p) /\ Consistent(versions, clock, instance[p], cache[p], job[p]) /\ TypeInv
  BY InvAt
<1>g. ASSUME NEW phase \in {"idle", "losing"}, Goto(p, phase), job[p].phase \notin SavingPhases,
             UNCHANGED <<database, instance, cache>>
      PROVE  Inv'
  <2> DEFINE j == [phase |-> phase, number |-> 0, lenient |-> FALSE]
  <2>1. j.phase \notin SavingPhases /\ Sound(versions, j)
    BY DEF SavingPhases, Sound
  <2>2. job' = [job EXCEPT ![p] = j]
    BY <1>g, PhaseShape DEF Goto, Phases
  <2>3. /\ UNCHANGED <<versions, bound, clock, relaxed>>
        /\ instance' = [instance EXCEPT ![p] = instance[p]]
        /\ cache' = [cache EXCEPT ![p] = cache[p]]
    BY <1>g, <1>t DEF database, shared, TypesAt
  <2> HIDE DEF j
  <2>4. Consistent(versions, clock, instance[p], cache[p], j)
    BY <1>g, <1>t, <2>1, Continues
  <2> QED BY <2>1, <2>2, <2>3, <2>4, BoundKept, LocalInv
<1>1. ASSUME CreateFirst(p), versions = <<>> PROVE Inv'
  <2> DEFINE row == [status |-> "PUBLISHED", definition |-> Registered, stamp |-> clock']
             x == [number |-> 1, status |-> "PUBLISHED", definition |-> Registered,
                   stamp |-> clock']
             j == [phase |-> "pinning", number |-> 1, lenient |-> FALSE]
  <2>1. /\ row \in Row /\ x \in Instance /\ MaxVersions >= 1 /\ clock' = clock + 1
        /\ versions' \in Seq(Row) /\ Len(versions') = 1 /\ versions'[1] = row
        /\ instance' = [instance EXCEPT ![p] = x] /\ job' = [job EXCEPT ![p] = j]
        /\ UNCHANGED <<bound, cache, relaxed>>
    BY <1>1, <1>t, CreatedFirst
  <2>2. Len(versions) = 0 /\ DOMAIN versions = {}
    BY <1>1
  <2>3. /\ x.number = 1 /\ x.status = row.status /\ x.definition = row.definition
        /\ x.stamp = clock' /\ row.stamp = clock' /\ row.definition # Malformed
        /\ j.phase = "pinning" /\ j.number = 1 /\ row.status = "PUBLISHED"
    BY DefinitionsAssumption
  <2>4. job[p].phase \notin SavingPhases
    BY <1>1 DEF CreateFirst, At, SavingPhases
  <2> HIDE DEF row, x, j
  <2>5. Sound(versions', j) /\ j.phase \notin SavingPhases
    BY <2>1, <2>3 DEF Sound, SavingPhases
  <2>6. /\ x.number = Len(versions) + 1 /\ x.number <= MaxVersions
        /\ Len(versions') = Len(versions) + 1 /\ versions'[x.number] = row
        /\ \A n \in DOMAIN versions : versions'[n] = versions[n]
    BY <1>t, <2>1, <2>2, <2>3 DEF TypesAt
  <2> QED BY <2>1, <2>3, <2>4, <2>5, <2>6, AddedInv
<1>2. ASSUME CreateFirst(p), versions # <<>> PROVE Inv'
  BY <1>2, <1>g DEF CreateFirst, database, shared, At, SavingPhases
<1>3. ASSUME NEW d \in Snapshots, Insert(p, d) PROVE Inv'
  <2>0. job[p].phase \notin SavingPhases
    BY <1>3 DEF Insert, At, SavingPhases
  <2>1. CASE job[p].number > Len(versions)
    <3> DEFINE row == [status |-> "DRAFT", definition |-> d, stamp |-> clock']
               x == [number |-> Len(versions) + 1, status |-> "DRAFT", definition |-> d,
                     stamp |-> clock']
    <3>1. /\ row \in Row /\ x \in Instance /\ Len(versions) + 1 <= MaxVersions
          /\ clock' = clock + 1
          /\ versions' \in Seq(Row) /\ Len(versions') = Len(versions) + 1
          /\ versions'[Len(versions) + 1] = row
          /\ \A n \in DOMAIN versions : versions'[n] = versions[n]
          /\ instance' = [instance EXCEPT ![p] = x] /\ job' = [job EXCEPT ![p] = Idle]
          /\ UNCHANGED <<bound, cache, relaxed>>
      BY <1>3, <1>t, <2>1, Inserted
    <3>2. /\ x.number = Len(versions) + 1 /\ x.status = row.status
          /\ x.definition = row.definition /\ row.status = "DRAFT"
          /\ x.stamp = clock' /\ row.stamp = clock'
      OBVIOUS
    <3>3. Sound(versions', Idle) /\ Idle.phase \notin SavingPhases
      BY DEF Sound, Idle, SavingPhases
    <3> HIDE DEF row, x
    <3> QED BY <2>0, <3>1, <3>2, <3>3, AddedInv
  <2>2. CASE ~ (job[p].number > Len(versions))
    <3>1. Goto(p, "idle") /\ UNCHANGED <<database, instance, cache>>
      BY <1>3, <2>2 DEF Insert, database, shared
    <3> QED BY <1>g, <2>0, <3>1
  <2> QED BY <2>1, <2>2
<1> QED BY <1>1, <1>2, <1>3

LEMMA InvStart == Init => Inv
<1> SUFFICES ASSUME Init PROVE Inv
  OBVIOUS
<1>1. TypeInv
  BY TypeStart
<1>2. DOMAIN versions = {}
  BY DEF Init
<1>3. RowsTimed /\ PublishedValid
  BY <1>2 DEF RowsTimed, PublishedValid
<1>4. \A p \in Processes : job[p] = Idle /\ Idle.phase \notin SavingPhases
  BY DEF Init, Idle, SavingPhases
<1>5. OneSaver
  BY <1>4 DEF OneSaver, Saving, SavingPhases
<1>6. StartedFromPublished
  BY DEF Init, StartedFromPublished, NotStarted
<1>7. ASSUME NEW p \in Processes
      PROVE  Consistent(versions, clock, instance[p], cache[p], job[p])
  <2>1. instance[p] = NoInstance /\ cache[p] = EmptyCache /\ clock = 0 /\ job[p] = Idle
    BY DEF Init
  <2>2. /\ NoInstance.number = 0 /\ NoInstance.stamp = 0
        /\ \A n \in 1..MaxVersions : EmptyCache[n].stamp = 0
        /\ Idle.number = 0
    BY DEF NoInstance, EmptyCache, NoEntry, Idle
  <2>3. InTime(0, NoInstance, EmptyCache)
    BY <2>2 DEF InTime
  <2>4. CachedIn(versions, EmptyCache) /\ Sound(versions, Idle)
    BY <1>2, <2>2 DEF CachedIn, Sound
  <2> QED BY <1>4, <2>1, <2>2, <2>3, <2>4 DEF Consistent
<1> QED BY <1>1, <1>3, <1>5, <1>6, <1>7 DEF Inv

LEMMA InvStep ==
  ASSUME ~Overlapping, Unsaved = {}, Inv, [Next]_vars
  PROVE  Inv'
<1>0. TypeInv'
  BY TypeStep DEF Inv
<1>1. ASSUME UNCHANGED vars PROVE Inv'
  BY <1>0, <1>1 DEF vars, Inv, RowsTimed, OneSaver, Saving, PublishedValid, StartedFromPublished
<1>2. ASSUME NEW p \in Processes, Manage(p) PROVE Inv'
  BY <1>0, <1>2, ReadingInv, WorkingInv, SavingInv, StoreInv, CreatingInv DEF Manage
<1>3. ASSUME NEW p \in Processes, Serve(p) PROVE Inv'
  BY <1>0, <1>3, ReadingInv, WorkingInv, ServingInv DEF Serve
<1>4. ASSUME NEW p \in Processes, Restart(p) PROVE Inv'
  BY <1>0, <1>4, ReadingInv
<1> QED BY <1>1, <1>2, <1>3, <1>4 DEF Next, Assign, Fail

LEMMA InvHolds ==
  ASSUME ~Overlapping, Unsaved = {}
  PROVE  Spec => []Inv
<1>1. Inv /\ [Next]_vars => Inv'
  BY InvStep
<1> QED BY InvStart, <1>1, PTL DEF Spec

(* publish_version is the final gate: what is published can be rebuilt.    *)
THEOREM PublishedAlwaysValid ==
  ASSUME ~Overlapping, Unsaved = {}
  PROVE  Spec => []PublishedValid
<1>1. Inv => PublishedValid
  BY DEF Inv
<1> QED BY InvHolds, <1>1, PTL

(* Executions are bound to versions that were published, unless the caller *)
(* asked for another.                                                      *)
THEOREM AlwaysStartedFromPublished ==
  ASSUME ~Overlapping, Unsaved = {}
  PROVE  Spec => []StartedFromPublished
<1>1. Inv => StartedFromPublished
  BY DEF Inv
<1> QED BY InvHolds, <1>1, PTL

-----------------------------------------------------------------------------
(* What the caches serve, whatever overlaps or is refused.                 *)

\* Of a version that is not marked, a cache entry and an instance that is
\* not being saved tell what the row holds, if they are its latest reading.
Told(rows, x, k, j, marked) ==
  \A n \in DOMAIN rows : n \notin marked =>
    /\ k[n].stamp = rows[n].stamp => k[n].workflow = rows[n].definition
    /\ x.number = n /\ x.stamp = rows[n].stamp /\ j.phase \notin SavingPhases =>
         x.definition = rows[n].definition

\* What is marked exists, and is a draft only where writes go unsaved.
MarkedRight(p, rows, marked) ==
  /\ marked \subseteq 0..Len(rows)
  /\ \A n \in DOMAIN rows : n \in marked => p \in Unsaved \/ rows[n].status # "DRAFT"

Settled(p, rows, time, x, k, j, marked) ==
  /\ InTime(time, x, k)
  /\ Told(rows, x, k, j, marked)
  /\ MarkedRight(p, rows, marked)

Served ==
  /\ TypeInv /\ RowsTimed
  /\ \A p \in Processes :
       Settled(p, versions, clock, instance[p], cache[p], job[p], dirty[p])

LEMMA ServedAt ==
  ASSUME Served, NEW p \in Processes
  PROVE  /\ TypeInv /\ TypesAt(p) /\ clock \in Nat
         /\ dirty \in [Processes -> SUBSET Numbers]
         /\ Settled(p, versions, clock, instance[p], cache[p], job[p], dirty[p])
BY ProcessTypes DEF Served, TypeInv, TypeOK

\* All but p keep what they have.
OthersKeep(p) ==
  \A q \in Processes \ {p} :
    /\ instance'[q] = instance[q] /\ cache'[q] = cache[q]
    /\ job'[q] = job[q] /\ dirty'[q] = dirty[q]

(* A step that writes no row.                                              *)
LEMMA LocalServed ==
  ASSUME Served, TypeInv', NEW p \in Processes,
         versions' = versions, clock' \in {clock, clock + 1}, OthersKeep(p),
         Settled(p, versions, clock', instance'[p], cache'[p], job'[p], dirty'[p])
  PROVE  Served'
<1>1. clock \in Nat /\ clock' \in Nat /\ clock <= clock'
  BY DEF Served, TypeInv, TypeOK
<1>2. RowsTimed'
  <2> SUFFICES ASSUME NEW n \in DOMAIN versions PROVE versions[n].stamp \in 1..clock'
    BY DEF RowsTimed
  <2>1. versions[n].stamp \in 1..clock
    BY DEF Served, RowsTimed
  <2> QED BY <1>1, <2>1
<1>3. ASSUME NEW q \in Processes
      PROVE  Settled(q, versions', clock', instance'[q], cache'[q], job'[q], dirty'[q])
  <2>1. CASE q = p
    BY <2>1
  <2>2. CASE q # p
    <3>1. /\ instance'[q] = instance[q] /\ cache'[q] = cache[q]
          /\ job'[q] = job[q] /\ dirty'[q] = dirty[q]
      BY <2>2 DEF OthersKeep
    <3>2. Settled(q, versions, clock, instance[q], cache[q], job[q], dirty[q])
      BY DEF Served
    <3>3. InTime(clock', instance[q], cache[q])
      <4>1. InTime(clock, instance[q], cache[q])
        BY <3>2 DEF Settled
      <4>2. instance[q].stamp \in Nat /\ \A n \in 1..MaxVersions : cache[q][n].stamp \in Nat
        BY ServedAt DEF TypesAt, Instance, Entry
      <4>3. ASSUME NEW s \in Nat, s <= clock PROVE s <= clock'
        BY <1>1, <4>3
      <4> QED BY <4>1, <4>2, <4>3 DEF InTime
    <3> QED BY <3>1, <3>2, <3>3 DEF Settled
  <2> QED BY <2>1, <2>2
<1> QED BY <1>2, <1>3 DEF Served

(* A step that writes or adds one row, with a new stamp, and marks nothing *)
(* of it.                                                                  *)
LEMMA WritingServed ==
  ASSUME Served, TypeInv', NEW p \in Processes, NEW m \in Nat,
         clock' = clock + 1, Len(versions) <= Len(versions'),
         Len(versions') <= Len(versions) + 1,
         \A n \in 1..Len(versions') : n # m => n <= Len(versions) /\ versions'[n] = versions[n],
         m \in 1..Len(versions') => versions'[m].stamp = clock',
         \A q \in Processes : dirty'[q] = dirty[q] \ {m},
         \A q \in Processes \ {p} :
           instance'[q] = instance[q] /\ cache'[q] = cache[q] /\ job'[q] = job[q],
         \A n \in 1..MaxVersions : cache'[p][n] \in {cache[p][n], NoEntry},
         instance'[p].stamp = clock' /\ instance'[p].number = m,
         m \in 1..Len(versions') => instance'[p].definition = versions'[m].definition
  PROVE  Served'
<1>1. /\ clock \in Nat /\ clock' \in Nat /\ MaxVersions \in Nat
      /\ Len(versions) \in Nat /\ DOMAIN versions = 1..Len(versions)
      /\ Len(versions') \in Nat /\ DOMAIN versions' = 1..Len(versions')
      /\ Len(versions') <= MaxVersions
  BY ServedAt, BoundsAssumption DEF TypesAt, TypeInv, TypeOK
<1>2. ASSUME NEW q \in Processes
      PROVE  /\ instance[q].stamp \in Nat /\ instance[q].stamp <= clock
             /\ instance[q].number # 0 => instance[q].stamp > 0
             /\ \A n \in 1..MaxVersions : cache[q][n].stamp \in Nat /\ cache[q][n].stamp <= clock
  BY <1>2, ServedAt DEF Settled, InTime, TypesAt, Instance, Entry
<1>3. RowsTimed'
  <2> SUFFICES ASSUME NEW n \in 1..Len(versions') PROVE versions'[n].stamp \in 1..clock'
    BY <1>1 DEF RowsTimed
  <2>1. CASE n = m
    BY <1>1, <2>1
  <2>2. CASE n # m
    <3>1. n \in DOMAIN versions /\ versions'[n] = versions[n]
      BY <1>1, <2>2
    <3>2. versions[n].stamp \in 1..clock
      BY <3>1 DEF Served, RowsTimed
    <3> QED BY <1>1, <3>1, <3>2
  <2> QED BY <2>1, <2>2
<1>4. NoEntry.stamp = 0
  BY DEF NoEntry
<1>5. ASSUME NEW q \in Processes, NEW n \in 1..MaxVersions
      PROVE  cache'[q][n] = cache[q][n] \/ cache'[q][n] = NoEntry
  OBVIOUS
<1>6. ASSUME NEW q \in Processes PROVE InTime(clock', instance'[q], cache'[q])
  <2>1. ASSUME NEW n \in 1..MaxVersions PROVE cache'[q][n].stamp <= clock'
    BY <1>1, <1>2, <1>4, <1>5
  <2>2. instance'[q].stamp <= clock' /\ (instance'[q].number # 0 => instance'[q].stamp > 0)
    BY <1>1, <1>2
  <2> QED BY <2>1, <2>2 DEF InTime
<1>7. ASSUME NEW q \in Processes PROVE MarkedRight(q, versions', dirty'[q])
  <2>1. MarkedRight(q, versions, dirty[q])
    BY ServedAt DEF Settled
  <2>2. dirty'[q] \subseteq 0..Len(versions')
    BY <1>1, <2>1 DEF MarkedRight
  <2>3. ASSUME NEW n \in 1..Len(versions'), n \in dirty'[q]
        PROVE  q \in Unsaved \/ versions'[n].status # "DRAFT"
    <3>1. n \in dirty[q] /\ n \in 1..Len(versions)
      BY <1>1, <2>1, <2>3 DEF MarkedRight
    <3>2. n # m /\ versions'[n] = versions[n]
      BY <2>3, <3>1
    <3> QED BY <1>1, <2>1, <3>1, <3>2 DEF MarkedRight
  <2> QED BY <1>1, <2>2, <2>3 DEF MarkedRight
<1>8. ASSUME NEW q \in Processes
      PROVE  Told(versions', instance'[q], cache'[q], job'[q], dirty'[q])
  <2> SUFFICES ASSUME NEW n \in 1..Len(versions'), n \notin dirty'[q]
               PROVE  /\ cache'[q][n].stamp = versions'[n].stamp =>
                           cache'[q][n].workflow = versions'[n].definition
                      /\ /\ instance'[q].number = n /\ instance'[q].stamp = versions'[n].stamp
                         /\ job'[q].phase \notin SavingPhases
                         => instance'[q].definition = versions'[n].definition
    BY <1>1 DEF Told
  <2>0. n \in 1..MaxVersions
    BY <1>1
  <2>1. CASE n = m
    <3>0. versions'[n].stamp = clock + 1
      BY <2>1
    <3>1. cache'[q][n].stamp # versions'[n].stamp
      <4>1. cache[q][n].stamp \in Nat /\ cache[q][n].stamp <= clock
        BY <1>2, <2>0
      <4>2. cache'[q][n].stamp = cache[q][n].stamp \/ cache'[q][n].stamp = 0
        BY <1>4, <1>5, <2>0
      <4> QED BY <1>1, <3>0, <4>1, <4>2
    <3>2. q # p => instance'[q].stamp # versions'[n].stamp
      BY <1>1, <1>2, <2>1
    <3> QED BY <2>1, <3>1, <3>2
  <2>2. CASE n # m
    <3>1. n \in DOMAIN versions /\ versions'[n] = versions[n] /\ versions[n].stamp \in 1..clock
      BY <1>1, <2>2 DEF Served, RowsTimed
    <3>2. n \notin dirty[q]
      BY <2>2
    <3>3. Told(versions, instance[q], cache[q], job[q], dirty[q])
      BY ServedAt DEF Settled
    <3>4. /\ cache[q][n].stamp = versions[n].stamp =>
               cache[q][n].workflow = versions[n].definition
          /\ /\ instance[q].number = n /\ instance[q].stamp = versions[n].stamp
             /\ job[q].phase \notin SavingPhases
             => instance[q].definition = versions[n].definition
      BY <3>1, <3>2, <3>3 DEF Told
    <3>5. cache'[q][n].stamp = versions'[n].stamp =>
            cache'[q][n].workflow = versions'[n].definition
      BY <1>4, <1>5, <2>0, <3>1, <3>4
    <3>6. q # p => instance'[q] = instance[q] /\ job'[q] = job[q]
      OBVIOUS
    <3>7. q = p => instance'[q].number = m
      OBVIOUS
    <3> QED BY <2>2, <3>1, <3>4, <3>5, <3>6, <3>7
  <2> QED BY <2>1, <2>2
<1> QED BY <1>3, <1>6, <1>7, <1>8 DEF Served, Settled

(* Keeping what was rebuilt from x, if x tells what its row holds.         *)
LEMMA RememberingServed ==
  ASSUME Served, NEW p \in Processes, NEW x \in Instance,
         x.number \in DOMAIN versions, x.stamp <= clock,
         x.number \notin dirty[p] /\ x.stamp = versions[x.number].stamp =>
           x.definition = versions[x.number].definition,
         Remember(p, x)
  PROVE  /\ Settled(p, versions, clock, instance[p], cache'[p], job[p], dirty[p])
         /\ \A q \in Processes \ {p} : cache'[q] = cache[q]
<1> DEFINE e == [stamp |-> x.stamp, workflow |-> WorkflowOf(p, x)]
           k == [cache[p] EXCEPT ![x.number] = e]
<1>t. /\ TypesAt(p) /\ cache \in [Processes -> [1..MaxVersions -> Entry]]
      /\ Settled(p, versions, clock, instance[p], cache[p], job[p], dirty[p])
  BY ServedAt DEF TypeInv, TypeOK
<1>1. cache'[p] = k /\ \A q \in Processes \ {p} : cache'[q] = cache[q]
  BY <1>t DEF Remember
<1>2. /\ k[x.number] = e /\ x.number \in 1..MaxVersions
      /\ \A n \in 1..MaxVersions : n # x.number => k[n] = cache[p][n]
  <2>1. cache[p] \in [1..MaxVersions -> Entry] /\ x.number \in 1..MaxVersions
    BY <1>t DEF TypesAt
  <2> HIDE DEF e
  <2> QED BY <2>1
<1>3. e.stamp = x.stamp /\ e.workflow = WorkflowOf(p, x)
  OBVIOUS
<1> HIDE DEF e, k
<1>4. InTime(clock, instance[p], k)
  BY <1>t, <1>2, <1>3 DEF Settled, InTime
<1>5. Told(versions, instance[p], k, job[p], dirty[p])
  <2> SUFFICES ASSUME NEW n \in DOMAIN versions, n \notin dirty[p]
               PROVE  k[n].stamp = versions[n].stamp => k[n].workflow = versions[n].definition
    BY <1>t DEF Settled, Told
  <2>1. /\ n \in 1..MaxVersions
        /\ cache[p][n].stamp = versions[n].stamp =>
             cache[p][n].workflow = versions[n].definition
    BY <1>t DEF Settled, Told, TypesAt
  <2>2. CASE n # x.number
    BY <1>2, <2>1, <2>2
  <2>3. CASE n = x.number
    BY <1>2, <1>3, <2>1, <2>3 DEF WorkflowOf, Hit
  <2> QED BY <2>2, <2>3
<1> QED BY <1>t, <1>1, <1>4, <1>5 DEF Settled

(* A row read anew, and the instance an idle process holds, tell that.     *)
LEMMA LoadTold ==
  ASSUME Served, NEW n \in DOMAIN versions
  PROVE  /\ Load(n) \in Instance /\ Load(n).number = n
         /\ Load(n).definition = versions[n].definition
         /\ Load(n).stamp = versions[n].stamp
         /\ Load(n).stamp <= clock /\ Load(n).stamp > 0
<1>1. versions[n].stamp \in 1..clock /\ clock \in Nat
  BY DEF Served, RowsTimed, TypeInv, TypeOK
<1>2. Load(n).stamp = versions[n].stamp /\ Load(n).definition = versions[n].definition
  BY DEF Load
<1> QED BY <1>1, <1>2, LoadTyped DEF Served

LEMMA HeldTold ==
  ASSUME Served, NEW p \in Processes, At(p, "idle"), Holds(p)
  PROVE  LET x == instance[p]
         IN  /\ x \in Instance /\ x.number \in DOMAIN versions /\ x.stamp <= clock
             /\ x.number \notin dirty[p] /\ x.stamp = versions[x.number].stamp =>
                  x.definition = versions[x.number].definition
BY ServedAt DEF TypesAt, Settled, InTime, Told, At, Holds, SavingPhases

(* Reading, and the steps between reads and writes.                        *)
LEMMA ReadingServed ==
  ASSUME Served, TypeInv', NEW p \in Processes,
         \/ \E n \in DOMAIN versions : Fetch(p, n)
         \/ \E o \in Objects : Use(p, o) \/ Create(p, o)
         \/ Draft(p) \/ Ensure(p) \/ Lose(p) \/ Pin(p) \/ ResolveDefault(p)
  PROVE  Served'
<1>t. /\ TypesAt(p)
      /\ Settled(p, versions, clock, instance[p], cache[p], job[p], dirty[p])
      /\ instance \in [Processes -> Instance] /\ job \in [Processes -> JobType]
  BY ServedAt DEF TypeInv, TypeOK, JobType
<1> USE DEF database, shared, OthersKeep
<1>1. ASSUME NEW n \in DOMAIN versions, UNCHANGED <<versions, clock, cache, dirty>>,
             instance' = [instance EXCEPT ![p] = Load(n)],
             \A q \in Processes \ {p} : job'[q] = job[q]
      PROVE  Served'
  <2>1. InTime(clock, Load(n), cache[p])
    BY <1>t, LoadTold DEF Settled, InTime
  <2>2. Told(versions, Load(n), cache[p], job'[p], dirty[p])
    BY <1>t, LoadTold DEF Settled, Told
  <2>3. instance'[p] = Load(n) /\ \A q \in Processes \ {p} : instance'[q] = instance[q]
    BY <1>t, <1>1
  <2>4. Settled(p, versions, clock', instance'[p], cache'[p], job'[p], dirty'[p])
    BY <1>t, <1>1, <2>1, <2>2, <2>3 DEF Settled
  <2> QED BY <1>1, <2>3, <2>4, LocalServed
<1>2. ASSUME UNCHANGED <<versions, clock, instance, cache, dirty>>,
             job[p].phase \notin SavingPhases,
             \A q \in Processes \ {p} : job'[q] = job[q]
      PROVE  Served'
  <2>1. Told(versions, instance[p], cache[p], job'[p], dirty[p])
    BY <1>t, <1>2 DEF Settled, Told
  <2>2. Settled(p, versions, clock', instance'[p], cache'[p], job'[p], dirty'[p])
    BY <1>t, <1>2, <2>1 DEF Settled
  <2> QED BY <1>2, <2>2, LocalServed
<1>3. ASSUME NEW n \in DOMAIN versions, Fetch(p, n) PROVE Served'
  BY <1>1, <1>3 DEF Fetch, Hold
<1>4. ASSUME NEW o \in Objects, Use(p, o) PROVE Served'
  <2>1. bound[o] \in DOMAIN versions
    BY <1>t, <1>4 DEF Use, NotStarted, Unversioned, TypesAt
  <2>2. /\ Settled(p, versions, clock, instance[p], cache'[p], job[p], dirty[p])
        /\ \A q \in Processes \ {p} : cache'[q] = cache[q]
    BY <1>4, <2>1, LoadTold, RememberingServed DEF Use
  <2> QED BY <1>4, <2>2, LocalServed DEF Use
<1>5. ASSUME Draft(p) \/ Ensure(p) \/ Pin(p) \/ ResolveDefault(p) \/ \E o \in Objects : Create(p, o)
      PROVE  Served'
  <2>1. /\ UNCHANGED <<versions, clock, instance, cache, dirty>>
        /\ job[p].phase \notin SavingPhases
    BY <1>5 DEF Draft, Ensure, Pin, ResolveDefault, Create, At, SavingPhases
  <2>2. \A q \in Processes \ {p} : job'[q] = job[q]
    BY <1>t, <1>5 DEF Draft, Ensure, Pin, ResolveDefault, Create, Goto, Doing, Starting
  <2> QED BY <1>2, <2>1, <2>2
<1>6. ASSUME Lose(p) PROVE Served'
  <2>1. /\ UNCHANGED <<versions, clock, cache, dirty>> /\ job[p].phase \notin SavingPhases
        /\ \A q \in Processes \ {p} : job'[q] = job[q]
    BY <1>t, <1>6 DEF Lose, At, SavingPhases, Goto, Doing
  <2>2. CASE UNCHANGED instance
    BY <1>2, <2>1, <2>2
  <2>3. CASE Active # 0 /\ Hold(p, Load(Active))
    <3>1. Active \in DOMAIN versions
      BY <2>3, ServedAt, ActivePublished DEF TypeInv
    <3> QED BY <1>1, <2>1, <2>3, <3>1 DEF Hold
  <2> QED BY <1>6, <2>2, <2>3 DEF Lose
<1> QED BY <1>3, <1>4, <1>5, <1>6

(* save(), up to its check: x is what p holds, but for what its caller     *)
(* changed, and cache' is settled.                                         *)
LEMMA SaveServed ==
  ASSUME Served, TypeInv', NEW p \in Processes, NEW x \in Instance,
         NEW phase \in SavingPhases, Save(p, x, phase),
         x.number = instance[p].number, x.stamp = instance[p].stamp, Holds(p),
         Settled(p, versions, clock, instance[p], cache'[p], job[p], dirty[p]),
         \A q \in Processes \ {p} : cache'[q] = cache[q]
  PROVE  Served'
<1>t. /\ TypesAt(p) /\ instance \in [Processes -> Instance]
      /\ job \in [Processes -> JobType] /\ dirty \in [Processes -> SUBSET Numbers]
  BY ServedAt DEF TypeInv, TypeOK, JobType
<1> DEFINE n == x.number
           kept == IF Permitted(x) \/ x.stamp # versions[n].stamp
                   THEN dirty[p] ELSE dirty[p] \cup {n}
<1>1. n \in DOMAIN versions
  BY <1>t DEF TypesAt, Holds
<1>2. /\ versions' = versions /\ clock' = clock /\ OthersKeep(p)
      /\ instance'[p] = x /\ dirty'[p] = kept
      /\ Permitted(x) => job'[p].phase \in SavingPhases
  BY <1>t DEF Save, Keep, Hold, Goto, shared, OthersKeep, JobType, SavingPhases, Idle
<1>3. InTime(clock, x, cache'[p])
  BY DEF Settled, InTime
<1>4. Told(versions, x, cache'[p], job'[p], dirty'[p])
  <2> SUFFICES ASSUME NEW i \in DOMAIN versions, i \notin kept
               PROVE  /\ cache'[p][i].stamp = versions[i].stamp =>
                           cache'[p][i].workflow = versions[i].definition
                      /\ i = n /\ x.stamp = versions[i].stamp => job'[p].phase \in SavingPhases
    BY <1>2 DEF Told
  <2>1. i \notin dirty[p] /\ (i = n => Permitted(x) \/ x.stamp # versions[n].stamp)
    OBVIOUS
  <2> HIDE DEF kept
  <2> QED BY <1>2, <2>1 DEF Settled, Told
<1>5. MarkedRight(p, versions, dirty'[p])
  <2>1. MarkedRight(p, versions, dirty[p]) /\ n \in 0..Len(versions)
    BY <1>t DEF Settled, TypesAt
  <2>2. ~Permitted(x) => versions[n].status # "DRAFT"
    BY DEF Permitted
  <2>3. dirty'[p] = dirty[p] \/ (dirty'[p] = dirty[p] \cup {n} /\ ~Permitted(x))
    BY <1>2
  <2> HIDE DEF n, kept
  <2> QED BY <2>1, <2>2, <2>3 DEF MarkedRight
<1>6. Settled(p, versions, clock', instance'[p], cache'[p], job'[p], dirty'[p])
  BY <1>2, <1>3, <1>4, <1>5 DEF Settled
<1> QED BY <1>2, <1>6, LocalServed

LEMMA SavingServed ==
  ASSUME Served, TypeInv', NEW p \in Processes,
         \/ Publish(p) \/ Retire(p)
         \/ \E d \in Snapshots : Edit(p, d)
         \/ \E d \in Definitions : Update(p, d)
  PROVE  Served'
<1>t. /\ instance[p] \in Instance
      /\ Settled(p, versions, clock, instance[p], cache[p], job[p], dirty[p])
      /\ "saving" \in SavingPhases /\ "editing" \in SavingPhases
  BY ServedAt DEF TypesAt, SavingPhases
<1>1. ASSUME NEW d \in Snapshots, NEW phase \in SavingPhases, Holds(p),
             Save(p, [instance[p] EXCEPT !.definition = d], phase), UNCHANGED cache
      PROVE  Served'
  <2> DEFINE x == [instance[p] EXCEPT !.definition = d]
  <2>1. x \in Instance /\ x.number = instance[p].number /\ x.stamp = instance[p].stamp
    BY <1>t DEF Instance
  <2>2. Save(p, x, phase)
    BY <1>1
  <2> HIDE DEF x
  <2> QED BY <1>t, <1>1, <2>1, <2>2, SaveServed
<1>2. ASSUME NEW status \in Statuses, Holds(p),
             Save(p, [instance[p] EXCEPT !.status = status], "saving"),
             Settled(p, versions, clock, instance[p], cache'[p], job[p], dirty[p]),
             \A q \in Processes \ {p} : cache'[q] = cache[q]
      PROVE  Served'
  <2> DEFINE x == [instance[p] EXCEPT !.status = status]
  <2>1. x \in Instance /\ x.number = instance[p].number /\ x.stamp = instance[p].stamp
    BY <1>t DEF Instance
  <2>2. Save(p, x, "saving")
    BY <1>2
  <2> HIDE DEF x
  <2> QED BY <1>t, <1>2, <2>1, <2>2, SaveServed
<1>3. ASSUME Publish(p) PROVE Served'
  <2>1. /\ Settled(p, versions, clock, instance[p], cache'[p], job[p], dirty[p])
        /\ \A q \in Processes \ {p} : cache'[q] = cache[q]
    BY <1>3, HeldTold, RememberingServed DEF Publish
  <2> QED BY <1>2, <1>3, <2>1 DEF Publish, Statuses
<1>4. ASSUME Retire(p) PROVE Served'
  BY <1>t, <1>2, <1>4 DEF Retire, Statuses
<1>5. ASSUME NEW d \in Snapshots, Edit(p, d) PROVE Served'
  BY <1>t, <1>1, <1>5 DEF Edit
<1>6. ASSUME NEW d \in Definitions, Update(p, d) PROVE Served'
  BY <1>t, <1>1, <1>6 DEF Update, Snapshots
<1> QED BY <1>3, <1>4, <1>5, <1>6

(* start_execution with a version its caller gives.                        *)
LEMMA ResolvingServed ==
  ASSUME Served, TypeInv', NEW p \in Processes, NEW x, NEW lenient,
         ResolveGiven(p, x, lenient),
         x = instance[p] \/ \E n \in DOMAIN versions : x = Load(n)
  PROVE  Served'
<1>t. /\ job \in [Processes -> JobType] /\ TypesAt(p)
      /\ Settled(p, versions, clock, instance[p], cache[p], job[p], dirty[p])
  BY ServedAt DEF TypeInv, TypeOK, JobType
<1>1. /\ x \in Instance /\ x.number \in DOMAIN versions /\ x.stamp <= clock
      /\ x.number \notin dirty[p] /\ x.stamp = versions[x.number].stamp =>
           x.definition = versions[x.number].definition
  <2>1. CASE x = instance[p]
    BY <2>1, HeldTold DEF ResolveGiven, Holds
  <2>2. CASE \E n \in DOMAIN versions : x = Load(n)
    BY <2>2, LoadTold
  <2> QED BY <2>1, <2>2
<1>2. /\ Settled(p, versions, clock, instance[p], cache'[p], job[p], dirty[p])
      /\ \A q \in Processes \ {p} : cache'[q] = cache[q]
  BY <1>1, RememberingServed DEF ResolveGiven
<1>3. /\ UNCHANGED <<versions, clock, instance, dirty>> /\ job[p].phase \notin SavingPhases
      /\ OthersKeep(p)
  BY <1>t, <1>2 DEF ResolveGiven, Starting, At, SavingPhases, database, shared, OthersKeep
<1>4. Told(versions, instance[p], cache'[p], job'[p], dirty[p])
  BY <1>2, <1>3 DEF Settled, Told
<1>5. Settled(p, versions, clock', instance'[p], cache'[p], job'[p], dirty'[p])
  BY <1>2, <1>3, <1>4 DEF Settled
<1> QED BY <1>3, <1>5, LocalServed

(* The writes.                                                             *)
LEMMA StoreServed ==
  ASSUME Served, TypeInv', NEW p \in Processes, Store(p)
  PROVE  Served'
<1>t. /\ TypesAt(p) /\ TypeInv /\ instance \in [Processes -> Instance]
      /\ cache \in [Processes -> [1..MaxVersions -> Entry]]
      /\ job \in [Processes -> JobType] /\ dirty \in [Processes -> SUBSET Numbers]
  BY ServedAt DEF TypeInv, TypeOK, JobType
<1> DEFINE m == instance[p].number
           y == [instance[p] EXCEPT !.stamp = clock']
<1>1. /\ clock' = clock + 1 /\ Len(versions') = Len(versions)
      /\ DOMAIN versions' = DOMAIN versions
      /\ \A n \in DOMAIN versions : n # m => versions'[n] = versions[n]
      /\ m \in DOMAIN versions => versions'[m].stamp = clock'
                                  /\ versions'[m].definition = instance[p].definition
      /\ instance' = [instance EXCEPT ![p] = y] /\ job' = [job EXCEPT ![p] = Idle]
  <2> DEFINE row == [status |-> instance[p].status, definition |-> instance[p].definition,
                     stamp |-> clock']
  <2>1. row.stamp = clock' /\ row.definition = instance[p].definition
    OBVIOUS
  <2>2. /\ clock' = clock + 1 /\ Len(versions') = Len(versions)
        /\ DOMAIN versions' = DOMAIN versions
        /\ \A n \in DOMAIN versions : versions'[n] = IF n = m THEN row ELSE versions[n]
        /\ instance' = [instance EXCEPT ![p] = y] /\ job' = [job EXCEPT ![p] = Idle]
    BY <1>t, Stored
  <2> HIDE DEF row, y, m
  <2> QED BY <2>1, <2>2
<1>2. m \in Nat /\ DOMAIN versions = 1..Len(versions) /\ Len(versions) \in Nat
  BY <1>t DEF TypesAt
<1>3. y.stamp = clock' /\ y.number = m /\ y.definition = instance[p].definition
  BY <1>t DEF TypesAt, Instance
<1>4. \A q \in Processes : dirty'[q] = dirty[q] \ {m}
  BY DEF Store
<1>5. cache' = cache \/ cache' = [cache EXCEPT ![p][m] = NoEntry]
  BY DEF Store
<1> HIDE DEF y, m
<1>6. \A n \in 1..MaxVersions : cache'[p][n] \in {cache[p][n], NoEntry}
  BY <1>t, <1>5
<1>7. \A q \in Processes \ {p} :
        instance'[q] = instance[q] /\ cache'[q] = cache[q] /\ job'[q] = job[q]
  BY <1>t, <1>1, <1>5
<1>8. instance'[p] = y
  BY <1>t, <1>1
<1>9. /\ Len(versions) <= Len(versions') /\ Len(versions') <= Len(versions) + 1
      /\ \A n \in 1..Len(versions') : n # m => n <= Len(versions) /\ versions'[n] = versions[n]
      /\ m \in 1..Len(versions') => versions'[m].stamp = clock'
      /\ m \in 1..Len(versions') => instance'[p].definition = versions'[m].definition
  BY <1>1, <1>2, <1>3, <1>8
<1>10. instance'[p].stamp = clock' /\ instance'[p].number = m
  BY <1>3, <1>8
<1> QED BY <1>1, <1>2, <1>4, <1>6, <1>7, <1>9, <1>10, WritingServed

LEMMA CreatingServed ==
  ASSUME Served, TypeInv', NEW p \in Processes,
         CreateFirst(p) \/ \E d \in Snapshots : Insert(p, d)
  PROVE  Served'
<1>t. /\ TypesAt(p) /\ TypeInv /\ instance \in [Processes -> Instance]
      /\ job \in [Processes -> JobType]
      /\ Settled(p, versions, clock, instance[p], cache[p], job[p], dirty[p])
  BY ServedAt DEF TypeInv, TypeOK, JobType
<1>1. ASSUME NEW phase, Goto(p, phase), job[p].phase \notin SavingPhases,
             UNCHANGED <<versions, clock, instance, cache, dirty>>
      PROVE  Served'
  <2>1. OthersKeep(p)
    BY <1>t, <1>1 DEF OthersKeep, Goto
  <2>2. Told(versions, instance[p], cache[p], job'[p], dirty[p])
    BY <1>t, <1>1 DEF Settled, Told
  <2>3. Settled(p, versions, clock', instance'[p], cache'[p], job'[p], dirty'[p])
    BY <1>t, <1>1, <2>2 DEF Settled
  <2> QED BY <1>1, <2>1, <2>3, LocalServed
<1>2. ASSUME NEW x \in Instance, NEW j,
             x.number = Len(versions) + 1, x.stamp = clock', clock' = clock + 1,
             Len(versions') = x.number, versions'[x.number].stamp = clock',
             versions'[x.number].definition = x.definition,
             \A i \in DOMAIN versions : versions'[i] = versions[i],
             instance' = [instance EXCEPT ![p] = x], job' = [job EXCEPT ![p] = j],
             UNCHANGED <<cache, dirty>>
      PROVE  Served'
  <2> DEFINE m == x.number
  <2>1. /\ DOMAIN versions = 1..Len(versions) /\ Len(versions) \in Nat
        /\ m \in Nat /\ m = Len(versions) + 1
    BY <1>t, <1>2 DEF TypesAt
  <2>2. \A q \in Processes : dirty'[q] = dirty[q] \ {m}
    <3> SUFFICES ASSUME NEW q \in Processes PROVE m \notin dirty[q]
      BY <1>2
    <3>1. dirty[q] \subseteq 0..Len(versions)
      BY ServedAt DEF Settled, MarkedRight
    <3> QED BY <2>1, <3>1
  <2>3. /\ Len(versions) <= Len(versions') /\ Len(versions') <= Len(versions) + 1
        /\ \A n \in 1..Len(versions') : n # m => n <= Len(versions) /\ versions'[n] = versions[n]
    BY <1>2, <2>1
  <2>4. /\ instance'[p] = x
        /\ \A q \in Processes \ {p} :
             instance'[q] = instance[q] /\ cache'[q] = cache[q] /\ job'[q] = job[q]
        /\ \A n \in 1..MaxVersions : cache'[p][n] \in {cache[p][n], NoEntry}
    BY <1>t, <1>2
  <2>5. /\ m \in 1..Len(versions') => versions'[m].stamp = clock'
        /\ m \in 1..Len(versions') => instance'[p].definition = versions'[m].definition
        /\ instance'[p].stamp = clock' /\ instance'[p].number = m
    BY <1>2, <2>4
  <2> HIDE DEF m
  <2> QED BY <1>2, <2>1, <2>2, <2>3, <2>4, <2>5, WritingServed
<1>3. ASSUME CreateFirst(p), versions = <<>> PROVE Served'
  <2> DEFINE x == [number |-> 1, status |-> "PUBLISHED", definition |-> Registered,
                   stamp |-> clock']
             j == [phase |-> "pinning", number |-> 1, lenient |-> FALSE]
  <2>1. /\ x.number = 1 /\ x.stamp = clock' /\ x.definition = Registered
        /\ Len(versions) = 0 /\ DOMAIN versions = {}
    BY <1>3
  <2>2. /\ x \in Instance /\ clock' = clock + 1 /\ Len(versions') = 1
        /\ versions'[1].stamp = clock' /\ versions'[1].definition = Registered
        /\ instance' = [instance EXCEPT ![p] = x] /\ job' = [job EXCEPT ![p] = j]
    BY <1>t, <1>3, CreatedFirst
  <2>3. UNCHANGED <<cache, dirty>>
    BY <1>3 DEF CreateFirst
  <2> HIDE DEF x, j
  <2>4. /\ x.number = Len(versions) + 1 /\ Len(versions') = x.number
        /\ versions'[x.number].stamp = clock' /\ versions'[x.number].definition = x.definition
        /\ \A i \in DOMAIN versions : versions'[i] = versions[i]
    BY <2>1, <2>2
  <2> QED BY <1>2, <2>1, <2>2, <2>3, <2>4
<1>4. ASSUME CreateFirst(p), versions # <<>> PROVE Served'
  BY <1>1, <1>4 DEF CreateFirst, At, SavingPhases
<1>5. ASSUME NEW d \in Snapshots, Insert(p, d) PROVE Served'
  <2>1. CASE job[p].number > Len(versions)
    <3> DEFINE x == [number |-> Len(versions) + 1, status |-> "DRAFT", definition |-> d,
                     stamp |-> clock']
    <3>1. x.number = Len(versions) + 1 /\ x.stamp = clock' /\ x.definition = d
      OBVIOUS
    <3>2. /\ x \in Instance /\ clock' = clock + 1 /\ Len(versions') = Len(versions) + 1
          /\ versions'[Len(versions) + 1].stamp = clock'
          /\ versions'[Len(versions) + 1].definition = d
          /\ \A i \in DOMAIN versions : versions'[i] = versions[i]
          /\ instance' = [instance EXCEPT ![p] = x] /\ job' = [job EXCEPT ![p] = Idle]
      <4> DEFINE row == [status |-> "DRAFT", definition |-> d, stamp |-> clock']
      <4>1. row.stamp = clock' /\ row.definition = d
        OBVIOUS
      <4>2. /\ x \in Instance /\ clock' = clock + 1 /\ Len(versions') = Len(versions) + 1
            /\ versions'[Len(versions) + 1] = row
            /\ \A i \in DOMAIN versions : versions'[i] = versions[i]
            /\ instance' = [instance EXCEPT ![p] = x] /\ job' = [job EXCEPT ![p] = Idle]
        BY <1>t, <1>5, <2>1, Inserted
      <4> HIDE DEF row, x
      <4> QED BY <4>1, <4>2
    <3>3. UNCHANGED <<cache, dirty>>
      BY <1>5 DEF Insert
    <3> HIDE DEF x
    <3> QED BY <1>2, <3>1, <3>2, <3>3
  <2>2. CASE ~ (job[p].number > Len(versions))
    BY <1>1, <1>5, <2>2 DEF Insert, At, SavingPhases
  <2> QED BY <2>1, <2>2
<1> QED BY <1>3, <1>4, <1>5

(* A restart, changes left unsaved and writes the database refuses.        *)
LEMMA FailingServed ==
  ASSUME Served, TypeInv', NEW p \in Processes,
         Restart(p) \/ Fail(p) \/ \E d \in Snapshots : Assign(p, d)
  PROVE  Served'
<1>t. /\ TypesAt(p) /\ TypeInv /\ instance \in [Processes -> Instance]
      /\ cache \in [Processes -> [1..MaxVersions -> Entry]]
      /\ job \in [Processes -> JobType] /\ dirty \in [Processes -> SUBSET Numbers]
      /\ clock \in Nat
      /\ Settled(p, versions, clock, instance[p], cache[p], job[p], dirty[p])
  BY ServedAt DEF TypeInv, TypeOK, JobType
<1> USE DEF OthersKeep, shared
<1>1. ASSUME Restart(p) PROVE Served'
  <2>1. /\ instance'[p] = NoInstance /\ cache'[p] = EmptyCache /\ dirty'[p] = {}
        /\ OthersKeep(p) /\ versions' = versions /\ clock' = clock
    BY <1>t, <1>1 DEF Restart, Hold
  <2>2. /\ NoInstance.number = 0 /\ NoInstance.stamp = 0
        /\ \A n \in 1..MaxVersions : EmptyCache[n].stamp = 0
    BY DEF NoInstance, EmptyCache, NoEntry
  <2>3. InTime(clock, NoInstance, EmptyCache)
    BY <1>t, <2>2 DEF InTime
  <2>4. Told(versions, NoInstance, EmptyCache, job'[p], {})
    <3> SUFFICES ASSUME NEW n \in DOMAIN versions
                 PROVE  EmptyCache[n].stamp # versions[n].stamp /\ n # 0
      BY <2>2 DEF Told
    <3>1. versions[n].stamp \in 1..clock /\ n \in 1..MaxVersions
      BY <1>t, LoadTyped DEF Served, RowsTimed
    <3> QED BY <2>2, <3>1
  <2>5. Settled(p, versions, clock', instance'[p], cache'[p], job'[p], dirty'[p])
    BY <2>1, <2>3, <2>4 DEF Settled, MarkedRight
  <2> QED BY <2>1, <2>5, LocalServed
<1>2. ASSUME p \in Unsaved, NEW x \in Instance, x.number = instance[p].number,
             x.stamp = instance[p].stamp, Keep(p, x), instance' = [instance EXCEPT ![p] = x],
             UNCHANGED <<versions, clock, cache>>,
             \A q \in Processes \ {p} : job'[q] = job[q]
      PROVE  Served'
  <2> DEFINE n == x.number
             kept == IF x.stamp = versions[n].stamp THEN dirty[p] \cup {n} ELSE dirty[p]
  <2>1. instance'[p] = x /\ dirty'[p] = kept /\ OthersKeep(p)
    BY <1>t, <1>2 DEF Keep
  <2>2. InTime(clock, x, cache[p])
    BY <1>t, <1>2 DEF Settled, InTime
  <2>3. Told(versions, x, cache[p], job'[p], kept)
    BY <1>t, <1>2 DEF Settled, Told
  <2>4. MarkedRight(p, versions, kept)
    <3>1. MarkedRight(p, versions, dirty[p]) /\ n \in 0..Len(versions)
      BY <1>t, <1>2 DEF Settled, TypesAt
    <3>2. kept \subseteq dirty[p] \cup {n}
      OBVIOUS
    <3> HIDE DEF kept, n
    <3> QED BY <1>2, <3>1, <3>2 DEF MarkedRight
  <2>5. Settled(p, versions, clock', instance'[p], cache'[p], job'[p], dirty'[p])
    BY <1>2, <2>1, <2>2, <2>3, <2>4 DEF Settled
  <2> QED BY <1>2, <2>1, <2>5, LocalServed
<1>3. ASSUME NEW d \in Snapshots, Assign(p, d) PROVE Served'
  <2> DEFINE x == [instance[p] EXCEPT !.definition = d]
  <2>1. x \in Instance /\ x.number = instance[p].number /\ x.stamp = instance[p].stamp
    BY <1>t DEF TypesAt, Instance
  <2>2. /\ p \in Unsaved /\ instance' = [instance EXCEPT ![p] = x]
        /\ Keep(p, x) /\ UNCHANGED <<versions, clock, cache, job>>
    BY <1>3, <2>1 DEF Assign, Hold, Keep
  <2> HIDE DEF x
  <2> QED BY <1>2, <2>1, <2>2
<1>4. ASSUME Fail(p) PROVE Served'
  <2>1. /\ p \in Unsaved /\ UNCHANGED <<versions, cache>>
        /\ \A q \in Processes \ {p} : job'[q] = job[q]
    BY <1>t, <1>4 DEF Fail, Goto
  <2>2. CASE ~Saving(p) /\ UNCHANGED <<instance, clock, dirty>>
    <3>1. Told(versions, instance[p], cache[p], job'[p], dirty[p])
      BY <1>t, <2>2 DEF Settled, Told, Saving, SavingPhases
    <3>2. Settled(p, versions, clock', instance'[p], cache'[p], job'[p], dirty'[p])
      BY <1>t, <2>1, <2>2, <3>1 DEF Settled
    <3> QED BY <2>1, <2>2, <3>2, LocalServed
  <2>3. CASE Keep(p, instance[p]) /\ UNCHANGED <<instance, clock>>
    BY <1>2, <1>t, <2>1, <2>3 DEF TypesAt
  <2>4. CASE /\ clock' = clock + 1 /\ UNCHANGED dirty
             /\ Hold(p, [instance[p] EXCEPT !.stamp = clock'])
    <3> DEFINE x == [instance[p] EXCEPT !.stamp = clock']
    <3>1. instance'[p] = x /\ OthersKeep(p)
      BY <1>t, <2>1, <2>4 DEF Hold
    <3>2. x.stamp = clock + 1
      BY <1>t, <2>4 DEF TypesAt, Instance
    <3> HIDE DEF x
    <3>3. InTime(clock', x, cache[p])
      <4>1. ASSUME NEW n \in 1..MaxVersions PROVE cache[p][n].stamp <= clock'
        <5>1. cache[p][n].stamp \in Nat /\ cache[p][n].stamp <= clock
          BY <1>t DEF Settled, InTime, TypesAt, Entry
        <5> QED BY <1>t, <2>4, <5>1
      <4> QED BY <1>t, <2>4, <3>2, <4>1 DEF InTime
    <3>4. Told(versions, x, cache[p], job'[p], dirty[p])
      <4> SUFFICES ASSUME NEW n \in DOMAIN versions PROVE x.stamp # versions[n].stamp
        BY <1>t DEF Settled, Told
      <4>1. versions[n].stamp \in 1..clock
        BY DEF Served, RowsTimed
      <4> QED BY <1>t, <3>2, <4>1
    <3>5. Settled(p, versions, clock', instance'[p], cache'[p], job'[p], dirty'[p])
      BY <1>t, <2>1, <2>4, <3>1, <3>3, <3>4 DEF Settled
    <3> QED BY <2>1, <2>4, <3>1, <3>5, LocalServed
  <2> QED BY <1>4, <2>2, <2>3, <2>4 DEF Fail
<1> QED BY <1>1, <1>3, <1>4

LEMMA ServedStep ==
  ASSUME Served, [Next]_vars
  PROVE  Served'
<1>0. TypeInv'
  BY TypeStep DEF Served
<1>1. ASSUME UNCHANGED vars PROVE Served'
  BY <1>0, <1>1 DEF vars, Served, RowsTimed
<1>2. ASSUME NEW p \in Processes, Manage(p) PROVE Served'
  BY <1>0, <1>2, ReadingServed, SavingServed, StoreServed, CreatingServed DEF Manage
<1>3. ASSUME NEW p \in Processes, Serve(p) PROVE Served'
  BY <1>0, <1>3, ReadingServed, ResolvingServed DEF Serve
<1>4. ASSUME NEW p \in Processes,
             Restart(p) \/ Fail(p) \/ \E d \in Snapshots : Assign(p, d)
      PROVE  Served'
  BY <1>0, <1>4, FailingServed
<1> QED BY <1>1, <1>2, <1>3, <1>4 DEF Next

LEMMA ServedStart == Init => Served
<1> SUFFICES ASSUME Init PROVE Served
  OBVIOUS
<1>1. TypeInv /\ Len(versions) \in Nat
  BY TypeStart DEF TypeInv, TypeOK
<1>2. DOMAIN versions = {}
  BY DEF Init
<1>3. ASSUME NEW p \in Processes
      PROVE  Settled(p, versions, clock, instance[p], cache[p], job[p], dirty[p])
  <2>1. instance[p] = NoInstance /\ cache[p] = EmptyCache /\ clock = 0 /\ dirty[p] = {}
    BY DEF Init
  <2>2. InTime(0, NoInstance, EmptyCache)
    BY DEF InTime, NoInstance, EmptyCache, NoEntry
  <2> QED BY <1>2, <2>1, <2>2 DEF Settled, Told, MarkedRight
<1> QED BY <1>1, <1>2, <1>3 DEF Served, RowsTimed

(* Whatever overlaps and whatever is refused, a process acts on another    *)
(* definition than the row's only where one of its instances was left with *)
(* changes that were not saved, and of a draft only where the database     *)
(* refuses its writes or the application does not save.                    *)
THEOREM StoredAlwaysServed == Spec => []ServesStored
<1>1. Served => ServesStored
  <2> SUFFICES ASSUME Served, NEW p \in Processes, NEW n \in DOMAIN versions,
                      WorkflowOf(p, Load(n)) # versions[n].definition
               PROVE  n \in dirty[p] /\ (p \in Unsaved \/ versions[n].status # "DRAFT")
    BY DEF ServesStored
  <2>1. n \in dirty[p]
    BY ServedAt DEF WorkflowOf, Hit, Load, Settled, Told
  <2> QED BY <2>1, ServedAt DEF Settled, MarkedRight
<1>2. Served /\ [Next]_vars => Served'
  BY ServedStep
<1> QED BY ServedStart, <1>1, <1>2, PTL DEF Spec

-----------------------------------------------------------------------------
(* The rows implement the history of versions.                             *)

Summary(row) == [status |-> row.status, definition |-> row.definition]
History == [n \in DOMAIN versions |-> Summary(versions[n])]

Summaries == [status : Statuses, definition : Snapshots]

LEMMA HistoryTyped ==
  ASSUME TypeInv
  PROVE  /\ History \in Seq(Summaries) /\ Len(History) = Len(versions)
         /\ Len(versions) \in Nat
         /\ DOMAIN versions = 1..Len(versions) /\ DOMAIN History = DOMAIN versions
         /\ \A n \in DOMAIN versions :
              History[n] = Summary(versions[n]) /\ versions[n] \in Row
<1>1. /\ Len(versions) \in Nat /\ DOMAIN versions = 1..Len(versions)
      /\ \A n \in DOMAIN versions : versions[n] \in Row
  BY DEF TypeInv, TypeOK
<1>2. ASSUME NEW n \in DOMAIN versions PROVE Summary(versions[n]) \in Summaries
  BY <1>1 DEF Summary, Summaries, Row
<1>3. History \in [1..Len(versions) -> Summaries]
  BY <1>1, <1>2 DEF History
<1>4. History \in Seq(Summaries) /\ Len(History) = Len(versions)
  BY <1>1, <1>3, IsASeq, LenProperties
<1> QED BY <1>1, <1>4 DEF History

(* A save revises a version, or changes nothing of it but its stamp.       *)
LEMMA StoreRevises ==
  ASSUME Inv, NEW p \in Processes, Store(p)
  PROVE  \/ History' = History
         \/ \E n \in DOMAIN History, d \in Snapshots, status \in Statuses :
              /\ <<History[n].status, status>> \in Published!Moves
              /\ d # History[n].definition => History[n].status = "DRAFT"
              /\ History' = [History EXCEPT ![n] = [status |-> status, definition |-> d]]
<1>t. /\ TypesAt(p) /\ TypeInv
      /\ Consistent(versions, clock, instance[p], cache[p], job[p])
  BY InvAt
<1> DEFINE x == instance[p]
           n == x.number
           row == [status |-> x.status, definition |-> x.definition, stamp |-> clock']
           e == [status |-> x.status, definition |-> x.definition]
<1>1. /\ DOMAIN versions' = DOMAIN versions
      /\ \A i \in DOMAIN versions : versions'[i] = IF i = n THEN row ELSE versions[i]
  BY <1>t, Stored
<1>2. Writable(versions, x) /\ n \in DOMAIN versions
  BY <1>t DEF Consistent, Store, Saving, SavingPhases, Writable, TypesAt
<1>3. /\ History[n].status = versions[n].status
      /\ History[n].definition = versions[n].definition
      /\ versions[n].status \in Statuses /\ versions[n] \in Row
  <2>1. History[n] = Summary(versions[n]) /\ versions[n] \in Row
    BY <1>2, <1>t, HistoryTyped
  <2> QED BY <2>1 DEF Summary, Row
<1>4. x.status \in Statuses /\ x.definition \in Snapshots
  BY <1>t DEF TypesAt, Instance
<1>5. History' = [History EXCEPT ![n] = e]
  <2>1. Summary(row) = e
    BY DEF Summary
  <2> HIDE DEF row, e
  <2>2. ASSUME NEW i \in DOMAIN versions
        PROVE  Summary(versions'[i]) = IF i = n THEN e ELSE Summary(versions[i])
    BY <1>1, <2>1
  <2> HIDE DEF n
  <2> QED BY <1>1, <1>2, <2>2 DEF History
<1>6. CASE versions[n].status = x.status /\ versions[n].definition = x.definition
  <2>1. History[n] = e
    BY <1>2, <1>6, <1>t, HistoryTyped DEF Summary
  <2>2. History' = History
    <3> HIDE DEF e
    <3> QED BY <1>5, <2>1 DEF History
  <2> QED BY <2>2
<1>7. CASE ~ (versions[n].status = x.status /\ versions[n].definition = x.definition)
  <2>1. <<History[n].status, x.status>> \in Published!Moves
    BY <1>2, <1>3, <1>4, <1>7 DEF Writable, Allows, Statuses, Published!Moves
  <2>2. x.definition # History[n].definition => History[n].status = "DRAFT"
    BY <1>2, <1>3 DEF Writable, Allows
  <2>3. n \in DOMAIN History
    BY <1>2, <1>t, HistoryTyped
  <2> QED BY <1>4, <1>5, <2>1, <2>2, <2>3
<1> QED BY <1>6, <1>7

(* A version that is created is appended.                                  *)
LEMMA InsertAppends ==
  ASSUME TypeInv, NEW p \in Processes, NEW d \in Snapshots, Insert(p, d),
         job[p].number > Len(versions)
  PROVE  History' = Append(History, [status |-> "DRAFT", definition |-> d])
<1> DEFINE row == [status |-> "DRAFT", definition |-> d, stamp |-> clock']
           e == [status |-> "DRAFT", definition |-> d]
           n == Len(versions) + 1
<1>1. /\ versions' \in Seq(Row) /\ Len(versions') = n /\ versions'[n] = row
      /\ \A i \in DOMAIN versions : versions'[i] = versions[i]
  BY Inserted
<1>2. /\ History \in Seq(Summaries) /\ Len(History) = Len(versions)
      /\ Len(versions) \in Nat /\ DOMAIN versions = 1..Len(versions)
      /\ \A i \in DOMAIN versions : History[i] = Summary(versions[i])
  BY HistoryTyped
<1>3. e \in Summaries /\ Summary(row) = e
  BY DEF Summaries, Statuses, Summary
<1> DEFINE a == Append(History, e)
<1> HIDE DEF row, e
<1>4. a \in Seq(Summaries) /\ Len(a) = n /\ a[n] = e /\ \A i \in 1..Len(versions) : a[i] = History[i]
  BY <1>2, <1>3, AppendProperties
<1>5. DOMAIN versions' = 1..n /\ n \in Nat
  BY <1>1, <1>2
<1>6. a = [i \in 1..n |-> a[i]]
  <2> HIDE DEF a, n
  <2>1. a \in [1..n -> Summaries]
    BY <1>4
  <2> QED BY <2>1
<1>7. ASSUME NEW i \in 1..n PROVE Summary(versions'[i]) = a[i]
  <2>1. CASE i = n
    BY <1>1, <1>3, <1>4, <2>1
  <2>2. CASE i # n
    <3>1. i \in 1..Len(versions)
      BY <1>2, <2>2
    <3> QED BY <1>1, <1>2, <1>4, <3>1
  <2> QED BY <2>1, <2>2
<1>8. History' = [i \in 1..n |-> Summary(versions'[i])]
  BY <1>5 DEF History
<1> HIDE DEF a, n
<1>9. History' = a
  BY <1>6, <1>7, <1>8
<1> QED BY <1>9 DEF a, e

(* The first version is a launch.                                          *)
LEMMA CreateLaunches ==
  ASSUME TypeInv, NEW p \in Processes, CreateFirst(p), versions = <<>>
  PROVE  /\ History = <<>>
         /\ History' = <<[status |-> "PUBLISHED", definition |-> Registered]>>
<1> DEFINE row == [status |-> "PUBLISHED", definition |-> Registered, stamp |-> clock']
           e == [status |-> "PUBLISHED", definition |-> Registered]
<1>1. versions' = <<row>>
  BY CreatedFirst
<1>2. Summary(row) = e
  BY DEF Summary
<1> HIDE DEF row, e
<1>3. DOMAIN versions' = {1} /\ versions'[1] = row
  BY <1>1
<1>4. History' = [n \in {1} |-> e]
  BY <1>2, <1>3 DEF History
<1>5. [n \in {1} |-> e] = <<e>>
  OBVIOUS
<1>6. History = <<>>
  <2>1. DOMAIN versions = {}
    OBVIOUS
  <2>2. History = [n \in {} |-> 0]
    BY <2>1 DEF History
  <2>3. <<>> = [n \in {} |-> 0]
    OBVIOUS
  <2> QED BY <2>2, <2>3
<1> QED BY <1>4, <1>5, <1>6 DEF e

(* A step changes the history or the bindings as VersionHistory allows.    *)
LEMMA HistoryStep ==
  ASSUME ~Overlapping, Unsaved = {}, Inv, Next
  PROVE  [Published!Next]_<<History, bound>>
<1>v. Published!NotStarted = NotStarted /\ Published!Unversioned = Unversioned
  BY DEF Published!NotStarted, Published!Unversioned, NotStarted, Unversioned
<1>h. DOMAIN History = DOMAIN versions
  BY HistoryTyped DEF Inv
<1>s. ASSUME versions' = versions PROVE History' = History
  BY <1>s DEF History
<1>1. ASSUME NEW p \in Processes, Store(p)
      PROVE  [Published!Next]_<<History, bound>>
  <2>1. bound' = bound
    BY <1>1 DEF Store
  <2>2. CASE History' = History
    BY <2>1, <2>2
  <2>3. ASSUME NEW n \in DOMAIN History, NEW d \in Snapshots, NEW status \in Statuses,
               <<History[n].status, status>> \in Published!Moves,
               d # History[n].definition => History[n].status = "DRAFT",
               History' = [History EXCEPT ![n] = [status |-> status, definition |-> d]]
        PROVE  Published!Next
    <3>1. Published!Revise(n, d, status)
      BY <2>1, <2>3 DEF Published!Revise, History, Summary
    <3> QED BY <3>1, <1>h DEF Published!Next, Statuses
  <2> QED BY <1>1, <2>2, <2>3, StoreRevises
<1>2. ASSUME NEW p \in Processes, NEW d \in Snapshots, Insert(p, d)
      PROVE  [Published!Next]_<<History, bound>>
  <2>1. bound' = bound
    BY <1>2 DEF Insert
  <2>2. CASE job[p].number > Len(versions)
    <3>1. History' = Append(History, [status |-> "DRAFT", definition |-> d])
      BY <1>2, <2>2, InsertAppends DEF Inv
    <3>2. Published!Draft(d)
      BY <2>1, <3>1 DEF Published!Draft, History, Summary
    <3> QED BY <3>2 DEF Published!Next
  <2>3. CASE ~ (job[p].number > Len(versions))
    BY <1>2, <1>s, <2>1, <2>3 DEF Insert
  <2> QED BY <2>2, <2>3
<1>3. ASSUME NEW p \in Processes, CreateFirst(p)
      PROVE  [Published!Next]_<<History, bound>>
  <2>1. bound' = bound
    BY <1>3 DEF CreateFirst
  <2>2. CASE versions = <<>>
    <3>1. History = <<>> /\ History' = <<[status |-> "PUBLISHED", definition |-> Registered]>>
      BY <1>3, <2>2, CreateLaunches DEF Inv
    <3>2. Published!Launch(Registered)
      BY <2>1, <3>1 DEF Published!Launch, History, Summary
    <3>3. Registered \in Snapshots
      BY DefinitionsAssumption DEF Snapshots
    <3> QED BY <3>2, <3>3 DEF Published!Next
  <2>3. CASE versions # <<>>
    BY <1>3, <1>s, <2>1, <2>3 DEF CreateFirst
  <2> QED BY <2>2, <2>3
<1>4. ASSUME NEW p \in Processes, Pin(p)
      PROVE  [Published!Next]_<<History, bound>>
  <2>1. job[p].number \in DOMAIN History
    BY <1>4, <1>h DEF Pin, Inv, TypeInv, Reach
  <2>2. Published!Pin(job[p].number)
    BY <1>4, <1>s, <1>v DEF Pin, Pinned, Published!Pin, History, Summary
  <2> QED BY <2>1, <2>2, <1>h DEF Published!Next
<1>5. ASSUME NEW p \in Processes, NEW o \in Objects, Create(p, o)
      PROVE  [Published!Next]_<<History, bound>>
  <2>1. job[p].number \in {Unversioned} \cup DOMAIN History
    <3>1. job[p].number \in 0..Len(versions)
      BY <1>5 DEF Create, Inv, TypeInv, Reach
    <3> QED BY <3>1, <1>h, HistoryTyped DEF Inv, Unversioned
  <2>2. CASE bound[o] = NotStarted
    <3>1. Published!Start(o, job[p].number)
      BY <1>5, <1>s, <1>v, <2>2 DEF Create, Published!Start, History, Summary
    <3> QED BY <2>1, <3>1, <1>h, <1>v DEF Published!Next
  <2>3. CASE bound[o] # NotStarted
    BY <1>5, <1>s, <2>3 DEF Create
  <2> QED BY <2>2, <2>3
<1>6. ASSUME UNCHANGED <<versions, bound>>
      PROVE  [Published!Next]_<<History, bound>>
  BY <1>6, <1>s
<1>7. ASSUME NEW p \in Processes, Manage(p)
      PROVE  [Published!Next]_<<History, bound>>
  <2>1. CASE Store(p) \/ CreateFirst(p) \/ Pin(p) \/ \E d \in Snapshots : Insert(p, d)
    BY <2>1, <1>1, <1>2, <1>3, <1>4
  <2>2. CASE \/ \E n \in DOMAIN versions : Fetch(p, n)
             \/ Draft(p) \/ Ensure(p) \/ Lose(p)
    BY <2>2, <1>6 DEF Fetch, Draft, Ensure, Lose, database, shared
  <2>3. CASE \/ Publish(p) \/ Retire(p)
             \/ \E d \in Snapshots : Edit(p, d)
             \/ \E d \in Definitions : Update(p, d)
    BY <2>3, <1>6 DEF Publish, Retire, Edit, Update, Save, database, shared
  <2> QED BY <1>7, <2>1, <2>2, <2>3 DEF Manage
<1>8. ASSUME NEW p \in Processes, Serve(p)
      PROVE  [Published!Next]_<<History, bound>>
  <2>1. CASE \E o \in Objects : Create(p, o)
    BY <2>1, <1>5
  <2>2. CASE ResolveDefault(p) \/ \E o \in Objects : Use(p, o)
    BY <2>2, <1>6 DEF ResolveDefault, Use, database, shared
  <2>3. ASSUME NEW x, NEW lenient, ResolveGiven(p, x, lenient) PROVE UNCHANGED <<versions, bound>>
    BY <2>3 DEF ResolveGiven, database, shared
  <2> QED BY <1>8, <2>1, <2>2, <2>3, <1>6 DEF Serve
<1>9. ASSUME NEW p \in Processes, Restart(p)
      PROVE  [Published!Next]_<<History, bound>>
  BY <1>9, <1>6 DEF Restart, database, shared
<1> QED BY <1>7, <1>8, <1>9 DEF Next, Assign, Fail

(* The rows and the executions behave as the history of versions does.     *)
THEOREM HistoryImplemented ==
  ASSUME ~Overlapping, Unsaved = {}
  PROVE  Spec => ImplementsHistory
<1>1. Init => Published!Init
  <2> SUFFICES ASSUME Init PROVE Published!Init
    OBVIOUS
  <2>1. DOMAIN versions = {} /\ bound = [o \in Objects |-> NotStarted]
    BY DEF Init
  <2>2. <<>> = [n \in {} |-> 0]
    OBVIOUS
  <2> QED BY <2>1, <2>2 DEF Published!Init, Published!NotStarted, NotStarted
<1>2. Inv /\ [Next]_vars => [Published!Next]_(Published!vars)
  <2> SUFFICES ASSUME Inv, [Next]_vars PROVE [Published!Next]_(Published!vars)
    OBVIOUS
  <2>1. CASE Next
    BY <2>1, HistoryStep DEF Published!vars, History, Summary
  <2>2. CASE UNCHANGED vars
    BY <2>2 DEF vars, Published!vars
  <2> QED BY <2>1, <2>2
<1> QED BY InvHolds, <1>1, <1>2, PTL DEF Spec, ImplementsHistory, Published!Spec
-----------------------------------------------------------------------------
(* What is published stays fixed, also when writes are refused and         *)
(* instances keep what was never saved: save() compares with the row.      *)

\* At most one process is saving, and what its save() checked still holds.
Reviewed ==
  /\ TypeInv /\ OneSaver
  /\ \A p \in Processes : Saving(p) =>
       /\ instance[p].number \in DOMAIN versions
       /\ Allows(versions[instance[p].number], instance[p])

\* The rows there were are as they were.
RowsKept ==
  DOMAIN versions \subseteq DOMAIN versions' /\ \A n \in DOMAIN versions : versions'[n] = versions[n]

\* A step of p that begins no save and writes no row that exists.
Quiet(p) ==
  /\ RowsKept
  /\ job'[p].phase \notin SavingPhases
  /\ \A q \in Processes \ {p} : job'[q] = job[q] /\ instance'[q] = instance[q]

LEMMA ReadingQuiet ==
  ASSUME TypeInv, NEW p \in Processes,
         \/ \E n \in DOMAIN versions : Fetch(p, n)
         \/ \E o \in Objects : Use(p, o)
         \/ \E o \in Objects : Create(p, o)
         \/ \E x, lenient : ResolveGiven(p, x, lenient)
         \/ \E d \in Snapshots : Assign(p, d)
         \/ Draft(p) \/ Ensure(p) \/ Lose(p) \/ Pin(p)
         \/ ResolveDefault(p) \/ Restart(p) \/ Fail(p)
  PROVE  Quiet(p)
<1>t. /\ job \in [Processes -> JobType] /\ instance \in [Processes -> Instance]
      /\ Active \in Int
  <2>1. Active \in {0} \cup DOMAIN versions /\ DOMAIN versions = 1..Len(versions)
        /\ Len(versions) \in Nat
    BY ActivePublished, ProcessTypes DEF TypeInv, TypesAt
  <2> QED BY <2>1 DEF TypeInv, TypeOK, JobType
<1>i. Idle.phase = "idle"
  BY DEF Idle
<1>1. ASSUME versions' = versions,
             NEW phase \in Phases \ SavingPhases,
             \/ job' = job /\ job[p].phase = phase
             \/ \E j : j.phase = phase /\ job' = [job EXCEPT ![p] = j],
             instance' = instance \/ \E x : instance' = [instance EXCEPT ![p] = x]
      PROVE  Quiet(p)
  BY <1>t, <1>1 DEF Quiet, RowsKept
<1>2. ASSUME NEW phase \in Phases, Goto(p, phase)
      PROVE  \E j : j.phase = phase /\ job' = [job EXCEPT ![p] = j]
  <2>1. job' = [job EXCEPT ![p] = [phase |-> phase, number |-> 0, lenient |-> FALSE]]
    BY <1>2, PhaseShape DEF Goto
  <2> QED BY <2>1
<1>3. ASSUME NEW phase \in Phases, NEW n \in Int, Doing(p, phase, n)
      PROVE  \E j : j.phase = phase /\ job' = [job EXCEPT ![p] = j]
  <2>1. job' = [job EXCEPT ![p] = [phase |-> phase, number |-> n, lenient |-> FALSE]]
    BY <1>3, JobShape DEF Doing
  <2> QED BY <2>1
<1>4. ASSUME NEW n, NEW lenient, Starting(p, n, lenient)
      PROVE  \E j : j.phase = "starting" /\ job' = [job EXCEPT ![p] = j]
  BY <1>4 DEF Starting
<1>p. {"idle", "creating", "ensuring", "pinning", "starting"} \subseteq Phases \ SavingPhases
  BY DEF Phases, SavingPhases
<1>5. ASSUME NEW n \in DOMAIN versions, Fetch(p, n) PROVE Quiet(p)
  BY <1>1, <1>5, <1>p DEF Fetch, At, Hold, database, shared
<1>6. ASSUME NEW o \in Objects, Use(p, o) PROVE Quiet(p)
  BY <1>1, <1>6, <1>p DEF Use, At, database, shared
<1>7. ASSUME NEW o \in Objects, Create(p, o) PROVE Quiet(p)
  BY <1>1, <1>2, <1>7, <1>p DEF Create
<1>8. ASSUME NEW x, NEW lenient, ResolveGiven(p, x, lenient) PROVE Quiet(p)
  BY <1>1, <1>4, <1>8, <1>p DEF ResolveGiven, database, shared
<1>9. ASSUME NEW d \in Snapshots, Assign(p, d) PROVE Quiet(p)
  BY <1>1, <1>9, <1>p DEF Assign, At, Hold, database, shared
<1>10. ASSUME Draft(p) PROVE Quiet(p)
  <2>1. Len(versions) + 1 \in Int
    BY ProcessTypes DEF TypesAt
  <2> QED BY <1>1, <1>3, <1>10, <1>p, <2>1 DEF Draft, database, shared
<1>11. ASSUME Ensure(p) PROVE Quiet(p)
  BY <1>1, <1>2, <1>11, <1>p DEF Ensure, database, shared
<1>12. ASSUME Lose(p) PROVE Quiet(p)
  <2>1. CASE Doing(p, "pinning", Active) /\ Hold(p, Load(Active))
    BY <1>1, <1>3, <1>12, <1>p, <1>t, <2>1 DEF Lose, Hold, database, shared
  <2>2. CASE Goto(p, "idle") /\ UNCHANGED instance
    BY <1>1, <1>2, <1>12, <1>p, <2>2 DEF Lose, database, shared
  <2> QED BY <1>12, <2>1, <2>2 DEF Lose
<1>13. ASSUME Pin(p) PROVE Quiet(p)
  BY <1>1, <1>2, <1>13, <1>p DEF Pin
<1>14. ASSUME ResolveDefault(p) PROVE Quiet(p)
  BY <1>1, <1>4, <1>14, <1>p DEF ResolveDefault, database, shared
<1>15. ASSUME Restart(p) PROVE Quiet(p)
  BY <1>1, <1>15, <1>p, <1>i DEF Restart, Hold, database, shared
<1>16. ASSUME Fail(p) PROVE Quiet(p)
  BY <1>1, <1>2, <1>16, <1>p DEF Fail, Hold
<1> QED BY <1>5, <1>6, <1>7, <1>8, <1>9, <1>10, <1>11, <1>12, <1>13, <1>14, <1>15, <1>16

(* A version that is created is added to those there are.                  *)
LEMMA CreatingQuiet ==
  ASSUME TypeInv, NEW p \in Processes,
         CreateFirst(p) \/ \E d \in Snapshots : Insert(p, d)
  PROVE  Quiet(p)
<1>t. /\ job \in [Processes -> JobType] /\ instance \in [Processes -> Instance]
      /\ DOMAIN versions = 1..Len(versions) /\ Len(versions) \in Nat
  BY DEF TypeInv, TypeOK, JobType
<1>1. ASSUME RowsKept, NEW j \in JobType, NEW x \in Instance,
             j.phase \in {"idle", "losing", "pinning"},
             job' = [job EXCEPT ![p] = j], instance' = [instance EXCEPT ![p] = x]
      PROVE  Quiet(p)
  <2>1. job'[p].phase \notin SavingPhases
    BY <1>t, <1>1 DEF SavingPhases
  <2>2. \A q \in Processes \ {p} : job'[q] = job[q] /\ instance'[q] = instance[q]
    BY <1>t, <1>1
  <2> QED BY <1>1, <2>1, <2>2 DEF Quiet
<1>2. ASSUME NEW phase \in {"idle", "losing"}, Goto(p, phase), UNCHANGED <<versions, instance>>
      PROVE  Quiet(p)
  <2> DEFINE j == [phase |-> phase, number |-> 0, lenient |-> FALSE]
  <2>1. phase \in Phases
    BY DEF Phases
  <2>2. job' = [job EXCEPT ![p] = j] /\ j.phase \in {"idle", "losing", "pinning"}
    BY <1>2, <2>1, PhaseShape DEF Goto
  <2>3. j \in JobType
    BY <2>1, BoundsAssumption DEF JobType, Numbers
  <2>4. RowsKept
    BY <1>2 DEF RowsKept
  <2>5. instance' = [instance EXCEPT ![p] = instance[p]]
    BY <1>2, <1>t
  <2>6. instance[p] \in Instance
    BY <1>t
  <2> HIDE DEF j
  <2> QED BY <1>1, <2>2, <2>3, <2>4, <2>5, <2>6
<1>3. ASSUME CreateFirst(p), versions = <<>> PROVE Quiet(p)
  <2> DEFINE x == [number |-> 1, status |-> "PUBLISHED", definition |-> Registered,
                   stamp |-> clock']
             j == [phase |-> "pinning", number |-> 1, lenient |-> FALSE]
  <2>1. /\ instance' = [instance EXCEPT ![p] = x] /\ x \in Instance /\ j \in JobType
        /\ job' = [job EXCEPT ![p] = j] /\ j.phase \in {"idle", "losing", "pinning"}
    BY <1>3, CreatedFirst
  <2>2. RowsKept
    <3>1. DOMAIN versions = {}
      BY <1>3
    <3> QED BY <3>1 DEF RowsKept
  <2> HIDE DEF x, j
  <2> QED BY <1>1, <2>1, <2>2
<1>4. ASSUME CreateFirst(p), versions # <<>> PROVE Quiet(p)
  BY <1>2, <1>4 DEF CreateFirst
<1>5. ASSUME NEW d \in Snapshots, Insert(p, d) PROVE Quiet(p)
  <2>1. CASE job[p].number > Len(versions)
    <3> DEFINE x == [number |-> Len(versions) + 1, status |-> "DRAFT", definition |-> d,
                     stamp |-> clock']
    <3>1. /\ instance' = [instance EXCEPT ![p] = x] /\ x \in Instance
          /\ job' = [job EXCEPT ![p] = Idle]
          /\ versions' \in Seq(Row) /\ Len(versions') = Len(versions) + 1
          /\ \A i \in DOMAIN versions : versions'[i] = versions[i]
      BY <1>5, <2>1, Inserted
    <3> HIDE DEF x
    <3>2. DOMAIN versions' = 1..Len(versions')
      BY <3>1
    <3>3. RowsKept
      BY <1>t, <3>1, <3>2 DEF RowsKept
    <3>4. Idle.phase \in {"idle", "losing", "pinning"} /\ Idle \in JobType
      BY BoundsAssumption DEF Idle, JobType, Phases, Numbers
    <3> QED BY <1>1, <3>1, <3>3, <3>4
  <2>2. CASE ~ (job[p].number > Len(versions))
    BY <1>2, <1>5, <2>2 DEF Insert
  <2> QED BY <2>1, <2>2
<1> QED BY <1>3, <1>4, <1>5

(* save() up to its check, when no other save is under way.                *)
LEMMA SaveReviews ==
  ASSUME Reviewed, TypeInv', ~Overlapping, NEW p \in Processes, NEW x,
         NEW phase \in SavingPhases,
         x.number \in DOMAIN versions, Save(p, x, phase)
  PROVE  Reviewed'
<1>t. job \in [Processes -> JobType] /\ instance \in [Processes -> Instance]
  BY DEF Reviewed, TypeInv, TypeOK, JobType
<1> DEFINE next == IF Permitted(x) THEN phase ELSE "idle"
<1>1. next \in Phases
  BY DEF Phases, SavingPhases
<1>2. job' = [job EXCEPT ![p] = [phase |-> next, number |-> 0, lenient |-> FALSE]]
  BY <1>1, PhaseShape DEF Save, Goto
<1>3. /\ instance' = [instance EXCEPT ![p] = x] /\ versions' = versions
      /\ \A q \in Processes : ~Saving(q)
  BY DEF Save, Hold, database, shared
<1>4. ASSUME NEW q \in Processes, Saving(q)'
      PROVE  q = p /\ Permitted(x)
  <2>1. CASE q # p
    BY <1>2, <1>3, <1>4, <1>t, <2>1 DEF Saving
  <2>2. CASE q = p /\ ~Permitted(x)
    BY <1>2, <1>4, <1>t, <2>2 DEF Saving
  <2> QED BY <2>1, <2>2
<1>5. OneSaver'
  BY <1>4 DEF OneSaver
<1>6. ASSUME Permitted(x) PROVE Allows(versions[x.number], x)
  BY <1>6 DEF Permitted, Allows
<1>7. ASSUME NEW q \in Processes, Saving(q)'
      PROVE  instance'[q].number \in DOMAIN versions' /\ Allows(versions'[instance'[q].number], instance'[q])
  <2>1. q = p /\ Permitted(x)
    BY <1>4, <1>7
  <2>2. instance'[q] = x
    BY <1>3, <1>t, <2>1
  <2> QED BY <1>3, <1>6, <2>1, <2>2
<1> QED BY <1>5, <1>7 DEF Reviewed

LEMMA ReviewedStep ==
  ASSUME Reviewed, [Next]_vars, ~Overlapping
  PROVE  Reviewed'
<1>0. TypeInv /\ TypeInv'
  BY TypeStep DEF Reviewed
<1>1. CASE UNCHANGED vars
  BY <1>0, <1>1 DEF vars, Reviewed, OneSaver, Saving
<1>2. ASSUME NEW p \in Processes, Quiet(p) PROVE Reviewed'
  <2>1. ASSUME NEW q \in Processes, Saving(q)'
        PROVE  q # p /\ Saving(q) /\ job'[q] = job[q] /\ instance'[q] = instance[q]
    BY <1>2, <2>1 DEF Quiet, Saving, SavingPhases
  <2>2. OneSaver'
    BY <2>1 DEF Reviewed, OneSaver
  <2>3. ASSUME NEW q \in Processes, Saving(q)'
        PROVE  /\ instance'[q].number \in DOMAIN versions'
               /\ Allows(versions'[instance'[q].number], instance'[q])
    BY <1>2, <2>1, <2>3 DEF Reviewed, Quiet, RowsKept
  <2> QED BY <1>0, <2>2, <2>3 DEF Reviewed
<1>3. ASSUME NEW p \in Processes, Store(p) PROVE Reviewed'
  <2>1. job' = [job EXCEPT ![p] = Idle] /\ Idle.phase = "idle"
    BY <1>0, <1>3, Stored DEF Idle
  <2>2. \A q \in Processes : ~Saving(q)'
    BY <1>0, <1>3, <2>1 DEF Store, Reviewed, OneSaver, Saving, TypeInv, TypeOK
  <2> QED BY <1>0, <2>2 DEF Reviewed, OneSaver
<1>4. ASSUME NEW p \in Processes,
             \/ Publish(p) \/ Retire(p)
             \/ \E d \in Snapshots : Edit(p, d)
             \/ \E d \in Definitions : Update(p, d)
      PROVE  Reviewed'
  <2>0. instance[p] \in Instance /\ (Holds(p) => instance[p].number \in DOMAIN versions)
    BY <1>0, ProcessTypes DEF TypesAt, Holds
  <2>1. ASSUME NEW d, NEW phase \in SavingPhases,
               Holds(p), Save(p, [instance[p] EXCEPT !.definition = d], phase)
        PROVE  Reviewed'
    <3> DEFINE x == [instance[p] EXCEPT !.definition = d]
    <3>1. x.number \in DOMAIN versions
      BY <2>0, <2>1 DEF Instance
    <3> QED BY <1>0, <2>1, <3>1, SaveReviews
  <2>2. ASSUME NEW status, Holds(p), Save(p, [instance[p] EXCEPT !.status = status], "saving")
        PROVE  Reviewed'
    <3> DEFINE x == [instance[p] EXCEPT !.status = status]
    <3>1. x.number \in DOMAIN versions /\ "saving" \in SavingPhases
      BY <2>0, <2>2 DEF Instance, SavingPhases
    <3> QED BY <1>0, <2>2, <3>1, SaveReviews
  <2>3. "saving" \in SavingPhases /\ "editing" \in SavingPhases
    BY DEF SavingPhases
  <2> QED BY <1>4, <2>1, <2>2, <2>3 DEF Publish, Retire, Edit, Update
<1>5. ASSUME NEW p \in Processes, Manage(p) PROVE Reviewed'
  <2>1. CASE Store(p)
    BY <1>3, <2>1
  <2>2. CASE \/ Publish(p) \/ Retire(p)
             \/ \E d \in Snapshots : Edit(p, d)
             \/ \E d \in Definitions : Update(p, d)
    BY <1>4, <2>2
  <2>3. CASE CreateFirst(p) \/ \E d \in Snapshots : Insert(p, d)
    BY <1>0, <1>2, <2>3, CreatingQuiet
  <2>4. CASE \/ \E n \in DOMAIN versions : Fetch(p, n)
             \/ Draft(p) \/ Ensure(p) \/ Lose(p) \/ Pin(p)
    BY <1>0, <1>2, <2>4, ReadingQuiet
  <2> QED BY <1>5, <2>1, <2>2, <2>3, <2>4 DEF Manage
<1>6. ASSUME NEW p \in Processes, Serve(p) PROVE Reviewed'
  BY <1>0, <1>2, <1>6, ReadingQuiet DEF Serve
<1>7. ASSUME NEW p \in Processes, Restart(p) \/ Fail(p) \/ \E d \in Snapshots : Assign(p, d)
      PROVE  Reviewed'
  BY <1>0, <1>2, <1>7, ReadingQuiet
<1> QED BY <1>1, <1>5, <1>6, <1>7 DEF Next

\* What PublishedFixed says of a step.
StepFixed ==
  \A n \in DOMAIN versions : versions[n].status # "DRAFT" =>
    /\ versions'[n].definition = versions[n].definition
    /\ versions'[n].status \in {versions[n].status, "RETIRED"}

LEMMA FixedStep ==
  ASSUME Reviewed, [Next]_vars
  PROVE  StepFixed
<1>0. TypeInv
  BY DEF Reviewed
<1>1. ASSUME RowsKept PROVE StepFixed
  BY <1>1 DEF RowsKept, StepFixed
<1>2. ASSUME versions' = versions PROVE StepFixed
  BY <1>1, <1>2 DEF RowsKept
<1>3. ASSUME NEW p \in Processes, Store(p) PROVE StepFixed
  <2> DEFINE x == instance[p]
             row == [status |-> x.status, definition |-> x.definition, stamp |-> clock']
  <2>1. \A n \in DOMAIN versions : versions'[n] = IF n = x.number THEN row ELSE versions[n]
    BY <1>0, <1>3, Stored
  <2>2. Allows(versions[x.number], x)
    BY <1>3 DEF Store, Reviewed
  <2>3. row.status = x.status /\ row.definition = x.definition
    OBVIOUS
  <2>4. x.status \in Statuses /\ \A n \in DOMAIN versions : versions[n].status \in Statuses
    <3>1. x \in Instance
      BY <1>0 DEF TypeInv, TypeOK
    <3>2. \A n \in DOMAIN versions : versions[n] \in Row
      BY <1>0 DEF TypeInv, TypeOK
    <3> QED BY <3>1, <3>2 DEF Instance, Row
  <2> HIDE DEF x, row
  <2>5. ASSUME NEW n \in DOMAIN versions, versions[n].status # "DRAFT"
        PROVE  /\ versions'[n].definition = versions[n].definition
               /\ versions'[n].status \in {versions[n].status, "RETIRED"}
    <3>1. CASE n = x.number
      BY <2>1, <2>2, <2>3, <2>4, <2>5, <3>1 DEF Allows, Statuses
    <3>2. CASE n # x.number
      BY <2>1, <3>2
    <3> QED BY <3>1, <3>2
  <2> QED BY <2>5 DEF StepFixed
<1>4. ASSUME NEW p \in Processes, Quiet(p) PROVE StepFixed
  BY <1>1, <1>4 DEF Quiet
<1>5. ASSUME NEW p \in Processes, Manage(p) PROVE StepFixed
  <2>1. CASE Store(p)
    BY <1>3, <2>1
  <2>2. CASE \/ Publish(p) \/ Retire(p)
             \/ \E d \in Snapshots : Edit(p, d)
             \/ \E d \in Definitions : Update(p, d)
    BY <1>2, <2>2 DEF Publish, Retire, Edit, Update, Save, database, shared
  <2>3. CASE CreateFirst(p) \/ \E d \in Snapshots : Insert(p, d)
    BY <1>0, <1>4, <2>3, CreatingQuiet
  <2>4. CASE \/ \E n \in DOMAIN versions : Fetch(p, n)
             \/ Draft(p) \/ Ensure(p) \/ Lose(p) \/ Pin(p)
    BY <1>0, <1>4, <2>4, ReadingQuiet
  <2> QED BY <1>5, <2>1, <2>2, <2>3, <2>4 DEF Manage
<1>6. ASSUME NEW p \in Processes, Serve(p) PROVE StepFixed
  BY <1>0, <1>4, <1>6, ReadingQuiet DEF Serve
<1>7. ASSUME NEW p \in Processes, Restart(p) \/ Fail(p) \/ \E d \in Snapshots : Assign(p, d)
      PROVE  StepFixed
  BY <1>0, <1>4, <1>7, ReadingQuiet
<1>8. CASE UNCHANGED vars
  BY <1>2, <1>8 DEF vars
<1> QED BY <1>5, <1>6, <1>7, <1>8 DEF Next

(* Whatever fails, and whatever instances keep, a published version keeps  *)
(* its definition and can only be retired, if no two saves overlap.        *)
THEOREM PublishedStaysFixed ==
  ASSUME ~Overlapping
  PROVE  Spec => PublishedFixed
<1>1. Init => Reviewed
  <2> SUFFICES ASSUME Init PROVE Reviewed
    OBVIOUS
  <2>1. \A p \in Processes : ~Saving(p)
    BY DEF Init, Idle, Saving
  <2> QED BY <2>1, TypeStart DEF Reviewed, OneSaver
<1>2. Reviewed /\ [Next]_vars => Reviewed'
  BY ReviewedStep
<1>3. Reviewed /\ [Next]_vars => [StepFixed]_vars
  BY FixedStep
<1>4. [StepFixed]_vars <=> [\A n \in DOMAIN versions : versions[n].status # "DRAFT" =>
         /\ versions'[n].definition = versions[n].definition
         /\ versions'[n].status \in {versions[n].status, "RETIRED"}]_vars
  BY DEF StepFixed
<1> QED BY <1>1, <1>2, <1>3, <1>4, PTL DEF Spec, PublishedFixed
=============================================================================
