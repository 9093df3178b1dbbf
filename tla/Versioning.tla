----------------------------- MODULE Versioning -----------------------------
(***************************************************************************)
(* The versions of one workflow (engine/versioning.py, models/version.py), *)
(* managed and used by several processes that share a database.  A process *)
(* works on a model instance it fetched earlier, which may be outdated;    *)
(* save() reads the row again, checks, and then writes every column.  Each *)
(* process caches the definitions it rebuilt from snapshots.  A process    *)
(* may crash, or be restarted, at any time.                                *)
(***************************************************************************)
EXTENDS Integers, Sequences, FiniteSetsExt

CONSTANTS
  Processes,
  Objects,      \* what executions are started for
  Definitions,  \* the snapshots a workflow can be rebuilt from
  Malformed,    \* a snapshot that fails the engine's configuration rules
  Registered,   \* the definition registered in the code
  Overlapping,  \* whether two saves may overlap
  Unsaved,      \* processes where the database may refuse a write, or changes
                \* be left unsaved
  MaxVersions,  \* bound: versions created
  MaxWrites     \* bound: writes while there are so many versions

ASSUME DefinitionsAssumption == Malformed \notin Definitions /\ Registered \in Definitions
ASSUME BoundsAssumption ==
  /\ Overlapping \in BOOLEAN /\ Unsaved \subseteq Processes
  /\ MaxVersions \in Nat /\ MaxWrites \in [1..MaxVersions -> Nat]

VARIABLES
  versions,  \* the WorkflowVersion rows, by number
  bound,     \* workflow_version of each object's WorkflowExecution
  clock,     \* history: writes so far, refused ones too; a write's updated_at
  instance,  \* the WorkflowVersion instance each process holds
  cache,     \* _VERSION_CACHE of each process
  job,       \* what each process is in the middle of
  relaxed,   \* history: objects whose start needed allow_unpublished
  dirty      \* history: by process, versions whose present row its instance
             \* had read when it was left with changes that were not saved

shared == <<versions, bound, clock, relaxed>>
database == <<shared, dirty>>
vars == <<versions, bound, clock, instance, cache, job, relaxed, dirty>>

Snapshots == Definitions \cup {Malformed}
Statuses == {"DRAFT", "PUBLISHED", "RETIRED"}
Numbers == 0..MaxVersions

\* Columns of the row; the stamp is updated_at.
Row == [status : Statuses, definition : Snapshots, stamp : Nat]

Instance ==
  [number : Numbers, status : Statuses, definition : Snapshots, stamp : Nat]
NoInstance ==
  [number |-> 0, status |-> "DRAFT", definition |-> Registered, stamp |-> 0]

Load(n) ==
  [number |-> n, status |-> versions[n].status,
   definition |-> versions[n].definition, stamp |-> versions[n].stamp]

Phases == {"idle", "saving", "editing", "creating", "ensuring", "losing",
           "pinning", "starting"}
Idle == [phase |-> "idle", number |-> 0, lenient |-> FALSE]

\* workflow_version of an object's execution, when it is not a number.
NotStarted == -1
Unversioned == 0

NoEntry == [stamp |-> 0, workflow |-> Registered]
EmptyCache == [n \in 1..MaxVersions |-> NoEntry]

Init ==
  /\ versions = <<>>
  /\ bound = [o \in Objects |-> NotStarted]
  /\ clock = 0
  /\ instance = [p \in Processes |-> NoInstance]
  /\ cache = [p \in Processes |-> EmptyCache]
  /\ job = [p \in Processes |-> Idle]
  /\ relaxed = {}
  /\ dirty = [p \in Processes |-> {}]

At(p, phase) == job[p].phase = phase
Goto(p, phase) == job' = [job EXCEPT ![p] = [Idle EXCEPT !.phase = phase]]
Doing(p, phase, n) ==
  job' = [job EXCEPT ![p] = [Idle EXCEPT !.phase = phase, !.number = n]]
Hold(p, x) == instance' = [instance EXCEPT ![p] = x]
Holds(p) == instance[p].number # 0

-----------------------------------------------------------------------------
(* Reading.                                                                *)

\* active_version: the highest published number, 0 when there is none.
Active == Max({0} \cup {n \in DOMAIN versions : versions[n].status = "PUBLISHED"})

\* Variant: entries are found by the number alone.
HitByNumber(p, x) == cache[p][x.number].stamp # 0

Hit(p, x) == cache[p][x.number].stamp = x.stamp

\* get_version_workflow: raises when the snapshot cannot be rebuilt.
WorkflowOf(p, x) ==
  IF Hit(p, x) THEN cache[p][x.number].workflow ELSE x.definition

Usable(p, x) == WorkflowOf(p, x) # Malformed
Remember(p, x) ==
  cache' = [cache EXCEPT ![p][x.number] =
              [stamp |-> x.stamp, workflow |-> WorkflowOf(p, x)]]

\* Workflow.version and active_version hand the caller an instance.
Fetch(p, n) ==
  /\ At(p, "idle")
  /\ Hold(p, Load(n))
  /\ UNCHANGED <<database, cache, job>>

\* get_workflow_for_execution on a freshly read execution.
Use(p, o) ==
  /\ At(p, "idle")
  /\ bound[o] > 0
  /\ Usable(p, Load(bound[o]))
  /\ Remember(p, Load(bound[o]))
  /\ UNCHANGED <<database, instance, job>>

-----------------------------------------------------------------------------
(* save(): read the row again and check, then write.                       *)

\* Variant: the definition is not compared.
StatusPermitted(x) ==
  LET previous == versions[x.number]
  IN  /\ previous.status = "RETIRED" => x.status = "RETIRED"
      /\ previous.status = "PUBLISHED" => x.status # "DRAFT"

Permitted(x) ==
  LET previous == versions[x.number]
  IN  /\ previous.status = "RETIRED" => x.status = "RETIRED"
      /\ previous.status = "PUBLISHED" => x.status # "DRAFT"
      /\ previous.status # "DRAFT" => x.definition = previous.definition

Saving(p) == job[p].phase \in {"saving", "editing"}

\* The instance keeps changes that are not saved, and the stamp it has.
Keep(p, x) ==
  dirty' = IF x.stamp = versions[x.number].stamp
           THEN [dirty EXCEPT ![p] = @ \cup {x.number}]
           ELSE dirty

\* It keeps the caller's when the check raises.
Save(p, x, phase) ==
  /\ Overlapping \/ \A q \in Processes : ~Saving(q)
  /\ Hold(p, x)
  /\ Goto(p, IF Permitted(x) THEN phase ELSE "idle")
  /\ IF Permitted(x) THEN UNCHANGED dirty ELSE Keep(p, x)
  /\ UNCHANGED shared

Store(p) ==
  LET x == instance[p]
  IN  /\ Saving(p)
      /\ clock < MaxWrites[Len(versions)]
      /\ clock' = clock + 1
      /\ versions' = [versions EXCEPT ![x.number] =
           [status |-> x.status, definition |-> x.definition, stamp |-> clock']]
      /\ Hold(p, [x EXCEPT !.stamp = clock'])
      /\ cache' = IF At(p, "saving")
                  THEN [cache EXCEPT ![p][x.number] = NoEntry]
                  ELSE cache
      /\ dirty' = [q \in Processes |-> dirty[q] \ {x.number}]
      /\ Goto(p, "idle")
      /\ UNCHANGED <<bound, relaxed>>

-----------------------------------------------------------------------------
(* Operations on versions.                                                 *)

\* create_workflow_version takes the next number ...
Draft(p) ==
  /\ At(p, "idle")
  /\ Len(versions) < MaxVersions
  /\ Doing(p, "creating", Len(versions) + 1)
  /\ UNCHANGED <<database, instance, cache>>

\* ... which the unique constraint refuses if it was taken meanwhile.
Insert(p, d) ==
  /\ At(p, "creating")
  /\ d = Registered \/ (Holds(p) /\ d = instance[p].definition)
  /\ Goto(p, "idle")
  /\ \/ /\ job[p].number > Len(versions)
        /\ clock < MaxWrites[job[p].number]
        /\ clock' = clock + 1
        /\ versions' = Append(versions,
             [status |-> "DRAFT", definition |-> d, stamp |-> clock'])
        /\ Hold(p, [number |-> job[p].number, status |-> "DRAFT",
                    definition |-> d, stamp |-> clock'])
     \/ /\ job[p].number <= Len(versions)
        /\ UNCHANGED <<clock, versions, instance>>
  /\ UNCHANGED <<bound, cache, relaxed, dirty>>

\* update_version, with a replacement that passed its validation.
Update(p, d) ==
  /\ At(p, "idle") /\ Holds(p)
  /\ instance[p].status = "DRAFT"
  /\ Save(p, [instance[p] EXCEPT !.definition = d], "saving")
  /\ UNCHANGED cache

\* The application assigns the definition of its instance, a draft or not,
\* and saves it.
Edit(p, d) ==
  /\ At(p, "idle") /\ Holds(p)
  /\ Save(p, [instance[p] EXCEPT !.definition = d], "editing")
  /\ UNCHANGED cache

\* Variant: the snapshot is not validated.
PublishableAlways(p) == TRUE

Publishable(p) == Usable(p, instance[p])

Publish(p) ==
  /\ At(p, "idle") /\ Holds(p)
  /\ instance[p].status = "DRAFT"
  /\ Publishable(p)
  /\ Remember(p, instance[p])
  /\ Save(p, [instance[p] EXCEPT !.status = "PUBLISHED"], "saving")

Retire(p) ==
  /\ At(p, "idle") /\ Holds(p)
  /\ instance[p].status = "PUBLISHED"
  /\ Save(p, [instance[p] EXCEPT !.status = "RETIRED"], "saving")
  /\ UNCHANGED cache

-----------------------------------------------------------------------------
(* ensure_workflow_version.                                                *)

Ensure(p) ==
  /\ At(p, "idle")
  /\ Active = 0
  /\ Goto(p, "ensuring")
  /\ UNCHANGED <<database, instance, cache>>

CreateFirst(p) ==
  /\ At(p, "ensuring")
  /\ \/ /\ versions = <<>>
        /\ MaxVersions > 0 /\ clock < MaxWrites[1]
        /\ clock' = clock + 1
        /\ versions' = <<[status |-> "PUBLISHED", definition |-> Registered,
                          stamp |-> clock']>>
        /\ Hold(p, [number |-> 1, status |-> "PUBLISHED",
                    definition |-> Registered, stamp |-> clock'])
        /\ Doing(p, "pinning", 1)
     \/ /\ versions # <<>>
        /\ Goto(p, "losing")
        /\ UNCHANGED <<clock, versions, instance>>
  /\ UNCHANGED <<bound, cache, relaxed, dirty>>

\* The loser takes the winner's version, or raises when there is none.
Lose(p) ==
  /\ At(p, "losing")
  /\ \/ Active # 0 /\ Doing(p, "pinning", Active) /\ Hold(p, Load(Active))
     \/ Active = 0 /\ Goto(p, "idle") /\ UNCHANGED instance
  /\ UNCHANGED <<database, cache>>

Pinned(n) == [o \in Objects |-> IF bound[o] = Unversioned THEN n ELSE bound[o]]

\* _bind_legacy_executions
Pin(p) ==
  /\ At(p, "pinning")
  /\ bound' = Pinned(job[p].number)
  /\ Goto(p, "idle")
  /\ UNCHANGED <<versions, clock, relaxed, dirty, instance, cache>>

-----------------------------------------------------------------------------
(* start_execution: resolve the version, then insert the execution.        *)

Starting(p, n, lenient) ==
  job' = [job EXCEPT ![p] =
            [phase |-> "starting", number |-> n, lenient |-> lenient]]

ResolveDefault(p) ==
  /\ At(p, "idle")
  /\ Starting(p, Active, FALSE)
  /\ UNCHANGED <<database, instance, cache>>

\* Variant: the status is not looked at.
SelectableAlways(x, lenient) == TRUE

Selectable(x, lenient) == x.status = "PUBLISHED" \/ lenient

\* An explicit version: a number, which is looked up, or an instance.
ResolveGiven(p, x, lenient) ==
  /\ At(p, "idle")
  /\ x.number # 0
  /\ Usable(p, x)
  /\ Remember(p, x)
  /\ Selectable(x, lenient)
  /\ Starting(p, x.number, lenient /\ x.status # "PUBLISHED")
  /\ UNCHANGED <<database, instance>>

\* One execution of the workflow per object, by the unique constraint.
Create(p, o) ==
  /\ At(p, "starting")
  /\ Goto(p, "idle")
  /\ \/ /\ bound[o] = NotStarted
        /\ bound' = [bound EXCEPT ![o] = job[p].number]
        /\ relaxed' = IF job[p].lenient THEN relaxed \cup {o} ELSE relaxed
     \/ /\ bound[o] # NotStarted
        /\ UNCHANGED <<bound, relaxed>>
  /\ UNCHANGED <<versions, clock, dirty, instance, cache>>

-----------------------------------------------------------------------------
Restart(p) ==
  /\ job' = [job EXCEPT ![p] = Idle]
  /\ Hold(p, NoInstance)
  /\ cache' = [cache EXCEPT ![p] = EmptyCache]
  /\ dirty' = [dirty EXCEPT ![p] = {}]
  /\ UNCHANGED shared

\* The application assigns the definition of its instance without saving it.
Assign(p, d) ==
  /\ p \in Unsaved
  /\ At(p, "idle") /\ Holds(p)
  /\ Hold(p, [instance[p] EXCEPT !.definition = d])
  /\ Keep(p, instance[p])
  /\ UNCHANGED <<shared, cache, job>>

\* The database refuses a statement: nothing is written, and the instance
\* that was to be saved stays changed.  The UPDATE of save() has stamped it.
Fail(p) ==
  /\ p \in Unsaved
  /\ ~At(p, "idle")
  /\ Goto(p, "idle")
  /\ \/ ~Saving(p) /\ UNCHANGED <<instance, clock, dirty>>
     \/ Saving(p) /\ Keep(p, instance[p]) /\ UNCHANGED <<instance, clock>>
     \/ /\ Saving(p)
        /\ clock < MaxWrites[Len(versions)]
        /\ clock' = clock + 1
        /\ Hold(p, [instance[p] EXCEPT !.stamp = clock'])
        /\ UNCHANGED dirty
  /\ UNCHANGED <<versions, bound, relaxed, cache>>

Manage(p) ==
  \/ \E n \in DOMAIN versions : Fetch(p, n)
  \/ Store(p) \/ Draft(p) \/ Publish(p) \/ Retire(p)
  \/ \E d \in Snapshots : Insert(p, d) \/ Edit(p, d)
  \/ \E d \in Definitions : Update(p, d)
  \/ Ensure(p) \/ CreateFirst(p) \/ Lose(p) \/ Pin(p)

Serve(p) ==
  \/ ResolveDefault(p)
  \/ \E lenient \in BOOLEAN :
       \/ ResolveGiven(p, instance[p], lenient)
       \/ \E n \in DOMAIN versions : ResolveGiven(p, Load(n), lenient)
  \/ \E o \in Objects : Create(p, o) \/ Use(p, o)

Next ==
  \E p \in Processes :
    \/ Manage(p) \/ Serve(p) \/ Restart(p) \/ Fail(p)
    \/ \E d \in Snapshots : Assign(p, d)

Spec == Init /\ [][Next]_vars

-----------------------------------------------------------------------------
Entry == [stamp : Nat, workflow : Definitions]

TypeOK ==
  /\ versions \in Seq(Row) /\ Len(versions) <= MaxVersions
  /\ bound \in [Objects -> {NotStarted, Unversioned} \cup DOMAIN versions]
  /\ clock \in Nat
  /\ instance \in [Processes -> Instance]
  /\ cache \in [Processes -> [1..MaxVersions -> Entry]]
  /\ job \in [Processes -> [phase : Phases, number : Numbers, lenient : BOOLEAN]]
  /\ relaxed \subseteq Objects
  /\ dirty \in [Processes -> SUBSET Numbers]

(* docs/versioning.md: once a version is published its definition is       *)
(* fixed, and it can only be retired.                                      *)
PublishedFixed ==
  [][\A n \in DOMAIN versions : versions[n].status # "DRAFT" =>
       /\ versions'[n].definition = versions[n].definition
       /\ versions'[n].status \in {versions[n].status, "RETIRED"}]_vars

(* publish_version is the final gate: whatever was saved into drafts, and  *)
(* whatever the caches hold, only snapshots that can be rebuilt are ever   *)
(* available to new executions.                                            *)
PublishedValid ==
  \A n \in DOMAIN versions :
    versions[n].status # "DRAFT" => versions[n].definition # Malformed

(* A cache makes a process act on another definition than the row holds    *)
(* only where an instance of that process was left with changes that were  *)
(* not saved, for it still has the stamp of the row, and only until the    *)
(* row is written again.  The edits of other processes never do, although  *)
(* nobody tells it of them; nor, unless the database refuses its writes or *)
(* the application does not save, does any edit of a draft.                *)
ServesStored ==
  \A p \in Processes : \A n \in DOMAIN versions :
    WorkflowOf(p, Load(n)) # versions[n].definition =>
      n \in dirty[p] /\ (p \in Unsaved \/ versions[n].status # "DRAFT")

(* Unless the caller opted in, an execution is bound to a version that was *)
(* published, however old the instance it was started with.                *)
StartedFromPublished ==
  \A o \in Objects \ relaxed :
    bound[o] > 0 => versions[bound[o]].status # "DRAFT"

-----------------------------------------------------------------------------
Published ==
  INSTANCE VersionHistory WITH
    history <- [n \in DOMAIN versions |->
      [status |-> versions[n].status, definition |-> versions[n].definition]]

(* The rows go through the life the versions of a workflow are documented  *)
(* to have, and the executions stay bound to them.                         *)
ImplementsHistory == Published!Spec
=============================================================================
