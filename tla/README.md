# Formal model of django-workflow-kit

TLA+ specifications of the engine of django-workflow-kit, the TLC runs that
check them on small instances, and machine-checked proofs of the properties
that matter most, for every value of the constants. Source paths below are
relative to `workflow_kit/`, documentation paths to the repository.

## 1. The system

A *workflow definition* (`engine/workflow.py`) is a graph of states and named,
conditional, permissioned transitions, with an approval requirement per state.
An *execution* binds one business object to a definition and moves through it.
There is no server: the engine is a library that request handlers, background
jobs and threads call against a shared database.

| Component | State it keeps | Operations | Meets |
|---|---|---|---|
| transition execution (`engine/execution.py`, `engine/workflow.py`, `models/execution.py`) | `WorkflowExecution`: state, completion, initiator, version | start, get, execute a transition, list and test actions | locks the row; calls effects; emits events |
| approval engine (`approvals/`, `engine/effects.py`, `models/approval.py`, `models/delegation.py`) | `Approval` slots, `WorkflowDelegation` grants | approve, reject, delegate, revoke, escalate, list pending and overdue | runs the step's transition when a vote settles it |
| audit trail (`audit/`, `models/history.py`, `timeline/`) | append-only `WorkflowEvent` rows | record, read | written in the same transaction as the change |
| domain events (`events/`) | the process-wide `_collector`, handler registry | capture, emit, dispatch, subscribe | handlers call back into the engine |
| versioning (`engine/versioning.py`, `models/version.py`) | `WorkflowVersion` snapshots, a per-process cache | create, update, publish, retire, ensure, resolve at start | executions are bound to a version |
| definition algorithms (`engine/introspection.py`, `validation.py`, `simulation.py`, `explain.py`, `graph.py`) | none | reachability, paths, validation, what-if | read a definition |
| conditions, permissions | none | evaluate against object, actor | called under the row lock |
| automation (`automation/`, `models/automation.py`) | `AutomationRule` rows, the action registry, the installed flag | install, fire, register actions | subscribes to all events, actions call the engine back |
| notifications (`notifications/`) | the router's entries and subscriptions | register, install, uninstall, clear, send | subscribes a closure per entry |
| observability (`observability.py`, `apps.py`) | the installed logger | install, uninstall, `ready()` | subscribes to all events |
| comments, attachments | their rows | add, list, delete | write the trail, emit events |
| analytics (`analytics/`) | none | counts, durations, SLA, escalations, Prometheus text | reads executions, approvals and trail |
| REST API, dashboard, admin, CLI | none of their own | list, render, forward | call the above |

**Hard behaviours, and what makes each component correct.**

* *Approvals.* A step's outcome is recomputed from rows that votes, escalation,
  cancellation and earlier stays in the step have left behind. Correct means:
  nobody votes twice or without the right, decided rows never change, a step
  that can still be decided has somebody to decide it, and a step is left only
  the way its requirement says.
* *Transactions.* Several processes act on one execution; a row lock, where the
  backend has one, orders them; a crash may fall between any two writes. Correct
  means: requests behave as if each took effect at once, on what the earlier
  ones left, and the audit trail accounts for the state.
* *Events.* Blocks nest, handlers re-enter, threads share one global. Correct
  means: nothing is delivered for what was rolled back, everything else is, in
  order, once.
* *Versioning.* Instances go stale, checks and writes are separate statements.
  Correct means: a published definition never changes under an execution.
* *Algorithms.* Correct means: what they say of a definition is borne out by the
  executions that run it, on cyclic and disconnected graphs too; and what users
  are told they can do is what the engine lets them do.
* *Reports.* Computed from rows that one call stamps at different times, by
  queries written separately. Correct means: time is neither lost nor counted
  twice, and reports that count the same thing agree.
* *Handlers.* They subscribe, unsubscribe, clear, raise and dispatch while they
  are being called. Correct means: an event is heard by all that listened when it
  happened, nothing is subscribed twice or beyond recall, and no rule disturbs
  another.

The `hazards` of `PROJECT.json` list these at the line where each bites.

## 2. Modules

| Module | Models | Status |
|---|---|---|
| `ExecutionLifecycle` | abstract: what an execution promises | done |
| `ApprovalEngine` (+`MC`) | one execution, all operations of the approval engine | done |
| `ApprovalEngine_proofs` | types, lifecycle, safety, ballots, for any definition | done |
| `AtomicExecution` | abstract: at-most-once, all-at-once requests | done |
| `ExecutionTransactions` (+`MC`) | overlapping requests, locks, crashes, dispatch after commit | done |
| `ExecutionTransactions_proofs` | proofs about it | done |
| `EventCapture` | capture, emit, dispatch in one process | done |
| `EventCapture_proofs` | types for any threads, delivery for one thread | done |
| `VersionHistory` | abstract: the life of versions and bindings | done |
| `Versioning` (+`MC`) | drafts, publication, stale instances and caches, binding | done |
| `Versioning_proofs` | publication is final when saves do not overlap, refused writes included | done |
| `DefinitionAnalysis` | introspection, validation, simulation, against executions | done |
| `ActionInspection` | action queries, explanations, REST answers, work lists, against executions | done |
| `InspectionMC` | instances of both | done |
| `Inspection_proofs` | the algorithms, the answers and the work list, on any graph | done |
| `AuditedExecution` | the engine with its audit trail, row times, comments, attachments | done |
| `Analytics` | the reports over an audited execution | done |
| `ReportsMC` | instance of both | done |
| `Analytics_proofs` | refinement of the engine, the trail, and every property of the reports | done |
| `RuleConditions` | conditions of automation rules | done |
| `EventHandlers` (+`MC`) | dispatcher, router, logger, automation rules and actions | done |
| `EventHandlers_proofs` | subscriptions, delivery and rules, for any number of each | done |
| `Listing` | the elements at some positions of a list, in order | done |
| `Listing_proofs` | what it returns; induction on the naturals in set form | done |

`DefinitionAnalysis`, `ActionInspection` and `AuditedExecution` extend
`ApprovalEngine`, and `Analytics` extends `AuditedExecution`: what they compute is
held against the executions of the same specification the theorems are about.

### ApprovalEngine

State: the columns of one `WorkflowExecution` that steer the engine
(`current`, `completed`, `initiator`), its `Approval` and `WorkflowDelegation`
rows in primary-key order, the `transition_executed` audit rows (`path`), the
definition the execution is bound to and the data of the business object.

| Action | Code |
|---|---|
| `Start` | `start_execution` |
| `Execute` | `execute_transition`, with `resolve_transition` and `is_authorized` |
| `Approve`, `Reject` (`Decide`) | `_decide`: candidate slot, authority, vote, outcome, and the transition the outcome runs |
| `ApplyTransition` | `apply_transition` and `_create_step_approvals`, in whichever call runs it |
| `Delegate`, `Lapse` | `delegate_approval`; `revoke` and expiry |
| `Escalate` | `escalate_execution` |
| `EditObject` | the application saving the object between calls (external) |

A call that raises rolls back, so it is an action that is not enabled: a vote
whose transition is blocked, ambiguous, forbidden, has a condition that cannot be
evaluated or leads to a step whose approvers cannot be resolved leaves no trace. So
does an escalation to an approver that cannot be resolved, which nothing models.

`Definitions` are those of one workflow: the registered one and those of versions.
`start_execution` takes the first state from the workflow its caller passes and binds
a version whose definition may be another; every later call resolves against that
version. `Start` chooses both independently, hence `Origin`, the state an execution
began in, is not always `definition.initial`. All definitions declare all `States`;
a state that only one of them has is, in the others, one without transitions.

Abstractions. The conditions of a transition are their verdict for each data value:
they pass, block, or raise (`ConditionEvaluationError`). A permission is the set of
actors that pass it, an approver specification the sequence of user sets it resolves
to for each data value that it is `resolvable` for. Group membership is fixed.
Conditions that consult the acting user are outside the model, and so are exceptions
of an application's permission providers and approver resolvers of other kinds. Reasons,
labels, metadata, SLA deadlines and timestamps are left out; a deadline decides
nothing in the engine. `visit` of a slot is history: no action reads it. The
definition is fixed per execution, which is what version binding is for.

### ExecutionTransactions

One request per process. `Call` is `get_execution`; `Read`, `Refuse`, `Write`, `Commit`
are the shape that `execute_transition`, `_decide`, `delegate_approval` and
`escalate_execution` share, and `Operation` is what the operation makes of the rows it
guards (in `ApprovalEngine`, one action); `Insert` and `RecordStart` are the two
autocommitted writes of `start_execution`; `Dispatch` is the exit of `capture`.
`DatabaseError` may answer any statement, a lock that times out included: a transaction
rolls back, but a start that fails in its second write leaves the row of the first.
`Crash` may fall anywhere. `locking` chooses the backend: row locks, or none (SQLite,
where `select_for_update` is ignored and the database refuses a write based on an
outdated read). The database is external: it is modelled from what the code relies on.
The setting `ATOMIC_TRANSITIONS` is at its default.

### EventCapture

The global `_collector`, every list it ever referred to, and per thread the
stack of blocks it is in and lists it is dispatching. `Enter` and `Leave` are
the two halves of `capture`, `Emit` is `emit`, `Dispatch` and `Finish` are the
loop over the captured events, or the direct dispatch of one. While a handler
runs, its thread may enter blocks and emit. The loop reads the live list, as
Python's `for` does. Whether a handler raised is a choice of `Dispatch` that
changes nothing, because `dispatch` isolates it.

### Versioning

The `WorkflowVersion` rows of one workflow, the version each object's execution
is bound to, and per process the instance it holds, its `_VERSION_CACHE` and
the operation it is in the middle of. An instance is a copy of a row, possibly
outdated; every operation reads the instance's status and definition, as the
code does, and ends in `Save` (the fresh read and the checks of `save()`) and
`Store` (the write of all columns). `Edit` assigns a definition to whatever instance
is in hand, a published or retired one too, as nothing in the code prevents; the check
then refuses, and the instance keeps the definition and the `updated_at` it has
(`Keep`). `dirty` is history: the versions whose present row an instance of the process
had read when it was left so. `Draft`/`Insert`, `Ensure`/`CreateFirst`/
`Lose`/`Pin` and `ResolveDefault` or `ResolveGiven`/`Create` are split where
the code issues separate statements. `Restart` ends a process anywhere. `Assign`
sets the definition of an instance and does not save it; `Fail` is the database
refusing the next write of an operation, which leaves the instance as the code
had changed it, with `updated_at` set anew if `save()` had got as far as that.

Abstractions. A snapshot is one of `Definitions`, or `Malformed`: what
serialization stores of conditions, permissions and approvers is left out, only
whether a workflow can be rebuilt remains. `updated_at` is a stamp that no two
writes share; two saves of one row within the resolution of the clock are
outside the model. An operation that raises before it changes anything is an
action that is not enabled. `Overlapping` says whether the check of one save may
fall between the check and the write of another, `Unsaved` for which processes the
database may refuse writes and the application leave assigned definitions unsaved. The
application assigns definitions, never statuses. Deploying a new registered
definition is not modelled: `Registered` is fixed.

### DefinitionAnalysis

No state of its own. `ReachableStates`, `SimplePaths`, `Simulate`, `SimulateAll`,
`StuckStates`, `Metrics` and `Findings` are the functions of
`engine/introspection.py`, `simulation.py` and `validation.py` on the definitions
of `ApprovalEngine`, as recursive functions. A breadth-first queue is a set that
grows a layer at a time; a list in definition order is a set. A gate function of a
dry run is the set of transitions it passes. The text of findings, their order,
and the findings about what the model has no name for (labels, unknown roles) are
left out. What they say starts from `definition.initial`, or, where the code takes the
state to start from as an argument, from the `Origin` of the execution.

### ActionInspection

No state of its own. `AvailableActions` and `CanTransition` are the methods of
`Workflow`, `Explanation` is `engine/explain.py`, `Answer` is what the view
`transition` and the exception mapping of `api/exceptions.py` make of the first
error that `execute_transition` or `_decide` raises (`ExecuteError`, `VoteError`,
in the order of the code's checks; `RunError` includes what `apply_transition` raises
after them), `PendingApprovalsFor` and `DelegatedTo` are the
work list of the dashboard. An error is its class; messages are left out. Each of
these is written in the code on its own, and so it is here: they share nothing but
the rows.

### AuditedExecution

Adds to `ApprovalEngine` the clock, `started_at` and `completed_at`, the `trail` of
`WorkflowEvent` rows, the times of the approval rows, and the comments and
attachments. Each action is one of `ApprovalEngine` conjoined with the rows its
handler writes, in the order it writes them: `Transit`, `Vote` (with
`Cancellations` and `Move` when it settles), `Forward`, `Withdraw`, `Raise`. A start is
two transactions, `Begin` for the row and `RecordStart` for its audit row: other calls
may come between them, and the second may never come. A call
may take up to `MaxLag` ticks, and what it stamps first (a decision, completion) is
then earlier than its audit rows. `Comment` and `Attach` commit the row and its
audit row one after the other, so a process may stop between. `Tick` lets time
pass. Texts, actors and metadata other than the approval's id are left out.

### Analytics

Operators on that state, one for each report: `ExecutionMetrics`, `CompletionTimes`,
`StateDurations`, `Bottlenecks`, `ApprovalMetrics`, `DecisionDurations`,
`ApprovalTotals`, `SlaMetrics`, `EscalationsByState`, `EscalationDelays`, and the
`Exposition` of counters. The scope is one execution; filters by workflow, version and
date select executions and rows whole and are left out. So is the filter by the state an
execution is in, which it leaves as it moves: the samples declared as counters would
fall under it. An average is kept as its total and count, a comparison of averages is
multiplied out.

### EventHandlers and RuleConditions

The dispatcher's lists, the router's entries and subscriptions, the flags of the
logger and of the automation engine, the action registry, the enabled rules, and
the stack `frames` of the dispatch loops and rule evaluations the thread is in.
`Emit` copies the list of handlers, `Call` is an iteration of the loop, `Fire` and
the hook read the rules, `Consider`, `Act`, `Raise` and `Finish` are the evaluation
of one rule. `InCode` says where application code runs: outside all loops, in its
handlers and in its actions; there every operation may be called, so subscriptions
and rules change under the loops. Handlers are told apart as Python does: closures
and loggers are new each time, a function of the application is itself.
`RuleConditions` is `automation/evaluate.py`: clauses and the coercion of both
sides, which truncates fractions, lowers words, lets an infinite number raise and
turns incomparable values into a failed clause. Numbers are counted in tenths and
words by their order. What a provider's `send` comes to is a choice among what its
settings allow; messages and signatures are left out.

## 3. Runs

| Run | Question | Result |
|---|---|---|
| `approvals` | does the approval engine keep its promises? | holds |
| `escalated_quorum` | does the escalation approver decide alone? (docs/approvals.md:158-161) | no: on a quorum step their approval rejects |
| `rework_unanimous` | does an all-of step advance when every slot approves? (docs/approvals.md:115) | no: a rejection of an earlier stay still vetoes |
| `transactions` | do overlapping requests behave as if one after the other, whatever fails? | holds, on both kinds of backend |
| `versions` | do versions live as documented, whatever instances and caches are stale? | holds if saves do not overlap |
| `overlapping_saves` | is a published definition fixed? (docs/versioning.md:16) | not when two saves overlap: nothing is locked, unlike docs/versioning.md:121-124 says |
| `failing_writes` | is a published definition fixed, and what do caches serve, when writes are refused and instances hold what was never saved? | fixed if saves do not overlap; a cache strays from its row only by unsaved changes of its own process |
| `capture_one_thread` | is delivery silent on failure, ordered and complete? | holds |
| `capture_threads` | does a failed block stay silent? (docs/events.md:86-87) | not with two threads |
| `inspection` | do executions bear out what is said about definitions and possible actions? | holds |
| `reports` | do trail and reports account for the execution, and agree with each other? | holds |
| `handlers` | is every event heard, every subscription owned, every rule isolated? | holds |

Properties of `approvals`: `StepGuarded` (an open step always has a pending
slot), `OneVotePerUser`, `DecisionsBacked` (assignment, self-approval policy
and delegation behind each decision), `WaitingBallot` (no unsettled step that
should be settled), `DecisionsFinal`, `CompletedIsFinal`, `BallotHonoured` (a
first, unescalated stay is left only by its rule) and the refinement
`ImplementsLifecycle`. `BallotHonoured` and `WaitingBallot` are about a
*pristine* step because the runs `rework_unanimous` and `escalated_quorum` show
that they fail otherwise.

Properties of `transactions`: `ImplementsAtomic` (refinement of
`AtomicExecution`: at most once, all at once, answered truthfully),
`TrailChained` (each audit record starts where the one before ended, the last
ends at the state), `DeliveredCommitted`, `AnswerAccounts` (a result means that
change, audit record and events are out, once; an exception that none of them is,
except that a start may leave its row behind without the other two) and the liveness
`Answered`.

Properties of `capture_one_thread`: `RolledBackSilent`, `DeliveredInOrder`,
`CollectorIsInnermost` and the liveness `OutermostDelivered`.

Properties of `versions`: `ImplementsHistory` (refinement of `VersionHistory`:
numbers in order, draft to published to retired, definitions change in drafts
only, executions stay bound), `PublishedValid` (publication is the final gate)
and `StartedFromPublished`. They hold with outdated instances because `save()`
compares with the row as it is; `overlapping_saves` is the same specification
without the assumption that this comparison and the write are not interleaved
with another save, and shows a published version turned back into an edited
draft. `failing_writes` lifts the other assumption, that instances hold what they
read or saved: `PublishedFixed` still holds, because it depends on the row alone. Its
other property, `ServesStored`, says how far a cache may be trusted: a process acts on
another definition than the row's only where an instance of its own, with the stamp of
the row as it is, was left with changes that were not saved. In the process whose
writes all succeed and which saves what it assigns, only the refused edit of a
published or retired instance does that. The other properties of `versions` do not hold
there, which is why they are checked and proved without refused writes (section 5 says
how they fail with them).

Properties of `inspection`: `FindingsRespected` (no action that validation calls
ambiguous runs, and no state it calls unreachable is entered, unless the execution began
in one), `CompletionVerified` (the completion check names exactly the traps),
`PathsComplete` and `DryRunFollows` (both from where the execution began),
`InspectionAgrees` (the three answers to "may this user do this now" are one, apart from
two errors it names, and an explanation denies none of them), `AnswersTruthful` (status
200 exactly when the call takes effect, 500 only under ambiguous routing, where a
condition cannot be evaluated, or where the approvers of the next step cannot be
resolved: `ServerErrorsExplained`), the action property `EffectsAnswered` (nothing takes
effect where the answer would have been an error) and `WorkListed` (whoever can vote
finds the work listed).

Properties of `reports`: `TrailAccounts` (the trail alone tells state, completion
and the status of every approval; the start, however late it is recorded, names the
state the first transition left), `SpansConserve` (time per state adds up to the
age or the completion time), `OutcomesPartition`, `ReportsAgree` (breaches, overdue
slots, totals and escalations counted by different queries), `StatisticsSound`
(percentiles, order of statistics, bottlenecks) and the action property
`CountersNeverFall`.

Properties of `handlers`: `SubscriptionsOwned`, `HeardByAll` and `RulesIsolated` (each
rule is considered once; one that fired ran all its actions but those nobody registered,
one that failed ran those up to the action that raised).

**Bounds.** `approvals`: three users, two data values, five states, three
definitions picked at the start, four transitions (enough to leave a step,
enter it again, vote and complete), one escalation and one delegation (enough
for a vote by proxy on an escalated slot). The definitions are chosen so that
each mode, an unreachable quorum, rework, conditional and ambiguous routing, a
condition that raises, approvers that do not resolve, a direct transition out of a
guarded step and an unassigned slot occur; they do not all start in the same state, so
that an execution may begin where its own definition does not.
`transactions`: two starts (one loses), three requests that can each move the
execution (three overlapping readers, two chained moves), one crash at every
possible point; a second crash meets no state the first cannot leave, since
`Crash` only removes a process. `capture_one_thread`: four events and four
lists: three nested blocks, or a block inside a handler inside a block's
dispatch. `versions`: two processes, one definition
and one that cannot be rebuilt, so that an edit has something to change; three writes
while there is one version (draft, publish, and the write of an outdated instance), and
three once there are two (copying, choosing the active version, losing the race for the
first). The processes are interchangeable, hence the symmetry. `failing_writes`: two
definitions and one that cannot be rebuilt, one version and four writes (draft, edit,
publish, and the write of an outdated instance), a refused one that had renewed the
stamp counted (`FewWrites`): refused writes, refused edits and unsaved assignments
multiply what instances may hold, and what the two properties speak of is each version
by itself. Only one of the two processes has its writes refused or leaves changes
unsaved, so that `ServesStored` is tried on both kinds. `inspection`: every
constructible graph of a family over three states (conditional, unconditional and
back arrows, so that loops, traps, unreachable states and ambiguous actions all
occur, with a condition that blocks or raises) and two definitions with approvals, of
which one state's resolve for low amounts only; three moves reach each state and one of
them again. `reports`: those two definitions, a deadline of one tick, a clock of two
ticks and calls of at most one, so that a decision is early, on time or late, and
completion may be stamped before its row; one comment or attachment among three
uploads of which one is acceptable. The constraint `Focus` follows a delegation, or
a note, over the first moves only: what delegations do to votes is the question of
`approvals`, and a report reads their rows no other way than those of a note. It follows
an execution whose start was not recorded at once up to the first tick and the second
move: enough for a record that comes after calls of every kind, while what time does to
reports is tried on those recorded at once.
`handlers`: two events or triggers and four changes, at most four of both together
(`Focus`), three closures or loggers: an event dispatched in a handler of another,
with the lists changed before, during and after; three rules that hold, fail and
raise in their conditions, with actions that exist, vanish and raise. The bounds
`MaxMoves`, `MaxEscalations`, `MaxDelegations`, `MaxEvents`, `MaxLists`,
`MaxCrashes`, `MaxVersions`, `MaxWrites`, `Horizon`, `MaxLag`, `MaxNotes`,
`MaxChanges`, `MaxCreated` occur in guards only. Deadlock checking is
off in the runs whose requests or events are finite: when all are served, a
library that nobody calls has nothing to do.

**Fairness.** `ApprovalEngine` (hence the modules that extend it),
`Versioning` and `EventHandlers` have none: nobody has to vote, to publish or to
emit.
`ExecutionTransactions`: each process weakly fairly goes on with the request it
serves until it answers or crashes; starting a request, crashing and the errors of
the database are not fair. Weak fairness suffices for the lock since each of finitely many requests
locks once. `EventCapture`: a thread that dispatches goes on and the code of a
block ends; this is ordinary sequential execution and assumes that application
code inside blocks and handlers terminates.

## 4. Proofs

All theorems hold for every value of the constants under the named assumptions
of the module: users, states and markers are distinct; a quorum is at least 1, as
`ApprovalRequirement.__post_init__` enforces; a definition has finitely many
states and transitions (`FiniteAssumption`: they are the tuples `Workflow` is
built from); no event is of the type that subscribes to all
(`OccasionsAssumption`); the rules form a list (`RuleBookAssumption`); bounds are
naturals.

* `ApprovalEngine_proofs`: `TypeCorrect`, from lemmas that say what each operator
  on rows returns (`CancelledRows`, `OpenedRows`, `VotedRows`, ...);
  `LifecycleImplemented`, `CompletionFinal`, `StepAlwaysGuarded`, `OneVote`,
  `DecisionsAlwaysBacked`, `DecisionsStayFinal`, `BallotWaits` and
  `BallotAlwaysHonoured`. The first three after `TypeCorrect` rest on the
  invariant `Life`: before the start there are no rows, and an execution is
  completed exactly when it was moved into a terminal state; without it nothing
  rules out a vote on a completed execution. `StepGuarded` is inductive on top of
  it: a vote either leaves a pending slot or settles, and settling opens a slot or
  completes. For the ballots the strengthening says that the rows of a pristine
  step carry the mode and quorum of its requirement (so that the first row, which
  the code consults, speaks for all).
* `ExecutionTransactions_proofs`: `TypeCorrect`, `TrailAlwaysChained`,
  `DeliveredAfterCommit`, `AnswersAccount`, `NobodyEverStuck`,
  `EveryStepAlwaysCounts` and the refinement `AtomicImplemented`. The invariant
  has three parts. `Locked`: a request that validates under a row lock, or has
  written, holds the row, and the row is what it read; without row locks, what
  it read is still the row if nothing was committed since. `Logged`: the phase
  of a request says whether its change is committed. `Trailed`: the trail is
  chained, and empty while there is no row. Under it a commit, or the insertion
  of the row, is the step in which the request takes effect on the row as it
  is; ending is the reply; everything else is a stutter. `Locked` is what makes
  the step right: an operation was computed from an earlier read, and only the
  lock (or the refused write) makes that read current when it is committed.
  `AnswersAccount` adds how far each phase has come: how many events are sent, what
  the answer is, and whether the record is there, which for a start, whose record is a
  transaction of its own, is told by the phase alone (`Progress`). Only a start that was
  answered with an exception may have taken effect, and the refinement asks no more of
  one.
  Two theorems say what liveness rests on. `NobodyEverStuck`: who waits for the row
  waits for a request that can leave its transaction without waiting.
  `EveryStepAlwaysCounts` is the measure of a termination argument: each request has
  finitely many steps left, and what is proved is that some request's number falls
  with every step while no other changes. Together with fairness this is why
  `Answered` holds; the temporal step itself is left to TLC.
* `EventCapture_proofs`: `TypesHold` for any threads; and for a process with one
  thread `CollectorAlwaysInnermost`, `RolledBackAlwaysSilent`,
  `AlwaysDeliveredInOrder` and `NothingEverSkipped`; the second fails with two
  threads (`capture_threads`), and the argument for each rests on the collector being
  this thread's own. The invariant
  has four parts. `Nested`: the thread's stack holds dispatch loops below and
  blocks above, in the order of their creation, each block's parent is the block
  below it, and the collector is the block on top. `Sound`: a dispatched list has
  no parent, holds its own block's events or the single one emitted outside every
  block, in order, and none that lies in another block. `Heard`: what was delivered
  of a block is what its loop handed out so far. `Waiting`: an event emitted outside
  every block is delivered before anything else happens. The last two are what
  order needs: the property alone says nothing of the events still to come.
  `NothingEverSkipped`, the safety under `OutermostDelivered`, says that each event of a
  successful outermost block was delivered, or the loop that has yet to come to it is
  under way; it is inductive with one more fact, that nothing was handed out of
  an open block (`Unsent`); that a list does not grow once its loop has begun is
  `Nested` again.
* `Versioning_proofs`: `TypesHold` for all instances; assuming that no two saves
  overlap (`~Overlapping`), `PublishedStaysFixed`; and assuming besides that the
  database refuses no write and the application saves what it assigns (`Unsaved = {}`;
  `save()` may still refuse an edit), `PublishedAlwaysValid`,
  `AlwaysStartedFromPublished` and the refinement `HistoryImplemented`. The run
  `overlapping_saves` shows that the first assumption is needed; that the second is,
  section 5 says. `StoredAlwaysServed` needs neither. `PublishedStaysFixed`
  has an invariant of its own, `Reviewed`: at most one process is saving, and what
  its save() checked against the row still holds of the row. It says nothing of
  instances and caches, and so survives refused writes. The invariant of the next
  three says of each
  process what it may know: its instance is of a time that has been, and an instance of
  a draft as recent as its row agrees with it, and so does a cache entry; while it
  saves, the row is still what the check compared with. With `OneSaver` this turns the
  check of `save()` into a guarantee about the write. It says nothing of instances
  of published versions, which may hold anything (a refused edit). `StoredAlwaysServed`
  has the invariant `Served`: of a version not in `dirty`, whatever carries the stamp of
  the row tells what the row holds, and what is in `dirty` is a draft only in a process
  of `Unsaved`.
* `Inspection_proofs`, for every definition graph. `ReachableStates`,
  `SimplePaths` and `Simulate` are recursive functions, and each theorem starts by
  giving one a closed form: the function that maps a set of states to the least
  set around it that is closed under transitions (`Closure`) satisfies the
  equation of the search, and is the only one that does, by the finite number of
  states left to visit; path enumeration reports the walks that repeat no state
  and stop at their first end (`SimplePathsAre`); a dry run goes along with a walk
  until an action does not resolve (`DryRun`). Walks are what connects the two
  sides: a state is reachable exactly when a walk leads to it, a walk that is not
  simple can be cut short along its own transitions, a simple one has fewer
  transitions than there are states, and by the invariant `Journey` the path of
  an execution is a walk of its definition, from its `Origin`, whose every action
  resolved without ambiguity. `FindingsAlwaysRespected`, `CompletionAlwaysVerified`,
  `PathsAlwaysComplete` and `DryRunAlwaysFollows` follow; that a stuck state traps
  needs `Life` besides, which says that completion is standing in a terminal
  state. `InspectionAlwaysAgrees` and `WorkAlwaysListed` need only the types, and
  that what leaves a state is finite: the code asks for a count, the engine for
  the one transition. `SuccessIsPermission` says of the REST answers what
  `AnswersTruthful` says with `ENABLED`: the answer is 200 exactly where the guards of
  the call hold, written out as `VoteCounts`. It needs that a user has one slot to
  decide and one way to fill it (`OneBallot`), since the answer is computed for a
  chosen one and the action takes any; `EffectsAlwaysAnswered` and
  `ErrorsAlwaysExplained` follow from the same lemmas.
* `Analytics_proofs`: `EngineImplemented`: each action of the audited engine is one of
  the engine, or leaves its variables alone, so the theorems above hold of it.
  `TrailAlwaysAccounts` rests on the invariant `Life /\ Accounted`: the last row about a
  slot tells its status, the last transition recorded leads to the current state,
  completion is recorded once, under the name of the transition that brought it, the
  recorded start and the first recorded transition name the state the execution began
  in, and no note is recorded that there is not. One call appends several rows (a vote,
  the cancellations it entails, the move, the completion), so the lemmas say what each
  part adds to what is last about whom. `OutcomesAlwaysPartition` and
  `CountersAlwaysGrow` follow from it: the first because the completion row carries the
  name of the move, the second because rows are only appended, a decided or cancelled
  slot stays so, and an execution completes once. `RanksAlwaysSound`: `Rank` is on the
  list and within one of the nearest rank for every sample size (the run evaluates sizes
  up to 120). The code multiplies by a float; its product rounds as the exact one does
  for all sizes up to two million, which was compared by computation and is not part of
  the proof.

  The other reports read times and escalations too, so their invariant is
  `Life /\ Accounted /\ Clocked /\ EscalationsTold` (`AlwaysReckoned`). `Clocked`: the
  trail is in the order of its times, between the start and the present, and the
  last move lies within `MaxLag` of the completion. `EscalationsTold`: escalation rows
  and slots that escalation created correspond one to one, and each pair carries
  one time. The reports add up with folds, whose order of evaluation is a
  `CHOOSE`; the lemmas give a sum a meaning without one, as the number of its units
  (`Units`: k of them for an element with the value k), and show by induction on
  the size of the set that whatever satisfies the fold's equation is that number
  (`SumCounts`), and that something does (`SumExists`). Counts by different
  queries then agree because there is a one-to-one map between what they count
  (`SameSize`). `ReportsAlwaysAgree` and `SpansAlwaysConserve` follow: the spans
  telescope, the empty ones left out (`SpansCount`), and the span that begins with
  the move to the terminal state is empty, because that move is dated after
  `completed_at`. `StatisticsAlwaysSound`: a sorted list exists and is in order
  (`OrderedSorted`), the ranks of the median and the percentiles are in order for
  every size (`RanksInOrder`), and averages scaled by the product of all counts
  compare as the averages do (`BottlenecksSound`).
* `EventHandlers_proofs`: `AlwaysSound`, the inductive invariant. It has two parts.
  `Registered`: nobody but functions of the application is on a list twice; a
  closure on a list is one the router can take back, the logger on a list is the
  one installed, the hook is on one only while its flag is up. `SoundFrames`: each
  loop on the stack, by itself, accounts for the list it copied (those called and
  those still to be called are those who listened, in their order; the rules
  considered, being run and to come are the rules read, and what ran of a rule lies
  before what is still to run). A frame speaks of its own copy and never of the
  lists, so what the top of the stack changes leaves those below sound: this is what
  makes re-entrant handlers harmless. `SubscriptionsAlwaysOwned`,
  `AlwaysHeardByAll` and `RulesAlwaysIsolated` follow.
* `Listing_proofs`: the library's induction theorems take an operator as a
  parameter, which the provers cannot instantiate, and say nothing of `SelectSeq`
  or the folds. Two lemmas state induction on the naturals about sets instead
  (`LeastNatural`, `EveryNatural`, from the well-foundedness of inclusion on finite
  sets); filters in the models are `At`, which takes the elements at some positions
  in order, and `AtTakes` says what it returns.

Only model-checked: liveness (`Answered`, `OutermostDelivered`), since liveness
under fairness is out of the prover's reach; `AnswersTruthful`, because it compares
the answers with `ENABLED` (its content is proved in `SuccessIsPermission`, apart from
the fact that a guarded action has a next state); and the violation runs. Every
other invariant and action property of the passing runs has a theorem. TLC checks
`TypeOK` of the engine; of the others types are theorems, which every safety proof
here rests on.

## 5. Disagreements of code and documentation

Four are runs, listed in the table above and under `findings`. Others were met
while modelling; the models do what the code does, and no run is spent on them:

* `engine/versioning.py:497` sets the status of the caller's instance before `save()`.
  When the database refuses the write, the row stays a draft and the instance says
  PUBLISHED: `start_execution` binds an execution to the draft, and a second
  `publish_version` returns the instance as published. With `Unsaved` not empty TLC
  finds the former against `StartedFromPublished`; docs/versioning.md:24 says of a
  draft "Cannot start new executions".
* `engine/versioning.py:325`: the cache is looked up by primary key and `updated_at`
  without regard to the definition. A draft that was rebuilt once, and was then given
  another definition but not saved, passes the check of `publish_version` on the old
  one, and `save()` stores the new one as published; engine/versioning.py:484-486 says
  that publishing validates the snapshot and "rejects invalid definitions". With
  `Unsaved` not empty TLC refutes `PublishedValid`, by this path and by a shorter one: an
  instance left PUBLISHED by a refused write is given another definition and retired.
* `models/version.py:154`: a definition assigned to a published instance is refused, but
  the instance keeps it, with the `updated_at` of the row.
  `start_execution(version=instance)` then rebuilds that definition and caches it
  (engine/versioning.py:325-328), and the process serves it to every execution bound to
  the version until it ends or the row is written again; docs/versioning.md:15-16 says
  "once a version is published its definition is fixed". The row is fixed
  (`PublishedFixed`); `ServesStored` states what a process may act on.
* `engine/execution.py:67`: the first state is the `initial` of the workflow the caller
  passes, while every later call resolves against the version that was bound, and
  nothing compares the two. When the registered definition has moved its initial state,
  or a version is given explicitly, an execution may begin in a state that its own
  definition calls unreachable, or has no transitions from: then it never completes.
  docs/versioning.md:6-7 says that an execution is "attached to the definition version
  it started with". `ImplementsLifecycle`, `FindingsRespected`, `PathsComplete` and
  `DryRunFollows` say what remains.
* `engine/versioning.py:547`: a start resolves its version with a plain read and
  creates the execution later, so a version retired in between starts it;
  docs/versioning.md:121-124 says that locks on the version's row do not "let a retired
  version start new executions".
* `engine/versioning.py:388`: `ensure_workflow_version` reads that there is no active
  version; a draft with another definition may take the number and be published before
  it creates version 1, and the executions started without a version are pinned to that
  one. engine/versioning.py:402-404 says that pinning "guarantees they keep the
  definition they started with".
* `events/emitter.py:55`: on exit of a nested `capture()` its list is neither dispatched
  nor merged into the parent's, so the events of an engine operation made inside an
  application's own block are lost although both succeed; emitter.py:39-40 says that
  "On normal exit the captured events are dispatched".

* Direct transitions leave pending slots behind, which nobody can decide
  (docs/approvals.md:36), and a history need not begin with `workflow_started`, or
  contain it, when another request gets in between the two writes of a start, or the
  second fails (docs/audit.md:26-28).
* `engine/explain.py:158` drops the candidates the actor is not authorised for
  before it counts them, the engine counts first: an action may be explained as
  applicable that `execute_transition` refuses as ambiguous
  (`InspectionAgrees` states the difference). The API answers that error with 500, as
  it does a condition that cannot be evaluated and an approver that cannot be resolved:
  `api/exceptions.py:42-67` maps neither `WorkflowConfigurationError` nor
  `ConditionEvaluationError`.
* `analytics/sla.py:246` measures an escalation's delay from the slot the
  escalation has created, so it is always the length of the call
  (`ReportsAgree` states it).
* `automation/engine.py:67`: the rules are read lazily outside the `try`, so
  `fire` raises when they cannot be read, unlike its docstring says.
* `notifications/router.py:50`: providers registered after `install()` are
  subscribed only after an `uninstall()`; docs/notifications.md:82 says that
  `install()` subscribes every registered pair. The automation hook's flag survives the
  dispatcher's `clear()`, after which `install()` does nothing.
* `automation/evaluate.py:19-34`: numbers are truncated before they are compared
  (2.5 is not greater than 2), and `contains` looks for a coerced value among values
  that are not.
* `conf.py:18`: `NOTIFICATIONS_ENABLED` is read nowhere. `events/types.py:41`:
  `EventType` is said to accept any string; creating the member raises `TypeError`.

## 6. Not modelled

Pages, serializers, the admin, the command line and the timeline render rows or forward
to the operations above; of the API and the dashboard, the answers and the work list are
in `ActionInspection`. `engine/parse.py` and `graph.py` are conversions. Condition and
permission classes are represented by the sets of data and actors that pass them. Of
analytics, `version_analytics`, the filters and the grouping over several executions are
left out: they select rows and apply the same formulas. Email and webhook messages,
signatures, attachment storage and log records are I/O. Comments and attachments touch
nothing the engine reads; the events they emit are those of `EventCapture`. The
migration that creates version 1 runs before the system does. A process that stops after
version 1 was created and before the unversioned executions are pinned leaves them
unpinned for good: the next call of `ensure_workflow_version` finds the version and
returns it. The steps are in `Versioning`, and no property speaks of them. The
revocation of a delegation between a vote's read and its commit is not modelled. Nor is
a transaction of the application around the engine's, which may roll back after the
engine's events were dispatched; `events/emitter.py:14-15` refers providers to
`transaction.on_commit`. In `ApprovalEngine` an expired delegation is a `Lapse` at an
arbitrary moment; only `AuditedExecution` has a clock.
