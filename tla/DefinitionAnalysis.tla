------------------------- MODULE DefinitionAnalysis -------------------------
(***************************************************************************)
(* What the package computes about a definition without running it:        *)
(* reachable states, cycle-free paths, dry runs, the completion check and  *)
(* the validation report; and, as invariants of ApprovalEngine, that the   *)
(* executions which do run the definition bear those answers out.  The     *)
(* lists the code returns in definition order are sets here; a transition  *)
(* without conditions is one that fires for all Data, and all definitions  *)
(* declare all States.                                                     *)
(***************************************************************************)
EXTENDS ApprovalEngine

TransitionsFrom(w, s) == {t \in w.transitions : t.source = s}

TransitionsFor(w, s, action) == {t \in TransitionsFrom(w, s) : t.name = action}

Conditioned(t) == \E v \in Data : t.conditions[v] # "pass"

\* _validate_and_build: one transition per source, name and target.
Constructible(w) ==
  \A t, v \in w.transitions :
    <<t.source, t.name, t.target>> = <<v.source, v.name, v.target>> => t = v

TerminalStates(w) == {s \in States : TransitionsFrom(w, s) = {}}

-----------------------------------------------------------------------------
(* Introspection.                                                          *)

\* Variant: the search stops at the neighbours of the start.
Neighbours(w, start) ==
  {start} \cup {t.target : t \in TransitionsFrom(w, start)}

\* reachable_states: breadth first, a layer at a time.
ReachableStates(w, start) ==
  LET Visit[visited \in SUBSET States] ==
        LET seen == visited \cup {t.target : t \in
                      {v \in w.transitions : v.source \in visited}}
        IN  IF seen = visited THEN visited ELSE Visit[seen]
  IN  Visit[{start}]

UnreachableStates(w) == States \ ReachableStates(w, w.initial)

\* path_states: the states a sequence of transitions goes through.
PathStates(walk, start) ==
  <<start>> \o [k \in DOMAIN walk |-> walk[k].target]

EndOf(walk, start) == PathStates(walk, start)[Len(walk) + 1]

\* Variant: a state may be entered again.
MayRevisit(walk, start, t) == TRUE

Unvisited(walk, start, t) ==
  \A k \in 0..Len(walk) : PathStates(walk, start)[k + 1] # t.target

\* simple_paths: a walk is reported at the first end it meets, and dropped
\* when it has `limit` transitions and stands on none.
SimplePaths(w, start, ends, limit) ==
  LET Walks[n \in 0..limit] ==
        IF n = 0 THEN {<<>>}
        ELSE UNION {{Append(walk, t) : t \in
                       {v \in TransitionsFrom(w, EndOf(walk, start)) :
                          Unvisited(walk, start, v)}} :
                    walk \in {p \in Walks[n - 1] : EndOf(p, start) \notin ends}}
  IN  IF limit < 1 THEN {}
      ELSE {walk \in UNION {Walks[n] : n \in 0..limit} : EndOf(walk, start) \in ends}

\* workflow_to_dict: the metrics of the description.
Metrics(w) ==
  LET reached == Cardinality(ReachableStates(w, w.initial))
  IN  [state_count |-> Cardinality(States),
       transition_count |-> Cardinality(w.transitions),
       terminal_count |-> Cardinality(TerminalStates(w)),
       reachable_state_count |-> reached,
       unreachable_state_count |-> Cardinality(States) - reached]

-----------------------------------------------------------------------------
(* Simulation: `gate` is the set of transitions whose conditions pass.     *)

\* Variant: the first of several candidates is taken.
AnyCandidate(w, s, action, gate) ==
  LET passing == TransitionsFor(w, s, action) \cap gate
  IN  IF passing = {} THEN {} ELSE {CHOOSE t \in passing : TRUE}

\* _resolve_target: no candidate and several candidates are both refused.
ResolveTarget(w, s, action, gate) ==
  {t \in TransitionsFor(w, s, action) \cap gate :
     TransitionsFor(w, s, action) \cap gate = {t}}

\* simulate: stops without raising at the first action that cannot be run.
Simulate(w, actions, start, gate, max_steps) ==
  LET Run[k \in 0..Len(actions)] ==
        IF k = 0 THEN [steps |-> <<>>, blocked |-> FALSE]
        ELSE LET before == Run[k - 1]
                 found == ResolveTarget(w, EndOf(before.steps, start), actions[k], gate)
             IN  IF before.blocked THEN before
                 ELSE IF Len(before.steps) >= max_steps \/ found = {}
                 THEN [before EXCEPT !.blocked = TRUE]
                 ELSE [before EXCEPT !.steps = Append(@, CHOOSE t \in found : TRUE)]
  IN  Run[Len(actions)]

\* simulate_all: the simple paths to a terminal state, as dry runs.
SimulateAll(w, start, limit) == SimplePaths(w, start, TerminalStates(w), limit)

\* Variant: the states after the first step are taken for granted.
StuckAtStart(w, start) ==
  IF ReachableStates(w, start) \cap TerminalStates(w) = {} THEN {start} ELSE {}

\* verify_always_completes raises when one of these exists.
StuckStates(w, start) ==
  {s \in ReachableStates(w, start) \ TerminalStates(w) :
     ReachableStates(w, s) \cap TerminalStates(w) = {}}

-----------------------------------------------------------------------------
(* validate_definition: each finding, as its code and where it points.     *)

Ambiguous(w, s, action) ==
  /\ Cardinality(TransitionsFor(w, s, action)) > 1
  /\ \A t \in TransitionsFor(w, s, action) : ~Conditioned(t)

\* A requirement that lists approvers, whatever they resolve to.
Declared(rule) ==
  rule.resolvable # Data \/ \E v \in Data : rule.approvers[v] # <<>>

Findings(w) ==
  {[code |-> "unreachable_state", at |-> <<s>>] : s \in UnreachableStates(w)}
  \cup {[code |-> "ambiguous_action", at |-> <<t.source, t.name, t.target>>] : t \in
          {v \in w.transitions : Ambiguous(w, v.source, v.name)}}
  \cup {[code |-> "self_loop", at |-> <<t.source, t.name, t.target>>] : t \in
          {v \in w.transitions : v.source = v.target /\ ~Conditioned(v)}}
  \cup {[code |-> "conditional_routing", at |-> <<t.source, t.name>>] : t \in
          {v \in w.transitions : Cardinality(TransitionsFor(w, v.source, v.name)) > 1}}
  \cup {[code |-> "approval_on_terminal", at |-> <<s>>] : s \in
          {r \in TerminalStates(w) : Declared(w.requirement[r])}}

\* ValidationReport.errors; the other findings are warnings and notes.
Errors(w) == {f \in Findings(w) : f.code = "ambiguous_action"}

\* ValidationReport.is_valid
IsValid(w) == Errors(w) = {}

-----------------------------------------------------------------------------
(* Invariants: the answers against the executions, and against each other. *)

Walked == IF Started THEN PathStates(path, Origin) ELSE <<>>

CalledUnreachable(s) ==
  [code |-> "unreachable_state", at |-> <<s>>] \in Findings(definition)

(* No execution ever runs an action that validation calls ambiguous, and   *)
(* none moves into a state that validation calls unreachable, under every  *)
(* condition, permission and order of calls, unless it began in one: the   *)
(* caller's workflow, which start_execution takes the first state from,    *)
(* may be another definition than the one that the execution is bound to.  *)
FindingsRespected ==
  /\ Started /\ ~CalledUnreachable(Origin) =>
       \A k \in DOMAIN Walked : ~CalledUnreachable(Walked[k])
  /\ \A k \in DOMAIN path :
       [code |-> "ambiguous_action",
          at |-> <<path[k].source, path[k].name, path[k].target>>] \notin Findings(definition)

(* The completion check agrees with path enumeration: it raises for no     *)
(* state exactly when every reachable state has a cycle-free path to a     *)
(* terminal one.  And what it names is a trap: an execution that was ever  *)
(* in a stuck state does not complete, whatever is done to it later.       *)
CompletionVerified ==
  LET stuck == StuckStates(definition, definition.initial)
  IN  /\ completed => \A k \in DOMAIN Walked : Walked[k] \notin stuck
      /\ path = <<>> =>
           stuck = {s \in ReachableStates(definition, definition.initial) :
                      SimulateAll(definition, s, Cardinality(States)) = {}}

\* The enumerated paths to the current state along transitions that were taken.
Shortcuts ==
  {p \in SimplePaths(definition, Origin, {current}, Cardinality(States)) :
     {p[k] : k \in DOMAIN p} \subseteq {path[k] : k \in DOMAIN path}}

(* Path enumeration misses no route: whatever loops an execution went      *)
(* through, some path enumerated from where it began leads to its state    *)
(* along transitions it took.  The states that some enumerated path ends in*)
(* are those the description counts as reachable; and every path to a      *)
(* terminal state, replayed by its action names with its transitions as    *)
(* the gate, is simulated in full.                                         *)
PathsComplete ==
  /\ Started => Shortcuts # {}
  /\ path = <<>> =>
       LET ended == {s \in States : SimplePaths(definition, definition.initial, {s},
                                                Cardinality(States)) # {}}
       IN  Metrics(definition).reachable_state_count = Cardinality(ended)
  /\ path = <<>> =>
       \A p \in SimulateAll(definition, definition.initial, Cardinality(States)) :
         Simulate(definition, [k \in DOMAIN p |-> p[k].name], definition.initial,
                  {p[k] : k \in DOMAIN p}, Len(p))
           = [steps |-> p, blocked |-> FALSE]

(* A dry run, from where an execution began, of the actions it took        *)
(* follows it state by state; where it stops short, the definition routes  *)
(* that action by conditions, which a dry run without a gate does not      *)
(* decide.                                                                 *)
DryRunFollows ==
  Started =>
    LET dry == Simulate(definition, [k \in DOMAIN path |-> path[k].name],
                        Origin, definition.transitions, Len(path))
        n == Len(dry.steps)
    IN  /\ dry.steps = SubSeq(path, 1, n)
        /\ dry.blocked <=> n < Len(path)
        /\ n < Len(path) =>
             Cardinality(TransitionsFor(definition, path[n + 1].source,
                                        path[n + 1].name)) > 1
=============================================================================
