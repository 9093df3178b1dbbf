------------------------- MODULE Inspection_proofs --------------------------
(***************************************************************************)
(* What the engine answers about an execution, and what the algorithms say *)
(* about its definition, for every definition, every set of users and      *)
(* every run.  The algorithms are searches over the definition's graph:    *)
(* each is given a closed form (a least closed set for reachability, the   *)
(* simple paths of bounded length for path enumeration, the first action   *)
(* that does not resolve for a dry run), and the inductive invariant       *)
(* Life /\ Journey says that an execution's path is a walk of that graph.  *)
(***************************************************************************)
EXTENDS ActionInspection, DefinitionAnalysis, ApprovalEngine_proofs

-----------------------------------------------------------------------------
(* Reachability: the layers of the search stop at the least closed set.    *)

(* What a set of states leads to in one transition, itself included.       *)
Layer(w, visited) ==
  visited \cup {t.target : t \in {v \in w.transitions : v.source \in visited}}

Closed(w, C) ==
  C \in SUBSET States /\ \A t \in w.transitions : t.source \in C => t.target \in C

(* The least closed set around some states.                                *)
Closure(w, V) ==
  {s \in States : \A C \in SUBSET States : V \subseteq C /\ Closed(w, C) => s \in C}

(* A layer stays among the states and keeps what was visited.              *)
LEMMA LayerStates ==
  ASSUME NEW w \in Workflow, NEW V \in SUBSET States
  PROVE  Layer(w, V) \in SUBSET States /\ V \subseteq Layer(w, V)
<1>1. \A t \in w.transitions : t.target \in States
  BY DEF Workflow, Transition
<1> QED BY <1>1 DEF Layer

(* The closure is the least closed set around its states.                  *)
LEMMA ClosureLeast ==
  ASSUME NEW w \in Workflow, NEW V \in SUBSET States
  PROVE  /\ Closure(w, V) \in SUBSET States
         /\ V \subseteq Closure(w, V)
         /\ Closed(w, Closure(w, V))
         /\ \A C : Closed(w, C) /\ V \subseteq C => Closure(w, V) \subseteq C
<1>1. \A t \in w.transitions : t.target \in States
  BY DEF Workflow, Transition
<1> QED BY <1>1 DEF Closure, Closed

(* A layer leads nowhere that its states did not.                          *)
LEMMA ClosureOfLayer ==
  ASSUME NEW w \in Workflow, NEW V \in SUBSET States
  PROVE  /\ Layer(w, V) = V => Closure(w, V) = V
         /\ Closure(w, Layer(w, V)) = Closure(w, V)
<1>1. Layer(w, V) = V => Closed(w, V)
  BY DEF Layer, Closed
<1>2. \A C : Closed(w, C) => (V \subseteq C <=> Layer(w, V) \subseteq C)
  BY DEF Layer, Closed
<1>3. Layer(w, V) = V => Closure(w, V) = V
  BY <1>1, ClosureLeast
<1>4. Closure(w, Layer(w, V)) = Closure(w, V)
  BY <1>2 DEF Closure
<1> QED BY <1>3, <1>4

(* A set of states that is not closed grows, in a finite set of states.    *)
LEMMA LayerGrows ==
  ASSUME NEW w \in Workflow, NEW V \in SUBSET States, Layer(w, V) # V
  PROVE  /\ Cardinality(States \ V) \in Nat /\ Cardinality(States \ Layer(w, V)) \in Nat
         /\ Cardinality(States \ Layer(w, V)) < Cardinality(States \ V)
<1> DEFINE rest == States \ V
           less == States \ Layer(w, V)
<1>1. less \subseteq rest /\ less # rest
  BY LayerStates
<1>2. IsFiniteSet(rest) /\ IsFiniteSet(less)
  BY FiniteAssumption, FS_Subset
<1> HIDE DEF rest, less
<1>3. Cardinality(less) < Cardinality(rest)
  BY <1>1, <1>2, FS_Subset, FS_CardinalityType
<1> QED BY <1>2, <1>3, FS_CardinalityType DEF rest, less

(* Any function that satisfies the equation of Visit is Closure.           *)
LEMMA VisitIsClosure ==
  ASSUME NEW w \in Workflow, NEW f,
         \A V \in SUBSET States :
           f[V] = IF Layer(w, V) = V THEN V ELSE f[Layer(w, V)]
  PROVE  \A V \in SUBSET States : f[V] = Closure(w, V)
<1> DEFINE wrong == {V \in SUBSET States : f[V] # Closure(w, V)}
           sizes == {Cardinality(States \ V) : V \in wrong}
<1> SUFFICES ASSUME wrong # {} PROVE FALSE
  OBVIOUS
<1>1. \A V \in SUBSET States : Cardinality(States \ V) \in Nat
  <2> SUFFICES ASSUME NEW V \in SUBSET States PROVE Cardinality(States \ V) \in Nat
    OBVIOUS
  <2>1. IsFiniteSet(States \ V)
    BY FiniteAssumption, FS_Subset
  <2> QED BY <2>1, FS_CardinalityType
<1>2. sizes \in SUBSET Nat /\ sizes # {}
  <2>1. wrong \in SUBSET (SUBSET States)
    OBVIOUS
  <2> HIDE DEF wrong
  <2> QED BY <1>1, <2>1
<1>3. PICK m \in sizes : \A n \in sizes : m <= n
  <2> HIDE DEF sizes
  <2> QED BY <1>2, LeastNatural
<1>4. PICK V \in wrong : m = Cardinality(States \ V)
  BY <1>3
<1>5. CASE Layer(w, V) = V
  <2>1. f[V] = V
    BY <1>5
  <2> QED BY <1>5, <2>1, ClosureOfLayer
<1>6. CASE Layer(w, V) # V
  <2>1. Layer(w, V) \in SUBSET States
    BY LayerStates
  <2>2. f[V] = f[Layer(w, V)] /\ Closure(w, V) = Closure(w, Layer(w, V))
    BY <1>6, ClosureOfLayer
  <2>3. Layer(w, V) \in wrong
    BY <2>1, <2>2
  <2>4. Cardinality(States \ Layer(w, V)) \in sizes
    BY <2>3
  <2>5. Cardinality(States \ Layer(w, V)) < Cardinality(States \ V)
    BY <1>6, LayerGrows
  <2>6. Cardinality(States \ V) \in Nat /\ Cardinality(States \ Layer(w, V)) \in Nat
    BY <1>1, <2>1
  <2> HIDE DEF sizes
  <2>7. m <= Cardinality(States \ Layer(w, V))
    BY <1>3, <2>4
  <2> QED BY <1>4, <2>5, <2>6, <2>7
<1> QED BY <1>5, <1>6

(* The search computes the least closed set around the start.              *)
LEMMA ReachableIsClosure ==
  ASSUME NEW w \in Workflow, NEW start \in States
  PROVE  ReachableStates(w, start) = Closure(w, {start})
<1> DEFINE rule(f) ==
             [visited \in SUBSET States |->
                LET seen == visited \cup {t.target : t \in
                              {v \in w.transitions : v.source \in visited}}
                IN  IF seen = visited THEN visited ELSE f[seen]]
           Visit == CHOOSE f : f = rule(f)
           known == [V \in SUBSET States |-> Closure(w, V)]
<1>1. ReachableStates(w, start) = Visit[{start}]
  BY DEF ReachableStates
<1>2. ASSUME NEW f
      PROVE  rule(f) = [V \in SUBSET States |->
                          IF Layer(w, V) = V THEN V ELSE f[Layer(w, V)]]
  BY DEF Layer
<1> HIDE DEF rule
<1>3. known = rule(known)
  <2>1. \A V \in SUBSET States :
          Closure(w, V) = IF Layer(w, V) = V THEN V ELSE known[Layer(w, V)]
    BY ClosureOfLayer, LayerStates
  <2> HIDE DEF known
  <2>2. rule(known) = [V \in SUBSET States |->
                         IF Layer(w, V) = V THEN V ELSE known[Layer(w, V)]]
    BY <1>2
  <2>3. rule(known) = [V \in SUBSET States |-> Closure(w, V)]
    BY <2>1, <2>2
  <2> QED BY <2>3 DEF known
<1>4. Visit = rule(Visit)
  <2> HIDE DEF known
  <2> QED BY <1>3
<1> HIDE DEF Visit
<1>5. \A V \in SUBSET States :
        Visit[V] = IF Layer(w, V) = V THEN V ELSE Visit[Layer(w, V)]
  BY <1>2, <1>4
<1>6. \A V \in SUBSET States : Visit[V] = Closure(w, V)
  BY <1>5, VisitIsClosure
<1> QED BY <1>1, <1>6

(* What is reachable is states, the start among them, and is closed.       *)
LEMMA ReachableStart ==
  ASSUME NEW w \in Workflow, NEW start \in States
  PROVE  /\ start \in ReachableStates(w, start)
         /\ ReachableStates(w, start) \subseteq States
<1>1. /\ Closure(w, {start}) \in SUBSET States
      /\ {start} \subseteq Closure(w, {start})
  <2>1. {start} \in SUBSET States
    OBVIOUS
  <2> QED BY <2>1, ClosureLeast
<1> QED BY <1>1, ReachableIsClosure

-----------------------------------------------------------------------------
(* The answers about actions.                                              *)

(* A finite set has one element when it is a singleton.                    *)
LEMMA OneOf ==
  ASSUME NEW S, IsFiniteSet(S)
  PROVE  /\ Cardinality(S) = 1 <=> \E x : S = {x}
         /\ \A x \in S : ~(Cardinality(S) > 1) => S = {x}
<1>1. Cardinality(S) \in Nat
  BY FS_CardinalityType
<1>2. Cardinality(S) = 1 <=> \E x : S = {x}
  BY FS_Singleton
<1>3. ASSUME NEW x \in S, ~(Cardinality(S) > 1)
      PROVE  S = {x}
  <2>1. Cardinality(S) # 0
    BY FS_EmptySet
  <2> QED BY <1>1, <1>2, <1>3, <2>1
<1> QED BY <1>2, <1>3

(* What leaves a state under an action is finitely many transitions.       *)
LEMMA Finite ==
  ASSUME TypeOK
  PROVE  /\ definition \in Workflow
         /\ IsFiniteSet(definition.transitions)
         /\ \A S : S \subseteq definition.transitions => IsFiniteSet(S)
BY FiniteAssumption, DefinitionsAssumption, FS_Subset DEF TypeOK

(* can_transition affirms an action for whoever the one passing transition *)
(* admits, and the list holds it unless some condition cannot be evaluated.*)
LEMMA ExecuteDecided ==
  ASSUME TypeOK, NEW u, NEW action
  PROVE  /\ CanTransition(u, action) <=> \E t \in Resolved(action) : u \in t.may
         /\ action \in AvailableActions(u) <=>
              CanTransition(u, action) /\ \A other \in ActionsFrom : Raising(other) = {}
<1>1. Passing(action) \subseteq Candidates(action)
  BY DEF Passing, Judged, Candidates
<1>2. Candidates(action) # {} => ~Terminal(current) /\ action \in ActionsFrom
  BY DEF Candidates, Terminal, ActionsFrom
<1>3. action \in ActionsFrom => Candidates(action) # {}
  BY DEF Candidates, ActionsFrom
<1>4. Cardinality(Passing(action)) = 1 <=> \E t : Passing(action) = {t}
  <2>1. IsFiniteSet(Passing(action))
    BY Finite DEF Passing, Judged
  <2> QED BY <2>1, OneOf
<1>5. Resolved(action) =
        {t \in Passing(action) : Passing(action) = {t} /\ Raising(action) = {}}
  BY DEF Resolved
<1>6. CanTransition(u, action) <=>
        /\ Raising(action) = {}
        /\ \E t \in Candidates(action) : Passing(action) = {t} /\ u \in t.may
  BY <1>1, <1>2, <1>4 DEF CanTransition
<1>7. action \in AvailableActions(u) <=>
        CanTransition(u, action) /\ \A other \in ActionsFrom : Raising(other) = {}
  BY <1>1, <1>2, <1>3, <1>4, <1>6 DEF AvailableActions
<1> QED BY <1>1, <1>5, <1>6, <1>7

(* The errors that nothing maps to an answer of their own.                 *)
Unmapped == {"WorkflowConfigurationError", "ConditionEvaluationError"}

Raised ==
  {"none", "InvalidTransitionError", "ConditionFailedError",
   "PermissionDeniedError", "WorkflowAlreadyCompletedError",
   "ApprovalNotPendingError"} \cup Unmapped

(* Whom an action can be run by: the one transition it resolves to admits  *)
(* them and leads to a step that finds its approvers.                      *)
Runs(u, action) ==
  \E t \in Resolved(action) : u \in t.may /\ Enterable(t.target)

(* A transition is let through for whom the resolved one admits, and only  *)
(* what does not fit is answered with an error that nothing maps.          *)
LEMMA Transits ==
  ASSUME TypeOK, NEW u, NEW action
  PROVE  /\ TransitionError(u, action) = "none" <=> \E t \in Resolved(action) : u \in t.may
         /\ ResolutionError(action) = "none" <=> Resolved(action) # {}
         /\ RunError(u, action) = "none" <=> Runs(u, action)
         /\ {TransitionError(u, action), ResolutionError(action), RunError(u, action)}
              \subseteq Raised
         /\ \/ TransitionError(u, action) \in Unmapped
            \/ ResolutionError(action) \in Unmapped
            \/ RunError(u, action) \in Unmapped
            => Misconfigured(action)
<1>1. /\ Passing(action) \subseteq Candidates(action)
      /\ Raising(action) \subseteq Candidates(action)
      /\ Resolved(action) =
           {t \in Passing(action) : Passing(action) = {t} /\ Raising(action) = {}}
  BY DEF Passing, Raising, Judged, Candidates, Resolved
<1>2. ResolutionError(action) = "none" <=> Resolved(action) # {}
  BY <1>1 DEF ResolutionError
<1>3. ResolutionError(action) \in Raised
  BY DEF ResolutionError, Raised, Unmapped
<1>4. TransitionError(u, action) \in Raised
  BY <1>3 DEF TransitionError, Raised
<1>5. TransitionError(u, action) = "none" <=> \E t \in Resolved(action) : u \in t.may
  BY <1>2 DEF TransitionError
<1>6. RunError(u, action) = "none" <=> Runs(u, action)
  <2>1. \A t, v \in Resolved(action) : t = v
    BY <1>1
  <2>2. RunError(u, action) = "none" <=>
          (\E t \in Resolved(action) : u \in t.may) /\ ~EntryFails(action)
    BY <1>5 DEF RunError
  <2> QED BY <2>1, <2>2 DEF EntryFails, Runs
<1>7. RunError(u, action) \in Raised
  BY <1>4 DEF RunError, Raised, Unmapped
<1>8. ASSUME \/ TransitionError(u, action) \in Unmapped
             \/ ResolutionError(action) \in Unmapped
             \/ RunError(u, action) \in Unmapped
      PROVE  \/ EntryFails(action) \/ Raising(action) # {}
             \/ Passing(action) # {} /\ Resolved(action) = {} /\ Raising(action) = {}
  BY <1>8 DEF TransitionError, ResolutionError, RunError, Unmapped
<1>9. ASSUME Passing(action) # {}, Resolved(action) = {}, Raising(action) = {}
      PROVE  Cardinality(Passing(action)) > 1
  <2>1. PICK t : t \in Passing(action)
    BY <1>9
  <2>2. Passing(action) # {t}
    BY <1>1, <1>9, <2>1
  <2>3. IsFiniteSet(Passing(action))
    BY Finite DEF Passing, Judged
  <2> QED BY <2>1, <2>2, <2>3, OneOf
<1>10. \/ TransitionError(u, action) \in Unmapped
       \/ ResolutionError(action) \in Unmapped
       \/ RunError(u, action) \in Unmapped
       => Misconfigured(action)
  BY <1>8, <1>9 DEF Misconfigured
<1> QED BY <1>2, <1>3, <1>4, <1>5, <1>6, <1>7, <1>10

(* Workflow.available_actions, can_transition and execute_transition give  *)
(* one answer but for conditions and approvers that raise, and explain     *)
(* denies nothing that can_transition affirms; it may only call            *)
(* applicable, besides, what is ambiguous or cannot be evaluated.          *)
THEOREM InspectionAlwaysAgrees == Spec => []InspectionAgrees
<1>1. TypeOK => InspectionAgrees
  <2> SUFFICES ASSUME TypeOK, NEW u \in Actors, NEW action \in Actions
               PROVE  /\ ExecuteError(u, action) = "none" <=>
                           CanTransition(u, action) /\ ~EntryFails(action)
                      /\ action \in AvailableActions(u) <=>
                           /\ CanTransition(u, action)
                           /\ \A other \in ActionsFrom : Raising(other) = {}
                      /\ CanTransition(u, action) => Explanation(u, action).applicable
                      /\ Explanation(u, action).applicable /\ ~CanTransition(u, action) =>
                           ExecuteError(u, action) \in Unmapped
    BY DEF InspectionAgrees, Unmapped
  <2>1. /\ CanTransition(u, action) <=> \E t \in Resolved(action) : u \in t.may
        /\ action \in AvailableActions(u) <=>
             CanTransition(u, action) /\ \A other \in ActionsFrom : Raising(other) = {}
    BY ExecuteDecided
  <2>2. /\ Satisfying(u, action) = {t \in Passing(action) : u \in t.may}
        /\ Passing(action) \subseteq Candidates(action)
        /\ Resolved(action) =
             {t \in Passing(action) : Passing(action) = {t} /\ Raising(action) = {}}
    BY DEF Satisfying, Passing, Judged, Candidates, Resolved
  <2>3. Candidates(action) # {} => ~Terminal(current) /\ StructureReasons(action) = {}
    BY DEF StructureReasons, Candidates, Terminal
  <2>4. Candidates(action) = {} => StructureReasons(action) # {}
    BY DEF StructureReasons
  <2>5. Explanation(u, action).applicable <=>
          /\ StructureReasons(action) = {}
          /\ ~\E t \in Raising(action) : u \in t.may
          /\ ~(Cardinality(Satisfying(u, action)) > 1) /\ Satisfying(u, action) # {}
    BY DEF Explanation
  <2>6. ExecuteError(u, action) = "none" <=>
          CanTransition(u, action) /\ ~EntryFails(action)
    <3>1. TransitionError(u, action) = "none" <=> CanTransition(u, action)
      BY <2>1, Transits
    <3>2. CanTransition(u, action) => ~Terminal(current)
      BY DEF CanTransition
    <3> QED BY <3>1, <3>2 DEF ExecuteError, RunError
  <2>7. ASSUME CanTransition(u, action)
        PROVE  Explanation(u, action).applicable
    <3>1. PICK t \in Candidates(action) : Passing(action) = {t} /\ u \in t.may
      BY <2>1, <2>2, <2>7
    <3>2. Satisfying(u, action) = {t}
      BY <2>2, <3>1
    <3>3. Cardinality(Satisfying(u, action)) = 1
      BY <3>2, FS_Singleton
    <3>4. Raising(action) = {}
      BY <2>7 DEF CanTransition
    <3> QED BY <2>3, <2>5, <3>1, <3>2, <3>3, <3>4
  <2>8. ASSUME Explanation(u, action).applicable, ~CanTransition(u, action)
        PROVE  ExecuteError(u, action) \in Unmapped
    <3>1. PICK t \in Candidates(action) : t \in Passing(action) /\ u \in t.may
      BY <2>2, <2>5, <2>8
    <3>2. Resolved(action) = {}
      <4> SUFFICES ASSUME NEW v \in Resolved(action) PROVE FALSE
        OBVIOUS
      <4> QED BY <2>1, <2>2, <2>8, <3>1
    <3>3. /\ ~Terminal(current) /\ Candidates(action) # {}
          /\ Passing(action) # {}
      BY <2>3, <3>1
    <3> QED BY <3>2, <3>3
        DEF ExecuteError, RunError, TransitionError, ResolutionError, Unmapped
  <2> QED BY <2>1, <2>6, <2>7, <2>8
<1> QED BY <1>1, TypeCorrect, PTL

(* MyWorkView: whoever could vote now finds the execution on their page.   *)
THEOREM WorkAlwaysListed == Spec => []WorkListed
<1>1. TypeOK => WorkListed
  <2> SUFFICES ASSUME TypeOK, NEW u \in Users, NEW action \in Votes,
                      VoteError(u, action) = "none"
               PROVE  \/ PendingApprovalsFor(u) \cap OfStep(approvals, current) # {}
                      \/ \E d \in DelegatedTo(u) : delegations[d].step \in {AnyStep, current}
    BY DEF WorkListed
  <2>1. Ballots(u) # {}
    BY DEF VoteError
  <2>2. PICK i \in DOMAIN approvals, d \in 0..Len(delegations) : Candidate(u, i, d)
    <3>1. PICK b \in Ballots(u) : TRUE
      BY <2>1
    <3> QED BY <3>1 DEF Ballots
  <2>3. CASE IsFirst(approvals, {j \in Pending(current) : u \in approvals[j].who}, i)
    <3>1. i \in Pending(current) /\ u \in approvals[i].who
      BY <2>3 DEF IsFirst
    <3> QED BY <3>1 DEF Pending, WithStatus, OfStep, PendingApprovalsFor
  <2>4. CASE /\ IsFirst(approvals,
                       {j \in Pending(current) : DelegationsFor(u, j) # {}}, i)
             /\ d \in DelegationsFor(u, i)
    <3>1. i \in Pending(current)
      BY <2>4 DEF IsFirst
    <3>2. approvals[i].step = current
      BY <3>1 DEF Pending, WithStatus, OfStep
    <3> QED BY <2>4, <3>2 DEF DelegationsFor, DelegatedTo
  <2> QED BY <2>2, <2>3, <2>4 DEF Candidate
<1> QED BY <1>1, TypeCorrect, PTL

-----------------------------------------------------------------------------
(* The answers of the REST endpoint.                                       *)

LEMMA Mapped ==
  ASSUME NEW error \in Raised
  PROVE  /\ StatusOf(error) = 200 <=> error = "none"
         /\ StatusOf(error) = 500 <=> error \in Unmapped
<1>1. CASE error = "none"
  BY <1>1 DEF StatusOf, Unmapped
<1>2. CASE error = "PermissionDeniedError"
  BY <1>2 DEF StatusOf, Unmapped
<1>3. CASE error = "ConditionFailedError"
  BY <1>3 DEF StatusOf, Unmapped
<1>4. CASE error \in {"InvalidTransitionError", "WorkflowAlreadyCompletedError",
                      "ApprovalNotPendingError"}
  BY <1>4 DEF StatusOf, Unmapped
<1>5. CASE error \in Unmapped
  BY <1>5 DEF StatusOf, Unmapped
<1> QED BY <1>1, <1>2, <1>3, <1>4, <1>5 DEF Raised

(* decide has one slot to offer a user, and one delegation to fill it by.  *)
LEMMA OneBallot ==
  ASSUME TypeOK, NEW u,
         NEW i \in DOMAIN approvals, NEW d \in 0..Len(delegations), Candidate(u, i, d),
         NEW j \in DOMAIN approvals, NEW e \in 0..Len(delegations), Candidate(u, j, e)
  PROVE  i = j /\ d = e
<1> DEFINE direct == {k \in Pending(current) : u \in approvals[k].who}
           granted == {k \in Pending(current) : DelegationsFor(u, k) # {}}
<1>1. /\ \A k \in DOMAIN approvals : k \in Nat /\ approvals[k].order \in Nat
      /\ \A k, m : m \in DelegationsFor(u, k) => m \in Nat /\ m # 0
  <2>1. approvals \in Seq(Approval) /\ delegations \in Seq(Delegation)
    BY DEF TypeOK
  <2>2. \A k \in DOMAIN approvals : k \in Nat /\ approvals[k].order \in Nat
    <3>1. ASSUME NEW k \in DOMAIN approvals PROVE k \in Nat /\ approvals[k].order \in Nat
      <4>1. k \in Nat /\ approvals[k] \in Approval
        BY <2>1
      <4> QED BY <4>1 DEF Approval
    <3> QED BY <3>1
  <2>3. \A k \in DOMAIN delegations : k \in Nat /\ k # 0
    BY <2>1
  <2> QED BY <2>2, <2>3 DEF DelegationsFor
<1>2. /\ \/ IsFirst(approvals, direct, i) /\ d = 0
         \/ /\ direct = {} /\ IsFirst(approvals, granted, i)
            /\ d \in DelegationsFor(u, i)
            /\ \A m \in DelegationsFor(u, i) : m <= d
      /\ \/ IsFirst(approvals, direct, j) /\ e = 0
         \/ /\ direct = {} /\ IsFirst(approvals, granted, j)
            /\ e \in DelegationsFor(u, j)
            /\ \A m \in DelegationsFor(u, j) : m <= e
  BY DEF Candidate
<1> HIDE DEF direct, granted
<1>3. ASSUME NEW S, IsFirst(approvals, S, i), IsFirst(approvals, S, j) PROVE i = j
  <2>1. /\ \/ approvals[i].order < approvals[j].order
           \/ approvals[i].order = approvals[j].order /\ i <= j
        /\ \/ approvals[j].order < approvals[i].order
           \/ approvals[j].order = approvals[i].order /\ j <= i
    BY <1>3 DEF IsFirst
  <2> QED BY <1>1, <2>1
<1>4. CASE direct # {}
  <2>1. /\ IsFirst(approvals, direct, i) /\ d = 0
        /\ IsFirst(approvals, direct, j) /\ e = 0
    BY <1>2, <1>4
  <2> QED BY <1>3, <2>1
<1>5. CASE direct = {}
  <2>1. ~IsFirst(approvals, direct, i) /\ ~IsFirst(approvals, direct, j)
    BY <1>5 DEF IsFirst
  <2>2. i = j
    BY <1>2, <1>3, <2>1
  <2>3. d <= e /\ e <= d /\ d \in Nat /\ e \in Nat
    BY <1>1, <1>2, <2>1, <2>2
  <2> QED BY <2>2, <2>3
<1> QED BY <1>4, <1>5

(* What decide asks of a vote before it stores anything.                   *)
Settles(u, b, status) ==
  LET outcome == StepOutcome(Voted(u, b.slot, b.delegation, status), current, b.slot)
  IN  outcome = "partial"
      \/ Runs(Authority(u, b.delegation),
              IF outcome = "advance" THEN "approve" ELSE "reject")

Counts(u, b, action, status) ==
  /\ \E t \in Resolved(action) : Authority(u, b.delegation) \in t.may
  /\ SelfApprovalAllowed(approvals[b.slot], Authority(u, b.delegation))
  /\ Settles(u, b, status)

VoteCounts(u, action, status) ==
  Open /\ \E b \in Ballots(u) : Counts(u, b, action, status)

Status(action) == IF action = "approve" THEN "APPROVED" ELSE "REJECTED"

LEMMA Settled ==
  ASSUME TypeOK, NEW u, NEW b, NEW status
  PROVE  /\ SettlementError(u, b, status) = "none" <=> Settles(u, b, status)
         /\ SettlementError(u, b, status) \in Raised
         /\ SettlementError(u, b, status) \in Unmapped =>
              \E routed \in Votes : Misconfigured(routed)
<1> DEFINE authority == Authority(u, b.delegation)
           outcome == StepOutcome(Voted(u, b.slot, b.delegation, status), current, b.slot)
<1>1. /\ SettlementError(u, b, status) =
           CASE outcome = "partial" -> "none"
             [] outcome = "advance" -> RunError(authority, "approve")
             [] OTHER -> RunError(authority, "reject")
      /\ Settles(u, b, status) <=>
           \/ outcome = "partial"
           \/ Runs(authority, IF outcome = "advance" THEN "approve" ELSE "reject")
  BY DEF SettlementError, Settles
<1> HIDE DEF authority, outcome
<1>2. CASE outcome = "partial"
  BY <1>1, <1>2 DEF Raised, Unmapped
<1>3. CASE outcome = "advance"
  <2>1. SettlementError(u, b, status) = RunError(authority, "approve")
    BY <1>1, <1>3
  <2> QED BY <1>1, <1>3, <2>1, Transits DEF Votes
<1>4. CASE outcome \notin {"partial", "advance"}
  <2>1. SettlementError(u, b, status) = RunError(authority, "reject")
    BY <1>1, <1>4
  <2> QED BY <1>1, <1>4, <2>1, Transits DEF Votes
<1> QED BY <1>2, <1>3, <1>4

LEMMA Balloted ==
  ASSUME TypeOK, NEW u, NEW b, NEW action \in Votes
  PROVE  /\ BallotError(u, b, action) = "none" <=> Counts(u, b, action, Status(action))
         /\ BallotError(u, b, action) \in Raised
         /\ BallotError(u, b, action) \in Unmapped =>
              \E routed \in Votes : Misconfigured(routed)
<1> DEFINE authority == Authority(u, b.delegation)
           settlement == SettlementError(u, b, Status(action))
<1>1. TransitionError(authority, action) = "none" <=>
        \E t \in Resolved(action) : authority \in t.may
  BY Transits
<1>2. /\ settlement = "none" <=> Settles(u, b, Status(action))
      /\ settlement \in Raised
      /\ settlement \in Unmapped =>
           \E routed \in Votes : Misconfigured(routed)
  BY Settled
<1>3. /\ BallotError(u, b, action) =
           IF TransitionError(authority, action) # "none"
              \/ ~SelfApprovalAllowed(approvals[b.slot], authority)
           THEN "PermissionDeniedError" ELSE settlement
      /\ Counts(u, b, action, Status(action)) <=>
           /\ \E t \in Resolved(action) : authority \in t.may
           /\ SelfApprovalAllowed(approvals[b.slot], authority)
           /\ Settles(u, b, Status(action))
  BY DEF BallotError, Counts, Status
<1> HIDE DEF authority, settlement
<1> QED BY <1>1, <1>2, <1>3 DEF Raised, Unmapped

(* The endpoint answers a vote with success where decide lets it count.    *)
LEMMA VoteAnswered ==
  ASSUME TypeOK, NEW u, NEW action \in Votes
  PROVE  /\ Answer(u, action) = 200 <=> VoteCounts(u, action, Status(action))
         /\ Answer(u, action) = 500 =>
              \E routed \in Votes : Misconfigured(routed)
<1> DEFINE chosen == CHOOSE b \in Ballots(u) : TRUE
<1>1. Answer(u, action) = StatusOf(VoteError(u, action))
  BY DEF Answer
<1>2. VoteError(u, action) =
        IF ~Open THEN "WorkflowAlreadyCompletedError"
        ELSE IF ResolutionError(action) # "none" THEN ResolutionError(action)
        ELSE IF Ballots(u) = {} THEN "ApprovalNotPendingError"
        ELSE BallotError(u, chosen, action)
  BY DEF VoteError
<1>3. \A b \in Ballots(u) : b = chosen
  <2> SUFFICES ASSUME NEW b \in Ballots(u), NEW c \in Ballots(u) PROVE b = c
    BY DEF chosen
  <2>1. /\ b.slot = c.slot /\ b.delegation = c.delegation
        /\ b \in [slot : DOMAIN approvals, delegation : 0..Len(delegations)]
        /\ c \in [slot : DOMAIN approvals, delegation : 0..Len(delegations)]
    BY OneBallot DEF Ballots
  <2> QED BY <2>1
<1> HIDE DEF chosen
<1>4. /\ BallotError(u, chosen, action) = "none" <=>
           Counts(u, chosen, action, Status(action))
      /\ BallotError(u, chosen, action) \in Raised
      /\ BallotError(u, chosen, action) \in Unmapped =>
           \E routed \in Votes : Misconfigured(routed)
  BY Balloted
<1>5. /\ ResolutionError(action) = "none" <=> Resolved(action) # {}
      /\ ResolutionError(action) \in Raised
      /\ ResolutionError(action) \in Unmapped =>
           Misconfigured(action)
  BY Transits
<1>6. VoteError(u, action) \in Raised
  BY <1>2, <1>4, <1>5 DEF Raised, Unmapped
<1>7. VoteError(u, action) = "none" <=> VoteCounts(u, action, Status(action))
  <2>1. VoteCounts(u, action, Status(action)) <=>
          Open /\ Ballots(u) # {} /\ Counts(u, chosen, action, Status(action))
    BY <1>3 DEF VoteCounts
  <2>2. Counts(u, chosen, action, Status(action)) => Resolved(action) # {}
    BY DEF Counts
  <2> QED BY <1>2, <1>4, <1>5, <2>1, <2>2
<1>8. VoteError(u, action) \in Unmapped =>
        \E routed \in Votes : Misconfigured(routed)
  BY <1>2, <1>4, <1>5 DEF Unmapped
<1> QED BY <1>1, <1>6, <1>7, <1>8, Mapped

LEMMA ExecuteAnswered ==
  ASSUME TypeOK, NEW u, NEW action, action \notin Votes
  PROVE  /\ Answer(u, action) = 200 <=>
              ~Terminal(current) /\ Runs(u, action)
         /\ Answer(u, action) = 500 => Misconfigured(action)
<1>1. Answer(u, action) = StatusOf(ExecuteError(u, action))
  BY DEF Answer
<1>2. ExecuteError(u, action) =
        IF Terminal(current) THEN "WorkflowAlreadyCompletedError"
        ELSE RunError(u, action)
  BY DEF ExecuteError
<1>3. ExecuteError(u, action) \in Raised
  BY <1>2, Transits DEF Raised
<1>4. /\ ExecuteError(u, action) = "none" <=> ~Terminal(current) /\ Runs(u, action)
      /\ ExecuteError(u, action) \in Unmapped => Misconfigured(action)
  BY <1>2, Transits DEF Unmapped
<1> QED BY <1>1, <1>3, <1>4, Mapped

(* A vote that decide carries out was one that counts.                     *)
LEMMA DecideCounted ==
  ASSUME NEW u, NEW action, NEW status, Decide(u, action, status)
  PROVE  VoteCounts(u, action, status)
<1>1. PICK t \in Resolved(action), i \in DOMAIN approvals, d \in 0..Len(delegations) :
        /\ Candidate(u, i, d)
        /\ Authority(u, d) \in t.may
        /\ SelfApprovalAllowed(approvals[i], Authority(u, d))
        /\ LET rows == Voted(u, i, d, status)
               outcome == StepOutcome(rows, current, i)
           IN  outcome = "partial" \/ Settle(outcome, Authority(u, d), rows)
  BY DEF Decide
<1> DEFINE b == [slot |-> i, delegation |-> d]
<1>2. b \in Ballots(u) /\ b.slot = i /\ b.delegation = d
  BY <1>1 DEF Ballots
<1> HIDE DEF b
<1>3. Settles(u, b, status)
  <2> DEFINE outcome == StepOutcome(Voted(u, i, d, status), current, i)
  <2>1. CASE outcome = "partial"
    BY <1>2, <2>1 DEF Settles
  <2>2. CASE Settle(outcome, Authority(u, d), Voted(u, i, d, status))
    <3>1. Runs(Authority(u, d), IF outcome = "advance" THEN "approve" ELSE "reject")
      BY <2>2 DEF Settle, ApplyTransition, Runs
    <3> QED BY <1>2, <3>1 DEF Settles
  <2> QED BY <1>1, <2>1, <2>2
<1>4. Counts(u, b, action, status)
  BY <1>1, <1>2, <1>3 DEF Counts
<1> QED BY <1>2, <1>4 DEF VoteCounts, Decide

(* WorkflowExecutionViewSet.transition answers with success exactly where  *)
(* the guards of decide and execute_transition let the call through: for a *)
(* vote, where the one slot the user has may be decided with the authority *)
(* used, and the transition the vote may trigger is open to that authority *)
(* and leads to a step that finds its approvers.                           *)
THEOREM SuccessIsPermission ==
  Spec =>
    [](Started => \A u \in Users, action \in Actions :
         Answer(u, action) = 200 <=>
           IF action \in Votes THEN VoteCounts(u, action, Status(action))
           ELSE ~Terminal(current) /\ Runs(u, action))
<1>1. TypeOK =>
        (Started => \A u \in Users, action \in Actions :
           Answer(u, action) = 200 <=>
             IF action \in Votes THEN VoteCounts(u, action, Status(action))
             ELSE ~Terminal(current) /\ Runs(u, action))
  BY VoteAnswered, ExecuteAnswered
<1> QED BY <1>1, TypeCorrect, PTL

(* A client is told of a server error only where the definition routes     *)
(* ambiguously, a condition cannot be evaluated or a step's approvers      *)
(* cannot be resolved.                                                     *)
THEOREM ErrorsAlwaysExplained == Spec => []ServerErrorsExplained
<1>1. TypeOK => ServerErrorsExplained
  BY VoteAnswered, ExecuteAnswered DEF ServerErrorsExplained
<1> QED BY <1>1, TypeCorrect, PTL

(* Nothing a user does takes effect where the endpoint would have answered *)
(* that user with an error.                                                *)
THEOREM EffectsAlwaysAnswered == Spec => EffectsAnswered
<1> DEFINE Answered ==
      \A u \in Users :
        /\ Approve(u) => Answer(u, "approve") = 200
        /\ Reject(u) => Answer(u, "reject") = 200
        /\ \A action \in Actions \ Votes :
             Execute(u, action) => Answer(u, action) = 200
<1>1. TypeOK => Answered
  <2> SUFFICES ASSUME TypeOK, NEW u \in Users
               PROVE  /\ Approve(u) => Answer(u, "approve") = 200
                      /\ Reject(u) => Answer(u, "reject") = 200
                      /\ \A action \in Actions \ Votes :
                           Execute(u, action) => Answer(u, action) = 200
    OBVIOUS
  <2>1. ASSUME Approve(u) PROVE Answer(u, "approve") = 200
    <3>1. VoteCounts(u, "approve", "APPROVED")
      BY <2>1, DecideCounted DEF Approve
    <3>2. Status("approve") = "APPROVED" /\ "approve" \in Votes
      BY DEF Status, Votes
    <3> QED BY <3>1, <3>2, VoteAnswered
  <2>2. ASSUME Reject(u) PROVE Answer(u, "reject") = 200
    <3>1. VoteCounts(u, "reject", "REJECTED")
      BY <2>2, DecideCounted DEF Reject
    <3>2. Status("reject") = "REJECTED" /\ "reject" \in Votes
      BY DEF Status, Votes
    <3> QED BY <3>1, <3>2, VoteAnswered
  <2>3. ASSUME NEW action \in Actions \ Votes, Execute(u, action)
        PROVE  Answer(u, action) = 200
    <3>1. ~Terminal(current) /\ Runs(u, action)
      BY <2>3 DEF Execute, ApplyTransition, Runs
    <3> QED BY <2>3, <3>1, ExecuteAnswered
  <2> QED BY <2>1, <2>2, <2>3
<1>2. TypeOK /\ [Next]_vars => [Answered]_vars
  BY <1>1
<1>3. [][TypeOK /\ [Next]_vars]_vars => [][Answered]_vars
  BY <1>2, PTL
<1> QED BY <1>2, TypeCorrect, PTL DEF Spec, EffectsAnswered

-----------------------------------------------------------------------------
(* Walks: transitions that follow one another from a start.                *)

(* Where a walk stands after k of its transitions.                         *)
Stand(walk, start, k) == IF k = 0 THEN start ELSE walk[k].target

IsWalk(w, start, walk) ==
  /\ walk \in Seq(w.transitions)
  /\ \A k \in 1..Len(walk) : walk[k].source = Stand(walk, start, k - 1)

(* A walk passes from state to state, and the path functions read its end. *)
LEMMA Stands ==
  ASSUME NEW w \in Workflow, NEW start \in States, NEW walk \in Seq(w.transitions)
  PROVE  /\ Len(walk) \in Nat
         /\ \A k \in 0..Len(walk) : Stand(walk, start, k) \in States
         /\ PathStates(walk, start) \in Seq(States)
         /\ Len(PathStates(walk, start)) = Len(walk) + 1
         /\ \A k \in 0..Len(walk) : PathStates(walk, start)[k + 1] = Stand(walk, start, k)
         /\ EndOf(walk, start) = Stand(walk, start, Len(walk))
<1> DEFINE targets == [k \in DOMAIN walk |-> walk[k].target]
<1>1. Len(walk) \in Nat /\ DOMAIN walk = 1..Len(walk)
  OBVIOUS
<1>2. \A k \in 1..Len(walk) : walk[k].target \in States
  BY DEF Workflow, Transition
<1>3. /\ targets \in Seq(States) /\ Len(targets) = Len(walk)
      /\ \A k \in 1..Len(walk) : targets[k] = walk[k].target
  BY <1>1, <1>2
<1> HIDE DEF targets
<1>4. PathStates(walk, start) = <<start>> \o targets
  BY DEF PathStates, targets
<1>5. /\ <<start>> \o targets \in Seq(States)
      /\ Len(<<start>> \o targets) = Len(walk) + 1
      /\ (<<start>> \o targets)[1] = start
      /\ \A k \in 1..Len(walk) : (<<start>> \o targets)[k + 1] = targets[k]
  BY <1>1, <1>3
<1>6. \A k \in 0..Len(walk) : PathStates(walk, start)[k + 1] = Stand(walk, start, k)
  BY <1>1, <1>3, <1>4, <1>5 DEF Stand
<1>7. \A k \in 0..Len(walk) : Stand(walk, start, k) \in States
  BY <1>1, <1>2 DEF Stand
<1> QED BY <1>1, <1>4, <1>5, <1>6, <1>7 DEF EndOf

(* A walk goes on with any transition that leaves its end.                 *)
LEMMA WalkAppend ==
  ASSUME NEW w \in Workflow, NEW start \in States, NEW walk, IsWalk(w, start, walk),
         NEW t \in w.transitions, t.source = EndOf(walk, start)
  PROVE  /\ IsWalk(w, start, Append(walk, t)) /\ EndOf(Append(walk, t), start) = t.target
         /\ Len(Append(walk, t)) = Len(walk) + 1
<1> DEFINE more == Append(walk, t)
<1>1. walk \in Seq(w.transitions) /\ Len(walk) \in Nat
  BY DEF IsWalk
<1>2. /\ more \in Seq(w.transitions) /\ Len(more) = Len(walk) + 1
      /\ \A k \in 1..Len(walk) : more[k] = walk[k]
      /\ more[Len(walk) + 1] = t
  BY <1>1
<1> HIDE DEF more
<1>3. \A k \in 0..Len(walk) : Stand(more, start, k) = Stand(walk, start, k)
  BY <1>1, <1>2 DEF Stand
<1>4. EndOf(walk, start) = Stand(walk, start, Len(walk))
  BY <1>1, Stands
<1>5. EndOf(more, start) = Stand(more, start, Len(more))
  BY <1>2, Stands
<1>6. ASSUME NEW k \in 1..Len(more)
      PROVE  more[k].source = Stand(more, start, k - 1)
  <2>1. CASE k = Len(walk) + 1
    BY <1>1, <1>2, <1>3, <1>4, <2>1
  <2>2. CASE k \in 1..Len(walk)
    <3>1. walk[k].source = Stand(walk, start, k - 1)
      BY <2>2 DEF IsWalk
    <3> QED BY <1>1, <1>2, <1>3, <2>2, <3>1
  <2> QED BY <1>1, <1>2, <2>1, <2>2
<1>7. EndOf(more, start) = t.target
  BY <1>1, <1>2, <1>5 DEF Stand
<1> QED BY <1>2, <1>6, <1>7 DEF IsWalk, more

(* The part of a list up to a place, and the part after it.                *)
LEMMA CutFront ==
  ASSUME NEW S, NEW list \in Seq(S), NEW k \in 0..Len(list),
         NEW front, front = SubSeq(list, 1, k)
  PROVE  front \in Seq(S) /\ Len(front) = k /\ \A j \in 1..k : front[j] = list[j]
<1>1. /\ Len(list) \in Nat /\ k \in Int /\ 1 \in Int
      /\ \A i \in 1..k : list[i] \in S
  OBVIOUS
<1>2. /\ front \in Seq(S) /\ Len(front) = IF 1 <= k THEN k - 1 + 1 ELSE 0
      /\ \A i \in 1..k - 1 + 1 : front[i] = list[1 + i - 1]
  BY <1>1, SubSeqProperties
<1>3. \A j \in 1..k : j \in 1..k - 1 + 1 /\ 1 + j - 1 = j
  BY <1>1
<1> QED BY <1>1, <1>2, <1>3

LEMMA CutRest ==
  ASSUME NEW S, NEW list \in Seq(S), NEW k \in 0..Len(list),
         NEW rest, rest = SubSeq(list, k + 1, Len(list))
  PROVE  /\ rest \in Seq(S) /\ Len(rest) = Len(list) - k
         /\ \A j \in 1..(Len(list) - k) : rest[j] = list[k + j]
<1>1. /\ Len(list) \in Int /\ Len(list) \in Nat /\ k \in Int /\ k + 1 \in Int
      /\ \A i \in k + 1..Len(list) : list[i] \in S
  OBVIOUS
<1>2. /\ rest \in Seq(S)
      /\ Len(rest) = IF k + 1 <= Len(list) THEN Len(list) - (k + 1) + 1 ELSE 0
      /\ \A i \in 1..Len(list) - (k + 1) + 1 : rest[i] = list[k + 1 + i - 1]
  BY <1>1, SubSeqProperties
<1>3. \A j \in 1..(Len(list) - k) :
        j \in 1..Len(list) - (k + 1) + 1 /\ k + 1 + j - 1 = k + j
  BY <1>1
<1> QED BY <1>1, <1>2, <1>3

(* Everything before a place on a walk is a walk to there, and everything  *)
(* after it a walk from there.                                             *)
LEMMA WalkParts ==
  ASSUME NEW w \in Workflow, NEW start \in States, NEW walk, IsWalk(w, start, walk),
         NEW k \in 0..Len(walk)
  PROVE  LET front == SubSeq(walk, 1, k)
             rest == SubSeq(walk, k + 1, Len(walk))
             there == Stand(walk, start, k)
         IN  /\ IsWalk(w, start, front) /\ Len(front) = k /\ EndOf(front, start) = there
             /\ \A j \in 1..k : front[j] = walk[j]
             /\ IsWalk(w, there, rest) /\ Len(rest) = Len(walk) - k
             /\ \A j \in 1..(Len(walk) - k) : rest[j] = walk[k + j]
             /\ EndOf(rest, there) = EndOf(walk, start) /\ there \in States
<1> DEFINE front == SubSeq(walk, 1, k)
           rest == SubSeq(walk, k + 1, Len(walk))
           there == Stand(walk, start, k)
<1>1. walk \in Seq(w.transitions) /\ Len(walk) \in Nat /\ k \in Nat
  BY DEF IsWalk
<1> HIDE DEF there
<1>2. /\ front \in Seq(w.transitions) /\ Len(front) = k
      /\ \A j \in 1..k : front[j] = walk[j]
  <2> DEFINE S == w.transitions
  <2>1. walk \in Seq(S) /\ k \in 0..Len(walk) /\ front = SubSeq(walk, 1, k)
    BY <1>1
  <2> HIDE DEF front, rest, S
  <2>2. front \in Seq(S) /\ Len(front) = k /\ \A j \in 1..k : front[j] = walk[j]
    BY <2>1, CutFront
  <2> QED BY <2>2 DEF S
<1>3. /\ rest \in Seq(w.transitions) /\ Len(rest) = Len(walk) - k
      /\ \A j \in 1..(Len(walk) - k) : rest[j] = walk[k + j]
  <2> DEFINE S == w.transitions
  <2>1. walk \in Seq(S) /\ k \in 0..Len(walk) /\ rest = SubSeq(walk, k + 1, Len(walk))
    BY <1>1
  <2> HIDE DEF front, rest, S
  <2>2. /\ rest \in Seq(S) /\ Len(rest) = Len(walk) - k
        /\ \A j \in 1..(Len(walk) - k) : rest[j] = walk[k + j]
    BY <2>1, CutRest
  <2> QED BY <2>2 DEF S
<1>4. there \in States
  BY <1>1, Stands DEF there
<1> HIDE DEF front, rest
<1>5. \A j \in 0..k : Stand(front, start, j) = Stand(walk, start, j)
  BY <1>1, <1>2 DEF Stand
<1>6. \A j \in 0..(Len(walk) - k) : Stand(rest, there, j) = Stand(walk, start, k + j)
  <2> SUFFICES ASSUME NEW j \in 0..(Len(walk) - k)
               PROVE  Stand(rest, there, j) = Stand(walk, start, k + j)
    OBVIOUS
  <2>1. CASE j = 0
    <3>1. k + j = k
      BY <1>1, <2>1
    <3> QED BY <2>1, <3>1 DEF Stand, there
  <2>2. CASE j # 0
    <3>1. j \in 1..(Len(walk) - k) /\ k + j # 0
      BY <1>1, <2>2
    <3> QED BY <1>3, <2>2, <3>1 DEF Stand
  <2> QED BY <2>1, <2>2
<1>7. IsWalk(w, start, front)
  <2> SUFFICES ASSUME NEW j \in 1..k PROVE front[j].source = Stand(front, start, j - 1)
    BY <1>2 DEF IsWalk
  <2>1. walk[j].source = Stand(walk, start, j - 1)
    BY <1>1 DEF IsWalk
  <2> QED BY <1>1, <1>2, <1>5, <2>1
<1>8. IsWalk(w, there, rest)
  <2> SUFFICES ASSUME NEW j \in 1..(Len(walk) - k)
               PROVE  rest[j].source = Stand(rest, there, j - 1)
    BY <1>3 DEF IsWalk
  <2>1. walk[k + j].source = Stand(walk, start, k + j - 1)
    BY <1>1 DEF IsWalk
  <2>2. j - 1 \in 0..(Len(walk) - k) /\ k + (j - 1) = k + j - 1
    BY <1>1
  <2> QED BY <1>3, <1>6, <2>1, <2>2
<1>9. EndOf(front, start) = there
  BY <1>1, <1>2, <1>5, Stands DEF there
<1>10. EndOf(rest, there) = EndOf(walk, start)
  <2>1. EndOf(rest, there) = Stand(rest, there, Len(rest))
    BY <1>3, <1>4, Stands
  <2>2. EndOf(walk, start) = Stand(walk, start, Len(walk))
    BY <1>1, Stands
  <2> QED BY <1>1, <1>3, <1>6, <2>1, <2>2
<1> QED BY <1>2, <1>3, <1>4, <1>7, <1>8, <1>9, <1>10 DEF front, rest, there

(* Every state on a walk is reachable.                                     *)
LEMMA WalkReaches ==
  ASSUME NEW w \in Workflow, NEW start \in States, NEW walk, IsWalk(w, start, walk)
  PROVE  \A k \in 0..Len(walk) : Stand(walk, start, k) \in ReachableStates(w, start)
<1> DEFINE C == Closure(w, {start})
           T == {k \in Nat : k <= Len(walk) => Stand(walk, start, k) \in C}
<1>1. start \in C /\ Closed(w, C)
  BY ClosureLeast
<1>2. walk \in Seq(w.transitions) /\ Len(walk) \in Nat
  BY DEF IsWalk
<1> HIDE DEF C
<1>3. 0 \in T
  BY <1>1 DEF Stand
<1>4. ASSUME NEW k \in Nat, k \in T
      PROVE  k + 1 \in T
  <2> SUFFICES ASSUME k + 1 <= Len(walk) PROVE Stand(walk, start, k + 1) \in C
    OBVIOUS
  <2>1. walk[k + 1] \in w.transitions /\ walk[k + 1].source = Stand(walk, start, k)
    <3>1. k + 1 \in 1..Len(walk) /\ (k + 1) - 1 = k
      BY <1>2
    <3> QED BY <1>2, <3>1 DEF IsWalk
  <2>2. Stand(walk, start, k) \in C
    BY <1>2, <1>4
  <2>3. walk[k + 1].target \in C
    BY <1>1, <2>1, <2>2 DEF Closed
  <2> QED BY <2>3 DEF Stand
<1> HIDE DEF T
<1>5. \A k \in Nat : k \in T
  BY <1>3, <1>4, EveryNatural
<1> QED BY <1>2, <1>5, ReachableIsClosure DEF T, C

(* What is reachable is what some walk leads to.                           *)
LEMMA ReachableByWalk ==
  ASSUME NEW w \in Workflow, NEW start \in States
  PROVE  \A s : s \in ReachableStates(w, start) <=>
                  \E walk : IsWalk(w, start, walk) /\ EndOf(walk, start) = s
<1> DEFINE C == {s \in States : \E walk : IsWalk(w, start, walk) /\ EndOf(walk, start) = s}
<1>1. start \in C
  <2>1. IsWalk(w, start, <<>>) /\ Len(<<>>) = 0 /\ <<>> \in Seq(w.transitions)
    BY DEF IsWalk
  <2>2. EndOf(<<>>, start) = start
    BY <2>1, Stands DEF Stand
  <2> QED BY <2>1, <2>2
<1>2. Closed(w, C)
  <2> SUFFICES ASSUME NEW t \in w.transitions, NEW walk, IsWalk(w, start, walk),
                      EndOf(walk, start) = t.source
               PROVE  t.target \in C
    BY DEF Closed
  <2>1. t.target \in States
    BY DEF Workflow, Transition
  <2>2. IsWalk(w, start, Append(walk, t)) /\ EndOf(Append(walk, t), start) = t.target
    BY WalkAppend
  <2> QED BY <2>1, <2>2
<1>3. ASSUME NEW s \in ReachableStates(w, start)
      PROVE  \E walk : IsWalk(w, start, walk) /\ EndOf(walk, start) = s
  <2>1. s \in Closure(w, {start})
    BY ReachableIsClosure
  <2>2. {start} \subseteq C
    BY <1>1
  <2> HIDE DEF C
  <2>3. Closure(w, {start}) \subseteq C
    BY <1>2, <2>2, ClosureLeast
  <2>4. s \in C
    BY <2>1, <2>3
  <2> QED BY <2>4 DEF C
<1>4. ASSUME NEW walk, IsWalk(w, start, walk)
      PROVE  EndOf(walk, start) \in ReachableStates(w, start)
  <2>1. walk \in Seq(w.transitions) /\ Len(walk) \in Nat
    BY <1>4 DEF IsWalk
  <2>2. EndOf(walk, start) = Stand(walk, start, Len(walk))
    BY <2>1, Stands
  <2> QED BY <1>4, <2>1, <2>2, WalkReaches
<1> QED BY <1>3, <1>4

-----------------------------------------------------------------------------
(* Executions are walks.                                                   *)

(* The transitions an execution took are a walk from where it began to the *)
(* current state, along actions that no pair of unconditional transitions  *)
(* makes ambiguous.                                                        *)
Journey ==
  /\ Started => /\ Origin \in States
                /\ IsWalk(definition, Origin, path)
                /\ current = EndOf(path, Origin)
  /\ \A k \in DOMAIN path : ~Ambiguous(definition, path[k].source, path[k].name)

(* A resolved action is an unambiguous one that leaves the state.          *)
LEMMA RoutedFrom ==
  ASSUME TypeOK, NEW action, NEW t \in Resolved(action)
  PROVE  /\ t \in definition.transitions /\ t.source = current /\ t.name = action
         /\ ~Ambiguous(definition, t.source, t.name)
<1>1. /\ Passing(action) = {t} /\ t \in definition.transitions
      /\ t.source = current /\ t.name = action
  BY DEF Resolved, Passing, Judged
<1>2. ASSUME \A v \in TransitionsFor(definition, current, action) : ~Conditioned(v)
      PROVE  TransitionsFor(definition, current, action) = {t}
  <2>1. \A v \in TransitionsFor(definition, current, action) : v \in Passing(action)
    BY <1>2 DEF TransitionsFor, TransitionsFrom, Conditioned, Passing, Judged, TypeOK
  <2>2. Passing(action) \subseteq TransitionsFor(definition, current, action)
    BY DEF TransitionsFor, TransitionsFrom, Passing, Judged
  <2> QED BY <1>1, <2>1, <2>2
<1>3. Cardinality({t}) = 1
  BY FS_Singleton
<1> QED BY <1>1, <1>2, <1>3 DEF Ambiguous

(* A call starts the execution, takes one resolved transition, or neither. *)
LEMMA StepRoutes ==
  ASSUME Life, [Next]_vars
  PROVE  /\ definition' = definition
         /\ \/ UNCHANGED <<current, path>>
            \/ ~Started /\ current' \in States /\ path' = path
            \/ /\ Started
               /\ \E action : \E t \in Resolved(action) :
                    current' = t.target /\ path' = Append(path, t)
<1>1. definition' = definition
  BY StepLife
<1>2. ASSUME NEW u \in Actors, NEW action, Execute(u, action)
      PROVE  /\ Started
             /\ \E t \in Resolved(action) : current' = t.target /\ path' = Append(path, t)
  BY <1>2 DEF Execute, ApplyTransition
<1>3. ASSUME NEW u \in Users, NEW action, NEW status \in Decided, Decide(u, action, status),
             ~UNCHANGED <<current, path>>
      PROVE  /\ Started
             /\ \E a : \E t \in Resolved(a) : current' = t.target /\ path' = Append(path, t)
  <2>1. Started
    BY <1>3 DEF Decide, Open
  <2>2. PICK i \in DOMAIN approvals, d \in 0..Len(delegations) : \E outcome :
          Settle(outcome, Authority(u, d), Voted(u, i, d, status))
    BY <1>3 DEF Decide
  <2> QED BY <2>1, <2>2 DEF Settle, ApplyTransition
<1>4. \A u \in Users : Approve(u) \/ Reject(u) =>
        \E status \in Decided : \E action : Decide(u, action, status)
  BY DEF Approve, Reject, Decided
<1>5. \/ UNCHANGED <<current, path>>
      \/ \E u \in Actors : Start(u)
      \/ \E u \in Actors : \E action : Execute(u, action)
      \/ \E u \in Users, status \in Decided : \E action : Decide(u, action, status)
  BY <1>4 DEF Next, vars, Delegate, Lapse, Escalate, EditObject
<1>6. ASSUME NEW u \in Actors, Start(u)
      PROVE  ~Started /\ current' \in States /\ path' = path
  BY <1>6, DefinitionsAssumption DEF Start, Workflow
<1> QED BY <1>1, <1>2, <1>3, <1>5, <1>6

(* Every step of the engine keeps the execution on a walk.                 *)
LEMMA StepJourney ==
  ASSUME Life, Journey, [Next]_vars
  PROVE  Journey'
<1>1. /\ definition \in Workflow /\ definition.initial \in States
      /\ path \in Seq(Transition)
  BY DefinitionsAssumption DEF Life, TypeOK, Workflow
<1>2. definition' = definition
  BY StepRoutes
<1>3. CASE UNCHANGED <<current, path>>
  BY <1>2, <1>3 DEF Journey, Started, Origin
<1>4. CASE ~Started /\ current' \in States /\ path' = path
  <2>1. path = <<>> /\ path' = <<>>
    BY <1>4 DEF Life, Unstarted
  <2>2. <<>> \in Seq(definition.transitions) /\ Len(<<>>) = 0
    OBVIOUS
  <2>3. Origin' = current'
    BY <2>1 DEF Origin
  <2>4. IsWalk(definition, current', <<>>)
    BY <2>2 DEF IsWalk
  <2>5. EndOf(<<>>, current') = current'
    BY <1>1, <1>4, <2>2, Stands DEF Stand
  <2> QED BY <1>2, <1>4, <2>1, <2>3, <2>4, <2>5 DEF Journey
<1>5. ASSUME Started, NEW action, NEW t \in Resolved(action),
             current' = t.target, path' = Append(path, t)
      PROVE  Journey'
  <2>1. /\ t \in definition.transitions /\ t.source = current
        /\ ~Ambiguous(definition, t.source, t.name)
    BY <1>5, RoutedFrom DEF Life
  <2>2. /\ Origin \in States /\ IsWalk(definition, Origin, path)
        /\ t.source = EndOf(path, Origin)
    BY <1>5, <2>1 DEF Journey
  <2>3. Origin' = Origin
    <3>1. t \in Transition
      BY <1>1, <2>1 DEF Workflow
    <3>2. path' # <<>> /\ path'[1] = IF path = <<>> THEN t ELSE path[1]
      BY <1>1, <1>5, <3>1
    <3> QED BY <2>1, <3>2 DEF Origin
  <2>6. /\ IsWalk(definition, Origin, path')
        /\ EndOf(path', Origin) = current'
    BY <1>1, <1>5, <2>1, <2>2, WalkAppend
  <2>4. \A k \in DOMAIN path' : 
          path'[k] = t \/ (k \in DOMAIN path /\ path'[k] = path[k])
    <3>1. t \in Transition
      BY <1>1, <2>1 DEF Workflow
    <3> QED BY <1>1, <1>5, <3>1
  <2>5. \A k \in DOMAIN path' : ~Ambiguous(definition, path'[k].source, path'[k].name)
    BY <2>1, <2>4 DEF Journey
  <2> QED BY <1>2, <2>2, <2>3, <2>5, <2>6 DEF Journey
<1> QED BY <1>3, <1>4, <1>5, StepRoutes

(* The invariant of the inspection theorems.                               *)
LEMMA AlwaysJourney == Spec => [](Life /\ Journey)
<1>1. Init => Journey
  BY DEF Init, Journey, Started
<1>2. Life /\ Journey /\ [Next]_vars => Journey'
  BY StepJourney
<1> QED BY <1>1, <1>2, LifeInvariant, PTL DEF Spec

(* What the invariant says of the execution's definition and path.         *)
LEMMA JourneyFacts ==
  ASSUME Life, Journey
  PROVE  /\ definition \in Workflow /\ definition.initial \in States
         /\ path \in Seq(Transition) /\ Len(path) \in Nat /\ DOMAIN path = 1..Len(path)
         /\ Started => /\ Origin \in States /\ path \in Seq(definition.transitions)
                       /\ Walked = PathStates(path, Origin)
                       /\ DOMAIN Walked = 1..(Len(path) + 1)
                       /\ \A k \in DOMAIN Walked :
                            /\ k - 1 \in 0..Len(path)
                            /\ Walked[k] = Stand(path, Origin, k - 1)
         /\ ~Started => path = <<>> /\ Walked = <<>>
<1>1. /\ definition \in Workflow /\ definition.initial \in States
      /\ path \in Seq(Transition) /\ Len(path) \in Nat /\ DOMAIN path = 1..Len(path)
  BY DefinitionsAssumption DEF Life, TypeOK, Workflow
<1>2. ASSUME Started
      PROVE  /\ Origin \in States /\ path \in Seq(definition.transitions)
             /\ Walked = PathStates(path, Origin)
             /\ DOMAIN Walked = 1..(Len(path) + 1)
             /\ \A k \in DOMAIN Walked :
                  /\ k - 1 \in 0..Len(path)
                  /\ Walked[k] = Stand(path, Origin, k - 1)
  <2>1. Origin \in States /\ path \in Seq(definition.transitions)
    BY <1>2 DEF Journey, IsWalk
  <2>2. Walked = PathStates(path, Origin)
    BY <1>2 DEF Walked
  <2>3. /\ PathStates(path, Origin) \in Seq(States)
        /\ Len(PathStates(path, Origin)) = Len(path) + 1
        /\ \A k \in 0..Len(path) :
             PathStates(path, Origin)[k + 1] = Stand(path, Origin, k)
    BY <1>1, <2>1, Stands
  <2>4. DOMAIN Walked = 1..(Len(path) + 1)
    BY <1>1, <2>2, <2>3
  <2>5. ASSUME NEW k \in DOMAIN Walked
        PROVE  /\ k - 1 \in 0..Len(path)
               /\ Walked[k] = Stand(path, Origin, k - 1)
    <3>1. k \in Nat /\ k - 1 \in 0..Len(path) /\ (k - 1) + 1 = k
      BY <1>1, <2>4, <2>5
    <3> QED BY <2>2, <2>3, <3>1
  <2> QED BY <2>1, <2>2, <2>4, <2>5
<1>3. ~Started => path = <<>> /\ Walked = <<>>
  BY DEF Life, Unstarted, Walked
<1> QED BY <1>1, <1>2, <1>3

(* validate_definition: no execution takes an action that validation calls *)
(* ambiguous, nor enters a state that it calls unreachable, unless it      *)
(* began in one.                                                           *)
THEOREM FindingsAlwaysRespected == Spec => []FindingsRespected
<1>1. Life /\ Journey => FindingsRespected
  <2> SUFFICES ASSUME Life, Journey PROVE FindingsRespected
    OBVIOUS
  <2>1. ASSUME NEW s, CalledUnreachable(s)
        PROVE  s \notin ReachableStates(definition, definition.initial)
    <3>1. PICK r \in UnreachableStates(definition) :
            [code |-> "unreachable_state", at |-> <<s>>]
              = [code |-> "unreachable_state", at |-> <<r>>]
      BY <2>1 DEF Findings, CalledUnreachable
    <3>2. <<s>> = <<r>>
      BY <3>1
    <3> QED BY <3>2 DEF UnreachableStates
  <2>2. ASSUME NEW a, NEW n, NEW b,
               [code |-> "ambiguous_action", at |-> <<a, n, b>>] \in Findings(definition)
        PROVE  Ambiguous(definition, a, n)
    <3>1. PICK t \in definition.transitions :
            /\ Ambiguous(definition, t.source, t.name)
            /\ [code |-> "ambiguous_action", at |-> <<a, n, b>>]
                 = [code |-> "ambiguous_action", at |-> <<t.source, t.name, t.target>>]
      BY <2>2 DEF Findings
    <3>2. <<a, n, b>> = <<t.source, t.name, t.target>>
      BY <3>1
    <3> QED BY <3>1, <3>2
  <2>3. ASSUME Started, ~CalledUnreachable(Origin), NEW k \in DOMAIN Walked
        PROVE  ~CalledUnreachable(Walked[k])
    <3> DEFINE initial == definition.initial
               C == Closure(definition, {initial})
    <3>1. /\ definition \in Workflow /\ initial \in States /\ Origin \in States
          /\ k - 1 \in 0..Len(path) /\ Walked[k] = Stand(path, Origin, k - 1)
      BY <2>3, JourneyFacts
    <3>2. IsWalk(definition, Origin, path)
      BY <2>3 DEF Journey
    <3>3. Walked[k] \in ReachableStates(definition, Origin)
      BY <3>1, <3>2, WalkReaches
    <3>4. Origin \in ReachableStates(definition, initial)
      BY <2>3, <3>1 DEF CalledUnreachable, Findings, UnreachableStates
    <3>5. Origin \in C /\ Walked[k] \in Closure(definition, {Origin})
      BY <3>1, <3>3, <3>4, ReachableIsClosure
    <3>6. Closed(definition, C)
      <4>1. {initial} \in SUBSET States
        BY <3>1
      <4> QED BY <3>1, <4>1, ClosureLeast
    <3>7. Closure(definition, {Origin}) \subseteq C
      <4>1. {Origin} \in SUBSET States /\ {Origin} \subseteq C
        BY <3>1, <3>5
      <4> HIDE DEF C
      <4> QED BY <3>1, <3>6, <4>1, ClosureLeast
    <3>8. Walked[k] \in ReachableStates(definition, initial)
      BY <3>1, <3>5, <3>7, ReachableIsClosure
    <3> QED BY <2>1, <3>8
  <2>4. \A k \in DOMAIN path : ~Ambiguous(definition, path[k].source, path[k].name)
    BY DEF Journey
  <2> QED BY <2>1, <2>2, <2>3, <2>4 DEF FindingsRespected
<1> QED BY <1>1, AlwaysJourney, PTL

-----------------------------------------------------------------------------
(* Simple paths.                                                           *)

(* Lists are the same when they agree at every place.                      *)
LEMMA SameList ==
  ASSUME NEW S, NEW a \in Seq(S), NEW b \in Seq(S), Len(a) = Len(b),
         \A k \in 1..Len(a) : a[k] = b[k]
  PROVE  a = b
OBVIOUS

(* A walk that enters no state twice and meets no end before its last.     *)
Simple(w, start, ends, walk) ==
  /\ IsWalk(w, start, walk)
  /\ \A k \in 1..Len(walk) : \A j \in 0..k - 1 :
       Stand(walk, start, j) # Stand(walk, start, k)
  /\ \A k \in 0..Len(walk) - 1 : Stand(walk, start, k) \notin ends

Direct(w, start, ends, n) ==
  {walk \in Seq(w.transitions) : Simple(w, start, ends, walk) /\ Len(walk) = n}

(* The walks of the next length.                                           *)
Longer(w, start, ends, walks) ==
  UNION {{Append(walk, t) : t \in {v \in TransitionsFrom(w, EndOf(walk, start)) :
                                     Unvisited(walk, start, v)}} :
         walk \in {p \in walks : EndOf(p, start) \notin ends}}

(* Without a transition there is one simple path.                          *)
LEMMA DirectZero ==
  ASSUME NEW w \in Workflow, NEW start \in States, NEW ends
  PROVE  Direct(w, start, ends, 0) = {<<>>}
<1>1. \A walk \in Seq(w.transitions) : Len(walk) = 0 <=> walk = <<>>
  OBVIOUS
<1>2. <<>> \in Seq(w.transitions) /\ Len(<<>>) = 0
  OBVIOUS
<1>3. Simple(w, start, ends, <<>>)
  BY <1>2 DEF Simple, IsWalk
<1> QED BY <1>1, <1>2, <1>3 DEF Direct

(* A simple path that has not ended goes on to an unvisited state.         *)
LEMMA SimpleAppend ==
  ASSUME NEW w \in Workflow, NEW start \in States, NEW ends, NEW walk,
         Simple(w, start, ends, walk), EndOf(walk, start) \notin ends,
         NEW t \in TransitionsFrom(w, EndOf(walk, start)), Unvisited(walk, start, t)
  PROVE  Append(walk, t) \in Direct(w, start, ends, Len(walk) + 1)
<1> DEFINE more == Append(walk, t)
           n == Len(walk)
<1>1. /\ IsWalk(w, start, walk) /\ walk \in Seq(w.transitions) /\ n \in Nat
      /\ t \in w.transitions /\ t.source = EndOf(walk, start)
  BY DEF Simple, IsWalk, TransitionsFrom
<1>2. /\ IsWalk(w, start, more) /\ Len(more) = n + 1
      /\ more \in Seq(w.transitions)
  BY <1>1, WalkAppend
<1>3. /\ \A k \in 1..n : more[k] = walk[k]
      /\ more[n + 1] = t
  BY <1>1
<1>4. /\ \A k \in 0..n : PathStates(walk, start)[k + 1] = Stand(walk, start, k)
      /\ EndOf(walk, start) = Stand(walk, start, n)
  BY <1>1, Stands
<1> HIDE DEF more, n
<1>5. /\ \A k \in 0..n : Stand(more, start, k) = Stand(walk, start, k)
      /\ Stand(more, start, n + 1) = t.target
  BY <1>1, <1>3 DEF Stand
<1>6. \A k \in 0..n : Stand(walk, start, k) # t.target
  BY <1>4 DEF Unvisited, n
<1>7. ASSUME NEW k \in 1..n + 1, NEW j \in 0..k - 1
      PROVE  Stand(more, start, j) # Stand(more, start, k)
  <2>1. CASE k = n + 1
    BY <1>1, <1>5, <1>6, <2>1
  <2>2. CASE k \in 1..n
    <3>1. Stand(walk, start, j) # Stand(walk, start, k)
      BY <2>2 DEF Simple, n
    <3>2. j \in 0..n /\ k \in 0..n
      BY <1>1, <2>2
    <3> QED BY <1>5, <3>1, <3>2
  <2> QED BY <1>1, <2>1, <2>2
<1>8. ASSUME NEW k \in 0..n
      PROVE  Stand(more, start, k) \notin ends
  <2>1. CASE k = n
    BY <1>1, <1>4, <1>5, <2>1
  <2>2. CASE k \in 0..n - 1
    <3>1. Stand(walk, start, k) \notin ends
      BY <2>2 DEF Simple, n
    <3> QED BY <1>5, <3>1
  <2> QED BY <1>1, <2>1, <2>2
<1>9. Simple(w, start, ends, more)
  <2>1. \A k \in 0..Len(more) - 1 : Stand(more, start, k) \notin ends
    BY <1>1, <1>2, <1>8
  <2> QED BY <1>2, <1>7, <2>1 DEF Simple
<1> QED BY <1>2, <1>9 DEF Direct, more, n

(* The beginning of a simple path is one.                                  *)
LEMMA SimpleFront ==
  ASSUME NEW w \in Workflow, NEW start \in States, NEW ends, NEW walk,
         Simple(w, start, ends, walk), walk # <<>>
  PROVE  LET n == Len(walk) - 1
             front == SubSeq(walk, 1, n)
             t == walk[n + 1]
         IN  /\ n \in Nat /\ front \in Direct(w, start, ends, n)
             /\ EndOf(front, start) \notin ends
             /\ t \in TransitionsFrom(w, EndOf(front, start))
             /\ Unvisited(front, start, t) /\ walk = Append(front, t)
<1> DEFINE n == Len(walk) - 1
           front == SubSeq(walk, 1, n)
           t == walk[n + 1]
<1>1. /\ IsWalk(w, start, walk) /\ walk \in Seq(w.transitions)
      /\ Len(walk) \in Nat /\ n \in Nat /\ n \in 0..Len(walk) /\ Len(walk) = n + 1
  <2>1. walk \in Seq(w.transitions)
    BY DEF Simple, IsWalk
  <2> QED BY <2>1 DEF Simple
<1>2. /\ IsWalk(w, start, front) /\ Len(front) = n
      /\ EndOf(front, start) = Stand(walk, start, n)
      /\ \A j \in 1..n : front[j] = walk[j]
  BY <1>1, WalkParts
<1>3. front \in Seq(w.transitions)
  BY <1>2 DEF IsWalk
<1> HIDE DEF n, front, t
<1>4. \A k \in 0..n : Stand(front, start, k) = Stand(walk, start, k)
  BY <1>1, <1>2 DEF Stand
<1>5. \A k \in 0..n : PathStates(front, start)[k + 1] = Stand(front, start, k)
  BY <1>2, <1>3, Stands
<1>6. /\ t \in w.transitions /\ t.source = Stand(walk, start, n)
      /\ t.target = Stand(walk, start, n + 1)
  <2>1. n + 1 \in 1..Len(walk) /\ (n + 1) - 1 = n /\ n + 1 # 0
    BY <1>1
  <2>2. walk[n + 1].source = Stand(walk, start, n)
    BY <1>1, <2>1 DEF IsWalk
  <2>3. walk[n + 1] \in w.transitions
    BY <1>1, <2>1
  <2> QED BY <2>1, <2>2, <2>3 DEF t, Stand
<1>7. /\ \A k \in 1..n + 1 : \A j \in 0..k - 1 :
           Stand(walk, start, j) # Stand(walk, start, k)
      /\ \A k \in 0..n : Stand(walk, start, k) \notin ends
  BY <1>1 DEF Simple
<1>8. Simple(w, start, ends, front)
  <2>1. ASSUME NEW k \in 1..n, NEW j \in 0..k - 1
        PROVE  Stand(front, start, j) # Stand(front, start, k)
    <3>1. k \in 1..n + 1 /\ k \in 0..n /\ j \in 0..n
      BY <1>1
    <3> QED BY <1>4, <1>7, <3>1
  <2>2. \A k \in 0..n - 1 : Stand(front, start, k) \notin ends
    BY <1>1, <1>4, <1>7
  <2> QED BY <1>2, <2>1, <2>2 DEF Simple
<1>9. Unvisited(front, start, t)
  <2>1. \A k \in 0..n : Stand(walk, start, k) # Stand(walk, start, n + 1)
    BY <1>1, <1>7
  <2> QED BY <1>2, <1>4, <1>5, <1>6, <2>1 DEF Unvisited
<1>10. walk = Append(front, t)
  <2> DEFINE more == Append(front, t)
  <2>1. /\ more \in Seq(w.transitions) /\ Len(more) = n + 1
        /\ \A k \in 1..n : more[k] = front[k]
        /\ more[n + 1] = t
    BY <1>1, <1>2, <1>3, <1>6
  <2> HIDE DEF more
  <2>2. \A k \in 1..Len(walk) : walk[k] = more[k]
    BY <1>1, <1>2, <2>1 DEF t
  <2> QED BY <1>1, <2>1, <2>2, SameList DEF more
<1> QED BY <1>1, <1>2, <1>3, <1>6, <1>7, <1>8, <1>9, <1>10
        DEF Direct, TransitionsFrom, n, front, t

(* The simple paths of one more transition are the extensions of these.    *)
LEMMA DirectStep ==
  ASSUME NEW w \in Workflow, NEW start \in States, NEW ends, NEW n \in Nat
  PROVE  Direct(w, start, ends, n + 1) = Longer(w, start, ends, Direct(w, start, ends, n))
<1>1. ASSUME NEW walk \in Direct(w, start, ends, n + 1)
      PROVE  walk \in Longer(w, start, ends, Direct(w, start, ends, n))
  <2>1. Simple(w, start, ends, walk) /\ Len(walk) = n + 1 /\ walk # <<>>
    BY <1>1 DEF Direct
  <2>2. Len(walk) - 1 = n
    BY <2>1
  <2> DEFINE front == SubSeq(walk, 1, n)
             t == walk[n + 1]
  <2>3. /\ front \in Direct(w, start, ends, n) /\ EndOf(front, start) \notin ends
        /\ t \in TransitionsFrom(w, EndOf(front, start))
        /\ Unvisited(front, start, t) /\ walk = Append(front, t)
    BY <2>1, <2>2, SimpleFront
  <2> HIDE DEF front, t
  <2> QED BY <2>3 DEF Longer
<1>2. ASSUME NEW more \in Longer(w, start, ends, Direct(w, start, ends, n))
      PROVE  more \in Direct(w, start, ends, n + 1)
  <2>1. PICK walk \in Direct(w, start, ends, n) : \E t :
          /\ EndOf(walk, start) \notin ends
          /\ t \in TransitionsFrom(w, EndOf(walk, start)) /\ Unvisited(walk, start, t)
          /\ more = Append(walk, t)
    BY DEF Longer
  <2>2. Simple(w, start, ends, walk) /\ Len(walk) = n
    BY DEF Direct
  <2> QED BY <2>1, <2>2, SimpleAppend
<1> QED BY <1>1, <1>2

(* What the enumeration reports: every simple path to an end, of at most   *)
(* the limit.                                                              *)
LEMMA SimplePathsAre ==
  ASSUME NEW w \in Workflow, NEW start \in States, NEW ends, NEW limit \in Nat
  PROVE  SimplePaths(w, start, ends, limit) =
           IF limit < 1 THEN {}
           ELSE {walk \in UNION {Direct(w, start, ends, n) : n \in 0..limit} :
                   EndOf(walk, start) \in ends}
<1> DEFINE rule(f) ==
             [n \in 0..limit |->
                IF n = 0 THEN {<<>>}
                ELSE UNION {{Append(walk, t) : t \in
                               {v \in TransitionsFrom(w, EndOf(walk, start)) :
                                  Unvisited(walk, start, v)}} :
                            walk \in {p \in f[n - 1] : EndOf(p, start) \notin ends}}]
           Walks == CHOOSE f : f = rule(f)
           known == [n \in 0..limit |-> Direct(w, start, ends, n)]
<1>1. SimplePaths(w, start, ends, limit) =
        IF limit < 1 THEN {}
        ELSE {walk \in UNION {Walks[n] : n \in 0..limit} : EndOf(walk, start) \in ends}
  BY DEF SimplePaths
<1>2. ASSUME NEW f
      PROVE  rule(f) = [n \in 0..limit |->
                          IF n = 0 THEN {<<>>} ELSE Longer(w, start, ends, f[n - 1])]
  BY DEF Longer
<1> HIDE DEF rule
<1>3. known = rule(known)
  <2>1. ASSUME NEW n \in 0..limit
        PROVE  Direct(w, start, ends, n) =
                 IF n = 0 THEN {<<>>} ELSE Longer(w, start, ends, known[n - 1])
    <3>1. CASE n = 0
      BY <3>1, DirectZero
    <3>2. CASE n # 0
      <4>1. n - 1 \in Nat /\ n - 1 \in 0..limit /\ (n - 1) + 1 = n
        BY <3>2
      <4>2. known[n - 1] = Direct(w, start, ends, n - 1)
        BY <4>1
      <4>3. Direct(w, start, ends, (n - 1) + 1) =
              Longer(w, start, ends, Direct(w, start, ends, n - 1))
        BY <4>1, DirectStep, Zenon
      <4> QED BY <3>2, <4>1, <4>2, <4>3
    <3> QED BY <3>1, <3>2
  <2> HIDE DEF known
  <2>2. rule(known) = [n \in 0..limit |->
                         IF n = 0 THEN {<<>>} ELSE Longer(w, start, ends, known[n - 1])]
    BY <1>2
  <2>3. rule(known) = [n \in 0..limit |-> Direct(w, start, ends, n)]
    BY <2>1, <2>2
  <2> QED BY <2>3 DEF known
<1>4. Walks = rule(Walks)
  <2> HIDE DEF known
  <2> QED BY <1>3
<1> HIDE DEF Walks
<1>5. \A n \in 0..limit :
        Walks[n] = IF n = 0 THEN {<<>>} ELSE Longer(w, start, ends, Walks[n - 1])
  BY <1>2, <1>4
<1> DEFINE T == {n \in Nat : n <= limit => Walks[n] = Direct(w, start, ends, n)}
<1>6. 0 \in T
  <2>1. Walks[0] = {<<>>}
    BY <1>5
  <2>2. Direct(w, start, ends, 0) = {<<>>}
    BY DirectZero
  <2> QED BY <2>1, <2>2
<1>7. ASSUME NEW n \in Nat, n \in T
      PROVE  n + 1 \in T
  <2> SUFFICES ASSUME n + 1 <= limit PROVE Walks[n + 1] = Direct(w, start, ends, n + 1)
    OBVIOUS
  <2>1. n + 1 \in 0..limit /\ n + 1 # 0 /\ (n + 1) - 1 = n /\ n <= limit
    OBVIOUS
  <2>2. Walks[n + 1] = Longer(w, start, ends, Walks[n])
    BY <1>5, <2>1
  <2> QED BY <1>7, <2>1, <2>2, DirectStep
<1> HIDE DEF T
<1>8. \A n \in Nat : n \in T
  BY <1>6, <1>7, EveryNatural
<1>9. \A n \in 0..limit : Walks[n] = Direct(w, start, ends, n)
  BY <1>8 DEF T
<1>10. {Walks[n] : n \in 0..limit} = {Direct(w, start, ends, n) : n \in 0..limit}
  BY <1>9
<1> QED BY <1>1, <1>10

-----------------------------------------------------------------------------
(* Wherever a walk leads, a simple path leads along transitions it took.   *)

Joined(first, second) == first \o second

(* A walk and a walk from its end are one walk.                            *)
LEMMA WalkConcat ==
  ASSUME NEW w \in Workflow, NEW start \in States,
         NEW first, IsWalk(w, start, first),
         NEW second, IsWalk(w, EndOf(first, start), second)
  PROVE  /\ IsWalk(w, start, Joined(first, second))
         /\ EndOf(Joined(first, second), start) = EndOf(second, EndOf(first, start))
         /\ Len(Joined(first, second)) = Len(first) + Len(second)
         /\ \A k \in 1..Len(Joined(first, second)) :
              \/ k \in 1..Len(first) /\ Joined(first, second)[k] = first[k]
              \/ /\ k - Len(first) \in 1..Len(second)
                 /\ Joined(first, second)[k] = second[k - Len(first)]
<1> DEFINE joined == Joined(first, second)
           there == EndOf(first, start)
           m == Len(first)
           n == Len(second)
<1>1. /\ first \in Seq(w.transitions) /\ second \in Seq(w.transitions)
      /\ m \in Nat /\ n \in Nat
  BY DEF IsWalk
<1>2. /\ joined \in Seq(w.transitions) /\ Len(joined) = m + n
      /\ \A k \in 1..m + n : joined[k] = IF k <= m THEN first[k] ELSE second[k - m]
  BY <1>1, ConcatProperties DEF Joined
<1>3. there = Stand(first, start, m) /\ there \in States
  BY <1>1, Stands
<1>4. EndOf(second, there) = Stand(second, there, n)
  BY <1>1, <1>3, Stands
<1>11. IsWalk(w, there, second)
  OBVIOUS
<1> HIDE DEF joined, there, m, n
<1>5. EndOf(joined, start) = Stand(joined, start, m + n)
  BY <1>2, Stands
<1>6. \A k \in 0..m : Stand(joined, start, k) = Stand(first, start, k)
  BY <1>1, <1>2 DEF Stand
<1>7. ASSUME NEW k \in 0..n
      PROVE  Stand(joined, start, m + k) = Stand(second, there, k)
  <2>1. CASE k = 0
    <3>1. m + k = m /\ m \in 0..m
      BY <1>1, <2>1
    <3>2. Stand(second, there, k) = there
      BY <2>1 DEF Stand
    <3> QED BY <1>3, <1>6, <3>1, <3>2
  <2>2. CASE k # 0
    <3>1. m + k \in 1..m + n /\ ~(m + k <= m) /\ (m + k) - m = k /\ m + k # 0
      BY <1>1, <2>2
    <3>2. joined[m + k] = second[k]
      BY <1>2, <3>1
    <3> QED BY <2>2, <3>1, <3>2 DEF Stand
  <2> QED BY <2>1, <2>2
<1>8. ASSUME NEW k \in 1..m + n
      PROVE  joined[k].source = Stand(joined, start, k - 1)
  <2>1. CASE k <= m
    <3>1. k \in 1..m /\ k - 1 \in 0..m
      BY <1>1, <2>1
    <3>2. first[k].source = Stand(first, start, k - 1)
      BY <3>1 DEF IsWalk, m
    <3> QED BY <1>2, <1>6, <2>1, <3>1, <3>2
  <2>2. CASE ~(k <= m)
    <3>1. k - m \in 1..n /\ (k - m) - 1 \in 0..n /\ m + ((k - m) - 1) = k - 1
      BY <1>1, <2>2
    <3>2. second[k - m].source = Stand(second, there, (k - m) - 1)
      BY <1>11, <3>1 DEF IsWalk, n
    <3>3. Stand(joined, start, m + ((k - m) - 1)) = Stand(second, there, (k - m) - 1)
      BY <1>7, <3>1
    <3> QED BY <1>2, <2>2, <3>1, <3>2, <3>3
  <2> QED BY <2>1, <2>2
<1>9. ASSUME NEW k \in 1..m + n
      PROVE  \/ k \in 1..m /\ joined[k] = first[k]
             \/ k - m \in 1..n /\ joined[k] = second[k - m]
  BY <1>1, <1>2
<1>10. EndOf(joined, start) = EndOf(second, there)
  <2>1. n \in 0..n
    BY <1>1
  <2> QED BY <1>4, <1>5, <1>7, <2>1
<1> QED BY <1>2, <1>8, <1>9, <1>10 DEF IsWalk, joined, there, m, n

(* Walks from start to an end along the transitions of another.            *)
Along(w, start, ends, walk) ==
  {q \in Seq(w.transitions) :
     /\ IsWalk(w, start, q) /\ EndOf(q, start) \in ends
     /\ \A k \in 1..Len(q) : \E j \in 1..Len(walk) : q[k] = walk[j]}

(* A walk that is not simple can be cut short, along its own transitions.  *)
LEMMA ShorterAlong ==
  ASSUME NEW w \in Workflow, NEW start \in States, NEW ends,
         NEW walk, NEW q \in Along(w, start, ends, walk),
         \A r \in Along(w, start, ends, walk) : Len(q) <= Len(r)
  PROVE  Simple(w, start, ends, q)
<1> DEFINE n == Len(q)
<1>1. /\ IsWalk(w, start, q) /\ EndOf(q, start) \in ends /\ n \in Nat
      /\ q \in Seq(w.transitions)
      /\ \A k \in 1..n : \E j \in 1..Len(walk) : q[k] = walk[j]
  BY DEF Along
<1> HIDE DEF n
<1>2. ASSUME NEW k \in 0..n - 1, Stand(q, start, k) \in ends
      PROVE  FALSE
  <2> DEFINE front == SubSeq(q, 1, k)
  <2>1. k \in 0..n /\ k \in Nat
    BY <1>1
  <2>2. /\ IsWalk(w, start, front) /\ Len(front) = k
        /\ EndOf(front, start) = Stand(q, start, k)
        /\ \A j \in 1..k : front[j] = q[j]
    BY <1>1, <2>1, WalkParts DEF n
  <2> HIDE DEF front
  <2>3. front \in Seq(w.transitions)
    BY <2>2 DEF IsWalk
  <2>4. \A j \in 1..k : j \in 1..n
    BY <1>1, <2>1
  <2>5. front \in Along(w, start, ends, walk)
    BY <1>1, <1>2, <2>2, <2>3, <2>4 DEF Along
  <2>6. n <= k
    BY <2>2, <2>5 DEF n
  <2> QED BY <1>1, <2>1, <2>6
<1>3. ASSUME NEW k \in 1..n, NEW j \in 0..k - 1, Stand(q, start, j) = Stand(q, start, k)
      PROVE  FALSE
  <2> DEFINE front == SubSeq(q, 1, j)
             rest == SubSeq(q, k + 1, n)
             there == Stand(q, start, k)
             cut == Joined(front, rest)
  <2>1. j \in 0..n /\ j \in Nat /\ k \in 0..n /\ k \in Nat /\ j < k
    BY <1>1
  <2>2. /\ IsWalk(w, start, front) /\ Len(front) = j
        /\ EndOf(front, start) = there
        /\ \A i \in 1..j : front[i] = q[i]
    BY <1>1, <1>3, <2>1, WalkParts DEF n
  <2>3. /\ IsWalk(w, there, rest) /\ Len(rest) = n - k
        /\ \A i \in 1..(n - k) : rest[i] = q[k + i]
        /\ EndOf(rest, there) = EndOf(q, start)
    BY <1>1, <2>1, WalkParts DEF n
  <2> HIDE DEF front, rest, there
  <2> HIDE DEF cut
  <2>9. /\ IsWalk(w, start, cut) /\ EndOf(cut, start) = EndOf(rest, there)
        /\ Len(cut) = Len(front) + Len(rest)
        /\ \A i \in 1..Len(cut) :
             \/ i \in 1..Len(front) /\ cut[i] = front[i]
             \/ /\ i - Len(front) \in 1..Len(rest)
                /\ cut[i] = rest[i - Len(front)]
    <3>1. IsWalk(w, start, front) /\ there = EndOf(front, start) /\ IsWalk(w, there, rest)
      BY <2>2, <2>3
    <3> QED BY <3>1, WalkConcat DEF cut
  <2>4. /\ IsWalk(w, start, cut) /\ EndOf(cut, start) = EndOf(rest, there)
        /\ Len(cut) = j + (n - k)
        /\ \A i \in 1..Len(cut) :
             \/ i \in 1..j /\ cut[i] = front[i]
             \/ i - j \in 1..(n - k) /\ cut[i] = rest[i - j]
    BY <2>2, <2>3, <2>9
  <2>5. ASSUME NEW i \in 1..Len(cut)
        PROVE  \E l \in 1..n : cut[i] = q[l]
    <3>1. CASE i \in 1..j /\ cut[i] = front[i]
      <4>1. i \in 1..n
        BY <1>1, <2>1, <3>1
      <4> QED BY <2>2, <3>1, <4>1
    <3>2. CASE i - j \in 1..(n - k) /\ cut[i] = rest[i - j]
      <4>1. k + (i - j) \in 1..n
        BY <1>1, <2>1, <3>2
      <4> QED BY <2>3, <3>2, <4>1
    <3> QED BY <2>4, <3>1, <3>2
  <2>6. cut \in Seq(w.transitions)
    BY <2>4 DEF IsWalk
  <2>7. cut \in Along(w, start, ends, walk)
    BY <1>1, <2>3, <2>4, <2>5, <2>6 DEF Along
  <2>8. n <= j + (n - k)
    BY <2>4, <2>7 DEF n
  <2> QED BY <1>1, <2>1, <2>8
<1> QED BY <1>1, <1>2, <1>3 DEF Simple, n

(* A simple path has fewer transitions than there are states.              *)
LEMMA SimpleShort ==
  ASSUME NEW w \in Workflow, NEW start \in States, NEW ends, NEW q,
         Simple(w, start, ends, q)
  PROVE  Cardinality(States) \in Nat /\ Len(q) \in Nat /\ Len(q) < Cardinality(States)
<1> DEFINE n == Len(q)
           f == [k \in 0..n |-> Stand(q, start, k)]
<1>1. /\ q \in Seq(w.transitions) /\ n \in Nat
      /\ \A k \in 1..n : \A j \in 0..k - 1 : Stand(q, start, j) # Stand(q, start, k)
  BY DEF Simple, IsWalk
<1>2. f \in [0..n -> States]
  BY <1>1, Stands
<1> HIDE DEF n
<1>3. \A x, y \in 0..n : x < y => f[x] # f[y]
  BY <1>1
<1> HIDE DEF f
<1>4. \A x, y \in 0..n : x # y => f[x] # f[y]
  BY <1>1, <1>3
<1>5. IsFiniteSet(0..n) /\ Cardinality(0..n) = n + 1
  BY <1>1, FS_Interval
<1>6. IsFiniteSet(States) /\ Cardinality(States) \in Nat
  BY FiniteAssumption, FS_CardinalityType
<1>7. ~(Cardinality(States) < n + 1)
  <2> SUFFICES ASSUME Cardinality(States) < Cardinality(0..n) PROVE FALSE
    BY <1>5
  <2>1. \E x, y \in 0..n : x # y /\ f[x] = f[y]
    BY <1>2, <1>5, <1>6, FS_PigeonHole
  <2> QED BY <1>4, <2>1
<1> QED BY <1>1, <1>6, <1>7 DEF n

(* The enumeration with the number of states as its limit misses nothing.  *)
LEMMA PathFound ==
  ASSUME NEW w \in Workflow, NEW start \in States, NEW ends,
         NEW walk, IsWalk(w, start, walk), EndOf(walk, start) \in ends
  PROVE  \E q \in SimplePaths(w, start, ends, Cardinality(States)) :
           \A k \in 1..Len(q) : \E j \in 1..Len(walk) : q[k] = walk[j]
<1> DEFINE lengths == {Len(q) : q \in Along(w, start, ends, walk)}
           N == Cardinality(States)
<1>1. walk \in Along(w, start, ends, walk)
  BY DEF Along, IsWalk
<1>2. lengths \in SUBSET Nat /\ lengths # {}
  <2>1. \A q \in Along(w, start, ends, walk) : Len(q) \in Nat
    BY DEF Along
  <2> QED BY <1>1, <2>1
<1>3. PICK m \in lengths : \A n \in lengths : m <= n
  <2> HIDE DEF lengths
  <2> QED BY <1>2, LeastNatural
<1>4. PICK q \in Along(w, start, ends, walk) : m = Len(q)
  BY <1>3
<1>5. \A r \in Along(w, start, ends, walk) : Len(q) <= Len(r)
  BY <1>3, <1>4
<1>6. Simple(w, start, ends, q)
  BY <1>5, ShorterAlong
<1>7. N \in Nat /\ Len(q) \in Nat /\ Len(q) < N
  BY <1>6, SimpleShort
<1>8. q \in Direct(w, start, ends, Len(q)) /\ EndOf(q, start) \in ends
  BY <1>6 DEF Along, Direct
<1> HIDE DEF N
<1>9. Len(q) \in 0..N /\ ~(N < 1)
  BY <1>7
<1>10. q \in UNION {Direct(w, start, ends, n) : n \in 0..N}
  BY <1>8, <1>9
<1>11. q \in SimplePaths(w, start, ends, N)
  BY <1>7, <1>8, <1>9, <1>10, SimplePathsAre
<1> QED BY <1>11 DEF Along, N

(* What the enumeration reports, path by path.                             *)
LEMMA PathIsSimple ==
  ASSUME NEW w \in Workflow, NEW start \in States, NEW ends,
         NEW q \in SimplePaths(w, start, ends, Cardinality(States))
  PROVE  /\ Simple(w, start, ends, q) /\ IsWalk(w, start, q)
         /\ q \in Seq(w.transitions) /\ EndOf(q, start) \in ends
<1>1. Cardinality(States) \in Nat
  BY FiniteAssumption, FS_CardinalityType
<1>2. PICK n \in 0..Cardinality(States) : q \in Direct(w, start, ends, n)
  BY <1>1, SimplePathsAre
<1>3. EndOf(q, start) \in ends
  BY <1>1, SimplePathsAre
<1> QED BY <1>2, <1>3 DEF Direct, Simple

(* Some end is reachable exactly when the enumeration finds a path.        *)
LEMMA EndReachable ==
  ASSUME NEW w \in Workflow, NEW start \in States, NEW ends
  PROVE  SimplePaths(w, start, ends, Cardinality(States)) # {} <=>
           ReachableStates(w, start) \cap ends # {}
<1>1. ASSUME NEW q \in SimplePaths(w, start, ends, Cardinality(States))
      PROVE  ReachableStates(w, start) \cap ends # {}
  <2>1. IsWalk(w, start, q) /\ EndOf(q, start) \in ends
    BY PathIsSimple
  <2> QED BY <2>1, ReachableByWalk
<1>2. ASSUME NEW s \in ReachableStates(w, start) \cap ends
      PROVE  SimplePaths(w, start, ends, Cardinality(States)) # {}
  <2>1. PICK walk : IsWalk(w, start, walk) /\ EndOf(walk, start) = s
    BY ReachableByWalk
  <2> QED BY <2>1, PathFound
<1> QED BY <1>1, <1>2

-----------------------------------------------------------------------------
(* The completion check.                                                   *)

(* What the check names is what the enumeration finds no way out of.       *)
LEMMA StuckAre ==
  ASSUME NEW w \in Workflow, NEW start \in States
  PROVE  StuckStates(w, start) =
           {s \in ReachableStates(w, start) : SimulateAll(w, s, Cardinality(States)) = {}}
<1> DEFINE paths(s) == SimulateAll(w, s, Cardinality(States))
<1>1. ReachableStates(w, start) \subseteq States
  BY ReachableStart
<1>2. ASSUME NEW s \in States
      PROVE  paths(s) = {} <=> ReachableStates(w, s) \cap TerminalStates(w) = {}
  BY EndReachable DEF SimulateAll
<1>3. \A s \in States : s \in ReachableStates(w, s)
  BY ReachableStart
<1> HIDE DEF paths
<1>4. StuckStates(w, start) = {s \in ReachableStates(w, start) : paths(s) = {}}
  BY <1>1, <1>2, <1>3 DEF StuckStates
<1> QED BY <1>4 DEF paths

(* An execution that was in a stuck state has not completed.               *)
LEMMA StuckNeverCompletes ==
  ASSUME Life, Journey, completed, NEW k \in DOMAIN Walked
  PROVE  Walked[k] \notin StuckStates(definition, definition.initial)
<1>1. Started /\ Terminal(current) /\ current \in States
  BY DEF Life, Sealed, Walked, Entered, Unstarted, TypeOK, Started
<1>2. /\ IsWalk(definition, Origin, path)
      /\ current = EndOf(path, Origin)
  BY <1>1 DEF Journey
<1>3. /\ definition \in Workflow /\ Origin \in States
      /\ k - 1 \in 0..Len(path) /\ Walked[k] = Stand(path, Origin, k - 1)
  BY <1>1, JourneyFacts
<1> DEFINE there == Stand(path, Origin, k - 1)
           rest == SubSeq(path, (k - 1) + 1, Len(path))
<1>4. /\ IsWalk(definition, there, rest) /\ there \in States
      /\ EndOf(rest, there) = EndOf(path, Origin)
  BY <1>2, <1>3, WalkParts
<1> HIDE DEF there, rest
<1>5. current \in ReachableStates(definition, there)
  BY <1>2, <1>3, <1>4, ReachableByWalk
<1>6. current \in TerminalStates(definition)
  BY <1>1 DEF Terminal, TerminalStates, TransitionsFrom
<1>7. there \notin StuckStates(definition, definition.initial)
  BY <1>5, <1>6 DEF StuckStates
<1> QED BY <1>3, <1>7 DEF there

(* verify_always_completes: the check agrees with path enumeration, and no *)
(* execution that was in a state it names has completed.                   *)
THEOREM CompletionAlwaysVerified == Spec => []CompletionVerified
<1>1. Life /\ Journey => CompletionVerified
  <2> SUFFICES ASSUME Life, Journey PROVE CompletionVerified
    OBVIOUS
  <2> DEFINE stuck == StuckStates(definition, definition.initial)
             without == {s \in ReachableStates(definition, definition.initial) :
                           SimulateAll(definition, s, Cardinality(States)) = {}}
  <2>1. stuck = without
    BY JourneyFacts, StuckAre
  <2>2. completed => \A k \in DOMAIN Walked : Walked[k] \notin stuck
    BY StuckNeverCompletes
  <2> HIDE DEF stuck, without
  <2> QED BY <2>1, <2>2 DEF CompletionVerified, stuck, without
<1> QED BY <1>1, AlwaysJourney, PTL

-----------------------------------------------------------------------------
(* Dry runs.                                                               *)

(* What Simulate does with the action after k of them.                     *)
Tried(w, actions, start, gate, max_steps, before, k) ==
  LET found == ResolveTarget(w, EndOf(before.steps, start), actions[k], gate)
  IN  IF before.blocked THEN before
      ELSE IF Len(before.steps) >= max_steps \/ found = {}
      THEN [before EXCEPT !.blocked = TRUE]
      ELSE [before EXCEPT !.steps = Append(@, CHOOSE t \in found : TRUE)]

(* The outcome of a dry run, given any function that agrees with it step   *)
(* by step.                                                                *)
LEMMA SimulateIs ==
  ASSUME NEW w, NEW actions, NEW start, NEW gate, NEW max_steps, NEW n \in Nat,
         n = Len(actions), NEW outcome,
         outcome[0] = [steps |-> <<>>, blocked |-> FALSE],
         \A k \in 1..n :
           outcome[k] = Tried(w, actions, start, gate, max_steps, outcome[k - 1], k)
  PROVE  Simulate(w, actions, start, gate, max_steps) = outcome[n]
<1> DEFINE rule(f) ==
             [k \in 0..Len(actions) |->
                IF k = 0 THEN [steps |-> <<>>, blocked |-> FALSE]
                ELSE LET before == f[k - 1]
                         found == ResolveTarget(w, EndOf(before.steps, start), actions[k], gate)
                     IN  IF before.blocked THEN before
                         ELSE IF Len(before.steps) >= max_steps \/ found = {}
                         THEN [before EXCEPT !.blocked = TRUE]
                         ELSE [before EXCEPT !.steps = Append(@, CHOOSE t \in found : TRUE)]]
           Run == CHOOSE f : f = rule(f)
           known == [k \in 0..n |-> outcome[k]]
           try(before, k) == Tried(w, actions, start, gate, max_steps, before, k)
<1>1. Simulate(w, actions, start, gate, max_steps) = Run[Len(actions)]
  BY DEF Simulate
<1>2. ASSUME NEW f
      PROVE  rule(f) = [k \in 0..n |->
                          IF k = 0 THEN [steps |-> <<>>, blocked |-> FALSE]
                          ELSE try(f[k - 1], k)]
  BY Zenon DEF Tried
<1> HIDE DEF rule, try
<1>3. known = rule(known)
  <2>1. ASSUME NEW k \in 0..n
        PROVE  outcome[k] = IF k = 0 THEN [steps |-> <<>>, blocked |-> FALSE]
                            ELSE try(known[k - 1], k)
    <3>1. CASE k = 0
      BY <3>1
    <3>2. CASE k # 0
      <4>1. k \in 1..n /\ k - 1 \in 0..n
        BY <3>2
      <4> QED BY <3>2, <4>1 DEF try
    <3> QED BY <3>1, <3>2
  <2> HIDE DEF known
  <2>2. rule(known) = [k \in 0..n |-> IF k = 0 THEN [steps |-> <<>>, blocked |-> FALSE]
                                      ELSE try(known[k - 1], k)]
    BY <1>2
  <2>3. rule(known) = [k \in 0..n |-> outcome[k]]
    BY <2>1, <2>2
  <2> QED BY <2>3 DEF known
<1>4. Run = rule(Run)
  <2> HIDE DEF known
  <2> QED BY <1>3
<1> HIDE DEF Run
<1>5. \A k \in 0..n : Run[k] = IF k = 0 THEN [steps |-> <<>>, blocked |-> FALSE]
                                ELSE try(Run[k - 1], k)
  BY <1>2, <1>4
<1> DEFINE T == {k \in Nat : k <= n => Run[k] = outcome[k]}
<1>6. 0 \in T
  BY <1>5
<1>7. ASSUME NEW k \in Nat, k \in T
      PROVE  k + 1 \in T
  <2> SUFFICES ASSUME k + 1 <= n PROVE Run[k + 1] = outcome[k + 1]
    OBVIOUS
  <2>1. k + 1 \in 0..n /\ k + 1 \in 1..n /\ k + 1 # 0 /\ (k + 1) - 1 = k /\ k <= n
    OBVIOUS
  <2>2. Run[k + 1] = try(Run[k], k + 1)
    BY <1>5, <2>1
  <2>3. outcome[k + 1] = try(outcome[k], k + 1)
    BY <2>1 DEF try
  <2> QED BY <1>7, <2>1, <2>2, <2>3
<1> HIDE DEF T
<1>8. \A k \in Nat : k \in T
  BY <1>6, <1>7, EveryNatural
<1>9. Run[n] = outcome[n]
  BY <1>8 DEF T
<1> QED BY <1>1, <1>9

(* The beginning of a walk grows by the walk's next transition.            *)
LEMMA FrontExtends ==
  ASSUME NEW S, NEW p \in Seq(S), NEW k \in 1..Len(p)
  PROVE  Append(SubSeq(p, 1, k - 1), p[k]) = SubSeq(p, 1, k)
<1> DEFINE before == SubSeq(p, 1, k - 1)
           after == SubSeq(p, 1, k)
           more == Append(before, p[k])
<1>1. k - 1 \in 0..Len(p) /\ k \in 0..Len(p) /\ k \in Nat /\ p[k] \in S
  OBVIOUS
<1>2. before \in Seq(S) /\ Len(before) = k - 1 /\ \A j \in 1..k - 1 : before[j] = p[j]
  <2>1. before = SubSeq(p, 1, k - 1)
    OBVIOUS
  <2> HIDE DEF before, after, more
  <2> QED BY <1>1, <2>1, CutFront
<1>3. after \in Seq(S) /\ Len(after) = k /\ \A j \in 1..k : after[j] = p[j]
  <2>1. after = SubSeq(p, 1, k)
    OBVIOUS
  <2> HIDE DEF before, after, more
  <2> QED BY <1>1, <2>1, CutFront
<1> HIDE DEF before, after
<1>4. /\ more \in Seq(S) /\ Len(more) = k
      /\ \A j \in 1..k - 1 : more[j] = before[j]
      /\ more[k] = p[k]
  BY <1>1, <1>2
<1> HIDE DEF more
<1>5. \A j \in 1..Len(more) : more[j] = after[j]
  BY <1>1, <1>2, <1>3, <1>4
<1>6. more = after
  BY <1>3, <1>4, <1>5, SameList
<1> QED BY <1>6 DEF more, before, after

(* The first actions of a walk, and no more, resolve to its transitions.   *)
Resolves(w, start, p, gate, stop) ==
  /\ \A k \in 1..stop :
       ResolveTarget(w, Stand(p, start, k - 1), p[k].name, gate) = {p[k]}
  /\ stop < Len(p) =>
       ResolveTarget(w, Stand(p, start, stop), p[stop + 1].name, gate) = {}

(* A dry run of a walk's actions goes along with it for as long as each    *)
(* action resolves to the walk's own transition.                           *)
LEMMA DryRun ==
  ASSUME NEW w \in Workflow, NEW start \in States, NEW p, IsWalk(w, start, p), NEW gate,
         NEW actions, actions = [k \in DOMAIN p |-> p[k].name],
         NEW stop \in 0..Len(p), Resolves(w, start, p, gate, stop)
  PROVE  Simulate(w, actions, start, gate, Len(p))
           = [steps |-> SubSeq(p, 1, stop), blocked |-> stop < Len(p)]
<1> DEFINE n == Len(p)
           front(k) == SubSeq(p, 1, k)
           shown(k) == IF k <= stop THEN [steps |-> front(k), blocked |-> FALSE]
                       ELSE [steps |-> front(stop), blocked |-> TRUE]
           outcome == [k \in 0..n |-> shown(k)]
<1>1. p \in Seq(w.transitions) /\ n \in Nat /\ DOMAIN p = 1..n
  BY DEF IsWalk
<1>2. Len(actions) = n /\ \A k \in 1..n : actions[k] = p[k].name
  BY <1>1
<1>3. ASSUME NEW k \in 0..n
      PROVE  Len(front(k)) = k /\ EndOf(front(k), start) = Stand(p, start, k)
  BY <1>1, WalkParts
<1>4. ASSUME NEW k \in 1..n
      PROVE  Append(front(k - 1), p[k]) = front(k)
  BY <1>1, FrontExtends
<1>5. front(0) = <<>>
  BY SubSeqEmpty
<1> HIDE DEF n, front
<1>6. outcome[0] = [steps |-> <<>>, blocked |-> FALSE]
  <2>1. 0 \in 0..n /\ 0 <= stop
    BY <1>1 DEF n
  <2> QED BY <1>5, <2>1
<1>7. ASSUME NEW k \in 1..n
      PROVE  outcome[k] = Tried(w, actions, start, gate, n, outcome[k - 1], k)
  <2>1. k \in 0..n /\ k - 1 \in 0..n /\ k - 1 \in Nat /\ stop \in Nat /\ stop <= n
    BY <1>1 DEF n
  <2>2. outcome[k] = shown(k) /\ outcome[k - 1] = shown(k - 1)
    BY <2>1
  <2> HIDE DEF outcome
  <2>3. CASE k <= stop
    <3>1. shown(k) = [steps |-> front(k), blocked |-> FALSE]
      BY <2>1, <2>3
    <3>2. shown(k - 1) = [steps |-> front(k - 1), blocked |-> FALSE]
      BY <2>1, <2>3
    <3> DEFINE before == front(k - 1)
               found == ResolveTarget(w, EndOf(before, start), actions[k], gate)
    <3>3. found = {p[k]}
      <4>1. k \in 1..stop
        BY <2>1, <2>3
      <4> QED BY <1>2, <1>3, <2>1, <4>1 DEF Resolves
    <3>4. ~(Len(before) >= n)
      BY <1>1, <1>3, <2>1
    <3>5. (CHOOSE t \in found : TRUE) = p[k]
      BY <3>3
    <3>6. Tried(w, actions, start, gate, n, shown(k - 1), k)
            = [steps |-> Append(before, CHOOSE t \in found : TRUE), blocked |-> FALSE]
      <4> HIDE DEF shown
      <4>1. shown(k - 1).steps = before /\ shown(k - 1).blocked = FALSE
        BY <3>2
      <4>2. found # {}
        BY <3>3
      <4>3. Tried(w, actions, start, gate, n, shown(k - 1), k)
              = [shown(k - 1) EXCEPT !.steps = Append(@, CHOOSE t \in found : TRUE)]
        BY <3>4, <4>1, <4>2 DEF Tried
      <4> HIDE DEF before, found
      <4> QED BY <3>2, <4>1, <4>3
    <3> QED BY <1>4, <2>2, <3>1, <3>5, <3>6
  <2>4. CASE k = stop + 1
    <3>1. shown(k) = [steps |-> front(stop), blocked |-> TRUE]
      BY <2>1, <2>4
    <3>2. shown(k - 1) = [steps |-> front(stop), blocked |-> FALSE]
      BY <2>1, <2>4
    <3> DEFINE before == front(stop)
               found == ResolveTarget(w, EndOf(before, start), actions[k], gate)
    <3>3. found = {}
      <4>1. stop < Len(p) /\ stop \in 0..n
        BY <1>1, <2>1, <2>4 DEF n
      <4> QED BY <1>2, <1>3, <2>4, <4>1 DEF Resolves
    <3>4. Tried(w, actions, start, gate, n, shown(k - 1), k)
            = [shown(k - 1) EXCEPT !.blocked = TRUE]
      <4> HIDE DEF shown
      <4>1. shown(k - 1).steps = before /\ shown(k - 1).blocked = FALSE
        BY <3>2
      <4> QED BY <3>3, <4>1 DEF Tried
    <3> QED BY <2>2, <3>1, <3>2, <3>4
  <2>5. CASE stop + 1 < k
    <3>1. shown(k) = shown(k - 1) /\ shown(k - 1).blocked = TRUE
      BY <2>1, <2>5
    <3> HIDE DEF shown
    <3> QED BY <2>2, <3>1 DEF Tried
  <2> QED BY <2>1, <2>3, <2>4, <2>5
<1> DEFINE try(before, k) == Tried(w, actions, start, gate, n, before, k)
<1>8. Simulate(w, actions, start, gate, n) = outcome[n]
  <2> HIDE DEF outcome
  <2> QED BY <1>1, <1>2, <1>6, <1>7, SimulateIs
<1>9. outcome[n] = [steps |-> front(stop), blocked |-> stop < n]
  <2>1. n \in 0..n /\ stop \in Nat /\ stop <= n
    BY <1>1 DEF n
  <2>2. outcome[n] = shown(n)
    BY <2>1
  <2>3. CASE stop = n
    <3>1. shown(n) = [steps |-> front(stop), blocked |-> FALSE]
      BY <1>1, <2>3
    <3>2. (stop < n) = FALSE
      BY <1>1, <2>3
    <3> QED BY <2>2, <3>1, <3>2
  <2>4. CASE stop # n
    <3>1. ~(n <= stop)
      BY <1>1, <2>1, <2>4
    <3>2. shown(n) = [steps |-> front(stop), blocked |-> TRUE]
      BY <3>1
    <3>3. (stop < n) = TRUE
      BY <1>1, <2>1, <2>4
    <3> QED BY <2>2, <3>2, <3>3
  <2> QED BY <2>3, <2>4
<1> HIDE DEF outcome
<1> QED BY <1>8, <1>9 DEF n, front

(* simulate: a dry run of the actions an execution took follows it, and    *)
(* where it stops short, conditions decide between transitions.            *)
THEOREM DryRunAlwaysFollows == Spec => []DryRunFollows
<1>1. Life /\ Journey => DryRunFollows
  <2> SUFFICES ASSUME Life, Journey, Started PROVE DryRunFollows
    BY DEF DryRunFollows
  <2> DEFINE w == definition
             start == Origin
             for(k) == TransitionsFor(w, path[k].source, path[k].name)
             n == Len(path)
             stops == {k \in 0..n : k = n \/ Cardinality(for(k + 1)) > 1}
  <2>1. /\ w \in Workflow /\ start \in States /\ n \in Nat
        /\ path \in Seq(w.transitions) /\ IsWalk(w, start, path)
    BY JourneyFacts DEF Journey
  <2>2. PICK stop \in stops : \A k \in stops : stop <= k
    <3>1. stops \in SUBSET Nat /\ stops # {}
      BY <2>1
    <3> HIDE DEF stops
    <3> QED BY <3>1, LeastNatural
  <2>3. /\ stop \in 0..n /\ stop \in Nat /\ stop <= n
        /\ stop < n => Cardinality(for(stop + 1)) > 1
    BY <2>1, <2>2
  <2>4. ASSUME NEW k \in 1..stop
        PROVE  ~(Cardinality(for(k)) > 1)
    <3>1. k - 1 \in 0..n /\ k - 1 # n /\ (k - 1) + 1 = k /\ ~(stop <= k - 1)
      BY <2>1, <2>3
    <3>2. k - 1 \notin stops
      BY <2>2, <3>1
    <3> QED BY <3>1, <3>2
  <2> HIDE DEF stops
  <2>5. ASSUME NEW k \in 1..n
        PROVE  /\ path[k] \in for(k) /\ IsFiniteSet(for(k))
               /\ for(k) \subseteq w.transitions
               /\ ResolveTarget(w, Stand(path, start, k - 1), path[k].name, w.transitions)
                    = {t \in for(k) : for(k) = {t}}
    <3>1. path[k].source = Stand(path, start, k - 1)
      BY <2>1 DEF IsWalk
    <3>2. for(k) \subseteq w.transitions
      BY DEF TransitionsFor, TransitionsFrom
    <3>3. IsFiniteSet(for(k))
      BY <3>2, Finite DEF Life
    <3>4. for(k) \cap w.transitions = for(k)
      BY <3>2
    <3>5. path[k] \in for(k)
      BY <2>1 DEF TransitionsFor, TransitionsFrom
    <3> QED BY <3>1, <3>2, <3>3, <3>4, <3>5 DEF ResolveTarget
  <2>6. ASSUME NEW k \in 1..stop
        PROVE  ResolveTarget(w, Stand(path, start, k - 1), path[k].name, w.transitions)
                 = {path[k]}
    <3>1. k \in 1..n
      BY <2>1, <2>3
    <3>2. for(k) = {path[k]}
      BY <2>4, <2>5, <3>1, OneOf
    <3> HIDE DEF for
    <3> QED BY <2>5, <3>1, <3>2
  <2>7. ASSUME stop < n
        PROVE  ResolveTarget(w, Stand(path, start, stop), path[stop + 1].name, w.transitions)
                 = {}
    <3>1. stop + 1 \in 1..n /\ (stop + 1) - 1 = stop
      BY <2>1, <2>3, <2>7
    <3>2. \A t : for(stop + 1) # {t}
      <4> SUFFICES ASSUME NEW t, for(stop + 1) = {t} PROVE FALSE
        OBVIOUS
      <4>1. Cardinality({t}) = 1
        BY FS_Singleton
      <4> QED BY <2>3, <2>7, <4>1
    <3> HIDE DEF for
    <3> QED BY <2>5, <3>1, <3>2
  <2> DEFINE actions == [k \in DOMAIN path |-> path[k].name]
             dry == Simulate(w, actions, start, w.transitions, Len(path))
  <2>8. dry = [steps |-> SubSeq(path, 1, stop), blocked |-> stop < n]
    <3>1. actions = [k \in DOMAIN path |-> path[k].name]
      OBVIOUS
    <3>2. stop \in 0..Len(path)
      BY <2>3
    <3>3. Resolves(w, start, path, w.transitions, stop)
      BY <2>6, <2>7 DEF Resolves
    <3>5. w \in Workflow /\ start \in States /\ IsWalk(w, start, path)
      BY <2>1
    <3> HIDE DEF actions, w, start, n
    <3>6. dry = [steps |-> SubSeq(path, 1, stop), blocked |-> stop < Len(path)]
      BY <3>1, <3>2, <3>3, <3>5, DryRun
    <3> QED BY <3>6 DEF n
  <2>9. Len(SubSeq(path, 1, stop)) = stop
    BY <2>1, <2>3, CutFront
  <2> HIDE DEF dry
  <2>10. dry.steps = SubSeq(path, 1, stop) /\ (dry.blocked <=> stop < n)
    BY <2>8
  <2>11. /\ Len(dry.steps) = stop /\ dry.steps = SubSeq(path, 1, Len(dry.steps))
         /\ dry.blocked <=> Len(dry.steps) < n
         /\ Len(dry.steps) < n =>
              Cardinality(TransitionsFor(w, path[Len(dry.steps) + 1].source,
                                         path[Len(dry.steps) + 1].name)) > 1
    BY <2>3, <2>9, <2>10
  <2> QED BY <2>11 DEF DryRunFollows, dry
<1> QED BY <1>1, AlwaysJourney, PTL

-----------------------------------------------------------------------------
(* Path enumeration.                                                       *)

(* On a simple path each transition is the only one that leaves its state. *)
LEMMA SimpleReplays ==
  ASSUME NEW w \in Workflow, NEW start \in States, NEW ends,
         NEW p \in SimplePaths(w, start, ends, Cardinality(States)),
         NEW actions, actions = [k \in DOMAIN p |-> p[k].name],
         NEW gate, gate = {p[k] : k \in DOMAIN p}
  PROVE  Simulate(w, actions, start, gate, Len(p)) = [steps |-> p, blocked |-> FALSE]
<1> DEFINE n == Len(p)
<1>1. /\ Simple(w, start, ends, p) /\ IsWalk(w, start, p) /\ p \in Seq(w.transitions)
      /\ n \in Nat /\ DOMAIN p = 1..n
  BY PathIsSimple
<1>2. ASSUME NEW k \in 1..n
      PROVE  ResolveTarget(w, Stand(p, start, k - 1), p[k].name, gate) = {p[k]}
  <2> DEFINE there == Stand(p, start, k - 1)
             passing == TransitionsFor(w, there, p[k].name) \cap gate
  <2>1. p[k] \in passing
    <3>1. p[k].source = there /\ p[k] \in w.transitions /\ p[k] \in gate
      BY <1>1 DEF IsWalk
    <3> QED BY <3>1 DEF TransitionsFor, TransitionsFrom
  <2>2. ASSUME NEW t \in passing
        PROVE  t = p[k]
    <3>1. PICK j \in 1..n : t = p[j]
      BY <1>1
    <3>2. p[j].source = there /\ p[j].source = Stand(p, start, j - 1)
      BY <1>1, <3>1 DEF TransitionsFor, TransitionsFrom, IsWalk
    <3>3. /\ \A l \in 1..n : \A m \in 0..l - 1 : Stand(p, start, m) # Stand(p, start, l)
          /\ j \in Nat /\ k \in Nat
      BY <1>1 DEF Simple
    <3>4. CASE j < k
      <4>1. k - 1 \in 1..n /\ j - 1 \in 0..(k - 1) - 1
        BY <1>1, <3>3, <3>4
      <4>2. Stand(p, start, j - 1) # Stand(p, start, k - 1)
        BY <3>3, <4>1
      <4> QED BY <3>2, <4>2
    <3>5. CASE k < j
      <4>1. j - 1 \in 1..n /\ k - 1 \in 0..(j - 1) - 1
        BY <1>1, <3>3, <3>5
      <4>2. Stand(p, start, k - 1) # Stand(p, start, j - 1)
        BY <3>3, <4>1
      <4> QED BY <3>2, <4>2
    <3>6. CASE j = k
      BY <3>1, <3>6
    <3> QED BY <3>3, <3>4, <3>5, <3>6
  <2>3. passing = {p[k]}
    BY <2>1, <2>2
  <2>4. ResolveTarget(w, there, p[k].name, gate) = {t \in passing : passing = {t}}
    BY DEF ResolveTarget
  <2> HIDE DEF passing
  <2> QED BY <2>3, <2>4
<1>3. Resolves(w, start, p, gate, n)
  <2>1. ~(n < Len(p))
    BY <1>1
  <2> HIDE DEF n
  <2> QED BY <1>2, <2>1, Zenon DEF Resolves
<1>4. n \in 0..Len(p)
  BY <1>1
<1>5. Simulate(w, actions, start, gate, Len(p))
        = [steps |-> SubSeq(p, 1, n), blocked |-> n < Len(p)]
  <2> HIDE DEF n
  <2> QED BY <1>1, <1>3, <1>4, DryRun
<1>6. SubSeq(p, 1, n) = p
  BY <1>1, SubSeqFull
<1>7. (n < Len(p)) = FALSE
  BY <1>1
<1> QED BY <1>5, <1>6, <1>7

(* simulate_all: path enumeration misses no route an execution took, and   *)
(* every path it reports replays in full.                                  *)
THEOREM PathsAlwaysComplete == Spec => []PathsComplete
<1>1. Life /\ Journey => PathsComplete
  <2> SUFFICES ASSUME Life, Journey PROVE PathsComplete
    OBVIOUS
  <2> DEFINE w == definition
             start == definition.initial
             N == Cardinality(States)
  <2>1. w \in Workflow /\ start \in States /\ DOMAIN path = 1..Len(path)
    BY JourneyFacts
  <2>2. ASSUME Started
        PROVE  Shortcuts # {}
    <3> DEFINE from == Origin
    <3>1. IsWalk(w, from, path) /\ EndOf(path, from) \in {current}
      BY <2>2 DEF Journey
    <3>5. w \in Workflow /\ from \in States
      BY <2>2, JourneyFacts
    <3> DEFINE ends == {current}
               walk == path
    <3>2. PICK q \in SimplePaths(w, from, ends, N) :
            \A k \in 1..Len(q) : \E j \in 1..Len(walk) : q[k] = walk[j]
      <4>1. w \in Workflow /\ from \in States /\ IsWalk(w, from, walk)
            /\ EndOf(walk, from) \in ends
        BY <3>1, <3>5
      <4> HIDE DEF w, from, ends, walk
      <4> QED BY <4>1, PathFound
    <3>3. q \in Seq(w.transitions)
      <4> HIDE DEF w, from, ends
      <4> QED BY <3>2, <3>5, PathIsSimple
    <3>4. {q[k] : k \in DOMAIN q} \subseteq {path[k] : k \in DOMAIN path}
      <4>1. DOMAIN q = 1..Len(q) /\ DOMAIN path = 1..Len(path)
        BY <2>1, <3>3
      <4> HIDE DEF w, from, ends
      <4> SUFFICES ASSUME NEW k \in 1..Len(q)
                   PROVE  \E j \in 1..Len(path) : q[k] = path[j]
        BY <4>1
      <4> QED BY <3>2
    <3> QED BY <3>2, <3>4 DEF Shortcuts
  <2>3. Metrics(w).reachable_state_count
          = Cardinality({s \in States : SimplePaths(w, start, {s}, N) # {}})
    <3>1. ASSUME NEW s \in States
          PROVE  SimplePaths(w, start, {s}, N) # {} <=> s \in ReachableStates(w, start)
      BY <2>1, EndReachable
    <3>2. ReachableStates(w, start) \subseteq States
      BY <2>1, ReachableStart
    <3>3. ReachableStates(w, start) = {s \in States : SimplePaths(w, start, {s}, N) # {}}
      BY <3>1, <3>2
    <3>4. Metrics(w).reachable_state_count = Cardinality(ReachableStates(w, start))
      BY DEF Metrics
    <3> QED BY <3>3, <3>4
  <2>4. ASSUME NEW p \in SimulateAll(w, start, N)
        PROVE  Simulate(w, [k \in DOMAIN p |-> p[k].name], start,
                        {p[k] : k \in DOMAIN p}, Len(p))
                 = [steps |-> p, blocked |-> FALSE]
    <3>1. p \in SimplePaths(w, start, TerminalStates(w), Cardinality(States))
      BY DEF SimulateAll
    <3> DEFINE actions == [k \in DOMAIN p |-> p[k].name]
               gate == {p[k] : k \in DOMAIN p}
    <3>2. actions = [k \in DOMAIN p |-> p[k].name] /\ gate = {p[k] : k \in DOMAIN p}
      OBVIOUS
    <3> HIDE DEF actions, gate, w, start
    <3>3. Simulate(w, actions, start, gate, Len(p)) = [steps |-> p, blocked |-> FALSE]
      BY <2>1, <3>1, <3>2, SimpleReplays
    <3> QED BY <3>3 DEF actions, gate
  <2> QED BY <2>2, <2>3, <2>4 DEF PathsComplete
<1> QED BY <1>1, AlwaysJourney, PTL

=============================================================================
