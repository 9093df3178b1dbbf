--------------------------- MODULE VersionHistory ---------------------------
(***************************************************************************)
(* What the versions of one workflow promise: they are numbered in the     *)
(* order of their creation, go from draft to published to retired, may be  *)
(* edited only as drafts, and an execution that is bound to one stays so.  *)
(***************************************************************************)
EXTENDS Integers, Sequences

CONSTANTS
  Objects,      \* what executions are started for
  Snapshots     \* what a version may store

VARIABLES
  history,   \* the versions, by number
  bound      \* the version of each object's execution

vars == <<history, bound>>

NotStarted == -1
Unversioned == 0

Version == [status : {"DRAFT", "PUBLISHED", "RETIRED"}, definition : Snapshots]

Init ==
  /\ history = <<>>
  /\ bound = [o \in Objects |-> NotStarted]

Moves == {<<"DRAFT", "DRAFT">>, <<"DRAFT", "PUBLISHED">>, <<"PUBLISHED", "RETIRED">>}

Draft(d) ==
  /\ history' = Append(history, [status |-> "DRAFT", definition |-> d])
  /\ UNCHANGED bound

\* The first version may be created published.
Launch(d) ==
  /\ history = <<>>
  /\ history' = <<[status |-> "PUBLISHED", definition |-> d]>>
  /\ UNCHANGED bound

Revise(n, d, status) ==
  /\ <<history[n].status, status>> \in Moves
  /\ d # history[n].definition => history[n].status = "DRAFT"
  /\ history' = [history EXCEPT ![n] = [status |-> status, definition |-> d]]
  /\ UNCHANGED bound

Start(o, n) ==
  /\ bound[o] = NotStarted
  /\ bound' = [bound EXCEPT ![o] = n]
  /\ UNCHANGED history

\* Executions that were started without a version are pinned to one.
Pin(n) ==
  /\ bound' = [o \in Objects |-> IF bound[o] = Unversioned THEN n ELSE bound[o]]
  /\ UNCHANGED history

Next ==
  \/ \E d \in Snapshots : Draft(d) \/ Launch(d)
  \/ \E n \in DOMAIN history, d \in Snapshots, status \in {"DRAFT", "PUBLISHED", "RETIRED"} :
       Revise(n, d, status)
  \/ \E o \in Objects, n \in {Unversioned} \cup DOMAIN history : Start(o, n)
  \/ \E n \in DOMAIN history : Pin(n)

Spec == Init /\ [][Next]_vars
=============================================================================
