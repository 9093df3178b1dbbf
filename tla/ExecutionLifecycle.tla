------------------------- MODULE ExecutionLifecycle -------------------------
(***************************************************************************)
(* What a workflow execution promises, whatever approvals, delegations or  *)
(* conditions steer it: it starts in the initial state of a definition of  *)
(* its workflow, not always of the one it is bound to; each move follows   *)
(* one transition of the definition it is bound to, from where the         *)
(* execution stands; a move completes it exactly when it leads to a state  *)
(* without outgoing transitions, and then it never moves again.            *)
(***************************************************************************)
EXTENDS Sequences

CONSTANTS Definitions, Absent

VARIABLES
  definition,  \* the definition the execution is bound to
  stage,       \* the state it stands in, Absent before it starts
  sealed,      \* it is completed
  trail        \* the transitions it has taken, oldest first

vars == <<definition, stage, sealed, trail>>

Final(s) == \A t \in definition.transitions : t.source # s

Init ==
  /\ definition \in Definitions
  /\ stage = Absent
  /\ sealed = FALSE
  /\ trail = <<>>

Begin ==
  /\ stage = Absent
  /\ \E caller \in Definitions : stage' = caller.initial
  /\ UNCHANGED <<definition, sealed, trail>>

Move(t) ==
  /\ ~sealed
  /\ t.source = stage
  /\ stage' = t.target
  /\ sealed' = Final(t.target)
  /\ trail' = Append(trail, t)
  /\ UNCHANGED definition

Next == Begin \/ \E t \in definition.transitions : Move(t)

Spec == Init /\ [][Next]_vars
=============================================================================
