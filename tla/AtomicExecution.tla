-------------------------- MODULE AtomicExecution --------------------------
(***************************************************************************)
(* What concurrent requests on one execution are promised: each request    *)
(* takes effect at most once and all at once, on what the requests before  *)
(* it left; it is answered "ok" only if it took effect and "refused" only  *)
(* if it never does, unless it is a start: one that raises may have taken  *)
(* effect or not, like a request whose process crashed.                    *)
(***************************************************************************)
EXTENDS Sequences

CONSTANTS
  Requests,  \* one call of the API each
  Starters,  \* those that start the execution
  Rows,      \* what the database may hold of the execution
  NoRow,     \* it is not started
  Refused,   \* the operation raises
  Operation  \* [Requests -> [Rows \cup {NoRow} -> Rows \cup {Refused}]]

VARIABLES
  row,      \* what the database holds
  log,      \* the requests that took effect, in order
  answers   \* what each request was answered

vars == <<row, log, answers>>

Performed(r) == \E i \in DOMAIN log : log[i] = r

Init ==
  /\ row = NoRow
  /\ log = <<>>
  /\ answers = [r \in Requests |-> "none"]

Perform(r) ==
  /\ answers[r] = "none"
  /\ ~Performed(r)
  /\ Operation[r][row] # Refused
  /\ row' = Operation[r][row]
  /\ log' = Append(log, r)
  /\ UNCHANGED answers

Reply(r, answer) ==
  /\ answers[r] = "none"
  /\ answer = "ok" => Performed(r)
  /\ answer = "refused" => ~Performed(r) \/ r \in Starters
  /\ answers' = [answers EXCEPT ![r] = answer]
  /\ UNCHANGED <<row, log>>

Next ==
  \E r \in Requests :
    Perform(r) \/ \E answer \in {"ok", "refused", "lost"} : Reply(r, answer)

Spec == Init /\ [][Next]_vars
=============================================================================
