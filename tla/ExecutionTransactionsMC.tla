---------------------- MODULE ExecutionTransactionsMC ----------------------
(***************************************************************************)
(* Two requests race to start an execution; two approvals, of which one    *)
(* may be the retry of the other, and a rejection race to move it.         *)
(***************************************************************************)
EXTENDS ExecutionTransactions

MCStarters == {"start1", "start2"}
MCRequests == MCStarters \cup {"approve1", "approve2", "reject"}
MCRows == {"review", "board", "approved", "rejected"}

Approve(x) ==
  CASE x = "review" -> "board" [] x = "board" -> "approved" [] OTHER -> Refused

Reject(x) == IF x = "review" THEN "rejected" ELSE Refused

Start(x) == IF x = NoRow THEN "review" ELSE Refused

MCOperation ==
  [r \in MCRequests |-> [x \in MCRows \cup {NoRow} |->
     CASE r \in MCStarters -> Start(x)
       [] r = "reject" -> Reject(x)
       [] OTHER -> Approve(x)]]

MCEmits == [r \in MCRequests |-> IF r = "reject" THEN 2 ELSE 1]
=============================================================================
