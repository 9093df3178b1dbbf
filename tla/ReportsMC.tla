------------------------------ MODULE ReportsMC ------------------------------
(***************************************************************************)
(* The audited executions of InspectionMC's definitions with approvals,    *)
(* with a deadline on review and a clock that ends early.                  *)
(***************************************************************************)
EXTENDS Analytics, InspectionMC

MCSla == [s \in MCStates |-> IF s = "review" THEN 1 ELSE Never]

ReportedDefinitions == {Request, Claim}

MCUploads ==
  {[size |-> 1, content_type |-> "pdf"], [size |-> 2, content_type |-> "pdf"],
   [size |-> 1, content_type |-> "exe"]}

\* The start is recorded already, before anything else.
Prompt == trail # <<>> /\ trail[1].type = "workflow_started"

\* Bound: once there is a delegation, a comment or an attachment, what
\* happens up to the first tick is followed; with a delegation until the
\* execution moves, with a note until it has moved twice.  While the start is
\* unrecorded, and where it was recorded late, what happens up to the first
\* tick is followed, until the execution has moved twice.
Focus ==
  /\ Started /\ ~Prompt => now = 0 /\ Len(path) <= 1
  /\ delegations # <<>> => now = 0 /\ Len(path) = 0
  /\ notes # <<>> => now = 0 /\ Len(path) <= 1 /\ delegations = <<>>
=============================================================================
