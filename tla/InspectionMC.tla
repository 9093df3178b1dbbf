---------------------------- MODULE InspectionMC ---------------------------
(***************************************************************************)
(* Definitions to inspect: every graph of a family over three states, so   *)
(* that loops, traps, unreachable states and ambiguous actions all occur,  *)
(* and two with approvals, escalation and rework.                          *)
(***************************************************************************)
EXTENDS ActionInspection, DefinitionAnalysis

CONSTANTS Ann, Bob

MCUsers == {Ann, Bob}
MCData == {"low", "high"}
MCStates == {"draft", "review", "done"}
MCEscalees == {{Bob}}

\* For data that is not in `when`, the conditions answer `else`.
Arrow(name, source, target, when, else, may) ==
  [name |-> name, source |-> source, target |-> target,
   conditions |-> [v \in MCData |-> IF v \in when THEN "pass" ELSE else],
   may |-> may]

Anyone == MCUsers \cup {NoUser}

Always(name, source, target) ==
  Arrow(name, source, target, MCData, "block", Anyone)

Rule(mode, quorum, allow_self, slots) ==
  [mode |-> mode, quorum |-> quorum, allow_self |-> allow_self,
   approvers |-> [v \in MCData |-> slots], resolvable |-> MCData]

\* What a state without a declared requirement gets.
Default == Rule("ALL", 1, TRUE, <<>>)

Reviewed(rule) ==
  [s \in MCStates |-> IF s = "review" THEN rule ELSE Default]

\* Only a low amount finds approvers.
Partly(rule) == [rule EXCEPT !.resolvable = {"low"}]

\* Conditional and unconditional arrows out of draft, and one way back; for a
\* high amount a condition blocks, or cannot be evaluated.  Nobody is in the
\* group that is asked.
Graphs ==
  {w \in [initial : {"draft"},
          transitions :
            {{Arrow("go", "draft", t, {"low"}, else, {Ann}) : t \in low}
             \cup {Always("go", "draft", t) : t \in all}
             \cup {Always("go", "review", t) : t \in next}
             \cup {Always("back", from, "draft")} :
               low \in SUBSET MCStates, all \in SUBSET MCStates,
               next \in SUBSET MCStates, from \in {"review", "done"},
               else \in {"block", "raise"}},
          requirement : {Reviewed(Partly(Rule("ANY", 1, TRUE, <<{}>>)))}] :
     Constructible(w)}

\* Both must approve within the sla; rejection is rework, for which a high
\* amount finds no approvers, and the request may be cancelled, unless the
\* condition cannot be evaluated.
Request ==
  [initial |-> "draft",
   transitions |->
     {Always("submit", "draft", "review"), Always("approve", "review", "done"),
      Always("reject", "review", "draft"),
      Arrow("cancel", "review", "done", {"low"}, "raise", Anyone)},
   requirement |->
     [Reviewed(Rule("ALL", 1, FALSE, <<{Ann}, {Bob}>>)) EXCEPT !["draft"] = Partly(@)]]

\* Anybody may approve; rejection ends it, and a high amount is ambiguous.  It
\* starts in review, where nobody is asked then.
Claim ==
  [initial |-> "review",
   transitions |->
     {Always("submit", "draft", "review"), Always("approve", "review", "done"),
      Arrow("approve", "review", "draft", {"high"}, "block", {Ann}),
      Arrow("reject", "review", "done", MCData, "block", {Bob})},
   requirement |-> Reviewed(Rule("ALL", 1, TRUE, <<>>))]

InspectedDefinitions == Graphs \cup {Request, Claim}
=============================================================================
