-------------------------- MODULE ApprovalEngineMC --------------------------
(***************************************************************************)
(* Small definitions that put the approval modes, conditional routing,     *)
(* rework loops and direct transitions of ApprovalEngine within TLC's      *)
(* reach.                                                                  *)
(***************************************************************************)
EXTENDS ApprovalEngine

CONSTANTS Ann, Bob, Cyd

MCUsers == {Ann, Bob, Cyd}
MCData == {"low", "high"}
MCStates == {"draft", "review", "board", "approved", "rejected"}
MCEscalees == {{Cyd}}

Judging(name, source, target, conditions, may) ==
  [name |-> name, source |-> source, target |-> target,
   conditions |-> conditions, may |-> may]

Move(name, source, target, when, may) ==
  Judging(name, source, target,
          [v \in MCData |-> IF v \in when THEN "pass" ELSE "block"], may)

Anyone == MCUsers \cup {NoUser}

Always(name, source, target) ==
  Move(name, source, target, MCData, Anyone)

Rule(mode, quorum, allow_self, slots) ==
  [mode |-> mode, quorum |-> quorum, allow_self |-> allow_self,
   approvers |-> [v \in MCData |-> slots], resolvable |-> MCData]

\* What a state without a declared requirement gets.
Default == Rule("ALL", 1, TRUE, <<>>)

WithRules(review, board) ==
  [s \in MCStates |->
     CASE s = "review" -> review [] s = "board" -> board [] OTHER -> Default]

\* Every slot of review must approve; only high amounts go on to a board
\* that votes two out of three.
Purchase ==
  [initial |-> "draft",
   transitions |->
     {Always("submit", "draft", "review"),
      Move("approve", "review", "approved", {"low"}, {Ann, Bob}),
      Move("approve", "review", "board", {"high"}, {Ann, Bob}),
      Always("reject", "review", "rejected"),
      Always("approve", "board", "approved"),
      Always("reject", "board", "rejected")},
   requirement |->
     WithRules(Rule("ALL", 1, FALSE, <<{Ann}, {Bob, Cyd}>>),
               Rule("QUORUM", 2, TRUE, <<{Ann, Bob}, {Bob, Cyd}, {Ann, Cyd}>>))]

\* Any of two may settle review; rejection is rework, and the submitter may
\* withdraw without a vote, unless the amount is one that the condition
\* cannot evaluate.  It starts in review, where nobody is asked then.
Expense ==
  [initial |-> "review",
   transitions |->
     {Always("submit", "draft", "review"),
      Always("approve", "review", "approved"),
      Always("reject", "review", "draft"),
      Judging("withdraw", "review", "rejected",
              [v \in MCData |-> IF v = "low" THEN "pass" ELSE "raise"], Anyone)},
   requirement |->
     WithRules(Rule("ANY", 1, TRUE, <<{Ann}, {Bob}>>), Default)]

\* A quorum above the number of slots, for which only low amounts find
\* approvers, then an unassigned slot whose approvers depend on the object; a
\* high amount is ambiguous there.
Audit ==
  [initial |-> "draft",
   transitions |->
     {Always("submit", "draft", "board"),
      Always("submit", "board", "review"),
      Always("approve", "board", "approved"),
      Always("reject", "board", "review"),
      Move("approve", "review", "approved", MCData, {Ann}),
      Move("approve", "review", "board", {"high"}, {Ann}),
      Always("reject", "review", "rejected")},
   requirement |->
     WithRules([Default EXCEPT !.approvers =
                  [v \in MCData |-> IF v = "low" THEN <<>> ELSE <<{Bob}>>]],
               [Rule("QUORUM", 3, TRUE, <<{Ann, Bob}, {Bob, Cyd}>>)
                  EXCEPT !.resolvable = {"low"}])]

MCDefinitions == {Purchase, Expense, Audit}

\* The definitions of the runs on what the documentation promises.
Board ==
  [Purchase EXCEPT !.transitions =
     {Always("submit", "draft", "board"),
      Always("approve", "board", "approved"),
      Always("reject", "board", "rejected")}]

Rework ==
  [Purchase EXCEPT !.transitions =
     {Always("submit", "draft", "review"),
      Always("approve", "review", "approved"),
      Always("reject", "review", "draft")},
   !.requirement = WithRules(Rule("ALL", 1, TRUE, <<MCUsers>>), Default)]

BoardOnly == {Board}
ReworkOnly == {Rework}
=============================================================================
