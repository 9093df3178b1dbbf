--------------------------- MODULE EventHandlersMC ---------------------------
(***************************************************************************)
(* One handler of the application, two providers, and rules that meet,     *)
(* miss and fail their conditions.                                         *)
(***************************************************************************)
EXTENDS EventHandlers

MCProviders ==
  {[kind |-> "webhook", enabled |-> TRUE, addressed |-> TRUE],
   [kind |-> "email", enabled |-> TRUE, addressed |-> FALSE]}

Clause(op, value) == [field |-> "severity", op |-> op, value |-> value]

MCRule(trigger, scope, condition, acts) ==
  [trigger |-> trigger, scope |-> scope, condition |-> condition, actions |-> acts]

MCRuleBook ==
  <<MCRule("submitted", "", <<Clause("gte", Number(20))>>, <<"notify", "gone">>),
    MCRule("submitted", "survey", <<Clause("ne", Word(1, TRUE)), Clause("lt", Infinite)>>,
           <<"notify">>),
    MCRule("submitted", "poll", <<>>, <<"gone", "notify">>)>>

MCOccasions ==
  {[type |-> "submitted", context |-> [severity |-> Number(25)]],
   [type |-> "submitted", context |-> [severity |-> Word(1, FALSE)]]}

\* Bound: what the last change, or the last event, is followed by.
Focus == happened + changes <= 4
=============================================================================
