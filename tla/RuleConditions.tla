--------------------------- MODULE RuleConditions ---------------------------
(***************************************************************************)
(* The condition of an automation rule: clauses over the context of an     *)
(* event, all of which must pass.  Values are compared after a coercion    *)
(* that makes numbers of what looks like one.  A number is counted in      *)
(* tenths and a word by its place in the order of words, so that the       *)
(* fraction a coercion drops and the order of strings are kept.            *)
(***************************************************************************)
EXTENDS Integers, Sequences, SequencesExt

\* A value is absent, a number that is not negative, an infinite one, a
\* text that reads as a number, a word (`cased` when lowering changes it;
\* place 0 is the empty text) or a list of values.
NoValue == [kind |-> "absent"]
Infinite == [kind |-> "infinite"]
Number(tenths) == [kind |-> "number", tenths |-> tenths]
Numeral(tenths) == [kind |-> "numeral", tenths |-> tenths]
Word(place, cased) == [kind |-> "word", place |-> place, cased |-> cased]
Items(values) == [kind |-> "list", values |-> values]

Blank == Word(0, FALSE)

\* _coerce: int() truncates a number, and reads a numeral only if it is
\* whole; float() reads the other numerals.  Anything else is a lowered
\* text, blank for what Python counts as false.
Coerced(v) ==
  CASE v.kind = "number" -> Number(10 * (v.tenths \div 10))
    [] v.kind = "numeral" -> Number(v.tenths)
    [] v.kind = "word" -> Word(v.place, FALSE)
    [] v \in {NoValue, Items(<<>>)} -> Blank
    [] OTHER -> v

\* int() of an infinite number raises an error that _coerce lets through.
Uncoercible(v) == v.kind = "infinite"

\* Python orders numbers, and it orders texts; any other comparison raises
\* an error.
Comparable(a, b) == a.kind = b.kind /\ a.kind \in {"number", "word"}

Less(a, b) == IF a.kind = "number" THEN a.tenths < b.tenths ELSE a.place < b.place

\* _coerce_list, of a text without commas
Listed(v) ==
  CASE v.kind = "list" -> v.values
    [] v.kind = "absent" -> <<>>
    [] OTHER -> <<v>>

\* What contains finds: a coerced value among values that are not coerced.
Found(actual, expected) ==
  /\ actual \notin {NoValue, Blank, Items(<<>>), Number(0)}
  /\ Coerced(expected) \in Range(Listed(actual))

\* The error is not one of those that clause_passes turns into FALSE.
ClauseRaises(clause, context) ==
  \/ /\ clause.op \in {"eq", "ne", "gt", "gte", "lt", "lte"}
     /\ Uncoercible(context[clause.field]) \/ Uncoercible(clause.value)
  \/ /\ clause.op = "contains"
     /\ context[clause.field] \notin {NoValue, Blank, Items(<<>>), Number(0)}
     /\ Uncoercible(clause.value)

\* clause_passes.  A comparison that has no order, and an operator that is
\* not known, fail the clause.  Words share no prefix or suffix but the
\* empty one, and only words are asked for theirs; a missing value is
\* looked for as the text "none", which none of them is.
ClausePasses(clause, context) ==
  LET actual == context[clause.field]
      a == Coerced(actual)
      b == Coerced(clause.value)
  IN  CASE clause.op = "eq" -> a = b
        [] clause.op = "ne" -> a # b
        [] clause.op = "gt" -> Comparable(a, b) /\ Less(b, a)
        [] clause.op = "gte" -> Comparable(a, b) /\ ~Less(a, b)
        [] clause.op = "lt" -> Comparable(a, b) /\ Less(a, b)
        [] clause.op = "lte" -> Comparable(a, b) /\ ~Less(b, a)
        [] clause.op = "contains" -> Found(actual, clause.value)
        [] clause.op \in {"startswith", "endswith"} ->
             clause.value # NoValue /\ b \in {a, Blank}
        [] clause.op = "is_empty" -> actual \in {NoValue, Blank}
        [] clause.op = "not_empty" -> actual \notin {NoValue, Blank}
        [] OTHER -> FALSE

\* conditions_met, which stops at the first clause that fails.
ConditionsMet(condition, context) ==
  \A k \in DOMAIN condition : ClausePasses(condition[k], context)

ConditionsRaise(condition, context) ==
  \E k \in DOMAIN condition :
    /\ ClauseRaises(condition[k], context)
    /\ ConditionsMet(SubSeq(condition, 1, k - 1), context)
=============================================================================
