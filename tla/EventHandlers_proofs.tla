-------------------------- MODULE EventHandlers_proofs --------------------------
(***************************************************************************)
(* Theorems about EventHandlers: whoever subscribes, unsubscribes,         *)
(* installs, raises or calls back, from wherever, for every rule book and  *)
(* all bounds.                                                             *)
(***************************************************************************)
EXTENDS EventHandlers, Listing_proofs

-----------------------------------------------------------------------------
(* What the variables hold.                                                *)

Listeners ==
  [kind : {"app", "hook", "logger", "provider"},
   of : Callables \cup Providers \cup {"on_event", "handle"}, serial : Nat]

Tokens == [key : Keys, handler : Listeners]

RuleNumbers == DOMAIN RuleBook

Calls == [to : Listeners, how : {"called", "sent", "skipped", "refused", "raised"}]

Verdicts ==
  [rule : RuleNumbers, how : {"raised", "passed", "fired"}, ran : Seq(Nat),
   skipped : SUBSET Nat]

Dispatches ==
  [kind : {"dispatch"}, on : Occasions, todo : Seq(Listeners),
   due : Seq(Listeners), calls : Seq(Calls)]

Firings ==
  [kind : {"fire"}, on : Occasions, scope : Scopes \cup {Anywhere},
   todo : Seq(RuleNumbers), due : Seq(RuleNumbers), rule : RuleNumbers \cup {0},
   acts : Seq(Nat), ran : Seq(Nat), skipped : SUBSET Nat, done : Seq(Verdicts)]

-----------------------------------------------------------------------------
(* The inductive invariant.                                                *)

(* Whoever is subscribed, and with what right.  Only handlers of the       *)
(* application are ever listed twice; the hook and the logger listen to    *)
(* everything, the hook only while its flag is set and the logger only     *)
(* while it is the one installed; a closure of the router has its token.   *)
Entitled(key, h) ==
  /\ h.kind = "hook" => h = Hook /\ key = AllEvents /\ hooked
  /\ h.kind = "logger" => /\ h = Logger(observer) /\ key = AllEvents
                          /\ observing = <<Token(key, h)>>
  /\ h.kind = "provider" =>
       \E n \in DOMAIN unsubscribes : unsubscribes[n] = Token(key, h)

NoDoubles(list) ==
  \A j, k \in DOMAIN list : list[j] = list[k] /\ j # k => list[j].kind = "app"

Registered ==
  /\ handlers \in [Keys -> Seq(Listeners)]
  /\ tokens \subseteq {token \in Tokens : token.handler.kind = "app"}
  /\ entries \in Seq([type : Keys, provider : Providers])
  /\ unsubscribes \in Seq({token \in Tokens : token.handler.kind = "provider"})
  /\ \A m, n \in DOMAIN unsubscribes :
       unsubscribes[m].handler = unsubscribes[n].handler => m = n
  /\ hooked \in BOOLEAN
  /\ observer \in Nat /\ created \in Nat
  /\ observing = IF observer = 0 THEN <<>> ELSE <<Token(AllEvents, Logger(observer))>>
  /\ enabled \subseteq RuleNumbers
  /\ \A key \in Keys : NoDoubles(handlers[key])
  /\ \A key \in Keys : \A k \in DOMAIN handlers[key] : Entitled(key, handlers[key][k])

(* A dispatch loop: who was called and who is still to be are those who    *)
(* listened, in their order.                                               *)
Heard(f) == [k \in DOMAIN f.calls |-> f.calls[k].to]

SoundDispatch(f) ==
  /\ f.due = Heard(f) \o f.todo
  /\ NoDoubles(f.due)
  /\ \A j, k \in DOMAIN f.due :
       f.due[j].kind = "logger" /\ f.due[k].kind = "logger" => j = k

(* A loop over rules: those considered, the one being run and those to     *)
(* come are the rules it has read.  Of the rule being run, the actions     *)
(* still to come are its last ones, in order, and each of those before     *)
(* them ran or was skipped.                                                *)
Considered(f) == [k \in DOMAIN f.done |-> f.done[k].rule]

Rising(list) == \A i, j \in DOMAIN list : i < j => list[i] < list[j]

Entered(r, f) ==
  /\ f.scope = Anywhere \/ RuleBook[r].scope = Anywhere \/ RuleBook[r].scope = f.scope
  /\ ConditionsMet(RuleBook[r].condition, f.on.context)

\* The first m actions, and they only, ran or were skipped.
Dealt(ran, skipped, m) ==
  /\ Range(ran) \cup skipped = 1..m
  /\ Range(ran) \cap skipped = {}

Underway(r, acts, ran, skipped) ==
  LET size == Len(RuleBook[r].actions)
  IN  /\ Len(acts) <= size
      /\ \A i \in DOMAIN acts : acts[i] = size - Len(acts) + i
      /\ Dealt(ran, skipped, size - Len(acts))

Settled(told) ==
  /\ Range(told.ran) \cup told.skipped =
       IF told.how = "fired" THEN DOMAIN RuleBook[told.rule].actions
       ELSE {act \in DOMAIN RuleBook[told.rule].actions :
               \E i \in DOMAIN told.ran : act <= told.ran[i]}
  /\ Range(told.ran) \cap told.skipped = {}

SoundFiring(f) ==
  /\ f.due = Considered(f) \o (IF f.rule = 0 THEN <<>> ELSE <<f.rule>>) \o f.todo
  /\ \A k \in DOMAIN f.due : RuleBook[f.due[k]].trigger = f.on.type
  /\ Rising(f.ran \o f.acts)
  /\ f.rule # 0 => Entered(f.rule, f) /\ Underway(f.rule, f.acts, f.ran, f.skipped)
  /\ f.rule = 0 => f.ran = <<>> /\ f.acts = <<>> /\ f.skipped = {}
  /\ \A k \in DOMAIN f.done :
       /\ Rising(f.done[k].ran) /\ Settled(f.done[k])
       /\ f.done[k].ran # <<>> \/ f.done[k].how = "fired" => Entered(f.done[k].rule, f)

SoundFrames ==
  {f \in Dispatches : SoundDispatch(f)} \cup {f \in Firings : SoundFiring(f)}

Sound == Registered /\ frames \in Seq(SoundFrames)

-----------------------------------------------------------------------------
(* Lists of subscriptions.                                                 *)

(* A set in which any two members are equal has at most one.               *)
LEMMA AtMostOne ==
  ASSUME NEW S, \A x, y \in S : x = y
  PROVE  /\ Cardinality(S) <= 1
         /\ S # {} => Cardinality(S) = 1
<1>1. CASE S = {}
  BY <1>1, FS_EmptySet
<1>2. CASE S # {}
  <2>1. PICK x \in S : S = {x}
    BY <1>2
  <2>2. Cardinality(S) = 1
    BY <2>1, FS_Singleton
  <2> QED BY <2>2
<1> QED BY <1>1, <1>2

(* An initial part, a later part and one list after another.               *)
LEMMA DoublesOfConcat ==
  ASSUME NEW a \in Seq(Listeners), NEW b \in Seq(Listeners),
         NoDoubles(a), NoDoubles(b),
         \A j \in DOMAIN a, k \in DOMAIN b : a[j] = b[k] => a[j].kind = "app"
  PROVE  NoDoubles(a \o b)
<1>1. /\ Len(a) \in Nat /\ Len(b) \in Nat
      /\ DOMAIN a = 1..Len(a) /\ DOMAIN b = 1..Len(b)
      /\ DOMAIN (a \o b) = 1..Len(a) + Len(b)
  BY ConcatProperties
<1>2. \A k \in 1..Len(a) + Len(b) :
        (a \o b)[k] = IF k <= Len(a) THEN a[k] ELSE b[k - Len(a)]
  BY ConcatProperties
<1> SUFFICES ASSUME NEW j \in 1..Len(a) + Len(b), NEW k \in 1..Len(a) + Len(b),
                    (a \o b)[j] = (a \o b)[k], j # k
             PROVE  (a \o b)[j].kind = "app"
  BY <1>1 DEF NoDoubles
<1>3. CASE j <= Len(a) /\ k <= Len(a)
  <2>1. j \in DOMAIN a /\ k \in DOMAIN a /\ a[j] = a[k] /\ (a \o b)[j] = a[j]
    BY <1>1, <1>2, <1>3
  <2> QED BY <2>1 DEF NoDoubles
<1>4. CASE ~(j <= Len(a)) /\ ~(k <= Len(a))
  <2>1. /\ j - Len(a) \in DOMAIN b /\ k - Len(a) \in DOMAIN b
        /\ j - Len(a) # k - Len(a)
        /\ b[j - Len(a)] = b[k - Len(a)] /\ (a \o b)[j] = b[j - Len(a)]
    BY <1>1, <1>2, <1>4
  <2> QED BY <2>1 DEF NoDoubles
<1>5. CASE j <= Len(a) /\ ~(k <= Len(a))
  <2>1. /\ j \in DOMAIN a /\ k - Len(a) \in DOMAIN b
        /\ a[j] = b[k - Len(a)] /\ (a \o b)[j] = a[j]
    BY <1>1, <1>2, <1>5
  <2> QED BY <2>1
<1>6. CASE ~(j <= Len(a)) /\ k <= Len(a)
  <2>1. /\ k \in DOMAIN a /\ j - Len(a) \in DOMAIN b
        /\ a[k] = b[j - Len(a)] /\ (a \o b)[j] = a[k]
    BY <1>1, <1>2, <1>6
  <2> QED BY <2>1
<1> QED BY <1>3, <1>4, <1>5, <1>6

(* What stays when the tokens of a list are called: subscriptions that     *)
(* there were, in their order, and of a handler that was listed once none  *)
(* whose token is among them.                                              *)
LEMMA DroppedLists ==
  ASSUME Registered, NEW list \in Seq(Tokens), NEW key \in Keys
  PROVE  /\ Dropped(handlers, list)[key] \in Seq(Listeners)
         /\ NoDoubles(Dropped(handlers, list)[key])
         /\ \A k \in DOMAIN Dropped(handlers, list)[key] :
              LET h == Dropped(handlers, list)[key][k]
              IN  /\ \E j \in DOMAIN handlers[key] : h = handlers[key][j]
                  /\ h.kind # "app" => \A n \in DOMAIN list : list[n] # Token(key, h)
<1> DEFINE seq == handlers[key]
           new == Dropped(handlers, list)[key]
           taken(h) == {n \in DOMAIN list : list[n] = Token(key, h)}
           earlier(k) == {j \in 1..k - 1 : seq[j] = seq[k]}
           kept == {k \in DOMAIN seq :
                      Cardinality(earlier(k)) >= Cardinality(taken(seq[k]))}
           pick(k) == Ascending(kept)[k]
<1>1. seq \in Seq(Listeners) /\ NoDoubles(seq) /\ DOMAIN handlers = Keys
  BY DEF Registered
<1>2. new = At(seq, kept)
  BY <1>1 DEF Dropped
<1>3. kept \in SUBSET DOMAIN seq
  OBVIOUS
<1>4. /\ IsFiniteSet(kept) /\ Cardinality(kept) \in Nat
      /\ new \in Seq(Listeners) /\ Len(new) = Cardinality(kept)
      /\ \A k \in 1..Cardinality(kept) : pick(k) \in kept /\ new[k] = seq[pick(k)]
      /\ \A j, k \in 1..Cardinality(kept) : j # k => pick(j) # pick(k)
  <2> HIDE DEF kept, seq, new
  <2> QED BY <1>1, <1>2, <1>3, AtTakes
<1>5. DOMAIN new = 1..Cardinality(kept) /\ DOMAIN seq = 1..Len(seq) /\ Len(seq) \in Nat
  <2> HIDE DEF kept, seq, new
  <2> QED BY <1>1, <1>4
<1>6. NoDoubles(new)
  <2> SUFFICES ASSUME NEW j \in DOMAIN new, NEW k \in DOMAIN new,
                      new[j] = new[k], j # k
               PROVE  new[j].kind = "app"
    BY DEF NoDoubles
  <2>1. /\ pick(j) \in DOMAIN seq /\ pick(k) \in DOMAIN seq /\ pick(j) # pick(k)
        /\ new[j] = seq[pick(j)] /\ new[k] = seq[pick(k)]
    BY <1>3, <1>4, <1>5
  <2> HIDE DEF new, seq, pick
  <2> QED BY <1>1, <2>1 DEF NoDoubles
<1>7. ASSUME NEW k \in DOMAIN new
      PROVE  /\ \E j \in DOMAIN seq : new[k] = seq[j]
             /\ new[k].kind # "app" => \A n \in DOMAIN list : list[n] # Token(key, new[k])
  <2>1. pick(k) \in kept /\ new[k] = seq[pick(k)]
    BY <1>4, <1>5
  <2>2. PICK i \in kept : new[k] = seq[i]
    BY <2>1
  <2>3. ASSUME new[k].kind # "app", NEW n \in DOMAIN list, list[n] = Token(key, new[k])
        PROVE  FALSE
    <3>1. earlier(i) = {}
      <4> SUFFICES ASSUME NEW j \in 1..i - 1, seq[j] = seq[i]
                   PROVE  FALSE
        OBVIOUS
      <4>1. i \in DOMAIN seq /\ j \in DOMAIN seq /\ j # i
        BY <1>3, <1>5, <2>2
      <4> HIDE DEF seq, new
      <4> QED BY <1>1, <2>2, <2>3, <4>1 DEF NoDoubles
    <3>2. Cardinality(earlier(i)) = 0
      BY <3>1, FS_EmptySet
    <3>3. n \in taken(seq[i])
      BY <2>2, <2>3
    <3>4. IsFiniteSet(taken(seq[i]))
      <4>1. DOMAIN list = 1..Len(list) /\ Len(list) \in Nat
        OBVIOUS
      <4>2. IsFiniteSet(1..Len(list)) /\ taken(seq[i]) \in SUBSET (1..Len(list))
        BY <4>1, FS_Interval
      <4> HIDE DEF taken
      <4> QED BY <4>2, FS_Subset
    <3>5. Cardinality(taken(seq[i])) \in Nat /\ Cardinality(taken(seq[i])) # 0
      <4> HIDE DEF taken
      <4> QED BY <3>3, <3>4, FS_CardinalityType, FS_EmptySet
    <3>6. Cardinality(earlier(i)) >= Cardinality(taken(seq[i]))
      BY <2>2
    <3> HIDE DEF earlier, taken
    <3> QED BY <3>2, <3>5, <3>6
  <2> HIDE DEF new, seq, kept
  <2>4. \E j \in DOMAIN seq : new[k] = seq[j]
    BY <1>3, <2>2
  <2> QED BY <2>3, <2>4
<1> HIDE DEF new, seq
<1>8. \A k \in DOMAIN new :
        /\ \E j \in DOMAIN seq : new[k] = seq[j]
        /\ new[k].kind # "app" => \A n \in DOMAIN list : list[n] # Token(key, new[k])
  BY <1>7
<1> QED BY <1>4, <1>6, <1>8 DEF new, seq

(* A handler is appended to a list.                                        *)
LEMMA AppendedList ==
  ASSUME NEW list \in Seq(Listeners), NoDoubles(list), NEW h \in Listeners,
         h.kind = "app" \/ \A j \in DOMAIN list : list[j] # h
  PROVE  /\ Append(list, h) \in Seq(Listeners)
         /\ NoDoubles(Append(list, h))
         /\ \A k \in DOMAIN Append(list, h) :
              \/ Append(list, h)[k] = h
              \/ \E j \in DOMAIN list : Append(list, h)[k] = list[j]
<1>1. /\ Len(list) \in Nat /\ DOMAIN list = 1..Len(list)
      /\ Append(list, h) \in Seq(Listeners)
      /\ DOMAIN Append(list, h) = 1..Len(list) + 1
      /\ \A k \in 1..Len(list) : Append(list, h)[k] = list[k]
      /\ Append(list, h)[Len(list) + 1] = h
  OBVIOUS
<1>2. \A k \in 1..Len(list) + 1 : k \in 1..Len(list) \/ k = Len(list) + 1
  BY <1>1
<1>3. NoDoubles(Append(list, h))
  <2> SUFFICES ASSUME NEW j \in 1..Len(list) + 1, NEW k \in 1..Len(list) + 1,
                      Append(list, h)[j] = Append(list, h)[k], j # k
               PROVE  Append(list, h)[j].kind = "app"
    BY <1>1 DEF NoDoubles
  <2>1. CASE j \in 1..Len(list) /\ k \in 1..Len(list)
    BY <1>1, <2>1 DEF NoDoubles
  <2>2. CASE j = Len(list) + 1 \/ k = Len(list) + 1
    BY <1>1, <1>2, <2>2
  <2> QED BY <1>2, <2>1, <2>2
<1> QED BY <1>1, <1>2, <1>3

-----------------------------------------------------------------------------
(* The registry.                                                           *)

(* What is neither a list nor a flag stays as it was.                      *)
Others == <<entries, unsubscribes, hooked, observer, observing, created>>

(* The lists may lose subscriptions, and gain those of the application.    *)
LEMMA FewerListeners ==
  ASSUME Registered, UNCHANGED <<Others, enabled>>,
         tokens' \subseteq {token \in Tokens : token.handler.kind = "app"},
         handlers' \in [Keys -> Seq(Listeners)],
         \A key \in Keys : NoDoubles(handlers'[key]),
         \A key \in Keys : \A k \in DOMAIN handlers'[key] :
           \/ handlers'[key][k].kind = "app"
           \/ \E j \in DOMAIN handlers[key] : handlers'[key][k] = handlers[key][j]
  PROVE  Registered'
<1>1. /\ entries' = entries /\ unsubscribes' = unsubscribes /\ hooked' = hooked
      /\ observer' = observer /\ observing' = observing /\ created' = created
      /\ enabled' = enabled
  BY DEF Others
<1>2. \A key \in Keys : \A k \in DOMAIN handlers'[key] : Entitled(key, handlers'[key][k])
  <2> SUFFICES ASSUME NEW key \in Keys, NEW k \in DOMAIN handlers'[key]
               PROVE  Entitled(key, handlers'[key][k])
    OBVIOUS
  <2>1. CASE handlers'[key][k].kind = "app"
    BY <2>1 DEF Entitled
  <2>2. CASE \E j \in DOMAIN handlers[key] : handlers'[key][k] = handlers[key][j]
    BY <2>2 DEF Registered
  <2> QED BY <2>1, <2>2
<1>3. \A key \in Keys, h \in Listeners : Entitled(key, h) => Entitled(key, h)'
  BY <1>1 DEF Entitled
<1>4. \A key \in Keys : \A k \in DOMAIN handlers'[key] : handlers'[key][k] \in Listeners
  OBVIOUS
<1>5. (\A key \in Keys : \A k \in DOMAIN handlers[key] :
         Entitled(key, handlers[key][k]))'
  BY <1>2, <1>3, <1>4
<1>6. (\A key \in Keys : NoDoubles(handlers[key]))'
  OBVIOUS
<1> QED BY <1>1, <1>5, <1>6 DEF Registered

LEMMA SubscribeRegistered ==
  ASSUME Registered, NEW key \in Keys, NEW callable \in Callables,
         Subscribe(key, callable)
  PROVE  Registered'
<1> DEFINE h == Handler("app", callable, 0)
<1>1. h \in Listeners /\ h.kind = "app"
  BY DEF Handler, Listeners
<1>2. /\ handlers' = [handlers EXCEPT ![key] = Append(@, h)]
      /\ tokens' = tokens \cup {Token(key, h)}
      /\ UNCHANGED <<Others, enabled>>
  BY DEF Subscribe, Changing, Added, Others, automation
<1>3. handlers \in [Keys -> Seq(Listeners)] /\ \A k \in Keys : NoDoubles(handlers[k])
  BY DEF Registered
<1> HIDE DEF h
<1>4. Token(key, h) \in {token \in Tokens : token.handler.kind = "app"}
  BY <1>1 DEF Token, Tokens
<1>5. /\ Append(handlers[key], h) \in Seq(Listeners)
      /\ NoDoubles(Append(handlers[key], h))
      /\ \A k \in DOMAIN Append(handlers[key], h) :
           \/ Append(handlers[key], h)[k] = h
           \/ \E j \in DOMAIN handlers[key] : Append(handlers[key], h)[k] = handlers[key][j]
  <2> DEFINE list == handlers[key]
  <2>1. list \in Seq(Listeners) /\ NoDoubles(list)
    BY <1>3
  <2> HIDE DEF list
  <2>2. /\ Append(list, h) \in Seq(Listeners)
        /\ NoDoubles(Append(list, h))
        /\ \A k \in DOMAIN Append(list, h) :
             \/ Append(list, h)[k] = h
             \/ \E j \in DOMAIN list : Append(list, h)[k] = list[j]
    BY <1>1, <2>1, AppendedList
  <2> QED BY <2>2 DEF list
<1>6. \A other \in Keys :
        handlers'[other] = IF other = key THEN Append(handlers[key], h)
                           ELSE handlers[other]
  BY <1>2, <1>3
<1>7. handlers' \in [Keys -> Seq(Listeners)] /\ \A k \in Keys : NoDoubles(handlers'[k])
  BY <1>2, <1>3, <1>5, <1>6
<1>8. \A other \in Keys : \A k \in DOMAIN handlers'[other] :
        \/ handlers'[other][k].kind = "app"
        \/ \E j \in DOMAIN handlers[other] : handlers'[other][k] = handlers[other][j]
  BY <1>1, <1>5, <1>6
<1>9. tokens' \subseteq {token \in Tokens : token.handler.kind = "app"}
  BY <1>2, <1>4 DEF Registered
<1> QED BY <1>2, <1>7, <1>8, <1>9, FewerListeners

LEMMA UnsubscribeRegistered ==
  ASSUME Registered, NEW token \in tokens, Unsubscribe(token)
  PROVE  Registered'
<1>1. /\ handlers' = Dropped(handlers, <<token>>)
      /\ UNCHANGED <<Others, tokens, enabled>>
  BY DEF Unsubscribe, Changing, Others, automation
<1>2. <<token>> \in Seq(Tokens)
  BY DEF Registered
<1>3. DOMAIN handlers' = Keys /\ handlers' = [key \in Keys |-> handlers'[key]]
  BY <1>1 DEF Dropped, Registered
<1>4. \A key \in Keys :
        /\ handlers'[key] \in Seq(Listeners) /\ NoDoubles(handlers'[key])
        /\ \A k \in DOMAIN handlers'[key] :
             \E j \in DOMAIN handlers[key] : handlers'[key][k] = handlers[key][j]
  BY <1>1, <1>2, DroppedLists
<1>5. handlers' \in [Keys -> Seq(Listeners)]
  BY <1>3, <1>4
<1>6. tokens' \subseteq {t \in Tokens : t.handler.kind = "app"}
  BY <1>1 DEF Registered
<1> QED BY <1>1, <1>4, <1>5, <1>6, FewerListeners

LEMMA ClearRegistered ==
  ASSUME Registered, Clear
  PROVE  Registered'
<1>1. /\ handlers' = [key \in Keys |-> <<>>]
      /\ UNCHANGED <<Others, tokens, enabled>>
  BY DEF Clear, Changing, Others, automation, Registered
<1>2. \A key \in Keys : NoDoubles(handlers'[key]) /\ DOMAIN handlers'[key] = {}
  BY <1>1 DEF NoDoubles
<1>3. handlers' \in [Keys -> Seq(Listeners)]
  BY <1>1
<1>4. tokens' \subseteq {t \in Tokens : t.handler.kind = "app"}
  BY <1>1 DEF Registered
<1> QED BY <1>1, <1>2, <1>3, <1>4, FewerListeners

LEMMA RegisterRegistered ==
  ASSUME Registered, NEW key \in Keys, NEW provider \in Providers,
         Register(key, provider)
  PROVE  Registered'
<1>1. /\ entries' = Append(entries, [type |-> key, provider |-> provider])
      /\ UNCHANGED <<handlers, tokens, unsubscribes, hooked, observer, observing,
                     created, enabled>>
  BY DEF Register, Changing, automation
<1>2. entries' \in Seq([type : Keys, provider : Providers])
  BY <1>1 DEF Registered
<1>3. \A k \in Keys, h \in Listeners : Entitled(k, h) => Entitled(k, h)'
  BY <1>1 DEF Entitled
<1> QED BY <1>1, <1>2, <1>3 DEF Registered

(* The closures that install() subscribes: one for each entry, all new.    *)
LEMMA InstallRegistered ==
  ASSUME Registered, Install
  PROVE  Registered'
<1> DEFINE handler(k) == Handler("provider", entries[k].provider, created + k)
           closures == [k \in DOMAIN entries |-> Token(entries[k].type, handler(k))]
           closure == [k \in DOMAIN entries |-> closures[k].handler]
           routed(key) == {k \in DOMAIN entries : entries[k].type = key}
           more(key) == At(closure, routed(key))
<1>1. UNCHANGED <<tokens, entries, hooked, observer, observing, enabled>>
  BY DEF Install, automation
<1>2. CASE UNCHANGED <<handlers, unsubscribes, created>>
  <2>1. \A k \in Keys, h \in Listeners : Entitled(k, h) => Entitled(k, h)'
    BY <1>1, <1>2 DEF Entitled
  <2> QED BY <1>1, <1>2, <2>1 DEF Registered
<1>3. CASE /\ Installable
           /\ handlers' = [key \in Keys |-> handlers[key] \o more(key)]
           /\ unsubscribes' = unsubscribes \o closures
           /\ created' = created + Len(entries)
  <2>1. /\ DOMAIN entries = 1..Len(entries) /\ Len(entries) \in Nat
        /\ \A k \in DOMAIN entries : entries[k] \in [type : Keys, provider : Providers]
        /\ created \in Nat
    <3> DEFINE pairs == [type : Keys, provider : Providers]
    <3>1. entries \in Seq(pairs) /\ created \in Nat
      BY DEF Registered
    <3> HIDE DEF pairs
    <3>2. DOMAIN entries = 1..Len(entries) /\ Len(entries) \in Nat
      BY <3>1
    <3>3. \A k \in DOMAIN entries : entries[k] \in pairs
      BY <3>1, <3>2, ElementOfSeq
    <3> QED BY <3>1, <3>2, <3>3 DEF pairs
  <2>2. \A k \in DOMAIN entries :
          /\ handler(k) \in Listeners /\ handler(k).kind = "provider"
          /\ handler(k).serial = created + k
          /\ Token(entries[k].type, handler(k)) \in Tokens
          /\ Token(entries[k].type, handler(k)).handler = handler(k)
    BY <2>1 DEF Handler, Listeners, Token, Tokens
  <2>3. \A j, k \in DOMAIN entries : handler(j) = handler(k) => j = k
    <3> SUFFICES ASSUME NEW j \in DOMAIN entries, NEW k \in DOMAIN entries,
                        handler(j) = handler(k)
                 PROVE  j = k
      OBVIOUS
    <3>1. created + j = created + k
      BY <2>2
    <3> QED BY <2>1, <3>1
  <2> HIDE DEF handler
  <2>4. /\ closures \in Seq({token \in Tokens : token.handler.kind = "provider"})
        /\ DOMAIN closures = DOMAIN entries
        /\ \A k \in DOMAIN entries : closures[k] = Token(entries[k].type, handler(k))
        /\ closure \in Seq(Listeners) /\ DOMAIN closure = DOMAIN entries
        /\ \A k \in DOMAIN entries : closure[k] = handler(k)
    BY <2>1, <2>2
  <2> HIDE DEF closures
  <2>5. unsubscribes' = closures
    BY <1>3, <2>4 DEF Installable
  <2>6. /\ unsubscribes' \in Seq({token \in Tokens : token.handler.kind = "provider"})
        /\ \A m, n \in DOMAIN unsubscribes' :
             unsubscribes'[m].handler = unsubscribes'[n].handler => m = n
    BY <2>2, <2>3, <2>4, <2>5
  <2> HIDE DEF closure
  <2>7. ASSUME NEW key \in Keys
        PROVE  /\ more(key) \in Seq(Listeners)
               /\ NoDoubles(more(key))
               /\ \A k \in DOMAIN more(key) :
                    \E n \in DOMAIN entries : /\ entries[n].type = key
                                              /\ more(key)[k] = handler(n)
    <3>1. routed(key) \in SUBSET DOMAIN closure
      BY <2>4
    <3> DEFINE S == routed(key)
               pick(k) == Ascending(S)[k]
    <3>2. /\ Cardinality(S) \in Nat
          /\ more(key) \in Seq(Listeners) /\ Len(more(key)) = Cardinality(S)
          /\ \A k \in 1..Cardinality(S) : pick(k) \in S /\ more(key)[k] = closure[pick(k)]
          /\ \A j, k \in 1..Cardinality(S) : j # k => pick(j) # pick(k)
      <4>1. more(key) = At(closure, S) /\ S \in SUBSET DOMAIN closure
        BY <3>1
      <4>2. closure \in Seq(Listeners)
        BY <2>4
      <4> HIDE DEF S, more
      <4>3. /\ Cardinality(S) \in Nat
            /\ At(closure, S) \in Seq(Listeners) /\ Len(At(closure, S)) = Cardinality(S)
            /\ \A k \in 1..Cardinality(S) :
                 Ascending(S)[k] \in S /\ At(closure, S)[k] = closure[Ascending(S)[k]]
            /\ \A j, k \in 1..Cardinality(S) : j # k => Ascending(S)[j] # Ascending(S)[k]
        BY <4>1, <4>2, AtTakes
      <4> QED BY <4>1, <4>3
    <3>3. DOMAIN more(key) = 1..Cardinality(S)
      <4> HIDE DEF S, more
      <4> QED BY <3>2
    <3>4. \A k \in DOMAIN more(key) :
            /\ pick(k) \in DOMAIN entries /\ entries[pick(k)].type = key
            /\ more(key)[k] = handler(pick(k))
      <4> HIDE DEF more, pick
      <4> QED BY <2>4, <3>2, <3>3 DEF S
    <3> HIDE DEF more, pick, S
    <3>5. NoDoubles(more(key))
      BY <2>3, <3>2, <3>3, <3>4 DEF NoDoubles
    <3> QED BY <3>2, <3>4, <3>5
  <2> HIDE DEF more
  <2>8. \A key \in Keys : \A k \in DOMAIN handlers[key] :
          handlers[key][k] \in Listeners /\ handlers[key][k].kind # "provider"
    <3> SUFFICES ASSUME NEW key \in Keys, NEW k \in DOMAIN handlers[key]
                 PROVE  handlers[key][k] \in Listeners /\ handlers[key][k].kind # "provider"
      OBVIOUS
    <3>1. handlers[key] \in Seq(Listeners) /\ Entitled(key, handlers[key][k])
      BY DEF Registered
    <3>2. handlers[key][k] \in Listeners
      BY <3>1
    <3>3. DOMAIN unsubscribes = {}
      BY <1>3 DEF Installable
    <3> QED BY <3>1, <3>2, <3>3 DEF Entitled
  <2>9. ASSUME NEW key \in Keys
        PROVE  /\ handlers'[key] \in Seq(Listeners)
               /\ NoDoubles(handlers'[key])
               /\ \A k \in DOMAIN handlers'[key] :
                    \/ \E j \in DOMAIN handlers[key] : handlers'[key][k] = handlers[key][j]
                    \/ \E j \in DOMAIN more(key) : handlers'[key][k] = more(key)[j]
    <3> DEFINE a == handlers[key]
               b == more(key)
    <3>1. handlers'[key] = a \o b
      BY <1>3
    <3>2. a \in Seq(Listeners) /\ b \in Seq(Listeners) /\ NoDoubles(a) /\ NoDoubles(b)
      BY <2>7 DEF Registered
    <3>3. \A j \in DOMAIN a, k \in DOMAIN b : a[j] = b[k] => a[j].kind = "app"
      BY <2>2, <2>7, <2>8
    <3> HIDE DEF a, b
    <3>4. NoDoubles(a \o b) /\ a \o b \in Seq(Listeners)
      BY <3>2, <3>3, DoublesOfConcat
    <3>5. \A k \in DOMAIN (a \o b) :
            \/ \E j \in DOMAIN a : (a \o b)[k] = a[j]
            \/ \E j \in DOMAIN b : (a \o b)[k] = b[j]
      BY <3>2
    <3> QED BY <3>1, <3>4, <3>5 DEF a, b
  <2>10. handlers' \in [Keys -> Seq(Listeners)]
    BY <1>3, <2>9
  <2>11. (\A key \in Keys : \A k \in DOMAIN handlers[key] :
            Entitled(key, handlers[key][k]))'
    <3> SUFFICES ASSUME NEW key \in Keys, NEW k \in DOMAIN handlers'[key]
                 PROVE  Entitled(key, handlers[key][k])'
      OBVIOUS
    <3>1. CASE \E j \in DOMAIN handlers[key] : handlers'[key][k] = handlers[key][j]
      <4>1. PICK j \in DOMAIN handlers[key] : handlers'[key][k] = handlers[key][j]
        BY <3>1
      <4>2. Entitled(key, handlers[key][j]) /\ handlers[key][j].kind # "provider"
        BY <2>8 DEF Registered
      <4> QED BY <1>1, <4>1, <4>2 DEF Entitled
    <3>2. CASE \E j \in DOMAIN more(key) : handlers'[key][k] = more(key)[j]
      <4>1. PICK n \in DOMAIN entries :
              entries[n].type = key /\ handlers'[key][k] = handler(n)
        BY <2>7, <3>2
      <4>2. /\ n \in DOMAIN unsubscribes'
            /\ unsubscribes'[n] = Token(key, handlers'[key][k])
            /\ handlers'[key][k].kind = "provider"
        BY <2>2, <2>4, <2>5, <4>1
      <4> QED BY <4>2 DEF Entitled
    <3> QED BY <2>9, <3>1, <3>2
  <2>12. created' \in Nat
    BY <1>3, <2>1
  <2> QED BY <1>1, <2>6, <2>9, <2>10, <2>11, <2>12 DEF Registered
<1> HIDE DEF closures, more
<1>4. \/ /\ Installable
         /\ handlers' = [key \in Keys |-> handlers[key] \o more(key)]
         /\ unsubscribes' = unsubscribes \o closures
         /\ created' = created + Len(entries)
      \/ UNCHANGED <<handlers, unsubscribes, created>>
  BY DEF Install, closures, more
<1> QED BY <1>2, <1>3, <1>4

(* What is left when the tokens of a list are called: the lists are typed  *)
(* and hold nothing that was not there.                                    *)
LEMMA DroppedRegistry ==
  ASSUME Registered, NEW list \in Seq(Tokens)
  PROVE  LET left == Dropped(handlers, list)
         IN  /\ left \in [Keys -> Seq(Listeners)]
             /\ \A key \in Keys : NoDoubles(left[key])
             /\ \A key \in Keys : \A k \in DOMAIN left[key] :
                  /\ left[key][k] \in Listeners
                  /\ Entitled(key, left[key][k])
                  /\ left[key][k].kind # "app" =>
                       \A n \in DOMAIN list : list[n] # Token(key, left[key][k])
<1> DEFINE left == Dropped(handlers, list)
<1>1. left = [key \in Keys |-> left[key]]
  BY DEF Dropped, Registered
<1>2. ASSUME NEW key \in Keys
      PROVE  /\ left[key] \in Seq(Listeners) /\ NoDoubles(left[key])
             /\ \A k \in DOMAIN left[key] :
                  /\ \E j \in DOMAIN handlers[key] : left[key][k] = handlers[key][j]
                  /\ left[key][k].kind # "app" =>
                       \A n \in DOMAIN list : list[n] # Token(key, left[key][k])
  BY DroppedLists
<1> HIDE DEF left
<1>3. left \in [Keys -> Seq(Listeners)]
  BY <1>1, <1>2
<1>4. \A key \in Keys : \A k \in DOMAIN left[key] :
        left[key][k] \in Listeners /\ Entitled(key, left[key][k])
  <2> SUFFICES ASSUME NEW key \in Keys, NEW k \in DOMAIN left[key]
               PROVE  left[key][k] \in Listeners /\ Entitled(key, left[key][k])
    OBVIOUS
  <2>1. \E j \in DOMAIN handlers[key] : left[key][k] = handlers[key][j]
    BY <1>2
  <2>2. left[key] \in Seq(Listeners)
    BY <1>2
  <2> QED BY <2>1, <2>2 DEF Registered
<1> QED BY <1>2, <1>3, <1>4 DEF left

(* Once uninstalled, the router has nothing subscribed and no token.       *)
LEMMA UninstallRegistered ==
  ASSUME Registered, handlers' = Uninstalled, unsubscribes' = <<>>,
         entries' \in Seq([type : Keys, provider : Providers]),
         UNCHANGED <<tokens, hooked, observer, observing, created, enabled>>
  PROVE  Registered'
<1> DEFINE left == Dropped(handlers, unsubscribes)
<1>1. unsubscribes \in Seq(Tokens)
  BY DEF Registered
<1>2. /\ left \in [Keys -> Seq(Listeners)]
      /\ \A key \in Keys : NoDoubles(left[key])
      /\ \A key \in Keys : \A k \in DOMAIN left[key] :
           /\ left[key][k] \in Listeners
           /\ Entitled(key, left[key][k])
           /\ left[key][k].kind # "app" =>
                \A n \in DOMAIN unsubscribes : unsubscribes[n] # Token(key, left[key][k])
  BY <1>1, DroppedRegistry
<1>3. handlers' = left
  BY DEF Uninstalled
<1> HIDE DEF left
<1>4. \A key \in Keys : \A k \in DOMAIN left[key] : left[key][k].kind # "provider"
  BY <1>2 DEF Entitled
<1>5. (\A key \in Keys : \A k \in DOMAIN handlers[key] :
         Entitled(key, handlers[key][k]))'
  BY <1>2, <1>3, <1>4 DEF Entitled
<1>6. (\A m, n \in DOMAIN unsubscribes :
         unsubscribes[m].handler = unsubscribes[n].handler => m = n)'
  OBVIOUS
<1> QED BY <1>2, <1>3, <1>5, <1>6 DEF Registered

LEMMA InstallLoggingRegistered ==
  ASSUME Registered, InstallLogging
  PROVE  Registered'
<1>1. UNCHANGED <<tokens, entries, unsubscribes, hooked, enabled>>
  BY DEF InstallLogging, automation
<1>2. CASE UNCHANGED <<created, observer, handlers, observing>>
  <2>1. \A k \in Keys, h \in Listeners : Entitled(k, h) => Entitled(k, h)'
    BY <1>1, <1>2 DEF Entitled
  <2> QED BY <1>1, <1>2, <2>1 DEF Registered
<1>3. CASE /\ observer = 0
           /\ created' = created + 1
           /\ observer' = created + 1
           /\ handlers' = Added(handlers, AllEvents, Logger(created + 1))
           /\ observing' = Append(observing, Token(AllEvents, Logger(created + 1)))
  <2> DEFINE h == Logger(created + 1)
             list == handlers[AllEvents]
  <2>1. created \in Nat /\ created' \in Nat /\ observer' \in Nat /\ observer' # 0
    BY <1>3 DEF Registered
  <2>2. h \in Listeners /\ h.kind = "logger"
    BY <2>1 DEF Logger, Handler, Listeners
  <2>3. observing' = <<Token(AllEvents, h)>>
    BY <1>3 DEF Registered
  <2>4. AllEvents \in Keys /\ list \in Seq(Listeners) /\ NoDoubles(list)
    BY DEF Keys, Registered
  <2>5. \A key \in Keys : \A k \in DOMAIN handlers[key] :
          Entitled(key, handlers[key][k]) /\ handlers[key][k].kind # "logger"
    <3>1. observing = <<>>
      BY <1>3 DEF Registered
    <3>2. \A key : observing # <<Token(key, Logger(observer))>>
      BY <3>1
    <3> QED BY <3>2 DEF Registered, Entitled
  <2>6. \A j \in DOMAIN list : list[j] # h
    BY <2>2, <2>4, <2>5
  <2>7. handlers' = [handlers EXCEPT ![AllEvents] = Append(list, h)]
    BY <1>3 DEF Added
  <2>8. observer' = created + 1 /\ h = Logger(observer')
    BY <1>3
  <2> HIDE DEF h, list
  <2>9. /\ Append(list, h) \in Seq(Listeners)
        /\ NoDoubles(Append(list, h))
        /\ \A k \in DOMAIN Append(list, h) :
             \/ Append(list, h)[k] = h
             \/ \E j \in DOMAIN list : Append(list, h)[k] = list[j]
    BY <2>2, <2>4, <2>6, AppendedList
  <2>10. \A key \in Keys :
           handlers'[key] = IF key = AllEvents THEN Append(list, h) ELSE handlers[key]
    BY <2>7 DEF Registered
  <2>11. /\ handlers' \in [Keys -> Seq(Listeners)]
         /\ (\A key \in Keys : NoDoubles(handlers[key]))'
    BY <2>7, <2>9, <2>10 DEF Registered
  <2>12. (\A key \in Keys : \A k \in DOMAIN handlers[key] :
            Entitled(key, handlers[key][k]))'
    <3> SUFFICES ASSUME NEW key \in Keys, NEW k \in DOMAIN handlers'[key]
                 PROVE  Entitled(key, handlers[key][k])'
      OBVIOUS
    <3>1. CASE key = AllEvents /\ handlers'[key][k] = h
      BY <2>2, <2>3, <2>8, <3>1 DEF Entitled, Logger
    <3>2. CASE \E j \in DOMAIN handlers[key] : handlers'[key][k] = handlers[key][j]
      <4>1. PICK j \in DOMAIN handlers[key] : handlers'[key][k] = handlers[key][j]
        BY <3>2
      <4>2. Entitled(key, handlers[key][j]) /\ handlers[key][j].kind # "logger"
        BY <2>5
      <4> QED BY <1>1, <4>1, <4>2 DEF Entitled
    <3> QED BY <2>9, <2>10, <3>1, <3>2 DEF list
  <2>13. (observing = IF observer = 0 THEN <<>>
                      ELSE <<Token(AllEvents, Logger(observer))>>)'
    BY <2>1, <2>3, <2>8 DEF Logger
  <2> QED BY <1>1, <2>1, <2>11, <2>12, <2>13 DEF Registered
<1> QED BY <1>2, <1>3 DEF InstallLogging

LEMMA UninstallLoggingRegistered ==
  ASSUME Registered, UninstallLogging
  PROVE  Registered'
<1>1. UNCHANGED <<tokens, entries, unsubscribes, hooked, created, enabled>>
  BY DEF UninstallLogging, automation
<1>2. CASE UNCHANGED <<handlers, observing, observer>>
  <2>1. \A k \in Keys, h \in Listeners : Entitled(k, h) => Entitled(k, h)'
    BY <1>1, <1>2 DEF Entitled
  <2> QED BY <1>1, <1>2, <2>1 DEF Registered
<1>3. CASE /\ observer # 0
           /\ handlers' = Dropped(handlers, observing)
           /\ observing' = <<>>
           /\ observer' = 0
  <2> DEFINE left == Dropped(handlers, observing)
  <2>1. observing = <<Token(AllEvents, Logger(observer))>> /\ observer \in Nat
    BY <1>3 DEF Registered
  <2>2. observing \in Seq(Tokens)
    BY <2>1 DEF Token, Tokens, Logger, Handler, Listeners, Keys
  <2>3. /\ left \in [Keys -> Seq(Listeners)]
        /\ \A key \in Keys : NoDoubles(left[key])
        /\ \A key \in Keys : \A k \in DOMAIN left[key] :
             /\ left[key][k] \in Listeners
             /\ Entitled(key, left[key][k])
             /\ left[key][k].kind # "app" =>
                  \A n \in DOMAIN observing : observing[n] # Token(key, left[key][k])
    BY <2>2, DroppedRegistry
  <2>4. handlers' = left
    BY <1>3
  <2> HIDE DEF left
  <2>5. ASSUME NEW key \in Keys, NEW k \in DOMAIN left[key]
        PROVE  left[key][k].kind # "logger"
    <3> SUFFICES ASSUME left[key][k].kind = "logger" PROVE FALSE
      OBVIOUS
    <3>1. observing = <<Token(key, left[key][k])>>
      BY <2>3 DEF Entitled
    <3>2. 1 \in DOMAIN observing /\ observing[1] = Token(key, left[key][k])
      BY <3>1
    <3> QED BY <2>3, <3>2
  <2>6. (\A key \in Keys : \A k \in DOMAIN handlers[key] :
           Entitled(key, handlers[key][k]))'
    BY <1>1, <2>3, <2>4, <2>5 DEF Entitled
  <2> QED BY <1>1, <1>3, <2>3, <2>4, <2>6 DEF Registered
<1> QED BY <1>2, <1>3 DEF UninstallLogging

LEMMA InstallAutomationRegistered ==
  ASSUME Registered, InstallAutomation
  PROVE  Registered'
<1>1. UNCHANGED <<tokens, entries, unsubscribes, observer, observing, created, enabled>>
  BY DEF InstallAutomation, automation
<1>2. CASE UNCHANGED <<handlers, hooked>>
  <2>1. \A k \in Keys, h \in Listeners : Entitled(k, h) => Entitled(k, h)'
    BY <1>1, <1>2 DEF Entitled
  <2> QED BY <1>1, <1>2, <2>1 DEF Registered
<1>3. CASE ~hooked /\ handlers' = Added(handlers, AllEvents, Hook) /\ hooked' = TRUE
  <2> DEFINE list == handlers[AllEvents]
  <2>1. Hook \in Listeners /\ Hook.kind = "hook"
    BY DEF Hook, Handler, Listeners
  <2>2. AllEvents \in Keys /\ list \in Seq(Listeners) /\ NoDoubles(list)
    BY DEF Keys, Registered
  <2>3. \A j \in DOMAIN list : list[j] # Hook
    BY <1>3, <2>1, <2>2 DEF Registered, Entitled
  <2>4. handlers' = [handlers EXCEPT ![AllEvents] = Append(list, Hook)]
    BY <1>3 DEF Added
  <2> HIDE DEF list
  <2>5. /\ Append(list, Hook) \in Seq(Listeners)
        /\ NoDoubles(Append(list, Hook))
        /\ \A k \in DOMAIN Append(list, Hook) :
             \/ Append(list, Hook)[k] = Hook
             \/ \E j \in DOMAIN list : Append(list, Hook)[k] = list[j]
    BY <2>1, <2>2, <2>3, AppendedList
  <2>6. \A key \in Keys :
          handlers'[key] = IF key = AllEvents THEN Append(list, Hook) ELSE handlers[key]
    BY <2>4 DEF Registered
  <2>7. /\ handlers' \in [Keys -> Seq(Listeners)]
        /\ (\A key \in Keys : NoDoubles(handlers[key]))'
    BY <2>4, <2>5, <2>6 DEF Registered
  <2>8. (\A key \in Keys : \A k \in DOMAIN handlers[key] :
           Entitled(key, handlers[key][k]))'
    <3> SUFFICES ASSUME NEW key \in Keys, NEW k \in DOMAIN handlers'[key]
                 PROVE  Entitled(key, handlers[key][k])'
      OBVIOUS
    <3>1. CASE key = AllEvents /\ handlers'[key][k] = Hook
      BY <1>3, <2>1, <3>1 DEF Entitled
    <3>2. CASE \E j \in DOMAIN handlers[key] : handlers'[key][k] = handlers[key][j]
      <4>1. PICK j \in DOMAIN handlers[key] : handlers'[key][k] = handlers[key][j]
        BY <3>2
      <4>2. Entitled(key, handlers[key][j])
        BY DEF Registered
      <4> QED BY <1>1, <1>3, <4>1, <4>2 DEF Entitled
    <3> QED BY <2>5, <2>6, <3>1, <3>2 DEF list
  <2> QED BY <1>1, <1>3, <2>7, <2>8 DEF Registered
<1> QED BY <1>2, <1>3 DEF InstallAutomation, Hookable

(* What leaves the lists, the flags and the tokens alone.                  *)
LEMMA UnchangedRegistered ==
  ASSUME Registered, UNCHANGED registry, enabled' \subseteq RuleNumbers
  PROVE  Registered'
<1>1. /\ UNCHANGED <<handlers, tokens, entries, unsubscribes>>
      /\ UNCHANGED <<hooked, observer, observing, created>>
  BY DEF registry
<1>2. \A k \in Keys, h \in Listeners : Entitled(k, h) => Entitled(k, h)'
  BY <1>1 DEF Entitled
<1> QED BY <1>1, <1>2 DEF Registered

LEMMA NextRegistered ==
  ASSUME Registered, [Next]_vars
  PROVE  Registered'
<1>1. ASSUME NEW key \in Keys, NEW callable \in Callables, Subscribe(key, callable)
      PROVE  Registered'
  BY <1>1, SubscribeRegistered
<1>2. ASSUME NEW token \in tokens, Unsubscribe(token)
      PROVE  Registered'
  BY <1>2, UnsubscribeRegistered
<1>3. CASE Clear
  BY <1>3, ClearRegistered
<1>4. ASSUME NEW key \in Keys, NEW provider \in Providers, Register(key, provider)
      PROVE  Registered'
  BY <1>4, RegisterRegistered
<1>5. CASE Install
  BY <1>5, InstallRegistered
<1>6. CASE Uninstall
  <2>1. /\ handlers' = Uninstalled /\ unsubscribes' = <<>>
        /\ UNCHANGED <<entries, tokens, hooked, observer, observing, created, enabled>>
    BY <1>6 DEF Uninstall, automation
  <2>2. entries' \in Seq([type : Keys, provider : Providers])
    BY <2>1 DEF Registered
  <2> QED BY <2>1, <2>2, UninstallRegistered
<1>7. CASE ClearRouter
  <2>1. /\ handlers' = Uninstalled /\ unsubscribes' = <<>> /\ entries' = <<>>
        /\ UNCHANGED <<tokens, hooked, observer, observing, created, enabled>>
    BY <1>7 DEF ClearRouter, automation
  <2>2. entries' \in Seq([type : Keys, provider : Providers])
    BY <2>1
  <2> QED BY <2>1, <2>2, UninstallRegistered
<1>8. CASE InstallLogging
  BY <1>8, InstallLoggingRegistered
<1>9. CASE UninstallLogging
  BY <1>9, UninstallLoggingRegistered
<1>10. CASE InstallAutomation
  BY <1>10, InstallAutomationRegistered
<1>11. enabled \subseteq RuleNumbers
  BY DEF Registered
<1>12. ASSUME NEW name \in ActionNames, ChangeAction(name)
       PROVE  Registered'
  <2>1. UNCHANGED registry /\ enabled' = enabled
    BY <1>12 DEF ChangeAction
  <2> QED BY <1>11, <2>1, UnchangedRegistered
<1>13. ASSUME NEW r \in DOMAIN RuleBook, SwitchRule(r)
       PROVE  Registered'
  <2>1. UNCHANGED registry /\ enabled' \subseteq RuleNumbers
    BY <1>11, <1>13 DEF SwitchRule, RuleNumbers
  <2> QED BY <2>1, UnchangedRegistered
<1>14. CASE UNCHANGED <<registry, automation>>
  <2>1. UNCHANGED registry /\ enabled' = enabled
    BY <1>14 DEF automation
  <2> QED BY <1>11, <2>1, UnchangedRegistered
<1>15. ASSUME NEW o \in Occasions, Emit(o)
       PROVE  Registered'
  BY <1>14, <1>15 DEF Emit, Happening
<1>16. ASSUME NEW o \in Occasions, NEW scope \in Scopes, Fire(o, scope)
       PROVE  Registered'
  BY <1>14, <1>16 DEF Fire, Happening
<1>17. CASE Call \/ EndDispatch \/ Consider \/ Act \/ Raise \/ Finish \/ EndFire
  BY <1>14, <1>17 DEF Call, EndDispatch, Consider, Act, Raise, Finish, EndFire
<1>18. CASE UNCHANGED vars
  BY <1>14, <1>18 DEF vars
<1> QED BY <1>1, <1>2, <1>3, <1>4, <1>5, <1>6, <1>7, <1>8, <1>9, <1>10, <1>12, <1>13,
           <1>15, <1>16, <1>17, <1>18 DEF Next

-----------------------------------------------------------------------------
(* The stack of loops.                                                     *)

(* The first of what is to come joins what has been.                       *)
LEMMA HeadMoves ==
  ASSUME NEW D, NEW a \in Seq(D), NEW b \in Seq(D), b # <<>>
  PROVE  /\ Head(b) \in D /\ Tail(b) \in Seq(D)
         /\ Append(a, Head(b)) \in Seq(D)
         /\ a \o b = Append(a, Head(b)) \o Tail(b)
<1>1. /\ Head(b) \in D /\ Tail(b) \in Seq(D) /\ Append(a, Head(b)) \in Seq(D)
      /\ Len(a) \in Nat /\ Len(b) \in Nat /\ Len(b) > 0
      /\ Len(Tail(b)) = Len(b) - 1 /\ Head(b) = b[1]
      /\ \A i \in 1..Len(b) - 1 : Tail(b)[i] = b[i + 1]
      /\ Len(Append(a, Head(b))) = Len(a) + 1
      /\ \A i \in 1..Len(a) : Append(a, Head(b))[i] = a[i]
      /\ Append(a, Head(b))[Len(a) + 1] = Head(b)
  BY HeadTailProperties
<1> DEFINE c == Append(a, Head(b))
           t == Tail(b)
<1>2. /\ a \o b \in Seq(D) /\ Len(a \o b) = Len(a) + Len(b)
      /\ \A i \in 1..Len(a) + Len(b) :
           (a \o b)[i] = IF i <= Len(a) THEN a[i] ELSE b[i - Len(a)]
  BY ConcatProperties
<1>3. c \in Seq(D) /\ t \in Seq(D)
  BY <1>1
<1>4. /\ c \o t \in Seq(D) /\ Len(c \o t) = Len(c) + Len(t)
      /\ \A i \in 1..Len(c) + Len(t) :
           (c \o t)[i] = IF i <= Len(c) THEN c[i] ELSE t[i - Len(c)]
  <2> HIDE DEF c, t
  <2> QED BY <1>3, ConcatProperties
<1>5. Len(c \o t) = Len(a \o b)
  BY <1>1, <1>2, <1>4
<1>6. ASSUME NEW i \in 1..Len(a) + Len(b)
      PROVE  (a \o b)[i] = (c \o t)[i]
  <2>1. CASE i <= Len(a)
    BY <1>1, <1>2, <1>4, <2>1
  <2>2. CASE i = Len(a) + 1
    BY <1>1, <1>2, <1>4, <2>2
  <2>3. CASE i > Len(a) + 1
    <3>1. i - (Len(a) + 1) \in 1..Len(b) - 1 /\ i - (Len(a) + 1) + 1 = i - Len(a)
      BY <1>1, <2>3
    <3> QED BY <1>1, <1>2, <1>4, <2>3, <3>1
  <2> QED BY <1>1, <2>1, <2>2, <2>3
<1>7. a \o b = c \o t
  <2> HIDE DEF c, t
  <2> QED BY <1>2, <1>4, <1>5, <1>6, SeqEqual
<1> QED BY <1>1, <1>7

(* One more loop, one less, and the innermost one in its next state.       *)
LEMMA StackKept ==
  ASSUME frames \in Seq(SoundFrames)
  PROVE  /\ \A f \in SoundFrames : Append(frames, f) \in Seq(SoundFrames)
         /\ frames # <<>> =>
              /\ Top \in SoundFrames
              /\ Front(frames) \in Seq(SoundFrames)
              /\ \A f \in SoundFrames : Replaced(f) \in Seq(SoundFrames)
<1> DEFINE D == SoundFrames
<1> HIDE DEF D
<1>1. frames \in Seq(D)
  BY DEF D
<1>2. ASSUME frames # <<>>
      PROVE  /\ Last(frames) \in D
             /\ Front(frames) \in Seq(D)
             /\ \A f \in D : Front(frames) \o <<f>> \in Seq(D)
  <2>1. Len(frames) \in Nat /\ Len(frames) > 0 /\ \A i \in 1..Len(frames) : frames[i] \in D
    BY <1>1, <1>2
  <2>2. Last(frames) \in D
    BY <2>1 DEF Last
  <2>3. Front(frames) \in Seq(D)
    BY <2>1, SubSeqProperties DEF Front
  <2>4. \A f \in D : <<f>> \in Seq(D)
    OBVIOUS
  <2> QED BY <2>2, <2>3, <2>4, ConcatProperties
<1> QED BY <1>1, <1>2 DEF D, Top, Replaced

LEMMA TopDispatch ==
  ASSUME frames \in Seq(SoundFrames), In("dispatch")
  PROVE  frames # <<>> /\ Top \in Dispatches /\ SoundDispatch(Top)
<1>1. frames # <<>> /\ Top \in SoundFrames /\ Top.kind = "dispatch"
  BY StackKept DEF In
<1> HIDE DEF Top
<1> QED BY <1>1 DEF SoundFrames, Firings

LEMMA TopFire ==
  ASSUME frames \in Seq(SoundFrames), In("fire")
  PROVE  frames # <<>> /\ Top \in Firings /\ SoundFiring(Top)
<1>1. frames # <<>> /\ Top \in SoundFrames /\ Top.kind = "fire"
  BY StackKept DEF In
<1> HIDE DEF Top
<1> QED BY <1>1 DEF SoundFrames, Dispatches

-----------------------------------------------------------------------------
(* Dispatch loops.                                                         *)

(* An event finds those who listen to its type and those who listen to     *)
(* everything: the same closure or hook is in no two of these lists.       *)
LEMMA DispatchBegins ==
  ASSUME Registered, NEW o \in Occasions
  PROVE  DispatchFrame(o) \in SoundFrames
<1> DEFINE key == o.type
           a == handlers[key]
           b == handlers[AllEvents]
           due == a \o b
           f == [kind |-> "dispatch", on |-> o, todo |-> due, due |-> due, calls |-> <<>>]
<1>1. /\ key \in Keys /\ AllEvents \in Keys /\ key # AllEvents /\ DOMAIN handlers = Keys
  BY OccasionsAssumption DEF Keys, Registered
<1>2. /\ a \in Seq(Listeners) /\ b \in Seq(Listeners) /\ NoDoubles(a) /\ NoDoubles(b)
      /\ \A j \in DOMAIN a : Entitled(key, a[j])
      /\ \A k \in DOMAIN b : Entitled(AllEvents, b[k])
  BY <1>1 DEF Registered
<1>3. DispatchFrame(o) = f
  BY <1>1 DEF DispatchFrame
<1>4. \A j \in DOMAIN a, k \in DOMAIN b : a[j] \in Listeners /\ b[k] \in Listeners
  BY <1>2, ElementOfSeq
<1>5. ASSUME NEW j \in DOMAIN a, NEW k \in DOMAIN b, a[j] = b[k]
      PROVE  a[j].kind = "app"
  <2>1. a[j].kind \in {"app", "hook", "logger", "provider"}
    BY <1>4 DEF Listeners
  <2>2. Entitled(key, a[j]) /\ Entitled(AllEvents, a[j])
    BY <1>2, <1>5
  <2>3. a[j].kind # "hook" /\ a[j].kind # "logger"
    BY <1>1, <2>2 DEF Entitled
  <2>4. ASSUME a[j].kind = "provider" PROVE FALSE
    <3>1. /\ \E n \in DOMAIN unsubscribes : unsubscribes[n] = Token(key, a[j])
          /\ \E m \in DOMAIN unsubscribes : unsubscribes[m] = Token(AllEvents, a[j])
      BY <2>2, <2>4 DEF Entitled
    <3>2. PICK n \in DOMAIN unsubscribes : unsubscribes[n] = Token(key, a[j])
      BY <3>1
    <3>3. PICK m \in DOMAIN unsubscribes : unsubscribes[m] = Token(AllEvents, a[j])
      BY <3>1
    <3>4. unsubscribes[n].handler = unsubscribes[m].handler
      BY <3>2, <3>3 DEF Token
    <3>5. n = m
      BY <3>4 DEF Registered
    <3> QED BY <1>1, <3>2, <3>3, <3>5 DEF Token
  <2> QED BY <2>1, <2>3, <2>4
<1>6. NoDoubles(due) /\ due \in Seq(Listeners)
  <2> HIDE DEF a, b
  <2>1. NoDoubles(a \o b)
    BY <1>2, <1>5, DoublesOfConcat
  <2> QED BY <1>2, <2>1, ConcatProperties
<1>7. /\ Len(a) \in Nat /\ Len(b) \in Nat /\ Len(due) = Len(a) + Len(b)
      /\ DOMAIN a = 1..Len(a) /\ DOMAIN b = 1..Len(b)
      /\ DOMAIN due = 1..Len(due)
      /\ \A i \in 1..Len(due) : due[i] = IF i <= Len(a) THEN a[i] ELSE b[i - Len(a)]
  <2> HIDE DEF a, b
  <2>1. /\ Len(a \o b) = Len(a) + Len(b) /\ a \o b \in Seq(Listeners)
        /\ \A i \in 1..Len(a) + Len(b) :
             (a \o b)[i] = IF i <= Len(a) THEN a[i] ELSE b[i - Len(a)]
    BY <1>2, ConcatProperties
  <2> QED BY <1>2, <2>1
<1>8. ASSUME NEW j \in DOMAIN due, due[j].kind = "logger"
      PROVE  due[j] = Logger(observer)
  <2>1. CASE j <= Len(a)
    <3>1. j \in DOMAIN a /\ due[j] = a[j]
      BY <1>7, <2>1
    <3>2. Entitled(key, a[j]) /\ a[j].kind = "logger"
      BY <1>2, <1>8, <3>1
    <3> QED BY <1>1, <3>2 DEF Entitled
  <2>2. CASE ~(j <= Len(a))
    <3>1. j - Len(a) \in DOMAIN b /\ due[j] = b[j - Len(a)]
      <4> HIDE DEF a, b, due
      <4> QED BY <1>7, <2>2
    <3>2. Entitled(AllEvents, due[j])
      BY <1>2, <3>1
    <3> QED BY <1>8, <3>2 DEF Entitled
  <2> QED BY <2>1, <2>2
<1>9. \A j, k \in DOMAIN due : due[j].kind = "logger" /\ due[k].kind = "logger" => j = k
  <2> SUFFICES ASSUME NEW j \in DOMAIN due, NEW k \in DOMAIN due,
                      due[j].kind = "logger", due[k].kind = "logger", j # k
               PROVE  FALSE
    OBVIOUS
  <2>1. due[j] = due[k]
    BY <1>8
  <2> HIDE DEF due
  <2> QED BY <1>6, <2>1 DEF NoDoubles
<1> HIDE DEF due
<1>10. f \in Dispatches
  BY <1>6 DEF Dispatches
<1>11. SoundDispatch(f)
  <2>1. Heard(f) = <<>> /\ f.due = due /\ f.todo = due
    BY DEF Heard
  <2>2. <<>> \o due = due
    BY <1>6, ConcatEmptySeq
  <2> QED BY <1>6, <1>9, <2>1, <2>2 DEF SoundDispatch
<1> QED BY <1>3, <1>10, <1>11 DEF SoundFrames

(* One handler is called, whatever becomes of it.                          *)
LEMMA CallSound ==
  ASSUME frames \in Seq(SoundFrames), In("dispatch"), NextToCall # <<>>,
         NEW how \in {"called", "sent", "skipped", "refused", "raised"}
  PROVE  Called(Head(NextToCall), how) \in Seq(SoundFrames)
<1> DEFINE f == Top
           to == Head(f.todo)
           call == [to |-> to, how |-> how]
           g == [f EXCEPT !.todo = Tail(f.todo), !.calls = Append(@, call)]
<1>1. frames # <<>> /\ f \in Dispatches /\ SoundDispatch(f)
  BY TopDispatch
<1>2. /\ f.todo \in Seq(Listeners) /\ f.calls \in Seq(Calls) /\ f.todo # <<>>
      /\ Called(Head(NextToCall), how) = Replaced(g)
  BY <1>1 DEF Dispatches, NextToCall, Called
<1> HIDE DEF f
<1>3. to \in Listeners /\ Tail(f.todo) \in Seq(Listeners)
  BY <1>2, HeadTailProperties
<1>4. call \in Calls
  BY <1>3 DEF Calls
<1>5. /\ g \in Dispatches /\ g.due = f.due /\ g.todo = Tail(f.todo)
      /\ g.calls = Append(f.calls, call)
  <2> DEFINE t == Tail(f.todo)
             c == Append(f.calls, call)
  <2>1. t \in Seq(Listeners) /\ c \in Seq(Calls)
    BY <1>2, <1>3, <1>4
  <2> HIDE DEF t, c
  <2>2. \A x \in Dispatches :
          LET y == [x EXCEPT !.todo = t, !.calls = c]
          IN  y \in Dispatches /\ y.due = x.due /\ y.todo = t /\ y.calls = c
    BY <2>1 DEF Dispatches
  <2>3. g = [f EXCEPT !.todo = t, !.calls = c]
    BY DEF t, c
  <2> QED BY <1>1, <2>2, <2>3 DEF t, c
<1> DEFINE old == f.calls
           new == Append(old, call)
<1>6. /\ old \in Seq(Calls) /\ Len(old) \in Nat /\ DOMAIN old = 1..Len(old)
      /\ new \in Seq(Calls) /\ Len(new) = Len(old) + 1 /\ DOMAIN new = 1..Len(old) + 1
      /\ \A k \in 1..Len(old) : new[k] = old[k]
      /\ new[Len(old) + 1] = call
      /\ \A k \in 1..Len(old) : old[k].to \in Listeners
      /\ call.to = to
  <2>1. old \in Seq(Calls) /\ call.to = to
    BY <1>2
  <2>2. \A k \in 1..Len(old) : old[k].to \in Listeners
    <3> HIDE DEF old
    <3>1. \A k \in 1..Len(old) : old[k] \in Calls
      BY <2>1, ElementOfSeq
    <3> QED BY <3>1 DEF Calls
  <2> HIDE DEF old, call
  <2> QED BY <1>4, <2>1, <2>2
<1>7. Heard(f) = [k \in DOMAIN old |-> old[k].to] /\ Heard(g) = [k \in DOMAIN new |-> new[k].to]
  BY <1>5 DEF Heard
<1> HIDE DEF g, old, new, call, to
<1>8. Heard(f) \in Seq(Listeners) /\ Len(Heard(f)) = Len(old)
  BY <1>6, <1>7
<1>9. Heard(g) = Append(Heard(f), to)
  <2>1. /\ DOMAIN Heard(g) = 1..Len(old) + 1
        /\ \A k \in 1..Len(old) : Heard(g)[k] = Heard(f)[k]
        /\ Heard(g)[Len(old) + 1] = to
    BY <1>6, <1>7
  <2>2. /\ Append(Heard(f), to) \in Seq(Listeners)
        /\ Len(Append(Heard(f), to)) = Len(old) + 1
        /\ \A k \in 1..Len(old) : Append(Heard(f), to)[k] = Heard(f)[k]
        /\ Append(Heard(f), to)[Len(old) + 1] = to
    BY <1>3, <1>6, <1>8, AppendProperties
  <2>3. \A k \in 1..Len(old) + 1 : k \in 1..Len(old) \/ k = Len(old) + 1
    BY <1>6
  <2>4. \A k \in 1..Len(old) + 1 : Heard(g)[k] = Append(Heard(f), to)[k]
    BY <2>1, <2>2, <2>3
  <2>5. Heard(g) \in Seq(Listeners) /\ Len(Heard(g)) = Len(old) + 1
    BY <1>3, <1>6, <1>7
  <2> QED BY <2>2, <2>4, <2>5, SeqEqual
<1>10. SoundDispatch(g)
  <2>1. Heard(f) \o f.todo = Append(Heard(f), to) \o Tail(f.todo)
    BY <1>2, <1>8, HeadMoves DEF to
  <2>2. Heard(f) \o f.todo = Heard(g) \o g.todo
    BY <1>5, <1>9, <2>1
  <2> QED BY <1>1, <1>5, <2>2 DEF SoundDispatch
<1>11. g \in SoundFrames
  BY <1>5, <1>10 DEF SoundFrames
<1> QED BY <1>1, <1>2, <1>11, StackKept

-----------------------------------------------------------------------------
(* Loops over rules.                                                       *)

(* Nothing rises.                                                          *)
LEMMA NothingRises ==
  <<>> \o <<>> = <<>> /\ Rising(<<>> \o <<>>) /\ Rising(<<>>)
<1>1. <<>> \o <<>> = <<>>
  <2>1. <<>> \in Seq(Nat)
    OBVIOUS
  <2> QED BY <2>1, ConcatEmptySeq
<1>2. Rising(<<>>)
  BY DEF Rising
<1> QED BY <1>1, <1>2

(* The rules of the trigger that are enabled, in the order of their names. *)
LEMMA FireBegins ==
  ASSUME Registered, NEW o \in Occasions, NEW scope \in Scopes \cup {Anywhere}
  PROVE  FireFrame(o, scope) \in SoundFrames
<1> DEFINE asked == {r \in enabled : RuleBook[r].trigger = o.type}
           due == Ascending(asked)
           f == [kind |-> "fire", on |-> o, scope |-> scope, todo |-> due, due |-> due,
                 rule |-> 0, acts |-> <<>>, ran |-> <<>>, skipped |-> {}, done |-> <<>>]
<1>1. RuleNumbers = 1..Len(RuleBook) /\ Len(RuleBook) \in Nat
  BY RuleBookAssumption DEF RuleNumbers
<1>2. asked \in SUBSET RuleNumbers /\ \A r \in asked : RuleBook[r].trigger = o.type
  BY DEF Registered
<1>3. FireFrame(o, scope) = f
  BY DEF FireFrame
<1> HIDE DEF asked
<1>4. asked \in SUBSET Int /\ IsFiniteSet(asked)
  <2>1. IsFiniteSet(1..Len(RuleBook))
    BY <1>1, FS_Interval
  <2>2. IsFiniteSet(asked)
    BY <1>1, <1>2, <2>1, FS_Subset
  <2> QED BY <1>1, <1>2, <2>2
<1>5. Cardinality(asked) \in Nat /\ due \in [1..Cardinality(asked) -> asked]
  BY <1>4, AscendingLists
<1> HIDE DEF due
<1>6. due \in Seq(RuleNumbers) /\ \A k \in DOMAIN due : RuleBook[due[k]].trigger = o.type
  BY <1>2, <1>5
<1>7. f \in Firings
  <2>1. <<>> \in Seq(Nat) /\ <<>> \in Seq(Verdicts)
    OBVIOUS
  <2>2. 0 \in RuleNumbers \cup {0}
    OBVIOUS
  <2> HIDE DEF f
  <2>3. \A n \in RuleNumbers \cup {0}, a \in Seq(Nat), d \in Seq(Verdicts) :
          [kind |-> "fire", on |-> o, scope |-> scope, todo |-> due, due |-> due,
           rule |-> n, acts |-> a, ran |-> a, skipped |-> {}, done |-> d] \in Firings
    BY <1>6 DEF Firings
  <2> QED BY <2>1, <2>2, <2>3 DEF f
<1>8. SoundFiring(f)
  <2>1. /\ f.rule = 0 /\ f.due = due /\ f.todo = due /\ f.on = o
        /\ f.ran = <<>> /\ f.acts = <<>> /\ f.skipped = {} /\ f.done = <<>>
    OBVIOUS
  <2> HIDE DEF f
  <2>5. Considered(f) = <<>> /\ DOMAIN f.done = {}
    BY <2>1 DEF Considered
  <2>2. f.due = Considered(f) \o (IF f.rule = 0 THEN <<>> ELSE <<f.rule>>) \o f.todo
    <3>1. (<<>> \o <<>>) \o due = due
      BY <1>6, NothingRises, ConcatEmptySeq
    <3> QED BY <2>5, <2>1, <3>1
  <2>3. Rising(f.ran \o f.acts)
    BY <2>1, NothingRises
  <2>4. \A k \in DOMAIN f.due : RuleBook[f.due[k]].trigger = f.on.type
    BY <1>6, <2>1
  <2> QED BY <2>5, <2>1, <2>2, <2>3, <2>4 DEF SoundFiring
<1> QED BY <1>3, <1>7, <1>8 DEF SoundFrames

(* An initial part of a rising list rises, and so does the list without    *)
(* one of its elements.                                                    *)
LEMMA RisingParts ==
  ASSUME NEW a \in Seq(Nat), NEW b \in Seq(Nat), Rising(a \o b)
  PROVE  /\ Rising(a)
         /\ b # <<>> => Rising(a \o Tail(b))
<1>1. /\ Len(a) \in Nat /\ Len(b) \in Nat
      /\ DOMAIN a = 1..Len(a)
      /\ DOMAIN (a \o b) = 1..Len(a) + Len(b)
      /\ \A i \in 1..Len(a) + Len(b) :
           (a \o b)[i] = IF i <= Len(a) THEN a[i] ELSE b[i - Len(a)]
  BY ConcatProperties
<1>2. Rising(a)
  <2> SUFFICES ASSUME NEW i \in DOMAIN a, NEW j \in DOMAIN a, i < j
               PROVE  a[i] < a[j]
    BY DEF Rising
  <2>1. /\ i \in DOMAIN (a \o b) /\ j \in DOMAIN (a \o b)
        /\ (a \o b)[i] = a[i] /\ (a \o b)[j] = a[j]
    BY <1>1
  <2> QED BY <2>1 DEF Rising
<1>3. ASSUME b # <<>>
      PROVE  Rising(a \o Tail(b))
  <2> DEFINE t == Tail(b)
             at(i) == IF i <= Len(a) THEN i ELSE i + 1
  <2>1. /\ Len(b) > 0 /\ t \in Seq(Nat) /\ Len(t) = Len(b) - 1
        /\ \A i \in 1..Len(b) - 1 : t[i] = b[i + 1]
    BY <1>3, HeadTailProperties
  <2> HIDE DEF t
  <2>2. /\ DOMAIN (a \o t) = 1..Len(a) + Len(t)
        /\ \A i \in 1..Len(a) + Len(t) :
             (a \o t)[i] = IF i <= Len(a) THEN a[i] ELSE t[i - Len(a)]
    <3>1. /\ a \o t \in Seq(Nat) /\ Len(a \o t) = Len(a) + Len(t)
          /\ \A i \in 1..Len(a) + Len(t) :
               (a \o t)[i] = IF i <= Len(a) THEN a[i] ELSE t[i - Len(a)]
      BY <2>1, ConcatProperties
    <3> QED BY <3>1
  <2>3. ASSUME NEW i \in DOMAIN (a \o t)
        PROVE  at(i) \in DOMAIN (a \o b) /\ (a \o t)[i] = (a \o b)[at(i)]
    <3>1. i \in 1..Len(a) + Len(b) - 1
      BY <1>1, <2>1, <2>2
    <3>2. CASE i <= Len(a)
      BY <1>1, <2>1, <2>2, <3>1, <3>2
    <3>3. CASE ~(i <= Len(a))
      <4>1. i - Len(a) \in 1..Len(b) - 1 /\ i - Len(a) + 1 = i + 1 - Len(a)
        BY <1>1, <3>1, <3>3
      <4>2. (a \o t)[i] = b[i + 1 - Len(a)]
        BY <1>1, <2>1, <2>2, <3>3, <4>1
      <4> QED BY <1>1, <3>1, <3>3, <4>2
    <3> QED BY <3>2, <3>3
  <2> SUFFICES ASSUME NEW i \in DOMAIN (a \o t), NEW j \in DOMAIN (a \o t), i < j
               PROVE  (a \o t)[i] < (a \o t)[j]
    BY DEF Rising, t
  <2>4. at(i) < at(j)
    BY <1>1, <2>1, <2>2
  <2> HIDE DEF at
  <2> QED BY <2>3, <2>4 DEF Rising
<1> QED BY <1>2, <1>3

(* A rule is done with, and its verdict told: the verdict is about a rule  *)
(* of the trigger that was the next one or was being run.                  *)
LEMMA VerdictTold ==
  ASSUME NEW f \in Firings, NEW g \in Firings, NEW told \in Verdicts,
         g.done = Append(f.done, told)
  PROVE  /\ Considered(f) \in Seq(RuleNumbers)
         /\ Considered(g) = Append(Considered(f), told.rule)
         /\ \A k \in DOMAIN g.done :
              \/ k \in DOMAIN f.done /\ g.done[k] = f.done[k]
              \/ g.done[k] = told
<1> DEFINE old == f.done
           new == Append(old, told)
<1>1. old \in Seq(Verdicts) /\ told.rule \in RuleNumbers
  BY DEF Firings, Verdicts
<1>2. /\ Considered(f) = [k \in DOMAIN old |-> old[k].rule]
      /\ Considered(g) = [k \in DOMAIN new |-> new[k].rule]
  BY DEF Considered
<1>3. g.done = new
  OBVIOUS
<1> HIDE DEF old, new
<1>4. /\ Len(old) \in Nat /\ DOMAIN old = 1..Len(old)
      /\ new \in Seq(Verdicts) /\ Len(new) = Len(old) + 1 /\ DOMAIN new = 1..Len(old) + 1
      /\ \A k \in 1..Len(old) : new[k] = old[k]
      /\ new[Len(old) + 1] = told
  BY <1>1 DEF new
<1>5. \A k \in 1..Len(old) : old[k].rule \in RuleNumbers
  <2>1. \A k \in 1..Len(old) : old[k] \in Verdicts
    BY <1>1, ElementOfSeq
  <2> QED BY <2>1 DEF Verdicts
<1>6. \A k \in 1..Len(old) + 1 : k \in 1..Len(old) \/ k = Len(old) + 1
  BY <1>4
<1>7. Considered(f) \in Seq(RuleNumbers) /\ Len(Considered(f)) = Len(old)
  BY <1>2, <1>4, <1>5
<1>8. Considered(g) = Append(Considered(f), told.rule)
  <2>1. /\ DOMAIN Considered(g) = 1..Len(old) + 1
        /\ \A k \in 1..Len(old) : Considered(g)[k] = Considered(f)[k]
        /\ Considered(g)[Len(old) + 1] = told.rule
    BY <1>2, <1>4
  <2>2. /\ Append(Considered(f), told.rule) \in Seq(RuleNumbers)
        /\ Len(Append(Considered(f), told.rule)) = Len(old) + 1
        /\ \A k \in 1..Len(old) : Append(Considered(f), told.rule)[k] = Considered(f)[k]
        /\ Append(Considered(f), told.rule)[Len(old) + 1] = told.rule
    BY <1>1, <1>7, AppendProperties
  <2>3. \A k \in 1..Len(old) + 1 : Considered(g)[k] = Append(Considered(f), told.rule)[k]
    BY <1>6, <2>1, <2>2
  <2>4. Considered(g) \in Seq(RuleNumbers) /\ Len(Considered(g)) = Len(old) + 1
    BY <1>1, <1>2, <1>4, <1>5, <1>6
  <2> QED BY <2>2, <2>3, <2>4, SeqEqual
<1>9. \A k \in DOMAIN new : (k \in DOMAIN old /\ new[k] = old[k]) \/ new[k] = told
  BY <1>4, <1>6
<1> QED BY <1>3, <1>7, <1>8, <1>9 DEF old

(* The next rule is passed over, or fails in its conditions.               *)
LEMMA PassedSound ==
  ASSUME NEW f \in Firings, SoundFiring(f), f.rule = 0, f.todo # <<>>,
         NEW how \in {"raised", "passed"}, NEW g \in Firings,
         g.on = f.on, g.scope = f.scope, g.due = f.due, g.todo = Tail(f.todo),
         g.rule = 0, g.acts = <<>>, g.ran = <<>>, g.skipped = {},
         g.done = Append(f.done, [rule |-> Head(f.todo), how |-> how, ran |-> <<>>,
                                  skipped |-> {}])
  PROVE  SoundFiring(g)
<1> DEFINE r == Head(f.todo)
           told == [rule |-> r, how |-> how, ran |-> <<>>, skipped |-> {}]
           was == Considered(f)
<1>1. f.todo \in Seq(RuleNumbers) /\ r \in RuleNumbers
  <2>1. f.todo \in Seq(RuleNumbers)
    BY DEF Firings
  <2> QED BY <2>1, HeadTailProperties
<1>2. told \in Verdicts /\ told.rule = r /\ told.ran = <<>> /\ told.how # "fired"
      /\ told.skipped = {}
  BY <1>1 DEF Verdicts
<1>3. g.done = Append(f.done, told)
  OBVIOUS
<1> HIDE DEF told, r
<1>4. /\ was \in Seq(RuleNumbers) /\ Considered(g) = Append(was, r)
      /\ \A k \in DOMAIN g.done : (k \in DOMAIN f.done /\ g.done[k] = f.done[k])
                                  \/ g.done[k] = told
  BY <1>2, <1>3, VerdictTold
<1> HIDE DEF was
<1>5. f.due = was \o f.todo
  <2>1. f.due = (was \o <<>>) \o f.todo
    BY DEF SoundFiring, was
  <2> QED BY <1>4, <2>1, ConcatEmptySeq
<1>6. g.due = Considered(g) \o (IF g.rule = 0 THEN <<>> ELSE <<g.rule>>) \o g.todo
  <2>1. was \o f.todo = Append(was, r) \o Tail(f.todo) /\ Append(was, r) \in Seq(RuleNumbers)
    <3> DEFINE todo == f.todo
    <3>1. todo \in Seq(RuleNumbers) /\ todo # <<>> /\ r = Head(todo)
      BY <1>1 DEF r
    <3> HIDE DEF todo
    <3>2. was \o todo = Append(was, Head(todo)) \o Tail(todo)
      BY <1>4, <3>1, HeadMoves
    <3>3. Append(was, Head(todo)) \in Seq(RuleNumbers)
      BY <1>4, <3>1, HeadMoves
    <3> QED BY <3>1, <3>2, <3>3 DEF todo
  <2>2. Append(was, r) \o <<>> = Append(was, r)
    BY <2>1, ConcatEmptySeq
  <2> QED BY <1>4, <1>5, <2>1, <2>2
<1>7. Rising(g.ran \o g.acts)
  BY NothingRises
<1>8. \A k \in DOMAIN g.done :
        /\ Rising(g.done[k].ran) /\ Settled(g.done[k])
        /\ g.done[k].ran # <<>> \/ g.done[k].how = "fired" => Entered(g.done[k].rule, g)
  <2>1. Rising(told.ran) /\ Settled(told)
    <3>1. Rising(told.ran) /\ Range(told.ran) = {} /\ DOMAIN told.ran = {}
      BY <1>2 DEF Rising, Range
    <3> QED BY <1>2, <3>1 DEF Settled
  <2>2. \A x : Entered(x, f) => Entered(x, g)
    BY DEF Entered
  <2>3. \A k \in DOMAIN f.done :
          /\ Rising(f.done[k].ran) /\ Settled(f.done[k])
          /\ f.done[k].ran # <<>> \/ f.done[k].how = "fired" => Entered(f.done[k].rule, f)
    BY DEF SoundFiring
  <2> QED BY <1>2, <1>4, <2>1, <2>2, <2>3
<1>9. \A k \in DOMAIN g.due : RuleBook[g.due[k]].trigger = g.on.type
  BY DEF SoundFiring
<1> QED BY <1>6, <1>7, <1>8, <1>9 DEF SoundFiring

(* The next rule is in scope and its conditions hold: it is run.           *)
LEMMA RunSound ==
  ASSUME NEW f \in Firings, SoundFiring(f), f.rule = 0, f.todo # <<>>,
         NEW g \in Firings, Entered(Head(f.todo), f),
         g.on = f.on, g.scope = f.scope, g.due = f.due, g.todo = Tail(f.todo),
         g.rule = Head(f.todo), g.ran = <<>>, g.done = f.done, Rising(g.acts),
         Underway(g.rule, g.acts, g.ran, g.skipped)
  PROVE  SoundFiring(g)
<1> DEFINE r == Head(f.todo)
           todo == f.todo
           was == Considered(f)
           acts == g.acts
<1>1. todo \in Seq(RuleNumbers) /\ todo # <<>> /\ r = Head(todo) /\ acts \in Seq(Nat)
  BY DEF Firings
<1>2. RuleNumbers = 1..Len(RuleBook) /\ Len(RuleBook) \in Nat
  BY RuleBookAssumption DEF RuleNumbers
<1> HIDE DEF r, todo
<1>3. r \in RuleNumbers /\ Tail(todo) \in Seq(RuleNumbers) /\ r # 0
  <2>1. r \in RuleNumbers /\ Tail(todo) \in Seq(RuleNumbers)
    BY <1>1, HeadTailProperties
  <2> QED BY <1>2, <2>1
<1>4. was \in Seq(RuleNumbers) /\ Considered(g) = was
  <2>1. Considered(g) = was
    BY DEF Considered
  <2>2. f.done \in Seq(Verdicts)
    BY DEF Firings
  <2>3. \A k \in 1..Len(f.done) : f.done[k].rule \in RuleNumbers
    <3> DEFINE done == f.done
    <3>1. done \in Seq(Verdicts)
      BY <2>2
    <3> HIDE DEF done
    <3>2. \A k \in 1..Len(done) : done[k] \in Verdicts
      BY <3>1, ElementOfSeq
    <3>3. \A k \in 1..Len(done) : done[k].rule \in RuleNumbers
      BY <3>2 DEF Verdicts
    <3> QED BY <3>3 DEF done
  <2>4. was \in Seq(RuleNumbers)
    BY <2>2, <2>3 DEF Considered
  <2> QED BY <2>1, <2>4
<1>5. f.due = was \o todo
  <2>1. f.due = (was \o <<>>) \o todo
    BY DEF SoundFiring, todo
  <2> HIDE DEF was
  <2> QED BY <1>4, <2>1, ConcatEmptySeq
<1> HIDE DEF was
<1>6. g.due = Considered(g) \o (IF g.rule = 0 THEN <<>> ELSE <<g.rule>>) \o g.todo
  <2>1. was \o todo = Append(was, r) \o Tail(todo)
    <3>1. r = Head(todo)
      BY <1>1
    <3>2. todo # <<>> /\ todo \in Seq(RuleNumbers) /\ was \in Seq(RuleNumbers)
      BY <1>1, <1>4
    <3>3. was \o todo = Append(was, Head(todo)) \o Tail(todo)
      BY <3>2, HeadMoves
    <3> QED BY <3>1, <3>3
  <2>2. Append(was, r) = was \o <<r>>
    BY <1>3, <1>4, AppendIsConcat
  <2>3. g.rule = r /\ g.todo = Tail(todo)
    BY DEF r, todo
  <2> QED BY <1>3, <1>4, <1>5, <2>1, <2>2, <2>3
<1>7. Rising(g.ran \o g.acts)
  BY <1>1, ConcatEmptySeq
<1>8. \A x : Entered(x, f) => Entered(x, g)
  BY DEF Entered
<1>9. Entered(g.rule, g) /\ g.rule # 0
  BY <1>3, <1>8 DEF r
<1>10. \A k \in DOMAIN g.done :
         /\ Rising(g.done[k].ran) /\ Settled(g.done[k])
         /\ g.done[k].ran # <<>> \/ g.done[k].how = "fired" => Entered(g.done[k].rule, g)
  BY <1>8 DEF SoundFiring
<1>11. \A k \in DOMAIN g.due : RuleBook[g.due[k]].trigger = g.on.type
  BY DEF SoundFiring
<1> QED BY <1>6, <1>7, <1>9, <1>10, <1>11 DEF SoundFiring

(* The next action is dealt with, in one way or the other.                 *)
LEMMA OneMoreDealt ==
  ASSUME NEW r \in RuleNumbers, NEW acts \in Seq(Nat), acts # <<>>,
         NEW ran \in Seq(Nat), NEW skipped, Underway(r, acts, ran, skipped)
  PROVE  /\ Underway(r, Tail(acts), ran, skipped \cup {Head(acts)})
         /\ Underway(r, Tail(acts), Append(ran, Head(acts)), skipped)
<1> DEFINE size == Len(RuleBook[r].actions)
           m == size - Len(acts)
<1>1. size \in Nat /\ Len(acts) \in Nat /\ Len(acts) >= 1 /\ Len(acts) <= size
  <2>1. size \in Nat
    BY RuleBookAssumption DEF RuleNumbers
  <2>2. Len(acts) \in Nat /\ Len(acts) # 0
    BY EmptySeq
  <2> QED BY <2>1, <2>2 DEF Underway
<1>2. /\ Dealt(ran, skipped, m)
      /\ \A i \in 1..Len(acts) : acts[i] = m + i
  BY DEF Underway
<1>3. /\ Len(Tail(acts)) = Len(acts) - 1
      /\ \A i \in 1..Len(acts) - 1 : Tail(acts)[i] = acts[i + 1]
      /\ DOMAIN Tail(acts) = 1..Len(acts) - 1
      /\ Head(acts) = acts[1]
  BY HeadTailProperties
<1> HIDE DEF size
<1>4. Head(acts) = m + 1 /\ m \in Nat
  BY <1>1, <1>2, <1>3
<1>5. /\ Len(Tail(acts)) <= size /\ size - Len(Tail(acts)) = m + 1
      /\ \A i \in DOMAIN Tail(acts) : Tail(acts)[i] = size - Len(Tail(acts)) + i
  <2>1. Len(Tail(acts)) <= size /\ size - Len(Tail(acts)) = m + 1
    BY <1>1, <1>3
  <2> DEFINE n == Len(acts)
             last == Len(Tail(acts))
  <2>2. n \in Nat /\ m \in Nat /\ last = n - 1 /\ size - last = m + 1
    BY <1>1, <1>3, <1>4, <2>1
  <2>3. /\ \A i \in 1..n : acts[i] = m + i
        /\ \A i \in 1..n - 1 : Tail(acts)[i] = acts[i + 1]
        /\ DOMAIN Tail(acts) = 1..n - 1
    BY <1>2, <1>3
  <2> HIDE DEF m, n, last
  <2>4. \A i \in 1..n - 1 : i + 1 \in 1..n /\ m + (i + 1) = (m + 1) + i
    BY <2>2
  <2>5. \A i \in DOMAIN Tail(acts) : Tail(acts)[i] = (m + 1) + i
    BY <2>3, <2>4
  <2> QED BY <2>1, <2>2, <2>5 DEF last
<1>6. Range(Append(ran, m + 1)) = Range(ran) \cup {m + 1}
  <2>1. DOMAIN ran = 1..Len(ran) /\ Len(ran) \in Nat
        /\ DOMAIN Append(ran, m + 1) = 1..Len(ran) + 1
        /\ Append(ran, m + 1)[Len(ran) + 1] = m + 1
        /\ \A i \in 1..Len(ran) : Append(ran, m + 1)[i] = ran[i]
    BY <1>4, AppendProperties
  <2> QED BY <2>1 DEF Range
<1> HIDE DEF m
<1>7. 1..m + 1 = 1..m \cup {m + 1} /\ m + 1 \notin 1..m
  BY <1>4
<1>8. Dealt(ran, skipped \cup {m + 1}, m + 1) /\ Dealt(Append(ran, m + 1), skipped, m + 1)
  BY <1>2, <1>6, <1>7 DEF Dealt
<1> QED BY <1>4, <1>5, <1>8 DEF Underway, size

(* An action of the rule is skipped or called.                             *)
LEMMA ActSound ==
  ASSUME NEW f \in Firings, SoundFiring(f), f.rule # 0, f.acts # <<>>,
         NEW g \in Firings,
         g.on = f.on, g.scope = f.scope, g.due = f.due, g.todo = f.todo,
         g.rule = f.rule, g.done = f.done, g.acts = Tail(f.acts),
         \/ g.ran = f.ran /\ g.skipped = f.skipped \cup {Head(f.acts)}
         \/ g.ran = Append(f.ran, Head(f.acts)) /\ g.skipped = f.skipped
  PROVE  SoundFiring(g)
<1> DEFINE ran == f.ran
           acts == f.acts
<1>1. ran \in Seq(Nat) /\ acts \in Seq(Nat) /\ acts # <<>> /\ Rising(ran \o acts)
  BY DEF Firings, SoundFiring
<1>2. g.acts = Tail(acts) /\ (g.ran = ran \/ g.ran = Append(ran, Head(acts)))
  OBVIOUS
<1> HIDE DEF ran, acts
<1>3. Rising(g.ran \o g.acts)
  <2>1. CASE g.ran = ran
    BY <1>1, <1>2, <2>1, RisingParts
  <2>2. CASE g.ran = Append(ran, Head(acts))
    <3> DEFINE D == Nat
    <3>1. ran \in Seq(D) /\ acts \in Seq(D) /\ acts # <<>>
      BY <1>1
    <3> HIDE DEF D
    <3>2. ran \o acts = Append(ran, Head(acts)) \o Tail(acts)
      BY <3>1, HeadMoves
    <3> QED BY <1>1, <1>2, <2>2, <3>2
  <2> QED BY <1>2, <2>1, <2>2
<1>4. \A x : Entered(x, f) => Entered(x, g)
  BY DEF Entered
<1>5. Considered(g) = Considered(f)
  BY DEF Considered
<1>6. g.due = Considered(g) \o (IF g.rule = 0 THEN <<>> ELSE <<g.rule>>) \o g.todo
  BY <1>5 DEF SoundFiring
<1>7. /\ \A k \in DOMAIN g.due : RuleBook[g.due[k]].trigger = g.on.type
      /\ g.rule # 0 => Entered(g.rule, g)
      /\ \A k \in DOMAIN g.done :
           /\ Rising(g.done[k].ran) /\ Settled(g.done[k])
           /\ g.done[k].ran # <<>> \/ g.done[k].how = "fired" => Entered(g.done[k].rule, g)
  BY <1>4 DEF SoundFiring
<1>8. Underway(g.rule, g.acts, g.ran, g.skipped)
  <2> DEFINE skipped == f.skipped
  <2>1. Underway(f.rule, acts, ran, skipped)
    BY DEF SoundFiring, acts, ran
  <2>2. /\ g.acts = Tail(acts)
        /\ \/ g.ran = ran /\ g.skipped = skipped \cup {Head(acts)}
           \/ g.ran = Append(ran, Head(acts)) /\ g.skipped = skipped
    BY <1>2 DEF acts, ran
  <2> HIDE DEF skipped
  <2>3. f.rule \in RuleNumbers
    BY DEF Firings
  <2>4. Underway(f.rule, Tail(acts), ran, skipped \cup {Head(acts)})
        /\ Underway(f.rule, Tail(acts), Append(ran, Head(acts)), skipped)
    BY <1>1, <2>1, <2>3, OneMoreDealt
  <2> QED BY <2>2, <2>4
<1> QED BY <1>3, <1>6, <1>7, <1>8 DEF SoundFiring

(* The rule has run to its end, or an action of it has raised.             *)
LEMMA ConcludedSound ==
  ASSUME NEW f \in Firings, SoundFiring(f), f.rule # 0,
         NEW how \in {"raised", "fired"}, NEW g \in Firings,
         g.on = f.on, g.scope = f.scope, g.due = f.due, g.todo = f.todo,
         g.rule = 0, g.acts = <<>>, g.ran = <<>>, g.skipped = {},
         g.done = Append(f.done, [rule |-> f.rule, how |-> how, ran |-> f.ran,
                                  skipped |-> f.skipped]),
         how = "fired" => f.acts = <<>>,
         how = "raised" =>
           f.ran # <<>> /\ Last(f.ran) = Len(RuleBook[f.rule].actions) - Len(f.acts)
  PROVE  SoundFiring(g)
<1> DEFINE told == [rule |-> f.rule, how |-> how, ran |-> f.ran, skipped |-> f.skipped]
           was == Considered(f)
<1>1. f.rule \in RuleNumbers /\ f.ran \in Seq(Nat) /\ f.acts \in Seq(Nat)
      /\ f.todo \in Seq(RuleNumbers) /\ f.skipped \in SUBSET Nat
  BY DEF Firings
<1>2. told \in Verdicts /\ told.rule = f.rule /\ told.ran = f.ran
      /\ told.how = how /\ told.skipped = f.skipped
  BY <1>1 DEF Verdicts
<1>3. g.done = Append(f.done, told)
  OBVIOUS
<1> HIDE DEF told
<1>4. /\ was \in Seq(RuleNumbers) /\ Considered(g) = Append(was, f.rule)
      /\ \A k \in DOMAIN g.done : (k \in DOMAIN f.done /\ g.done[k] = f.done[k])
                                  \/ g.done[k] = told
  BY <1>2, <1>3, VerdictTold
<1>5. g.due = Considered(g) \o (IF g.rule = 0 THEN <<>> ELSE <<g.rule>>) \o g.todo
  <2>1. f.due = (was \o <<f.rule>>) \o f.todo
    BY DEF SoundFiring
  <2> HIDE DEF was
  <2>2. Append(was, f.rule) = was \o <<f.rule>> /\ Append(was, f.rule) \in Seq(RuleNumbers)
    BY <1>1, <1>4, AppendIsConcat
  <2>3. Append(was, f.rule) \o <<>> = Append(was, f.rule)
    BY <2>2, ConcatEmptySeq
  <2> QED BY <1>4, <2>1, <2>2, <2>3
<1>6. Rising(g.ran \o g.acts)
  BY NothingRises
<1>7. \A x : Entered(x, f) => Entered(x, g)
  BY DEF Entered
<1>8. Rising(told.ran) /\ Entered(told.rule, g) /\ Settled(told)
  <2>1. Rising(f.ran)
    <3> DEFINE ran == f.ran
               acts == f.acts
    <3>1. ran \in Seq(Nat) /\ acts \in Seq(Nat) /\ Rising(ran \o acts)
      BY <1>1 DEF SoundFiring
    <3> HIDE DEF ran, acts
    <3>2. Rising(ran)
      BY <3>1, RisingParts
    <3> QED BY <3>2 DEF ran
  <2>2. Entered(f.rule, g)
    BY <1>7 DEF SoundFiring
  <2>3. Settled(told)
    <3> DEFINE ran == f.ran
               acts == f.acts
               skipped == f.skipped
               size == Len(RuleBook[f.rule].actions)
               m == size - Len(acts)
    <3>1. size \in Nat /\ DOMAIN RuleBook[f.rule].actions = 1..size
      BY <1>1, RuleBookAssumption DEF RuleNumbers
    <3>2. Dealt(ran, skipped, m) /\ Len(acts) <= size
      BY DEF SoundFiring, Underway
    <3>3. ran \in Seq(Nat) /\ acts \in Seq(Nat) /\ Len(acts) \in Nat
      BY <1>1
    <3>4. CASE how = "fired"
      <4>1. m = size
        <5>1. acts = <<>>
          BY <3>4
        <5> HIDE DEF acts, size
        <5> QED BY <3>1, <5>1
      <4> HIDE DEF ran, acts, skipped, size, m
      <4>2. Range(ran) \cup skipped = 1..size /\ Range(ran) \cap skipped = {}
        BY <3>2, <4>1 DEF Dealt
      <4> QED BY <1>2, <3>1, <3>4, <4>2 DEF Settled, ran, skipped
    <3>5. CASE how = "raised"
      <4>1. ran # <<>> /\ Last(ran) = m
        BY <3>5
      <4>2. m \in Nat /\ m <= size
        <5> HIDE DEF acts, size
        <5> QED BY <3>1, <3>2, <3>3
      <4> HIDE DEF ran, acts, skipped, size, m
      <4>3. Len(ran) \in DOMAIN ran /\ ran[Len(ran)] = m
        BY <3>3, <4>1, EmptySeq DEF Last
      <4>4. \A i \in DOMAIN ran : ran[i] \in 1..m
        BY <3>2 DEF Dealt, Range
      <4>5. {act \in 1..size : \E i \in DOMAIN ran : act <= ran[i]} = 1..m
        <5>1. ASSUME NEW act \in 1..size, NEW i \in DOMAIN ran, act <= ran[i]
              PROVE  act \in 1..m
          BY <3>1, <4>2, <4>4, <5>1
        <5>2. ASSUME NEW act \in 1..m
              PROVE  act \in 1..size /\ \E i \in DOMAIN ran : act <= ran[i]
          BY <3>1, <4>2, <4>3
        <5> QED BY <5>1, <5>2
      <4>6. Range(ran) \cup skipped = 1..m /\ Range(ran) \cap skipped = {}
        BY <3>2 DEF Dealt
      <4> QED BY <1>2, <3>1, <3>5, <4>5, <4>6 DEF Settled, ran, skipped
    <3> QED BY <3>4, <3>5
  <2> QED BY <1>2, <2>1, <2>2, <2>3
<1>9. \A k \in DOMAIN g.done :
        /\ Rising(g.done[k].ran) /\ Settled(g.done[k])
        /\ g.done[k].ran # <<>> \/ g.done[k].how = "fired" => Entered(g.done[k].rule, g)
  <2>1. \A k \in DOMAIN f.done :
          /\ Rising(f.done[k].ran) /\ Settled(f.done[k])
          /\ f.done[k].ran # <<>> \/ f.done[k].how = "fired" => Entered(f.done[k].rule, f)
    BY DEF SoundFiring
  <2> QED BY <1>4, <1>7, <1>8, <2>1
<1>10. \A k \in DOMAIN g.due : RuleBook[g.due[k]].trigger = g.on.type
  BY DEF SoundFiring
<1> QED BY <1>5, <1>6, <1>9, <1>10 DEF SoundFiring

(* The fields of a loop over rules when a rule is done with.               *)
LEMMA ConcludedFields ==
  ASSUME Top \in Firings, NEW r \in RuleNumbers,
         NEW how \in {"raised", "passed", "fired"}
  PROVE  LET g == Concluded(r, how)
         IN  /\ g \in Firings
             /\ g.on = Top.on /\ g.scope = Top.scope /\ g.due = Top.due /\ g.todo = Top.todo
             /\ g.rule = 0 /\ g.acts = <<>> /\ g.ran = <<>> /\ g.skipped = {}
             /\ g.done = Append(Top.done, [rule |-> r, how |-> how, ran |-> Top.ran,
                                           skipped |-> Top.skipped])
<1> DEFINE f == Top
           told == [rule |-> r, how |-> how, ran |-> f.ran, skipped |-> f.skipped]
           done == Append(f.done, told)
           none == <<>>
           nil == {}
<1>1. f \in Firings /\ f.done \in Seq(Verdicts) /\ f.ran \in Seq(Nat)
      /\ f.skipped \in SUBSET Nat
  BY DEF Firings
<1>2. Concluded(r, how)
        = [f EXCEPT !.rule = 0, !.acts = none, !.ran = none, !.skipped = nil,
                    !.done = done]
  BY DEF Concluded
<1> HIDE DEF f
<1>3. told \in Verdicts
  BY <1>1 DEF Verdicts
<1>4. done \in Seq(Verdicts)
  <2> HIDE DEF told
  <2> QED BY <1>1, <1>3
<1>5. none \in Seq(Nat) /\ 0 \in RuleNumbers \cup {0} /\ nil \in SUBSET Nat
  OBVIOUS
<1> HIDE DEF done, none, nil
<1>6. \A x \in Firings :
        LET g == [x EXCEPT !.rule = 0, !.acts = none, !.ran = none, !.skipped = nil,
                           !.done = done]
        IN  /\ g \in Firings
            /\ g.on = x.on /\ g.scope = x.scope /\ g.due = x.due /\ g.todo = x.todo
            /\ g.rule = 0 /\ g.acts = none /\ g.ran = none /\ g.skipped = nil
            /\ g.done = done
  BY <1>4, <1>5 DEF Firings
<1> QED BY <1>1, <1>2, <1>6 DEF f, done, none, nil

(* The rule that is next leaves the list of those to come.                 *)
LEMMA TodoFields ==
  ASSUME NEW x \in Firings, x.todo # <<>>
  PROVE  LET g == [x EXCEPT !.todo = Tail(@)]
         IN  /\ g \in Firings
             /\ g.on = x.on /\ g.scope = x.scope /\ g.due = x.due /\ g.todo = Tail(x.todo)
             /\ g.rule = x.rule /\ g.acts = x.acts /\ g.ran = x.ran /\ g.done = x.done
             /\ g.skipped = x.skipped
<1> DEFINE rest == Tail(x.todo)
<1>1. rest \in Seq(RuleNumbers)
  <2>1. x.todo \in Seq(RuleNumbers)
    BY DEF Firings
  <2> QED BY <2>1, HeadTailProperties
<1>2. [x EXCEPT !.todo = Tail(@)] = [x EXCEPT !.todo = rest]
  OBVIOUS
<1> HIDE DEF rest
<1>3. LET g == [x EXCEPT !.todo = rest]
      IN  /\ g \in Firings
          /\ g.on = x.on /\ g.scope = x.scope /\ g.due = x.due /\ g.todo = rest
          /\ g.rule = x.rule /\ g.acts = x.acts /\ g.ran = x.ran /\ g.done = x.done
          /\ g.skipped = x.skipped
  BY <1>1 DEF Firings
<1> QED BY <1>2, <1>3 DEF rest

LEMMA ConsiderFrames ==
  ASSUME frames \in Seq(SoundFrames), Consider
  PROVE  frames' \in Seq(SoundFrames)
<1> DEFINE f == Top
           r == Head(f.todo)
           rule == RuleBook[r]
<1>1. /\ In("fire") /\ f.rule = 0 /\ f.todo # <<>>
      /\ \/ frames' = Replaced([Concluded(r, "raised") EXCEPT !.todo = Tail(@)])
         \/ /\ InScope(rule, f.scope) /\ ConditionsMet(rule.condition, f.on.context)
            /\ frames' = Replaced([[f EXCEPT !.rule = r,
                                      !.acts = [k \in DOMAIN rule.actions |-> k]]
                                      EXCEPT !.todo = Tail(@)])
         \/ frames' = Replaced([Concluded(r, "passed") EXCEPT !.todo = Tail(@)])
  BY DEF Consider
<1>2. f \in Firings /\ SoundFiring(f) /\ frames # <<>>
  BY <1>1, TopFire
<1>3. ASSUME NEW g \in Firings, SoundFiring(g)
      PROVE  Replaced(g) \in Seq(SoundFrames)
  <2>1. g \in SoundFrames
    BY <1>3 DEF SoundFrames
  <2> QED BY <1>2, <2>1, StackKept
<1>4. r \in RuleNumbers
  <2>1. f.todo \in Seq(RuleNumbers)
    BY <1>2 DEF Firings
  <2> QED BY <1>1, <2>1, HeadTailProperties
<1>5. ASSUME NEW how \in {"raised", "passed"}
      PROVE  Replaced([Concluded(r, how) EXCEPT !.todo = Tail(@)]) \in Seq(SoundFrames)
  <2> DEFINE c == Concluded(r, how)
             g == [c EXCEPT !.todo = Tail(@)]
  <2>1. f.ran = <<>> /\ f.skipped = {}
    BY <1>1, <1>2 DEF SoundFiring
  <2>2. /\ c \in Firings
        /\ c.on = f.on /\ c.scope = f.scope /\ c.due = f.due /\ c.todo = f.todo
        /\ c.rule = 0 /\ c.acts = <<>> /\ c.ran = <<>> /\ c.skipped = {}
        /\ c.done = Append(f.done, [rule |-> r, how |-> how, ran |-> <<>>,
                                    skipped |-> {}])
    <3> HIDE DEF r
    <3>1. how \in {"raised", "passed", "fired"}
      OBVIOUS
    <3> QED BY <1>2, <1>4, <2>1, <3>1, ConcludedFields, Zenon
  <2> HIDE DEF c
  <2>3. /\ g \in Firings
        /\ g.on = c.on /\ g.scope = c.scope /\ g.due = c.due /\ g.todo = Tail(c.todo)
        /\ g.rule = c.rule /\ g.acts = c.acts /\ g.ran = c.ran /\ g.done = c.done
        /\ g.skipped = c.skipped
    BY <1>1, <2>2, TodoFields
  <2> HIDE DEF g, f
  <2>4. SoundFiring(g)
    BY <1>1, <1>2, <2>2, <2>3, PassedSound
  <2>5. Replaced(g) \in Seq(SoundFrames)
    BY <1>3, <2>3, <2>4
  <2> QED BY <2>5 DEF g, c
<1>6. ASSUME InScope(rule, f.scope), ConditionsMet(rule.condition, f.on.context)
      PROVE  Replaced([[f EXCEPT !.rule = r, !.acts = [k \in DOMAIN rule.actions |-> k]]
                         EXCEPT !.todo = Tail(@)]) \in Seq(SoundFrames)
  <2> DEFINE acts == [k \in DOMAIN rule.actions |-> k]
             c == [f EXCEPT !.rule = r, !.acts = acts]
             g == [c EXCEPT !.todo = Tail(@)]
  <2>1. rule.actions \in Seq(STRING)
    BY <1>4, RuleBookAssumption DEF RuleNumbers
  <2>2. /\ acts \in Seq(Nat) /\ Rising(acts)
        /\ Underway(r, acts, <<>>, {})
    <3>1. DOMAIN rule.actions = 1..Len(rule.actions) /\ Len(rule.actions) \in Nat
      BY <2>1
    <3>2. Range(<<>>) = {}
      BY DEF Range
    <3>3. Len(acts) = Len(rule.actions)
      BY <3>1
    <3>4. Dealt(<<>>, {}, Len(rule.actions) - Len(acts))
      <4> DEFINE n == Len(rule.actions)
      <4>1. n \in Nat /\ n - n = 0 /\ 1..0 = {}
        BY <3>1
      <4> HIDE DEF n
      <4> QED BY <3>2, <3>3, <4>1 DEF Dealt, n
    <3>5. \A i \in DOMAIN acts : acts[i] = Len(rule.actions) - Len(acts) + i
      BY <3>1, <3>3
    <3>6. acts \in Seq(Nat) /\ Rising(acts)
      <4> HIDE DEF rule
      <4> QED BY <3>1 DEF Rising
    <3>7. Len(acts) <= Len(rule.actions)
      <4> HIDE DEF rule
      <4> QED BY <3>1, <3>3
    <3> HIDE DEF acts
    <3> QED BY <3>4, <3>5, <3>6, <3>7 DEF Underway
  <2> HIDE DEF acts
  <2>3. /\ c \in Firings
        /\ c.on = f.on /\ c.scope = f.scope /\ c.due = f.due /\ c.todo = f.todo
        /\ c.rule = r /\ c.acts = acts /\ c.ran = f.ran /\ c.done = f.done
        /\ c.skipped = f.skipped
    <3> HIDE DEF r
    <3>1. \A x \in Firings :
            LET y == [x EXCEPT !.rule = r, !.acts = acts]
            IN  /\ y \in Firings
                /\ y.on = x.on /\ y.scope = x.scope /\ y.due = x.due /\ y.todo = x.todo
                /\ y.rule = r /\ y.acts = acts /\ y.ran = x.ran /\ y.done = x.done
                /\ y.skipped = x.skipped
      BY <1>4, <2>2 DEF Firings
    <3> HIDE DEF f
    <3> QED BY <1>2, <3>1
  <2>4. f.ran = <<>> /\ f.skipped = {}
    BY <1>1, <1>2 DEF SoundFiring
  <2> HIDE DEF c
  <2>5. /\ g \in Firings
        /\ g.on = c.on /\ g.scope = c.scope /\ g.due = c.due /\ g.todo = Tail(c.todo)
        /\ g.rule = c.rule /\ g.acts = c.acts /\ g.ran = c.ran /\ g.done = c.done
        /\ g.skipped = c.skipped
    BY <1>1, <2>3, TodoFields
  <2>6. Entered(r, f)
    BY <1>6 DEF Entered, InScope
  <2> HIDE DEF g, f
  <2>7. SoundFiring(g)
    BY <1>1, <1>2, <2>2, <2>3, <2>4, <2>5, <2>6, RunSound
  <2>8. Replaced(g) \in Seq(SoundFrames)
    BY <1>3, <2>5, <2>7
  <2> QED BY <2>8 DEF g, c, acts
<1> QED BY <1>1, <1>5, <1>6

LEMMA ActFrames ==
  ASSUME frames \in Seq(SoundFrames), Act
  PROVE  frames' \in Seq(SoundFrames)
<1> DEFINE f == Top
           k == Head(f.acts)
           rest == Tail(f.acts)
           more == Append(f.ran, k)
           passed == f.skipped \cup {k}
           g == [f EXCEPT !.acts = rest, !.skipped = passed]
           h == [f EXCEPT !.acts = rest, !.ran = more]
<1>1. /\ In("fire") /\ f.rule # 0 /\ f.acts # <<>>
      /\ frames' = Replaced(g) \/ frames' = Replaced(h)
  BY DEF Act, Skipped
<1>2. f \in Firings /\ SoundFiring(f) /\ frames # <<>>
  BY <1>1, TopFire
<1>3. ASSUME NEW x \in Firings, SoundFiring(x)
      PROVE  Replaced(x) \in Seq(SoundFrames)
  <2>1. x \in SoundFrames
    BY <1>3 DEF SoundFrames
  <2> QED BY <1>2, <2>1, StackKept
<1>4. f.acts \in Seq(Nat) /\ f.ran \in Seq(Nat) /\ f.skipped \in SUBSET Nat
  BY <1>2 DEF Firings
<1> HIDE DEF f
<1>5. k \in Nat /\ rest \in Seq(Nat) /\ more \in Seq(Nat)
  BY <1>1, <1>4, HeadTailProperties
<1>6. passed \in SUBSET Nat
  <2> HIDE DEF k
  <2> QED BY <1>4, <1>5
<1> HIDE DEF k, rest, more, passed
<1>7. /\ g \in Firings
      /\ g.on = f.on /\ g.scope = f.scope /\ g.due = f.due /\ g.todo = f.todo
      /\ g.rule = f.rule /\ g.acts = rest /\ g.ran = f.ran /\ g.done = f.done
      /\ g.skipped = passed
  BY <1>2, <1>5, <1>6 DEF Firings
<1>8. /\ h \in Firings
      /\ h.on = f.on /\ h.scope = f.scope /\ h.due = f.due /\ h.todo = f.todo
      /\ h.rule = f.rule /\ h.acts = rest /\ h.ran = more /\ h.done = f.done
      /\ h.skipped = f.skipped
  BY <1>2, <1>5 DEF Firings
<1> HIDE DEF g, h
<1>9. SoundFiring(g)
  <2>1. g.acts = Tail(f.acts) /\ g.ran = f.ran /\ g.skipped = f.skipped \cup {Head(f.acts)}
    BY <1>7 DEF rest, passed, k
  <2> QED BY <1>1, <1>2, <1>7, <2>1, ActSound
<1>10. SoundFiring(h)
  <2>1. /\ h.acts = Tail(f.acts) /\ h.ran = Append(f.ran, Head(f.acts))
        /\ h.skipped = f.skipped
    BY <1>8 DEF rest, more, k
  <2> QED BY <1>1, <1>2, <1>8, <2>1, ActSound
<1> QED BY <1>1, <1>3, <1>7, <1>8, <1>9, <1>10

LEMMA EndedFrames ==
  ASSUME frames \in Seq(SoundFrames), Raise \/ Finish
  PROVE  frames' \in Seq(SoundFrames)
<1> DEFINE f == Top
<1>1. /\ In("fire") /\ f.rule # 0
      /\ \E how \in {"raised", "fired"} :
           /\ frames' = Replaced(Concluded(f.rule, how))
           /\ how = "fired" => f.acts = <<>>
           /\ how = "raised" =>
                /\ f.ran # <<>>
                /\ Last(f.ran) = Len(RuleBook[f.rule].actions) - Len(f.acts)
  BY DEF Raise, Failed, InAction, Finish
<1>2. f \in Firings /\ SoundFiring(f) /\ frames # <<>>
  BY <1>1, TopFire
<1>3. f.rule \in RuleNumbers
  BY <1>1, <1>2 DEF Firings
<1>4. PICK how \in {"raised", "fired"} :
        /\ frames' = Replaced(Concluded(f.rule, how))
        /\ how = "fired" => f.acts = <<>>
        /\ how = "raised" =>
             /\ f.ran # <<>>
             /\ Last(f.ran) = Len(RuleBook[f.rule].actions) - Len(f.acts)
  BY <1>1
<1> DEFINE g == Concluded(f.rule, how)
<1>5. /\ g \in Firings
      /\ g.on = f.on /\ g.scope = f.scope /\ g.due = f.due /\ g.todo = f.todo
      /\ g.rule = 0 /\ g.acts = <<>> /\ g.ran = <<>> /\ g.skipped = {}
      /\ g.done = Append(f.done, [rule |-> f.rule, how |-> how, ran |-> f.ran,
                                  skipped |-> f.skipped])
  <2>1. how \in {"raised", "passed", "fired"}
    OBVIOUS
  <2> QED BY <1>2, <1>3, <2>1, ConcludedFields, Zenon
<1> HIDE DEF g, f
<1>6. SoundFiring(g)
  BY <1>1, <1>2, <1>4, <1>5, ConcludedSound
<1>7. g \in SoundFrames
  BY <1>5, <1>6 DEF SoundFrames
<1>8. Replaced(g) \in Seq(SoundFrames)
  BY <1>2, <1>7, StackKept
<1> QED BY <1>4, <1>8 DEF g

LEMMA CallFrames ==
  ASSUME Registered, frames \in Seq(SoundFrames), Call
  PROVE  frames' \in Seq(SoundFrames)
<1> DEFINE to == Head(NextToCall)
           Hows == {"called", "sent", "skipped", "refused", "raised"}
<1>1. /\ In("dispatch") /\ NextToCall # <<>>
      /\ \/ \E how \in Hows : frames' = Called(to, how)
         \/ frames' = Append(Called(to, "called"), FireFrame(Top.on, Anywhere))
  <2>1. \A provider \in Providers : Sends(provider) \subseteq Hows
    BY DEF Sends, SendsEmail, SendsWebhook
  <2>2. Sends(to.of) \subseteq Hows
    BY DEF Sends, SendsEmail, SendsWebhook
  <2> QED BY <2>2 DEF Call
<1>2. Top \in Dispatches
  BY <1>1, TopDispatch
<1>3. \A how \in Hows : Called(to, how) \in Seq(SoundFrames)
  BY <1>1, CallSound
<1>4. FireFrame(Top.on, Anywhere) \in SoundFrames
  <2>1. Top.on \in Occasions /\ Anywhere \in Scopes \cup {Anywhere}
    BY <1>2 DEF Dispatches
  <2> QED BY <2>1, FireBegins
<1>5. Append(Called(to, "called"), FireFrame(Top.on, Anywhere)) \in Seq(SoundFrames)
  <2> DEFINE s == Called(to, "called")
             e == FireFrame(Top.on, Anywhere)
             D == SoundFrames
  <2>1. s \in Seq(D) /\ e \in D
    BY <1>3, <1>4
  <2> HIDE DEF s, e, D
  <2>2. Append(s, e) \in Seq(D)
    BY <2>1
  <2> QED BY <2>2 DEF s, e, D
<1> QED BY <1>1, <1>3, <1>5

(* Every step keeps the loops sound.                                       *)
LEMMA NextFrames ==
  ASSUME Sound, [Next]_vars
  PROVE  (frames \in Seq(SoundFrames))'
<1>1. Registered /\ frames \in Seq(SoundFrames)
  BY DEF Sound
<1>2. SUFFICES frames' \in Seq(SoundFrames)
  OBVIOUS
<1>3. CASE UNCHANGED frames
  BY <1>1, <1>3
<1>4. ASSUME NEW o \in Occasions, Emit(o)
      PROVE  frames' \in Seq(SoundFrames)
  <2>1. frames' = Append(frames, DispatchFrame(o)) /\ DispatchFrame(o) \in SoundFrames
    BY <1>1, <1>4, DispatchBegins DEF Emit
  <2> QED BY <1>1, <2>1, StackKept
<1>5. ASSUME NEW o \in Occasions, NEW scope \in Scopes, Fire(o, scope)
      PROVE  frames' \in Seq(SoundFrames)
  <2>1. FireFrame(o, scope) \in SoundFrames
    BY <1>1, FireBegins
  <2>2. frames' = Append(frames, FireFrame(o, scope)) \/ frames' = frames
    BY <1>5 DEF Fire
  <2> QED BY <1>1, <2>1, <2>2, StackKept
<1>6. CASE Call
  BY <1>1, <1>6, CallFrames
<1>7. CASE EndDispatch \/ EndFire
  <2>1. frames # <<>> /\ frames' = Front(frames)
    BY <1>7 DEF EndDispatch, EndFire, In
  <2> QED BY <1>1, <2>1, StackKept
<1>8. CASE Consider
  BY <1>1, <1>8, ConsiderFrames
<1>9. CASE Act
  BY <1>1, <1>9, ActFrames
<1>10. CASE Raise \/ Finish
  BY <1>1, <1>10, EndedFrames
<1>11. ASSUME NEW key \in Keys, NEW callable \in Callables, Subscribe(key, callable)
       PROVE  UNCHANGED frames
  BY <1>11 DEF Subscribe, Changing
<1>12. ASSUME NEW token \in tokens, Unsubscribe(token)
       PROVE  UNCHANGED frames
  BY <1>12 DEF Unsubscribe, Changing
<1>13. ASSUME NEW key \in Keys, NEW provider \in Providers, Register(key, provider)
       PROVE  UNCHANGED frames
  BY <1>13 DEF Register, Changing
<1>14. ASSUME NEW name \in ActionNames, ChangeAction(name)
       PROVE  UNCHANGED frames
  BY <1>14 DEF ChangeAction, Changing
<1>15. ASSUME NEW r \in DOMAIN RuleBook, SwitchRule(r)
       PROVE  UNCHANGED frames
  BY <1>15 DEF SwitchRule, Changing
<1>16. CASE Clear \/ Install \/ Uninstall \/ ClearRouter
  BY <1>3, <1>16 DEF Clear, Install, Uninstall, ClearRouter, Changing
<1>17. CASE InstallLogging \/ UninstallLogging \/ InstallAutomation
  BY <1>3, <1>17 DEF InstallLogging, UninstallLogging, InstallAutomation, Changing
<1>18. CASE UNCHANGED vars
  BY <1>3, <1>18 DEF vars
<1> QED BY <1>3, <1>4, <1>5, <1>6, <1>7, <1>8, <1>9, <1>10, <1>11, <1>12, <1>13, <1>14,
           <1>15, <1>16, <1>17, <1>18 DEF Next

-----------------------------------------------------------------------------
(* The invariants.                                                         *)

LEMMA InitSound ==
  ASSUME Init
  PROVE  Sound
<1>1. PICK logging \in BOOLEAN, automating \in BOOLEAN :
        LET listed == (IF logging THEN <<Logger(1)>> ELSE <<>>)
                      \o (IF automating THEN <<Hook>> ELSE <<>>)
        IN  /\ handlers = [key \in Keys |-> IF key = AllEvents THEN listed ELSE <<>>]
            /\ tokens = {} /\ entries = <<>> /\ unsubscribes = <<>>
            /\ hooked = automating
            /\ observer = IF logging THEN 1 ELSE 0
            /\ observing = IF logging THEN <<Token(AllEvents, Logger(1))>> ELSE <<>>
            /\ created = observer /\ enabled = DOMAIN RuleBook /\ frames = <<>>
  BY DEF Init
<1> DEFINE a == IF logging THEN <<Logger(1)>> ELSE <<>>
           b == IF automating THEN <<Hook>> ELSE <<>>
           listed == a \o b
<1>2. /\ Logger(1) \in Listeners /\ Hook \in Listeners
      /\ Logger(1).kind = "logger" /\ Hook.kind = "hook"
  BY DEF Logger, Hook, Handler, Listeners
<1>3. /\ a \in Seq(Listeners) /\ b \in Seq(Listeners)
      /\ \A j \in DOMAIN a : a[j] = Logger(1) /\ logging
      /\ \A k \in DOMAIN b : b[k] = Hook /\ automating
      /\ NoDoubles(a) /\ NoDoubles(b)
  BY <1>2 DEF NoDoubles
<1>4. /\ listed \in Seq(Listeners) /\ NoDoubles(listed)
      /\ \A k \in DOMAIN listed : \/ listed[k] = Logger(1) /\ logging
                                  \/ listed[k] = Hook /\ automating
  <2> HIDE DEF a, b
  <2>1. NoDoubles(a \o b)
    BY <1>2, <1>3, DoublesOfConcat
  <2>2. /\ a \o b \in Seq(Listeners) /\ Len(a) \in Nat /\ Len(b) \in Nat
        /\ Len(a \o b) = Len(a) + Len(b)
        /\ \A i \in 1..Len(a) + Len(b) :
             (a \o b)[i] = IF i <= Len(a) THEN a[i] ELSE b[i - Len(a)]
    BY <1>3, ConcatProperties
  <2>3. DOMAIN (a \o b) = 1..Len(a) + Len(b)
    BY <2>2
  <2>4. ASSUME NEW k \in 1..Len(a) + Len(b)
        PROVE  \/ (a \o b)[k] = Logger(1) /\ logging
               \/ (a \o b)[k] = Hook /\ automating
    <3>1. CASE k <= Len(a)
      <4>1. k \in DOMAIN a /\ (a \o b)[k] = a[k]
        BY <1>3, <2>2, <3>1
      <4> QED BY <1>3, <4>1
    <3>2. CASE ~(k <= Len(a))
      <4>1. k - Len(a) \in DOMAIN b /\ (a \o b)[k] = b[k - Len(a)]
        BY <1>3, <2>2, <3>2
      <4> QED BY <1>3, <4>1
    <3> QED BY <3>1, <3>2
  <2> QED BY <2>1, <2>2, <2>3, <2>4
<1>5. handlers = [key \in Keys |-> IF key = AllEvents THEN listed ELSE <<>>]
  BY <1>1
<1> HIDE DEF listed
<1>6. \A key \in Keys : \/ key = AllEvents /\ handlers[key] = listed
                        \/ handlers[key] = <<>>
  BY <1>5
<1>7. handlers \in [Keys -> Seq(Listeners)] /\ \A key \in Keys : NoDoubles(handlers[key])
  <2>1. <<>> \in Seq(Listeners) /\ NoDoubles(<<>>)
    BY DEF NoDoubles
  <2> QED BY <1>4, <1>5, <1>6, <2>1
<1>8. ASSUME NEW key \in Keys, NEW k \in DOMAIN handlers[key]
      PROVE  Entitled(key, handlers[key][k])
  <2>1. key = AllEvents /\ handlers[key] = listed /\ k \in DOMAIN listed
    BY <1>6
  <2>2. CASE listed[k] = Logger(1) /\ logging
    BY <1>1, <1>2, <2>1, <2>2 DEF Entitled
  <2>3. CASE listed[k] = Hook /\ automating
    BY <1>1, <1>2, <2>1, <2>3 DEF Entitled
  <2> QED BY <1>4, <2>1, <2>2, <2>3
<1>9. /\ tokens \subseteq {token \in Tokens : token.handler.kind = "app"}
      /\ entries \in Seq([type : Keys, provider : Providers])
      /\ unsubscribes \in Seq({token \in Tokens : token.handler.kind = "provider"})
      /\ \A m, n \in DOMAIN unsubscribes :
           unsubscribes[m].handler = unsubscribes[n].handler => m = n
      /\ hooked \in BOOLEAN
      /\ observer \in Nat /\ created \in Nat
      /\ observing = IF observer = 0 THEN <<>> ELSE <<Token(AllEvents, Logger(observer))>>
      /\ enabled \subseteq RuleNumbers
      /\ frames \in Seq(SoundFrames)
  BY <1>1 DEF RuleNumbers
<1> QED BY <1>7, <1>8, <1>9 DEF Sound, Registered

(* Sound is an inductive invariant.                                        *)
THEOREM AlwaysSound == Spec => []Sound
<1>1. Init => Sound
  BY InitSound
<1>2. Sound /\ [Next]_vars => Sound'
  <2> SUFFICES ASSUME Sound, [Next]_vars
               PROVE  Sound'
    OBVIOUS
  <2>1. Registered'
    BY NextRegistered DEF Sound
  <2>2. (frames \in Seq(SoundFrames))'
    BY NextFrames
  <2> QED BY <2>1, <2>2 DEF Sound
<1> QED BY <1>1, <1>2, PTL DEF Spec

(* A handler that no list of NoDoubles may hold twice is counted once.     *)
LEMMA CountedOnce ==
  ASSUME NEW list \in Seq(Listeners), NoDoubles(list), NEW h, h.kind # "app"
  PROVE  /\ Times(h, list) <= 1
         /\ h \in Range(list) => Times(h, list) = 1
<1> DEFINE places == {k \in DOMAIN list : list[k] = h}
<1>1. \A x, y \in places : x = y
  BY DEF NoDoubles
<1>2. h \in Range(list) => places # {}
  BY DEF Range
<1> HIDE DEF places
<1>3. Cardinality(places) <= 1 /\ (places # {} => Cardinality(places) = 1)
  BY <1>1, AtMostOne
<1> QED BY <1>2, <1>3 DEF Times, places

LEMMA OwnedWhenSound ==
  ASSUME Sound
  PROVE  SubscriptionsOwned
<1>1. /\ Registered /\ AllEvents \in Keys /\ Hook.kind = "hook"
      /\ \A key \in Keys : handlers[key] \in Seq(Listeners) /\ NoDoubles(handlers[key])
  BY DEF Sound, Registered, Keys, Hook, Handler
<1>2. Times(Hook, handlers[AllEvents]) <= 1
  BY <1>1, CountedOnce
<1>3. ASSUME NEW key \in Keys, NEW h \in Range(handlers[key])
      PROVE  Entitled(key, h)
  <2>1. PICK k \in DOMAIN handlers[key] : h = handlers[key][k]
    BY DEF Range
  <2> QED BY <1>1, <2>1 DEF Registered
<1>4. Everywhere(Hook) # {} => hooked
  BY <1>1, <1>3 DEF Everywhere, Entitled
<1>5. ASSUME NEW key \in Keys, NEW h \in Range(handlers[key])
      PROVE  /\ h.kind = "logger" => /\ h = Logger(observer) /\ key = AllEvents
                                     /\ observing = <<Token(key, h)>>
             /\ h.kind = "provider" => Times(Token(key, h), unsubscribes) = 1
             /\ h.kind \in {"logger", "provider"} => Times(h, handlers[key]) = 1
  <2>1. Entitled(key, h)
    BY <1>3
  <2>2. ASSUME h.kind = "provider"
        PROVE  Times(Token(key, h), unsubscribes) = 1
    <3> DEFINE places == {n \in DOMAIN unsubscribes : unsubscribes[n] = Token(key, h)}
    <3>1. places # {}
      BY <2>1, <2>2 DEF Entitled
    <3>2. \A m, n \in places : m = n
      BY <1>1 DEF Registered
    <3> HIDE DEF places
    <3>3. Cardinality(places) = 1
      BY <3>1, <3>2, AtMostOne
    <3> QED BY <3>3 DEF Times, places
  <2>3. h.kind \in {"logger", "provider"} => Times(h, handlers[key]) = 1
    BY <1>1, CountedOnce
  <2> QED BY <2>1, <2>2, <2>3 DEF Entitled
<1> QED BY <1>2, <1>4, <1>5 DEF SubscriptionsOwned

(* Whatever is installed, removed, cleared and installed again, from       *)
(* handlers and actions too: the hook and the logger listen once at most,  *)
(* and only while they are installed, and the router can take back every   *)
(* subscription it has.                                                    *)
THEOREM SubscriptionsAlwaysOwned == Spec => []SubscriptionsOwned
BY AlwaysSound, OwnedWhenSound, PTL

LEMMA HeardWhenSound ==
  ASSUME Sound
  PROVE  HeardByAll
<1> SUFFICES ASSUME NEW n \in DOMAIN frames, frames[n].kind = "dispatch"
             PROVE  LET f == frames[n]
                        heard == [k \in DOMAIN f.calls |-> f.calls[k].to]
                    IN  /\ f.todo = <<>> => heard = f.due
                        /\ \A k, l \in DOMAIN heard :
                             k # l /\ heard[k] = heard[l] => heard[k].kind = "app"
                        /\ Cardinality({k \in DOMAIN heard : heard[k].kind = "logger"}) <= 1
  BY DEF HeardByAll
<1> DEFINE f == frames[n]
           heard == Heard(f)
<1>1. f \in Dispatches /\ SoundDispatch(f)
  <2> DEFINE D == SoundFrames
  <2>1. frames \in Seq(D)
    BY DEF Sound
  <2> HIDE DEF D
  <2>2. f \in D
    BY <2>1, ElementOfSeq
  <2> QED BY <2>2 DEF D, SoundFrames, Firings
<1>2. f.calls \in Seq(Calls) /\ f.todo \in Seq(Listeners) /\ f.due = heard \o f.todo
  BY <1>1 DEF Dispatches, SoundDispatch
<1> DEFINE calls == f.calls
           todo == f.todo
           due == f.due
<1>3. heard \in Seq(Listeners) /\ heard = [k \in DOMAIN calls |-> calls[k].to]
  <2>1. heard = [k \in DOMAIN calls |-> calls[k].to] /\ calls \in Seq(Calls)
    BY <1>2 DEF Heard
  <2> HIDE DEF heard, calls
  <2>2. \A k \in 1..Len(calls) : calls[k] \in Calls
    BY <2>1, ElementOfSeq
  <2>3. \A k \in 1..Len(calls) : calls[k].to \in Listeners
    BY <2>2 DEF Calls
  <2> QED BY <2>1, <2>3
<1>4. /\ todo \in Seq(Listeners) /\ due = heard \o todo /\ NoDoubles(due)
      /\ \A j, k \in DOMAIN due : due[j].kind = "logger" /\ due[k].kind = "logger" => j = k
  BY <1>1, <1>2 DEF SoundDispatch
<1> HIDE DEF heard, calls, todo, due
<1>5. \A k \in DOMAIN heard : k \in DOMAIN due /\ due[k] = heard[k]
  <2>1. /\ heard \o todo \in Seq(Listeners) /\ Len(heard \o todo) = Len(heard) + Len(todo)
        /\ \A i \in 1..Len(heard) + Len(todo) :
             (heard \o todo)[i] = IF i <= Len(heard) THEN heard[i] ELSE todo[i - Len(heard)]
    BY <1>3, <1>4, ConcatProperties
  <2> QED BY <1>3, <1>4, <2>1
<1>6. todo = <<>> => heard = due
  BY <1>3, <1>4, ConcatEmptySeq
<1>7. \A k, l \in DOMAIN heard : k # l /\ heard[k] = heard[l] => heard[k].kind = "app"
  BY <1>4, <1>5 DEF NoDoubles
<1>8. Cardinality({k \in DOMAIN heard : heard[k].kind = "logger"}) <= 1
  <2> DEFINE logged == {k \in DOMAIN heard : heard[k].kind = "logger"}
  <2>1. \A j, k \in logged : j = k
    BY <1>4, <1>5
  <2> HIDE DEF logged
  <2>2. Cardinality(logged) <= 1
    BY <2>1, AtMostOne
  <2> QED BY <2>2 DEF logged
<1> QED BY <1>3, <1>6, <1>7, <1>8 DEF calls, todo, due

(* An event reaches everybody who listened when it was dispatched, and     *)
(* nobody else, whatever the handlers raise, send, subscribe, take back or *)
(* dispatch; the hook and the logger hear it once at most.                 *)
THEOREM AlwaysHeardByAll == Spec => []HeardByAll
BY AlwaysSound, HeardWhenSound, PTL

LEMMA IsolatedWhenSound ==
  ASSUME Sound
  PROVE  RulesIsolated
<1> SUFFICES ASSUME NEW n \in DOMAIN frames, frames[n].kind = "fire"
             PROVE  LET f == frames[n]
                        considered == [k \in DOMAIN f.done |-> f.done[k].rule]
                    IN  /\ f.rule = 0 /\ f.todo = <<>> => considered = f.due
                        /\ \A k \in DOMAIN f.done :
                             LET told == f.done[k]
                                 rule == RuleBook[told.rule]
                             IN  /\ rule.trigger = f.on.type
                                 /\ \A i, j \in DOMAIN told.ran :
                                      i < j => told.ran[i] < told.ran[j]
                                 /\ Settled(told)
                                 /\ told.ran # <<>> \/ told.how = "fired" =>
                                      /\ f.scope = Anywhere \/ rule.scope = Anywhere
                                         \/ rule.scope = f.scope
                                      /\ ConditionsMet(rule.condition, f.on.context)
  BY DEF RulesIsolated, Settled
<1> DEFINE f == frames[n]
           done == f.done
           todo == f.todo
           due == f.due
           run == IF f.rule = 0 THEN <<>> ELSE <<f.rule>>
           was == Considered(f)
<1>1. f \in Firings /\ SoundFiring(f)
  <2> DEFINE D == SoundFrames
  <2>1. frames \in Seq(D)
    BY DEF Sound
  <2> HIDE DEF D
  <2>2. f \in D
    BY <2>1, ElementOfSeq
  <2> QED BY <2>2 DEF D, SoundFrames, Dispatches
<1>2. /\ done \in Seq(Verdicts) /\ todo \in Seq(RuleNumbers) /\ run \in Seq(RuleNumbers)
      /\ was = [k \in DOMAIN done |-> done[k].rule]
  <2>1. f.rule \in RuleNumbers \cup {0}
    BY <1>1 DEF Firings
  <2>2. done \in Seq(Verdicts) /\ todo \in Seq(RuleNumbers)
    BY <1>1 DEF Firings
  <2> HIDE DEF f
  <2> QED BY <2>1, <2>2 DEF Considered
<1>3. /\ due = (was \o run) \o todo
      /\ \A k \in DOMAIN due : RuleBook[due[k]].trigger = f.on.type
      /\ \A k \in DOMAIN done :
           /\ Rising(done[k].ran) /\ Settled(done[k])
           /\ done[k].ran # <<>> \/ done[k].how = "fired" => Entered(done[k].rule, f)
  BY <1>1 DEF SoundFiring
<1>4. f.rule = 0 => run = <<>>
  OBVIOUS
<1> HIDE DEF done, todo, due, run, was
<1>5. was \in Seq(RuleNumbers)
  <2>1. \A k \in 1..Len(done) : done[k] \in Verdicts
    BY <1>2, ElementOfSeq
  <2>2. \A k \in 1..Len(done) : done[k].rule \in RuleNumbers
    BY <2>1 DEF Verdicts
  <2> QED BY <1>2, <2>2
<1>6. f.rule = 0 /\ todo = <<>> => was = due
  BY <1>3, <1>4, <1>5, ConcatEmptySeq
<1>7. \A k \in DOMAIN done : k \in DOMAIN due /\ due[k] = done[k].rule
  <2>1. /\ was \o run \in Seq(RuleNumbers) /\ Len(was \o run) = Len(was) + Len(run)
        /\ \A i \in 1..Len(was) + Len(run) :
             (was \o run)[i] = IF i <= Len(was) THEN was[i] ELSE run[i - Len(was)]
    BY <1>2, <1>5, ConcatProperties
  <2> DEFINE c == was \o run
  <2> HIDE DEF c
  <2>2. /\ c \in Seq(RuleNumbers) /\ due = c \o todo
    BY <1>3, <2>1 DEF c
  <2>3. /\ c \o todo \in Seq(RuleNumbers) /\ Len(c \o todo) = Len(c) + Len(todo)
        /\ \A i \in 1..Len(c) + Len(todo) :
             (c \o todo)[i] = IF i <= Len(c) THEN c[i] ELSE todo[i - Len(c)]
    BY <1>2, <2>2, ConcatProperties
  <2>4. DOMAIN done = 1..Len(was) /\ Len(was) \in Nat
        /\ \A k \in 1..Len(was) : was[k] = done[k].rule
    BY <1>2, <1>5
  <2>5. Len(c) = Len(was) + Len(run) /\ Len(run) \in Nat /\ Len(todo) \in Nat
        /\ \A i \in 1..Len(was) : c[i] = was[i]
    BY <1>2, <2>1, <2>4 DEF c
  <2>6. DOMAIN due = 1..Len(was) + Len(run) + Len(todo)
    BY <2>2, <2>3, <2>4, <2>5
  <2> QED BY <2>2, <2>3, <2>4, <2>5, <2>6
<1>8. \A k \in DOMAIN done :
        LET told == done[k]
            rule == RuleBook[told.rule]
        IN  /\ rule.trigger = f.on.type
            /\ \A i, j \in DOMAIN told.ran : i < j => told.ran[i] < told.ran[j]
            /\ Settled(told)
            /\ told.ran # <<>> \/ told.how = "fired" =>
                 /\ f.scope = Anywhere \/ rule.scope = Anywhere \/ rule.scope = f.scope
                 /\ ConditionsMet(rule.condition, f.on.context)
  <2> HIDE DEF f
  <2> QED BY <1>3, <1>7 DEF Rising, Entered
<1> QED BY <1>2, <1>6, <1>8 DEF done, todo, due, was

(* Rules do not disturb each other: every rule read for a trigger is       *)
(* considered, once and in order; its actions run in order, none twice,    *)
(* and only in its scope and under its conditions, and none but those of   *)
(* unknown names is left out before the end or before one that raises,     *)
(* whatever other rules, their actions and the triggers these set off do.  *)
THEOREM RulesAlwaysIsolated == Spec => []RulesIsolated
BY AlwaysSound, IsolatedWhenSound, PTL
=============================================================================
