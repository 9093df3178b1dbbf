------------------------ MODULE EventCapture_proofs --------------------------
(***************************************************************************)
(* Theorems about EventCapture, for all bounds: types for any threads, and *)
(* delivery for one.  The run capture_threads shows what is lost with a    *)
(* second thread.                                                          *)
(***************************************************************************)
EXTENDS EventCapture, SequenceTheorems, TLAPS

-----------------------------------------------------------------------------
(* Sequences.                                                              *)

LEMMA Appends ==
  ASSUME NEW S, NEW s \in Seq(S), NEW x \in S
  PROVE  LET r == Append(s, x)
         IN  /\ r \in Seq(S) /\ Len(s) \in Nat /\ Len(r) = Len(s) + 1
             /\ DOMAIN s = 1..Len(s) /\ DOMAIN r = 1..(Len(s) + 1)
             /\ r[Len(s) + 1] = x
             /\ \A i \in 1..Len(s) : r[i] = s[i] /\ s[i] \in S
             /\ Range(r) = Range(s) \cup {x}
<1> DEFINE r == Append(s, x)
<1>1. /\ r \in Seq(S) /\ Len(s) \in Nat /\ Len(r) = Len(s) + 1
      /\ DOMAIN s = 1..Len(s) /\ DOMAIN r = 1..(Len(s) + 1)
      /\ r[Len(s) + 1] = x
      /\ \A i \in 1..Len(s) : r[i] = s[i] /\ s[i] \in S
  BY AppendProperties
<1> HIDE DEF r
<1>2. Range(r) = Range(s) \cup {x}
  <2>1. ASSUME NEW i \in 1..(Len(s) + 1) PROVE r[i] \in Range(s) \cup {x}
    <3>1. CASE i \in 1..Len(s)
      BY <1>1, <3>1 DEF Range
    <3>2. CASE i = Len(s) + 1
      BY <1>1, <3>2
    <3> QED BY <1>1, <3>1, <3>2
  <2>2. ASSUME NEW i \in 1..Len(s) PROVE s[i] \in Range(r)
    <3>1. i \in 1..(Len(s) + 1) /\ r[i] = s[i]
      BY <1>1
    <3> QED BY <1>1, <3>1 DEF Range
  <2>3. x \in Range(r)
    <3>1. Len(s) + 1 \in 1..(Len(s) + 1)
      BY <1>1
    <3> QED BY <1>1, <3>1 DEF Range
  <2> QED BY <1>1, <2>1, <2>2, <2>3 DEF Range
<1> QED BY <1>1, <1>2 DEF r

LEMMA Fronts ==
  ASSUME NEW S, NEW s \in Seq(S), s # <<>>
  PROVE  LET r == Front(s)
         IN  /\ r \in Seq(S) /\ Len(s) \in Nat /\ Len(s) >= 1 /\ Len(r) = Len(s) - 1
             /\ DOMAIN s = 1..Len(s) /\ DOMAIN r = 1..(Len(s) - 1)
             /\ \A i \in 1..(Len(s) - 1) : r[i] = s[i]
             /\ Last(s) = s[Len(s)] /\ Last(s) \in S
<1>1. Len(s) \in Nat /\ Len(s) >= 1 /\ DOMAIN s = 1..Len(s)
  BY EmptySeq
<1>2. /\ Front(s) \in Seq(S) /\ Len(Front(s)) = Len(s) - 1
      /\ \A i \in 1..(Len(s) - 1) : Front(s)[i] = s[i]
  BY <1>1, SubSeqProperties DEF Front
<1> QED BY <1>1, <1>2 DEF Last

LEMMA Replaces ==
  ASSUME NEW S, NEW s \in Seq(S), NEW n \in DOMAIN s, NEW x \in S
  PROVE  LET r == [s EXCEPT ![n] = x]
         IN  /\ r \in Seq(S) /\ Len(r) = Len(s) /\ DOMAIN r = DOMAIN s
             /\ r[n] = x /\ \A i \in DOMAIN s \ {n} : r[i] = s[i]
<1> DEFINE r == [s EXCEPT ![n] = x]
<1>1. Len(s) \in Nat /\ s \in [1..Len(s) -> S] /\ DOMAIN s = 1..Len(s)
  OBVIOUS
<1>2. r \in [1..Len(s) -> S]
  BY <1>1
<1>3. r \in Seq(S) /\ Len(r) = Len(s)
  BY <1>1, <1>2, IsASeq, LenProperties
<1> QED BY <1>1, <1>3

-----------------------------------------------------------------------------
(* Types.                                                                  *)

\* Lists hold events that were emitted, and the list a block will put back
\* exists.
Known ==
  \A b \in DOMAIN lists :
    /\ Range(lists[b].events) \subseteq DOMAIN emitted
    /\ lists[b].parent \in 0..Len(lists)

TypeInv == TypeOK /\ Known

LEMMA Typed ==
  ASSUME TypeInv
  PROVE  /\ Len(lists) \in Nat /\ DOMAIN lists = 1..Len(lists) /\ lists \in Seq(List)
         /\ Len(emitted) \in Nat /\ DOMAIN emitted = 1..Len(emitted)
         /\ Len(delivered) \in Nat /\ DOMAIN delivered = 1..Len(delivered)
         /\ \A b \in DOMAIN lists :
              /\ lists[b] \in List /\ lists[b].events \in Seq(Nat)
              /\ lists[b].sent \in Nat /\ Len(lists[b].events) \in Nat
              /\ lists[b].sent <= Len(lists[b].events)
              /\ DOMAIN lists[b].events = 1..Len(lists[b].events)
              /\ lists[b].parent \in 0..Len(lists)
              /\ Range(lists[b].events) \subseteq DOMAIN emitted
         /\ \A e \in DOMAIN emitted : emitted[e] \in Event
<1>1. /\ Len(lists) \in Nat /\ DOMAIN lists = 1..Len(lists) /\ lists \in Seq(List)
      /\ Len(emitted) \in Nat /\ DOMAIN emitted = 1..Len(emitted)
      /\ \A e \in DOMAIN emitted : emitted[e] \in Event
  BY DEF TypeInv, TypeOK
<1>2. Len(delivered) \in Nat /\ DOMAIN delivered = 1..Len(delivered)
  BY DEF TypeInv, TypeOK
<1>3. ASSUME NEW b \in DOMAIN lists
      PROVE  /\ lists[b] \in List /\ lists[b].events \in Seq(Nat)
             /\ lists[b].sent \in Nat /\ Len(lists[b].events) \in Nat
             /\ lists[b].sent <= Len(lists[b].events)
             /\ DOMAIN lists[b].events = 1..Len(lists[b].events)
             /\ lists[b].parent \in 0..Len(lists)
             /\ Range(lists[b].events) \subseteq DOMAIN emitted
  <2>1. lists[b] \in List
    BY <1>1
  <2>2. lists[b].events \in Seq(Nat) /\ lists[b].sent \in Nat
    BY <2>1 DEF List
  <2> QED BY <2>1, <2>2 DEF TypeInv, TypeOK, Known
<1> QED BY <1>1, <1>2, <1>3

\* A thread that is in something is in what lies on top of its stack.
LEMMA TopTyped ==
  ASSUME TypeInv, NEW t \in Threads, ~Idle(t)
  PROVE  /\ stack[t] \in Seq(DOMAIN lists) /\ Len(stack[t]) \in Nat /\ Len(stack[t]) >= 1
         /\ Top(t) = stack[t][Len(stack[t])]
         /\ Top(t) \in DOMAIN lists
<1>1. stack[t] \in Seq(DOMAIN lists) /\ stack[t] # <<>>
  BY DEF TypeInv, TypeOK, Idle
<1> QED BY <1>1, Fronts DEF Top

(* A step keeps the types if lists, events and deliveries only grow, and   *)
(* what a list holds was emitted.                                          *)
LEMMA GrowsTyped ==
  ASSUME TypeInv, NEW t \in Threads, NEW s,
         lists' \in Seq(List), Len(lists) <= Len(lists'),
         collector' \in 0..Len(lists'),
         stack' = [stack EXCEPT ![t] = s], s \in Seq(DOMAIN lists'),
         emitted' \in Seq(Event), Len(emitted) <= Len(emitted'),
         delivered' \in Seq(DOMAIN emitted'),
         \A b \in DOMAIN lists' :
           /\ lists'[b].sent <= Len(lists'[b].events)
           /\ Range(lists'[b].events) \subseteq DOMAIN emitted'
           /\ lists'[b].parent \in 0..Len(lists')
  PROVE  TypeInv'
<1>1. Len(lists) \in Nat /\ DOMAIN lists = 1..Len(lists)
  BY Typed
<1>2. Len(lists') \in Nat /\ DOMAIN lists' = 1..Len(lists')
  OBVIOUS
<1>3. DOMAIN lists \subseteq DOMAIN lists'
  BY <1>1, <1>2
<1>4. stack \in [Threads -> Seq(DOMAIN lists)]
  BY DEF TypeInv, TypeOK
<1>5. Seq(DOMAIN lists) \subseteq Seq(DOMAIN lists')
  BY <1>3, SeqMonotonic
<1>6. stack' \in [Threads -> Seq(DOMAIN lists')]
  BY <1>4, <1>5
<1> QED BY <1>6 DEF TypeInv, TypeOK, Known

(* The lists after one was replaced or added, and the rest of its types.   *)
LEMMA ListReplaced ==
  ASSUME TypeInv, NEW b \in DOMAIN lists, NEW list \in List,
         lists' = [lists EXCEPT ![b] = list]
  PROVE  /\ lists' \in Seq(List) /\ Len(lists') = Len(lists) /\ DOMAIN lists' = DOMAIN lists
         /\ lists'[b] = list /\ \A c \in DOMAIN lists \ {b} : lists'[c] = lists[c]
<1>1. lists \in Seq(List)
  BY Typed
<1> QED BY <1>1, Replaces

LEMMA ListAdded ==
  ASSUME TypeInv, NEW list \in List, lists' = Append(lists, list)
  PROVE  /\ lists' \in Seq(List) /\ Len(lists') = Len(lists) + 1
         /\ DOMAIN lists' = DOMAIN lists \cup {Len(lists) + 1}
         /\ Len(lists) + 1 \notin DOMAIN lists
         /\ lists'[Len(lists) + 1] = list
         /\ \A c \in DOMAIN lists : lists'[c] = lists[c]
<1>1. lists \in Seq(List) /\ DOMAIN lists = 1..Len(lists) /\ Len(lists) \in Nat
  BY Typed
<1>2. /\ lists' \in Seq(List) /\ Len(lists') = Len(lists) + 1
      /\ DOMAIN lists' = 1..(Len(lists) + 1)
      /\ lists'[Len(lists) + 1] = list
      /\ \A c \in 1..Len(lists) : lists'[c] = lists[c]
  BY <1>1, Appends
<1>3. 1..(Len(lists) + 1) = 1..Len(lists) \cup {Len(lists) + 1}
  BY <1>1
<1> QED BY <1>1, <1>2, <1>3

LEMMA EventAdded ==
  ASSUME TypeInv, NEW event \in Event, emitted' = Append(emitted, event)
  PROVE  /\ emitted' \in Seq(Event) /\ Len(emitted') = Len(emitted) + 1
         /\ DOMAIN emitted' = DOMAIN emitted \cup {Len(emitted) + 1}
         /\ Len(emitted) + 1 \in Nat
         /\ emitted'[Len(emitted) + 1] = event
         /\ \A e \in DOMAIN emitted : emitted'[e] = emitted[e] /\ e \in Nat /\ e < Len(emitted) + 1
<1>1. emitted \in Seq(Event) /\ DOMAIN emitted = 1..Len(emitted) /\ Len(emitted) \in Nat
  BY Typed DEF TypeInv, TypeOK
<1>2. /\ emitted' \in Seq(Event) /\ Len(emitted') = Len(emitted) + 1
      /\ DOMAIN emitted' = 1..(Len(emitted) + 1)
      /\ emitted'[Len(emitted) + 1] = event
      /\ \A e \in 1..Len(emitted) : emitted'[e] = emitted[e]
  BY <1>1, Appends
<1>3. 1..(Len(emitted) + 1) = 1..Len(emitted) \cup {Len(emitted) + 1}
  BY <1>1
<1> QED BY <1>1, <1>2, <1>3

-----------------------------------------------------------------------------
(* Every step keeps the types.                                             *)

LEMMA InitTyped == Init => TypeInv
<1> SUFFICES ASSUME Init PROVE TypeInv
  OBVIOUS
<1>1. DOMAIN lists = {} /\ Len(lists) = 0
  BY DEF Init
<1> QED BY <1>1 DEF Init, TypeInv, TypeOK, Known

\* A list is added on top of the thread's stack, and nothing else.
LEMMA PushedTyped ==
  ASSUME TypeInv, NEW t \in Threads, NEW list \in List, Pushed(t, list),
         list.parent \in 0..Len(lists), list.sent <= Len(list.events),
         Range(list.events) \subseteq DOMAIN emitted',
         collector' \in 0..Len(lists'),
         emitted' \in Seq(Event), Len(emitted) <= Len(emitted'),
         delivered' = delivered
  PROVE  TypeInv'
<1>1. /\ lists' \in Seq(List) /\ Len(lists') = Len(lists) + 1
      /\ DOMAIN lists' = DOMAIN lists \cup {Len(lists) + 1}
      /\ lists'[Len(lists) + 1] = list
      /\ \A c \in DOMAIN lists : lists'[c] = lists[c]
  BY ListAdded DEF Pushed
<1>2. Len(lists) \in Nat /\ Len(emitted) \in Nat /\ DOMAIN emitted = 1..Len(emitted)
  BY Typed
<1>3. DOMAIN emitted \subseteq DOMAIN emitted'
  BY <1>2
<1>4. ASSUME NEW b \in DOMAIN lists'
      PROVE  /\ lists'[b].sent <= Len(lists'[b].events)
             /\ Range(lists'[b].events) \subseteq DOMAIN emitted'
             /\ lists'[b].parent \in 0..Len(lists')
  <2>1. CASE b \in DOMAIN lists
    <3>1. /\ lists[b].sent <= Len(lists[b].events)
          /\ Range(lists[b].events) \subseteq DOMAIN emitted
          /\ lists[b].parent \in 0..Len(lists)
      BY <2>1, Typed
    <3> QED BY <1>1, <1>2, <1>3, <2>1, <3>1
  <2>2. CASE b = Len(lists) + 1
    BY <1>1, <1>2, <2>2
  <2> QED BY <1>1, <2>1, <2>2
<1>5. Append(stack[t], Len(lists) + 1) \in Seq(DOMAIN lists')
  <2>1. stack[t] \in Seq(DOMAIN lists)
    BY DEF TypeInv, TypeOK
  <2>2. stack[t] \in Seq(DOMAIN lists')
    BY <1>1, <2>1, SeqMonotonic
  <2> QED BY <1>1, <2>2, Appends
<1>6. delivered' \in Seq(DOMAIN emitted')
  BY <1>3, SeqMonotonic DEF TypeInv, TypeOK
<1> DEFINE s == Append(stack[t], Len(lists) + 1)
<1>7. stack' = [stack EXCEPT ![t] = s]
  BY DEF Pushed
<1> HIDE DEF s
<1>8. s \in Seq(DOMAIN lists')
  BY <1>5 DEF s
<1>9. lists' \in Seq(List) /\ Len(lists) <= Len(lists')
  BY <1>1, <1>2
<1>10. \A c \in DOMAIN lists' :
         /\ lists'[c].sent <= Len(lists'[c].events)
         /\ Range(lists'[c].events) \subseteq DOMAIN emitted'
         /\ lists'[c].parent \in 0..Len(lists')
  BY <1>4
<1> QED BY <1>6, <1>7, <1>8, <1>9, <1>10, GrowsTyped

\* A list is replaced, and perhaps the thread is done with what is on top.
LEMMA ReplacedTyped ==
  ASSUME TypeInv, NEW t \in Threads, NEW b \in DOMAIN lists, NEW list \in List,
         lists' = [lists EXCEPT ![b] = list],
         list.parent = lists[b].parent, list.sent <= Len(list.events),
         Range(list.events) \subseteq DOMAIN emitted',
         stack' = stack \/ (~Idle(t) /\ Popped(t)),
         collector' \in 0..Len(lists),
         emitted' \in Seq(Event), Len(emitted) <= Len(emitted'),
         delivered' \in Seq(DOMAIN emitted')
  PROVE  TypeInv'
<1>1. /\ lists' \in Seq(List) /\ Len(lists') = Len(lists)
      /\ DOMAIN lists' = DOMAIN lists
      /\ lists'[b] = list
      /\ \A c \in DOMAIN lists \ {b} : lists'[c] = lists[c]
  BY ListReplaced
<1>2. Len(lists) \in Nat /\ Len(emitted) \in Nat /\ DOMAIN emitted = 1..Len(emitted)
  BY Typed
<1>3. DOMAIN emitted \subseteq DOMAIN emitted'
  BY <1>2
<1>4. ASSUME NEW c \in DOMAIN lists'
      PROVE  /\ lists'[c].sent <= Len(lists'[c].events)
             /\ Range(lists'[c].events) \subseteq DOMAIN emitted'
             /\ lists'[c].parent \in 0..Len(lists')
  <2>1. /\ lists[c].sent <= Len(lists[c].events)
        /\ Range(lists[c].events) \subseteq DOMAIN emitted
        /\ lists[c].parent \in 0..Len(lists)
    BY <1>1, Typed
  <2>2. CASE c = b
    BY <1>1, <2>1, <2>2
  <2>3. CASE c # b
    BY <1>1, <1>3, <2>1, <2>3
  <2> QED BY <2>2, <2>3
<1>5. \E s \in Seq(DOMAIN lists') : stack' = [stack EXCEPT ![t] = s]
  <2>1. stack[t] \in Seq(DOMAIN lists) /\ stack \in [Threads -> Seq(DOMAIN lists)]
    BY DEF TypeInv, TypeOK
  <2>2. CASE stack' = stack
    <3>1. stack' = [stack EXCEPT ![t] = stack[t]]
      BY <2>1, <2>2
    <3> QED BY <1>1, <2>1, <3>1
  <2>3. CASE ~Idle(t) /\ Popped(t)
    <3>1. Front(stack[t]) \in Seq(DOMAIN lists)
      BY <2>1, <2>3, Fronts DEF Idle
    <3>2. stack' = [stack EXCEPT ![t] = Front(stack[t])]
      BY <2>3 DEF Popped
    <3> QED BY <1>1, <3>1, <3>2
  <2> QED BY <2>2, <2>3
<1>6. PICK s \in Seq(DOMAIN lists') : stack' = [stack EXCEPT ![t] = s]
  BY <1>5
<1>7. lists' \in Seq(List) /\ Len(lists) <= Len(lists') /\ collector' \in 0..Len(lists')
  BY <1>1, <1>2
<1>8. \A c \in DOMAIN lists' :
        /\ lists'[c].sent <= Len(lists'[c].events)
        /\ Range(lists'[c].events) \subseteq DOMAIN emitted'
        /\ lists'[c].parent \in 0..Len(lists')
  BY <1>4
<1> QED BY <1>6, <1>7, <1>8, GrowsTyped

\* A list with some of its fields changed.
LEMMA GrownList ==
  ASSUME NEW l \in List, NEW events \in Seq(Nat), NEW r,
         r = [l EXCEPT !.events = events]
  PROVE  /\ r \in List /\ r.parent = l.parent /\ r.events = events
         /\ r.phase = l.phase /\ r.sent = l.sent /\ r.failed = l.failed
BY DEF List

LEMMA CountedList ==
  ASSUME NEW l \in List, NEW sent \in Nat, NEW r,
         r = [l EXCEPT !.sent = sent]
  PROVE  /\ r \in List /\ r.parent = l.parent /\ r.events = l.events
         /\ r.phase = l.phase /\ r.sent = sent /\ r.failed = l.failed
BY DEF List

LEMMA EndedList ==
  ASSUME NEW l \in List, NEW phase \in Phases, NEW r,
         r = [l EXCEPT !.phase = phase]
  PROVE  /\ r \in List /\ r.parent = l.parent /\ r.events = l.events
         /\ r.phase = phase /\ r.sent = l.sent /\ r.failed = l.failed
BY DEF List

LEMMA EnterTyped ==
  ASSUME TypeInv, NEW t \in Threads, Enter(t)
  PROVE  /\ TypeInv'
         /\ NewList(collector, <<>>, "open") \in List
<1> DEFINE list == NewList(collector, <<>>, "open")
<1>1. collector \in 0..Len(lists) /\ Len(lists) \in Nat
  BY Typed DEF TypeInv, TypeOK
<1>2. /\ list \in List /\ list.parent = collector /\ list.events = <<>> /\ list.sent = 0
  <2>1. <<>> \in Seq(Nat) /\ collector \in Nat
    BY <1>1
  <2> QED BY <2>1 DEF NewList, List, Phases
<1>3. Pushed(t, list)
  BY DEF Enter
<1> HIDE DEF list
<1>4. Len(lists') = Len(lists) + 1
  BY <1>2, <1>3, ListAdded DEF Pushed
<1>5. collector' \in 0..Len(lists')
  BY <1>1, <1>4 DEF Enter
<1>6. list.sent <= Len(list.events) /\ Range(list.events) \subseteq DOMAIN emitted'
  BY <1>2 DEF Range
<1>7. /\ emitted' \in Seq(Event) /\ Len(emitted) <= Len(emitted')
      /\ delivered' = delivered
  <2>1. Len(emitted) \in Nat
    BY Typed
  <2> QED BY <2>1 DEF TypeInv, TypeOK, Enter
<1>8. TypeInv'
  BY <1>1, <1>2, <1>3, <1>5, <1>6, <1>7, PushedTyped
<1> QED BY <1>2, <1>8 DEF list

LEMMA LeaveTyped ==
  ASSUME TypeInv, NEW t \in Threads, NEW success \in BOOLEAN, Leave(t, success)
  PROVE  TypeInv'
<1> DEFINE b == Top(t)
           left(phase) == [lists[b] EXCEPT !.phase = phase, !.failed = ~success]
<1>1. ~Idle(t) /\ b \in DOMAIN lists
  BY TopTyped DEF Leave, Is
<1>2. /\ lists[b] \in List /\ lists[b].parent \in 0..Len(lists)
      /\ lists[b].sent <= Len(lists[b].events)
      /\ Range(lists[b].events) \subseteq DOMAIN emitted
      /\ Len(emitted) \in Nat
  BY <1>1, Typed
<1>3. PICK phase \in {"dispatching", "dropped"} :
        /\ lists' = [lists EXCEPT ![b] = left(phase)]
        /\ stack' = stack \/ Popped(t)
  BY DEF Leave
<1>4. collector' \in 0..Len(lists)
  BY <1>2 DEF Leave, Restored
<1>5. /\ emitted' \in Seq(Event) /\ Len(emitted) <= Len(emitted')
      /\ delivered' \in Seq(DOMAIN emitted') /\ emitted' = emitted
  BY <1>2 DEF TypeInv, TypeOK, Leave
<1> DEFINE list == left(phase)
<1>6. /\ list \in List /\ list.parent = lists[b].parent
      /\ list.sent = lists[b].sent /\ list.events = lists[b].events
  <2>1. phase \in Phases
    BY DEF Phases
  <2> HIDE DEF b
  <2> QED BY <1>2, <2>1 DEF List
<1>7. /\ list \in List /\ lists' = [lists EXCEPT ![b] = list]
      /\ list.parent = lists[b].parent /\ list.sent <= Len(list.events)
      /\ Range(list.events) \subseteq DOMAIN emitted'
  BY <1>2, <1>3, <1>5, <1>6
<1> HIDE DEF b, list
<1> QED BY <1>1, <1>3, <1>4, <1>5, <1>7, ReplacedTyped

LEMMA EmitTyped ==
  ASSUME TypeInv, NEW t \in Threads, Emit(t)
  PROVE  /\ TypeInv'
         /\ [within |-> Blocks(t), home |-> IF Is(t, "open") THEN Top(t) ELSE 0] \in Event
<1> DEFINE e == Len(emitted) + 1
           event == [within |-> Blocks(t),
                     home |-> IF Is(t, "open") THEN Top(t) ELSE 0]
<1>1. Len(lists) \in Nat /\ DOMAIN lists = 1..Len(lists) /\ Len(emitted) \in Nat
  BY Typed
<1>2. event \in Event
  <2>1. stack[t] \in Seq(DOMAIN lists)
    BY DEF TypeInv, TypeOK
  <2>2. Range(stack[t]) \subseteq Nat
    BY <1>1, <2>1 DEF Range
  <2>3. Is(t, "open") => Top(t) \in Nat
    BY <1>1, TopTyped DEF Is
  <2> QED BY <2>2, <2>3 DEF Event, Blocks
<1>3. emitted' = Append(emitted, event)
  BY DEF Emit
<1> HIDE DEF event
<1>4. /\ emitted' \in Seq(Event) /\ Len(emitted') = e /\ e \in Nat
      /\ DOMAIN emitted' = DOMAIN emitted \cup {e}
  BY <1>2, <1>3, EventAdded
<1>5. /\ delivered' = delivered /\ delivered' \in Seq(DOMAIN emitted')
      /\ Len(emitted) <= Len(emitted')
  <2>1. delivered' = delivered /\ delivered \in Seq(DOMAIN emitted)
    BY DEF Emit, TypeInv, TypeOK
  <2> QED BY <1>1, <1>4, <2>1, SeqMonotonic
<1>6. CASE collector # 0 /\ stack' = stack
           /\ lists' = [lists EXCEPT ![collector].events = Appended(@, e)]
  <2> DEFINE c == collector
             list == [lists[c] EXCEPT !.events = Append(lists[c].events, e)]
  <2>1. c \in DOMAIN lists /\ collector' = collector /\ collector' \in 0..Len(lists)
    BY <1>1, <1>6 DEF TypeInv, TypeOK, Emit
  <2>2. /\ lists[c] \in List /\ lists[c].events \in Seq(Nat)
        /\ lists[c].sent <= Len(lists[c].events) /\ lists[c].sent \in Nat
        /\ Range(lists[c].events) \subseteq DOMAIN emitted
    BY <2>1, Typed
  <2>3. /\ Append(lists[c].events, e) \in Seq(Nat)
        /\ Len(lists[c].events) \in Nat
        /\ Len(Append(lists[c].events, e)) = Len(lists[c].events) + 1
        /\ Range(Append(lists[c].events, e)) = Range(lists[c].events) \cup {e}
    BY <1>4, <2>2, Appends
  <2>4. /\ list \in List /\ list.parent = lists[c].parent /\ list.sent = lists[c].sent
        /\ list.events = Append(lists[c].events, e)
    <3> DEFINE grown == Append(lists[c].events, e)
    <3>1. grown \in Seq(Nat) /\ list = [lists[c] EXCEPT !.events = grown]
      BY <2>3
    <3> HIDE DEF list, grown
    <3>2. list \in List /\ list.parent = lists[c].parent /\ list.sent = lists[c].sent /\ list.events = grown
      BY <2>2, <3>1, GrownList
    <3> QED BY <3>2 DEF grown
  <2>5. lists' = [lists EXCEPT ![c] = list]
    BY <1>6 DEF Appended, list
  <2>6. list.sent <= Len(list.events) /\ Range(list.events) \subseteq DOMAIN emitted'
    BY <1>4, <2>2, <2>3, <2>4
  <2> HIDE DEF c, list
  <2>7. TypeInv'
    BY <1>4, <1>5, <1>6, <2>1, <2>4, <2>5, <2>6, ReplacedTyped
  <2> QED BY <1>2, <2>7 DEF event
<1>7. CASE collector = 0 /\ Pushed(t, NewList(0, <<e>>, "dispatching"))
  <2> DEFINE list == NewList(0, <<e>>, "dispatching")
  <2>1. <<e>> \in Seq(Nat) /\ Len(<<e>>) = 1 /\ Range(<<e>>) = {e}
    BY <1>4 DEF Range
  <2>2. list \in List /\ list.parent = 0 /\ list.events = <<e>> /\ list.sent = 0
    BY <2>1 DEF NewList, List, Phases
  <2>3. collector' \in 0..Len(lists')
    <3>1. collector' = 0
      BY <1>7 DEF Emit
    <3>2. Len(lists') = Len(lists) + 1
      BY <1>7, <2>2, ListAdded DEF Pushed
    <3> QED BY <1>1, <3>1, <3>2
  <2>4. /\ list.parent \in 0..Len(lists) /\ list.sent <= Len(list.events)
        /\ Range(list.events) \subseteq DOMAIN emitted' /\ Pushed(t, list)
    BY <1>1, <1>4, <1>7, <2>1, <2>2
  <2> HIDE DEF list
  <2>5. TypeInv'
    BY <1>4, <1>5, <2>2, <2>3, <2>4, PushedTyped
  <2> QED BY <1>2, <2>5 DEF event
<1> QED BY <1>6, <1>7 DEF Emit

LEMMA DispatchTyped ==
  ASSUME TypeInv, NEW t \in Threads, NEW raised \in BOOLEAN, Dispatch(t, raised)
  PROVE  TypeInv'
<1> DEFINE b == Top(t)
           n == lists[b].sent + 1
           list == [lists[b] EXCEPT !.sent = n]
           x == lists[b].events[n]
<1>1. ~Idle(t) /\ b \in DOMAIN lists
  BY TopTyped DEF Dispatch, Is
<1>2. /\ lists[b] \in List /\ lists[b].sent \in Nat /\ Len(lists[b].events) \in Nat
      /\ Range(lists[b].events) \subseteq DOMAIN emitted
      /\ DOMAIN lists[b].events = 1..Len(lists[b].events)
      /\ collector \in 0..Len(lists) /\ Len(emitted) \in Nat
      /\ delivered \in Seq(DOMAIN emitted) /\ emitted \in Seq(Event)
  BY <1>1, Typed DEF TypeInv, TypeOK
<1>3. /\ lists[b].sent < Len(lists[b].events)
      /\ delivered' = Append(delivered, x)
      /\ lists' = [lists EXCEPT ![b] = list]
      /\ collector' = collector /\ stack' = stack /\ emitted' = emitted
  BY DEF Dispatch, Advanced
<1>4. x \in DOMAIN emitted
  <2>1. n \in DOMAIN lists[b].events
    BY <1>2, <1>3
  <2> QED BY <1>2, <2>1 DEF Range
<1>5. delivered' \in Seq(DOMAIN emitted')
  BY <1>2, <1>3, <1>4, Appends
<1>6. /\ list \in List /\ list.parent = lists[b].parent /\ list.sent = n
      /\ list.events = lists[b].events
  <2>1. n \in Nat
    BY <1>2
  <2> QED BY <1>2, <2>1, CountedList
<1>7. /\ list.sent <= Len(list.events) /\ Range(list.events) \subseteq DOMAIN emitted'
      /\ collector' \in 0..Len(lists)
      /\ emitted' \in Seq(Event) /\ Len(emitted) <= Len(emitted')
  BY <1>2, <1>3, <1>6
<1> HIDE DEF b, list
<1> QED BY <1>1, <1>3, <1>5, <1>6, <1>7, ReplacedTyped

LEMMA FinishTyped ==
  ASSUME TypeInv, NEW t \in Threads, Finish(t)
  PROVE  TypeInv'
<1> DEFINE b == Top(t)
           list == [lists[b] EXCEPT !.phase = "dispatched"]
<1>1. ~Idle(t) /\ b \in DOMAIN lists
  BY TopTyped DEF Finish, Is
<1>2. /\ lists[b] \in List /\ lists[b].sent <= Len(lists[b].events)
      /\ Range(lists[b].events) \subseteq DOMAIN emitted
      /\ collector \in 0..Len(lists) /\ Len(emitted) \in Nat
      /\ delivered \in Seq(DOMAIN emitted) /\ emitted \in Seq(Event)
  BY <1>1, Typed DEF TypeInv, TypeOK
<1>3. /\ lists' = [lists EXCEPT ![b] = list] /\ Popped(t)
      /\ collector' = collector /\ emitted' = emitted /\ delivered' = delivered
  BY DEF Finish
<1>4. /\ list \in List /\ list.parent = lists[b].parent /\ list.sent = lists[b].sent
      /\ list.events = lists[b].events
  <2>1. "dispatched" \in Phases
    BY DEF Phases
  <2> QED BY <1>2, <2>1, EndedList
<1>5. /\ list.sent <= Len(list.events) /\ Range(list.events) \subseteq DOMAIN emitted'
      /\ collector' \in 0..Len(lists)
      /\ emitted' \in Seq(Event) /\ Len(emitted) <= Len(emitted')
      /\ delivered' \in Seq(DOMAIN emitted')
  BY <1>2, <1>3, <1>4
<1> HIDE DEF b, list
<1> QED BY <1>1, <1>3, <1>4, <1>5, ReplacedTyped

LEMMA StepTyped ==
  ASSUME TypeInv, [Next]_vars
  PROVE  TypeInv'
<1>1. ASSUME NEW t \in Threads, Step(t) PROVE TypeInv'
  BY <1>1, EnterTyped, LeaveTyped, EmitTyped, DispatchTyped, FinishTyped DEF Step
<1>2. CASE UNCHANGED vars
  BY <1>2 DEF vars, TypeInv, TypeOK, Known
<1> QED BY <1>1, <1>2 DEF Next

(* Whatever threads share the process, the collector and every stack refer *)
(* to lists that exist, and no list is dispatched past its end.            *)
THEOREM TypesHold == Spec => []TypeOK
<1>1. TypeInv => TypeOK
  BY DEF TypeInv
<1> QED BY <1>1, InitTyped, StepTyped, PTL DEF Spec

-----------------------------------------------------------------------------
(* One thread.  The invariant of delivery.                                 *)

\* Lists are stacked in the order of their creation: dispatch loops below,
\* capture blocks above, each block in the one below it; the collector is
\* the block on top.
Nested(t) ==
  LET s == stack[t]
  IN  /\ \A i \in DOMAIN s :
           /\ lists[s[i]].phase \in {"open", "dispatching"}
           /\ lists[s[i]].phase = "open" =>
                lists[s[i]].parent =
                  IF i > 1 /\ lists[s[i - 1]].phase = "open" THEN s[i - 1] ELSE 0
      /\ \A i, j \in DOMAIN s : i < j =>
           /\ s[i] < s[j]
           /\ lists[s[i]].phase = "open" => lists[s[j]].phase = "open"
      /\ collector =
           IF Len(s) > 0 /\ lists[s[Len(s)]].phase = "open" THEN s[Len(s)] ELSE 0

\* Only a list without a parent is dispatched, and only a dropped one has
\* failed.  What a list without a parent holds was emitted within no other
\* block.  A list holds, in order, the events of its block, or the one that
\* was emitted outside every block.
Sound(b) ==
  /\ lists[b].phase \in {"dispatching", "dispatched"} => lists[b].parent = 0
  /\ lists[b].failed => lists[b].phase = "dropped"
  /\ lists[b].parent = 0 =>
       \A e \in Range(lists[b].events) : emitted[e].within \subseteq {b}
  /\ \A i, j \in DOMAIN lists[b].events :
       i < j => lists[b].events[i] < lists[b].events[j]
  /\ \A e \in Range(lists[b].events) :
       \/ emitted[e].home = b
       \/ /\ emitted[e].home = 0 /\ Len(lists[b].events) = 1
          /\ lists[b].phase \in {"dispatching", "dispatched"}

\* What is delivered was emitted within dispatched blocks only, and handed
\* out by the loop of its own, in order.
Heard ==
  /\ \A e \in Range(delivered) : \A b \in emitted[e].within :
       b \in DOMAIN lists /\ lists[b].phase \in {"dispatching", "dispatched"}
  /\ \A e \in Range(delivered) :
       LET h == emitted[e].home
       IN  h # 0 => h \in DOMAIN lists /\ \E k \in 1..lists[h].sent : lists[h].events[k] = e
  /\ DeliveredInOrder

\* An event emitted outside every block is the next to be delivered: until
\* it is, nothing emitted later can be.
Waits(b, e) ==
  /\ b \in DOMAIN lists /\ lists[b].phase = "dispatching" /\ lists[b].sent = 0
  /\ e \in Range(lists[b].events) /\ emitted[e].home = 0

Waiting(t) ==
  \A b, e : Waits(b, e) =>
    /\ ~Idle(t) /\ b = Top(t)
    /\ \A d \in Range(delivered) : emitted[d].home = 0 => d < e

Inv(t) ==
  Nested(t) /\ (\A b \in DOMAIN lists : Sound(b)) /\ Heard /\ Waiting(t)

-----------------------------------------------------------------------------
(* The stack.                                                              *)

LEMMA PushedShape ==
  ASSUME TypeInv, NEW t \in Threads, NEW list \in List, Pushed(t, list)
  PROVE  LET n == Len(lists) + 1
             s == stack[t]
             r == stack'[t]
         IN  /\ n \in Nat /\ n # 0 /\ n \notin DOMAIN lists
             /\ DOMAIN lists' = DOMAIN lists \cup {n} /\ lists'[n] = list
             /\ \A c \in DOMAIN lists : lists'[c] = lists[c] /\ c \in Nat /\ c < n /\ c # 0
             /\ Len(s) \in Nat /\ DOMAIN s = 1..Len(s)
             /\ DOMAIN r = 1..(Len(s) + 1) /\ Len(r) = Len(s) + 1
             /\ r[Len(s) + 1] = n
             /\ \A i \in 1..Len(s) : r[i] = s[i] /\ s[i] \in DOMAIN lists
<1> DEFINE n == Len(lists) + 1
<1>1. /\ Len(lists) \in Nat /\ DOMAIN lists = 1..Len(lists)
  BY Typed
<1>2. /\ DOMAIN lists' = DOMAIN lists \cup {n} /\ lists'[n] = list
      /\ \A c \in DOMAIN lists : lists'[c] = lists[c]
      /\ lists' \in Seq(List)
  BY ListAdded DEF Pushed
<1>3. n \in Nat /\ n # 0 /\ \A c \in DOMAIN lists : c \in Nat /\ c < n /\ c # 0
  BY <1>1
<1>4. stack[t] \in Seq(DOMAIN lists) /\ stack \in [Threads -> Seq(DOMAIN lists)]
  BY DEF TypeInv, TypeOK
<1>5. stack'[t] = Append(stack[t], n)
  BY <1>4 DEF Pushed
<1>6. stack[t] \in Seq(DOMAIN lists')
  BY <1>2, <1>4, SeqMonotonic
<1>7. n \in DOMAIN lists'
  BY <1>2
<1>8. \A i \in 1..Len(stack[t]) : stack[t][i] \in DOMAIN lists
  BY <1>4
<1> HIDE DEF n
<1>9. /\ Len(stack[t]) \in Nat /\ DOMAIN stack[t] = 1..Len(stack[t])
      /\ DOMAIN stack'[t] = 1..(Len(stack[t]) + 1) /\ Len(stack'[t]) = Len(stack[t]) + 1
      /\ stack'[t][Len(stack[t]) + 1] = n
      /\ \A i \in 1..Len(stack[t]) : stack'[t][i] = stack[t][i]
  BY <1>5, <1>6, <1>7, Appends
<1>10. n \notin DOMAIN lists
  BY <1>3
<1> QED BY <1>2, <1>3, <1>8, <1>9, <1>10 DEF n

LEMMA PoppedShape ==
  ASSUME TypeInv, NEW t \in Threads, ~Idle(t)
  PROVE  LET s == stack[t]
         IN  /\ Len(s) \in Nat /\ Len(s) >= 1 /\ DOMAIN s = 1..Len(s)
             /\ Top(t) = s[Len(s)] /\ \A i \in 1..Len(s) : s[i] \in DOMAIN lists
             /\ Popped(t) =>
                  /\ Len(stack'[t]) = Len(s) - 1 /\ DOMAIN stack'[t] = 1..(Len(s) - 1)
                  /\ \A i \in 1..(Len(s) - 1) : stack'[t][i] = s[i]
<1>1. /\ stack[t] \in Seq(DOMAIN lists) /\ stack[t] # <<>>
      /\ stack \in [Threads -> Seq(DOMAIN lists)]
  BY DEF TypeInv, TypeOK, Idle
<1>2. Popped(t) => stack'[t] = Front(stack[t])
  BY <1>1 DEF Popped
<1>3. \A i \in 1..Len(stack[t]) : stack[t][i] \in DOMAIN lists
  BY <1>1
<1>4. /\ Len(stack[t]) \in Nat /\ Len(stack[t]) >= 1 /\ DOMAIN stack[t] = 1..Len(stack[t])
      /\ Len(Front(stack[t])) = Len(stack[t]) - 1
      /\ DOMAIN Front(stack[t]) = 1..(Len(stack[t]) - 1)
      /\ \A i \in 1..(Len(stack[t]) - 1) : Front(stack[t])[i] = stack[t][i]
      /\ Last(stack[t]) = stack[t][Len(stack[t])]
  BY <1>1, Fronts
<1> QED BY <1>2, <1>3, <1>4 DEF Top

\* A block or a dispatch loop begins on top of the stack.
LEMMA NestedPushed ==
  ASSUME TypeInv, NEW t \in Threads, Nested(t),
         NEW list \in List, Pushed(t, list),
         \/ list.phase = "open" /\ list.parent = collector /\ collector' = Len(lists) + 1
         \/ list.phase = "dispatching" /\ collector = 0 /\ collector' = 0
  PROVE  Nested(t)'
<1> DEFINE n == Len(lists) + 1
           s == stack[t]
           r == stack'[t]
           m == Len(stack[t])
<1>1. /\ n \in Nat /\ n # 0 /\ n \notin DOMAIN lists
      /\ DOMAIN lists' = DOMAIN lists \cup {n} /\ lists'[n] = list
      /\ \A c \in DOMAIN lists : lists'[c] = lists[c] /\ c \in Nat /\ c < n /\ c # 0
      /\ m \in Nat /\ DOMAIN s = 1..m
      /\ DOMAIN r = 1..(m + 1) /\ Len(r) = m + 1
      /\ r[m + 1] = n
      /\ \A i \in 1..m : r[i] = s[i] /\ s[i] \in DOMAIN lists
  BY PushedShape
<1>2. /\ \A i \in 1..m :
           /\ lists[s[i]].phase \in {"open", "dispatching"}
           /\ lists[s[i]].phase = "open" =>
                lists[s[i]].parent =
                  IF i > 1 /\ lists[s[i - 1]].phase = "open" THEN s[i - 1] ELSE 0
      /\ \A i, j \in 1..m : i < j =>
           /\ s[i] < s[j]
           /\ lists[s[i]].phase = "open" => lists[s[j]].phase = "open"
      /\ collector = IF m > 0 /\ lists[s[m]].phase = "open" THEN s[m] ELSE 0
  BY <1>1 DEF Nested
<1> HIDE DEF n, s, r, m
<1>3. \A i \in 1..m : r[i] = s[i] /\ lists'[r[i]] = lists[s[i]] /\ r[i] < n
  BY <1>1
<1>4. ASSUME NEW i \in 1..m, list.phase = "dispatching" PROVE lists[s[i]].phase # "open"
  <2>1. collector = 0 /\ m > 0 /\ m \in 1..m
    BY <1>1, <1>4
  <2>2. s[m] # 0
    BY <1>1, <2>1
  <2>3. lists[s[m]].phase # "open"
    BY <1>2, <2>1, <2>2
  <2> QED BY <1>1, <1>2, <2>1, <2>3
<1>5. ASSUME NEW i \in 1..(m + 1)
      PROVE  /\ lists'[r[i]].phase \in {"open", "dispatching"}
             /\ lists'[r[i]].phase = "open" =>
                  lists'[r[i]].parent =
                    IF i > 1 /\ lists'[r[i - 1]].phase = "open" THEN r[i - 1] ELSE 0
  <2>1. CASE i \in 1..m
    <3>1. i > 1 => i - 1 \in 1..m
      BY <1>1, <2>1
    <3> QED BY <1>2, <1>3, <2>1, <3>1
  <2>2. CASE i = m + 1
    <3>1. r[i] = n /\ lists'[r[i]] = list /\ i - 1 = m /\ (i > 1 <=> m > 0)
      BY <1>1, <2>2
    <3>2. m > 0 => lists'[r[m]] = lists[s[m]] /\ r[m] = s[m]
      BY <1>1, <1>3
    <3> QED BY <1>2, <3>1, <3>2
  <2> QED BY <1>1, <2>1, <2>2
<1>6. ASSUME NEW i \in 1..(m + 1), NEW j \in 1..(m + 1), i < j
      PROVE  /\ r[i] < r[j]
             /\ lists'[r[i]].phase = "open" => lists'[r[j]].phase = "open"
  <2>1. i \in 1..m
    BY <1>1, <1>6
  <2>2. CASE j \in 1..m
    BY <1>2, <1>3, <1>6, <2>1, <2>2
  <2>3. CASE j = m + 1
    BY <1>1, <1>3, <1>4, <2>1, <2>3
  <2> QED BY <1>1, <2>2, <2>3
<1>7. collector' = IF m + 1 > 0 /\ lists'[r[m + 1]].phase = "open" THEN r[m + 1] ELSE 0
  <2>1. lists'[r[m + 1]] = list /\ r[m + 1] = n /\ m + 1 > 0
    BY <1>1
  <2> QED BY <2>1 DEF n
<1> USE DEF r
<1> QED BY <1>1, <1>5, <1>6, <1>7 DEF Nested

\* What lies on top, and what a block without a parent lies on.
LEMMA TopShape ==
  ASSUME TypeInv, NEW t \in Threads, Nested(t)
  PROVE  /\ collector = IF Is(t, "open") THEN Top(t) ELSE 0
         /\ ~Idle(t) => Top(t) \in DOMAIN lists /\ Top(t) \in Nat /\ Top(t) # 0
         /\ ~Is(t, "open") => Blocks(t) = {}
         /\ Is(t, "open") /\ lists[Top(t)].parent = 0 => Blocks(t) \subseteq {Top(t)}
<1> DEFINE s == stack[t]
           m == Len(stack[t])
<1>1. CASE Idle(t)
  <2>1. s = <<>> /\ m = 0 /\ DOMAIN s = {}
    BY <1>1 DEF Idle
  <2>2. collector = 0
    BY <2>1 DEF Nested
  <2>3. Blocks(t) = {}
    BY <2>1 DEF Blocks, Range
  <2> QED BY <1>1, <2>2, <2>3 DEF Is
<1>2. CASE ~Idle(t)
  <2>1. /\ m \in Nat /\ m >= 1 /\ DOMAIN s = 1..m
        /\ Top(t) = s[m] /\ \A i \in 1..m : s[i] \in DOMAIN lists
    BY <1>2, PoppedShape
  <2>2. Is(t, "open") <=> lists[s[m]].phase = "open"
    BY <1>2, <2>1 DEF Is
  <2>3. /\ m \in 1..m /\ Top(t) \in DOMAIN lists
        /\ collector = IF lists[s[m]].phase = "open" THEN s[m] ELSE 0
    BY <2>1 DEF Nested
  <2>4. /\ lists[s[m]].phase = "open" =>
             lists[s[m]].parent =
               IF m > 1 /\ lists[s[m - 1]].phase = "open" THEN s[m - 1] ELSE 0
        /\ \A i, j \in 1..m : i < j /\ lists[s[i]].phase = "open" =>
             lists[s[j]].phase = "open"
    BY <2>1 DEF Nested
  <2>5. \A b \in DOMAIN lists : b \in Nat /\ b # 0
    BY Typed
  <2>6. \A b \in Blocks(t) : \E i \in 1..m : b = s[i] /\ lists[s[i]].phase = "open"
    BY <2>1 DEF Blocks, Range
  <2> HIDE DEF s, m
  <2>7. lists[s[m]].phase # "open" => Blocks(t) = {}
    <3>1. ASSUME NEW b \in Blocks(t) PROVE lists[s[m]].phase = "open"
      <4>1. PICK i \in 1..m : b = s[i] /\ lists[s[i]].phase = "open"
        BY <2>6
      <4>2. i = m \/ i < m
        BY <2>1
      <4> QED BY <2>3, <2>4, <4>1, <4>2
    <3> QED BY <3>1
  <2>8. lists[s[m]].phase = "open" /\ lists[s[m]].parent = 0 => Blocks(t) \subseteq {s[m]}
    <3>1. ASSUME lists[s[m]].phase = "open", lists[s[m]].parent = 0, NEW b \in Blocks(t)
          PROVE  b = s[m]
      <4>1. PICK i \in 1..m : b = s[i] /\ lists[s[i]].phase = "open"
        BY <2>6
      <4>2. ASSUME i # m PROVE FALSE
        <5>1. m > 1 /\ m - 1 \in 1..m /\ (i = m - 1 \/ i < m - 1)
          BY <2>1, <4>2
        <5>2. lists[s[m - 1]].phase = "open"
          BY <2>4, <4>1, <5>1
        <5>3. s[m - 1] \in DOMAIN lists
          BY <2>1, <5>1
        <5> QED BY <2>4, <2>5, <3>1, <5>1, <5>2, <5>3
      <4> QED BY <4>1, <4>2
    <3> QED BY <3>1
  <2> QED BY <1>2, <2>1, <2>2, <2>3, <2>5, <2>7, <2>8
<1> QED BY <1>1, <1>2

\* The block or the loop on top ends.
LEMMA NestedPopped ==
  ASSUME TypeInv, NEW t \in Threads, Nested(t), ~Idle(t), Popped(t),
         NEW list \in List, lists' = [lists EXCEPT ![Top(t)] = list],
         \/ lists[Top(t)].phase = "open" /\ collector' = lists[Top(t)].parent
         \/ lists[Top(t)].phase # "open" /\ collector' = collector
  PROVE  Nested(t)'
<1> DEFINE s == stack[t]
           r == stack'[t]
           m == Len(stack[t])
<1>1. /\ m \in Nat /\ m >= 1 /\ DOMAIN s = 1..m
      /\ Top(t) = s[m] /\ \A i \in 1..m : s[i] \in DOMAIN lists
      /\ Len(r) = m - 1 /\ DOMAIN r = 1..(m - 1)
      /\ \A i \in 1..(m - 1) : r[i] = s[i]
  BY PoppedShape
<1>2. /\ \A i \in 1..m :
           /\ lists[s[i]].phase \in {"open", "dispatching"}
           /\ lists[s[i]].phase = "open" =>
                lists[s[i]].parent =
                  IF i > 1 /\ lists[s[i - 1]].phase = "open" THEN s[i - 1] ELSE 0
      /\ \A i, j \in 1..m : i < j =>
           /\ s[i] < s[j]
           /\ lists[s[i]].phase = "open" => lists[s[j]].phase = "open"
      /\ collector = IF m > 0 /\ lists[s[m]].phase = "open" THEN s[m] ELSE 0
  BY <1>1 DEF Nested
<1>3. /\ \A c \in DOMAIN lists \ {Top(t)} : lists'[c] = lists[c]
      /\ \A c \in DOMAIN lists : c \in Nat
  <2>1. Top(t) \in DOMAIN lists
    BY <1>1
  <2> QED BY <2>1, ListReplaced, Typed
<1> HIDE DEF s, r, m
<1>4. ASSUME NEW i \in 1..(m - 1) PROVE i \in 1..m /\ r[i] = s[i] /\ lists'[r[i]] = lists[s[i]]
  <2>1. i \in 1..m /\ m \in 1..m /\ i < m /\ r[i] = s[i]
    BY <1>1
  <2>2. s[i] < s[m] /\ s[i] \in DOMAIN lists /\ s[m] \in DOMAIN lists
    BY <1>1, <1>2, <2>1
  <2>3. s[i] # Top(t)
    BY <1>1, <1>3, <2>2
  <2> QED BY <1>3, <2>1, <2>2, <2>3
<1>5. ASSUME NEW i \in 1..(m - 1)
      PROVE  /\ lists'[r[i]].phase \in {"open", "dispatching"}
             /\ lists'[r[i]].phase = "open" =>
                  lists'[r[i]].parent =
                    IF i > 1 /\ lists'[r[i - 1]].phase = "open" THEN r[i - 1] ELSE 0
  <2>1. i > 1 => i - 1 \in 1..(m - 1)
    BY <1>1
  <2> QED BY <1>2, <1>4, <2>1
<1>6. ASSUME NEW i \in 1..(m - 1), NEW j \in 1..(m - 1), i < j
      PROVE  /\ r[i] < r[j]
             /\ lists'[r[i]].phase = "open" => lists'[r[j]].phase = "open"
  BY <1>2, <1>4, <1>6
<1>7. collector' =
        IF m - 1 > 0 /\ lists'[r[m - 1]].phase = "open" THEN r[m - 1] ELSE 0
  <2>1. m \in 1..m /\ (m - 1 > 0 <=> m > 1)
    BY <1>1
  <2>2. m - 1 > 0 => /\ m - 1 \in 1..(m - 1) /\ m - 1 \in 1..m /\ m - 1 < m
                     /\ r[m - 1] = s[m - 1] /\ lists'[r[m - 1]] = lists[s[m - 1]]
    BY <1>1, <1>4
  <2>3. CASE lists[s[m]].phase = "open"
    <3>1. collector' = lists[s[m]].parent
      BY <1>1, <2>3
    <3>2. lists[s[m]].parent =
            IF m > 1 /\ lists[s[m - 1]].phase = "open" THEN s[m - 1] ELSE 0
      BY <1>2, <2>1, <2>3
    <3> QED BY <2>1, <2>2, <3>1, <3>2
  <2>4. CASE lists[s[m]].phase # "open"
    <3>1. collector' = 0
      BY <1>1, <1>2, <2>4
    <3>2. m - 1 > 0 => lists[s[m - 1]].phase # "open"
      BY <1>2, <2>1, <2>2, <2>4
    <3> QED BY <2>2, <3>1, <3>2
  <2> QED BY <2>3, <2>4
<1> USE DEF r
<1> QED BY <1>1, <1>5, <1>6, <1>7 DEF Nested

\* A list on the stack or outside it changes, and nothing is left.
LEMMA NestedStays ==
  ASSUME TypeInv, NEW t \in Threads, Nested(t), stack' = stack,
         NEW b \in DOMAIN lists, NEW list \in List, lists' = [lists EXCEPT ![b] = list],
         list.parent = lists[b].parent,
         \/ list.phase = lists[b].phase /\ collector' = collector
         \/ /\ Is(t, "open") /\ b = Top(t) /\ list.phase = "dispatching"
            /\ lists[b].parent = 0 /\ collector' = 0
  PROVE  Nested(t)'
<1> DEFINE s == stack[t]
           m == Len(stack[t])
<1>1. m \in Nat /\ DOMAIN s = 1..m /\ \A i \in 1..m : s[i] \in DOMAIN lists
  <2>1. stack[t] \in Seq(DOMAIN lists)
    BY DEF TypeInv, TypeOK
  <2> QED BY <2>1
<1>2. /\ \A i \in 1..m :
           /\ lists[s[i]].phase \in {"open", "dispatching"}
           /\ lists[s[i]].phase = "open" =>
                lists[s[i]].parent =
                  IF i > 1 /\ lists[s[i - 1]].phase = "open" THEN s[i - 1] ELSE 0
      /\ \A i, j \in 1..m : i < j =>
           /\ s[i] < s[j]
           /\ lists[s[i]].phase = "open" => lists[s[j]].phase = "open"
      /\ collector = IF m > 0 /\ lists[s[m]].phase = "open" THEN s[m] ELSE 0
  BY <1>1 DEF Nested
<1>3. /\ lists'[b] = list /\ \A c \in DOMAIN lists \ {b} : lists'[c] = lists[c]
      /\ \A c \in DOMAIN lists : lists'[c].parent = lists[c].parent
  BY ListReplaced
<1>4. stack'[t] = s
  OBVIOUS
<1>5. CASE list.phase = lists[b].phase /\ collector' = collector
  <2>1. \A c \in DOMAIN lists : lists'[c].phase = lists[c].phase
    BY <1>3, <1>5
  <2> HIDE DEF s, m
  <2>2. \A i \in 1..m :
          /\ lists'[s[i]].phase = lists[s[i]].phase
          /\ lists'[s[i]].parent = lists[s[i]].parent
          /\ i > 1 => i - 1 \in 1..m
    BY <1>1, <1>3, <2>1
  <2>3. \A i \in 1..m :
          /\ lists'[s[i]].phase \in {"open", "dispatching"}
          /\ lists'[s[i]].phase = "open" =>
               lists'[s[i]].parent =
                 IF i > 1 /\ lists'[s[i - 1]].phase = "open" THEN s[i - 1] ELSE 0
    BY <1>2, <2>2
  <2>4. \A i, j \in 1..m : i < j =>
          /\ s[i] < s[j]
          /\ lists'[s[i]].phase = "open" => lists'[s[j]].phase = "open"
    BY <1>2, <2>2
  <2>5. collector' = IF m > 0 /\ lists'[s[m]].phase = "open" THEN s[m] ELSE 0
    <3>1. m > 0 => m \in 1..m
      BY <1>1
    <3> QED BY <1>2, <1>5, <2>2, <3>1
  <2>6. m = Len(stack'[t])
    BY <1>4 DEF s, m
  <2> QED BY <1>1, <1>4, <2>3, <2>4, <2>5, <2>6 DEF Nested
<1>6. CASE /\ Is(t, "open") /\ b = Top(t) /\ list.phase = "dispatching"
           /\ lists[b].parent = 0 /\ collector' = 0
  <2>1. m >= 1 /\ Top(t) = s[m] /\ Blocks(t) \subseteq {s[m]}
    BY <1>6, PoppedShape, TopShape DEF Is
  <2>2. ASSUME NEW i \in 1..m
        PROVE lists'[s[i]].phase = "dispatching"
    <3>1. CASE s[i] = b
      BY <1>3, <1>6, <3>1
    <3>2. CASE s[i] # b
      <4>1. s[i] \notin Blocks(t) /\ s[i] \in Range(stack[t])
        BY <1>1, <1>6, <2>1, <3>2 DEF Range
      <4>2. lists[s[i]].phase # "open"
        BY <4>1 DEF Blocks
      <4>3. lists'[s[i]] = lists[s[i]]
        BY <1>1, <1>3, <3>2
      <4> QED BY <1>2, <4>2, <4>3
    <3> QED BY <3>1, <3>2
  <2> HIDE DEF s, m
  <2>3. m \in 1..m
    BY <1>1, <2>1
  <2>4. collector' = IF m > 0 /\ lists'[s[m]].phase = "open" THEN s[m] ELSE 0
    BY <1>6, <2>2, <2>3
  <2>5. m = Len(stack'[t])
    BY <1>4 DEF s, m
  <2>6. \A i, j \in 1..m : i < j => s[i] < s[j]
    BY <1>2
  <2> QED BY <1>1, <1>4, <2>2, <2>4, <2>5, <2>6 DEF Nested
<1> QED BY <1>5, <1>6

-----------------------------------------------------------------------------
(* What a step leaves as it was.                                           *)

\* Events that were emitted stay what they are.
Remembered == \A e \in DOMAIN emitted : e \in DOMAIN emitted' /\ emitted'[e] = emitted[e]

LEMMA SoundKept ==
  ASSUME TypeInv, Remembered, NEW b \in DOMAIN lists, lists'[b] = lists[b], Sound(b)
  PROVE  Sound(b)'
<1>1. \A e \in Range(lists[b].events) : emitted'[e] = emitted[e]
  BY Typed DEF Remembered
<1> QED BY <1>1 DEF Sound

LEMMA HeardKept ==
  ASSUME TypeInv, Remembered, Heard, delivered' = delivered,
         \A b \in DOMAIN lists :
           /\ b \in DOMAIN lists'
           /\ lists[b].phase \in {"dispatching", "dispatched"} =>
                lists'[b].phase \in {"dispatching", "dispatched"}
           /\ lists'[b].sent = lists[b].sent
           /\ \A k \in 1..lists[b].sent : lists'[b].events[k] = lists[b].events[k]
  PROVE  Heard'
<1>1. /\ \A e \in Range(delivered) : e \in DOMAIN emitted /\ emitted'[e] = emitted[e]
      /\ \A i \in DOMAIN delivered : delivered[i] \in Range(delivered)
  <2>1. delivered \in Seq(DOMAIN emitted)
    BY DEF TypeInv, TypeOK
  <2>2. Range(delivered) \subseteq DOMAIN emitted
    BY <2>1 DEF Range
  <2> QED BY <2>2 DEF Remembered, Range
<1>2. ASSUME NEW e \in Range(delivered), NEW b \in emitted'[e].within
      PROVE  b \in DOMAIN lists' /\ lists'[b].phase \in {"dispatching", "dispatched"}
  BY <1>1 DEF Heard
<1>3. ASSUME NEW e \in Range(delivered), emitted'[e].home # 0
      PROVE  /\ emitted'[e].home \in DOMAIN lists'
             /\ \E k \in 1..lists'[emitted'[e].home].sent : lists'[emitted'[e].home].events[k] = e
  <2>1. PICK h : h = emitted[e].home /\ h = emitted'[e].home /\ h # 0
    BY <1>1, <1>3
  <2>2. h \in DOMAIN lists /\ \E k \in 1..lists[h].sent : lists[h].events[k] = e
    BY <2>1 DEF Heard
  <2> QED BY <2>1, <2>2
<1>4. DeliveredInOrder'
  BY <1>1 DEF Heard, DeliveredInOrder
<1> QED BY <1>2, <1>3, <1>4 DEF Heard

\* Outside a dispatch loop, and in a handler, no event waits.
LEMMA NothingWaits ==
  ASSUME NEW t \in Threads, Waiting(t), Is(t, "dispatching") => lists[Top(t)].sent # 0
  PROVE  \A b, e : ~Waits(b, e)
<1> SUFFICES ASSUME NEW b, NEW e, Waits(b, e) PROVE FALSE
  OBVIOUS
<1>1. ~Idle(t) /\ b = Top(t) /\ lists[b].phase = "dispatching" /\ lists[b].sent = 0
  BY DEF Waiting, Waits
<1> QED BY <1>1 DEF Is

LEMMA WaitingKept ==
  ASSUME TypeInv, Remembered, NEW t \in Threads, \A c, e : ~Waits(c, e),
         NEW b, DOMAIN lists' \subseteq DOMAIN lists \cup {b},
         \A c \in DOMAIN lists \ {b} : lists'[c] = lists[c],
         \A e : ~Waits(b, e)'
  PROVE  Waiting(t)'
<1> SUFFICES ASSUME NEW c, NEW e, Waits(c, e)' PROVE FALSE
  BY DEF Waiting
<1>1. c # b
  OBVIOUS
<1>2. c \in DOMAIN lists /\ lists'[c] = lists[c]
  BY <1>1 DEF Waits
<1>3. e \in DOMAIN emitted
  BY <1>2, Typed DEF Waits
<1>4. Waits(c, e)
  BY <1>2, <1>3 DEF Waits, Remembered
<1> QED BY <1>4

-----------------------------------------------------------------------------
(* Every step of the thread keeps the invariant.                           *)

LEMMA EnterInv ==
  ASSUME TypeInv, NEW t \in Threads, Inv(t), Enter(t)
  PROVE  Inv(t)'
<1>0. PICK n : n = Len(lists) + 1
  OBVIOUS
<1> DEFINE list == NewList(collector, <<>>, "open")
<1>1. list \in List
  BY EnterTyped
<1>2. /\ list.phase = "open" /\ list.parent = collector /\ list.events = <<>>
      /\ list.sent = 0 /\ list.failed = FALSE
  BY DEF NewList
<1>3. /\ Pushed(t, list) /\ collector' = n /\ emitted' = emitted /\ delivered' = delivered
      /\ InCode(t)
  BY <1>0 DEF Enter
<1> HIDE DEF list
<1>4. Nested(t)'
  BY <1>0, <1>1, <1>2, <1>3, NestedPushed DEF Inv
<1>5. /\ DOMAIN lists' = DOMAIN lists \cup {n} /\ lists'[n] = list /\ n \notin DOMAIN lists
      /\ \A c \in DOMAIN lists : lists'[c] = lists[c]
  BY <1>0, <1>1, <1>3, PushedShape
<1>6. Remembered
  BY <1>3 DEF Remembered
<1>7. ASSUME NEW b \in DOMAIN lists' PROVE Sound(b)'
  <2>1. CASE b \in DOMAIN lists
    BY <1>5, <1>6, <2>1, SoundKept DEF Inv
  <2>2. CASE b = n
    <3>1. lists'[b] = list /\ DOMAIN list.events = {} /\ Range(list.events) = {}
      BY <1>2, <1>5, <2>2 DEF Range
    <3> QED BY <1>2, <3>1 DEF Sound
  <2> QED BY <1>5, <2>1, <2>2
<1>8. Heard'
  BY <1>3, <1>5, <1>6, HeardKept DEF Inv
<1>9. Waiting(t)'
  <2>1. \A c, e : ~Waits(c, e)
    <3>1. Is(t, "dispatching") => lists[Top(t)].sent # 0
      BY <1>3 DEF InCode
    <3> QED BY <3>1, NothingWaits DEF Inv
  <2>2. \A e : ~Waits(n, e)'
    BY <1>2, <1>5 DEF Waits
  <2> QED BY <1>5, <1>6, <2>1, <2>2, WaitingKept
<1> QED BY <1>4, <1>7, <1>8, <1>9 DEF Inv

LEMMA LeaveInv ==
  ASSUME TypeInv, NEW t \in Threads, Inv(t), NEW success \in BOOLEAN, Leave(t, success)
  PROVE  Inv(t)'
<1>0. PICK b : b = Top(t)
  OBVIOUS
<1>1. /\ ~Idle(t) /\ lists[b].phase = "open" /\ Is(t, "open")
      /\ b \in DOMAIN lists /\ b # 0 /\ lists[b] \in List /\ Sound(b)
  <2>1. Is(t, "open")
    BY DEF Leave
  <2> QED BY <1>0, <2>1, TopShape, Typed DEF Is, Inv
<1>2. /\ emitted' = emitted /\ delivered' = delivered /\ collector' = lists[b].parent
      /\ Remembered
  BY <1>0 DEF Leave, Restored, Remembered
<1>3. PICK phase \in {"dispatching", "dropped"} :
        /\ lists' = [lists EXCEPT ![b] =
                       [lists[b] EXCEPT !.phase = phase, !.failed = ~success]]
        /\ \/ phase = "dispatching" /\ success /\ lists[b].parent = 0 /\ stack' = stack
           \/ phase = "dropped" /\ Popped(t)
  BY <1>0 DEF Leave, Dispatches
<1> DEFINE list == [lists[b] EXCEPT !.phase = phase, !.failed = ~success]
<1>4. /\ list \in List /\ list.parent = lists[b].parent /\ list.events = lists[b].events
      /\ list.phase = phase /\ list.sent = lists[b].sent /\ list.failed = ~success
  BY <1>1 DEF List, Phases
<1>5. lists' = [lists EXCEPT ![b] = list]
  BY <1>3
<1> HIDE DEF list
<1>6. /\ DOMAIN lists' = DOMAIN lists /\ lists'[b] = list
      /\ \A c \in DOMAIN lists \ {b} : lists'[c] = lists[c]
  BY <1>1, <1>4, <1>5, ListReplaced
<1>7. Nested(t)'
  <2>1. CASE phase = "dispatching" /\ success /\ lists[b].parent = 0 /\ stack' = stack
    BY <1>0, <1>1, <1>2, <1>4, <1>5, <2>1, NestedStays DEF Inv
  <2>2. CASE phase = "dropped" /\ Popped(t)
    BY <1>0, <1>1, <1>2, <1>4, <1>5, <2>2, NestedPopped DEF Inv
  <2> QED BY <1>3, <2>1, <2>2
<1>8. \A e \in Range(lists[b].events) : emitted[e].home = b
  BY <1>1 DEF Sound
<1>9. ASSUME NEW c \in DOMAIN lists' PROVE Sound(c)'
  <2>1. CASE c # b
    BY <1>2, <1>6, <2>1, SoundKept DEF Inv
  <2>2. CASE c = b
    <3>1. lists'[b].phase \in {"dispatching", "dispatched"} => lists'[b].parent = 0
      BY <1>3, <1>4, <1>6
    <3>2. lists'[b].failed => lists'[b].phase = "dropped"
      BY <1>3, <1>4, <1>6
    <3> QED BY <1>1, <1>2, <1>4, <1>6, <1>8, <2>2, <3>1, <3>2 DEF Sound
  <2> QED BY <2>1, <2>2
<1>10. Heard'
  <2>1. \A c \in DOMAIN lists :
          /\ c \in DOMAIN lists'
          /\ lists[c].phase \in {"dispatching", "dispatched"} =>
               lists'[c].phase \in {"dispatching", "dispatched"}
          /\ lists'[c].sent = lists[c].sent
          /\ \A k \in 1..lists[c].sent : lists'[c].events[k] = lists[c].events[k]
    BY <1>1, <1>4, <1>6
  <2> QED BY <1>2, <2>1, HeardKept DEF Inv
<1>11. Waiting(t)'
  <2>1. \A c, e : ~Waits(c, e)
    BY <1>0, <1>1, NothingWaits DEF Inv, Is
  <2>2. \A e : ~Waits(b, e)'
    BY <1>1, <1>2, <1>4, <1>6, <1>8 DEF Waits
  <2> QED BY <1>2, <1>6, <2>1, <2>2, WaitingKept
<1> QED BY <1>7, <1>9, <1>10, <1>11 DEF Inv

LEMMA FinishInv ==
  ASSUME TypeInv, NEW t \in Threads, Inv(t), Finish(t)
  PROVE  Inv(t)'
<1>0. PICK b : b = Top(t)
  OBVIOUS
<1>1. /\ ~Idle(t) /\ lists[b].phase = "dispatching"
      /\ b \in DOMAIN lists /\ lists[b] \in List /\ Sound(b)
      /\ lists[b].sent = Len(lists[b].events)
      /\ DOMAIN lists[b].events = 1..Len(lists[b].events)
  <2>1. Is(t, "dispatching") /\ lists[b].sent = Len(lists[b].events)
    BY <1>0 DEF Finish
  <2> QED BY <1>0, <2>1, TopShape, Typed DEF Is, Inv
<1>2. /\ emitted' = emitted /\ delivered' = delivered /\ collector' = collector
      /\ Remembered /\ Popped(t)
  BY DEF Finish, Remembered
<1> DEFINE list == [lists[b] EXCEPT !.phase = "dispatched"]
<1>4. /\ list \in List /\ list.parent = lists[b].parent /\ list.events = lists[b].events
      /\ list.phase = "dispatched" /\ list.sent = lists[b].sent
      /\ list.failed = lists[b].failed
  BY <1>1 DEF List, Phases
<1>5. lists' = [lists EXCEPT ![b] = list]
  BY <1>0 DEF Finish
<1> HIDE DEF list
<1>6. /\ DOMAIN lists' = DOMAIN lists /\ lists'[b] = list
      /\ \A c \in DOMAIN lists \ {b} : lists'[c] = lists[c]
  BY <1>1, <1>4, <1>5, ListReplaced
<1>7. Nested(t)'
  BY <1>0, <1>1, <1>2, <1>4, <1>5, NestedPopped DEF Inv
<1>9. ASSUME NEW c \in DOMAIN lists' PROVE Sound(c)'
  <2>1. CASE c # b
    BY <1>2, <1>6, <2>1, SoundKept DEF Inv
  <2>2. CASE c = b
    BY <1>1, <1>2, <1>4, <1>6, <2>2 DEF Sound
  <2> QED BY <2>1, <2>2
<1>10. Heard'
  <2>1. \A c \in DOMAIN lists :
          /\ c \in DOMAIN lists'
          /\ lists[c].phase \in {"dispatching", "dispatched"} =>
               lists'[c].phase \in {"dispatching", "dispatched"}
          /\ lists'[c].sent = lists[c].sent
          /\ \A k \in 1..lists[c].sent : lists'[c].events[k] = lists[c].events[k]
    BY <1>1, <1>4, <1>6
  <2> QED BY <1>2, <2>1, HeardKept DEF Inv
<1>11. Waiting(t)'
  <2>1. ASSUME NEW c, NEW e, Waits(c, e) PROVE FALSE
    <3>1. c = b /\ lists[b].sent = 0 /\ e \in Range(lists[b].events)
      BY <1>0, <2>1 DEF Waits, Waiting, Inv
    <3>2. DOMAIN lists[b].events = {}
      BY <1>1, <3>1
    <3> QED BY <3>1, <3>2 DEF Range
  <2>2. \A e : ~Waits(b, e)'
    BY <1>4, <1>6 DEF Waits
  <2> QED BY <1>2, <1>6, <2>1, <2>2, WaitingKept
<1> QED BY <1>7, <1>9, <1>10, <1>11 DEF Inv

LEMMA DispatchInv ==
  ASSUME TypeInv, NEW t \in Threads, Inv(t), NEW raised \in BOOLEAN, Dispatch(t, raised)
  PROVE  Inv(t)'
<1>0. PICK b : b = Top(t)
  OBVIOUS
<1>1. /\ ~Idle(t) /\ lists[b].phase = "dispatching"
      /\ b \in DOMAIN lists /\ b # 0 /\ lists[b] \in List /\ Sound(b)
      /\ lists[b].sent \in Nat /\ Len(lists[b].events) \in Nat
      /\ lists[b].sent < Len(lists[b].events)
      /\ lists[b].events \in Seq(Nat)
      /\ DOMAIN lists[b].events = 1..Len(lists[b].events)
  <2>1. Is(t, "dispatching") /\ lists[b].sent < Len(lists[b].events)
    BY <1>0 DEF Dispatch
  <2> QED BY <1>0, <2>1, TopShape, Typed DEF Is, Inv
<1>2. PICK n : n = lists[b].sent + 1
  OBVIOUS
<1>3. PICK x : x = lists[b].events[n]
  OBVIOUS
<1>4. /\ n \in DOMAIN lists[b].events /\ n \in Nat /\ n # 0
      /\ x \in Range(lists[b].events) /\ x \in DOMAIN emitted /\ x \in Nat
  <2>1. n \in 1..Len(lists[b].events) /\ n \in Nat /\ n # 0
    BY <1>1, <1>2
  <2>2. x \in Range(lists[b].events)
    BY <1>1, <1>3, <2>1 DEF Range
  <2>3. x \in DOMAIN emitted /\ x \in Nat
    <3>1. x \in DOMAIN emitted
      BY <1>1, <2>2, Typed
    <3> QED BY <3>1, Typed
  <2> QED BY <1>1, <2>1, <2>2, <2>3
<1>5. /\ emitted' = emitted /\ collector' = collector /\ stack' = stack
      /\ delivered' = Append(delivered, x) /\ Remembered
  BY <1>0, <1>2, <1>3 DEF Dispatch, Remembered
<1> DEFINE list == [lists[b] EXCEPT !.sent = n]
<1>6. /\ list \in List /\ list.parent = lists[b].parent /\ list.events = lists[b].events
      /\ list.phase = lists[b].phase /\ list.sent = n /\ list.failed = lists[b].failed
  BY <1>1, <1>4 DEF List
<1>7. lists' = [lists EXCEPT ![b] = list]
  BY <1>0, <1>2 DEF Dispatch, Advanced
<1> HIDE DEF list
<1>8. /\ DOMAIN lists' = DOMAIN lists /\ lists'[b] = list
      /\ \A c \in DOMAIN lists \ {b} : lists'[c] = lists[c]
  BY <1>1, <1>6, <1>7, ListReplaced
<1>9. Nested(t)'
  BY <1>1, <1>5, <1>6, <1>7, NestedStays DEF Inv
<1>10. ASSUME NEW c \in DOMAIN lists' PROVE Sound(c)'
  <2>1. CASE c # b
    BY <1>5, <1>8, <2>1, SoundKept DEF Inv
  <2>2. CASE c = b
    BY <1>1, <1>5, <1>6, <1>8, <2>2 DEF Sound
  <2> QED BY <2>1, <2>2
<1>11. /\ Range(delivered') = Range(delivered) \cup {x}
       /\ Len(delivered) \in Nat /\ DOMAIN delivered = 1..Len(delivered)
       /\ DOMAIN delivered' = 1..(Len(delivered) + 1)
       /\ delivered'[Len(delivered) + 1] = x
       /\ \A i \in 1..Len(delivered) : delivered'[i] = delivered[i]
       /\ \A i \in 1..Len(delivered) : delivered[i] \in Range(delivered)
  <2>1. delivered \in Seq(DOMAIN emitted)
    BY DEF TypeInv, TypeOK
  <2>2. DOMAIN delivered = 1..Len(delivered)
    BY <2>1
  <2>3. \A i \in 1..Len(delivered) : delivered[i] \in Range(delivered)
    BY <2>2 DEF Range
  <2> QED BY <1>4, <1>5, <2>1, <2>3, Appends
\* What was delivered of where x comes from was emitted before x.
<1>12. ASSUME NEW d \in Range(delivered), emitted[d].home = emitted[x].home PROVE d < x
  <2>1. CASE emitted[x].home = b
    <3>1. PICK k \in 1..lists[b].sent : lists[b].events[k] = d
      BY <1>1, <1>12, <2>1 DEF Inv, Heard
    <3>2. k \in DOMAIN lists[b].events /\ k < n
      BY <1>1, <1>2, <3>1
    <3> QED BY <1>1, <1>3, <1>4, <3>1, <3>2 DEF Sound
  <2>2. CASE emitted[x].home # b
    <3>1. emitted[x].home = 0 /\ Len(lists[b].events) = 1
      BY <1>1, <1>4, <2>2 DEF Sound
    <3>2. lists[b].sent = 0
      BY <1>1, <3>1
    <3>3. Waits(b, x)
      BY <1>1, <1>4, <3>1, <3>2 DEF Waits
    <3> QED BY <1>12, <3>1, <3>3 DEF Inv, Waiting
  <2> QED BY <2>1, <2>2
<1>13. Heard'
  <2>1. ASSUME NEW e \in Range(delivered'), NEW c \in emitted'[e].within
        PROVE  c \in DOMAIN lists' /\ lists'[c].phase \in {"dispatching", "dispatched"}
    <3>1. CASE e \in Range(delivered)
      BY <1>5, <1>6, <1>8, <3>1 DEF Inv, Heard
    <3>2. CASE e = x
      <4>1. c = b
        BY <1>1, <1>4, <1>5, <3>2 DEF Sound
      <4> QED BY <1>1, <1>6, <1>8, <4>1
    <3> QED BY <1>11, <3>1, <3>2
  <2>2. ASSUME NEW e \in Range(delivered'), NEW h, h = emitted'[e].home, h # 0
        PROVE  h \in DOMAIN lists' /\ \E k \in 1..lists'[h].sent : lists'[h].events[k] = e
    <3>1. CASE e \in Range(delivered)
      <4>1. h \in DOMAIN lists /\ \E k \in 1..lists[h].sent : lists[h].events[k] = e
        BY <1>5, <2>2, <3>1 DEF Inv, Heard
      <4>2. 1..lists[b].sent \subseteq 1..n
        BY <1>1, <1>2
      <4> QED BY <1>6, <1>8, <4>1, <4>2
    <3>2. CASE e = x
      <4>1. h = b
        BY <1>1, <1>4, <1>5, <2>2, <3>2 DEF Sound
      <4>2. n \in 1..n
        BY <1>4
      <4> QED BY <1>1, <1>3, <1>6, <1>8, <3>2, <4>1, <4>2
    <3> QED BY <1>11, <3>1, <3>2
  <2>3. ASSUME NEW i \in DOMAIN delivered', NEW j \in DOMAIN delivered', i < j,
               emitted'[delivered'[i]].home = emitted'[delivered'[j]].home
        PROVE  delivered'[i] < delivered'[j]
    <3>1. i \in 1..Len(delivered)
      BY <1>11, <2>3
    <3>2. CASE j \in 1..Len(delivered)
      BY <1>5, <1>11, <2>3, <3>1, <3>2 DEF Inv, Heard, DeliveredInOrder
    <3>3. CASE j = Len(delivered) + 1
      BY <1>5, <1>11, <1>12, <2>3, <3>1, <3>3
    <3> QED BY <1>11, <3>2, <3>3
  <2>4. DeliveredInOrder'
    BY <2>3 DEF DeliveredInOrder
  <2> QED BY <2>1, <2>2, <2>4 DEF Heard
<1>14. Waiting(t)'
  <2> SUFFICES ASSUME NEW c, NEW e, Waits(c, e)' PROVE FALSE
    BY DEF Waiting
  <2>1. c # b
    BY <1>4, <1>6, <1>8 DEF Waits
  <2>2. Waits(c, e)
    BY <1>5, <1>8, <2>1 DEF Waits
  <2> QED BY <1>0, <2>1, <2>2 DEF Inv, Waiting
<1> QED BY <1>9, <1>10, <1>13, <1>14 DEF Inv

LEMMA EmitInv ==
  ASSUME TypeInv, NEW t \in Threads, Inv(t), Emit(t)
  PROVE  Inv(t)'
<1>0. PICK x : x = Len(emitted) + 1
  OBVIOUS
<1> DEFINE event == [within |-> Blocks(t), home |-> IF Is(t, "open") THEN Top(t) ELSE 0]
<1>1. event \in Event /\ emitted' = Append(emitted, event) /\ delivered' = delivered
      /\ collector' = collector /\ InCode(t)
  BY EmitTyped DEF Emit
<1>2. event.within = Blocks(t) /\ event.home = IF Is(t, "open") THEN Top(t) ELSE 0
  OBVIOUS
<1> HIDE DEF event
<1>3. /\ x \in Nat /\ emitted'[x] = event /\ Remembered
      /\ \A e \in DOMAIN emitted : e \in Nat /\ e < x /\ emitted'[e] = emitted[e]
  BY <1>0, <1>1, EventAdded DEF Remembered
<1>4. \A c, e : ~Waits(c, e)
  BY <1>1, NothingWaits DEF Inv, InCode
<1>5. /\ collector = IF Is(t, "open") THEN Top(t) ELSE 0
      /\ ~Is(t, "open") => Blocks(t) = {}
      /\ Is(t, "open") /\ lists[Top(t)].parent = 0 => Blocks(t) \subseteq {Top(t)}
      /\ Is(t, "open") => Top(t) # 0 /\ Top(t) \in DOMAIN lists /\ lists[Top(t)].phase = "open"
  BY TopShape DEF Inv, Is
<1>6. CASE collector # 0 /\ stack' = stack
           /\ lists' = [lists EXCEPT ![collector].events = Appended(@, x)]
  <2>0. PICK b : b = collector
    OBVIOUS
  <2>1. /\ Is(t, "open") /\ b = Top(t) /\ b # 0 /\ b \in DOMAIN lists
        /\ lists[b].phase = "open" /\ lists[b] \in List /\ Sound(b)
        /\ lists[b].events \in Seq(Nat) /\ Range(lists[b].events) \subseteq DOMAIN emitted
        /\ lists[b].sent \in Nat /\ lists[b].sent <= Len(lists[b].events)
    BY <1>5, <1>6, <2>0, Typed DEF Inv
  <2> DEFINE events == lists[b].events
             grown == Append(lists[b].events, x)
             list == [lists[b] EXCEPT !.events = grown]
  <2>2. /\ grown \in Seq(Nat) /\ Len(events) \in Nat /\ Len(grown) = Len(events) + 1
        /\ DOMAIN events = 1..Len(events) /\ DOMAIN grown = 1..(Len(events) + 1)
        /\ grown[Len(events) + 1] = x /\ \A i \in 1..Len(events) : grown[i] = events[i]
        /\ Range(grown) = Range(events) \cup {x}
    BY <1>3, <2>1, Appends
  <2>3. lists' = [lists EXCEPT ![b] = list]
    BY <1>6, <2>0 DEF Appended
  <2> HIDE DEF grown
  <2>4. /\ list \in List /\ list.parent = lists[b].parent /\ list.events = grown
        /\ list.phase = "open" /\ list.sent = lists[b].sent /\ list.failed = lists[b].failed
    BY <2>1, <2>2, GrownList
  <2> HIDE DEF list
  <2>5. /\ DOMAIN lists' = DOMAIN lists /\ lists'[b] = list
        /\ \A c \in DOMAIN lists \ {b} : lists'[c] = lists[c]
    BY <2>1, <2>3, <2>4, ListReplaced
  <2>6. Nested(t)'
    BY <1>1, <1>6, <2>1, <2>3, <2>4, NestedStays DEF Inv
  <2>7. event.home = b /\ (lists[b].parent = 0 => event.within \subseteq {b})
    BY <1>2, <1>5, <2>1
  <2>8. \A i \in DOMAIN events : events[i] \in DOMAIN emitted
    BY <2>1 DEF Range
  <2>9. ASSUME NEW c \in DOMAIN lists' PROVE Sound(c)'
    <3>1. CASE c # b
      BY <1>3, <2>5, <3>1, SoundKept DEF Inv
    <3>2. CASE c = b
      <4>1. lists'[b].failed => lists'[b].phase = "dropped"
        BY <2>1, <2>4, <2>5 DEF Sound
      <4>2. lists'[b].phase = "open" /\ lists'[b].events = grown
            /\ lists'[b].parent = lists[b].parent
        BY <2>4, <2>5
      <4>3. ASSUME NEW e \in Range(grown)
            PROVE  /\ emitted'[e].home = b
                   /\ lists[b].parent = 0 => emitted'[e].within \subseteq {b}
        <5>1. CASE e \in Range(events)
          BY <1>3, <2>1, <5>1 DEF Sound
        <5>2. CASE e = x
          BY <1>3, <2>7, <5>2
        <5> QED BY <2>2, <5>1, <5>2
      <4>4. ASSUME NEW i \in DOMAIN grown, NEW j \in DOMAIN grown, i < j
            PROVE  grown[i] < grown[j]
        <5>1. i \in 1..Len(events)
          BY <2>2, <4>4
        <5>2. CASE j \in 1..Len(events)
          <6>1. events[i] < events[j]
            BY <2>1, <2>2, <4>4, <5>1, <5>2 DEF Sound
          <6> QED BY <2>2, <5>1, <5>2, <6>1
        <5>3. CASE j = Len(events) + 1
          <6>1. events[i] < x /\ grown[i] = events[i] /\ grown[j] = x
            <7> HIDE DEF events
            <7> QED BY <1>3, <2>2, <2>8, <5>1, <5>3
          <6> QED BY <6>1
        <5>4. j \in 1..Len(events) \/ j = Len(events) + 1
          <6> HIDE DEF events
          <6> QED BY <2>2
        <5> QED BY <5>2, <5>3, <5>4
      <4> QED BY <3>2, <4>1, <4>2, <4>3, <4>4 DEF Sound
    <3> QED BY <3>1, <3>2
  <2>10. Heard'
    <3>1. \A c \in DOMAIN lists :
            /\ c \in DOMAIN lists'
            /\ lists[c].phase \in {"dispatching", "dispatched"} =>
                 lists'[c].phase \in {"dispatching", "dispatched"}
            /\ lists'[c].sent = lists[c].sent
            /\ \A k \in 1..lists[c].sent : lists'[c].events[k] = lists[c].events[k]
      <4>1. \A k \in 1..lists[b].sent : k \in 1..Len(events)
        BY <2>1, <2>2
      <4> QED BY <2>1, <2>2, <2>4, <2>5, <4>1
    <3> QED BY <1>1, <1>3, <3>1, HeardKept DEF Inv
  <2>11. Waiting(t)'
    <3>1. \A e : ~Waits(b, e)'
      BY <2>4, <2>5 DEF Waits
    <3> QED BY <1>3, <1>4, <2>5, <3>1, WaitingKept
  <2> QED BY <2>6, <2>9, <2>10, <2>11 DEF Inv
<1>7. CASE collector = 0 /\ Pushed(t, NewList(0, <<x>>, "dispatching"))
  <2>0. PICK n : n = Len(lists) + 1
    OBVIOUS
  <2> DEFINE list == NewList(0, <<x>>, "dispatching")
  <2>1. /\ list \in List /\ list.parent = 0 /\ list.events = <<x>>
        /\ list.phase = "dispatching" /\ list.sent = 0 /\ list.failed = FALSE
    <3>1. <<x>> \in Seq(Nat)
      BY <1>3
    <3> QED BY <3>1 DEF NewList, List, Phases
  <2>2. Pushed(t, list) /\ collector = 0 /\ collector' = 0
    BY <1>1, <1>7
  <2> HIDE DEF list
  <2>3. Nested(t)'
    BY <2>1, <2>2, NestedPushed DEF Inv
  <2>4. /\ DOMAIN lists' = DOMAIN lists \cup {n} /\ lists'[n] = list /\ n \notin DOMAIN lists
        /\ \A c \in DOMAIN lists : lists'[c] = lists[c]
        /\ Len(stack[t]) \in Nat
        /\ Len(stack'[t]) = Len(stack[t]) + 1 /\ stack'[t][Len(stack[t]) + 1] = n
    BY <2>0, <2>1, <2>2, PushedShape
  <2>5. ~Is(t, "open") /\ event.within = {} /\ event.home = 0
    BY <1>2, <1>5, <2>2
  <2>6. Range(<<x>>) = {x} /\ DOMAIN <<x>> = {1} /\ Len(<<x>>) = 1
    BY DEF Range
  <2>7. ASSUME NEW c \in DOMAIN lists' PROVE Sound(c)'
    <3>1. CASE c \in DOMAIN lists
      BY <1>3, <2>4, <3>1, SoundKept DEF Inv
    <3>2. CASE c = n
      <4>1. /\ \A e \in Range(list.events) : e = x
            /\ \A i, j \in DOMAIN list.events : ~(i < j)
            /\ Len(list.events) = 1
        BY <2>1, <2>6
      <4> QED BY <1>3, <2>1, <2>4, <2>5, <3>2, <4>1 DEF Sound
    <3> QED BY <2>4, <3>1, <3>2
  <2>8. Heard'
    BY <1>1, <1>3, <2>4, HeardKept DEF Inv
  <2>9. Waiting(t)'
    <3> SUFFICES ASSUME NEW c, NEW e, Waits(c, e)'
                 PROVE  /\ ~Idle(t)' /\ c = Top(t)'
                        /\ \A d \in Range(delivered') : d < e
      BY DEF Waiting
    <3>1. c = n
      <4>1. ASSUME c \in DOMAIN lists PROVE FALSE
        <5>1. lists'[c] = lists[c] /\ e \in DOMAIN emitted
          BY <2>4, <4>1, Typed DEF Waits
        <5>2. Waits(c, e)
          BY <1>3, <4>1, <5>1 DEF Waits
        <5> QED BY <1>4, <5>2
      <4> QED BY <2>4, <4>1 DEF Waits
    <3>2. e = x
      BY <2>1, <2>4, <2>6, <3>1 DEF Waits
    <3>3. stack'[t] # <<>> /\ Last(stack'[t]) = n
      BY <2>4 DEF Last
    <3>4. \A d \in Range(delivered') : d \in DOMAIN emitted
      <4>1. delivered \in Seq(DOMAIN emitted)
        BY DEF TypeInv, TypeOK
      <4> QED BY <1>1, <4>1 DEF Range
    <3> QED BY <1>3, <3>1, <3>2, <3>3, <3>4 DEF Idle, Top
  <2> QED BY <2>3, <2>7, <2>8, <2>9 DEF Inv
<1> QED BY <1>0, <1>6, <1>7 DEF Emit

LEMMA InitInv ==
  ASSUME NEW t \in Threads, Init
  PROVE  Inv(t)
<1>1. /\ DOMAIN lists = {} /\ DOMAIN delivered = {} /\ Range(delivered) = {}
      /\ stack[t] = <<>> /\ DOMAIN stack[t] = {} /\ Len(stack[t]) = 0 /\ collector = 0
  BY DEF Init, Range
<1> QED BY <1>1 DEF Inv, Nested, Heard, Waiting, Waits, DeliveredInOrder

LEMMA NextInv ==
  ASSUME TypeInv, NEW t, Threads = {t}, Inv(t), [Next]_vars
  PROVE  Inv(t)'
<1>1. ASSUME Step(t) PROVE Inv(t)'
  BY <1>1, EnterInv, LeaveInv, EmitInv, DispatchInv, FinishInv DEF Step
<1>2. CASE UNCHANGED vars
  <2>1. /\ collector' = collector /\ lists' = lists /\ stack' = stack
        /\ emitted' = emitted /\ delivered' = delivered
    BY <1>2 DEF vars
  <2> QED BY <2>1 DEF Inv, Nested, Sound, Heard, Waiting, Waits, DeliveredInOrder, Idle, Top
<1> QED BY <1>1, <1>2 DEF Next

-----------------------------------------------------------------------------
(* What an outermost block hands out.                                      *)

\* Nothing was handed out of a block that is still open.
Unsent == \A b \in DOMAIN lists : lists[b].phase = "open" => lists[b].sent = 0

(* No event of an outermost block that succeeded, or emitted outside every *)
(* block, is passed over: whatever the handlers raise, capture or emit, it *)
(* was delivered, or a dispatch loop that has yet to come to it is under   *)
(* way on some thread.                                                     *)
NeverSkipped ==
  \A b \in DOMAIN lists : Outermost(b) =>
    \A i \in DOMAIN lists[b].events :
      \/ lists[b].events[i] \in Range(delivered)
      \/ /\ lists[b].phase = "dispatching" /\ lists[b].sent < i
         /\ \E t \in Threads : b \in Range(stack[t])

Handed == NeverSkipped /\ Unsent

\* A list that a step leaves as it was has still nothing passed over, unless
\* the step took it off the stack.
LEMMA HandedKept ==
  ASSUME Handed, Range(delivered) \subseteq Range(delivered'),
         NEW b \in DOMAIN lists, lists'[b] = lists[b],
         \A t \in Threads : b \in Range(stack[t]) => b \in Range(stack'[t])
  PROVE  /\ lists'[b].phase = "open" => lists'[b].sent = 0
         /\ Outermost(b)' =>
              \A i \in DOMAIN lists'[b].events :
                \/ lists'[b].events[i] \in Range(delivered')
                \/ /\ lists'[b].phase = "dispatching" /\ lists'[b].sent < i
                   /\ \E t \in Threads : b \in Range(stack'[t])
BY DEF Handed, NeverSkipped, Unsent, Outermost

\* What is on the stack of the thread stays there, the top apart when the
\* step takes it off.
LEMMA StackKept ==
  ASSUME TypeInv, NEW t \in Threads, NEW b,
         \/ stack' = stack
         \/ \E list \in List : Pushed(t, list)
         \/ ~Idle(t) /\ Popped(t) /\ b # Top(t)
  PROVE  \A u \in Threads : b \in Range(stack[u]) => b \in Range(stack'[u])
<1> SUFFICES ASSUME NEW u \in Threads, b \in Range(stack[u]) PROVE b \in Range(stack'[u])
  OBVIOUS
<1>1. stack \in [Threads -> Seq(DOMAIN lists)]
  BY DEF TypeInv, TypeOK
<1>2. CASE u # t \/ stack' = stack
  <2>1. stack'[u] = stack[u]
    BY <1>1, <1>2 DEF Pushed, Popped
  <2> QED BY <2>1
<1>3. CASE u = t /\ \E list \in List : Pushed(t, list)
  <2>1. PICK i \in DOMAIN stack[t] : b = stack[t][i]
    BY <1>3 DEF Range
  <2>2. PICK list \in List : Pushed(t, list)
    BY <1>3
  <2>3. i \in DOMAIN stack'[t] /\ stack'[t][i] = stack[t][i]
    <3>1. /\ Len(stack[t]) \in Nat /\ DOMAIN stack[t] = 1..Len(stack[t])
          /\ DOMAIN stack'[t] = 1..(Len(stack[t]) + 1)
          /\ \A k \in 1..Len(stack[t]) : stack'[t][k] = stack[t][k]
      BY <2>2, PushedShape
    <3> QED BY <2>1, <3>1
  <2> QED BY <1>3, <2>1, <2>3 DEF Range
<1>4. CASE u = t /\ ~Idle(t) /\ Popped(t) /\ b # Top(t)
  <2>1. PICK i \in DOMAIN stack[t] : b = stack[t][i]
    BY <1>4 DEF Range
  <2>2. i \in DOMAIN stack'[t] /\ stack'[t][i] = stack[t][i]
    <3>1. /\ Len(stack[t]) \in Nat /\ DOMAIN stack[t] = 1..Len(stack[t])
          /\ Top(t) = stack[t][Len(stack[t])]
          /\ DOMAIN stack'[t] = 1..(Len(stack[t]) - 1)
          /\ \A k \in 1..(Len(stack[t]) - 1) : stack'[t][k] = stack[t][k]
      BY <1>4, PoppedShape
    <3>2. i # Len(stack[t])
      BY <1>4, <2>1, <3>1
    <3>3. i \in 1..(Len(stack[t]) - 1)
      BY <2>1, <3>1, <3>2
    <3> QED BY <3>1, <3>3
  <2> QED BY <1>4, <2>1, <2>2 DEF Range
<1> QED BY <1>2, <1>3, <1>4

\* The list a step changed keeps the invariant, and the others with it.
LEMMA HandedBut ==
  ASSUME TypeInv, Handed, NEW t \in Threads, NEW b,
         Range(delivered) \subseteq Range(delivered'),
         DOMAIN lists' \subseteq DOMAIN lists \cup {b},
         \A c \in DOMAIN lists \ {b} : lists'[c] = lists[c],
         \/ stack' = stack
         \/ \E list \in List : Pushed(t, list)
         \/ ~Idle(t) /\ Popped(t) /\ b = Top(t),
         b \in DOMAIN lists' =>
           /\ lists'[b].phase = "open" => lists'[b].sent = 0
           /\ Outermost(b)' =>
                \A i \in DOMAIN lists'[b].events :
                  \/ lists'[b].events[i] \in Range(delivered')
                  \/ /\ lists'[b].phase = "dispatching" /\ lists'[b].sent < i
                     /\ b \in Range(stack'[t])
  PROVE  Handed'
<1>1. ASSUME NEW c \in DOMAIN lists'
      PROVE  /\ lists'[c].phase = "open" => lists'[c].sent = 0
             /\ Outermost(c)' =>
                  \A i \in DOMAIN lists'[c].events :
                    \/ lists'[c].events[i] \in Range(delivered')
                    \/ /\ lists'[c].phase = "dispatching" /\ lists'[c].sent < i
                       /\ \E u \in Threads : c \in Range(stack'[u])
  <2>1. CASE c = b
    BY <1>1, <2>1
  <2>2. CASE c # b
    <3>1. c \in DOMAIN lists /\ lists'[c] = lists[c]
      BY <1>1, <2>2
    <3>2. \A u \in Threads : c \in Range(stack[u]) => c \in Range(stack'[u])
      <4>1. CASE stack' = stack
        BY <4>1
      <4>2. CASE \E list \in List : Pushed(t, list)
        BY <4>2, StackKept
      <4>3. CASE ~Idle(t) /\ Popped(t) /\ b = Top(t)
        BY <2>2, <4>3, StackKept
      <4> QED BY <4>1, <4>2, <4>3
    <3> QED BY <3>1, <3>2, HandedKept
  <2> QED BY <2>1, <2>2
<1> QED BY <1>1 DEF Handed, NeverSkipped, Unsent

LEMMA InitHanded == Init => Handed
<1>1. Init => DOMAIN lists = {}
  BY DEF Init
<1> QED BY <1>1 DEF Handed, NeverSkipped, Unsent

LEMMA EnterHanded ==
  ASSUME TypeInv, NEW t \in Threads, Handed, Enter(t)
  PROVE  Handed'
<1>0. PICK n : n = Len(lists) + 1
  OBVIOUS
<1> DEFINE list == NewList(collector, <<>>, "open")
<1>1. list \in List /\ list.phase = "open" /\ list.sent = 0
  BY EnterTyped DEF NewList
<1>2. Pushed(t, list) /\ delivered' = delivered
  BY DEF Enter
<1> HIDE DEF list
<1>3. /\ DOMAIN lists' = DOMAIN lists \cup {n} /\ lists'[n] = list
      /\ \A c \in DOMAIN lists : lists'[c] = lists[c]
  BY <1>0, <1>1, <1>2, PushedShape
<1>4. ~Outermost(n)'
  BY <1>1, <1>3 DEF Outermost
<1> QED BY <1>1, <1>2, <1>3, <1>4, HandedBut

LEMMA LeaveHanded ==
  ASSUME TypeInv, NEW t \in Threads, Handed, NEW success \in BOOLEAN, Leave(t, success)
  PROVE  Handed'
<1>0. PICK b : b = Top(t)
  OBVIOUS
<1>1. /\ ~Idle(t) /\ lists[b].phase = "open" /\ b \in DOMAIN lists /\ lists[b] \in List
      /\ b \in Range(stack[t])
  <2>1. ~Idle(t) /\ lists[b].phase = "open"
    BY <1>0 DEF Leave, Is
  <2>2. /\ b \in DOMAIN lists /\ Len(stack[t]) \in Nat /\ Len(stack[t]) >= 1
        /\ b = stack[t][Len(stack[t])] /\ stack[t] \in Seq(DOMAIN lists)
    BY <1>0, <2>1, TopTyped
  <2>3. Len(stack[t]) \in DOMAIN stack[t]
    BY <2>2
  <2> QED BY <2>1, <2>2, <2>3, Typed DEF Range
<1>2. PICK phase \in {"dispatching", "dropped"} :
        /\ lists' = [lists EXCEPT ![b] =
                       [lists[b] EXCEPT !.phase = phase, !.failed = ~success]]
        /\ \/ phase = "dispatching" /\ stack' = stack
           \/ phase = "dropped" /\ Popped(t)
  BY <1>0 DEF Leave
<1> DEFINE list == [lists[b] EXCEPT !.phase = phase, !.failed = ~success]
<1>3. /\ list \in List /\ list.events = lists[b].events
      /\ list.phase = phase /\ list.sent = lists[b].sent
  BY <1>1 DEF List, Phases
<1>4. lists' = [lists EXCEPT ![b] = list]
  BY <1>2
<1> HIDE DEF list
<1>5. /\ DOMAIN lists' = DOMAIN lists /\ lists'[b] = list
      /\ \A c \in DOMAIN lists \ {b} : lists'[c] = lists[c]
  BY <1>1, <1>3, <1>4, ListReplaced
<1>6. lists[b].sent = 0 /\ \A i \in DOMAIN lists[b].events : 0 < i
  <2>1. lists[b].sent = 0
    BY <1>1 DEF Handed, Unsent
  <2>2. DOMAIN lists[b].events = 1..Len(lists[b].events)
    BY <1>1, Typed
  <2> QED BY <2>1, <2>2
<1>7. CASE phase = "dispatching" /\ stack' = stack
  BY <1>1, <1>3, <1>5, <1>6, <1>7, HandedBut DEF Leave
<1>8. CASE phase = "dropped" /\ Popped(t)
  <2>1. ~Outermost(b)' /\ lists'[b].phase # "open"
    BY <1>3, <1>5, <1>8 DEF Outermost
  <2> QED BY <1>0, <1>1, <1>5, <1>8, <2>1, HandedBut DEF Leave
<1> QED BY <1>2, <1>7, <1>8

\* The collector is the block the thread is in, so no event is added to a
\* list that is being handed out.
LEMMA EmitHanded ==
  ASSUME TypeInv, NEW t \in Threads, Nested(t), Handed, Emit(t)
  PROVE  Handed'
<1>0. PICK x : x = Len(emitted) + 1
  OBVIOUS
<1>1. x \in Nat /\ delivered' = delivered
  BY <1>0, Typed DEF Emit
<1>2. CASE collector # 0 /\ stack' = stack
           /\ lists' = [lists EXCEPT ![collector].events = Appended(@, x)]
  <2>0. PICK b : b = collector
    OBVIOUS
  <2>1. b \in DOMAIN lists /\ lists[b].phase = "open" /\ lists[b] \in List
    <3>1. Is(t, "open") /\ b = Top(t)
      BY <1>2, <2>0, TopShape
    <3> QED BY <3>1, TopShape, Typed DEF Is
  <2> DEFINE grown == Append(lists[b].events, x)
             list == [lists[b] EXCEPT !.events = grown]
  <2>2. grown \in Seq(Nat)
    BY <1>1, <2>1, Typed, Appends
  <2>3. lists' = [lists EXCEPT ![b] = list]
    BY <1>2, <2>0 DEF Appended
  <2> HIDE DEF grown
  <2>4. list \in List /\ list.phase = "open" /\ list.sent = lists[b].sent
    BY <2>1, <2>2, GrownList
  <2> HIDE DEF list
  <2>5. /\ DOMAIN lists' = DOMAIN lists /\ lists'[b] = list
        /\ \A c \in DOMAIN lists \ {b} : lists'[c] = lists[c]
    BY <2>1, <2>3, <2>4, ListReplaced
  <2>6. ~Outermost(b)' /\ lists'[b].sent = 0
    BY <2>1, <2>4, <2>5 DEF Outermost, Handed, Unsent
  <2> QED BY <1>1, <1>2, <2>5, <2>6, HandedBut
<1>3. CASE collector = 0 /\ Pushed(t, NewList(0, <<x>>, "dispatching"))
  <2>0. PICK n : n = Len(lists) + 1
    OBVIOUS
  <2> DEFINE list == NewList(0, <<x>>, "dispatching")
  <2>1. /\ list \in List /\ list.events = <<x>>
        /\ list.phase = "dispatching" /\ list.sent = 0
    <3>1. <<x>> \in Seq(Nat)
      BY <1>1
    <3> QED BY <3>1 DEF NewList, List, Phases
  <2>2. Pushed(t, list)
    BY <1>3
  <2> HIDE DEF list
  <2>3. /\ DOMAIN lists' = DOMAIN lists \cup {n} /\ lists'[n] = list
        /\ \A c \in DOMAIN lists : lists'[c] = lists[c]
        /\ Len(stack[t]) \in Nat /\ DOMAIN stack'[t] = 1..(Len(stack[t]) + 1)
        /\ stack'[t][Len(stack[t]) + 1] = n
    BY <2>0, <2>1, <2>2, PushedShape
  <2>4. n \in Range(stack'[t])
    <3>1. Len(stack[t]) + 1 \in DOMAIN stack'[t]
      BY <2>3
    <3> QED BY <2>3, <3>1 DEF Range
  <2>5. \A i \in DOMAIN lists'[n].events : 0 < i
    <3>1. DOMAIN <<x>> = {1}
      OBVIOUS
    <3> QED BY <2>1, <2>3, <3>1
  <2>6. \E l \in List : Pushed(t, l)
    BY <2>1, <2>2
  <2> QED BY <1>1, <2>1, <2>3, <2>4, <2>5, <2>6, HandedBut
<1> QED BY <1>0, <1>2, <1>3 DEF Emit

LEMMA DispatchHanded ==
  ASSUME TypeInv, NEW t \in Threads, Handed, NEW raised \in BOOLEAN, Dispatch(t, raised)
  PROVE  Handed'
<1>0. PICK b : b = Top(t)
  OBVIOUS
<1>1. /\ ~Idle(t) /\ lists[b].phase = "dispatching" /\ lists[b].sent < Len(lists[b].events)
  BY <1>0 DEF Dispatch, Is
<1>2. /\ b \in DOMAIN lists /\ Len(stack[t]) \in Nat /\ Len(stack[t]) >= 1
      /\ b = stack[t][Len(stack[t])] /\ stack[t] \in Seq(DOMAIN lists)
  BY <1>0, <1>1, TopTyped
<1>3. /\ lists[b] \in List /\ lists[b].sent \in Nat /\ Len(lists[b].events) \in Nat
      /\ lists[b].events \in Seq(Nat)
      /\ DOMAIN lists[b].events = 1..Len(lists[b].events)
      /\ Range(lists[b].events) \subseteq DOMAIN emitted
  BY <1>2, Typed
<1>4. PICK n : n = lists[b].sent + 1
  OBVIOUS
<1>5. n \in Nat /\ n \in DOMAIN lists[b].events /\ lists[b].events[n] \in DOMAIN emitted
  <2>1. n \in Nat /\ n \in DOMAIN lists[b].events
    BY <1>1, <1>3, <1>4
  <2> QED BY <1>3, <2>1 DEF Range
<1>6. Range(delivered') = Range(delivered) \cup {lists[b].events[n]} /\ stack' = stack
  <2>1. delivered \in Seq(DOMAIN emitted)
    BY DEF TypeInv, TypeOK
  <2>2. delivered' = Append(delivered, lists[b].events[n]) /\ stack' = stack
    BY <1>0, <1>4 DEF Dispatch
  <2> QED BY <1>5, <2>1, <2>2, Appends
<1> DEFINE list == [lists[b] EXCEPT !.sent = n]
<1>7. /\ list \in List /\ list.events = lists[b].events
      /\ list.phase = "dispatching" /\ list.sent = n
  BY <1>1, <1>3, <1>5, CountedList
<1>8. lists' = [lists EXCEPT ![b] = list]
  BY <1>0, <1>4 DEF Dispatch, Advanced
<1> HIDE DEF list
<1>9. /\ DOMAIN lists' = DOMAIN lists /\ lists'[b] = list
      /\ \A c \in DOMAIN lists \ {b} : lists'[c] = lists[c]
  BY <1>2, <1>7, <1>8, ListReplaced
<1>10. ASSUME NEW i \in DOMAIN lists'[b].events
       PROVE  \/ lists'[b].events[i] \in Range(delivered')
              \/ n < i /\ b \in Range(stack'[t])
  <2>1. i \in DOMAIN lists[b].events /\ i \in Nat /\ lists'[b].events[i] = lists[b].events[i]
    BY <1>3, <1>7, <1>9, <1>10
  <2>2. CASE i = n
    BY <1>6, <2>1, <2>2
  <2>3. CASE lists[b].events[i] \in Range(delivered)
    BY <1>6, <2>1, <2>3
  <2>4. CASE i # n /\ lists[b].events[i] \notin Range(delivered)
    <3>1. lists[b].sent < i
      BY <1>1, <1>2, <2>1, <2>4 DEF Handed, NeverSkipped, Outermost
    <3>2. n < i
      BY <1>3, <1>4, <2>1, <2>4, <3>1
    <3>3. Len(stack[t]) \in DOMAIN stack[t]
      BY <1>2
    <3> QED BY <1>2, <1>6, <3>2, <3>3 DEF Range
  <2> QED BY <2>2, <2>3, <2>4
<1> QED BY <1>2, <1>6, <1>7, <1>9, <1>10, HandedBut

LEMMA FinishHanded ==
  ASSUME TypeInv, NEW t \in Threads, Handed, Finish(t)
  PROVE  Handed'
<1>0. PICK b : b = Top(t)
  OBVIOUS
<1>1. /\ ~Idle(t) /\ lists[b].phase = "dispatching"
      /\ lists[b].sent = Len(lists[b].events) /\ Popped(t) /\ delivered' = delivered
  BY <1>0 DEF Finish, Is
<1>2. b \in DOMAIN lists
  BY <1>0, <1>1, TopTyped
<1>3. /\ lists[b] \in List /\ Len(lists[b].events) \in Nat
      /\ DOMAIN lists[b].events = 1..Len(lists[b].events)
  BY <1>2, Typed
<1> DEFINE list == [lists[b] EXCEPT !.phase = "dispatched"]
<1>4. list \in List /\ list.events = lists[b].events /\ list.phase = "dispatched"
  BY <1>3 DEF List, Phases
<1>5. lists' = [lists EXCEPT ![b] = list]
  BY <1>0 DEF Finish
<1> HIDE DEF list
<1>6. /\ DOMAIN lists' = DOMAIN lists /\ lists'[b] = list
      /\ \A c \in DOMAIN lists \ {b} : lists'[c] = lists[c]
  BY <1>2, <1>4, <1>5, ListReplaced
<1>7. \A i \in DOMAIN lists[b].events : lists[b].events[i] \in Range(delivered)
  <2>1. \A i \in DOMAIN lists[b].events : ~(lists[b].sent < i)
    BY <1>1, <1>3
  <2> QED BY <1>1, <1>2, <2>1 DEF Handed, NeverSkipped, Outermost
<1> QED BY <1>0, <1>1, <1>4, <1>6, <1>7, HandedBut

LEMMA NextHanded ==
  ASSUME TypeInv, NEW t, Threads = {t}, Nested(t), Handed, [Next]_vars
  PROVE  Handed'
<1>1. ASSUME Step(t) PROVE Handed'
  BY <1>1, EnterHanded, LeaveHanded, EmitHanded, DispatchHanded, FinishHanded DEF Step
<1>2. CASE UNCHANGED vars
  <2>1. lists' = lists /\ stack' = stack /\ delivered' = delivered
    BY <1>2 DEF vars
  <2> QED BY <2>1 DEF Handed, NeverSkipped, Unsent, Outermost
<1> QED BY <1>1, <1>2 DEF Next

-----------------------------------------------------------------------------
(* What a process with one thread can rely on.                             *)

(* After any nesting of blocks and handlers the collector is the block the *)
(* thread is in.                                                           *)
THEOREM CollectorAlwaysInnermost ==
  ASSUME NEW t, Threads = {t}
  PROVE  Spec => []CollectorIsInnermost
<1>1. Init => TypeInv /\ Inv(t)
  BY InitTyped, InitInv
<1>2. TypeInv /\ Inv(t) /\ [Next]_vars => (TypeInv /\ Inv(t))'
  BY StepTyped, NextInv
<1>3. TypeInv /\ Inv(t) => CollectorIsInnermost
  BY TopShape DEF CollectorIsInnermost, Inv
<1> QED BY <1>1, <1>2, <1>3, PTL DEF Spec

(* No event is delivered of a block that fails, now or later.              *)
THEOREM RolledBackAlwaysSilent ==
  ASSUME NEW t, Threads = {t}
  PROVE  Spec => []RolledBackSilent
<1>1. Init => TypeInv /\ Inv(t)
  BY InitTyped, InitInv
<1>2. TypeInv /\ Inv(t) /\ [Next]_vars => (TypeInv /\ Inv(t))'
  BY StepTyped, NextInv
<1>3. TypeInv /\ Inv(t) => RolledBackSilent
  <2> SUFFICES ASSUME Inv(t), NEW e \in Range(delivered), NEW b \in emitted[e].within
               PROVE  ~lists[b].failed
    BY DEF RolledBackSilent
  <2>1. b \in DOMAIN lists /\ lists[b].phase \in {"dispatching", "dispatched"}
    BY DEF Inv, Heard
  <2>2. lists[b].phase # "dropped"
    BY <2>1
  <2> QED BY <2>1, <2>2 DEF Inv, Sound
<1> QED BY <1>1, <1>2, <1>3, PTL DEF Spec

(* The events of one block, and those emitted outside every block, are     *)
(* delivered at most once and in the order they were emitted in.           *)
THEOREM AlwaysDeliveredInOrder ==
  ASSUME NEW t, Threads = {t}
  PROVE  Spec => []DeliveredInOrder
<1>1. Init => TypeInv /\ Inv(t)
  BY InitTyped, InitInv
<1>2. TypeInv /\ Inv(t) /\ [Next]_vars => (TypeInv /\ Inv(t))'
  BY StepTyped, NextInv
<1>3. Inv(t) => DeliveredInOrder
  BY DEF Inv, Heard
<1> QED BY <1>1, <1>2, <1>3, PTL DEF Spec

(* No event of an outermost block that succeeded, or emitted outside every *)
(* block, is passed over by the loop that hands it out, whatever handlers  *)
(* raise, capture or emit meanwhile.                                       *)
THEOREM NothingEverSkipped ==
  ASSUME NEW t, Threads = {t}
  PROVE  Spec => []NeverSkipped
<1>1. Init => TypeInv /\ Inv(t) /\ Handed
  BY InitTyped, InitInv, InitHanded
<1>2. TypeInv /\ Inv(t) /\ Handed /\ [Next]_vars => (TypeInv /\ Inv(t) /\ Handed)'
  BY StepTyped, NextInv, NextHanded DEF Inv
<1>3. Handed => NeverSkipped
  BY DEF Handed
<1> QED BY <1>1, <1>2, <1>3, PTL DEF Spec
=============================================================================
