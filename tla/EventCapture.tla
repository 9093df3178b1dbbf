---------------------------- MODULE EventCapture ----------------------------
(***************************************************************************)
(* How the domain events of one process reach their handlers.  emit()      *)
(* appends to the list the module global _collector refers to, or          *)
(* dispatches at once when there is none; capture() makes a list of its    *)
(* own the collector and puts the previous one back on exit.  The global   *)
(* belongs to the process, not to a thread: Threads is the set of threads  *)
(* that call it.  Handlers run inside dispatch and may call back, so a     *)
(* thread keeps a stack of the capture blocks and dispatch loops it is in. *)
(***************************************************************************)
EXTENDS Integers, Sequences, SequencesExt

CONSTANTS
  Threads,    \* threads of one process
  MaxEvents,  \* bound: events emitted
  MaxLists    \* bound: lists created, by capture() or for a direct dispatch

ASSUME CaptureBounds == MaxEvents \in Nat /\ MaxLists \in Nat

(***************************************************************************)
(* A list is the index of its record; no list is 0.  `sent` counts the     *)
(* events its dispatch loop has handed out.  An event is its position in   *)
(* `emitted`.  Three fields are history that no action reads: a block's    *)
(* `failed`, and for an event the set `within` of the blocks its thread    *)
(* was in and the innermost of them, `home`.                               *)
(***************************************************************************)
VARIABLES
  collector,  \* _collector
  lists,      \* the lists created so far
  stack,      \* the lists each thread is capturing to or dispatching from
  emitted,    \* the events emitted so far
  delivered   \* the events handed to the dispatcher, in order

vars == <<collector, lists, stack, emitted, delivered>>

Phases == {"open", "dispatching", "dispatched", "dropped"}

List ==
  [parent : Nat, events : Seq(Nat), phase : Phases, sent : Nat,
   failed : BOOLEAN]

NewList(parent, events, phase) ==
  [parent |-> parent, events |-> events, phase |-> phase, sent |-> 0,
   failed |-> FALSE]

Event == [within : SUBSET Nat, home : Nat]

-----------------------------------------------------------------------------
Idle(t) == stack[t] = <<>>
Top(t) == Last(stack[t])
Is(t, phase) == ~Idle(t) /\ lists[Top(t)].phase = phase

\* The thread runs application code: outside every block, in one, or in a
\* handler its dispatch loop has called.
InCode(t) == Is(t, "dispatching") => lists[Top(t)].sent > 0

Blocks(t) == {b \in Range(stack[t]) : lists[b].phase = "open"}

Pushed(t, list) ==
  /\ Len(lists) < MaxLists
  /\ lists' = Append(lists, list)
  /\ stack' = [stack EXCEPT ![t] = Append(@, Len(lists) + 1)]

Popped(t) == stack' = [stack EXCEPT ![t] = Front(@)]

Init ==
  /\ collector = 0
  /\ lists = <<>>
  /\ stack = [t \in Threads |-> <<>>]
  /\ emitted = <<>>
  /\ delivered = <<>>

-----------------------------------------------------------------------------
(* capture() *)

Enter(t) ==
  /\ InCode(t)
  /\ Pushed(t, NewList(collector, <<>>, "open"))
  /\ collector' = Len(lists) + 1
  /\ UNCHANGED <<emitted, delivered>>

\* Variant: the collector is cleared instead of restored.
RestoredNone(b) == 0

Restored(b) == lists[b].parent

\* Variant: the events of a failed block are dispatched too.
DispatchesAlways(b, success) == lists[b].parent = 0

Dispatches(b, success) == success /\ lists[b].parent = 0

\* The block is left, by its end or by an exception.  Only a list without a
\* parent is dispatched; any other is dropped with what it holds.
Leave(t, success) ==
  /\ Is(t, "open")
  /\ LET b == Top(t)
         left(phase) ==
           [lists EXCEPT ![b] = [@ EXCEPT !.phase = phase, !.failed = ~success]]
     IN  /\ collector' = Restored(b)
         /\ \/ /\ Dispatches(b, success)
               /\ lists' = left("dispatching")
               /\ UNCHANGED stack
            \/ /\ ~Dispatches(b, success)
               /\ lists' = left("dropped")
               /\ Popped(t)
  /\ UNCHANGED <<emitted, delivered>>

-----------------------------------------------------------------------------
(* emit() *)

\* Variant: the list is filled from the front.
AppendedInFront(events, e) == <<e>> \o events

Appended(events, e) == Append(events, e)

Emit(t) ==
  /\ InCode(t)
  /\ Len(emitted) < MaxEvents
  /\ emitted' = Append(emitted,
       [within |-> Blocks(t),
        home |-> IF Is(t, "open") THEN Top(t) ELSE 0])
  /\ LET e == Len(emitted) + 1
     IN  \/ /\ collector # 0
            /\ lists' = [lists EXCEPT ![collector].events = Appended(@, e)]
            /\ UNCHANGED stack
         \/ /\ collector = 0
            /\ Pushed(t, NewList(0, <<e>>, "dispatching"))
  /\ UNCHANGED <<collector, delivered>>

-----------------------------------------------------------------------------
(* The dispatch loop, and EventDispatcher.dispatch in it.                  *)

\* Variant: an exception of a handler ends the loop.
StoppedByHandler(b, raised) ==
  IF raised THEN Len(lists[b].events) ELSE lists[b].sent + 1

\* dispatch isolates what its handlers raise, so the loop goes on.
Advanced(b, raised) == lists[b].sent + 1

\* The next event of the list, which other threads may still be growing.
Dispatch(t, raised) ==
  /\ Is(t, "dispatching")
  /\ LET b == Top(t)
     IN  /\ lists[b].sent < Len(lists[b].events)
         /\ delivered' = Append(delivered, lists[b].events[lists[b].sent + 1])
         /\ lists' = [lists EXCEPT ![b].sent = Advanced(b, raised)]
  /\ UNCHANGED <<collector, stack, emitted>>

Finish(t) ==
  /\ Is(t, "dispatching")
  /\ LET b == Top(t)
     IN  /\ lists[b].sent = Len(lists[b].events)
         /\ lists' = [lists EXCEPT ![b].phase = "dispatched"]
  /\ Popped(t)
  /\ UNCHANGED <<collector, emitted, delivered>>

-----------------------------------------------------------------------------
Step(t) ==
  \/ Enter(t)
  \/ \E success \in BOOLEAN : Leave(t, success)
  \/ Emit(t)
  \/ \E raised \in BOOLEAN : Dispatch(t, raised)
  \/ Finish(t)

Next == \E t \in Threads : Step(t)

\* A thread that dispatches goes on, and the code of a block comes to an
\* end.  No thread has to enter a block or to emit.
Fairness ==
  \A t \in Threads :
    /\ WF_vars(\E success \in BOOLEAN : Leave(t, success))
    /\ WF_vars(\E raised \in BOOLEAN : Dispatch(t, raised))
    /\ WF_vars(Finish(t))

Spec == Init /\ [][Next]_vars /\ Fairness

-----------------------------------------------------------------------------
(* Invariants.                                                             *)

(* Every variable holds values of its type, and no list is dispatched past *)
(* its end.                                                                *)
TypeOK ==
  /\ collector \in 0..Len(lists)
  /\ lists \in Seq(List)
  /\ stack \in [Threads -> Seq(DOMAIN lists)]
  /\ emitted \in Seq(Event)
  /\ delivered \in Seq(DOMAIN emitted)
  /\ \A b \in DOMAIN lists : lists[b].sent <= Len(lists[b].events)

(* docs/events.md: a rolled-back transition never delivers events.  No     *)
(* event is delivered, before or after, of a block that ends by an         *)
(* exception, nor of a block inside it.                                    *)
RolledBackSilent ==
  \A e \in Range(delivered) : \A b \in emitted[e].within :
    ~lists[b].failed

(* Events of one block, and events emitted outside every block by one      *)
(* thread's own code, are delivered at most once and in the order in which *)
(* they were emitted.                                                      *)
DeliveredInOrder ==
  \A i, j \in DOMAIN delivered :
    i < j /\ emitted[delivered[i]].home = emitted[delivered[j]].home
      => delivered[i] < delivered[j]

(* Whatever was entered, left or raised, a thread's events go to the block *)
(* it is in, and outside every block they go nowhere but to the handlers:  *)
(* no list outlives its block as the collector.                            *)
CollectorIsInnermost ==
  \A t \in Threads : collector = IF Is(t, "open") THEN Top(t) ELSE 0

Outermost(b) == lists[b].phase \in {"dispatching", "dispatched"}

(* Every event captured by an outermost block that succeeded is delivered  *)
(* in the end, whatever its handlers raise or do.                          *)
OutermostDelivered ==
  \A e \in 1..MaxEvents :
    (e \in DOMAIN emitted
       /\ \E b \in DOMAIN lists : Outermost(b) /\ e \in Range(lists[b].events))
    ~> e \in Range(delivered)
=============================================================================
