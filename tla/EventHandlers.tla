---------------------------- MODULE EventHandlers ----------------------------
(***************************************************************************)
(* What listens to the domain events of one process, and what it does with *)
(* an event: the dispatcher and its subscriptions, the notification        *)
(* router, the structured logger and the automation engine with its rules. *)
(* Everything runs in the thread that dispatches.  A handler is code that  *)
(* may call back into all of this, so the thread has a stack of the        *)
(* dispatch loops and rule evaluations it is in.                           *)
(***************************************************************************)
EXTENDS Integers, Sequences, FiniteSets, SequencesExt, RuleConditions, Listing

CONSTANTS
  Callables,   \* handlers of the application
  Providers,   \* notification providers, as records of their settings
  ActionNames, \* names of automation actions
  RuleBook,    \* the AutomationRule rows, in the order of their names
  Occasions,   \* what may happen: an event type with its context
  Scopes,      \* scopes an application may fire with, Anywhere for none
  MaxEvents,   \* bound: events dispatched and triggers fired
  MaxChanges,  \* bound: changes to subscriptions, actions and rules
  MaxCreated   \* bound: closures and loggers created

AllEvents == "*"

\* The scope of a rule that holds everywhere, and of a trigger without one.
Anywhere == ""

\* No event is of the type that stands for all of them.
ASSUME OccasionsAssumption == \A o \in Occasions : o.type # AllEvents

ASSUME RuleBookAssumption ==
  /\ RuleBook \in Seq(Range(RuleBook))
  /\ \A r \in DOMAIN RuleBook : RuleBook[r].actions \in Seq(STRING)

ASSUME BoundsAssumption ==
  MaxEvents \in Nat /\ MaxChanges \in Nat /\ MaxCreated \in Nat

Keys == {o.type : o \in Occasions} \cup {AllEvents}

(***************************************************************************)
(* A handler is told from another as Python does: the same callable of the *)
(* application, or the automation hook, is one handler however often it is *)
(* subscribed, while every closure of the router and every logger is new.  *)
(***************************************************************************)
Handler(kind, of, serial) == [kind |-> kind, of |-> of, serial |-> serial]

Hook == Handler("hook", "on_event", 0)

Token(key, handler) == [key |-> key, handler |-> handler]

VARIABLES
  handlers,      \* EventDispatcher._handlers and, under "*", _all_handlers
  tokens,        \* unsubscribe callables the application was given
  entries,       \* NotificationRouter._entries
  unsubscribes,  \* NotificationRouter._unsubscribes
  hooked,        \* automation.engine._installed
  observer,      \* observability._installed, the serial of the logger or 0
  observing,     \* observability.dispatcher_subscriptions
  actions,       \* names in automation.actions._ACTIONS
  enabled,       \* the rules that are enabled
  created,       \* closures and loggers created so far
  frames,        \* the loops the thread is in, innermost last
  happened,      \* events dispatched and triggers fired so far
  changes        \* changes made so far

registry ==
  <<handlers, tokens, entries, unsubscribes, hooked, observer, observing, created>>
automation == <<actions, enabled>>
vars == <<registry, automation, frames, happened, changes>>

-----------------------------------------------------------------------------
(* The loops.  `due`, `calls`, `skipped` and `done` record for the         *)
(* invariants what a loop found and what it did; no action reads them.     *)

DispatchFrame(o) ==
  LET due == (IF o.type \in DOMAIN handlers THEN handlers[o.type] ELSE <<>>)
             \o handlers[AllEvents]
  IN  [kind |-> "dispatch", on |-> o, todo |-> due, due |-> due, calls |-> <<>>]

\* Rules are read at once, when the loop over them begins.
FireFrame(o, scope) ==
  LET due == Ascending({r \in enabled : RuleBook[r].trigger = o.type})
  IN  [kind |-> "fire", on |-> o, scope |-> scope, todo |-> due, due |-> due,
       rule |-> 0, acts |-> <<>>, ran |-> <<>>, skipped |-> {}, done |-> <<>>]

Top == Last(frames)
In(kind) == frames # <<>> /\ Top.kind = kind
Replaced(frame) == Front(frames) \o <<frame>>

\* The action that was considered last has been called.
InAction ==
  /\ In("fire") /\ Top.rule # 0 /\ Top.ran # <<>>
  /\ Last(Top.ran) = Len(RuleBook[Top.rule].actions) - Len(Top.acts)

\* The application's code runs: outside every loop, in a handler of its
\* own, or in an action.
InCode ==
  \/ frames = <<>>
  \/ In("dispatch") /\ Top.calls # <<>> /\ Last(Top.calls).to.kind = "app"
  \/ InAction

-----------------------------------------------------------------------------
(* Subscriptions.                                                          *)

Changing ==
  /\ InCode
  /\ changes < MaxChanges
  /\ changes' = changes + 1
  /\ UNCHANGED <<frames, happened>>

Added(subscribed, key, handler) ==
  [subscribed EXCEPT ![key] = Append(@, handler)]

\* unsubscribe() of every token of a list, in whatever order: each takes
\* away the first subscription of its handler that is left, if there is one.
Dropped(subscribed, list) ==
  LET taken(key, handler) == {n \in DOMAIN list : list[n] = Token(key, handler)}
      earlier(seq, k) == {j \in 1..k - 1 : seq[j] = seq[k]}
      kept(key) ==
        {k \in DOMAIN subscribed[key] :
           Cardinality(earlier(subscribed[key], k))
             >= Cardinality(taken(key, subscribed[key][k]))}
  IN  [key \in DOMAIN subscribed |-> At(subscribed[key], kept(key))]

Subscribe(key, callable) ==
  /\ Changing
  /\ LET handler == Handler("app", callable, 0)
     IN  /\ handlers' = Added(handlers, key, handler)
         /\ tokens' = tokens \cup {Token(key, handler)}
  /\ UNCHANGED <<entries, unsubscribes, hooked, observer, observing, created, automation>>

Unsubscribe(token) ==
  /\ Changing
  /\ handlers' = Dropped(handlers, <<token>>)
  /\ UNCHANGED <<tokens, entries, unsubscribes, hooked, observer, observing, created,
                 automation>>

\* EventDispatcher.clear()
Clear ==
  /\ Changing
  /\ handlers' = [key \in DOMAIN handlers |-> <<>>]
  /\ UNCHANGED <<tokens, entries, unsubscribes, hooked, observer, observing, created,
                 automation>>

-----------------------------------------------------------------------------
(* The notification router.                                                *)

Register(type, provider) ==
  /\ Changing
  /\ entries' = Append(entries, [type |-> type, provider |-> provider])
  /\ UNCHANGED <<handlers, tokens, unsubscribes, hooked, observer, observing, created,
                 automation>>

Installable == unsubscribes = <<>>

\* install(): a closure for each entry, unless there are subscriptions.
Install ==
  /\ Changing
  /\ LET closures ==
           [k \in DOMAIN entries |->
              Token(entries[k].type,
                    Handler("provider", entries[k].provider, created + k))]
         closure == [k \in DOMAIN entries |-> closures[k].handler]
         routed(key) == {k \in DOMAIN entries : entries[k].type = key}
     IN  \/ /\ Installable
            /\ created + Len(entries) <= MaxCreated
            /\ handlers' = [key \in Keys |-> handlers[key] \o At(closure, routed(key))]
            /\ unsubscribes' = unsubscribes \o closures
            /\ created' = created + Len(entries)
         \/ /\ ~Installable
            /\ UNCHANGED <<handlers, unsubscribes, created>>
  /\ UNCHANGED <<tokens, entries, hooked, observer, observing, automation>>

Uninstalled == Dropped(handlers, unsubscribes)

Uninstall ==
  /\ Changing
  /\ handlers' = Uninstalled
  /\ unsubscribes' = <<>>
  /\ UNCHANGED <<tokens, entries, hooked, observer, observing, created, automation>>

\* NotificationRouter.clear()
ClearRouter ==
  /\ Changing
  /\ handlers' = Uninstalled
  /\ unsubscribes' = <<>>
  /\ entries' = <<>>
  /\ UNCHANGED <<tokens, hooked, observer, observing, created, automation>>

\* What a provider's send comes to: it is switched off, has nobody to write
\* to or no address to post to, or it delivers or fails to.
SendsEmail(provider) ==
  IF provider.enabled /\ provider.addressed THEN {"sent", "raised"} ELSE {"skipped"}

SendsWebhook(provider) ==
  IF ~provider.enabled THEN {"skipped"}
  ELSE IF provider.addressed THEN {"sent", "refused", "raised"} ELSE {"raised"}

Sends(provider) ==
  IF provider.kind = "email" THEN SendsEmail(provider) ELSE SendsWebhook(provider)

-----------------------------------------------------------------------------
(* The structured logger and the automation hook.                          *)

Logger(serial) == Handler("logger", "handle", serial)

\* install_structured_logging()
InstallLogging ==
  /\ Changing
  /\ \/ /\ observer = 0
        /\ created < MaxCreated
        /\ created' = created + 1
        /\ observer' = created + 1
        /\ handlers' = Added(handlers, AllEvents, Logger(created + 1))
        /\ observing' = Append(observing, Token(AllEvents, Logger(created + 1)))
     \/ observer # 0 /\ UNCHANGED <<created, observer, handlers, observing>>
  /\ UNCHANGED <<tokens, entries, unsubscribes, hooked, automation>>

\* uninstall_structured_logging()
UninstallLogging ==
  /\ Changing
  /\ \/ /\ observer # 0
        /\ handlers' = Dropped(handlers, observing)
        /\ observing' = <<>>
        /\ observer' = 0
     \/ observer = 0 /\ UNCHANGED <<handlers, observing, observer>>
  /\ UNCHANGED <<tokens, entries, unsubscribes, hooked, created, automation>>

\* Variant: the flag is not looked at.
HookableAlways == TRUE

Hookable == ~hooked

\* install() of the automation engine
InstallAutomation ==
  /\ Changing
  /\ \/ /\ Hookable
        /\ handlers' = Added(handlers, AllEvents, Hook)
        /\ hooked' = TRUE
     \/ ~Hookable /\ UNCHANGED <<handlers, hooked>>
  /\ UNCHANGED <<tokens, entries, unsubscribes, observer, observing, created, automation>>

\* register() and unregister() of an action
ChangeAction(name) ==
  /\ Changing
  /\ actions' = IF name \in actions THEN actions \ {name} ELSE actions \cup {name}
  /\ UNCHANGED <<registry, enabled>>

SwitchRule(r) ==
  /\ Changing
  /\ enabled' = IF r \in enabled THEN enabled \ {r} ELSE enabled \cup {r}
  /\ UNCHANGED <<registry, actions>>

-----------------------------------------------------------------------------
(* Dispatching an event.                                                   *)

Happening ==
  /\ InCode
  /\ happened < MaxEvents
  /\ happened' = happened + 1
  /\ UNCHANGED <<registry, automation, changes>>

\* An event outside every capture block, dispatched at once.
Emit(o) ==
  /\ Happening
  /\ frames' = Append(frames, DispatchFrame(o))

\* Variant: a handler unsubscribed meanwhile is not called.
NextStillSubscribed ==
  LET live(h) == \E key \in Keys : h \in Range(handlers[key])
  IN  SelectSeq(Top.todo, live)

\* The list was copied before the first call.
NextToCall == Top.todo

Called(to, how) ==
  Replaced([Top EXCEPT !.todo = Tail(NextToCall),
                       !.calls = Append(@, [to |-> to, how |-> how])])

\* One iteration: whatever the handler raises stays here.  Of an
\* application's handler the call begins: what it does comes next.  The
\* hook raises, and has done nothing, if the rules cannot be read.
Call ==
  /\ In("dispatch")
  /\ NextToCall # <<>>
  /\ LET to == Head(NextToCall)
     IN  \/ to.kind \in {"app", "logger"} /\ frames' = Called(to, "called")
         \/ /\ to.kind = "provider"
            /\ \E how \in Sends(to.of) : frames' = Called(to, how)
         \/ /\ to.kind = "hook"
            /\ \/ frames' = Append(Called(to, "called"), FireFrame(Top.on, Anywhere))
               \/ frames' = Called(to, "raised")
  /\ UNCHANGED <<registry, automation, happened, changes>>

EndDispatch ==
  /\ In("dispatch")
  /\ NextToCall = <<>>
  /\ frames' = Front(frames)
  /\ UNCHANGED <<registry, automation, happened, changes>>

-----------------------------------------------------------------------------
(* Firing a trigger.                                                       *)

\* fire() by the application.  If the rules cannot be read it raises, and
\* nothing has happened.
Fire(o, scope) ==
  /\ Happening
  /\ frames' = Append(frames, FireFrame(o, scope)) \/ UNCHANGED frames

InScope(rule, scope) == scope # Anywhere => rule.scope \in {Anywhere, scope}

Concluded(rule, how) ==
  [Top EXCEPT !.rule = 0, !.acts = <<>>, !.ran = <<>>, !.skipped = {},
              !.done = Append(@, [rule |-> rule, how |-> how,
                                  ran |-> Top.ran, skipped |-> Top.skipped])]

\* The next rule is passed over, fails in its conditions, or is run.
Consider ==
  /\ In("fire")
  /\ Top.rule = 0 /\ Top.todo # <<>>
  /\ LET r == Head(Top.todo)
         rule == RuleBook[r]
         applies == InScope(rule, Top.scope)
         raises == ConditionsRaise(rule.condition, Top.on.context)
         met == ConditionsMet(rule.condition, Top.on.context)
         next(frame) == frames' = Replaced([frame EXCEPT !.todo = Tail(@)])
     IN  \/ applies /\ raises /\ next(Concluded(r, "raised"))
         \/ applies /\ ~raises /\ met
            /\ next([Top EXCEPT !.rule = r,
                       !.acts = [k \in DOMAIN rule.actions |-> k]])
         \/ (~applies \/ (~raises /\ ~met)) /\ next(Concluded(r, "passed"))
  /\ UNCHANGED <<registry, automation, happened, changes>>

\* Variant: the exception of an action ends the evaluation.
FailedForAll == [Concluded(Top.rule, "raised") EXCEPT !.todo = <<>>]

\* The exception of an action ends its rule and no other.
Failed == Concluded(Top.rule, "raised")

\* Variant: a name nobody registered ends the rule.
SkippedWithRest == [Top EXCEPT !.acts = <<>>, !.skipped = @ \cup {Head(Top.acts)}]

\* A name nobody registered is passed over.
Skipped == [Top EXCEPT !.acts = Tail(@), !.skipped = @ \cup {Head(Top.acts)}]

\* The next action of the rule is skipped, or called: what it does comes
\* next, and it may raise.
Act ==
  /\ In("fire")
  /\ Top.rule # 0 /\ Top.acts # <<>>
  /\ LET k == Head(Top.acts)
     IN  \/ /\ RuleBook[Top.rule].actions[k] \notin actions
            /\ frames' = Replaced(Skipped)
         \/ /\ RuleBook[Top.rule].actions[k] \in actions
            /\ frames' = Replaced([Top EXCEPT !.acts = Tail(@), !.ran = Append(@, k)])
  /\ UNCHANGED <<registry, automation, happened, changes>>

Raise ==
  /\ InAction
  /\ frames' = Replaced(Failed)
  /\ UNCHANGED <<registry, automation, happened, changes>>

\* The rule has run to its end: it counts as fired.
Finish ==
  /\ In("fire")
  /\ Top.rule # 0 /\ Top.acts = <<>>
  /\ frames' = Replaced(Concluded(Top.rule, "fired"))
  /\ UNCHANGED <<registry, automation, happened, changes>>

EndFire ==
  /\ In("fire")
  /\ Top.rule = 0 /\ Top.todo = <<>>
  /\ frames' = Front(frames)
  /\ UNCHANGED <<registry, automation, happened, changes>>

-----------------------------------------------------------------------------
(* AppConfig.ready(), of either setting of STRUCTURED_LOGGING and          *)
(* AUTOMATION.                                                             *)

Init ==
  \E logging, automating \in BOOLEAN :
    LET listed == (IF logging THEN <<Logger(1)>> ELSE <<>>)
                  \o (IF automating THEN <<Hook>> ELSE <<>>)
    IN  /\ handlers = [key \in Keys |-> IF key = AllEvents THEN listed ELSE <<>>]
        /\ tokens = {}
        /\ entries = <<>> /\ unsubscribes = <<>>
        /\ hooked = automating
        /\ observer = IF logging THEN 1 ELSE 0
        /\ observing = IF logging THEN <<Token(AllEvents, Logger(1))>> ELSE <<>>
        /\ created = observer
        /\ actions = ActionNames /\ enabled = DOMAIN RuleBook
        /\ frames = <<>> /\ happened = 0 /\ changes = 0

Next ==
  \/ \E key \in Keys, callable \in Callables : Subscribe(key, callable)
  \/ \E token \in tokens : Unsubscribe(token)
  \/ Clear
  \/ \E key \in Keys, provider \in Providers : Register(key, provider)
  \/ Install \/ Uninstall \/ ClearRouter
  \/ InstallLogging \/ UninstallLogging \/ InstallAutomation
  \/ \E name \in ActionNames : ChangeAction(name)
  \/ \E r \in DOMAIN RuleBook : SwitchRule(r)
  \/ \E o \in Occasions : Emit(o)
  \/ \E o \in Occasions, scope \in Scopes : Fire(o, scope)
  \/ Call \/ EndDispatch
  \/ Consider \/ Act \/ Raise \/ Finish \/ EndFire

Spec == Init /\ [][Next]_vars

-----------------------------------------------------------------------------
(* Invariants.                                                             *)

Times(h, seq) == Cardinality({k \in DOMAIN seq : seq[k] = h})

Everywhere(h) == {key \in Keys : h \in Range(handlers[key])}

(* Whatever was installed, removed, cleared and installed again, from      *)
(* handlers and actions too: the automation hook and the logger listen at  *)
(* most once, to everything; no logger listens that was replaced; and each *)
(* subscription of the router is one it can still take back, so that no    *)
(* event dispatched after it is uninstalled reaches its providers.         *)
SubscriptionsOwned ==
  /\ Times(Hook, handlers[AllEvents]) <= 1
  /\ Everywhere(Hook) # {} => hooked
  /\ \A key \in Keys : \A h \in Range(handlers[key]) :
       /\ h.kind = "logger" => /\ h = Logger(observer) /\ key = AllEvents
                               /\ observing = <<Token(key, h)>>
       /\ h.kind = "provider" => Times(Token(key, h), unsubscribes) = 1
       /\ h.kind \in {"logger", "provider"} => Times(h, handlers[key]) = 1

(* docs/events.md: if one handler raises, the other handlers still run.    *)
(* What handlers raise, send, subscribe, unsubscribe, clear or dispatch    *)
(* takes an event from none of those that listened when it was dispatched  *)
(* and brings it to nobody else; the hook evaluates it, and a logger logs  *)
(* it, once at most.                                                       *)
HeardByAll ==
  \A n \in DOMAIN frames : frames[n].kind = "dispatch" =>
    LET f == frames[n]
        heard == [k \in DOMAIN f.calls |-> f.calls[k].to]
    IN  /\ f.todo = <<>> => heard = f.due
        /\ \A k, l \in DOMAIN heard :
             k # l /\ heard[k] = heard[l] => heard[k].kind = "app"
        /\ Cardinality({k \in DOMAIN heard : heard[k].kind = "logger"}) <= 1

(* Rules do not disturb each other: a rule that fails, in its conditions   *)
(* or in an action, that switches rules or subscriptions or sets off other *)
(* rules, leaves every rule read for the trigger to be considered, once    *)
(* and in order.  A rule runs its actions in order, none twice, only in    *)
(* its scope and only under its conditions.  One that counts as fired ran  *)
(* all its actions but those of unknown names; one that failed ran those   *)
(* up to the action that raised, or none if its conditions raised.         *)
RulesIsolated ==
  \A n \in DOMAIN frames : frames[n].kind = "fire" =>
    LET f == frames[n]
        considered == [k \in DOMAIN f.done |-> f.done[k].rule]
    IN  /\ f.rule = 0 /\ f.todo = <<>> => considered = f.due
        /\ \A k \in DOMAIN f.done :
             LET told == f.done[k]
                 rule == RuleBook[told.rule]
             IN  /\ rule.trigger = f.on.type
                 /\ \A i, j \in DOMAIN told.ran : i < j => told.ran[i] < told.ran[j]
                 /\ Range(told.ran) \cup told.skipped =
                      IF told.how = "fired" THEN DOMAIN rule.actions
                      ELSE {act \in DOMAIN rule.actions :
                              \E i \in DOMAIN told.ran : act <= told.ran[i]}
                 /\ Range(told.ran) \cap told.skipped = {}
                 /\ told.ran # <<>> \/ told.how = "fired" =>
                      /\ f.scope = Anywhere \/ rule.scope = Anywhere \/ rule.scope = f.scope
                      /\ ConditionsMet(rule.condition, f.on.context)
=============================================================================
