------------------------------- MODULE PsaEvents -------------------------------
(***************************************************************************)
(* The event bus of the kernel (src_local/psa/kernel/psa_events.ts): the   *)
(* handlers of one event, with emissions that await between handlers, and  *)
(* the hooks of one waterfall.                                             *)
(*                                                                         *)
(* A list of handlers is an object: on appends to the one in the map, off  *)
(* puts another one in its place, and an emission keeps the one it found.  *)
(* A handler may throw, which emit catches. A hook may call next as often  *)
(* as it likes; MaxNext bounds it.                                         *)
(***************************************************************************)
EXTENDS Naturals, Sequences, SequencesExt, Selection

CONSTANTS
  Handlers,      \* functions that subscribe to the event
  Emissions,     \* calls of emit
  Hooks,         \* functions registered for the waterfall
  MaxListeners,  \* bound: subscriptions made
  MaxLists,      \* bound: lists when off finds nothing to take out
  MaxNext,       \* bound: calls of next by one run of a hook
  MaxHooks       \* bound: registrations of hooks

VARIABLES
  lists,      \* the lists of handlers that have been made
  current,    \* the one in the map, 0 for none
  emission,   \* each emission: [state, list, i]
  reached,    \* history: the handlers it has called
  atStart,    \* history: the handlers there were when it started
  subscribed, \* subscriptions made
  hooks,      \* the hooks of the waterfall
  stack,      \* the hooks that run, each awaiting the one above: [hook, nexts]
  dispatched, \* index of runWaterfall
  waterfall,  \* "idle", "running", "returned"
  passedBy,   \* history: the hooks that have called next
  finals      \* history: for each run of the final handler,
              \* [passed, again: a hook had called next twice, needed: the hooks there were]

eventVars == <<lists, current, emission, reached, atStart, subscribed, hooks, stack,
               dispatched, waterfall, passedBy, finals>>
listenVars == <<lists, current, emission, reached, atStart, subscribed>>
hookVars == <<hooks, stack, dispatched, waterfall, passedBy, finals>>

-----------------------------------------------------------------------------
EventsInit ==
  /\ lists = << >> /\ current = 0 /\ subscribed = 0
  /\ emission = [e \in Emissions |-> [state |-> "none", list |-> 0, i |-> 0]]
  /\ reached = [e \in Emissions |-> << >>]
  /\ atStart = [e \in Emissions |-> << >>]
  /\ hooks = << >> /\ stack = << >> /\ dispatched = 0 /\ waterfall = "idle"
  /\ passedBy = {} /\ finals = << >>

on(h) ==
  /\ subscribed < MaxListeners /\ subscribed' = subscribed + 1
  /\ IF current = 0
     THEN /\ lists' = Append(lists, <<h>>)
          /\ current' = Len(lists')
     ELSE /\ lists' = [lists EXCEPT ![current] = Append(@, h)]
          /\ UNCHANGED current
  /\ UNCHANGED <<emission, reached, atStart, hookVars>>

\* Faulty: the handlers are taken out of the list that emissions go through.
SplicedOff(remaining) ==
  /\ lists' = [lists EXCEPT ![current] = remaining]
  /\ current' = IF remaining = << >> THEN 0 ELSE current

ReplacedOff(remaining) ==
  IF remaining = << >>
  THEN current' = 0 /\ UNCHANGED lists
  ELSE lists' = Append(lists, remaining) /\ current' = Len(lists')

\* off, and the function on returns: every subscription of the handler goes; when it
\* has none (off is called twice), the list is replaced all the same.
off(h) ==
  /\ current # 0
  /\ h \in ToSet(lists[current]) \/ Len(lists) < MaxLists
  /\ ReplacedOff(Select(lists[current], Handlers \ {h}))
  /\ UNCHANGED <<emission, reached, atStart, subscribed, hookVars>>

\* With no handler it returns at once.
emit(e) ==
  /\ emission[e].state = "none"
  /\ emission' = [emission EXCEPT ![e] =
       IF current = 0 THEN [@ EXCEPT !.state = "returned"]
       ELSE [state |-> "running", list |-> current, i |-> 1]]
  /\ atStart' = [atStart EXCEPT ![e] = IF current = 0 THEN << >> ELSE lists[current]]
  /\ UNCHANGED <<lists, current, reached, subscribed, hookVars>>

\* From one await to the next; what the handler does meanwhile is on and off.
CallHandler(e) ==
  LET list == lists[emission[e].list]
  IN  /\ emission[e].state = "running" /\ emission[e].i <= Len(list)
      /\ reached' = [reached EXCEPT ![e] = Append(@, list[emission[e].i])]
      /\ emission' = [emission EXCEPT ![e].i = @ + 1]
      /\ UNCHANGED <<lists, current, atStart, subscribed, hookVars>>

Emitted(e) ==
  /\ emission[e].state = "running" /\ emission[e].i > Len(lists[emission[e].list])
  /\ emission' = [emission EXCEPT ![e].state = "returned"]
  /\ UNCHANGED <<lists, current, reached, atStart, subscribed, hookVars>>

-----------------------------------------------------------------------------
\* Also while a waterfall runs: it goes through the list that grows.
AddHook(h) ==
  /\ Len(hooks) < MaxHooks
  /\ hooks' = Append(hooks, h)
  /\ UNCHANGED <<stack, dispatched, waterfall, passedBy, finals, listenVars>>

\* dispatch: the next hook, or the final handler, which returns to the caller of
\* next.
Dispatch(under) ==
  IF dispatched < Len(hooks)
  THEN /\ stack' = Append(under, [hook |-> dispatched + 1, nexts |-> 0])
       /\ dispatched' = dispatched + 1
       /\ UNCHANGED finals
  ELSE /\ stack' = under
       /\ finals' = Append(finals, [passed |-> passedBy', again |-> \E k \in DOMAIN under : under[k].nexts > 1,
                                    needed |-> DOMAIN hooks])
       /\ UNCHANGED dispatched

runWaterfall ==
  /\ waterfall = "idle" /\ waterfall' = "running"
  /\ passedBy' = {}
  /\ Dispatch(<< >>)
  /\ UNCHANGED <<hooks, listenVars>>

HookCallsNext ==
  /\ stack # << >> /\ Last(stack).nexts < MaxNext
  /\ passedBy' = passedBy \cup {Last(stack).hook}
  /\ Dispatch(Append(Front(stack), [Last(stack) EXCEPT !.nexts = @ + 1]))
  /\ UNCHANGED <<hooks, waterfall, listenVars>>

HookReturns ==
  /\ stack # << >>
  /\ stack' = Front(stack)
  /\ UNCHANGED <<hooks, dispatched, waterfall, passedBy, finals, listenVars>>

WaterfallReturns ==
  /\ waterfall = "running" /\ stack = << >>
  /\ waterfall' = "returned"
  /\ UNCHANGED <<hooks, stack, dispatched, passedBy, finals, listenVars>>

ListenNext ==
  \/ \E h \in Handlers : on(h) \/ off(h)
  \/ \E e \in Emissions : emit(e) \/ CallHandler(e) \/ Emitted(e)

HookNext ==
  \/ \E h \in Hooks : AddHook(h)
  \/ runWaterfall \/ HookCallsNext \/ HookReturns \/ WaterfallReturns

EventsSpec == EventsInit /\ [][ListenNext \/ HookNext]_eventVars

-----------------------------------------------------------------------------
\* An emission that has returned has called every handler that was subscribed when
\* it started, once for each subscription and in their order, whoever came or went
\* while it awaited; those that came meanwhile follow them.
EveryoneIsTold ==
  \A e \in Emissions : emission[e].state = "returned" => IsPrefix(atStart[e], reached[e])

\* The final handler runs only when every hook there is has called next, so that
\* one that does not has prevented it; unless a hook has called next twice, which
\* passes over the hooks that have had their turn.
HooksDecide ==
  \A k \in DOMAIN finals : finals[k].again \/ finals[k].needed = finals[k].passed

\* Events reach their handlers, and calls pass their hooks.
BusDelivers == EveryoneIsTold /\ HooksDecide
=============================================================================
