------------------------------- MODULE Events -------------------------------
(***************************************************************************)
(* Events and the interceptor of a method: listeners with priorities and   *)
(* filters hear of a call before and after it, one after another, each     *)
(* awaited; they may change its arguments, answer in its place, replace    *)
(* its result or have it repeated.  Meanwhile others register listeners,   *)
(* other calls run, and the metadata of the object changes.                *)
(*                                                                         *)
(* Data abstraction: arguments and results are known by who set them; a    *)
(* filter is the set of the contexts (profile and use case) that pass it.  *)
(***************************************************************************)
EXTENDS Naturals, SequencesExt

CONSTANTS Calls,       \* calls of intercepted methods under way at once
          Callbacks,   \* a sequence: registered one after another
          Priorities,
          Contexts,    \* values of this.metadata
          Filters,     \* filters used, subsets of Contexts
          MaxRounds    \* bound: rounds of one call, 1 + its retries

ASSUME PrioritiesAssumption == Priorities \subseteq Nat
ASSUME CallbacksAssumption ==
  Callbacks \in Seq(Range(Callbacks)) /\ IsInjective(Callbacks)
ASSUME FiltersAssumption == Filters \subseteq SUBSET Contexts
ASSUME RoundsAssumption == MaxRounds \in Nat \ {0}

VARIABLES listeners,    \* Events.listeners: the lists of pre-... and post-...
          call          \* progress of every call

eventsVars == <<listeners, call>>

Hooks      == {"pre", "post"}
Placements == {"before", "after", "around"}
Listener   == [id : Range(Callbacks), priority : Priorities, filter : Filters]
Who        == Range(Callbacks) \cup {"caller", "function", "undefined"}
Kinds      == {"continue", "modify", "abort", "retry", "retryAnew", "throw", "called"}
Entry      == [round : 1..MaxRounds, at : Hooks \cup {"function"}, by : Who,
               kind : Kinds, given : Who]

(* args, result: functionArgs and maybeResult (or result), "undefined"     *)
(* while there is none; context, todo, given, sub, by: the context of an   *)
(* emit, the rest of its list, its params, and the kind and author of its  *)
(* subresult.                                                              *)
CallState ==
  [pc : {"idle", "enter", "pre", "function", "leave", "post", "done"},
   placement : Placements, round : 1..MaxRounds, args : Who, result : Who,
   context : Contexts \cup {"undefined"}, todo : Seq(Listener), given : Who,
   sub : Kinds, by : Who, log : Seq(Entry)]

NewCall(placement) ==
  [pc |-> "enter", placement |-> placement, round |-> 1, args |-> "caller",
   result |-> "undefined", context |-> "undefined", todo |-> <<>>,
   given |-> "undefined", sub |-> "continue", by |-> "undefined", log |-> <<>>]

EventsTypeOK ==
  /\ listeners \in [Hooks -> Seq(Listener)]
  /\ call \in [Calls -> CallState]

EventsInit ==
  /\ listeners = [hook \in Hooks |-> <<>>]
  /\ call = [c \in Calls |-> [NewCall("around") EXCEPT !.pc = "idle"]]

-----------------------------------------------------------------------------
(* on: appended to a new array, which is sorted by priority.  The list is  *)
(* sorted already and the sort is stable, so the new listener goes behind  *)
(* all that have its priority or a lower one.                              *)
Position(l, list) ==
  CHOOSE n \in 0..Len(list) :
    \A i \in DOMAIN list : list[i].priority <= l.priority <=> i <= n

(* Mutated form: sorted ahead of its equals.                               *)
InsertedFirst(l, list) ==
  LET n == CHOOSE n \in 0..Len(list) :
             \A i \in DOMAIN list : list[i].priority < l.priority <=> i <= n
  IN InsertAt(list, n + 1, l)

Inserted(l, list) == InsertAt(list, Position(l, list) + 1, l)

Registered == Len(listeners["pre"]) + Len(listeners["post"])

On(hook, priority, filter) ==
  /\ Registered < Len(Callbacks)
  /\ LET l == [id |-> Callbacks[Registered + 1], priority |-> priority, filter |-> filter]
     IN listeners' = [listeners EXCEPT ![hook] = Inserted(l, @)]
  /\ UNCHANGED call

-----------------------------------------------------------------------------
(* emit: the list and the context as they are now.  The context is the     *)
(* metadata of the object called, which any concurrent perform or bind may *)
(* have set since the last emit.                                           *)
Emission(c, hook, context) ==
  [c EXCEPT !.pc = hook, !.given = c.args, !.sub = "continue",
            !.by = "undefined", !.context = context, !.todo = listeners[hook]]

(* A listener whose filter does not let the context by is passed over.     *)
PassOver(c) ==
  /\ call[c].pc \in Hooks /\ call[c].todo # <<>>
  /\ call[c].context \notin Head(call[c].todo).filter
  /\ call' = [call EXCEPT ![c].todo = Tail(@)]
  /\ UNCHANGED listeners

(* Mutated form: the first listener that modifies has it.                  *)
FirstModifies(c, l, kind) ==
  IF kind = "modify" /\ c.sub = "modify" THEN [c EXCEPT !.todo = Tail(@)]
  ELSE IF kind = "modify"
  THEN [c EXCEPT !.todo = Tail(@), !.sub = kind, !.by = l,
                 !.given = IF c.pc = "pre" THEN l ELSE "undefined"]
  ELSE [c EXCEPT !.todo = IF kind = "continue" THEN Tail(@) ELSE <<>>,
                 !.sub = IF kind = "continue" THEN @ ELSE kind,
                 !.by = IF kind = "continue" THEN @ ELSE l]

(* A listener that modifies sets the parameters of those after it: in a    *)
(* post hook too, whose newArgs are undefined.  "retryAnew" is a retry     *)
(* with newArgs; abort and retry end the emit, a throw ends the call.      *)
Heard(c, l, kind) ==
  CASE kind = "continue" -> [c EXCEPT !.todo = Tail(@)]
    [] kind = "modify" ->
         [c EXCEPT !.todo = Tail(@), !.sub = kind, !.by = l,
                   !.given = IF c.pc = "pre" THEN l ELSE "undefined"]
    [] OTHER -> [c EXCEPT !.todo = <<>>, !.sub = kind, !.by = l]

(* What listeners answer, by the types of their events.                    *)
Answers(c) ==
  {"continue", "modify", "throw"}
    \cup (IF c.pc = "pre" THEN {"abort"}
          ELSE IF c.round < MaxRounds THEN {"retry", "retryAnew"} ELSE {})

Noted(c, at, by, kind, given) ==
  Append(c.log, [round |-> c.round, at |-> at, by |-> by, kind |-> kind, given |-> given])

Hear(c) ==
  /\ call[c].pc \in Hooks /\ call[c].todo # <<>>
  /\ call[c].context \in Head(call[c].todo).filter
  /\ \E kind \in Answers(call[c]) :
       LET l == Head(call[c].todo).id
       IN call' = [call EXCEPT ![c] =
                     [Heard(@, l, kind) EXCEPT
                        !.log = Noted(call[c], call[c].pc, l, kind, call[c].given)]]
  /\ UNCHANGED listeners

-----------------------------------------------------------------------------
(* replacementFunction                                                     *)

Call(c, placement) ==
  /\ call[c].pc \in {"idle", "done"}
  /\ call' = [call EXCEPT ![c] = NewCall(placement)]
  /\ UNCHANGED listeners

Enter(c) ==
  /\ call[c].pc = "enter"
  /\ \E context \in Contexts :
       call' = [call EXCEPT ![c] =
                  IF @.placement = "after" THEN [@ EXCEPT !.pc = "function"]
                                           ELSE Emission(@, "pre", context)]
  /\ UNCHANGED listeners

PreHeard(c) ==
  CASE c.sub = "modify" -> [c EXCEPT !.pc = "function", !.args = c.by]
    [] c.sub = "abort" -> [c EXCEPT !.pc = "leave", !.result = c.by]
    [] c.sub = "throw" -> [c EXCEPT !.pc = "done", !.result = c.by]
    [] OTHER -> [c EXCEPT !.pc = "function"]

(* The next round starts without a result.                                 *)
NextRound(c, args) ==
  [c EXCEPT !.pc = "enter", !.round = @ + 1, !.args = args, !.result = "undefined"]

PostHeard(c) ==
  CASE c.sub \in {"modify", "throw"} -> [c EXCEPT !.pc = "done", !.result = c.by]
    [] c.sub = "retry" -> NextRound(c, c.args)
    [] c.sub = "retryAnew" -> NextRound(c, c.by)
    [] OTHER -> [c EXCEPT !.pc = "done"]

Emitted(c) ==
  /\ call[c].pc \in Hooks /\ call[c].todo = <<>>
  /\ LET d == [call[c] EXCEPT !.context = "undefined"]
     IN call' = [call EXCEPT ![c] = IF d.pc = "pre" THEN PreHeard(d) ELSE PostHeard(d)]
  /\ UNCHANGED listeners

(* The original function returns or rejects: either way, what is kept is a *)
(* promise, for the post hooks or the caller to await.                     *)
Function(c) ==
  /\ call[c].pc = "function"
  /\ LET d == call[c]
     IN call' = [call EXCEPT ![c] =
                   [d EXCEPT !.pc = "leave", !.result = "function",
                             !.log = Noted(d, "function", "function", "called", d.args)]]
  /\ UNCHANGED listeners

Leave(c) ==
  /\ call[c].pc = "leave"
  /\ \E context \in Contexts :
       call' = [call EXCEPT ![c] =
                  IF @.placement = "before" THEN [@ EXCEPT !.pc = "done"]
                                            ELSE Emission(@, "post", context)]
  /\ UNCHANGED listeners

EventsNext ==
  \/ \E hook \in Hooks, priority \in Priorities, filter \in Filters :
       On(hook, priority, filter)
  \/ \E c \in Calls :
       \/ \E placement \in Placements : Call(c, placement)
       \/ Enter(c) \/ PassOver(c) \/ Hear(c) \/ Emitted(c) \/ Function(c) \/ Leave(c)

EventsSpec == EventsInit /\ [][EventsNext]_eventsVars

-----------------------------------------------------------------------------
(* Listeners are called by priority, and by the order of registration      *)
(* among equals, whoever registers meanwhile.                              *)
Place(id) == CHOOSE i \in DOMAIN Callbacks : Callbacks[i] = id

Precedes(k, l) ==
  \/ k.priority < l.priority
  \/ k.priority = l.priority /\ Place(k.id) < Place(l.id)

Sorted(list) == \A i, j \in DOMAIN list : i < j => Precedes(list[i], list[j])

InOrder ==
  /\ \A hook \in Hooks : Sorted(listeners[hook])
  /\ \A c \in Calls : Sorted(call[c].todo)

(* In no emit is a listener called twice or out of turn, although the list *)
(* grows between its awaits: the list that it has begun with stays.        *)
Every(lists) == UNION {Range(lists[hook]) : hook \in Hooks}

ListenerOf(every, id) == CHOOSE l \in every : l.id = id

InTurn(every, log) ==
  \A i \in 2..Len(log) :
    log[i - 1].at = log[i].at /\ log[i - 1].round = log[i].round =>
      Precedes(ListenerOf(every, log[i - 1].by), ListenerOf(every, log[i].by))

HeardInTurn ==
  LET every == Every(listeners) IN \A c \in Calls : InTurn(every, call[c].log)

(* Who set the arguments in force after the first n entries of the log, in *)
(* a round: the last listener that gave new ones with a retry, or modified *)
(* them in an emit of that round or one that was not aborted.              *)
Aborted(log, j) ==
  \E k \in DOMAIN log : log[k].round = log[j].round /\ log[k].kind = "abort"

ModifiesArgs(log, j) == log[j].at = "pre" /\ log[j].kind = "modify"

Lasting(log, j) ==
  \/ ModifiesArgs(log, j) /\ ~Aborted(log, j)
  \/ log[j].kind = "retryAnew"

Setters(log, n, round) ==
  {j \in 1..n : Lasting(log, j) \/ (ModifiesArgs(log, j) /\ log[j].round = round)}

LastOf(log, indices) ==
  IF indices = {} THEN "caller" ELSE log[Max(indices)].by

(* Who set the result: in the last round, the last listener that replaced  *)
(* it or threw, else the one that answered in place of the function, else  *)
(* the function.                                                           *)
SetsResult(log, i) ==
  /\ log[i].round = log[Len(log)].round
  /\ \/ log[i].at = "post" /\ log[i].kind = "modify"
     \/ log[i].kind \in {"throw", "abort", "called"}

ResultOf(log) == LastOf(log, {i \in DOMAIN log : SetsResult(log, i)})

(* Several listeners, several rounds: the function and each pre listener   *)
(* get the arguments last set, and the caller the result last set.         *)
ArgsAsLastSet(log) ==
  \A i \in DOMAIN log :
    log[i].at # "post" =>
      log[i].given = LastOf(log, Setters(log, i - 1, log[i].round))

LastWordCounts ==
  \A c \in Calls :
    LET d == call[c]
    IN ArgsAsLastSet(d.log) /\ (d.pc = "done" => d.result = ResultOf(d.log))

-----------------------------------------------------------------------------
(* What makes this inductive.  The listeners are those registered so far,  *)
(* each in one place.                                                      *)
Registrations ==
  /\ Registered <= Len(Callbacks)
  /\ \A hook \in Hooks : \A i \in DOMAIN listeners[hook] :
       \E n \in 1..Registered : listeners[hook][i].id = Callbacks[n]
  /\ \A g, h \in Hooks : \A i \in DOMAIN listeners[g], j \in DOMAIN listeners[h] :
       listeners[g][i].id = listeners[h][j].id => g = h /\ i = j

(* The log goes round by round, and within a round the listeners of pre,   *)
(* then the function, then those of post.                                  *)
RoundByRound(log, round) ==
  /\ \A i, j \in DOMAIN log : i <= j => log[i].round <= log[j].round
  /\ \A i \in DOMAIN log : log[i].round <= round

Phases(lists, d) ==
  /\ RoundByRound(d.log, d.round)
  /\ \A i, j \in DOMAIN d.log :
       /\ d.log[i].at = "function" /\ d.log[j].at = "function"
       /\ d.log[i].round = d.log[j].round
       => i = j
  /\ \A i \in DOMAIN d.log :
       /\ d.log[i].at \in Hooks =>
            \E l \in Range(lists[d.log[i].at]) : l.id = d.log[i].by
       /\ d.log[i].kind = "retryAnew" => d.log[i].at = "post"
       /\ d.log[i].round = d.round =>
            /\ d.pc \notin {"idle", "enter"}
            /\ d.pc \in {"pre", "function"} =>
                 d.log[i].at = "pre" /\ (d.log[i].kind = "abort" => d.sub = "abort")
            /\ d.pc = "function" => d.log[i].kind # "abort"
            /\ d.pc = "leave" => d.log[i].at # "post"

(* An emit: whom it has still to call, in the list it has begun with, come *)
(* after the one it called last; what has ended it is the last entry.      *)
Emitting(lists, d) ==
  d.pc \in Hooks =>
    /\ Range(d.todo) \subseteq Range(lists[d.pc])
    /\ d.log # <<>> /\ Last(d.log).at = d.pc /\ Last(d.log).round = d.round =>
         \A i \in DOMAIN d.todo :
           Precedes(ListenerOf(Every(lists), Last(d.log).by), d.todo[i])
    /\ IF d.sub \in {"continue", "modify"} THEN d.by \in Range(Callbacks) \cup {"undefined"}
       ELSE /\ d.sub \in Answers(d) /\ d.todo = <<>>
            /\ d.log # <<>> /\ Last(d.log).kind = d.sub /\ Last(d.log).by = d.by
            /\ Last(d.log).round = d.round

(* The arguments and the parameters that a call holds are those last set.  *)
LastingIn(log) == {j \in DOMAIN log : Lasting(log, j)}

EarlierIn(log, round) == {j \in LastingIn(log) : log[j].round < round}

HoldsArgs(d) ==
  LET current == Setters(d.log, Len(d.log), d.round)
  IN /\ d.pc \in {"enter", "function"} => d.args = LastOf(d.log, current)
     /\ d.pc = "pre" =>
          /\ d.args = LastOf(d.log, EarlierIn(d.log, d.round))
          /\ d.sub \in {"continue", "modify"} => d.given = LastOf(d.log, current)
          /\ d.sub = "continue" => d.given = d.args
          /\ d.sub = "modify" => d.given = d.by
     /\ d.pc \in {"leave", "post"} =>
          (IF d.pc = "post" /\ d.sub = "retryAnew" THEN d.by ELSE d.args)
            = LastOf(d.log, LastingIn(d.log))

HoldsResult(d) ==
  /\ d.pc \in {"leave", "post"} => d.log # <<>> /\ Last(d.log).round = d.round
  /\ d.pc = "leave" =>
       Last(d.log).kind \in {"called", "abort"} /\ d.result = Last(d.log).by
  /\ d.pc = "post" =>
       /\ d.sub = "continue" => d.result = ResultOf(d.log)
       /\ d.sub \in {"modify", "throw"} => d.by = ResultOf(d.log)

EventsInv ==
  /\ EventsTypeOK /\ InOrder /\ Registrations
  /\ \A c \in Calls : /\ Phases(listeners, call[c]) /\ Emitting(listeners, call[c])
                      /\ HoldsArgs(call[c]) /\ HoldsResult(call[c])
  /\ HeardInTurn
=============================================================================
