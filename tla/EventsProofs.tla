---------------------------- MODULE EventsProofs ----------------------------
(***************************************************************************)
(* Proofs about Events and MetricReporter (src/core/events).               *)
(*                                                                         *)
(* Events, for any calls, callbacks, priorities, filters and rounds: first *)
(* what on makes of a sorted list and what an entry more makes of a log,   *)
(* then that every step of a call leaves it as CallGood has it, then the   *)
(* properties.                                                             *)
(*                                                                         *)
(* MetricReporter, for any subjects, debounce times, lateness of the event *)
(* loop and bounds: first what aggregateMetrics counts, then that every    *)
(* action preserves IInv, then the properties.                             *)
(***************************************************************************)
EXTENDS Events, MetricReporter, FiniteSetTheorems, SequenceTheorems,
        WellFoundedInduction, TLAPS

(***************************************************************************)
(* Events: lists of listeners.                                             *)
(***************************************************************************)

LEMMA PlaceOf ==
  ASSUME NEW n \in DOMAIN Callbacks
  PROVE  Place(Callbacks[n]) = n
  BY CallbacksAssumption DEF Place, IsInjective

(* A set of natural numbers that is not empty has a least element.         *)
LEMMA LeastOf ==
  ASSUME NEW T \in SUBSET Nat, T # {}
  PROVE  \E x \in T : \A y \in T : x <= y
<1> DEFINE R == OpToRel(<, Nat)
<1>1. IsWellFoundedOn(R, Nat)
  BY NatLessThanWellFounded
<1>2. \A y, x \in Nat : y < x => <<y, x>> \in R
  BY DEF OpToRel
<1> HIDE DEF R
<1>3. PICK x \in T : \A y \in T : ~ (<<y, x>> \in R)
  BY <1>1, WFMin
<1>4. \A y \in T : ~ (y < x)
  BY <1>2, <1>3, Zenon
<1>5. QED
  BY <1>4

LEMMA ListenerType ==
  ASSUME NEW l \in Listener
  PROVE  l.id \in Range(Callbacks) /\ l.priority \in Nat /\ l.filter \in Filters
  BY PrioritiesAssumption DEF Listener

LEMMA InList ==
  ASSUME NEW list \in Seq(Listener), NEW i \in DOMAIN list
  PROVE  list[i] \in Listener /\ list[i].priority \in Nat
<1>1. list[i] \in Listener
  OBVIOUS
<1>2. QED
  BY <1>1, ListenerType

(* In a sorted list the listeners with at most a given priority are those  *)
(* up to a position: the code of Position chooses it.                      *)
LEMMA SortedPriorities ==
  ASSUME NEW list \in Seq(Listener), Sorted(list)
  PROVE  \A i, j \in DOMAIN list : i <= j => list[i].priority <= list[j].priority
<1> SUFFICES ASSUME NEW i \in DOMAIN list, NEW j \in DOMAIN list, i <= j
             PROVE  list[i].priority <= list[j].priority
  OBVIOUS
<1>1. list[i].priority \in Nat /\ list[j].priority \in Nat
  BY InList
<1>2. CASE i = j
  BY <1>1, <1>2
<1>3. CASE i # j
  BY <1>1, <1>3 DEF Sorted, Precedes
<1>4. QED
  BY <1>2, <1>3

LEMMA PositionSplits ==
  ASSUME NEW list \in Seq(Listener), Sorted(list), NEW l \in Listener
  PROVE  /\ Position(l, list) \in 0..Len(list)
         /\ \A i \in DOMAIN list : list[i].priority <= l.priority <=> i <= Position(l, list)
<1> DEFINE T == {n \in 0..Len(list) : \A i \in DOMAIN list : i > n => list[i].priority > l.priority}
<1>0. Len(list) \in Nat /\ DOMAIN list = 1..Len(list)
  OBVIOUS
<1>1. \A i \in DOMAIN list : list[i].priority \in Nat
  BY InList
<1>2. l.priority \in Nat
  BY ListenerType
<1>3. T \in SUBSET Nat /\ Len(list) \in T
  BY <1>0
<1>4. PICK n \in T : \A y \in T : n <= y
  BY <1>3, LeastOf
<1>5. \A i \in DOMAIN list : i > n => list[i].priority > l.priority
  OBVIOUS
<1>6. n \in 0..Len(list)
  OBVIOUS
<1>7. ASSUME n > 0 PROVE list[n].priority <= l.priority
  <2>1. n \in DOMAIN list /\ n - 1 \in 0..Len(list)
    BY <1>0, <1>6, <1>7
  <2>2. n - 1 \notin T
    BY <1>4, <1>6, <1>7
  <2>3. PICK i \in DOMAIN list : i > n - 1 /\ ~(list[i].priority > l.priority)
    BY <2>1, <2>2
  <2>4. i = n
    BY <1>0, <1>5, <1>6, <2>3
  <2>5. QED
    BY <2>1, <2>3, <2>4, <1>1, <1>2
<1>8. \A i \in DOMAIN list : list[i].priority <= l.priority <=> i <= n
  <2> SUFFICES ASSUME NEW i \in DOMAIN list
               PROVE  list[i].priority <= l.priority <=> i <= n
    OBVIOUS
  <2>1. CASE i > n
    BY <1>0, <1>1, <1>2, <1>5, <1>6, <2>1
  <2>2. CASE i <= n
    <3>1. n > 0 /\ n \in DOMAIN list
      BY <1>0, <1>6, <2>2
    <3>2. list[i].priority <= list[n].priority
      BY <2>2, <3>1, SortedPriorities
    <3>3. QED
      BY <1>1, <1>2, <1>7, <2>2, <3>1, <3>2
  <2>3. QED
    BY <1>0, <1>6, <2>1, <2>2
<1>9. QED
  BY <1>6, <1>8 DEF Position

(* The new listener stands at its position and moves those after it by one.*)
LEMMA InsertAtShape ==
  ASSUME NEW list \in Seq(Listener), NEW l \in Listener, NEW n \in 0..Len(list)
  PROVE  LET longer == InsertAt(list, n + 1, l)
         IN /\ longer \in Seq(Listener) /\ Len(longer) = Len(list) + 1
            /\ \A i \in 1..n : longer[i] = list[i]
            /\ longer[n + 1] = l
            /\ \A i \in n + 1..Len(list) : longer[i + 1] = list[i]
<1> DEFINE front == SubSeq(list, 1, n)
           back  == SubSeq(list, n + 1, Len(list))
<1>0. Len(list) \in Nat
  OBVIOUS
<1>1. /\ front \in Seq(Listener) /\ Len(front) = n
      /\ \A i \in 1..n : front[i] = list[i]
  BY <1>0
<1>2. /\ back \in Seq(Listener) /\ Len(back) = Len(list) - n
      /\ \A i \in 1..(Len(list) - n) : back[i] = list[n + i]
  BY <1>0
<1> HIDE DEF front, back
<1> DEFINE middle == <<l>>
           begun  == front \o middle
           longer == begun \o back
<1>m. middle \in Seq(Listener) /\ Len(middle) = 1 /\ middle[1] = l
  OBVIOUS
<1>3. InsertAt(list, n + 1, l) = longer
  <2>1. (n + 1) - 1 = n
    BY <1>0
  <2>2. front = SubSeq(list, 1, (n + 1) - 1)
    BY <2>1, Zenon DEF front
  <2>3. QED
    BY <2>2, Zenon DEF InsertAt, back
<1> HIDE DEF middle
<1>b. /\ begun \in Seq(Listener) /\ Len(begun) = n + 1
      /\ \A i \in 1..n : begun[i] = front[i]
      /\ begun[n + 1] = l
  <2>1. /\ begun \in Seq(Listener) /\ Len(begun) = Len(front) + Len(middle)
        /\ \A i \in 1..(Len(front) + Len(middle)) :
             begun[i] = IF i <= Len(front) THEN front[i] ELSE middle[i - Len(front)]
    BY <1>1, <1>m, ConcatProperties
  <2>2. n \in Nat /\ (n + 1) - n = 1 /\ n + 1 \in 1..(n + 1) /\ ~(n + 1 <= n)
    BY <1>0
  <2>3. begun[n + 1] = middle[(n + 1) - n]
    BY <1>1, <1>m, <2>1, <2>2
  <2>4. begun[n + 1] = l
    BY <1>m, <2>2, <2>3
  <2>5. QED
    BY <1>1, <1>m, <2>1, <2>2, <2>4
<1> HIDE DEF begun
<1>4. longer \in Seq(Listener) /\ Len(longer) = Len(list) + 1
  <2>1. longer \in Seq(Listener) /\ Len(longer) = Len(begun) + Len(back)
    BY <1>b, <1>2, ConcatProperties
  <2>2. (n + 1) + (Len(list) - n) = Len(list) + 1
    BY <1>0
  <2>3. QED
    BY <2>1, <2>2, <1>b, <1>2, Zenon
<1>5. \A i \in 1..n : longer[i] = list[i]
  BY <1>0, <1>1, <1>2, <1>b
<1>6. longer[n + 1] = l
  BY <1>0, <1>2, <1>b
<1>7. \A i \in n + 1..Len(list) : longer[i + 1] = list[i]
  <2> SUFFICES ASSUME NEW i \in n + 1..Len(list) PROVE longer[i + 1] = list[i]
    OBVIOUS
  <2>1. longer[i + 1] = back[i - n]
    BY <1>0, <1>2, <1>b
  <2>2. back[i - n] = list[n + (i - n)]
    BY <1>0, <1>2
  <2>3. n + (i - n) = i
    BY <1>0
  <2>4. list[n + (i - n)] = list[i]
    BY <2>3, Zenon
  <2>5. QED
    BY <2>1, <2>2, <2>4
<1>8. QED
  BY <1>3, <1>4, <1>5, <1>6, <1>7

(* What on does to a list, for a listener registered after all in it: it   *)
(* stays sorted, and has the new listener in it besides those it had.      *)
LEMMA InsertedSorted ==
  ASSUME NEW list \in Seq(Listener), Sorted(list), NEW l \in Listener,
         \A i \in DOMAIN list : Place(list[i].id) \in Nat /\ Place(list[i].id) < Place(l.id),
         Place(l.id) \in Nat
  PROVE  LET longer == Inserted(l, list)
             n == Position(l, list)
         IN /\ longer \in Seq(Listener) /\ Sorted(longer)
            /\ n \in 0..Len(list) /\ Len(longer) = Len(list) + 1
            /\ \A i \in 1..n : longer[i] = list[i]
            /\ longer[n + 1] = l
            /\ \A i \in n + 1..Len(list) : longer[i + 1] = list[i]
            /\ \A i \in DOMAIN longer :
                 (longer[i] = l /\ i = n + 1) \/ \E j \in DOMAIN list : longer[i] = list[j] /\ i = IF j <= n THEN j ELSE j + 1
<1> DEFINE n == Position(l, list)
           longer == Inserted(l, list)
<1>1. /\ n \in 0..Len(list)
      /\ \A i \in DOMAIN list : list[i].priority <= l.priority <=> i <= n
  BY PositionSplits
<1>2. /\ longer \in Seq(Listener) /\ Len(longer) = Len(list) + 1
      /\ \A i \in 1..n : longer[i] = list[i]
      /\ longer[n + 1] = l
      /\ \A i \in n + 1..Len(list) : longer[i + 1] = list[i]
  BY <1>1, InsertAtShape DEF Inserted
<1> HIDE DEF n, longer
<1>0. Len(list) \in Nat /\ n \in Nat /\ n <= Len(list) /\ DOMAIN list = 1..Len(list)
      /\ DOMAIN longer = 1..(Len(list) + 1)
  BY <1>1, <1>2
<1>3. \A i \in DOMAIN longer :
        (longer[i] = l /\ i = n + 1)
          \/ \E j \in DOMAIN list : longer[i] = list[j] /\ i = IF j <= n THEN j ELSE j + 1
  <2> SUFFICES ASSUME NEW i \in 1..(Len(list) + 1)
               PROVE  (longer[i] = l /\ i = n + 1)
                        \/ \E j \in DOMAIN list : longer[i] = list[j] /\ i = IF j <= n THEN j ELSE j + 1
    BY <1>0
  <2>1. CASE i <= n
    <3>1. i \in 1..n /\ i \in DOMAIN list
      BY <1>0, <2>1
    <3>2. longer[i] = list[i] /\ i = IF i <= n THEN i ELSE i + 1
      BY <1>2, <2>1, <3>1
    <3>3. QED
      BY <3>1, <3>2
  <2>2. CASE i = n + 1
    BY <1>2, <2>2
  <2>3. CASE i > n + 1
    <3>1. i - 1 \in n + 1..Len(list) /\ (i - 1) + 1 = i /\ i - 1 \in DOMAIN list
          /\ ~(i - 1 <= n)
      BY <1>0, <2>3
    <3>2. longer[(i - 1) + 1] = list[i - 1]
      BY <1>2, <3>1
    <3>3. longer[i] = list[i - 1]
      BY <3>1, <3>2
    <3>4. QED
      BY <3>1, <3>3
  <2>4. QED
    BY <1>0, <2>1, <2>2, <2>3
<1>4. Sorted(longer)
  <2> SUFFICES ASSUME NEW i \in DOMAIN longer, NEW j \in DOMAIN longer, i < j
               PROVE  Precedes(longer[i], longer[j])
    BY DEF Sorted
  <2>0. i \in Nat /\ j \in Nat
    BY <1>0
  <2>1. l.priority \in Nat /\ \A k \in DOMAIN list : list[k].priority \in Nat
    BY InList, ListenerType
  <2>2. CASE longer[i] = l /\ i = n + 1
    <3>1. PICK m \in DOMAIN list : longer[j] = list[m] /\ j = IF m <= n THEN m ELSE m + 1
      BY <1>3, <2>2, <1>0
    <3>2. ~(m <= n)
      BY <1>0, <2>2, <3>1
    <3>3. l.priority < list[m].priority
      BY <1>1, <2>1, <3>2
    <3>4. QED
      BY <2>2, <3>1, <3>3 DEF Precedes
  <2>3. CASE \E m \in DOMAIN list : longer[i] = list[m] /\ i = IF m <= n THEN m ELSE m + 1
    <3>1. PICK m \in DOMAIN list : longer[i] = list[m] /\ i = IF m <= n THEN m ELSE m + 1
      BY <2>3
    <3>2. CASE longer[j] = l /\ j = n + 1
      <4>1. m <= n
        BY <1>0, <3>1, <3>2
      <4>2. list[m].priority <= l.priority
        BY <1>1, <4>1
      <4>3. QED
        BY <2>1, <3>1, <3>2, <4>2 DEF Precedes
    <3>3. CASE \E k \in DOMAIN list : longer[j] = list[k] /\ j = IF k <= n THEN k ELSE k + 1
      <4>1. PICK k \in DOMAIN list : longer[j] = list[k] /\ j = IF k <= n THEN k ELSE k + 1
        BY <3>3
      <4>2. m < k
        BY <1>0, <3>1, <4>1
      <4>3. QED
        BY <3>1, <4>1, <4>2 DEF Sorted
    <3>4. QED
      BY <1>3, <3>2, <3>3
  <2>4. QED
    BY <1>3, <2>2, <2>3
<1>5. QED
  BY <1>0, <1>1, <1>2, <1>3, <1>4 DEF n, longer

(* A list of lists has a listener in one place: its id tells which it is.  *)
Distinct(lists) ==
  \A g, h \in Hooks : \A i \in DOMAIN lists[g], j \in DOMAIN lists[h] :
    lists[g][i].id = lists[h][j].id => g = h /\ i = j

LEMMA ListenerOfId ==
  ASSUME NEW lists, Distinct(lists), NEW l \in Every(lists)
  PROVE  ListenerOf(Every(lists), l.id) = l
<1>1. \A k \in Every(lists) : k.id = l.id => k = l
  BY DEF Every, Range, Distinct
<1>2. QED
  BY <1>1 DEF ListenerOf

(* How the lists change: they keep what they have.                         *)
Grows(lists, longer) ==
  \A hook \in Hooks : Range(lists[hook]) \subseteq Range(longer[hook])

LEMMA GrowsEvery ==
  ASSUME NEW lists, NEW longer, Grows(lists, longer)
  PROVE  Every(lists) \subseteq Every(longer)
  BY DEF Grows, Every

LEMMA OneMore ==
  ASSUME NEW a \in Nat, NEW b \in Nat
  PROVE  (a + 1) + b = (a + b) + 1 /\ a + (b + 1) = (a + b) + 1
  OBVIOUS

LEMMA OnLists ==
  ASSUME EventsTypeOK, InOrder, Registrations,
         NEW hook \in Hooks, NEW priority \in Priorities, NEW filter \in Filters,
         On(hook, priority, filter)
  PROVE  /\ listeners' \in [Hooks -> Seq(Listener)]
         /\ \A h \in Hooks : Sorted(listeners'[h])
         /\ Registrations'
         /\ Grows(listeners, listeners')
<1> DEFINE m    == Registered + 1
           l    == [id |-> Callbacks[m], priority |-> priority, filter |-> filter]
           list == listeners[hook]
           n    == Position(l, list)
<1>1. /\ listeners \in [Hooks -> Seq(Listener)] /\ list \in Seq(Listener)
      /\ Sorted(list) /\ Registered \in Nat
  BY DEF EventsTypeOK, InOrder, Registered, Hooks
<1>2. Callbacks \in Seq(Range(Callbacks)) /\ Len(Callbacks) \in Nat
      /\ DOMAIN Callbacks = 1..Len(Callbacks)
  BY CallbacksAssumption
<1>3. m \in DOMAIN Callbacks /\ Registered < m
  BY <1>1, <1>2 DEF On
<1>4. l \in Listener /\ l.id = Callbacks[m]
  BY <1>3 DEF Listener, Range
<1>5. Place(l.id) = m
  BY <1>3, <1>4, PlaceOf
<1>6. \A h \in Hooks : \A i \in DOMAIN listeners[h] :
        /\ Place(listeners[h][i].id) \in 1..Registered
        /\ listeners[h][i].id # l.id
  <2> SUFFICES ASSUME NEW h \in Hooks, NEW i \in DOMAIN listeners[h]
               PROVE  /\ Place(listeners[h][i].id) \in 1..Registered
                      /\ listeners[h][i].id # l.id
    OBVIOUS
  <2>1. PICK k \in 1..Registered : listeners[h][i].id = Callbacks[k]
    BY DEF Registrations
  <2>2. k \in DOMAIN Callbacks /\ k # m
    BY <1>1, <1>2, <1>3
  <2>3. QED
    BY <1>3, <1>4, <2>1, <2>2, PlaceOf
<1> HIDE DEF l, m
<1>7. listeners' = [listeners EXCEPT ![hook] = Inserted(l, list)]
  BY DEF On, l, m
<1> DEFINE longer == Inserted(l, list)
<1>8. /\ longer \in Seq(Listener) /\ Sorted(longer)
      /\ n \in 0..Len(list) /\ Len(longer) = Len(list) + 1
      /\ \A i \in 1..n : longer[i] = list[i]
      /\ longer[n + 1] = l
      /\ \A i \in n + 1..Len(list) : longer[i + 1] = list[i]
      /\ \A i \in DOMAIN longer :
           (longer[i] = l /\ i = n + 1)
             \/ \E j \in DOMAIN list : longer[i] = list[j] /\ i = IF j <= n THEN j ELSE j + 1
  <2>1. /\ \A i \in DOMAIN list : Place(list[i].id) \in Nat /\ Place(list[i].id) < Place(l.id)
        /\ Place(l.id) \in Nat
    BY <1>1, <1>2, <1>3, <1>5, <1>6
  <2>2. QED
    BY <1>1, <1>4, <2>1, InsertedSorted
<1> HIDE DEF longer, n
<1>9. /\ listeners' \in [Hooks -> Seq(Listener)]
      /\ \A h \in Hooks : Sorted(listeners'[h])
  BY <1>1, <1>7, <1>8 DEF InOrder, longer
<1>10. \A h \in Hooks : listeners'[h] = IF h = hook THEN longer ELSE listeners[h]
  BY <1>1, <1>7 DEF longer
<1>11. Registered' = m
  <2>1. /\ Len(listeners["pre"]) \in Nat /\ Len(listeners["post"]) \in Nat
    BY <1>1 DEF Hooks
  <2>2. \A h \in Hooks :
          Len(listeners'[h]) = IF h = hook THEN Len(listeners[h]) + 1 ELSE Len(listeners[h])
    BY <1>8, <1>10
  <2>3. "pre" # "post" /\ "pre" \in Hooks /\ "post" \in Hooks /\ hook \in {"pre", "post"}
    BY DEF Hooks
  <2>4. Len(listeners'["pre"]) + Len(listeners'["post"])
          = (Len(listeners["pre"]) + Len(listeners["post"])) + 1
    <3>1. CASE hook = "pre"
      <4>1. /\ Len(listeners'["pre"]) = Len(listeners["pre"]) + 1
            /\ Len(listeners'["post"]) = Len(listeners["post"])
        BY <2>2, <2>3, <3>1
      <4>2. QED
        BY <2>1, <4>1, OneMore
    <3>2. CASE hook = "post"
      <4>1. /\ Len(listeners'["pre"]) = Len(listeners["pre"])
            /\ Len(listeners'["post"]) = Len(listeners["post"]) + 1
        BY <2>2, <2>3, <3>2
      <4>2. QED
        BY <2>1, <4>1, OneMore
    <3>3. QED
      BY <2>3, <3>1, <3>2
  <2>5. QED
    BY <2>4 DEF Registered, m
<1>12. \A h \in Hooks : \A i \in DOMAIN listeners'[h] :
         \/ h = hook /\ i = n + 1 /\ listeners'[h][i] = l
         \/ \E j \in DOMAIN listeners[h] :
              /\ listeners'[h][i] = listeners[h][j]
              /\ i = IF h = hook /\ ~(j <= n) THEN j + 1 ELSE j
  <2> SUFFICES ASSUME NEW h \in Hooks, NEW i \in DOMAIN listeners'[h]
               PROVE  \/ h = hook /\ i = n + 1 /\ listeners'[h][i] = l
                      \/ \E j \in DOMAIN listeners[h] :
                           /\ listeners'[h][i] = listeners[h][j]
                           /\ i = IF h = hook /\ ~(j <= n) THEN j + 1 ELSE j
    OBVIOUS
  <2>1. CASE h = hook
    BY <1>8, <1>10, <2>1
  <2>2. CASE h # hook
    BY <1>10, <2>2
  <2>3. QED
    BY <2>1, <2>2
<1>13. Grows(listeners, listeners')
  <2> SUFFICES ASSUME NEW h \in Hooks, NEW j \in DOMAIN listeners[h]
               PROVE  \E i \in DOMAIN listeners'[h] : listeners'[h][i] = listeners[h][j]
    BY DEF Grows, Range
  <2>1. CASE h # hook
    BY <1>10, <2>1
  <2>2. CASE h = hook
    <3>1. j \in 1..Len(list) /\ Len(list) \in Nat /\ DOMAIN longer = 1..(Len(list) + 1)
      BY <1>1, <1>8, <2>2
    <3>2. CASE j <= n
      BY <1>8, <1>10, <2>2, <3>1, <3>2
    <3>3. CASE ~(j <= n)
      <4>1. n \in Nat /\ j \in n + 1..Len(list) /\ j + 1 \in DOMAIN longer
        BY <1>8, <3>1, <3>3
      <4>2. longer[j + 1] = list[j]
        BY <1>8, <4>1
      <4>3. QED
        BY <1>10, <2>2, <4>1, <4>2
    <3>4. QED
      BY <3>2, <3>3
  <2>3. QED
    BY <2>1, <2>2
<1>14. Registrations'
  <2>1. Registered' <= Len(Callbacks)
    BY <1>2, <1>3, <1>11
  <2>2. ASSUME NEW h \in Hooks, NEW i \in DOMAIN listeners'[h]
        PROVE  \E k \in 1..m : listeners'[h][i].id = Callbacks[k]
    <3>1. CASE listeners'[h][i] = l
      BY <1>2, <1>3, <1>4, <3>1
    <3>2. CASE \E j \in DOMAIN listeners[h] : listeners'[h][i] = listeners[h][j]
      <4>1. PICK j \in DOMAIN listeners[h] : listeners'[h][i] = listeners[h][j]
        BY <3>2
      <4>2. PICK k \in 1..Registered : listeners[h][j].id = Callbacks[k]
        BY DEF Registrations
      <4>3. k \in 1..m
        BY <1>1, <4>2 DEF m
      <4>4. QED
        BY <4>1, <4>2, <4>3
    <3>3. QED
      BY <1>12, <3>1, <3>2
  <2>3. ASSUME NEW g \in Hooks, NEW h \in Hooks,
               NEW i \in DOMAIN listeners'[g], NEW j \in DOMAIN listeners'[h],
               listeners'[g][i].id = listeners'[h][j].id
        PROVE  g = h /\ i = j
    <3>1. CASE g = hook /\ i = n + 1 /\ listeners'[g][i] = l
      BY <1>6, <1>12, <2>3, <3>1
    <3>2. CASE h = hook /\ j = n + 1 /\ listeners'[h][j] = l
      BY <1>6, <1>12, <2>3, <3>2
    <3>3. CASE /\ \E a \in DOMAIN listeners[g] :
                    /\ listeners'[g][i] = listeners[g][a]
                    /\ i = IF g = hook /\ ~(a <= n) THEN a + 1 ELSE a
               /\ \E b \in DOMAIN listeners[h] :
                    /\ listeners'[h][j] = listeners[h][b]
                    /\ j = IF h = hook /\ ~(b <= n) THEN b + 1 ELSE b
      <4>1. PICK a \in DOMAIN listeners[g], b \in DOMAIN listeners[h] :
              /\ listeners'[g][i] = listeners[g][a]
              /\ i = IF g = hook /\ ~(a <= n) THEN a + 1 ELSE a
              /\ listeners'[h][j] = listeners[h][b]
              /\ j = IF h = hook /\ ~(b <= n) THEN b + 1 ELSE b
        BY <3>3
      <4>2. g = h /\ a = b
        BY <2>3, <4>1 DEF Registrations
      <4>3. QED
        BY <4>1, <4>2
    <3>4. QED
      BY <1>12, <3>1, <3>2, <3>3
  <2>4. QED
    BY <2>1, <2>2, <2>3, <1>11 DEF Registrations
<1>15. QED
  BY <1>9, <1>13, <1>14

(***************************************************************************)
(* Events: the log of a call, and what one entry more changes.             *)
(***************************************************************************)

LEMMA GreatestOf ==
  ASSUME NEW n \in Nat, NEW S \in SUBSET (1..n), S # {}
  PROVE  Max(S) \in S /\ \A k \in S : k <= Max(S)
<1> DEFINE T == {m \in Nat : \A k \in S : k <= m}
<1>1. T \in SUBSET Nat /\ n \in T
  OBVIOUS
<1>2. PICK m \in T : \A y \in T : m <= y
  BY <1>1, LeastOf
<1>3. \A k \in S : k \in Nat /\ k >= 1 /\ k <= m
  OBVIOUS
<1>4. m \in S
  <2> SUFFICES ASSUME m \notin S PROVE FALSE
    OBVIOUS
  <2>1. m >= 1 /\ m - 1 \in Nat
    <3>1. PICK k \in S : TRUE
      OBVIOUS
    <3>2. m \in Nat /\ k \in Nat /\ k >= 1 /\ k <= m
      BY <1>3
    <3>3. QED
      BY <3>2
  <2>2. \A k \in S : k <= m - 1
    BY <1>3
  <2>3. m - 1 \in T
    BY <2>1, <2>2
  <2>4. QED
    BY <1>2, <2>3
<1>5. \E x \in S : \A y \in S : x >= y
  BY <1>3, <1>4
<1>6. Max(S) \in S /\ \A y \in S : Max(S) >= y
  BY <1>5, Zenon DEF Max
<1>7. QED
  BY <1>3, <1>6

LEMMA GreatestIs ==
  ASSUME NEW S \in SUBSET Nat, NEW m \in S, \A k \in S : k <= m
  PROVE  Max(S) = m
<1>1. \E x \in S : \A y \in S : x >= y
  OBVIOUS
<1>2. Max(S) \in S /\ \A y \in S : Max(S) >= y
  BY <1>1, Zenon DEF Max
<1>3. Max(S) \in Nat /\ m \in Nat /\ Max(S) <= m /\ Max(S) >= m
  BY <1>2
<1>4. QED
  BY <1>3

LEMMA Appended ==
  ASSUME NEW log \in Seq(Entry), NEW e \in Entry
  PROVE  LET longer == Append(log, e)
         IN /\ longer \in Seq(Entry) /\ Len(log) \in Nat
            /\ DOMAIN log = 1..Len(log) /\ DOMAIN longer = 1..(Len(log) + 1)
            /\ Len(longer) = Len(log) + 1
            /\ \A i \in 1..Len(log) : longer[i] = log[i]
            /\ longer[Len(log) + 1] = e
            /\ longer # <<>> /\ Last(longer) = e
  BY DEF Last

LEMMA EntryType ==
  ASSUME NEW log \in Seq(Entry), NEW i \in DOMAIN log
  PROVE  log[i] \in Entry /\ log[i].round \in Nat /\ log[i].by \in Who
<1>1. log[i] \in Entry
  OBVIOUS
<1>2. \A e \in Entry : e.round \in Nat /\ e.by \in Who
  BY RoundsAssumption DEF Entry
<1>3. QED
  BY <1>1, <1>2

LEMMA LastOfAppend ==
  ASSUME NEW log \in Seq(Entry), NEW e \in Entry, NEW S \in SUBSET (1..Len(log))
  PROVE  /\ LastOf(Append(log, e), S) = LastOf(log, S)
         /\ LastOf(Append(log, e), S \cup {Len(log) + 1}) = e.by
<1> DEFINE longer == Append(log, e)
           n      == Len(log)
<1>1. n \in Nat /\ \A i \in 1..n : longer[i] = log[i]
  BY Appended
<1>2. longer[n + 1] = e
  BY Appended
<1>3. LastOf(longer, S) = LastOf(log, S)
  <2>1. CASE S = {}
    BY <2>1 DEF LastOf
  <2>2. CASE S # {}
    BY <1>1, <2>2, GreatestOf DEF LastOf
  <2>3. QED
    BY <2>1, <2>2
<1>4. Max(S \cup {n + 1}) = n + 1
  <2>0. n \in Nat /\ \A k \in S : k \in Nat /\ k <= n
    BY <1>1
  <2> HIDE DEF n
  <2>1. S \cup {n + 1} \in SUBSET Nat /\ \A k \in S \cup {n + 1} : k <= n + 1
    BY <2>0
  <2>2. QED
    BY <2>1, GreatestIs
<1>5. LastOf(longer, S \cup {n + 1}) = e.by
  BY <1>2, <1>4 DEF LastOf
<1>6. QED
  BY <1>3, <1>5

LEMMA LastingAppend ==
  ASSUME NEW log \in Seq(Entry), NEW e \in Entry, NEW j \in 1..Len(log)
  PROVE  LET longer == Append(log, e)
         IN /\ ModifiesArgs(longer, j) <=> ModifiesArgs(log, j)
            /\ Lasting(longer, j) <=>
                 /\ Lasting(log, j)
                 /\ e.kind = "abort" /\ log[j].kind # "retryAnew" => log[j].round # e.round
<1> DEFINE longer == Append(log, e)
<1>1. /\ Len(log) \in Nat /\ DOMAIN log = 1..Len(log) /\ DOMAIN longer = 1..(Len(log) + 1)
      /\ \A i \in 1..Len(log) : longer[i] = log[i]
      /\ longer[Len(log) + 1] = e
  BY Appended
<1> HIDE DEF longer
<1>2. longer[j] = log[j]
  BY <1>1
<1>3. Aborted(longer, j) <=> Aborted(log, j) \/ (e.kind = "abort" /\ log[j].round = e.round)
  <2>1. Aborted(longer, j) => Aborted(log, j) \/ (e.kind = "abort" /\ log[j].round = e.round)
    <3> SUFFICES ASSUME NEW k \in DOMAIN longer, longer[k].round = longer[j].round,
                        longer[k].kind = "abort"
                 PROVE  Aborted(log, j) \/ (e.kind = "abort" /\ log[j].round = e.round)
      BY DEF Aborted
    <3>1. CASE k \in 1..Len(log)
      BY <1>1, <1>2, <3>1 DEF Aborted
    <3>2. CASE k = Len(log) + 1
      BY <1>1, <1>2, <3>2
    <3>3. QED
      BY <1>1, <3>1, <3>2
  <2>2. Aborted(log, j) => Aborted(longer, j)
    <3> SUFFICES ASSUME NEW k \in DOMAIN log, log[k].round = log[j].round,
                        log[k].kind = "abort"
                 PROVE  Aborted(longer, j)
      BY DEF Aborted
    <3>1. k \in DOMAIN longer /\ longer[k] = log[k]
      BY <1>1
    <3>2. QED
      BY <1>2, <3>1 DEF Aborted
  <2>3. e.kind = "abort" /\ log[j].round = e.round => Aborted(longer, j)
    <3>1. Len(log) + 1 \in DOMAIN longer
      BY <1>1
    <3>2. QED
      BY <1>1, <1>2, <3>1 DEF Aborted
  <2>4. QED
    BY <2>1, <2>2, <2>3
<1>4. ModifiesArgs(longer, j) <=> ModifiesArgs(log, j)
  BY <1>2 DEF ModifiesArgs
<1>5. ModifiesArgs(log, j) => log[j].kind # "retryAnew"
  BY DEF ModifiesArgs
<1>6. QED
  BY <1>2, <1>3, <1>4, <1>5 DEF Lasting, longer

(* An entry more does not change who had set the arguments before it.      *)
LEMMA SettersAppend ==
  ASSUME NEW log \in Seq(Entry), NEW e \in Entry, RoundByRound(log, e.round)
  PROVE  /\ \A i \in DOMAIN log :
              Setters(Append(log, e), i - 1, log[i].round) = Setters(log, i - 1, log[i].round)
         /\ Setters(Append(log, e), Len(log), e.round) = Setters(log, Len(log), e.round)
<1> DEFINE longer == Append(log, e)
<1>1. /\ Len(log) \in Nat /\ DOMAIN log = 1..Len(log)
      /\ \A i \in 1..Len(log) : longer[i] = log[i]
  BY Appended
<1> HIDE DEF longer
<1>2. \A j \in 1..Len(log) :
        /\ ModifiesArgs(longer, j) <=> ModifiesArgs(log, j)
        /\ Lasting(longer, j) <=>
             /\ Lasting(log, j)
             /\ e.kind = "abort" /\ log[j].kind # "retryAnew" => log[j].round # e.round
  BY LastingAppend DEF longer
<1>3. \A j \in 1..Len(log) : Lasting(log, j) /\ log[j].kind # "retryAnew" => ModifiesArgs(log, j)
  BY DEF Lasting
<1>4. ASSUME NEW m \in 0..Len(log), NEW round,
             \A j \in 1..m : log[j].round = e.round => log[j].round = round
      PROVE  Setters(longer, m, round) = Setters(log, m, round)
  <2>1. \A j \in 1..m : j \in 1..Len(log) /\ longer[j] = log[j]
    BY <1>1
  <2>2. \A j \in 1..m :
          Lasting(longer, j) \/ (ModifiesArgs(longer, j) /\ longer[j].round = round)
            <=> Lasting(log, j) \/ (ModifiesArgs(log, j) /\ log[j].round = round)
    BY <1>2, <1>3, <1>4, <2>1
  <2>3. QED
    BY <2>2, Zenon DEF Setters
<1>5. \A i \in DOMAIN log : Setters(longer, i - 1, log[i].round) = Setters(log, i - 1, log[i].round)
  <2> SUFFICES ASSUME NEW i \in DOMAIN log
               PROVE  Setters(longer, i - 1, log[i].round) = Setters(log, i - 1, log[i].round)
    OBVIOUS
  <2>1. i - 1 \in 0..Len(log) /\ \A j \in 1..i - 1 : j \in DOMAIN log /\ j <= i
    BY <1>1
  <2>2. \A j \in 1..i - 1 : log[j].round <= log[i].round /\ log[i].round <= e.round
    BY <2>1 DEF RoundByRound
  <2>3. \A j \in 1..i - 1 : log[j].round = e.round => log[j].round = log[i].round
    BY <2>1, <2>2, EntryType
  <2>4. QED
    BY <1>4, <2>1, <2>3
<1>6. Setters(longer, Len(log), e.round) = Setters(log, Len(log), e.round)
  BY <1>1, <1>4
<1>7. QED
  BY <1>5, <1>6 DEF longer

LEMMA ArgsAppend ==
  ASSUME NEW log \in Seq(Entry), NEW e \in Entry, RoundByRound(log, e.round),
         ArgsAsLastSet(log),
         e.at # "post" => e.given = LastOf(log, Setters(log, Len(log), e.round))
  PROVE  ArgsAsLastSet(Append(log, e))
<1> DEFINE longer == Append(log, e)
           n      == Len(log)
<1>1. /\ n \in Nat /\ DOMAIN log = 1..n /\ DOMAIN longer = 1..(n + 1)
      /\ \A i \in 1..n : longer[i] = log[i]
      /\ longer[n + 1] = e
  BY Appended
<1>2. /\ \A i \in DOMAIN log :
           Setters(longer, i - 1, log[i].round) = Setters(log, i - 1, log[i].round)
      /\ Setters(longer, n, e.round) = Setters(log, n, e.round)
  BY SettersAppend
<1>3. \A m \in 0..n : \A round : LastOf(longer, Setters(log, m, round)) = LastOf(log, Setters(log, m, round))
  <2> SUFFICES ASSUME NEW m \in 0..n, NEW round
               PROVE  LastOf(longer, Setters(log, m, round)) = LastOf(log, Setters(log, m, round))
    OBVIOUS
  <2>1. Setters(log, m, round) \in SUBSET (1..n)
    BY <1>1 DEF Setters
  <2>2. QED
    BY <2>1, LastOfAppend
<1> HIDE DEF longer, n
<1>4. ASSUME NEW i \in 1..n, longer[i].at # "post"
      PROVE  longer[i].given = LastOf(longer, Setters(longer, i - 1, longer[i].round))
  <2>1. longer[i] = log[i] /\ i \in DOMAIN log /\ i - 1 \in 0..n
    BY <1>1
  <2>2. log[i].given = LastOf(log, Setters(log, i - 1, log[i].round))
    BY <1>4, <2>1 DEF ArgsAsLastSet
  <2>3. LastOf(longer, Setters(log, i - 1, log[i].round)) = LastOf(log, Setters(log, i - 1, log[i].round))
    BY <1>3, <2>1
  <2>4. QED
    BY <1>2, <2>1, <2>2, <2>3
<1>5. ASSUME e.at # "post"
      PROVE  longer[n + 1].given = LastOf(longer, Setters(longer, (n + 1) - 1, longer[n + 1].round))
  <2>1. (n + 1) - 1 = n /\ n \in 0..n
    BY <1>1
  <2>2. LastOf(longer, Setters(log, n, e.round)) = LastOf(log, Setters(log, n, e.round))
    BY <1>3, <2>1
  <2>3. e.given = LastOf(longer, Setters(longer, n, e.round))
    BY <1>2, <1>5, <2>2 DEF n
  <2>4. QED
    BY <1>1, <2>1, <2>3
<1>6. QED
  <2> SUFFICES ASSUME NEW i \in DOMAIN longer, longer[i].at # "post"
               PROVE  longer[i].given = LastOf(longer, Setters(longer, i - 1, longer[i].round))
    BY DEF ArgsAsLastSet, longer
  <2>1. CASE i \in 1..n
    BY <1>4, <2>1
  <2>2. CASE i = n + 1
    BY <1>1, <1>5, <2>2
  <2>3. QED
    BY <1>1, <2>1, <2>2

(* What an entry more makes of the entries that have set the arguments.    *)
LEMMA LastingInAppend ==
  ASSUME NEW log \in Seq(Entry), NEW e \in Entry
  PROVE  /\ LastingIn(log) \in SUBSET (1..Len(log))
         /\ e.kind \notin {"abort", "retryAnew"} /\ ~(e.at = "pre" /\ e.kind = "modify") =>
              LastingIn(Append(log, e)) = LastingIn(log)
         /\ e.kind = "retryAnew" =>
              LastingIn(Append(log, e)) = LastingIn(log) \cup {Len(log) + 1}
         /\ EarlierIn(Append(log, e), e.round) = EarlierIn(log, e.round)
         /\ Setters(Append(log, e), Len(log) + 1, e.round) =
              Setters(Append(log, e), Len(log), e.round)
                \cup (IF e.kind = "retryAnew" \/ (e.at = "pre" /\ e.kind = "modify")
                      THEN {Len(log) + 1} ELSE {})
<1> DEFINE longer == Append(log, e)
           n      == Len(log)
<1>1. /\ n \in Nat /\ DOMAIN log = 1..n /\ DOMAIN longer = 1..(n + 1)
      /\ 1..(n + 1) = (1..n) \cup {n + 1} /\ n + 1 \notin 1..n
      /\ \A i \in 1..n : longer[i] = log[i]
      /\ longer[n + 1] = e
  BY Appended
<1>2. \A j \in 1..n : Lasting(longer, j) <=>
        /\ Lasting(log, j)
        /\ e.kind = "abort" /\ log[j].kind # "retryAnew" => log[j].round # e.round
  BY LastingAppend
<1> HIDE DEF longer, n
<1>3. /\ Lasting(longer, n + 1) => e.kind = "retryAnew" \/ (e.at = "pre" /\ e.kind = "modify")
      /\ e.kind = "retryAnew" => Lasting(longer, n + 1)
      /\ ModifiesArgs(longer, n + 1) <=> e.at = "pre" /\ e.kind = "modify"
  BY <1>1 DEF Lasting, ModifiesArgs
<1>4. LastingIn(log) \in SUBSET (1..n)
  BY <1>1 DEF LastingIn
<1>5. ASSUME e.kind \notin {"abort", "retryAnew"}, ~(e.at = "pre" /\ e.kind = "modify")
      PROVE  LastingIn(longer) = LastingIn(log)
  BY <1>1, <1>2, <1>3, <1>5 DEF LastingIn
<1>6. ASSUME e.kind = "retryAnew"
      PROVE  LastingIn(longer) = LastingIn(log) \cup {n + 1}
  BY <1>1, <1>2, <1>3, <1>6 DEF LastingIn
<1>7. EarlierIn(longer, e.round) = EarlierIn(log, e.round)
  <2>1. ~(e.round < e.round)
    BY RoundsAssumption DEF Entry
  <2>2. \A j \in 1..n : log[j].round < e.round => log[j].round # e.round
    BY <2>1
  <2>3. EarlierIn(longer, e.round) = {j \in 1..n : Lasting(longer, j) /\ log[j].round < e.round}
    BY <1>1, <2>1 DEF EarlierIn, LastingIn
  <2>4. EarlierIn(log, e.round) = {j \in 1..n : Lasting(log, j) /\ log[j].round < e.round}
    BY <1>1 DEF EarlierIn, LastingIn
  <2>5. QED
    BY <1>2, <2>2, <2>3, <2>4
<1>8. Setters(longer, n + 1, e.round) = Setters(longer, n, e.round)
        \cup (IF e.kind = "retryAnew" \/ (e.at = "pre" /\ e.kind = "modify") THEN {n + 1} ELSE {})
  BY <1>1, <1>3 DEF Setters
<1>9. QED
  BY <1>4, <1>5, <1>6, <1>7, <1>8 DEF longer, n

LEMMA InTurnAppend ==
  ASSUME NEW every, NEW log \in Seq(Entry), NEW e \in Entry, InTurn(every, log),
         log # <<>> /\ Last(log).at = e.at /\ Last(log).round = e.round =>
           Precedes(ListenerOf(every, Last(log).by), ListenerOf(every, e.by))
  PROVE  InTurn(every, Append(log, e))
<1> DEFINE longer == Append(log, e)
           n      == Len(log)
<1>1. /\ n \in Nat /\ DOMAIN log = 1..n /\ Len(longer) = n + 1
      /\ \A i \in 1..n : longer[i] = log[i]
      /\ longer[n + 1] = e
  BY Appended
<1>2. n > 0 => log # <<>> /\ Last(log) = log[n]
  BY <1>1 DEF Last
<1> HIDE DEF longer, n
<1> SUFFICES ASSUME NEW i \in 2..(n + 1),
                    longer[i - 1].at = longer[i].at, longer[i - 1].round = longer[i].round
             PROVE  Precedes(ListenerOf(every, longer[i - 1].by), ListenerOf(every, longer[i].by))
  BY <1>1 DEF InTurn, longer
<1>3. CASE i \in 2..n
  <2>1. i \in 1..n /\ i - 1 \in 1..n
    BY <1>1, <1>3
  <2>2. longer[i] = log[i] /\ longer[i - 1] = log[i - 1]
    BY <1>1, <2>1
  <2>3. QED
    BY <1>3, <2>2 DEF InTurn, n
<1>4. CASE i = n + 1
  <2>1. n \in 1..n /\ i - 1 = n /\ n > 0
    BY <1>1, <1>4
  <2>2. longer[i] = e /\ longer[i - 1] = Last(log) /\ log # <<>>
    BY <1>1, <1>2, <1>4, <2>1
  <2>3. QED
    BY <2>2
<1>5. QED
  BY <1>1, <1>3, <1>4

(* An entry that sets the result has the last word on it; another leaves   *)
(* it to those of its round.                                               *)
Decides(e) ==
  \/ e.at = "post" /\ e.kind = "modify"
  \/ e.kind \in {"throw", "abort", "called"}

LEMMA LastDecides ==
  ASSUME NEW log \in Seq(Entry), log # <<>>, Decides(Last(log))
  PROVE  ResultOf(log) = Last(log).by
<1> DEFINE n == Len(log)
           S == {i \in DOMAIN log : SetsResult(log, i)}
<1>1. n \in Nat /\ n > 0 /\ DOMAIN log = 1..n /\ Last(log) = log[n]
  BY DEF Last
<1>2. n \in S
  BY <1>1 DEF SetsResult, Decides
<1>3. S \in SUBSET Nat /\ \A k \in S : k <= n
  BY <1>1
<1>4. Max(S) = n
  BY <1>2, <1>3, GreatestIs
<1>5. QED
  BY <1>1, <1>2, <1>4 DEF ResultOf, LastOf

LEMMA ResultAppend ==
  ASSUME NEW log \in Seq(Entry), NEW e \in Entry,
         log # <<>>, Last(log).round = e.round, ~Decides(e)
  PROVE  ResultOf(Append(log, e)) = ResultOf(log)
<1> DEFINE longer == Append(log, e)
           n      == Len(log)
           S      == {i \in DOMAIN log : SetsResult(log, i)}
<1>1. /\ n \in Nat /\ DOMAIN log = 1..n /\ Len(longer) = n + 1
      /\ DOMAIN longer = 1..(n + 1)
      /\ \A i \in 1..n : longer[i] = log[i]
      /\ longer[n + 1] = e
  BY Appended
<1>2. log[n].round = e.round
  BY DEF Last
<1> HIDE DEF longer, n
<1>3. {i \in DOMAIN longer : SetsResult(longer, i)} = S
  <2>1. \A i \in 1..n : SetsResult(longer, i) <=> SetsResult(log, i)
    BY <1>1, <1>2 DEF SetsResult, n
  <2>2. ~SetsResult(longer, n + 1)
    BY <1>1 DEF SetsResult, Decides
  <2>3. QED
    BY <1>1, <2>1, <2>2
<1>4. S \in SUBSET (1..Len(log))
  BY <1>1 DEF n
<1>5. LastOf(longer, S) = LastOf(log, S)
  BY <1>4, LastOfAppend DEF longer
<1>6. QED
  BY <1>3, <1>5 DEF ResultOf, longer

(***************************************************************************)
(* Events: the calls.                                                      *)
(***************************************************************************)

CallGood(lists, d) ==
  /\ d \in CallState /\ Sorted(d.todo)
  /\ Phases(lists, d) /\ Emitting(lists, d) /\ HoldsArgs(d) /\ HoldsResult(d)
  /\ InTurn(Every(lists), d.log) /\ ArgsAsLastSet(d.log)
  /\ d.pc = "done" => d.result = ResultOf(d.log)

LEMMA CallFields ==
  ASSUME NEW d \in CallState
  PROVE  /\ d.log \in Seq(Entry) /\ Len(d.log) \in Nat /\ DOMAIN d.log = 1..Len(d.log)
         /\ d.todo \in Seq(Listener) /\ d.round \in 1..MaxRounds /\ d.round \in Nat
         /\ {d.args, d.result, d.given, d.by} \subseteq Who
         /\ d.pc \in {"idle", "enter", "pre", "function", "leave", "post", "done"}
         /\ d.placement \in Placements /\ d.sub \in Kinds
         /\ d.context \in Contexts \cup {"undefined"}
  BY RoundsAssumption DEF CallState

(* Listeners registered meanwhile disturb no call.                         *)
LEMMA GrowsGood ==
  ASSUME NEW lists, NEW longer, Distinct(lists), Distinct(longer), Grows(lists, longer),
         NEW d, CallGood(lists, d)
  PROVE  CallGood(longer, d)
<1>1. d \in CallState /\ DOMAIN d.log = 1..Len(d.log) /\ Len(d.log) \in Nat
      /\ d.log \in Seq(Entry)
  BY CallFields DEF CallGood
<1>2. Every(lists) \subseteq Every(longer)
  BY GrowsEvery
<1>3. \A l \in Every(lists) : ListenerOf(Every(longer), l.id) = ListenerOf(Every(lists), l.id)
  BY <1>2, ListenerOfId
<1>4. \A i \in DOMAIN d.log : d.log[i].at \in Hooks =>
        \E l \in Range(lists[d.log[i].at]) : l.id = d.log[i].by
  BY DEF CallGood, Phases
<1>5. \A i \in DOMAIN d.log : d.log[i].at \in Hooks =>
        ListenerOf(Every(longer), d.log[i].by) = ListenerOf(Every(lists), d.log[i].by)
  BY <1>3, <1>4 DEF Every
<1>6. Phases(longer, d)
  <2>1. \A i \in DOMAIN d.log : d.log[i].at \in Hooks =>
          \E l \in Range(longer[d.log[i].at]) : l.id = d.log[i].by
    BY <1>4 DEF Grows
  <2>2. Phases(lists, d)
    BY DEF CallGood
  <2>3. QED
    BY <2>1, <2>2 DEF Phases
<1>7. Emitting(longer, d)
  <2> SUFFICES ASSUME d.pc \in Hooks PROVE Emitting(longer, d)
    BY DEF Emitting
  <2>1. Emitting(lists, d)
    BY DEF CallGood
  <2>2. Range(d.todo) \subseteq Range(longer[d.pc])
    BY <2>1 DEF Emitting, Grows
  <2>3. ASSUME d.log # <<>>, Last(d.log).at = d.pc, Last(d.log).round = d.round
        PROVE  \A i \in DOMAIN d.todo :
                 Precedes(ListenerOf(Every(longer), Last(d.log).by), d.todo[i])
    <3>1. Len(d.log) \in DOMAIN d.log /\ Last(d.log) = d.log[Len(d.log)]
      BY <1>1, <2>3 DEF Last
    <3>2. ListenerOf(Every(longer), Last(d.log).by) = ListenerOf(Every(lists), Last(d.log).by)
      BY <1>5, <2>3, <3>1
    <3>3. QED
      BY <2>1, <2>3, <3>2 DEF Emitting
  <2>4. QED
    BY <2>1, <2>2, <2>3 DEF Emitting
<1>8. InTurn(Every(longer), d.log)
  <2> SUFFICES ASSUME NEW i \in 2..Len(d.log),
                      d.log[i - 1].at = d.log[i].at, d.log[i - 1].round = d.log[i].round
               PROVE  Precedes(ListenerOf(Every(longer), d.log[i - 1].by),
                               ListenerOf(Every(longer), d.log[i].by))
    BY DEF InTurn
  <2>1. i \in DOMAIN d.log /\ i - 1 \in DOMAIN d.log
    BY <1>1
  <2>2. Precedes(ListenerOf(Every(lists), d.log[i - 1].by), ListenerOf(Every(lists), d.log[i].by))
    BY DEF CallGood, InTurn
  <2>3. CASE d.log[i].at \in Hooks
    BY <1>5, <2>1, <2>2, <2>3
  <2>4. CASE d.log[i].at \notin Hooks
    <3>1. d.log[i] \in Entry
      BY <1>1, <2>1
    <3>2. d.log[i].at = "function"
      BY <2>4, <3>1 DEF Entry
    <3>3. i - 1 = i
      BY <2>1, <3>2, Zenon DEF CallGood, Phases
    <3>4. QED
      BY <1>1, <3>3
  <2>5. QED
    BY <2>3, <2>4
<1>9. QED
  BY <1>6, <1>7, <1>8 DEF CallGood

LEMMA EmptyLog ==
  /\ <<>> \in Seq(Entry) /\ DOMAIN <<>> = {} /\ Len(<<>>) = 0
  /\ <<>> \in Seq(Listener) /\ Sorted(<<>>) /\ Range(<<>>) = {}
  /\ \A round : Setters(<<>>, 0, round) = {}
<1>1. <<>> \in Seq(Entry) /\ DOMAIN <<>> = {} /\ Len(<<>>) = 0 /\ <<>> \in Seq(Listener)
  OBVIOUS
<1>2. Sorted(<<>>) /\ Range(<<>>) = {}
  BY DEF Sorted, Range
<1>3. \A round : Setters(<<>>, 0, round) = {}
  BY DEF Setters
<1>4. QED
  BY <1>1, <1>2, <1>3

WhoAndKinds ==
  /\ "caller" \in Who /\ "function" \in Who /\ "undefined" \in Who
  /\ Range(Callbacks) \subseteq Who
  /\ "continue" \in Kinds /\ "called" \in Kinds

LEMMA ConstantsTyped == WhoAndKinds
  BY DEF WhoAndKinds, Who, Kinds

LEMMA NewCallGood ==
  ASSUME NEW lists, NEW placement \in Placements, NEW pc \in {"idle", "enter"}
  PROVE  CallGood(lists, [NewCall(placement) EXCEPT !.pc = pc])
<1> DEFINE d == [NewCall(placement) EXCEPT !.pc = pc]
<1>1. /\ d.pc = pc /\ d.placement = placement /\ d.round = 1 /\ d.args = "caller"
      /\ d.log = <<>> /\ d.todo = <<>> /\ d.result = "undefined" /\ d.given = "undefined"
      /\ d.by = "undefined" /\ d.sub = "continue" /\ d.context = "undefined"
  BY DEF NewCall
<1>2. d \in CallState
  <2>1. /\ 1 \in 1..MaxRounds /\ <<>> \in Seq(Listener) /\ <<>> \in Seq(Entry)
        /\ pc \in {"idle", "enter", "pre", "function", "leave", "post", "done"}
        /\ "undefined" \in Contexts \cup {"undefined"}
    BY EmptyLog, RoundsAssumption
  <2>2. WhoAndKinds
    BY ConstantsTyped
  <2>3. QED
    BY <2>1, <2>2 DEF CallState, NewCall, WhoAndKinds
<1> HIDE DEF d
<1>3. Phases(lists, d)
  BY <1>1, EmptyLog, Zenon DEF Phases, RoundByRound
<1>4. d.pc \notin Hooks /\ d.pc \notin {"leave", "function", "done"}
  BY <1>1 DEF Hooks
<1>5. Emitting(lists, d)
  BY <1>4, Zenon DEF Emitting
<1>6. HoldsArgs(d)
  BY <1>1, EmptyLog DEF HoldsArgs, LastOf
<1>7. HoldsResult(d)
  BY <1>4, <1>1 DEF HoldsResult
<1>8. InTurn(Every(lists), d.log) /\ ArgsAsLastSet(d.log)
  BY <1>1, EmptyLog DEF InTurn, ArgsAsLastSet
<1>9. QED
  BY <1>1, <1>2, <1>3, <1>4, <1>5, <1>6, <1>7, <1>8, EmptyLog DEF CallGood, d

(* When a round has no entry yet, the arguments that last are in force.    *)
LEMMA FreshRound ==
  ASSUME NEW log \in Seq(Entry), NEW round,
         \A i \in DOMAIN log : log[i].round # round
  PROVE  Setters(log, Len(log), round) = LastingIn(log)
<1>1. DOMAIN log = 1..Len(log)
  OBVIOUS
<1>2. QED
  BY <1>1 DEF Setters, LastingIn

LEMMA EnterFunctionGood ==
  ASSUME NEW lists, NEW d, CallGood(lists, d), d.pc = "enter"
  PROVE  CallGood(lists, [d EXCEPT !.pc = "function"])
<1> DEFINE b == [d EXCEPT !.pc = "function"]
<1>0. d \in CallState
  BY DEF CallGood
<1>1. /\ b.pc = "function" /\ b.round = d.round /\ b.args = d.args
      /\ b.log = d.log /\ b.todo = d.todo /\ b.sub = d.sub
  BY <1>0 DEF CallState
<1>2. b \in CallState
  BY <1>0 DEF CallState
<1> HIDE DEF b
<1>3. Phases(lists, b)
  BY <1>1 DEF CallGood, Phases
<1>4. Emitting(lists, b)
  BY <1>1 DEF Emitting, Hooks
<1>5. HoldsArgs(b)
  BY <1>1 DEF CallGood, HoldsArgs
<1>6. HoldsResult(b)
  BY <1>1 DEF HoldsResult
<1>7. QED
  BY <1>1, <1>2, <1>3, <1>4, <1>5, <1>6 DEF CallGood, b

LEMMA EmissionGood ==
  ASSUME NEW d, CallGood(listeners, d), NEW hook \in Hooks, NEW context \in Contexts,
         d.pc = IF hook = "pre" THEN "enter" ELSE "leave",
         listeners[hook] \in Seq(Listener), Sorted(listeners[hook])
  PROVE  CallGood(listeners, Emission(d, hook, context))
<1> DEFINE b == Emission(d, hook, context)
<1>0. d \in CallState
  BY DEF CallGood
<1>1. /\ b.pc = hook /\ b.round = d.round /\ b.args = d.args /\ b.given = d.args
      /\ b.log = d.log /\ b.todo = listeners[hook] /\ b.sub = "continue"
      /\ b.by = "undefined" /\ b.result = d.result
  BY <1>0 DEF CallState, Emission
<1>2. b \in CallState
  <2>1. /\ d.args \in Who /\ context \in Contexts \cup {"undefined"}
        /\ hook \in {"idle", "enter", "pre", "function", "leave", "post", "done"}
    BY <1>0, CallFields DEF Hooks
  <2>2. WhoAndKinds
    BY ConstantsTyped
  <2>3. QED
    BY <1>0, <2>1, <2>2 DEF CallState, Emission, WhoAndKinds
<1>3. d.log \in Seq(Entry) /\ Len(d.log) \in Nat /\ DOMAIN d.log = 1..Len(d.log)
      /\ d.round \in Nat
  BY <1>0, CallFields
<1> HIDE DEF b
<1>4. hook = "pre" => \A i \in DOMAIN d.log : d.log[i].round # d.round
  BY DEF CallGood, Phases
<1>5. hook = "post" => \A i \in DOMAIN d.log : d.log[i].round = d.round => d.log[i].at # "post"
  BY DEF CallGood, Phases
<1>6. hook \in {"pre", "post"}
  BY DEF Hooks
<1>7. Phases(listeners, b)
  BY <1>1, <1>4, <1>6 DEF CallGood, Phases
<1>8. Emitting(listeners, b)
  <2>1. d.log # <<>> => Len(d.log) \in DOMAIN d.log /\ Last(d.log) = d.log[Len(d.log)]
    BY <1>3 DEF Last
  <2>2. ~(d.log # <<>> /\ Last(d.log).at = hook /\ Last(d.log).round = d.round)
    BY <1>4, <1>5, <1>6, <2>1
  <2>3. QED
    BY <1>1, <2>2 DEF Emitting
<1>9. HoldsArgs(b)
  <2>1. CASE hook = "pre"
    <3>1. Setters(d.log, Len(d.log), d.round) = LastingIn(d.log)
      BY <1>3, <1>4, <2>1, FreshRound
    <3>2. \A i \in DOMAIN d.log : d.log[i].round < d.round
      BY <1>3, <1>4, <2>1, EntryType DEF CallGood, Phases, RoundByRound
    <3>3. EarlierIn(d.log, d.round) = LastingIn(d.log)
      BY <3>2 DEF EarlierIn, LastingIn
    <3>4. d.args = LastOf(d.log, Setters(d.log, Len(d.log), d.round))
      BY <2>1 DEF CallGood, HoldsArgs
    <3>5. QED
      BY <1>1, <2>1, <3>1, <3>3, <3>4 DEF HoldsArgs
  <2>2. CASE hook = "post"
    <3>1. d.args = LastOf(d.log, LastingIn(d.log))
      BY <2>2 DEF CallGood, HoldsArgs
    <3>2. QED
      BY <1>1, <2>2, <3>1 DEF HoldsArgs
  <2>3. QED
    BY <1>6, <2>1, <2>2
<1>10. HoldsResult(b)
  <2>1. CASE hook = "pre"
    BY <1>1, <2>1 DEF HoldsResult
  <2>2. CASE hook = "post"
    <3>1. /\ d.log # <<>> /\ Last(d.log).round = d.round
          /\ Last(d.log).kind \in {"called", "abort"} /\ d.result = Last(d.log).by
      BY <2>2 DEF CallGood, HoldsResult
    <3>2. d.result = ResultOf(d.log)
      BY <1>3, <3>1, LastDecides DEF Decides
    <3>3. QED
      BY <1>1, <2>2, <3>1, <3>2 DEF HoldsResult
  <2>3. QED
    BY <1>6, <2>1, <2>2
<1>11. QED
  BY <1>1, <1>2, <1>6, <1>7, <1>8, <1>9, <1>10 DEF CallGood, b

LEMMA TailOf ==
  ASSUME NEW todo \in Seq(Listener), todo # <<>>, Sorted(todo)
  PROVE  /\ Head(todo) \in Listener /\ Head(todo) \in Range(todo) /\ Head(todo) = todo[1]
         /\ Tail(todo) \in Seq(Listener) /\ Sorted(Tail(todo))
         /\ Range(Tail(todo)) \subseteq Range(todo)
         /\ \A i \in DOMAIN Tail(todo) : Precedes(Head(todo), Tail(todo)[i])
         /\ \A i \in DOMAIN Tail(todo) : i + 1 \in DOMAIN todo /\ Tail(todo)[i] = todo[i + 1]
<1>1. /\ Len(todo) \in Nat /\ Len(todo) > 0 /\ DOMAIN todo = 1..Len(todo)
      /\ Tail(todo) \in Seq(Listener) /\ DOMAIN Tail(todo) = 1..(Len(todo) - 1)
      /\ Head(todo) = todo[1] /\ 1 \in DOMAIN todo
  OBVIOUS
<1>2. \A i \in DOMAIN Tail(todo) :
        i \in Nat /\ i > 0 /\ i + 1 \in DOMAIN todo /\ Tail(todo)[i] = todo[i + 1]
  BY <1>1
<1>3. Head(todo) \in Listener /\ Head(todo) \in Range(todo)
  BY <1>1 DEF Range
<1>4. \A i \in DOMAIN Tail(todo) : Precedes(Head(todo), Tail(todo)[i])
  BY <1>1, <1>2 DEF Sorted
<1>5. Sorted(Tail(todo))
  <2> SUFFICES ASSUME NEW i \in DOMAIN Tail(todo), NEW j \in DOMAIN Tail(todo), i < j
               PROVE  Precedes(Tail(todo)[i], Tail(todo)[j])
    BY DEF Sorted
  <2>1. i + 1 < j + 1 /\ i + 1 \in DOMAIN todo /\ j + 1 \in DOMAIN todo
    BY <1>2
  <2>2. Precedes(todo[i + 1], todo[j + 1])
    BY <2>1 DEF Sorted
  <2>3. QED
    BY <1>2, <2>2
<1>6. Range(Tail(todo)) \subseteq Range(todo)
  BY <1>2 DEF Range
<1>7. QED
  BY <1>1, <1>2, <1>3, <1>4, <1>5, <1>6

LEMMA PassOverGood ==
  ASSUME NEW lists, NEW d, CallGood(lists, d), d.pc \in Hooks, d.todo # <<>>
  PROVE  CallGood(lists, [d EXCEPT !.todo = Tail(@)])
<1> DEFINE b == [d EXCEPT !.todo = Tail(@)]
<1>0. d \in CallState /\ Sorted(d.todo) /\ d.todo \in Seq(Listener)
  BY CallFields DEF CallGood
<1>1. /\ b.pc = d.pc /\ b.round = d.round /\ b.args = d.args /\ b.given = d.given
      /\ b.log = d.log /\ b.todo = Tail(d.todo) /\ b.sub = d.sub
      /\ b.by = d.by /\ b.result = d.result
  BY <1>0 DEF CallState
<1>2. /\ Tail(d.todo) \in Seq(Listener) /\ Sorted(Tail(d.todo))
      /\ Range(Tail(d.todo)) \subseteq Range(d.todo)
      /\ \A i \in DOMAIN Tail(d.todo) : i + 1 \in DOMAIN d.todo /\ Tail(d.todo)[i] = d.todo[i + 1]
  BY <1>0, TailOf
<1>3. b \in CallState
  BY <1>0, <1>2 DEF CallState
<1> HIDE DEF b
<1>4. Phases(lists, b)
  BY <1>1 DEF CallGood, Phases
<1>5. Emitting(lists, b)
  <2>1. Emitting(lists, d)
    BY DEF CallGood
  <2>2. d.sub \in {"continue", "modify"}
    BY <2>1 DEF Emitting
  <2>3. Range(Tail(d.todo)) \subseteq Range(lists[d.pc])
    BY <1>2, <2>1 DEF Emitting
  <2>4. d.log # <<>> /\ Last(d.log).at = d.pc /\ Last(d.log).round = d.round =>
          \A i \in DOMAIN Tail(d.todo) :
            Precedes(ListenerOf(Every(lists), Last(d.log).by), Tail(d.todo)[i])
    BY <1>2, <2>1 DEF Emitting
  <2>5. d.by \in Range(Callbacks) \cup {"undefined"}
    BY <2>1, <2>2 DEF Emitting
  <2>6. QED
    BY <1>1, <2>2, <2>3, <2>4, <2>5 DEF Emitting
<1>6. HoldsArgs(b) /\ HoldsResult(b)
  BY <1>1 DEF CallGood, HoldsArgs, HoldsResult
<1>7. d.pc # "done"
  BY DEF Hooks
<1>8. QED
  BY <1>1, <1>2, <1>3, <1>4, <1>5, <1>6, <1>7 DEF CallGood, b

(* A listener is heard.                                                    *)
HeardAs(d, l, kind, e) == [Heard(d, l, kind) EXCEPT !.log = Append(d.log, e)]

LEMMA HeardFields ==
  ASSUME NEW d \in CallState, NEW l, NEW kind, NEW e,
         kind \in {"continue", "modify", "abort", "retry", "retryAnew", "throw"}
  PROVE  LET b == HeardAs(d, l, kind, e)
         IN /\ b.pc = d.pc /\ b.round = d.round /\ b.args = d.args /\ b.result = d.result
            /\ b.placement = d.placement /\ b.context = d.context
            /\ b.log = Append(d.log, e)
            /\ b.todo = IF kind \in {"continue", "modify"} THEN Tail(d.todo) ELSE <<>>
            /\ b.sub = IF kind = "continue" THEN d.sub ELSE kind
            /\ b.by = IF kind = "continue" THEN d.by ELSE l
            /\ b.given = IF kind = "modify" THEN (IF d.pc = "pre" THEN l ELSE "undefined")
                         ELSE d.given
<1>1. CASE kind = "continue"
  BY <1>1 DEF HeardAs, Heard, CallState
<1>2. CASE kind = "modify"
  BY <1>2 DEF HeardAs, Heard, CallState
<1>3. CASE kind \notin {"continue", "modify"}
  BY <1>3 DEF HeardAs, Heard, CallState
<1>4. QED
  BY <1>1, <1>2, <1>3

LEMMA HeardState ==
  ASSUME NEW d \in CallState, d.todo # <<>>, Sorted(d.todo), NEW kind \in Answers(d),
         NEW e \in Entry
  PROVE  HeardAs(d, Head(d.todo).id, kind, e) \in CallState
<1>0. kind \in {"continue", "modify", "abort", "retry", "retryAnew", "throw"} /\ kind \in Kinds
  BY DEF Answers, Kinds
<1>1. Append(d.log, e) \in Seq(Entry) /\ d.todo \in Seq(Listener)
  BY CallFields, Appended
<1>2. Tail(d.todo) \in Seq(Listener) /\ <<>> \in Seq(Listener) /\ Head(d.todo).id \in Who
      /\ "undefined" \in Who
  BY <1>1, TailOf, ListenerType, ConstantsTyped DEF WhoAndKinds
<1>3. CASE kind = "continue"
  BY <1>1, <1>2, <1>3 DEF HeardAs, Heard, CallState
<1>4. CASE kind = "modify"
  BY <1>0, <1>1, <1>2, <1>4 DEF HeardAs, Heard, CallState
<1>5. CASE kind \notin {"continue", "modify"}
  BY <1>0, <1>1, <1>2, <1>5 DEF HeardAs, Heard, CallState
<1>6. QED
  BY <1>3, <1>4, <1>5

LEMMA HearGood ==
  ASSUME NEW lists, Distinct(lists), NEW d, CallGood(lists, d),
         d.pc \in Hooks, d.todo # <<>>, NEW kind \in Answers(d)
  PROVE  CallGood(lists, [Heard(d, Head(d.todo).id, kind) EXCEPT
                            !.log = Noted(d, d.pc, Head(d.todo).id, kind, d.given)])
<1> DEFINE l   == Head(d.todo)
           e   == [round |-> d.round, at |-> d.pc, by |-> l.id, kind |-> kind, given |-> d.given]
           log == d.log
           longer == Append(log, e)
           b   == HeardAs(d, l.id, kind, e)
<1>0. /\ d \in CallState /\ Sorted(d.todo) /\ d.todo \in Seq(Listener)
      /\ log \in Seq(Entry) /\ d.round \in Nat /\ d.round \in 1..MaxRounds /\ d.given \in Who
  BY CallFields DEF CallGood
<1>1. /\ kind \in {"continue", "modify", "abort", "retry", "retryAnew", "throw"}
      /\ kind \in Kinds
      /\ d.pc = "pre" => kind \notin {"retry", "retryAnew"}
      /\ d.pc = "post" => kind # "abort"
      /\ d.pc \in {"pre", "post"}
  <2>1. d.pc \in {"pre", "post"}
    BY DEF Hooks
  <2>2. CASE d.pc = "pre"
    <3>1. kind \in {"continue", "modify", "abort", "throw"}
      BY <2>2 DEF Answers
    <3>2. QED
      BY <2>2, <3>1 DEF Kinds
  <2>3. CASE d.pc = "post"
    <3>1. kind \in {"continue", "modify", "retry", "retryAnew", "throw"}
      BY <2>3 DEF Answers
    <3>2. QED
      BY <2>3, <3>1 DEF Kinds
  <2>4. QED
    BY <2>1, <2>2, <2>3
<1>2. /\ l \in Listener /\ l \in Range(d.todo) /\ l = d.todo[1]
      /\ Tail(d.todo) \in Seq(Listener) /\ Sorted(Tail(d.todo))
      /\ Range(Tail(d.todo)) \subseteq Range(d.todo)
      /\ \A i \in DOMAIN Tail(d.todo) : Precedes(l, Tail(d.todo)[i])
  BY <1>0, TailOf
<1>3. l.id \in Range(Callbacks) /\ l.id \in Who
  BY <1>2, ListenerType, ConstantsTyped DEF WhoAndKinds
<1>4. e \in Entry
  BY <1>0, <1>1, <1>3 DEF Entry, Hooks
<1>5. b \in CallState
  BY <1>0, <1>4, HeardState
<1>6. /\ b.pc = d.pc /\ b.round = d.round /\ b.args = d.args /\ b.result = d.result
      /\ b.log = longer
      /\ b.todo = IF kind \in {"continue", "modify"} THEN Tail(d.todo) ELSE <<>>
      /\ b.sub = IF kind = "continue" THEN d.sub ELSE kind
      /\ b.by = IF kind = "continue" THEN d.by ELSE l.id
      /\ b.given = IF kind = "modify" THEN (IF d.pc = "pre" THEN l.id ELSE "undefined")
                   ELSE d.given
  <2> HIDE DEF l, e
  <2>1. QED
    BY <1>0, <1>1, HeardFields
<1>7. /\ e.round = d.round /\ e.at = d.pc /\ e.by = l.id /\ e.kind = kind /\ e.given = d.given
  OBVIOUS
<1>8. /\ Len(log) \in Nat /\ DOMAIN log = 1..Len(log) /\ DOMAIN longer = 1..(Len(log) + 1)
      /\ longer \in Seq(Entry) /\ Len(longer) = Len(log) + 1
      /\ \A i \in 1..Len(log) : longer[i] = log[i]
      /\ longer[Len(log) + 1] = e
      /\ longer # <<>> /\ Last(longer) = e
  BY <1>0, <1>4, Appended
<1>9. /\ Range(d.todo) \subseteq Range(lists[d.pc])
      /\ log # <<>> /\ Last(log).at = d.pc /\ Last(log).round = d.round =>
           \A i \in DOMAIN d.todo :
             Precedes(ListenerOf(Every(lists), Last(log).by), d.todo[i])
      /\ d.sub \in {"continue", "modify"} /\ d.by \in Range(Callbacks) \cup {"undefined"}
  BY DEF CallGood, Emitting
<1>10. l \in Every(lists) /\ l \in Range(lists[d.pc])
  BY <1>2, <1>9 DEF Every
<1>11. ListenerOf(Every(lists), l.id) = l
  BY <1>10, ListenerOfId
<1>12. RoundByRound(log, d.round) /\ Phases(lists, d)
  BY DEF CallGood, Phases
<1> HIDE DEF l, e, longer, b
<1>13. Phases(lists, b)
  <2>1. RoundByRound(longer, d.round)
    <3>1. \A i \in 1..Len(log) : longer[i] = log[i] /\ log[i].round <= d.round
      BY <1>8, <1>12 DEF RoundByRound
    <3>2. \A i \in DOMAIN longer : longer[i].round <= d.round
      BY <1>0, <1>7, <1>8, <3>1
    <3>3. ASSUME NEW i \in DOMAIN longer, NEW j \in DOMAIN longer, i <= j
          PROVE  longer[i].round <= longer[j].round
      <4>1. CASE j = Len(log) + 1
        BY <1>7, <1>8, <3>2, <4>1
      <4>2. CASE j \in 1..Len(log)
        <5>1. i \in 1..Len(log)
          BY <1>8, <3>3, <4>2
        <5>2. log[i].round <= log[j].round
          BY <1>8, <1>12, <3>3, <4>2, <5>1 DEF RoundByRound
        <5>3. QED
          BY <1>8, <4>2, <5>1, <5>2
      <4>3. QED
        BY <1>8, <4>1, <4>2
    <3>4. QED
      BY <3>2, <3>3 DEF RoundByRound
  <2>2. ASSUME NEW i \in DOMAIN longer, NEW j \in DOMAIN longer,
               longer[i].at = "function", longer[j].at = "function",
               longer[i].round = longer[j].round
        PROVE  i = j
    <3>0. longer[Len(log) + 1].at # "function"
      BY <1>1, <1>7, <1>8 DEF Hooks
    <3>1. i \in DOMAIN log /\ j \in DOMAIN log
      BY <1>8, <2>2, <3>0
    <3>2. QED
      BY <1>8, <1>12, <2>2, <3>1 DEF Phases
  <2>3. ASSUME NEW i \in DOMAIN longer
        PROVE  /\ longer[i].at \in Hooks => \E k \in Range(lists[longer[i].at]) : k.id = longer[i].by
               /\ longer[i].kind = "retryAnew" => longer[i].at = "post"
               /\ longer[i].round = b.round =>
                    /\ b.pc \notin {"idle", "enter"}
                    /\ b.pc \in {"pre", "function"} =>
                         longer[i].at = "pre" /\ (longer[i].kind = "abort" => b.sub = "abort")
                    /\ b.pc = "function" => longer[i].kind # "abort"
                    /\ b.pc = "leave" => longer[i].at # "post"
    <3>1. CASE i = Len(log) + 1
      BY <1>1, <1>6, <1>7, <1>8, <1>10, <3>1 DEF Hooks
    <3>2. CASE i \in DOMAIN log
      <4>1. longer[i] = log[i]
        BY <1>8, <3>2
      <4>2. /\ log[i].at \in Hooks => \E k \in Range(lists[log[i].at]) : k.id = log[i].by
            /\ log[i].kind = "retryAnew" => log[i].at = "post"
            /\ log[i].round = d.round =>
                 (d.pc = "pre" => log[i].at = "pre" /\ log[i].kind # "abort")
        BY <1>9, <1>12, <3>2 DEF Phases
      <4>3. QED
        BY <1>1, <1>6, <4>1, <4>2
    <3>3. QED
      BY <1>8, <3>1, <3>2
  <2>4. QED
    BY <1>6, <2>1, <2>2, <2>3 DEF Phases
<1>14. Emitting(lists, b)
  <2>1. Range(b.todo) \subseteq Range(lists[d.pc])
    BY <1>2, <1>6, <1>9, EmptyLog
  <2>2. \A i \in DOMAIN b.todo : Precedes(ListenerOf(Every(lists), e.by), b.todo[i])
    BY <1>2, <1>6, <1>7, <1>11, EmptyLog
  <2>3. CASE kind \in {"continue", "modify"}
    <3>1. b.sub \in {"continue", "modify"} /\ b.by \in Range(Callbacks) \cup {"undefined"}
      BY <1>3, <1>6, <1>9, <2>3
    <3>2. QED
      BY <1>6, <1>8, <2>1, <2>2, <3>1 DEF Emitting
  <2>4. CASE kind \notin {"continue", "modify"}
    <3>1. b.sub = kind /\ b.todo = <<>> /\ b.by = e.by
      BY <1>6, <1>7, <2>4
    <3>2. Answers(b) = Answers(d)
      BY <1>6 DEF Answers
    <3>3. QED
      BY <1>6, <1>7, <1>8, <2>1, <2>2, <2>4, <3>1, <3>2 DEF Emitting
  <2>5. QED
    BY <2>3, <2>4
<1>15. HoldsArgs(b)
  <2>1. CASE d.pc = "pre"
    <3>1. /\ d.args = LastOf(log, EarlierIn(log, d.round))
          /\ d.given = LastOf(log, Setters(log, Len(log), d.round))
          /\ d.sub = "continue" => d.given = d.args
          /\ d.sub = "modify" => d.given = d.by
      BY <1>9, <2>1 DEF CallGood, HoldsArgs
    <3>2. /\ EarlierIn(longer, d.round) = EarlierIn(log, d.round)
          /\ Setters(longer, Len(log) + 1, d.round) = Setters(longer, Len(log), d.round)
               \cup (IF kind = "modify" THEN {Len(log) + 1} ELSE {})
      BY <1>0, <1>1, <1>4, <1>7, <2>1, LastingInAppend DEF longer
    <3>3. Setters(longer, Len(log), d.round) = Setters(log, Len(log), d.round)
      BY <1>0, <1>4, <1>7, <1>12, SettersAppend DEF longer
    <3>4. EarlierIn(log, d.round) \in SUBSET (1..Len(log))
          /\ Setters(log, Len(log), d.round) \in SUBSET (1..Len(log))
      BY <1>8 DEF EarlierIn, LastingIn, Setters
    <3>5. d.args = LastOf(longer, EarlierIn(longer, d.round))
      BY <1>0, <1>4, <3>1, <3>2, <3>4, LastOfAppend DEF longer
    <3>6. kind # "modify" => d.given = LastOf(longer, Setters(longer, Len(longer), d.round))
      <4> SUFFICES ASSUME kind # "modify"
                   PROVE  d.given = LastOf(longer, Setters(longer, Len(longer), d.round))
        OBVIOUS
      <4>1. Setters(longer, Len(longer), d.round) = Setters(log, Len(log), d.round)
        BY <1>8, <3>2, <3>3
      <4>2. LastOf(longer, Setters(log, Len(log), d.round))
              = LastOf(log, Setters(log, Len(log), d.round))
        BY <1>0, <1>4, <3>4, LastOfAppend DEF longer
      <4>3. QED
        BY <3>1, <4>1, <4>2
    <3>7. kind = "modify" => l.id = LastOf(longer, Setters(longer, Len(longer), d.round))
      BY <1>0, <1>4, <1>7, <1>8, <3>2, <3>3, <3>4, LastOfAppend DEF longer
    <3>8. QED
      BY <1>6, <1>9, <2>1, <3>1, <3>5, <3>6, <3>7 DEF HoldsArgs
  <2>2. CASE d.pc = "post"
    <3>1. d.args = LastOf(log, LastingIn(log))
      BY <1>9, <2>2 DEF CallGood, HoldsArgs
    <3>2. LastingIn(longer) = IF kind = "retryAnew" THEN LastingIn(log) \cup {Len(log) + 1}
                              ELSE LastingIn(log)
      BY <1>0, <1>1, <1>4, <1>7, <2>2, LastingInAppend DEF longer
    <3>3. LastingIn(log) \in SUBSET (1..Len(log))
      BY <1>8 DEF LastingIn
    <3>4. kind = "retryAnew" => l.id = LastOf(longer, LastingIn(longer))
      BY <1>0, <1>4, <1>7, <3>2, <3>3, LastOfAppend DEF longer
    <3>5. kind # "retryAnew" => d.args = LastOf(longer, LastingIn(longer))
      BY <1>0, <1>4, <3>1, <3>2, <3>3, LastOfAppend DEF longer
    <3>6. QED
      BY <1>6, <1>9, <2>2, <3>4, <3>5 DEF HoldsArgs
  <2>3. QED
    BY <1>1, <2>1, <2>2
<1>16. HoldsResult(b)
  <2>1. CASE d.pc = "pre"
    BY <1>6, <2>1 DEF HoldsResult
  <2>2. CASE d.pc = "post"
    <3>1. /\ log # <<>> /\ Last(log).round = d.round
          /\ d.sub = "continue" => d.result = ResultOf(log)
          /\ d.sub = "modify" => d.by = ResultOf(log)
      BY <2>2 DEF CallGood, HoldsResult
    <3>2. kind = "continue" => ResultOf(longer) = ResultOf(log)
      BY <1>0, <1>4, <1>7, <3>1, ResultAppend DEF longer, Decides
    <3>3. kind \in {"modify", "throw"} => ResultOf(longer) = l.id
      BY <1>7, <1>8, <2>2, LastDecides DEF Decides
    <3>4. QED
      BY <1>6, <1>7, <1>8, <1>9, <2>2, <3>1, <3>2, <3>3 DEF HoldsResult
  <2>3. QED
    BY <1>1, <2>1, <2>2
<1>17. InTurn(Every(lists), longer)
  <2>1. 1 \in DOMAIN d.todo
    BY <1>0
  <2>2. log # <<>> /\ Last(log).at = e.at /\ Last(log).round = e.round =>
          Precedes(ListenerOf(Every(lists), Last(log).by), ListenerOf(Every(lists), e.by))
    BY <1>2, <1>7, <1>9, <1>11, <2>1
  <2>3. InTurn(Every(lists), log)
    BY DEF CallGood
  <2>4. QED
    BY <1>0, <1>4, <2>2, <2>3, InTurnAppend DEF longer
<1>18. ArgsAsLastSet(longer)
  <2>1. d.pc = "pre" => d.given = LastOf(log, Setters(log, Len(log), d.round))
    BY <1>9 DEF CallGood, HoldsArgs
  <2>2. ArgsAsLastSet(log)
    BY DEF CallGood
  <2>3. QED
    BY <1>0, <1>1, <1>4, <1>7, <1>12, <2>1, <2>2, ArgsAppend DEF longer
<1>19. Sorted(b.todo) /\ b.pc # "done"
  BY <1>1, <1>2, <1>6, EmptyLog
<1>20. CallGood(lists, b)
  BY <1>5, <1>6, <1>13, <1>14, <1>15, <1>16, <1>17, <1>18, <1>19 DEF CallGood
<1>21. QED
  BY <1>20 DEF b, HeardAs, e, l, Noted

(* The end of an emit.                                                     *)
LEMMA ContextGood ==
  ASSUME NEW lists, NEW d, CallGood(lists, d)
  PROVE  LET b == [d EXCEPT !.context = "undefined"]
         IN CallGood(lists, b) /\ b.pc = d.pc /\ b.todo = d.todo
<1> DEFINE b == [d EXCEPT !.context = "undefined"]
<1>0. d \in CallState
  BY DEF CallGood
<1>1. /\ b.pc = d.pc /\ b.round = d.round /\ b.args = d.args /\ b.given = d.given
      /\ b.log = d.log /\ b.todo = d.todo /\ b.sub = d.sub
      /\ b.by = d.by /\ b.result = d.result
  BY <1>0 DEF CallState
<1>2. b \in CallState
  BY <1>0 DEF CallState
<1> HIDE DEF b
<1>3. Phases(lists, b)
  BY <1>1 DEF CallGood, Phases
<1>4. Emitting(lists, b)
  <2>1. Answers(b) = Answers(d)
    BY <1>1 DEF Answers
  <2>2. QED
    BY <1>1, <2>1 DEF CallGood, Emitting
<1>5. HoldsArgs(b) /\ HoldsResult(b)
  BY <1>1 DEF CallGood, HoldsArgs, HoldsResult
<1>6. QED
  BY <1>1, <1>2, <1>3, <1>4, <1>5 DEF CallGood, b

(* A move of a call that adds no entry to its log, to where no emit is     *)
(* under way.                                                              *)
LEMMA MovedGood ==
  ASSUME NEW lists, NEW d, CallGood(lists, d), NEW b \in CallState,
         b.log = d.log, b.round = d.round, b.todo = d.todo,
         b.pc \in {"function", "leave", "done"},
         b.pc = "function" => d.pc = "pre" /\ d.sub # "abort" /\ b.sub = d.sub,
         b.pc = "leave" => d.pc = "pre",
         d.pc \notin {"idle", "enter"},
         HoldsArgs(b), HoldsResult(b),
         b.pc = "done" => b.result = ResultOf(b.log)
  PROVE  CallGood(lists, b)
<1>1. Phases(lists, b)
  <2>1. Phases(lists, d)
    BY DEF CallGood
  <2>2. ASSUME NEW i \in DOMAIN b.log, b.log[i].round = b.round
        PROVE  /\ b.pc \notin {"idle", "enter"}
               /\ b.pc \in {"pre", "function"} =>
                    b.log[i].at = "pre" /\ (b.log[i].kind = "abort" => b.sub = "abort")
               /\ b.pc = "function" => b.log[i].kind # "abort"
               /\ b.pc = "leave" => b.log[i].at # "post"
    BY <2>1, <2>2 DEF Phases
  <2>3. QED
    BY <2>1, <2>2 DEF Phases
<1>2. Emitting(lists, b)
  BY DEF Emitting, Hooks
<1>3. QED
  BY <1>1, <1>2, EmptyLog DEF CallGood

LEMMA PreHeardGood ==
  ASSUME NEW lists, NEW d, CallGood(lists, d), d.pc = "pre", d.todo = <<>>
  PROVE  CallGood(lists, PreHeard(d))
<1> DEFINE b   == PreHeard(d)
           log == d.log
<1>0. /\ d \in CallState /\ log \in Seq(Entry) /\ Len(log) \in Nat
      /\ DOMAIN log = 1..Len(log) /\ d.round \in Nat
      /\ {d.args, d.result, d.given, d.by} \subseteq Who
  BY CallFields DEF CallGood
<1>1. b \in CallState
  BY <1>0 DEF PreHeard, CallState
<1>2. /\ b.log = log /\ b.round = d.round /\ b.todo = <<>>
      /\ b.sub = d.sub
      /\ b.pc = CASE d.sub = "abort" -> "leave" [] d.sub = "throw" -> "done" [] OTHER -> "function"
      /\ b.args = IF d.sub = "modify" THEN d.by ELSE d.args
      /\ b.result = IF d.sub \in {"abort", "throw"} THEN d.by ELSE d.result
  <2>1. CASE d.sub = "modify"
    BY <1>0, <2>1 DEF PreHeard, CallState
  <2>2. CASE d.sub = "abort"
    BY <1>0, <2>2 DEF PreHeard, CallState
  <2>3. CASE d.sub = "throw"
    BY <1>0, <2>3 DEF PreHeard, CallState
  <2>4. CASE d.sub \notin {"modify", "abort", "throw"}
    BY <1>0, <2>4 DEF PreHeard, CallState
  <2>5. QED
    BY <2>1, <2>2, <2>3, <2>4
<1>3. /\ d.args = LastOf(log, EarlierIn(log, d.round))
      /\ d.sub \in {"continue", "modify"} => d.given = LastOf(log, Setters(log, Len(log), d.round))
      /\ d.sub = "continue" => d.given = d.args
      /\ d.sub = "modify" => d.given = d.by
  BY DEF CallGood, HoldsArgs
<1>4. d.sub \notin {"continue", "modify"} =>
        /\ d.sub \in {"abort", "throw"}
        /\ log # <<>> /\ Last(log).kind = d.sub /\ Last(log).by = d.by
        /\ Last(log).round = d.round
  <2> SUFFICES ASSUME d.sub \notin {"continue", "modify"}
               PROVE  /\ d.sub \in {"abort", "throw"}
                      /\ log # <<>> /\ Last(log).kind = d.sub /\ Last(log).by = d.by
                      /\ Last(log).round = d.round
    OBVIOUS
  <2>1. Answers(d) = {"continue", "modify", "throw"} \cup {"abort"}
    BY DEF Answers
  <2>2. QED
    BY <2>1 DEF CallGood, Emitting, Hooks
<1> HIDE DEF b
<1>5. HoldsArgs(b)
  <2>1. CASE d.sub \in {"continue", "modify"}
    <3>1. b.args = LastOf(log, Setters(log, Len(log), d.round)) /\ b.pc = "function"
      BY <1>2, <1>3, <2>1
    <3>2. QED
      BY <1>2, <3>1 DEF HoldsArgs
  <2>2. CASE d.sub = "throw"
    BY <1>2, <2>2 DEF HoldsArgs
  <2>3. CASE d.sub = "abort"
    <3>1. Len(log) \in DOMAIN log /\ log[Len(log)].kind = "abort" /\ log[Len(log)].round = d.round
      BY <1>0, <1>4, <2>3 DEF Last
    <3>2. ASSUME NEW j \in DOMAIN log, Lasting(log, j) PROVE log[j].round < d.round
      <4>1. log[j].round # d.round
        <5> SUFFICES ASSUME log[j].round = d.round PROVE FALSE
          OBVIOUS
        <5>1. Aborted(log, j)
          BY <3>1 DEF Aborted
        <5>2. log[j].kind = "retryAnew"
          BY <3>2, <5>1 DEF Lasting
        <5>3. log[j].at = "post" /\ log[j].at = "pre"
          BY <5>2 DEF CallGood, Phases
        <5>4. QED
          BY <5>3
      <4>2. log[j].round <= d.round
        BY DEF CallGood, Phases, RoundByRound
      <4>3. QED
        BY <1>0, <4>1, <4>2, EntryType
    <3>3. EarlierIn(log, d.round) = LastingIn(log)
      BY <3>2 DEF EarlierIn, LastingIn
    <3>4. QED
      BY <1>2, <1>3, <2>3, <3>3 DEF HoldsArgs
  <2>4. QED
    BY <1>4, <2>1, <2>2, <2>3
<1>6. HoldsResult(b)
  BY <1>2, <1>4 DEF HoldsResult
<1>7. b.pc = "done" => b.result = ResultOf(b.log)
  <2> SUFFICES ASSUME d.sub = "throw" PROVE b.result = ResultOf(log)
    BY <1>2, <1>4
  <2>1. Decides(Last(log)) /\ log # <<>> /\ Last(log).by = d.by
    BY <1>4 DEF Decides
  <2>2. QED
    BY <1>0, <1>2, <2>1, LastDecides
<1>8. b.pc \in {"function", "leave", "done"}
      /\ (b.pc = "function" => d.pc = "pre" /\ d.sub # "abort" /\ b.sub = d.sub)
  BY <1>2, <1>4
<1>9. QED
  BY <1>1, <1>2, <1>5, <1>6, <1>7, <1>8, MovedGood DEF b

LEMMA NextRoundGood ==
  ASSUME NEW lists, NEW d, CallGood(lists, d), d.round < MaxRounds, d.todo = <<>>,
         NEW args \in Who, args = LastOf(d.log, LastingIn(d.log))
  PROVE  CallGood(lists, NextRound(d, args))
<1> DEFINE b   == NextRound(d, args)
           log == d.log
<1>0. /\ d \in CallState /\ log \in Seq(Entry) /\ Len(log) \in Nat
      /\ DOMAIN log = 1..Len(log) /\ d.round \in Nat /\ d.round \in 1..MaxRounds
      /\ MaxRounds \in Nat
  BY CallFields, RoundsAssumption DEF CallGood
<1>1. b \in CallState
  <2>1. d.round + 1 \in 1..MaxRounds /\ "undefined" \in Who
    BY <1>0, ConstantsTyped DEF WhoAndKinds
  <2>2. QED
    BY <1>0, <2>1 DEF NextRound, CallState
<1>2. /\ b.log = log /\ b.round = d.round + 1 /\ b.todo = <<>> /\ b.pc = "enter"
      /\ b.args = args
  BY <1>0 DEF NextRound, CallState
<1> HIDE DEF b
<1>3. \A i \in DOMAIN log : log[i].round <= d.round /\ log[i].round # d.round + 1
                              /\ log[i].round <= d.round + 1
  <2> SUFFICES ASSUME NEW i \in DOMAIN log
               PROVE  log[i].round <= d.round /\ log[i].round # d.round + 1
                        /\ log[i].round <= d.round + 1
    OBVIOUS
  <2>1. log[i].round <= d.round /\ log[i].round \in Nat
    BY <1>0, EntryType DEF CallGood, Phases, RoundByRound
  <2>2. QED
    BY <1>0, <2>1
<1>4. Phases(lists, b)
  BY <1>2, <1>3 DEF CallGood, Phases, RoundByRound
<1>5. Emitting(lists, b)
  BY <1>2 DEF Emitting, Hooks
<1>6. HoldsArgs(b)
  BY <1>0, <1>2, <1>3, FreshRound DEF HoldsArgs
<1>7. HoldsResult(b)
  BY <1>2 DEF HoldsResult
<1>8. QED
  BY <1>1, <1>2, <1>4, <1>5, <1>6, <1>7, EmptyLog DEF CallGood, b

LEMMA PostHeardGood ==
  ASSUME NEW lists, NEW d, CallGood(lists, d), d.pc = "post", d.todo = <<>>
  PROVE  CallGood(lists, PostHeard(d))
<1>0. /\ d \in CallState /\ d.round \in Nat
      /\ {d.args, d.result, d.given, d.by} \subseteq Who
  BY CallFields DEF CallGood
<1>1. d.sub \in {"continue", "modify", "throw"} \/ (d.sub \in {"retry", "retryAnew"} /\ d.round < MaxRounds)
  <2> SUFFICES ASSUME d.sub \notin {"continue", "modify"}
               PROVE  d.sub = "throw" \/ (d.sub \in {"retry", "retryAnew"} /\ d.round < MaxRounds)
    OBVIOUS
  <2>1. d.sub \in Answers(d)
    BY DEF CallGood, Emitting, Hooks
  <2>2. QED
    BY <2>1 DEF Answers
<1>2. (IF d.sub = "retryAnew" THEN d.by ELSE d.args) = LastOf(d.log, LastingIn(d.log))
  BY DEF CallGood, HoldsArgs
<1>3. CASE d.sub \in {"continue", "modify", "throw"}
  <2> DEFINE b == PostHeard(d)
  <2>1. b \in CallState
    BY <1>0, <1>3 DEF PostHeard, CallState
  <2>2. /\ b.log = d.log /\ b.round = d.round /\ b.todo = <<>> /\ b.pc = "done"
        /\ b.result = IF d.sub = "continue" THEN d.result ELSE d.by
    BY <1>0, <1>3 DEF PostHeard, CallState
  <2> HIDE DEF b
  <2>3. b.result = ResultOf(d.log)
    BY <1>3, <2>2 DEF CallGood, HoldsResult
  <2>4. HoldsArgs(b) /\ HoldsResult(b)
    BY <2>2 DEF HoldsArgs, HoldsResult
  <2>5. QED
    BY <2>1, <2>2, <2>3, <2>4, MovedGood DEF b
<1>4. CASE d.sub = "retry" /\ d.round < MaxRounds
  <2>1. PostHeard(d) = NextRound(d, d.args)
    BY <1>4 DEF PostHeard
  <2>2. QED
    BY <1>0, <1>2, <1>4, <2>1, NextRoundGood
<1>5. CASE d.sub = "retryAnew" /\ d.round < MaxRounds
  <2>1. PostHeard(d) = NextRound(d, d.by)
    BY <1>5 DEF PostHeard
  <2>2. QED
    BY <1>0, <1>2, <1>5, <2>1, NextRoundGood
<1>6. QED
  BY <1>1, <1>3, <1>4, <1>5

LEMMA LeaveDoneGood ==
  ASSUME NEW lists, NEW d, CallGood(lists, d), d.pc = "leave"
  PROVE  CallGood(lists, [d EXCEPT !.pc = "done"])
<1> DEFINE b == [d EXCEPT !.pc = "done"]
<1>0. d \in CallState /\ d.log \in Seq(Entry)
  BY CallFields DEF CallGood
<1>1. b \in CallState
  BY <1>0 DEF CallState
<1>2. /\ b.log = d.log /\ b.round = d.round /\ b.todo = d.todo /\ b.pc = "done"
      /\ b.result = d.result
  BY <1>0 DEF CallState
<1> HIDE DEF b
<1>3. /\ d.log # <<>> /\ Last(d.log).kind \in {"called", "abort"}
      /\ d.result = Last(d.log).by
  BY DEF CallGood, HoldsResult
<1>4. b.result = ResultOf(d.log)
  BY <1>0, <1>2, <1>3, LastDecides DEF Decides
<1>5. HoldsArgs(b) /\ HoldsResult(b)
  BY <1>2 DEF HoldsArgs, HoldsResult
<1>6. QED
  BY <1>1, <1>2, <1>4, <1>5, MovedGood DEF b

LEMMA FunctionGood ==
  ASSUME NEW lists, NEW d, CallGood(lists, d), d.pc = "function"
  PROVE  CallGood(lists, [d EXCEPT !.pc = "leave", !.result = "function",
                            !.log = Noted(d, "function", "function", "called", d.args)])
<1> DEFINE e == [round |-> d.round, at |-> "function", by |-> "function",
                 kind |-> "called", given |-> d.args]
           log == d.log
           longer == Append(log, e)
           b == [d EXCEPT !.pc = "leave", !.result = "function", !.log = longer]
<1>0. /\ d \in CallState /\ log \in Seq(Entry) /\ d.round \in Nat /\ d.round \in 1..MaxRounds
      /\ d.args \in Who
  BY CallFields DEF CallGood
<1>1. e \in Entry
  BY <1>0, ConstantsTyped DEF Entry, WhoAndKinds
<1>2. e.round = d.round /\ e.at = "function" /\ e.by = "function" /\ e.kind = "called"
      /\ e.given = d.args
  OBVIOUS
<1> HIDE DEF e
<1>3. /\ Len(log) \in Nat /\ DOMAIN log = 1..Len(log) /\ DOMAIN longer = 1..(Len(log) + 1)
      /\ longer \in Seq(Entry) /\ Len(longer) = Len(log) + 1
      /\ \A i \in 1..Len(log) : longer[i] = log[i]
      /\ longer[Len(log) + 1] = e
      /\ longer # <<>> /\ Last(longer) = e
  BY <1>0, <1>1, Appended
<1> HIDE DEF longer
<1>4. /\ b.pc = "leave" /\ b.round = d.round /\ b.args = d.args /\ b.result = "function"
      /\ b.log = longer /\ b.todo = d.todo
  BY <1>0 DEF CallState
<1>5. b \in CallState
  BY <1>0, <1>3, ConstantsTyped DEF CallState, WhoAndKinds
<1> HIDE DEF b
<1>6. Phases(lists, d) /\ RoundByRound(log, d.round)
  BY DEF CallGood, Phases
<1>7. \A i \in DOMAIN log : log[i].round = d.round => log[i].at = "pre" /\ log[i].kind # "abort"
  BY <1>6 DEF Phases
<1>8. Phases(lists, b)
  <2>1. RoundByRound(longer, d.round)
    <3>1. \A i \in 1..Len(log) : longer[i] = log[i] /\ log[i].round <= d.round
      BY <1>3, <1>6 DEF RoundByRound
    <3>2. \A i \in DOMAIN longer : longer[i].round <= d.round
      BY <1>0, <1>2, <1>3, <3>1
    <3>3. ASSUME NEW i \in DOMAIN longer, NEW j \in DOMAIN longer, i <= j
          PROVE  longer[i].round <= longer[j].round
      <4>1. CASE j = Len(log) + 1
        BY <1>2, <1>3, <3>2, <4>1
      <4>2. CASE j \in 1..Len(log)
        <5>1. i \in 1..Len(log)
          BY <1>3, <3>3, <4>2
        <5>2. log[i].round <= log[j].round
          BY <1>3, <1>6, <3>3, <4>2, <5>1 DEF RoundByRound
        <5>3. QED
          BY <1>3, <4>2, <5>1, <5>2
      <4>3. QED
        BY <1>3, <4>1, <4>2
    <3>4. QED
      BY <3>2, <3>3 DEF RoundByRound
  <2>2. ASSUME NEW i \in DOMAIN longer, NEW j \in DOMAIN longer,
               longer[i].at = "function", longer[j].at = "function",
               longer[i].round = longer[j].round
        PROVE  i = j
    <3>1. CASE i \in DOMAIN log /\ j \in DOMAIN log
      BY <1>3, <1>6, <2>2, <3>1 DEF Phases
    <3>2. CASE i \in DOMAIN log /\ j = Len(log) + 1
      BY <1>2, <1>3, <1>7, <2>2, <3>2
    <3>3. CASE i = Len(log) + 1 /\ j \in DOMAIN log
      BY <1>2, <1>3, <1>7, <2>2, <3>3
    <3>4. QED
      BY <1>3, <3>1, <3>2, <3>3
  <2>3. ASSUME NEW i \in DOMAIN longer
        PROVE  /\ longer[i].at \in Hooks => \E k \in Range(lists[longer[i].at]) : k.id = longer[i].by
               /\ longer[i].kind = "retryAnew" => longer[i].at = "post"
               /\ longer[i].round = d.round => longer[i].at # "post"
    <3>1. CASE i = Len(log) + 1
      BY <1>2, <1>3, <3>1 DEF Hooks
    <3>2. CASE i \in DOMAIN log
      BY <1>3, <1>6, <1>7, <3>2 DEF Phases
    <3>3. QED
      BY <1>3, <3>1, <3>2
  <2>4. QED
    BY <1>4, <2>1, <2>2, <2>3 DEF Phases
<1>9. Emitting(lists, b)
  BY <1>4 DEF Emitting, Hooks
<1>10. d.args = LastOf(log, Setters(log, Len(log), d.round))
  BY DEF CallGood, HoldsArgs
<1>11. HoldsArgs(b)
  <2>1. \A j \in DOMAIN log : ModifiesArgs(log, j) /\ log[j].round = d.round => Lasting(log, j)
    BY <1>7 DEF Lasting, Aborted
  <2>2. Setters(log, Len(log), d.round) = LastingIn(log)
    BY <1>3, <2>1 DEF Setters, LastingIn
  <2>3. LastingIn(longer) = LastingIn(log) /\ LastingIn(log) \in SUBSET (1..Len(log))
    BY <1>0, <1>1, <1>2, LastingInAppend DEF longer
  <2>4. LastOf(longer, LastingIn(log)) = LastOf(log, LastingIn(log))
    BY <1>0, <1>1, <2>3, LastOfAppend DEF longer
  <2>5. QED
    BY <1>4, <1>10, <2>2, <2>3, <2>4 DEF HoldsArgs
<1>12. HoldsResult(b)
  BY <1>2, <1>3, <1>4 DEF HoldsResult
<1>13. InTurn(Every(lists), longer)
  <2>1. log # <<>> => Len(log) \in DOMAIN log /\ Last(log) = log[Len(log)]
    BY <1>3 DEF Last
  <2>2. ~(log # <<>> /\ Last(log).at = e.at /\ Last(log).round = e.round)
    BY <1>2, <1>7, <2>1
  <2>3. InTurn(Every(lists), log)
    BY DEF CallGood
  <2>4. QED
    BY <1>0, <1>1, <2>2, <2>3, InTurnAppend DEF longer
<1>14. ArgsAsLastSet(longer)
  <2>1. ArgsAsLastSet(log)
    BY DEF CallGood
  <2>2. QED
    BY <1>0, <1>1, <1>2, <1>6, <1>10, <2>1, ArgsAppend DEF longer
<1>15. Sorted(b.todo)
  BY <1>4 DEF CallGood
<1>16. CallGood(lists, b)
  BY <1>4, <1>5, <1>8, <1>9, <1>11, <1>12, <1>13, <1>14, <1>15 DEF CallGood
<1>17. QED
  BY <1>16 DEF b, longer, e, Noted

(***************************************************************************)
(* Events: the specification.  The two invariants together say of each     *)
(* call that it is as CallGood has it.                                     *)
(***************************************************************************)

ListsGood ==
  /\ listeners \in [Hooks -> Seq(Listener)]
  /\ \A hook \in Hooks : Sorted(listeners[hook])
  /\ Registrations

CallsGood ==
  /\ call \in [Calls -> CallState]
  /\ \A c \in Calls : CallGood(listeners, call[c])

LEMMA InvariantsOfCalls ==
  ListsGood /\ CallsGood <=> EventsInv /\ LastWordCounts
<1>1. ASSUME ListsGood, CallsGood PROVE EventsInv /\ LastWordCounts
  <2>1. \A c \in Calls : CallGood(listeners, call[c])
    BY <1>1 DEF CallsGood
  <2>2. EventsTypeOK /\ InOrder /\ Registrations /\ HeardInTurn
    BY <1>1, <2>1, Zenon DEF ListsGood, CallsGood, CallGood, EventsTypeOK, InOrder, HeardInTurn
  <2>3. LastWordCounts
    BY <2>1, Zenon DEF CallGood, LastWordCounts
  <2>4. QED
    BY <2>1, <2>2, <2>3, Zenon DEF EventsInv, CallGood
<1>2. ASSUME EventsInv, LastWordCounts PROVE ListsGood /\ CallsGood
  <2>1. ListsGood
    BY <1>2, Zenon DEF EventsInv, EventsTypeOK, InOrder, ListsGood
  <2>2. call \in [Calls -> CallState]
    BY <1>2 DEF EventsInv, EventsTypeOK
  <2>3. ASSUME NEW c \in Calls PROVE CallGood(listeners, call[c])
    <3>1. call[c] \in CallState
      BY <2>2
    <3>2. Sorted(call[c].todo) /\ InTurn(Every(listeners), call[c].log)
      BY <1>2, Zenon DEF EventsInv, InOrder, HeardInTurn
    <3>3. /\ Phases(listeners, call[c]) /\ Emitting(listeners, call[c])
          /\ HoldsArgs(call[c]) /\ HoldsResult(call[c])
      BY <1>2, Zenon DEF EventsInv
    <3>4. /\ ArgsAsLastSet(call[c].log)
          /\ call[c].pc = "done" => call[c].result = ResultOf(call[c].log)
      BY <1>2, Zenon DEF LastWordCounts
    <3>5. QED
      BY <3>1, <3>2, <3>3, <3>4 DEF CallGood
  <2>4. QED
    BY <2>1, <2>2, <2>3 DEF CallsGood
<1>3. QED
  BY <1>1, <1>2

LEMMA InitGood ==
  ASSUME EventsInit
  PROVE  ListsGood /\ CallsGood
<1>1. /\ listeners \in [Hooks -> Seq(Listener)]
      /\ \A hook \in Hooks : listeners[hook] = <<>>
  BY EmptyLog DEF EventsInit
<1>2. \A hook \in Hooks : Sorted(listeners[hook]) /\ DOMAIN listeners[hook] = {}
  BY <1>1, EmptyLog
<1>3. Registered = 0
  BY <1>1, EmptyLog DEF Registered, Hooks
<1>4. Registrations
  BY <1>2, <1>3, CallbacksAssumption DEF Registrations
<1>5. CallGood(listeners, [NewCall("around") EXCEPT !.pc = "idle"])
  BY NewCallGood DEF Placements
<1>6. [NewCall("around") EXCEPT !.pc = "idle"] \in CallState
  BY <1>5 DEF CallGood
<1>7. CallsGood
  BY <1>5, <1>6 DEF EventsInit, CallsGood
<1>8. QED
  BY <1>1, <1>2, <1>4, <1>7 DEF ListsGood

(* What is said of the lists depends on nothing else.                      *)
LEMMA ListsStay ==
  ASSUME ListsGood, UNCHANGED listeners
  PROVE  ListsGood'
<1>0. listeners' = listeners
  OBVIOUS
<1>1. Registered' = Registered
  BY <1>0 DEF Registered
<1>2. Registrations'
  BY <1>0, <1>1 DEF ListsGood, Registrations
<1>3. QED
  BY <1>0, <1>2 DEF ListsGood

(* A step of one call.                                                     *)
LEMMA OneCallGood ==
  ASSUME ListsGood, CallsGood, NEW c \in Calls, NEW d, CallGood(listeners, d),
         call' = [call EXCEPT ![c] = d], UNCHANGED listeners
  PROVE  (ListsGood /\ CallsGood)'
<1>1. ListsGood'
  BY ListsStay
<1>2. d \in CallState /\ call \in [Calls -> CallState]
  BY DEF CallGood, CallsGood
<1>3. call' \in [Calls -> CallState]
  BY <1>2
<1>4. \A b \in Calls : call'[b] = IF b = c THEN d ELSE call[b]
  BY <1>2
<1>5. \A b \in Calls : CallGood(listeners, call[b])
  BY DEF CallsGood
<1>6. \A b \in Calls : CallGood(listeners, call'[b])
  BY <1>4, <1>5
<1>7. QED
  BY <1>1, <1>3, <1>6 DEF CallsGood

LEMMA NextGood ==
  ASSUME ListsGood, CallsGood, [EventsNext]_eventsVars
  PROVE  (ListsGood /\ CallsGood)'
<1>0. /\ listeners \in [Hooks -> Seq(Listener)] /\ call \in [Calls -> CallState]
      /\ \A hook \in Hooks : Sorted(listeners[hook])
      /\ \A c \in Calls : CallGood(listeners, call[c]) /\ call[c] \in CallState
      /\ Distinct(listeners)
  BY DEF ListsGood, CallsGood, CallGood, Registrations, Distinct
<1>1. ASSUME NEW hook \in Hooks, NEW priority \in Priorities, NEW filter \in Filters,
             On(hook, priority, filter)
      PROVE  (ListsGood /\ CallsGood)'
  <2>1. EventsTypeOK /\ InOrder /\ Registrations
    BY <1>0 DEF EventsTypeOK, InOrder, CallGood, ListsGood
  <2>2. ListsGood' /\ Grows(listeners, listeners')
    BY <1>1, <2>1, OnLists DEF ListsGood
  <2>3. Distinct(listeners')
    BY <2>2 DEF ListsGood, Registrations, Distinct
  <2>4. call' = call
    BY <1>1 DEF On
  <2>5. \A c \in Calls : CallGood(listeners', call[c])
    BY <1>0, <2>2, <2>3, GrowsGood
  <2>6. QED
    BY <1>0, <2>2, <2>4, <2>5 DEF CallsGood
<1>2. ASSUME NEW c \in Calls, NEW placement \in Placements, Call(c, placement)
      PROVE  (ListsGood /\ CallsGood)'
  <2>1. [NewCall(placement) EXCEPT !.pc = "enter"] = NewCall(placement)
    BY DEF NewCall
  <2>2. CallGood(listeners, [NewCall(placement) EXCEPT !.pc = "enter"])
    BY NewCallGood
  <2>3. CallGood(listeners, NewCall(placement))
    BY <2>1, <2>2
  <2>4. QED
    BY <1>2, <2>3, OneCallGood DEF Call
<1>3. ASSUME NEW c \in Calls, Enter(c)
      PROVE  (ListsGood /\ CallsGood)'
  <2> DEFINE d == call[c]
  <2>1. d.pc = "enter" /\ CallGood(listeners, d) /\ UNCHANGED listeners
    BY <1>0, <1>3 DEF Enter
  <2>2. PICK context \in Contexts :
          call' = [call EXCEPT ![c] = IF d.placement = "after" THEN [d EXCEPT !.pc = "function"]
                                                               ELSE Emission(d, "pre", context)]
    BY <1>0, <1>3 DEF Enter
  <2>3. CallGood(listeners, [d EXCEPT !.pc = "function"])
    BY <2>1, EnterFunctionGood
  <2>4. CallGood(listeners, Emission(d, "pre", context))
    BY <1>0, <2>1, EmissionGood DEF Hooks
  <2> HIDE DEF d
  <2>5. CallGood(listeners, IF d.placement = "after" THEN [d EXCEPT !.pc = "function"]
                                                     ELSE Emission(d, "pre", context))
    BY <2>3, <2>4
  <2>6. QED
    BY <2>1, <2>2, <2>5, OneCallGood
<1>4. ASSUME NEW c \in Calls, PassOver(c)
      PROVE  (ListsGood /\ CallsGood)'
  <2>1. CallGood(listeners, [call[c] EXCEPT !.todo = Tail(@)])
    BY <1>0, <1>4, PassOverGood DEF PassOver
  <2>2. call' = [call EXCEPT ![c] = [call[c] EXCEPT !.todo = Tail(@)]] /\ UNCHANGED listeners
    BY <1>0, <1>4 DEF PassOver
  <2>3. QED
    BY <2>1, <2>2, OneCallGood
<1>5. ASSUME NEW c \in Calls, Hear(c)
      PROVE  (ListsGood /\ CallsGood)'
  <2> DEFINE d == call[c]
             heard(kind) == [Heard(d, Head(d.todo).id, kind) EXCEPT
                               !.log = Noted(d, d.pc, Head(d.todo).id, kind, d.given)]
  <2>1. d.pc \in Hooks /\ d.todo # <<>> /\ CallGood(listeners, d) /\ UNCHANGED listeners
    BY <1>0, <1>5 DEF Hear
  <2>2. PICK kind \in Answers(d) : call' = [call EXCEPT ![c] = heard(kind)]
    BY <1>0, <1>5 DEF Hear
  <2>3. CallGood(listeners, heard(kind))
    BY <1>0, <2>1, HearGood
  <2> HIDE DEF heard
  <2>4. QED
    BY <2>1, <2>2, <2>3, OneCallGood
<1>6. ASSUME NEW c \in Calls, Emitted(c)
      PROVE  (ListsGood /\ CallsGood)'
  <2> DEFINE d == [call[c] EXCEPT !.context = "undefined"]
             b == IF d.pc = "pre" THEN PreHeard(d) ELSE PostHeard(d)
  <2>1. call[c].pc \in Hooks /\ call[c].todo = <<>> /\ UNCHANGED listeners
        /\ call' = [call EXCEPT ![c] = b]
    BY <1>6 DEF Emitted
  <2>2. CallGood(listeners, d) /\ d.pc = call[c].pc /\ d.todo = call[c].todo
    BY <1>0, ContextGood
  <2> HIDE DEF d
  <2>3. CASE d.pc = "pre"
    <3>1. CallGood(listeners, PreHeard(d))
      BY <2>1, <2>2, <2>3, PreHeardGood
    <3>2. CallGood(listeners, b)
      BY <2>3, <3>1
    <3>3. QED
      BY <2>1, <3>2, OneCallGood
  <2>4. CASE d.pc = "post"
    <3>1. CallGood(listeners, PostHeard(d))
      BY <2>1, <2>2, <2>4, PostHeardGood
    <3>2. CallGood(listeners, b)
      BY <2>4, <3>1
    <3>3. QED
      BY <2>1, <3>2, OneCallGood
  <2>5. QED
    BY <2>1, <2>2, <2>3, <2>4 DEF Hooks
<1>7. ASSUME NEW c \in Calls, Function(c)
      PROVE  (ListsGood /\ CallsGood)'
  <2> DEFINE d == call[c]
             b == [d EXCEPT !.pc = "leave", !.result = "function",
                            !.log = Noted(d, "function", "function", "called", d.args)]
  <2>1. d.pc = "function" /\ CallGood(listeners, d) /\ UNCHANGED listeners
        /\ call' = [call EXCEPT ![c] = b]
    BY <1>0, <1>7 DEF Function
  <2>2. CallGood(listeners, b)
    BY <2>1, FunctionGood
  <2> HIDE DEF b
  <2>3. QED
    BY <2>1, <2>2, OneCallGood
<1>8. ASSUME NEW c \in Calls, Leave(c)
      PROVE  (ListsGood /\ CallsGood)'
  <2> DEFINE d == call[c]
  <2>1. d.pc = "leave" /\ CallGood(listeners, d) /\ UNCHANGED listeners
    BY <1>0, <1>8 DEF Leave
  <2>2. PICK context \in Contexts :
          call' = [call EXCEPT ![c] = IF d.placement = "before" THEN [d EXCEPT !.pc = "done"]
                                                                ELSE Emission(d, "post", context)]
    BY <1>0, <1>8 DEF Leave
  <2>3. CallGood(listeners, [d EXCEPT !.pc = "done"])
    BY <2>1, LeaveDoneGood
  <2>4. CallGood(listeners, Emission(d, "post", context))
    BY <1>0, <2>1, EmissionGood DEF Hooks
  <2> HIDE DEF d
  <2>5. CallGood(listeners, IF d.placement = "before" THEN [d EXCEPT !.pc = "done"]
                                                      ELSE Emission(d, "post", context))
    BY <2>3, <2>4
  <2>6. QED
    BY <2>1, <2>2, <2>5, OneCallGood
<1>9. CASE UNCHANGED eventsVars
  <2>1. listeners' = listeners /\ call' = call
    BY <1>9 DEF eventsVars
  <2>2. ListsGood'
    BY <2>1, ListsStay
  <2>3. QED
    BY <2>1, <2>2 DEF CallsGood
<1>10. QED
  BY <1>1, <1>2, <1>3, <1>4, <1>5, <1>6, <1>7, <1>8, <1>9 DEF EventsNext

THEOREM EventsCallsGood == EventsSpec => [](EventsInv /\ LastWordCounts)
<1>1. EventsInit => EventsInv /\ LastWordCounts
  BY InitGood, InvariantsOfCalls
<1>2. EventsInv /\ LastWordCounts /\ [EventsNext]_eventsVars => (EventsInv /\ LastWordCounts)'
  <2> SUFFICES ASSUME EventsInv, LastWordCounts, [EventsNext]_eventsVars
               PROVE  (EventsInv /\ LastWordCounts)'
    OBVIOUS
  <2>1. ListsGood /\ CallsGood
    BY InvariantsOfCalls
  <2>2. (ListsGood /\ CallsGood)'
    BY <2>1, NextGood
  <2>3. (ListsGood /\ CallsGood <=> EventsInv /\ LastWordCounts)'
    BY InvariantsOfCalls, PTL
  <2>4. QED
    BY <2>2, <2>3
<1>3. QED
  BY <1>1, <1>2, PTL DEF EventsSpec

(* The inductive invariant holds: among its parts, the lists are in order, *)
(* and each call holds the arguments, the parameters and the result that   *)
(* its log tells.                                                          *)
THEOREM EventsInvHolds == EventsSpec => []EventsInv
  BY EventsCallsGood, PTL

(* In no emit is a listener called twice or out of turn, whoever registers *)
(* meanwhile (emit awaits each listener of the list it has begun with).    *)
THEOREM ListenersHeardInTurn == EventsSpec => []HeardInTurn
<1>1. EventsInv => HeardInTurn
  BY DEF EventsInv
<1>2. QED
  BY <1>1, EventsInvHolds, PTL

(* The function and the listeners get the arguments last set, and the      *)
(* caller the result last set, over all rounds of a call.                  *)
THEOREM LastWordHolds == EventsSpec => []LastWordCounts
  BY EventsCallsGood, PTL

(***************************************************************************)
(* MetricReporter.                                                         *)
(***************************************************************************)

USE ReporterAssumption

(* The reports of a subject with an outcome.                               *)
Matching(reports, s, o) ==
  {i \in DOMAIN reports : reports[i].subject = s /\ reports[i].outcome = o}

LEMMA MatchingFinite ==
  ASSUME NEW reports \in Seq(Report), NEW s, NEW o
  PROVE  /\ IsFiniteSet(DOMAIN reports)
         /\ IsFiniteSet(Matching(reports, s, o))
         /\ Count(reports, s, o) = Cardinality(Matching(reports, s, o))
         /\ Count(reports, s, o) \in Nat
<1>1. DOMAIN reports = 1..Len(reports) /\ Len(reports) \in Nat
  OBVIOUS
<1>2. IsFiniteSet(DOMAIN reports)
  BY <1>1, FS_Interval
<1>3. Matching(reports, s, o) \in SUBSET DOMAIN reports
  BY DEF Matching
<1>4. IsFiniteSet(Matching(reports, s, o))
  BY <1>2, <1>3, FS_Subset
<1>5. Count(reports, s, o) = Cardinality(Matching(reports, s, o))
  BY DEF Count, Matching
<1>6. QED
  BY <1>2, <1>4, <1>5, FS_CardinalityType

LEMMA CountEmpty ==
  ASSUME NEW s, NEW o
  PROVE  Count(<<>>, s, o) = 0
<1>1. {i \in DOMAIN <<>> : <<>>[i].subject = s /\ <<>>[i].outcome = o} = {}
  OBVIOUS
<1>2. QED
  BY <1>1, FS_EmptySet DEF Count

(* A report more adds one to its own count and to no other.                *)
LEMMA CountAppend ==
  ASSUME NEW reports \in Seq(Report), NEW r \in Report, NEW s, NEW o
  PROVE  Count(Append(reports, r), s, o) =
           Count(reports, s, o) + (IF r.subject = s /\ r.outcome = o THEN 1 ELSE 0)
<1> DEFINE longer == Append(reports, r)
           n      == Len(reports) + 1
<1>1. /\ longer \in Seq(Report) /\ Len(reports) \in Nat
      /\ DOMAIN longer = (DOMAIN reports) \cup {n}
      /\ n \notin DOMAIN reports
      /\ longer[n] = r
      /\ \A i \in DOMAIN reports : longer[i] = reports[i]
  OBVIOUS
<1>2. /\ IsFiniteSet(Matching(reports, s, o))
      /\ Count(reports, s, o) = Cardinality(Matching(reports, s, o))
      /\ Count(reports, s, o) \in Nat
      /\ Count(longer, s, o) = Cardinality(Matching(longer, s, o))
  BY <1>1, MatchingFinite
<1> HIDE DEF longer, n
<1>3. CASE r.subject = s /\ r.outcome = o
  <2>1. Matching(longer, s, o) = Matching(reports, s, o) \cup {n}
    BY <1>1, <1>3 DEF Matching
  <2>2. n \notin Matching(reports, s, o)
    BY <1>1 DEF Matching
  <2>3. Cardinality(Matching(longer, s, o)) = Cardinality(Matching(reports, s, o)) + 1
    BY <1>2, <2>1, <2>2, FS_AddElement
  <2>4. QED
    BY <1>2, <1>3, <2>3 DEF longer
<1>4. CASE ~(r.subject = s /\ r.outcome = o)
  <2>1. Matching(longer, s, o) = Matching(reports, s, o)
    BY <1>1, <1>4 DEF Matching
  <2>2. QED
    BY <1>2, <1>4, <2>1 DEF longer
<1>5. QED
  BY <1>3, <1>4

(* An event tells the API, for each subject and outcome, how many reports  *)
(* of that kind its batch held (failures are what is not a success).       *)
LEMMA AggregateCounts ==
  ASSUME NEW reports \in Seq(Report), NEW s \in Subjects, NEW o \in Outcome
  PROVE  Aggregate(reports, s)[o] = Count(reports, s, o)
<1> DEFINE all       == Of(reports, s)
           successes == {i \in all : reports[i].outcome = "success"}
<1>1. IsFiniteSet(DOMAIN reports)
  BY MatchingFinite
<1>2. all \in SUBSET DOMAIN reports /\ successes \in SUBSET all
  BY DEF Of
<1>3. IsFiniteSet(all) /\ IsFiniteSet(successes)
  BY <1>1, <1>2, FS_Subset
<1>4. \A i \in DOMAIN reports : reports[i].outcome \in {"success", "failure"}
  <2>1. \A i \in DOMAIN reports : reports[i] \in Report
    OBVIOUS
  <2>2. QED
    BY <2>1 DEF Report, Outcome
<1>5. CASE o = "success"
  <2>1. successes = Matching(reports, s, o)
    BY <1>5 DEF Of, Matching
  <2>2. Aggregate(reports, s)[o] = Cardinality(successes)
    BY <1>5 DEF Aggregate
  <2>3. QED
    BY <2>1, <2>2, MatchingFinite
<1>6. CASE o = "failure"
  <2>1. all \ successes = Matching(reports, s, o)
    BY <1>4, <1>6 DEF Of, Matching
  <2>2. all \cap successes = successes
    BY <1>2
  <2>3. Cardinality(all \ successes) = Cardinality(all) - Cardinality(successes)
    BY <1>3, <2>2, FS_Difference
  <2>4. Aggregate(reports, s)[o] = Cardinality(all) - Cardinality(successes)
    BY <1>6 DEF Aggregate
  <2>5. QED
    BY <2>1, <2>3, <2>4, MatchingFinite
<1>7. QED
  BY <1>5, <1>6 DEF Outcome

-----------------------------------------------------------------------------

LEMMA InitIInv == Init => IInv
<1> SUFFICES ASSUME Init PROVE IInv
  OBVIOUS
<1>1. NoCounts \in Counts /\ \A s \in Subjects, o \in Outcome : NoCounts[s][o] = 0
  BY DEF NoCounts, Counts
<1>2. TypeOK
  BY <1>1 DEF Init, TypeOK
<1>3. CountsConserved
  BY <1>1, CountEmpty DEF Init, CountsConserved
<1>4. NothingStranded /\ TimerKeepsTime /\ ExitLosesNothing
  BY DEF Init, NothingStranded, TimerKeepsTime, ExitLosesNothing
<1>5. QED
  BY <1>2, <1>3, <1>4 DEF IInv

(* Sending the batch: nothing is left of it, and it is all in the event.   *)
LEMMA FlushSends ==
  ASSUME IInv, Flush, UNCHANGED reported
  PROVE  /\ batch' = <<>> /\ startTime' = Undefined
         /\ requests' \in Nat /\ sent' \in Counts
         /\ \A s \in Subjects, o \in Outcome : reported'[s][o] = sent'[s][o]
<1>1. /\ batch \in Seq(Report) /\ requests \in Nat /\ sent \in Counts
      /\ reported \in Counts
      /\ \A s \in Subjects, o \in Outcome :
           reported[s][o] = sent[s][o] + Count(batch, s, o)
  BY DEF IInv, TypeOK, CountsConserved
<1>2. CASE batch = <<>>
  <2>1. UNCHANGED <<startTime, batch, requests, sent>> /\ startTime = Undefined
    BY <1>2 DEF Flush, IInv, NothingStranded
  <2>2. \A s \in Subjects, o \in Outcome : reported[s][o] = sent[s][o]
    BY <1>1, <1>2, CountEmpty DEF Counts
  <2>3. QED
    BY <1>1, <1>2, <2>1, <2>2
<1>3. CASE batch # <<>>
  <2>1. /\ batch' = <<>> /\ startTime' = Undefined /\ requests' = requests + 1
        /\ sent' = [s \in Subjects |-> [o \in Outcome |->
                      sent[s][o] + Aggregate(batch, s)[o]]]
    BY <1>3 DEF Flush
  <2>2. \A s \in Subjects, o \in Outcome :
          Aggregate(batch, s)[o] = Count(batch, s, o) /\ Count(batch, s, o) \in Nat
    BY <1>1, AggregateCounts, MatchingFinite
  <2>3. sent' \in Counts
    BY <1>1, <2>1, <2>2 DEF Counts
  <2>4. \A s \in Subjects, o \in Outcome : reported'[s][o] = sent'[s][o]
    BY <1>1, <2>1, <2>2 DEF Counts
  <2>5. QED
    BY <1>1, <2>1, <2>3, <2>4
<1>4. QED
  BY <1>2, <1>3

(* A batch that was just sent satisfies whatever is said of a batch.       *)
LEMMA FlushedIInv ==
  ASSUME IInv, Flush, UNCHANGED reported, timer' = Undefined, UNCHANGED now,
         status' \in {"running", "exited", "crashed"}
  PROVE  IInv'
<1>1. /\ batch' = <<>> /\ startTime' = Undefined
      /\ requests' \in Nat /\ sent' \in Counts
      /\ \A s \in Subjects, o \in Outcome : reported'[s][o] = sent'[s][o]
  BY FlushSends
<1>2. TypeOK'
  BY <1>1 DEF IInv, TypeOK
<1>3. NothingStranded' /\ TimerKeepsTime'
  BY <1>1 DEF NothingStranded, TimerKeepsTime
<1>4. CountsConserved'
  <2>1. \A s \in Subjects, o \in Outcome : sent'[s][o] \in Nat
    BY <1>1 DEF Counts
  <2>2. \A s \in Subjects, o \in Outcome : Count(batch', s, o) = 0
    BY <1>1, CountEmpty
  <2>3. QED
    BY <1>1, <2>1, <2>2 DEF CountsConserved
<1>5. ExitLosesNothing'
  <2>1. reported' \in Counts /\ sent' \in Counts
    BY <1>2 DEF TypeOK
  <2>2. sent' = reported'
    BY <1>1, <2>1 DEF Counts
  <2>3. QED
    BY <2>2 DEF ExitLosesNothing
<1>6. QED
  BY <1>2, <1>3, <1>4, <1>5 DEF IInv

(* A report is counted, and finds or sets a timer that keeps the time.     *)
LEMMA ReportIInv ==
  ASSUME IInv, NEW subject \in Subjects, NEW outcome \in Outcome,
         ReportPerform(subject, outcome)
  PROVE  IInv'
<1> DEFINE r == [subject |-> subject, outcome |-> outcome, occurredAt |-> now]
<1>1. /\ batch \in Seq(Report) /\ now \in Nat /\ requests \in Nat
      /\ timer \in Nat \cup {Undefined} /\ startTime \in Nat \cup {Undefined}
      /\ reported \in Counts /\ sent \in Counts /\ status = "running"
  BY DEF IInv, TypeOK, ReportPerform, Running
<1>2. r \in Report
  BY <1>1 DEF Report
<1>3. /\ batch' = Append(batch, r)
      /\ startTime' = Began /\ timer' = Due
      /\ reported' = [reported EXCEPT ![subject][outcome] = @ + 1]
      /\ UNCHANGED <<now, requests, status, sent>>
  BY DEF ReportPerform
<1>4. /\ batch' \in Seq(Report) /\ batch' # <<>>
      /\ batch'[Len(batch')] = r
  BY <1>1, <1>2, <1>3, AppendProperties
<1>5. r.subject = subject /\ r.outcome = outcome /\ r.occurredAt = now
  OBVIOUS
<1> HIDE DEF r
<1>6. startTime' \in Nat /\ timer' \in Nat
  BY <1>1, <1>3 DEF Began, Due, Elapsed, IInv, NothingStranded
<1>7. reported' \in Counts
  BY <1>1, <1>3 DEF Counts
<1>8. TypeOK'
  BY <1>1, <1>3, <1>4, <1>6, <1>7 DEF TypeOK
<1>9. NothingStranded'
  BY <1>4, <1>6 DEF NothingStranded
<1>10. TimerKeepsTime'
  <2>1. CASE Elapsed
    <3>1. /\ timer' = timer /\ startTime' = startTime /\ batch # <<>>
          /\ timer \in Nat /\ startTime \in Nat
          /\ now - startTime >= DebounceMax
      BY <1>1, <1>3, <2>1 DEF Elapsed, Due, Began, IInv, NothingStranded
    <3>2. timer < startTime + DebounceMax + DebounceMin /\ now <= timer + Lateness
      BY <3>1 DEF IInv, TimerKeepsTime
    <3>3. QED
      BY <1>3, <1>4, <1>5, <3>1, <3>2 DEF TimerKeepsTime
  <2>2. CASE ~Elapsed
    <3>1. timer' = now + DebounceMin
      BY <1>3, <2>2 DEF Due
    <3>2. now < startTime' + DebounceMax
      BY <1>1, <1>3, <2>2 DEF Elapsed, Began
    <3>3. timer' < startTime' + DebounceMax + DebounceMin
      <4>1. \A n, st, a, b \in Nat : n < st + a => n + b < st + a + b
        OBVIOUS
      <4>2. now \in Nat /\ startTime' \in Nat
              /\ DebounceMax \in Nat /\ DebounceMin \in Nat
        BY <1>1, <1>6
      <4>3. QED
        BY <4>1, <4>2, <3>1, <3>2
    <3>4. now' <= timer' + Lateness
      BY <1>1, <1>3, <3>1
    <3>5. QED
      BY <1>3, <1>4, <1>5, <3>1, <3>3, <3>4 DEF TimerKeepsTime
  <2>3. QED
    BY <2>1, <2>2
<1>11. CountsConserved'
  <2> SUFFICES ASSUME NEW s \in Subjects, NEW o \in Outcome
               PROVE  reported'[s][o] = sent'[s][o] + Count(batch', s, o)
    BY DEF CountsConserved
  <2>1. reported[s][o] = sent[s][o] + Count(batch, s, o)
    BY DEF IInv, CountsConserved
  <2>2. Count(batch', s, o) =
          Count(batch, s, o) + (IF subject = s /\ outcome = o THEN 1 ELSE 0)
    BY <1>1, <1>2, <1>3, <1>5, CountAppend
  <2>3. reported'[s][o] =
          reported[s][o] + (IF subject = s /\ outcome = o THEN 1 ELSE 0)
    BY <1>1, <1>3 DEF Counts
  <2>4. sent[s][o] \in Nat /\ Count(batch, s, o) \in Nat /\ sent' = sent
    BY <1>1, <1>3, MatchingFinite DEF Counts
  <2>5. QED
    BY <2>1, <2>2, <2>3, <2>4
<1>12. ExitLosesNothing'
  BY <1>1, <1>3 DEF ExitLosesNothing
<1>13. QED
  BY <1>8, <1>9, <1>10, <1>11, <1>12 DEF IInv

LEMMA StepIInv == IInv /\ [Next]_vars => IInv'
<1> SUFFICES ASSUME IInv, [Next]_vars PROVE IInv'
  OBVIOUS
<1>1. ASSUME NEW subject \in Subjects, NEW outcome \in Outcome,
             ReportPerform(subject, outcome)
      PROVE  IInv'
  BY <1>1, ReportIInv
<1>2. CASE ReportProviderChange
  BY <1>2 DEF ReportProviderChange, IInv, TypeOK, NothingStranded, TimerKeepsTime,
              CountsConserved, ExitLosesNothing
<1>3. CASE TimerFires
  BY <1>3, FlushedIInv DEF TimerFires, Running
<1>4. CASE RequestEnds
  BY <1>4 DEF RequestEnds, IInv, TypeOK, NothingStranded, TimerKeepsTime,
              CountsConserved, ExitLosesNothing
<1>5. CASE BeforeExit
  BY <1>5, FlushedIInv DEF BeforeExit
<1>6. CASE Crash
  BY <1>6 DEF Crash, IInv, TypeOK, NothingStranded, TimerKeepsTime,
              CountsConserved, ExitLosesNothing
<1>7. CASE Tick
  <2>1. /\ now \in Nat /\ now' = now + 1
        /\ UNCHANGED <<timer, startTime, batch, requests, status, reported, sent>>
    BY <1>7 DEF Tick, IInv, TypeOK
  <2>2. batch # <<>> => timer \in Nat /\ now < timer + Lateness
    BY <1>7 DEF Tick, IInv, TypeOK, NothingStranded
  <2>3. TimerKeepsTime'
    BY <2>1, <2>2 DEF IInv, TimerKeepsTime
  <2>4. QED
    BY <2>1, <2>3 DEF IInv, TypeOK, NothingStranded, CountsConserved, ExitLosesNothing
<1>8. CASE Stopped \/ UNCHANGED vars
  BY <1>8 DEF Stopped, vars, IInv, TypeOK, NothingStranded, TimerKeepsTime,
              CountsConserved, ExitLosesNothing
<1>9. QED
  BY <1>1, <1>2, <1>3, <1>4, <1>5, <1>6, <1>7, <1>8 DEF Next

(* The reporter stays well typed, counts every report once, keeps a timer  *)
(* for every batch and keeps the time.                                     *)
THEOREM InductiveInvariant == Spec => []IInv
<1>1. Init => IInv
  BY InitIInv
<1>2. IInv /\ [Next]_vars => IInv'
  BY StepIInv
<1>3. QED
  BY <1>1, <1>2, PTL DEF Spec

(* No report waits without a timer, whatever the debounce times: setTimer  *)
(* may return early only because a timer is set.                           *)
THEOREM NeverStranded == Spec => []NothingStranded
<1>1. IInv => NothingStranded
  BY DEF IInv
<1>2. QED
  BY <1>1, InductiveInvariant, PTL

(* The first report of a batch waits for less than both debounce times.    *)
THEOREM BoundedWait == Spec => []WaitBounded
<1>1. IInv => WaitBounded
  <2> SUFFICES ASSUME IInv, batch # <<>>
               PROVE  now - startTime < DebounceMax + DebounceMin + Lateness
    BY DEF WaitBounded
  <2>1. now \in Nat /\ timer \in Nat /\ startTime \in Nat
    BY DEF IInv, TypeOK, NothingStranded
  <2>2. timer < startTime + DebounceMax + DebounceMin /\ now <= timer + Lateness
    BY DEF IInv, TimerKeepsTime
  <2>3. QED
    BY <2>1, <2>2
<1>2. QED
  BY <1>1, InductiveInvariant, PTL

(* aggregateMetrics and flush neither lose nor repeat a report.            *)
THEOREM NothingMiscounted == Spec => []CountsConserved
<1>1. IInv => CountsConserved
  BY DEF IInv
<1>2. QED
  BY <1>1, InductiveInvariant, PTL

(* A process that exits by itself has sent every report.                   *)
THEOREM CleanExit == Spec => []ExitLosesNothing
<1>1. IInv => ExitLosesNothing
  BY DEF IInv
<1>2. QED
  BY <1>1, InductiveInvariant, PTL

(* The debounce: a batch leaves after a quiet time or when its time is up. *)
THEOREM Debounced == Spec => SentWhenQuiet
<1> DEFINE last == batch[Len(batch)].occurredAt
           Quiet == batch # <<>> /\ batch' = <<>> =>
                      now - last >= DebounceMin \/ last - startTime >= DebounceMax
<1>1. IInv /\ [Next]_vars => [Quiet]_vars
  <2> SUFFICES ASSUME IInv, Next, batch # <<>>, batch' = <<>>
               PROVE  now - last >= DebounceMin \/ last - startTime >= DebounceMax
    BY DEF vars
  <2>1. timer \in Nat /\ now \in Nat /\ batch \in Seq(Report) /\ timer # Undefined
    BY DEF IInv, TypeOK, NothingStranded
  <2>2. last \in Nat
    <3>1. batch[Len(batch)] \in Report
      BY <2>1
    <3>2. QED
      BY <3>1 DEF Report
  <2>3. timer = last + DebounceMin \/ last - startTime >= DebounceMax
    BY DEF IInv, TimerKeepsTime
  <2>4. now >= timer
    <3>1. ~(\E subject \in Subjects, outcome \in Outcome :
              ReportPerform(subject, outcome))
      <4>1. \A x : Append(batch, x) # <<>>
        BY <2>1
      <4>2. QED
        BY <4>1 DEF ReportPerform
    <3>2. ~ReportProviderChange /\ ~RequestEnds /\ ~BeforeExit /\ ~Crash /\ ~Tick
            /\ ~Stopped
      BY <2>1 DEF ReportProviderChange, RequestEnds, BeforeExit, Crash, Tick,
                  Stopped, vars
    <3>3. TimerFires
      BY <3>1, <3>2 DEF Next
    <3>4. QED
      BY <3>3 DEF TimerFires
  <2>5. QED
    BY <2>1, <2>2, <2>3, <2>4
<1>2. QED
  BY <1>1, InductiveInvariant, PTL DEF Spec, SentWhenQuiet
=============================================================================
