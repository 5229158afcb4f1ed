--------------------------- MODULE MetricReporter ---------------------------
(***************************************************************************)
(* MetricReporter and the client around it: the outcomes of performs are   *)
(* collected in a batch, a debounce timer that is set again on each of     *)
(* them sends the batch, but not later than a maximal debounce time lets   *)
(* it; init and provider-switch events are sent at once.  Nothing is sent  *)
(* twice: a request that fails is logged and forgotten.                    *)
(*                                                                         *)
(* Data abstraction: the profile and provider of a report are one Subject, *)
(* the order of the metrics in an event is left out, and the reasons of a  *)
(* provider switch, which are copied into its event, are too.              *)
(***************************************************************************)
EXTENDS Integers, Sequences, FiniteSets

CONSTANTS Subjects,      \* pairs of a profile and a provider
          DebounceMin, DebounceMax,
          Undefined,
          Lateness,      \* how late the event loop may run a timer
          TicksPerDay,
          MaxTime,       \* bound of the clock when no timer is set
          MaxReports,    \* bound of the reports
          MaxRequests    \* bound of the requests in flight

ASSUME ReporterAssumption ==
  /\ DebounceMin \in Nat /\ DebounceMax \in Nat \ {0}
  /\ DebounceMin <= DebounceMax     \* or the constructor throws
  /\ Undefined \notin Int
  /\ Lateness \in Nat /\ TicksPerDay \in Nat \ {0}
  /\ MaxTime \in Nat /\ MaxReports \in Nat /\ MaxRequests \in Nat

VARIABLES now,          \* timers.now()
          timer,        \* when the timeout that is set is due
          startTime,
          batch,        \* performMetrics
          requests,     \* requests to the API in flight
          status,       \* of the process
          reported,     \* history: what performs reported
          sent          \* history: what Metrics events told the API

vars == <<now, timer, startTime, batch, requests, status, reported, sent>>

Outcome == {"success", "failure"}
Report  == [subject : Subjects, outcome : Outcome, occurredAt : Nat]
Counts  == [Subjects -> [Outcome -> Nat]]
NoCounts == [s \in Subjects |-> [o \in Outcome |-> 0]]

TypeOK ==
  /\ now \in Nat
  /\ timer \in Nat \cup {Undefined}
  /\ startTime \in Nat \cup {Undefined}
  /\ batch \in Seq(Report)
  /\ requests \in Nat
  /\ status \in {"running", "exited", "crashed"}
  /\ reported \in Counts /\ sent \in Counts

(* A client with a super.json reports SDKInit when it is constructed.      *)
Init ==
  /\ now = 0
  /\ timer = Undefined /\ startTime = Undefined
  /\ batch = <<>>
  /\ requests \in {0, 1}
  /\ status = "running"
  /\ reported = NoCounts /\ sent = NoCounts

-----------------------------------------------------------------------------
(* aggregateMetrics                                                        *)

Of(reports, subject) == {i \in DOMAIN reports : reports[i].subject = subject}

(* Mutated form: the successes of other subjects count as well.            *)
AggregateOthers(reports, s) ==
  LET successes == Cardinality({i \in DOMAIN reports : reports[i].outcome = "success"})
  IN [o \in Outcome |-> IF o = "success" THEN successes
                        ELSE Cardinality(Of(reports, s)) - successes]

Aggregate(reports, s) ==
  LET successes == Cardinality({i \in Of(reports, s) : reports[i].outcome = "success"})
  IN [o \in Outcome |-> IF o = "success" THEN successes
                        ELSE Cardinality(Of(reports, s)) - successes]

(* Array.prototype.sort compares dates by their text, which starts with    *)
(* the name of the day: the places of Sun, Mon, ... in the alphabet.  A    *)
(* batch is taken to be shorter than a week.                               *)
DayRank == <<4, 2, 6, 7, 5, 1, 3>>
RankOf(t) == DayRank[1 + ((t \div TicksPerDay) % 7)]

SortsBefore(t, u) == RankOf(t) < RankOf(u) \/ (RankOf(t) = RankOf(u) /\ t <= u)

TimesOf(reports) == {reports[i].occurredAt : i \in DOMAIN reports}

From(reports) ==
  CHOOSE t \in TimesOf(reports) : \A u \in TimesOf(reports) : SortsBefore(t, u)
To(reports) ==
  CHOOSE t \in TimesOf(reports) : \A u \in TimesOf(reports) : SortsBefore(u, t)

-----------------------------------------------------------------------------
(* setTimer: when the timer is due and the batch began after a report.     *)

(* Mutated forms: the maximal debounce time is ignored, a report does not  *)
(* move the timer, a batch that is over its time loses its timer.          *)
DueAlwaysLater == now + DebounceMin
DueOnce        == IF timer = Undefined THEN now + DebounceMin ELSE timer

Elapsed == startTime # Undefined /\ now - startTime >= DebounceMax
DueLost == IF Elapsed THEN Undefined ELSE now + DebounceMin
Due     == IF Elapsed THEN timer ELSE now + DebounceMin
Began   == IF startTime = Undefined THEN now ELSE startTime

Running == status = "running"

(* The outcome of a perform: the success and failure events.               *)
ReportPerform(subject, outcome) ==
  /\ Running
  /\ now < MaxTime
  /\ Len(batch) < MaxReports
  /\ batch' = Append(batch, [subject |-> subject, outcome |-> outcome,
                             occurredAt |-> now])
  /\ startTime' = Began
  /\ timer' = Due
  /\ reported' = [reported EXCEPT ![subject][outcome] = @ + 1]
  /\ UNCHANGED <<now, requests, status, sent>>

(* A provider-switch event is sent as it is.                               *)
ReportProviderChange ==
  /\ Running
  /\ now < MaxTime
  /\ requests < MaxRequests
  /\ requests' = requests + 1
  /\ UNCHANGED <<now, timer, startTime, batch, status, reported, sent>>

(* Mutated form: the batch stays.                                          *)
FlushKeepsBatch ==
  IF batch = <<>> THEN UNCHANGED <<startTime, batch, requests, sent>>
  ELSE /\ startTime' = Undefined
       /\ requests' = requests + 1
       /\ sent' = [s \in Subjects |-> [o \in Outcome |->
                     sent[s][o] + Aggregate(batch, s)[o]]]
       /\ UNCHANGED batch

(* flush, but for the timer, which each caller has fired or never set.     *)
Flush ==
  IF batch = <<>> THEN UNCHANGED <<startTime, batch, requests, sent>>
  ELSE /\ batch' = <<>>
       /\ startTime' = Undefined
       /\ requests' = requests + 1
       /\ sent' = [s \in Subjects |-> [o \in Outcome |->
                     sent[s][o] + Aggregate(batch, s)[o]]]

TimerFires ==
  /\ Running
  /\ timer # Undefined /\ now >= timer
  /\ Flush
  /\ timer' = Undefined
  /\ UNCHANGED <<now, status, reported>>

(* A request ends with a response or an error; both are only logged.       *)
RequestEnds ==
  /\ Running
  /\ requests > 0
  /\ requests' = requests - 1
  /\ UNCHANGED <<now, timer, startTime, batch, status, reported, sent>>

(* With no timer and no request the event loop is empty; Node asks its     *)
(* beforeExit listeners for more work, and exits when there is none.       *)
BeforeExit ==
  /\ Running
  /\ timer = Undefined /\ requests = 0
  /\ Flush
  /\ status' = IF batch = <<>> THEN "exited" ELSE "running"
  /\ UNCHANGED <<now, timer, reported>>

(* An exception nobody handles, or process.exit(): no beforeExit.          *)
Crash ==
  /\ Running
  /\ status' = "crashed"
  /\ UNCHANGED <<now, timer, startTime, batch, requests, reported, sent>>

(* Timers may be late, but not by more than Lateness.                      *)
Tick ==
  /\ Running
  /\ IF timer = Undefined THEN now < MaxTime ELSE now < timer + Lateness
  /\ now' = now + 1
  /\ UNCHANGED <<timer, startTime, batch, requests, status, reported, sent>>

Stopped == ~Running /\ UNCHANGED vars

Next ==
  \/ \E subject \in Subjects, outcome \in Outcome : ReportPerform(subject, outcome)
  \/ ReportProviderChange
  \/ TimerFires
  \/ RequestEnds
  \/ BeforeExit
  \/ Crash
  \/ Tick
  \/ Stopped

(* Time passes and timers fire.                                            *)
Spec == Init /\ [][Next]_vars /\ WF_vars(Tick) /\ WF_vars(TimerFires)
-----------------------------------------------------------------------------
(* A report never waits without a timer that will send it, and no batch    *)
(* that was sent leaves its start time or its timer behind for the next.   *)
NothingStranded ==
  /\ batch # <<>> <=> timer # Undefined
  /\ batch # <<>> <=> startTime # Undefined

(* The maximal debounce time: however often a report moves the timer, the  *)
(* first of a batch waits for less than both debounce times together (and  *)
(* what the event loop adds).                                              *)
WaitBounded ==
  batch # <<>> => now - startTime < DebounceMax + DebounceMin + Lateness

Count(reports, s, o) ==
  Cardinality({i \in DOMAIN reports :
                 reports[i].subject = s /\ reports[i].outcome = o})

(* What the API was told, and what the batch still holds, is what performs *)
(* reported: nothing is counted twice, lost, or counted for another        *)
(* provider or outcome.                                                    *)
CountsConserved ==
  \A s \in Subjects, o \in Outcome :
    reported[s][o] = sent[s][o] + Count(batch, s, o)

(* "it will execute unless another metric request comes": a batch is sent  *)
(* after a quiet minimal debounce time, or when its time had run out at    *)
(* the last report.                                                        *)
SentWhenQuiet ==
  [][batch # <<>> /\ batch' = <<>> =>
       LET last == batch[Len(batch)].occurredAt
       IN now - last >= DebounceMin \/ last - startTime >= DebounceMax]_vars

(* A process that exits by itself has sent everything that was reported.   *)
ExitLosesNothing == status = "exited" => sent = reported

(* The period an event names is the one of its reports, if they are of one *)
(* day (text sorts Mondays before Sundays).                                *)
PeriodOfDay ==
  [][batch # <<>> /\ batch' = <<>>
       /\ RankOf(startTime) = RankOf(batch[Len(batch)].occurredAt) =>
         From(batch) = startTime /\ To(batch) = batch[Len(batch)].occurredAt]_vars

(* Every report is sent in the end, unless the process crashes.            *)
EveryReportSent == batch # <<>> ~> batch = <<>> \/ status = "crashed"

(* Both: what was reported is sent, in an event with the right period.     *)
SentInTheEnd == EveryReportSent /\ PeriodOfDay

-----------------------------------------------------------------------------
(* The inductive invariant behind the safety properties: the timer of a    *)
(* batch is due before both debounce times are over, has not been missed   *)
(* by more than Lateness, and was set by the last report unless the time   *)
(* of the batch was up.                                                    *)
TimerKeepsTime ==
  batch # <<>> =>
    /\ timer < startTime + DebounceMax + DebounceMin
    /\ now <= timer + Lateness
    /\ LET last == batch[Len(batch)].occurredAt
       IN timer = last + DebounceMin \/ last - startTime >= DebounceMax

IInv == TypeOK /\ NothingStranded /\ TimerKeepsTime /\ CountsConserved
          /\ ExitLosesNothing
=============================================================================
