------------------------------ MODULE Process ------------------------------
(***************************************************************************)
(* The life of an instance's process: it is built, listens, serves, and    *)
(* once a stop is asked for drains the requests in flight and closes what  *)
(* it ran on (cmd/server/main.go; server.go and container.go of            *)
(* internal/app).  A request is held open for the write it began after its *)
(* answer (later.go), is measured once it is over, and offers a delivery   *)
(* of what was measured (metrics.go, tracing.go, telemetry.go); the last   *)
(* delivery is the close's.                                                *)
(*                                                                         *)
(* Spans are delivered beside the measurements and left out, but for the   *)
(* time their last delivery takes before the measurements'.                *)
(***************************************************************************)
EXTENDS Integers, FiniteSets

CONSTANTS
    Visits,             \* the requests
    ShutdownTimeout,    \* the whole way out, from the stop being seen
    LateDeadline,       \* lateDeadline: how long a write after the answer takes
    FlushTimeout,       \* how long a delivery takes while a request waits for it
    MetricInterval,     \* how far apart two deliveries are booked
    LastStop,           \* bound: the latest moment a stop is asked for
    MaxUptime           \* bound: how long it is looked at

ASSUME WayOutIsLongEnough ==
    /\ {ShutdownTimeout, LateDeadline, FlushTimeout, MetricInterval} \subseteq Nat
    /\ ShutdownTimeout >= 4 /\ LateDeadline > 0 /\ FlushTimeout < MetricInterval

VARIABLES
    process,    \* where the process is on its way
    visit,      \* where each request is
    unread,     \* the requests measured and not yet read for a delivery
    booked,     \* lastMetricFlush
    told,       \* history: the requests whose measurements were posted, or lost so
    lastRead,   \* history: when a request read last
    apart,      \* history: no two requests have read too soon after one another
    uptime

process_vars == <<process, visit, unread, booked, told, lastRead, apart, uptime>>

NoMoment == -1

\* CloseTimeout and DrainTimeout: the shares of the way out.
CloseTimeout == ShutdownTimeout \div 4
\* Mutant: the drain takes all of it.
DrainsItAll == ShutdownTimeout
DrainTimeout == ShutdownTimeout - CloseTimeout

\* holdBound: a little longer than the write may take.
HoldLess == LateDeadline - 1
HoldBound == LateDeadline + 1

Closing == {"closing", "reading", "posting"}

\* Whether a stop was asked for, and when the server saw it; the deadline of the
\* drain or the close; and what is said of the way out: that the drain was cut
\* short, that the last reading was made, that the exit is a failure's.
Built == [pc |-> "building", asked |-> FALSE, saw |-> NoMoment, by |-> 0,
          cut |-> FALSE, read |-> FALSE, failed |-> FALSE, carries |-> {}]
NotCome == [pc |-> "idle", late |-> "none", lateBy |-> 0, by |-> 0, carries |-> {}]

ProcessStates ==
    [pc : {"building", "listening", "serving", "draining", "exited", "killed"} \cup Closing,
     asked : BOOLEAN, saw : Nat \cup {NoMoment}, by : Nat,
     cut : BOOLEAN, read : BOOLEAN, failed : BOOLEAN, carries : SUBSET Visits]
VisitStates ==
    [pc : {"idle", "handling", "holding", "delivering", "reading", "posting", "done"},
     late : {"none", "writing", "ended"}, lateBy : Nat, by : Nat, carries : SUBSET Visits]

ProcessTypeOK ==
    /\ process \in ProcessStates
    /\ visit \in [Visits -> VisitStates]
    /\ unread \in SUBSET Visits
    /\ booked \in Nat \cup {NoMoment}
    /\ told \in SUBSET Visits
    /\ lastRead \in Nat \cup {NoMoment}
    /\ apart \in BOOLEAN
    /\ uptime \in Nat

ProcessInit ==
    /\ process = Built
    /\ visit = [v \in Visits |-> NotCome]
    /\ unread = {}
    /\ booked = NoMoment
    /\ told = {}
    /\ lastRead = NoMoment
    /\ apart = TRUE
    /\ uptime = 0

Alive == process.pc \notin {"exited", "killed"}
Serving == {v \in Visits : visit[v].pc \notin {"idle", "done"}}

-----------------------------------------------------------------------------
(* The process                                                             *)

\* signalled: the first signal asks, and one after it ends the process at once.
Signal ==
    /\ Alive
    /\ \/ /\ ~process.asked /\ uptime <= LastStop
          /\ process' = [process EXCEPT !.asked = TRUE]
          /\ UNCHANGED <<visit, unread, booked, told, lastRead, apart>>
       \/ /\ process.asked
          /\ process' = [Built EXCEPT !.pc = "killed"]
          /\ visit' = [v \in Visits |-> NotCome]
          /\ unread' = {} /\ booked' = NoMoment
          /\ told' = {} /\ lastRead' = NoMoment /\ apart' = TRUE
    /\ UNCHANGED uptime

\* Every way out closes what was built, in a share of its own.
Closes(failed) ==
    process' = [process EXCEPT !.pc = "closing", !.by = uptime + CloseTimeout, !.failed = failed]

\* Mutant: every cancellation is a stop.
FailedUnlessCanceled(canceled) == ~canceled
\* startupFailed: a build cut short by the stop that was asked for is that stop.
StartupFailed(canceled) == ~(process.asked /\ canceled)

\* NewContainer: the build may be canceled by what is not the stop.
Build ==
    /\ process.pc = "building"
    /\ \/ process' = [process EXCEPT !.pc = "listening"]
       \/ \E canceled \in BOOLEAN : Closes(StartupFailed(canceled))
    /\ UNCHANGED <<visit, unread, booked, told, lastRead, apart, uptime>>

\* Listen: refused, or canceled by the stop.
Listen ==
    /\ process.pc = "listening"
    /\ \/ process' = [process EXCEPT !.pc = "serving"]
       \/ Closes(TRUE)
       \/ process.asked /\ Closes(FALSE)
    /\ UNCHANGED <<visit, unread, booked, told, lastRead, apart, uptime>>

\* Run: the server stops serving on its own, which nothing asked for.
ServeFails ==
    /\ process.pc = "serving"
    /\ Closes(TRUE)
    /\ UNCHANGED <<visit, unread, booked, told, lastRead, apart, uptime>>

\* Run: the stop is seen, and the drain's deadline starts.
SeesStop ==
    /\ process.pc = "serving" /\ process.asked
    /\ process' = [process EXCEPT !.pc = "draining", !.saw = uptime, !.by = uptime + DrainTimeout]
    /\ UNCHANGED <<visit, unread, booked, told, lastRead, apart, uptime>>

\* Mutant: the requests in flight are not waited for.
DrainedAtOnce ==
    /\ process.pc = "draining"
    /\ \E fault \in BOOLEAN : Closes(fault)
    /\ UNCHANGED <<visit, unread, booked, told, lastRead, apart, uptime>>

\* Shutdown: nothing is in flight; the listener may have refused to close.
Drained ==
    /\ process.pc = "draining" /\ Serving = {}
    /\ \E fault \in BOOLEAN : Closes(fault)
    /\ UNCHANGED <<visit, unread, booked, told, lastRead, apart, uptime>>

CutWith(failed) ==
    /\ process.pc = "draining" /\ uptime = process.by
    /\ process' = [process EXCEPT !.pc = "closing", !.by = uptime + CloseTimeout,
                                  !.cut = TRUE, !.failed = failed]
    /\ UNCHANGED <<visit, unread, booked, told, lastRead, apart, uptime>>

\* Mutant: a drain cut short is a failure.
CutIsAFailure == CutWith(TRUE)
\* Run: the drain's share is spent.  What is cut loses its connection, and goes on
\* until the process ends.
CutShort == CutWith(FALSE)

-----------------------------------------------------------------------------
(* The close: Shutdown of telemetry, the last of the closers               *)

\* The last spans are delivered first.
ClosesTraces ==
    /\ process.pc = "closing"
    /\ process' = [process EXCEPT !.pc = "reading"]
    /\ UNCHANGED <<visit, unread, booked, told, lastRead, apart, uptime>>

LastReadingIf(due) ==
    /\ process.pc = "reading"
    /\ LET carried == IF due THEN unread ELSE {} IN
       IF uptime < process.by
       THEN /\ process' = [process EXCEPT !.pc = IF carried = {} THEN "exited" ELSE "posting",
                                          !.read = TRUE, !.carries = carried]
            /\ unread' = unread \ carried
       ELSE /\ process' = [process EXCEPT !.pc = "exited"]
            /\ UNCHANGED unread
    /\ UNCHANGED <<visit, booked, told, lastRead, apart, uptime>>

Due == booked = NoMoment \/ uptime - booked >= MetricInterval

\* Mutant: the last delivery is held to the interval.
LastReadingWhenDue == LastReadingIf(Due)
\* closeMeasurements: what was measured is read whenever it was last, if the
\* share of the close is not spent; with nothing measured, the close is over.
LastReading == LastReadingIf(TRUE)

\* It reaches the collector, or is lost: what was read is not kept.
LastPost ==
    /\ process.pc = "posting"
    /\ told' = told \cup process.carries
    /\ process' = [process EXCEPT !.pc = "exited", !.carries = {}]
    /\ UNCHANGED <<visit, unread, booked, lastRead, apart, uptime>>

-----------------------------------------------------------------------------
(* A request                                                               *)

\* A connection taken before the stop may still ask.
Comes(v) ==
    /\ visit[v].pc = "idle" /\ process.pc \in {"serving", "draining"}
    /\ visit' = [visit EXCEPT ![v] = [@ EXCEPT !.pc = "handling"]]
    /\ UNCHANGED <<process, unread, booked, told, lastRead, apart, uptime>>

\* A call of the request begins a write, which ends by its deadline.
BeginsLate(v) ==
    /\ visit[v].pc = "handling" /\ visit[v].late = "none" /\ Alive
    /\ visit' = [visit EXCEPT ![v] = [@ EXCEPT !.late = "writing", !.lateBy = uptime + LateDeadline]]
    /\ UNCHANGED <<process, unread, booked, told, lastRead, apart, uptime>>

LateEnds(v) ==
    /\ visit[v].late = "writing" /\ Alive
    /\ visit' = [visit EXCEPT ![v] = [@ EXCEPT !.late = "ended", !.lateBy = 0]]
    /\ UNCHANGED <<process, unread, booked, told, lastRead, apart, uptime>>

\* A request that goes on to where it may stay until a moment.
Until(one, pc, moment) == [one EXCEPT !.pc = pc, !.by = moment]

\* holdOpen: the answer leaves, and the request stays open.
Answers(v) ==
    /\ visit[v].pc = "handling" /\ Alive
    /\ visit' = [visit EXCEPT ![v] = Until(@, "holding", uptime + HoldBound)]
    /\ UNCHANGED <<process, unread, booked, told, lastRead, apart, uptime>>

\* Metrics: a request is measured once its handlers are over.
Measured(v) == unread' = unread \cup {v}

\* wait: until its write is done, or the bound has passed.
LetsGo(v) ==
    /\ visit[v].pc = "holding" /\ Alive
    /\ visit[v].late # "writing" \/ uptime >= visit[v].by
    /\ visit' = [visit EXCEPT ![v] = Until(@, "delivering", 0)]
    /\ Measured(v)
    /\ UNCHANGED <<process, booked, told, lastRead, apart, uptime>>

Done(one) == [one EXCEPT !.pc = "done", !.by = 0, !.carries = {}]

DeliversAndBooks(v, when) ==
    /\ visit[v].pc = "delivering" /\ Alive
    /\ IF Due
       THEN /\ visit' = [visit EXCEPT ![v] = Until(@, "reading", uptime + FlushTimeout)]
            /\ booked' = when
       ELSE /\ visit' = [visit EXCEPT ![v] = Done(@)]
            /\ UNCHANGED booked
    /\ UNCHANGED <<process, unread, told, lastRead, apart, uptime>>

\* Mutant: a delivery is not booked.
DeliversUnbooked(v) == DeliversAndBooks(v, booked)
\* metricsDue: a delivery is booked as it is found due.
Delivers(v) == DeliversAndBooks(v, uptime)

ReadsAndKeeps(v, kept) ==
    /\ visit[v].pc = "reading" /\ Alive
    /\ \/ /\ visit' = [visit EXCEPT ![v] =
                          IF unread = {} THEN Done(@) ELSE [@ EXCEPT !.pc = "posting", !.carries = unread]]
          /\ unread' = kept
          /\ lastRead' = uptime
          /\ apart' = (apart /\ (lastRead = NoMoment \/ uptime - lastRead >= MetricInterval - FlushTimeout))
       \/ /\ uptime = visit[v].by
          /\ visit' = [visit EXCEPT ![v] = Done(@)]
          /\ UNCHANGED <<unread, lastRead, apart>>
    /\ UNCHANGED <<process, booked, told, uptime>>

\* Mutant: a reading carries the total.
ReadsTotal(v) == ReadsAndKeeps(v, unread)
\* deliver: what changed since the last reading, by whichever request, is read,
\* unless the delivery's time is over.
Reads(v) == ReadsAndKeeps(v, {})

Posts(v) ==
    /\ visit[v].pc = "posting" /\ Alive
    /\ told' = told \cup visit[v].carries
    /\ visit' = [visit EXCEPT ![v] = Done(@)]
    /\ UNCHANGED <<process, unread, booked, lastRead, apart, uptime>>

\* Time passes, but for what has to be over by now.
Ages ==
    /\ Alive /\ uptime < MaxUptime
    /\ ~(process.pc = "serving" /\ process.asked)
    /\ process.pc \in {"draining"} \cup Closing => uptime < process.by
    /\ \A v \in Visits :
          /\ visit[v].late = "writing" => uptime < visit[v].lateBy
          /\ visit[v].pc \in {"holding", "reading", "posting"} => uptime < visit[v].by
    /\ uptime' = uptime + 1
    /\ UNCHANGED <<process, visit, unread, booked, told, lastRead, apart>>

ProcessNext ==
    \/ Signal \/ Build \/ Listen \/ ServeFails \/ SeesStop \/ Drained \/ CutShort
    \/ ClosesTraces \/ LastReading \/ LastPost
    \/ \E v \in Visits :
        \/ Comes(v) \/ BeginsLate(v) \/ LateEnds(v) \/ Answers(v) \/ LetsGo(v)
        \/ Delivers(v) \/ Reads(v) \/ Posts(v)
    \/ Ages

ProcessSpec == ProcessInit /\ [][ProcessNext]_process_vars

-----------------------------------------------------------------------------

\* The stop seen, the process has ended by the end of the one budget its drain
\* and its close share, whatever is in flight (Run, Close).
LeavesInTime == process.saw # NoMoment /\ Alive => uptime <= process.saw + ShutdownTimeout

Stopped == process.pc = "exited" /\ process.saw # NoMoment /\ ~process.cut

\* A stop whose drain was not cut short leaves no request half made, and loses no
\* write whose answer has been given (holdOpen, Run).
WritesAreWaitedFor == Stopped => Serving = {} /\ \A v \in Visits : visit[v].late # "writing"

\* Nothing measured is left in memory by such a stop, when the spans left the
\* close time to read it (closeMeasurements).
NothingMeasuredIsLeft == Stopped /\ process.read => unread = {}

\* What is measured is told in one delivery, however the deliveries of requests
\* and of the close pass one another (deliver).
ToldOnce ==
    /\ unread \cap (told \cup process.carries) = {}
    /\ \A v \in Visits :
          /\ visit[v].carries \cap (unread \cup told \cup process.carries) = {}
          /\ \A w \in Visits \ {v} : visit[v].carries \cap visit[w].carries = {}

\* The readings of two requests are an interval apart, but for the time one of
\* them may take to begin (metricsDue).
ReadingsAreApart == apart

\* A drain cut short is the stop that was asked for, and nothing is a stop that
\* was not asked for (startupFailed, Run, exitCode).
StopIsNoCrash == /\ process.cut => ~process.failed
                 /\ process.pc = "exited" /\ ~process.failed => process.asked

\* The process ends as it was asked to, in time, and takes nothing along that it
\* had time to deliver.
StopsHold ==
    /\ ProcessTypeOK
    /\ LeavesInTime
    /\ WritesAreWaitedFor
    /\ NothingMeasuredIsLeft
    /\ ToldOnce
    /\ ReadingsAreApart
    /\ StopIsNoCrash
=============================================================================
