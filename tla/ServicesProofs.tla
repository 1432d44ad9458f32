--------------------------- MODULE ServicesProofs ---------------------------
(***************************************************************************)
(* What an instance promises beside the store, for any number of requests, *)
(* clients and programs and any limits: the process ends as StopsHold has  *)
(* it, a request to Drive is made again without harm, the documents of     *)
(* clients are kept no longer than they may be, a program is judged as if  *)
(* it were alone, a key goes ahead as its pace allows, and what a sign-in  *)
(* gives is good as long as was said.  The six share no state, and each    *)
(* has an invariant of its own.                                            *)
(***************************************************************************)
EXTENDS Tokens, Process, Calls, Documents, Solvers, Ceilings, FiniteSetTheorems, SequenceTheorems, TLAPS

(***************************************************************************)
(* The process (Process): what each moment is kept against, and where a    *)
(* measurement may be, as invariants of every step.                        *)
(***************************************************************************)

Out == Closing \cup {"exited"}

\* Each part of the way out has its share, and what it says has been asked for.
Shares ==
    /\ process.pc \in {"building", "listening", "serving"} =>
          process.saw = NoMoment /\ ~process.failed
    /\ process.saw # NoMoment => process.asked
    /\ process.pc \in {"draining"} \cup Closing => uptime <= process.by
    /\ process.pc = "draining" =>
          process.saw # NoMoment /\ process.by = process.saw + DrainTimeout /\ ~process.cut
    /\ process.pc \in Closing /\ process.saw # NoMoment => process.by <= process.saw + ShutdownTimeout
    /\ process.pc \in Out /\ ~process.failed => process.asked
    /\ process.cut => ~process.failed /\ process.saw # NoMoment
    /\ process.read => process.pc \in {"posting", "exited"}

\* A request is held longer than its write may take.
Held(v) ==
    /\ visit[v].late = "writing" =>
          /\ uptime <= visit[v].lateBy
          /\ visit[v].pc \in {"handling", "holding"}
          /\ visit[v].pc = "handling" => visit[v].lateBy <= uptime + LateDeadline
          /\ visit[v].pc = "holding" => visit[v].lateBy < visit[v].by
    /\ visit[v].pc \in {"holding", "reading", "posting"} => uptime <= visit[v].by

\* Nothing is in flight once a drain has not been cut short.
Empty ==
    process.pc \in Out /\ process.saw # NoMoment /\ ~process.cut =>
        /\ \A v \in Visits : visit[v].pc \in {"idle", "done"}
        /\ process.read => unread = {}

\* What is not measured yet is nowhere, and only what posts carries.
Nowhere(v) ==
    /\ v \notin unread /\ v \notin told /\ v \notin process.carries
    /\ \A w \in Visits : v \notin visit[w].carries
Carried ==
    /\ process.pc # "posting" => process.carries = {}
    /\ \A v \in Visits :
          /\ visit[v].pc # "posting" => visit[v].carries = {}
          /\ visit[v].pc \in {"idle", "handling", "holding"} => Nowhere(v)
    /\ ToldOnce

\* One request reads at a time: the one booked last, an interval after the one before.
Booked ==
    /\ booked <= uptime
    /\ lastRead # NoMoment => booked # NoMoment /\ lastRead <= booked + FlushTimeout
    /\ \A v \in Visits : visit[v].pc = "reading" =>
          /\ booked # NoMoment /\ visit[v].by = booked + FlushTimeout
          /\ lastRead # NoMoment => lastRead <= booked - MetricInterval + FlushTimeout
    /\ \A v, w \in Visits : visit[v].pc = "reading" /\ visit[w].pc = "reading" => v = w
    /\ apart

ProcessInv == ProcessTypeOK /\ Shares /\ (\A v \in Visits : Held(v)) /\ Empty /\ Carried /\ Booked

\* The durations are numbers, and the shares add up.
LEMMA Durations ==
    /\ ShutdownTimeout \in Nat /\ LateDeadline \in Nat /\ FlushTimeout \in Nat /\ MetricInterval \in Nat
    /\ CloseTimeout \in Nat /\ DrainTimeout \in Nat
    /\ DrainTimeout + CloseTimeout = ShutdownTimeout
    /\ HoldBound \in Nat /\ LateDeadline < HoldBound /\ FlushTimeout < MetricInterval
BY WayOutIsLongEnough DEF CloseTimeout, DrainTimeout, HoldBound

-----------------------------------------------------------------------------
(* What a step does to the fields of the process and of a request          *)

KeepsSaid(r) == process'.asked = r.asked /\ process'.saw = r.saw /\ process'.cut = r.cut

\* A process that closes is a process.
LEMMA CloseState ==
    ASSUME NEW r \in ProcessStates, NEW n \in Nat, NEW f \in BOOLEAN
    PROVE  [r EXCEPT !.pc = "closing", !.by = n, !.failed = f] \in ProcessStates
BY DEF ProcessStates, Closing

\* A process whose drain is cut short is a process.
LEMMA CutState ==
    ASSUME NEW r \in ProcessStates, NEW n \in Nat
    PROVE  [r EXCEPT !.pc = "closing", !.by = n, !.cut = TRUE, !.failed = FALSE] \in ProcessStates
BY ZenonT(30) DEF ProcessStates, Closing

\* A request that is over is a request.
LEMMA DoneState == ASSUME NEW r \in VisitStates PROVE Done(r) \in VisitStates
BY ZenonT(30) DEF VisitStates, Done

\* A process that closes.
LEMMA ClosesFields ==
    ASSUME ProcessTypeOK, NEW f \in BOOLEAN, Closes(f)
    PROVE  /\ process' \in ProcessStates
           /\ process'.pc = "closing" /\ process'.by = uptime + CloseTimeout /\ process'.failed = f
           /\ KeepsSaid(process) /\ process'.read = process.read /\ process'.carries = process.carries
<1>1. uptime + CloseTimeout \in Nat /\ process \in ProcessStates
  BY Durations DEF ProcessTypeOK
<1>2. process' \in ProcessStates
  BY <1>1, CloseState DEF Closes
<1>3. process'.pc = "closing" /\ process'.by = uptime + CloseTimeout /\ process'.failed = f
  BY <1>1 DEF Closes, ProcessStates
<1>4. KeepsSaid(process) /\ process'.read = process.read /\ process'.carries = process.carries
  BY <1>1 DEF Closes, ProcessStates, KeepsSaid
<1>. QED
  BY <1>2, <1>3, <1>4

\* A process whose drain is cut short is told nothing failed.
LEMMA CutFields ==
    ASSUME ProcessTypeOK, CutShort
    PROVE  /\ process' \in ProcessStates
           /\ process'.pc = "closing" /\ process'.by = uptime + CloseTimeout
           /\ process'.failed = FALSE /\ process'.cut = TRUE
           /\ process'.asked = process.asked /\ process'.saw = process.saw
           /\ process'.read = process.read /\ process'.carries = process.carries
<1>1. uptime + CloseTimeout \in Nat /\ process \in ProcessStates
  BY Durations DEF ProcessTypeOK
<1>2. process' \in ProcessStates
  BY <1>1, CutState DEF CutShort, CutWith
<1>3. process'.pc = "closing" /\ process'.by = uptime + CloseTimeout /\ process'.failed = FALSE
      /\ process'.cut = TRUE
  BY <1>1 DEF CutShort, CutWith, ProcessStates
<1>4. process'.asked = process.asked /\ process'.saw = process.saw
      /\ process'.read = process.read /\ process'.carries = process.carries
  BY <1>1 DEF CutShort, CutWith, ProcessStates
<1>. QED
  BY <1>2, <1>3, <1>4

\* A step that only moves the process on.
MovesTo(pc) ==
    /\ process'.pc = pc
    /\ KeepsSaid(process) /\ process'.by = process.by /\ process'.failed = process.failed
    /\ process'.read = process.read /\ process'.carries = process.carries

\* Moving on changes the place alone.
LEMMA MoveFields ==
    ASSUME ProcessTypeOK, NEW pc \in {"listening", "serving", "reading", "exited"},
           process' = [process EXCEPT !.pc = pc]
    PROVE  process' \in ProcessStates /\ MovesTo(pc)
<1>1. process' \in ProcessStates
  BY DEF ProcessTypeOK, ProcessStates, Closing
<1>. QED
  BY <1>1 DEF ProcessTypeOK, ProcessStates, MovesTo, KeepsSaid

\* A process that is asked to stop is otherwise as it was.
LEMMA AskedFields ==
    ASSUME ProcessTypeOK, process' = [process EXCEPT !.asked = TRUE]
    PROVE  /\ process' \in ProcessStates /\ process'.asked = TRUE
           /\ process'.pc = process.pc /\ process'.saw = process.saw /\ process'.by = process.by
           /\ process'.cut = process.cut /\ process'.read = process.read
           /\ process'.failed = process.failed /\ process'.carries = process.carries
<1>1. process' \in ProcessStates
  BY DEF ProcessTypeOK, ProcessStates
<1>. QED
  BY <1>1 DEF ProcessTypeOK, ProcessStates

\* A process that is killed keeps nothing.
LEMMA KilledFields ==
    ASSUME process' = [Built EXCEPT !.pc = "killed"]
    PROVE  /\ process' \in ProcessStates
           /\ process'.pc = "killed" /\ process'.saw = NoMoment /\ process'.asked = FALSE
           /\ process'.cut = FALSE /\ process'.read = FALSE /\ process'.failed = FALSE
           /\ process'.carries = {}
BY DEF Built, ProcessStates, NoMoment

\* A process that sees the stop has its drain before it.
LEMMA SeesStopFields ==
    ASSUME ProcessTypeOK, SeesStop
    PROVE  /\ process' \in ProcessStates
           /\ process'.pc = "draining" /\ process'.saw = uptime /\ process'.by = uptime + DrainTimeout
           /\ process'.asked = process.asked /\ process'.cut = process.cut
           /\ process'.failed = process.failed /\ process'.read = process.read
           /\ process'.carries = process.carries
<1>1. uptime + DrainTimeout \in Nat /\ process \in ProcessStates /\ uptime \in Nat
  BY Durations DEF ProcessTypeOK
<1>2. \A r \in ProcessStates, m, n \in Nat :
          [r EXCEPT !.pc = "draining", !.saw = m, !.by = n] \in ProcessStates
  BY DEF ProcessStates
<1>3. process' \in ProcessStates
  BY <1>1, <1>2 DEF SeesStop
<1>. QED
  BY <1>1, <1>3 DEF SeesStop, ProcessStates

\* The last reading: all of it, or nothing.
LEMMA LastReadingFields ==
    ASSUME ProcessTypeOK, LastReading
    PROVE  /\ process' \in ProcessStates
           /\ KeepsSaid(process) /\ process'.failed = process.failed /\ process'.by = process.by
           /\ \/ /\ process'.read = TRUE /\ process'.carries = unread /\ unread' = {}
                 /\ process'.pc = IF unread = {} THEN "exited" ELSE "posting"
              \/ /\ process'.read = process.read /\ process'.carries = process.carries
                 /\ unread' = unread /\ process'.pc = "exited"
<1>1. \A r \in ProcessStates, pc \in {"exited", "posting"}, c \in SUBSET Visits :
          [r EXCEPT !.pc = pc, !.read = TRUE, !.carries = c] \in ProcessStates
  BY DEF ProcessStates, Closing
<1>2. CASE uptime < process.by
  <2>1. process' = [process EXCEPT !.pc = IF unread = {} THEN "exited" ELSE "posting",
                                   !.read = TRUE, !.carries = unread] /\ unread' = {}
    BY <1>2 DEF LastReading, LastReadingIf
  <2>2. process' \in ProcessStates
    BY <1>1, <2>1 DEF ProcessTypeOK
  <2>. QED
    BY <2>1, <2>2 DEF ProcessTypeOK, ProcessStates, KeepsSaid
<1>3. CASE ~(uptime < process.by)
  <2>1. process' = [process EXCEPT !.pc = "exited"] /\ unread' = unread
    BY <1>3 DEF LastReading, LastReadingIf
  <2>. QED
    BY <2>1, MoveFields DEF MovesTo
<1>. QED
  BY <1>2, <1>3

\* The last post ends the process.
LEMMA LastPostFields ==
    ASSUME ProcessTypeOK, LastPost
    PROVE  /\ process' \in ProcessStates
           /\ process'.pc = "exited" /\ process'.carries = {} /\ process'.read = process.read
           /\ KeepsSaid(process) /\ process'.failed = process.failed /\ process'.by = process.by
<1>1. process' \in ProcessStates
  BY DEF ProcessTypeOK, ProcessStates, Closing, LastPost
<1>. QED
  BY <1>1 DEF ProcessTypeOK, ProcessStates, LastPost, KeepsSaid

\* Request v moves on to state r, and no other moves.
Moves(v, r) ==
    /\ visit' \in [Visits -> VisitStates]
    /\ visit'[v] = r
    /\ \A w \in Visits \ {v} : visit'[w] = visit[w]

\* A request that is replaced moves, and no other.
LEMMA VisitMoves ==
    ASSUME ProcessTypeOK, NEW v \in Visits, NEW r \in VisitStates,
           visit' = [visit EXCEPT ![v] = r]
    PROVE  Moves(v, r)
BY DEF ProcessTypeOK, Moves

\* A request that comes has begun nothing.
LEMMA ComesFields ==
    ASSUME ProcessTypeOK, NEW v \in Visits, Comes(v)
    PROVE  \E r \in VisitStates :
              /\ Moves(v, r) /\ r.pc = "handling"
              /\ r.late = visit[v].late /\ r.lateBy = visit[v].lateBy /\ r.carries = visit[v].carries
<1>. DEFINE r == [visit[v] EXCEPT !.pc = "handling"]
<1>1. visit[v] \in VisitStates
  BY DEF ProcessTypeOK
<1>2. r \in VisitStates /\ r.pc = "handling"
      /\ r.late = visit[v].late /\ r.lateBy = visit[v].lateBy /\ r.carries = visit[v].carries
  BY <1>1 DEF VisitStates
<1>3. visit' = [visit EXCEPT ![v] = r]
  BY DEF Comes
<1>4. Moves(v, r)
  BY <1>2, <1>3, VisitMoves
<1>. QED
  BY <1>2, <1>4

\* A write is begun where the request is.
LEMMA BeginsLateFields ==
    ASSUME ProcessTypeOK, NEW v \in Visits, BeginsLate(v)
    PROVE  \E r \in VisitStates :
              /\ Moves(v, r) /\ r.pc = visit[v].pc
              /\ r.late = "writing" /\ r.lateBy = uptime + LateDeadline
              /\ r.by = visit[v].by /\ r.carries = visit[v].carries
<1>. DEFINE r == [visit[v] EXCEPT !.late = "writing", !.lateBy = uptime + LateDeadline]
<1>1. visit[v] \in VisitStates /\ uptime + LateDeadline \in Nat
  BY Durations DEF ProcessTypeOK
<1>2. \A o \in VisitStates, n \in Nat : LET c == [o EXCEPT !.late = "writing", !.lateBy = n] IN
          /\ c \in VisitStates /\ c.pc = o.pc /\ c.late = "writing" /\ c.lateBy = n
          /\ c.by = o.by /\ c.carries = o.carries
  BY DEF VisitStates
<1>3. visit' = [visit EXCEPT ![v] = r]
  BY DEF BeginsLate
<1>4. Moves(v, r)
  BY <1>1, <1>2, <1>3, VisitMoves
<1>. QED
  BY <1>1, <1>2, <1>4, ZenonT(40)

\* A write ends where the request is.
LEMMA LateEndsFields ==
    ASSUME ProcessTypeOK, NEW v \in Visits, LateEnds(v)
    PROVE  \E r \in VisitStates :
              /\ Moves(v, r) /\ r.pc = visit[v].pc /\ r.late = "ended"
              /\ r.by = visit[v].by /\ r.carries = visit[v].carries
<1>. DEFINE r == [visit[v] EXCEPT !.late = "ended", !.lateBy = 0]
<1>1. visit[v] \in VisitStates
  BY DEF ProcessTypeOK
<1>2. \A o \in VisitStates : LET c == [o EXCEPT !.late = "ended", !.lateBy = 0] IN
          /\ c \in VisitStates /\ c.pc = o.pc /\ c.late = "ended"
          /\ c.by = o.by /\ c.carries = o.carries
  BY DEF VisitStates
<1>3. visit' = [visit EXCEPT ![v] = r]
  BY DEF LateEnds
<1>4. Moves(v, r)
  BY <1>1, <1>2, <1>3, VisitMoves
<1>. QED
  BY <1>1, <1>2, <1>4

\* A request that goes on to a place it may stay at until a moment.
Stays(v, pc, n) == visit' = [visit EXCEPT ![v] = Until(@, pc, n)]

LEMMA StaysFields ==
    ASSUME ProcessTypeOK, NEW v \in Visits, NEW n \in Nat,
           NEW pc \in {"holding", "delivering", "reading"},
           Stays(v, pc, n)
    PROVE  \E r \in VisitStates :
              /\ Moves(v, r) /\ r.pc = pc /\ r.by = n
              /\ r.late = visit[v].late /\ r.lateBy = visit[v].lateBy /\ r.carries = visit[v].carries
<1>. DEFINE r == Until(visit[v], pc, n)
<1>1. visit[v] \in VisitStates
  BY DEF ProcessTypeOK
<1>2. \A o \in VisitStates : LET c == Until(o, pc, n) IN
          /\ c \in VisitStates /\ c.pc = pc /\ c.by = n
          /\ c.late = o.late /\ c.lateBy = o.lateBy /\ c.carries = o.carries
  BY DEF VisitStates, Until
<1>3. visit' = [visit EXCEPT ![v] = r]
  BY DEF Stays
<1>4. Moves(v, r)
  BY <1>1, <1>2, <1>3, VisitMoves
<1>. QED
  BY <1>1, <1>2, <1>4

\* The request is over.
IsOver(v) == visit' = [visit EXCEPT ![v] = Done(@)]

\* A request that is over carries nothing.
LEMMA DoneFields ==
    ASSUME ProcessTypeOK, NEW v \in Visits, IsOver(v)
    PROVE  \E r \in VisitStates :
              /\ Moves(v, r) /\ r.pc = "done" /\ r.late = visit[v].late /\ r.carries = {}
<1>. DEFINE r == Done(visit[v])
<1>1. visit[v] \in VisitStates
  BY DEF ProcessTypeOK
<1>2. r \in VisitStates
  BY <1>1, DoneState
<1>3. r.pc = "done" /\ r.late = visit[v].late /\ r.carries = {}
  BY <1>1 DEF VisitStates, Done
<1>4. visit' = [visit EXCEPT ![v] = r]
  BY DEF IsOver
<1>5. Moves(v, r)
  BY <1>2, <1>4, VisitMoves
<1>. QED
  BY <1>2, <1>3, <1>5

\* The request posts all that is unread.
IsPosting(v) == visit' = [visit EXCEPT ![v] = [@ EXCEPT !.pc = "posting", !.carries = unread]]

\* A request that posts carries all that was unread.
LEMMA PostingFields ==
    ASSUME ProcessTypeOK, NEW v \in Visits, IsPosting(v)
    PROVE  \E r \in VisitStates :
              /\ Moves(v, r) /\ r.pc = "posting" /\ r.late = visit[v].late
              /\ r.by = visit[v].by /\ r.carries = unread
<1>. DEFINE r == [visit[v] EXCEPT !.pc = "posting", !.carries = unread]
<1>1. visit[v] \in VisitStates /\ unread \in SUBSET Visits
  BY DEF ProcessTypeOK
<1>2. \A o \in VisitStates, s \in SUBSET Visits : LET c == [o EXCEPT !.pc = "posting", !.carries = s] IN
          /\ c \in VisitStates /\ c.pc = "posting" /\ c.late = o.late /\ c.by = o.by /\ c.carries = s
  BY DEF VisitStates
<1>3. visit' = [visit EXCEPT ![v] = r]
  BY DEF IsPosting
<1>4. Moves(v, r)
  BY <1>1, <1>2, <1>3, VisitMoves
<1>. QED
  BY <1>1, <1>2, <1>4

HeldAll == \A v \in Visits : Held(v)

\* A step of the process alone: what it leaves of the requests and the measurements.
Aside == UNCHANGED <<visit, unread, booked, told, lastRead, apart, uptime>>

\* A step of the process alone keeps what is said of the requests.
LEMMA AsideKeeps ==
    ASSUME ProcessInv, Aside, process' \in ProcessStates, process'.carries = process.carries,
           process.pc # "posting"
    PROVE  ProcessTypeOK' /\ HeldAll' /\ Carried' /\ Booked'
<1>1. ProcessTypeOK'
  BY DEF ProcessInv, ProcessTypeOK, Aside
<1>2. HeldAll'
  BY DEF ProcessInv, HeldAll, Held, Aside
<1>3. Carried'
  BY DEF ProcessInv, Carried, Nowhere, ToldOnce, Aside
<1>4. Booked'
  BY DEF ProcessInv, Booked, Aside
<1>. QED
  BY <1>1, <1>2, <1>3, <1>4

\* The places and moments a process may be at.
LEMMA ProcessTypes ==
    ASSUME ProcessTypeOK
    PROVE  /\ process.pc \in {"building", "listening", "serving", "draining", "exited", "killed"} \cup Closing
           /\ process.asked \in BOOLEAN /\ process.saw \in Nat \cup {NoMoment} /\ process.by \in Nat
           /\ process.cut \in BOOLEAN /\ process.read \in BOOLEAN /\ process.failed \in BOOLEAN
           /\ process.carries \in SUBSET Visits
           /\ uptime \in Nat /\ unread \in SUBSET Visits /\ told \in SUBSET Visits
           /\ booked \in Nat \cup {NoMoment} /\ lastRead \in Nat \cup {NoMoment}
BY DEF ProcessTypeOK, ProcessStates

\* The places and moments a request may be at.
LEMMA VisitTypes ==
    ASSUME ProcessTypeOK, NEW v \in Visits
    PROVE  /\ visit[v].pc \in {"idle", "handling", "holding", "delivering", "reading", "posting", "done"}
           /\ visit[v].late \in {"none", "writing", "ended"}
           /\ visit[v].lateBy \in Nat /\ visit[v].by \in Nat /\ visit[v].carries \in SUBSET Visits
<1>1. visit[v] \in VisitStates
  BY DEF ProcessTypeOK
<1>. QED
  BY <1>1 DEF VisitStates

\* A process that closes without a drain, or with one that left nothing in flight.
LEMMA ClosesInv ==
    ASSUME ProcessInv, Aside, NEW f \in BOOLEAN, Closes(f), process.pc \notin Out \cup {"killed"},
           f \/ process.asked,
           process.saw # NoMoment => /\ process.pc = "draining"
                                     /\ \A v \in Visits : visit[v].pc \in {"idle", "done"}
    PROVE  ProcessInv'
<1>1. ProcessTypeOK
  BY DEF ProcessInv
<1>2. /\ process' \in ProcessStates
      /\ process'.pc = "closing" /\ process'.by = uptime + CloseTimeout /\ process'.failed = f
      /\ process'.asked = process.asked /\ process'.saw = process.saw /\ process'.cut = process.cut
      /\ process'.read = process.read /\ process'.carries = process.carries
  BY <1>1, ClosesFields DEF KeepsSaid
<1>3. ProcessTypeOK' /\ HeldAll' /\ Carried' /\ Booked'
  BY <1>2, AsideKeeps DEF Out, Closing
<1>4. uptime' = uptime /\ visit' = visit /\ unread' = unread
  BY DEF Aside
<1>5. Shares'
  <2>1. process'.cut = FALSE /\ process'.read = FALSE
    BY <1>1, <1>2, ProcessTypes DEF ProcessInv, Shares, Out, Closing
  <2>2. process.saw # NoMoment =>
            uptime + CloseTimeout <= process.saw + ShutdownTimeout
    BY <1>1, ProcessTypes, Durations DEF ProcessInv, Shares
  <2>3. uptime <= uptime + CloseTimeout
    BY <1>1, ProcessTypes, Durations
  <2>. QED
    BY <1>2, <1>4, <2>1, <2>2, <2>3 DEF ProcessInv, Shares, Out, Closing
<1>6. Empty'
  <2>1. process'.read = FALSE
    BY <1>1, <1>2, ProcessTypes DEF ProcessInv, Shares, Out, Closing
  <2>. QED
    BY <1>2, <1>4, <2>1 DEF Empty
<1>. QED
  BY <1>3, <1>5, <1>6 DEF ProcessInv, HeldAll

\* Signal keeps the invariant: the stop is asked for, or nothing is left.
LEMMA SignalInv == ASSUME ProcessInv, Signal PROVE ProcessInv'
<1>1. ProcessTypeOK
  BY DEF ProcessInv
<1>2. CASE process' = [process EXCEPT !.asked = TRUE]
           /\ UNCHANGED <<visit, unread, booked, told, lastRead, apart>>
  <2>1. /\ process' \in ProcessStates /\ process'.asked = TRUE
        /\ process'.pc = process.pc /\ process'.saw = process.saw /\ process'.by = process.by
        /\ process'.cut = process.cut /\ process'.read = process.read
        /\ process'.failed = process.failed /\ process'.carries = process.carries
    BY <1>1, <1>2, AskedFields
  <2>2. Aside
    BY <1>2 DEF Signal, Aside
  <2>3. ProcessTypeOK'
    BY <1>1, <2>1, <2>2 DEF ProcessTypeOK, Aside
  <2>4. Shares'
    BY <2>1, <2>2 DEF ProcessInv, Shares, Aside
  <2>5. HeldAll' /\ Empty'
    BY <2>1, <2>2 DEF ProcessInv, HeldAll, Held, Empty, Aside
  <2>6. Carried'
    BY <2>1, <2>2 DEF ProcessInv, Carried, Nowhere, ToldOnce, Aside
  <2>7. Booked'
    BY <2>2 DEF ProcessInv, Booked, Aside
  <2>. QED
    BY <2>3, <2>4, <2>5, <2>6, <2>7 DEF ProcessInv, HeldAll
<1>3. CASE /\ process' = [Built EXCEPT !.pc = "killed"]
           /\ visit' = [v \in Visits |-> NotCome]
           /\ unread' = {} /\ booked' = NoMoment
           /\ told' = {} /\ lastRead' = NoMoment /\ apart' = TRUE
  <2>1. /\ process' \in ProcessStates
        /\ process'.pc = "killed" /\ process'.saw = NoMoment /\ process'.asked = FALSE
        /\ process'.cut = FALSE /\ process'.read = FALSE /\ process'.failed = FALSE
        /\ process'.carries = {}
    BY <1>3, KilledFields
  <2>2. \A v \in Visits : /\ visit'[v] = NotCome /\ visit'[v].pc = "idle" /\ visit'[v].late = "none"
                          /\ visit'[v].carries = {}
    BY <1>3 DEF NotCome
  <2>3. uptime' = uptime /\ uptime \in Nat
    BY <1>1, ProcessTypes DEF Signal
  <2>4. NotCome \in VisitStates
    BY DEF NotCome, VisitStates
  <2>5. ProcessTypeOK'
    BY <1>3, <2>1, <2>3, <2>4 DEF ProcessTypeOK
  <2>6. Shares'
    BY <2>1 DEF Shares, Out, Closing
  <2>7. HeldAll' /\ Empty'
    BY <2>1, <2>2 DEF HeldAll, Held, Empty
  <2>8. Carried'
    BY <1>3, <2>1, <2>2 DEF Carried, Nowhere, ToldOnce
  <2>9. Booked'
    BY <1>3, <2>2, <2>3 DEF Booked, NoMoment
  <2>. QED
    BY <2>5, <2>6, <2>7, <2>8, <2>9 DEF ProcessInv, HeldAll
<1>. QED
  BY <1>2, <1>3 DEF Signal

\* Build keeps the invariant: what failed of itself is no stop.
LEMMA BuildInv == ASSUME ProcessInv, Build PROVE ProcessInv'
<1>1. ProcessTypeOK /\ Aside /\ process.pc = "building"
  BY DEF ProcessInv, Build, Aside
<1>2. CASE process' = [process EXCEPT !.pc = "listening"]
  <2>1. process' \in ProcessStates /\ MovesTo("listening")
    BY <1>1, <1>2, MoveFields
  <2>2. ProcessTypeOK' /\ HeldAll' /\ Carried' /\ Booked'
    BY <1>1, <2>1, AsideKeeps DEF MovesTo
  <2>3. Shares'
    BY <1>1, <2>1 DEF ProcessInv, Shares, Out, Closing, MovesTo, KeepsSaid, Aside
  <2>4. Empty'
    BY <2>1 DEF Empty, MovesTo, Out, Closing
  <2>. QED
    BY <2>2, <2>3, <2>4 DEF ProcessInv, HeldAll
<1>3. CASE \E canceled \in BOOLEAN : Closes(StartupFailed(canceled))
  <2>1. PICK canceled \in BOOLEAN : Closes(StartupFailed(canceled))
    BY <1>3
  <2>2. StartupFailed(canceled) \in BOOLEAN /\ (StartupFailed(canceled) \/ process.asked)
    BY <1>1, ProcessTypes DEF StartupFailed
  <2>3. process.saw = NoMoment
    BY <1>1 DEF ProcessInv, Shares
  <2>. QED
    BY <1>1, <2>1, <2>2, <2>3, ClosesInv DEF Out, Closing
<1>. QED
  BY <1>2, <1>3 DEF Build

\* Listen keeps the invariant: the stop has not been seen yet.
LEMMA ListenInv == ASSUME ProcessInv, Listen PROVE ProcessInv'
<1>1. ProcessTypeOK /\ Aside /\ process.pc = "listening"
  BY DEF ProcessInv, Listen, Aside
<1>2. process.saw = NoMoment
  BY <1>1 DEF ProcessInv, Shares
<1>3. CASE process' = [process EXCEPT !.pc = "serving"]
  <2>1. process' \in ProcessStates /\ MovesTo("serving")
    BY <1>1, <1>3, MoveFields
  <2>2. ProcessTypeOK' /\ HeldAll' /\ Carried' /\ Booked'
    BY <1>1, <2>1, AsideKeeps DEF MovesTo
  <2>3. Shares'
    BY <1>1, <2>1 DEF ProcessInv, Shares, Out, Closing, MovesTo, KeepsSaid, Aside
  <2>4. Empty'
    BY <2>1 DEF Empty, MovesTo, Out, Closing
  <2>. QED
    BY <2>2, <2>3, <2>4 DEF ProcessInv, HeldAll
<1>4. CASE Closes(TRUE)
  BY <1>1, <1>2, <1>4, ClosesInv DEF Out, Closing
<1>5. CASE process.asked /\ Closes(FALSE)
  BY <1>1, <1>2, <1>5, ClosesInv DEF Out, Closing
<1>. QED
  BY <1>3, <1>4, <1>5 DEF Listen

\* ServeFails keeps the invariant: the stop has not been seen yet.
LEMMA ServeFailsInv == ASSUME ProcessInv, ServeFails PROVE ProcessInv'
<1>1. Aside /\ process.pc = "serving" /\ Closes(TRUE)
  BY DEF ServeFails, Aside
<1>2. process.saw = NoMoment
  BY <1>1 DEF ProcessInv, Shares
<1>. QED
  BY <1>1, <1>2, ClosesInv DEF Out, Closing

\* SeesStop keeps the invariant: the drain has its share of the way out.
LEMMA SeesStopInv == ASSUME ProcessInv, SeesStop PROVE ProcessInv'
<1>1. ProcessTypeOK /\ Aside /\ process.pc = "serving" /\ process.asked
  BY DEF ProcessInv, SeesStop, Aside
<1>2. /\ process' \in ProcessStates
      /\ process'.pc = "draining" /\ process'.saw = uptime /\ process'.by = uptime + DrainTimeout
      /\ process'.asked = process.asked /\ process'.cut = process.cut
      /\ process'.failed = process.failed /\ process'.read = process.read
      /\ process'.carries = process.carries
  BY <1>1, SeesStopFields
<1>3. ProcessTypeOK' /\ HeldAll' /\ Carried' /\ Booked'
  BY <1>1, <1>2, AsideKeeps
<1>4. Shares'
  <2>1. process.cut = FALSE /\ process.read = FALSE /\ process.failed = FALSE
    BY <1>1, ProcessTypes DEF ProcessInv, Shares
  <2>2. uptime \in Nat /\ uptime # NoMoment /\ uptime <= uptime + DrainTimeout
    BY <1>1, ProcessTypes, Durations DEF NoMoment
  <2>. QED
    BY <1>1, <1>2, <2>1, <2>2 DEF Shares, Out, Closing, Aside
<1>5. Empty'
  BY <1>2 DEF Empty, Out, Closing
<1>. QED
  BY <1>3, <1>4, <1>5 DEF ProcessInv, HeldAll

\* Drained keeps the invariant: nothing is in flight.
LEMMA DrainedInv == ASSUME ProcessInv, Drained PROVE ProcessInv'
<1>1. ProcessTypeOK /\ Aside /\ process.pc = "draining"
  BY DEF ProcessInv, Drained, Aside
<1>2. PICK fault \in BOOLEAN : Closes(fault)
  BY DEF Drained
<1>3. process.asked
  BY <1>1 DEF ProcessInv, Shares
<1>4. \A v \in Visits : visit[v].pc \in {"idle", "done"}
  BY DEF Drained, Serving
<1>. QED
  BY <1>1, <1>2, <1>3, <1>4, ClosesInv DEF Out, Closing

\* CutShort keeps the invariant: the close has its share after the drain's.
LEMMA CutShortInv == ASSUME ProcessInv, CutShort PROVE ProcessInv'
<1>1. ProcessTypeOK /\ Aside /\ process.pc = "draining" /\ uptime = process.by
  BY DEF ProcessInv, CutShort, CutWith, Aside
<1>2. /\ process' \in ProcessStates
      /\ process'.pc = "closing" /\ process'.by = uptime + CloseTimeout
      /\ process'.failed = FALSE /\ process'.cut = TRUE
      /\ process'.asked = process.asked /\ process'.saw = process.saw
      /\ process'.read = process.read /\ process'.carries = process.carries
  BY <1>1, CutFields
<1>3. ProcessTypeOK' /\ HeldAll' /\ Carried' /\ Booked'
  BY <1>1, <1>2, AsideKeeps
<1>4. Shares'
  <2>1. process.read = FALSE /\ process.asked /\ process.saw # NoMoment
        /\ process.by = process.saw + DrainTimeout
    BY <1>1, ProcessTypes DEF ProcessInv, Shares
  <2>2. process'.by <= process.saw + ShutdownTimeout /\ uptime <= process'.by
    BY <1>1, <1>2, <2>1, ProcessTypes, Durations
  <2>. QED
    BY <1>1, <1>2, <2>1, <2>2 DEF Shares, Out, Closing, Aside
<1>5. Empty'
  BY <1>2 DEF Empty
<1>. QED
  BY <1>3, <1>4, <1>5 DEF ProcessInv, HeldAll

\* ClosesTraces keeps the invariant.
LEMMA ClosesTracesInv == ASSUME ProcessInv, ClosesTraces PROVE ProcessInv'
<1>1. ProcessTypeOK /\ Aside /\ process.pc = "closing" /\ process' = [process EXCEPT !.pc = "reading"]
  BY DEF ProcessInv, ClosesTraces, Aside
<1>2. process' \in ProcessStates /\ MovesTo("reading")
  BY <1>1, MoveFields
<1>3. ProcessTypeOK' /\ HeldAll' /\ Carried' /\ Booked'
  BY <1>1, <1>2, AsideKeeps DEF MovesTo
<1>4. Shares'
  BY <1>1, <1>2 DEF ProcessInv, Shares, Out, Closing, MovesTo, KeepsSaid, Aside
<1>5. Empty'
  BY <1>1, <1>2 DEF ProcessInv, Empty, Out, Closing, MovesTo, KeepsSaid, Aside
<1>. QED
  BY <1>3, <1>4, <1>5 DEF ProcessInv, HeldAll

\* LastReading keeps the invariant: what it takes out of the unread it carries.
LEMMA LastReadingInv == ASSUME ProcessInv, LastReading PROVE ProcessInv'
<1>1. /\ ProcessTypeOK /\ process.pc = "reading" /\ process.carries = {} /\ process.read = FALSE
      /\ UNCHANGED <<visit, booked, told, lastRead, apart, uptime>>
  <2>1. process.pc = "reading" /\ UNCHANGED <<visit, booked, told, lastRead, apart, uptime>>
    BY DEF LastReading, LastReadingIf
  <2>2. ProcessTypeOK /\ process.carries = {}
    BY <2>1 DEF ProcessInv, Carried
  <2>3. process.read = FALSE
    BY <2>1, <2>2, ProcessTypes DEF ProcessInv, Shares
  <2>. QED
    BY <2>1, <2>2, <2>3
<1>2. /\ process' \in ProcessStates
      /\ process'.asked = process.asked /\ process'.saw = process.saw /\ process'.cut = process.cut
      /\ process'.failed = process.failed /\ process'.by = process.by
      /\ \/ /\ process'.read = TRUE /\ process'.carries = unread /\ unread' = {}
            /\ process'.pc = IF unread = {} THEN "exited" ELSE "posting"
         \/ /\ process'.read = FALSE /\ process'.carries = {}
            /\ unread' = unread /\ process'.pc = "exited"
  BY <1>1, LastReadingFields DEF KeepsSaid
<1>3. ProcessTypeOK'
  <2>1. unread' \in SUBSET Visits
    BY <1>1, <1>2 DEF ProcessTypeOK
  <2>. QED
    BY <1>1, <1>2, <2>1 DEF ProcessTypeOK
<1>4. Shares'
  BY <1>1, <1>2 DEF ProcessInv, Shares, Out, Closing
<1>5. HeldAll' /\ Booked'
  BY <1>1 DEF ProcessInv, HeldAll, Held, Booked
<1>6. Empty'
  BY <1>1, <1>2 DEF ProcessInv, Empty, Out, Closing
<1>7. Carried'
  <2>1. unread' \cup process'.carries = unread /\ unread' \cap process'.carries = {}
    BY <1>2
  <2>2. process'.pc # "posting" => process'.carries = {}
    BY <1>2
  <2>3. \A v \in Visits : Nowhere(v) => Nowhere(v)'
    BY <1>1, <2>1 DEF Nowhere
  <2>4. ToldOnce'
    BY <1>1, <2>1 DEF ProcessInv, Carried, ToldOnce
  <2>. QED
    BY <1>1, <2>2, <2>3, <2>4 DEF ProcessInv, Carried
<1>. QED
  BY <1>3, <1>4, <1>5, <1>6, <1>7 DEF ProcessInv, HeldAll

\* LastPost keeps the invariant: what it carried is told.
LEMMA LastPostInv == ASSUME ProcessInv, LastPost PROVE ProcessInv'
<1>1. /\ ProcessTypeOK /\ process.pc = "posting" /\ told' = told \cup process.carries
      /\ UNCHANGED <<visit, unread, booked, lastRead, apart, uptime>>
  BY DEF ProcessInv, LastPost
<1>2. /\ process' \in ProcessStates
      /\ process'.pc = "exited" /\ process'.carries = {} /\ process'.read = process.read
      /\ process'.asked = process.asked /\ process'.saw = process.saw /\ process'.cut = process.cut
      /\ process'.failed = process.failed /\ process'.by = process.by
  BY <1>1, LastPostFields DEF KeepsSaid
<1>3. ProcessTypeOK'
  <2>1. told' \in SUBSET Visits
    BY <1>1, ProcessTypes
  <2>. QED
    BY <1>1, <1>2, <2>1 DEF ProcessTypeOK
<1>4. Shares'
  BY <1>1, <1>2 DEF ProcessInv, Shares, Out, Closing
<1>5. HeldAll' /\ Booked'
  BY <1>1 DEF ProcessInv, HeldAll, Held, Booked
<1>6. Empty'
  BY <1>1, <1>2 DEF ProcessInv, Empty, Out, Closing
<1>7. Carried'
  <2>1. told' \cup process'.carries = told \cup process.carries
    BY <1>1, <1>2
  <2>2. \A v \in Visits : Nowhere(v) => Nowhere(v)'
    BY <1>1, <2>1 DEF Nowhere
  <2>3. ToldOnce'
    BY <1>1, <2>1 DEF ProcessInv, Carried, ToldOnce
  <2>. QED
    BY <1>1, <1>2, <2>2, <2>3 DEF ProcessInv, Carried
<1>. QED
  BY <1>3, <1>4, <1>5, <1>6, <1>7 DEF ProcessInv, HeldAll

-----------------------------------------------------------------------------
(* The requests                                                            *)

\* What a step of one request leaves of the others' deadlines.
LEMMA OthersHeld ==
    ASSUME ProcessInv, NEW v \in Visits, NEW r \in VisitStates, Moves(v, r), uptime' = uptime, Held(v)'
    PROVE  HeldAll'
<1>1. \A w \in Visits \ {v} : Held(w)'
  BY DEF ProcessInv, Held, Moves
<1>. QED
  BY <1>1 DEF HeldAll

\* A step that carries nothing on, and after which v may be nowhere only if it was.
LEMMA CarriesOn ==
    ASSUME ProcessInv, NEW v \in Visits, NEW r \in VisitStates, Moves(v, r), r.carries = visit[v].carries,
           visit[v].pc # "posting", UNCHANGED <<process, unread, told>>,
           r.pc \in {"idle", "handling", "holding"} => visit[v].pc \in {"idle", "handling", "holding"}
    PROVE  Carried'
<1>1. \A w \in Visits : visit'[w].carries = visit[w].carries
  BY DEF Moves
<1>2. \A w \in Visits : Nowhere(w) => Nowhere(w)'
  BY <1>1 DEF Nowhere
<1>3. ToldOnce'
  BY <1>1 DEF ProcessInv, Carried, ToldOnce
<1>4. \A w \in Visits \ {v} : visit'[w] = visit[w]
  BY DEF Moves
<1>5. visit'[v].pc # "posting" => visit'[v].carries = {}
  BY DEF ProcessInv, Carried, Moves
<1>6. visit'[v].pc \in {"idle", "handling", "holding"} => Nowhere(v)'
  BY <1>2 DEF ProcessInv, Carried, Moves
<1>. QED
  BY <1>2, <1>3, <1>4, <1>5, <1>6 DEF ProcessInv, Carried

\* A step that neither reads nor books.
LEMMA BooksAsBefore ==
    ASSUME ProcessInv, NEW v \in Visits, NEW r \in VisitStates, Moves(v, r),
           r.pc # "reading", UNCHANGED <<booked, lastRead, apart, uptime>>
    PROVE  Booked'
BY DEF ProcessInv, Booked, Moves

\* Comes keeps the invariant: nothing comes once the drain is over.
LEMMA ComesInv == ASSUME ProcessInv, NEW v \in Visits, Comes(v) PROVE ProcessInv'
<1>1. /\ ProcessTypeOK /\ visit[v].pc = "idle" /\ process.pc \in {"serving", "draining"}
      /\ UNCHANGED <<process, unread, booked, told, lastRead, apart, uptime>>
  BY DEF ProcessInv, Comes
<1>2. PICK r \in VisitStates :
          /\ Moves(v, r) /\ r.pc = "handling"
          /\ r.late = visit[v].late /\ r.lateBy = visit[v].lateBy /\ r.carries = visit[v].carries
  BY <1>1, ComesFields
<1>3. ProcessTypeOK'
  BY <1>1, <1>2 DEF ProcessTypeOK, Moves
<1>4. Shares' /\ Empty'
  BY <1>1 DEF ProcessInv, Shares, Empty, Out, Closing
<1>5. HeldAll'
  <2>1. visit[v].late # "writing"
    BY <1>1 DEF ProcessInv, Held
  <2>2. Held(v)'
    BY <1>2, <2>1 DEF Held, Moves
  <2>. QED
    BY <1>1, <1>2, <2>2, OthersHeld
<1>6. Carried'
  BY <1>1, <1>2, CarriesOn
<1>7. Booked'
  BY <1>1, <1>2, BooksAsBefore
<1>. QED
  BY <1>3, <1>4, <1>5, <1>6, <1>7 DEF ProcessInv, HeldAll

\* What a step of a request in flight leaves of what holds once nothing is.
LEMMA NothingInFlight ==
    ASSUME ProcessInv, NEW v \in Visits, visit[v].pc \notin {"idle", "done"}, process' = process
    PROVE  Empty'
BY DEF ProcessInv, Empty

\* BeginsLate keeps the invariant: the write has its time.
LEMMA BeginsLateInv == ASSUME ProcessInv, NEW v \in Visits, BeginsLate(v) PROVE ProcessInv'
<1>1. /\ ProcessTypeOK /\ visit[v].pc = "handling"
      /\ UNCHANGED <<process, unread, booked, told, lastRead, apart, uptime>>
  BY DEF ProcessInv, BeginsLate
<1>2. PICK r \in VisitStates :
          /\ Moves(v, r) /\ r.pc = visit[v].pc
          /\ r.late = "writing" /\ r.lateBy = uptime + LateDeadline
          /\ r.by = visit[v].by /\ r.carries = visit[v].carries
  BY <1>1, BeginsLateFields
<1>3. ProcessTypeOK'
  BY <1>1, <1>2 DEF ProcessTypeOK, Moves
<1>4. Shares' /\ Empty'
  BY <1>1, NothingInFlight DEF ProcessInv, Shares
<1>5. HeldAll'
  <2>1. uptime <= uptime + LateDeadline /\ uptime + LateDeadline \in Nat
    BY <1>1, ProcessTypes, Durations
  <2>2. Held(v)'
    BY <1>1, <1>2, <2>1 DEF Held, Moves
  <2>. QED
    BY <1>1, <1>2, <2>2, OthersHeld
<1>6. Carried'
  BY <1>1, <1>2, CarriesOn
<1>7. Booked'
  BY <1>1, <1>2, BooksAsBefore
<1>. QED
  BY <1>3, <1>4, <1>5, <1>6, <1>7 DEF ProcessInv, HeldAll

\* LateEnds keeps the invariant.
LEMMA LateEndsInv == ASSUME ProcessInv, NEW v \in Visits, LateEnds(v) PROVE ProcessInv'
<1>1. /\ ProcessTypeOK /\ visit[v].pc \in {"handling", "holding"}
      /\ UNCHANGED <<process, unread, booked, told, lastRead, apart, uptime>>
  BY DEF ProcessInv, LateEnds, Held
<1>2. PICK r \in VisitStates :
          /\ Moves(v, r) /\ r.pc = visit[v].pc /\ r.late = "ended"
          /\ r.by = visit[v].by /\ r.carries = visit[v].carries
  BY <1>1, LateEndsFields
<1>3. ProcessTypeOK'
  BY <1>1, <1>2 DEF ProcessTypeOK, Moves
<1>4. Shares' /\ Empty'
  BY <1>1, NothingInFlight DEF ProcessInv, Shares
<1>5. HeldAll'
  <2>1. Held(v)'
    BY <1>1, <1>2 DEF ProcessInv, Held, Moves
  <2>. QED
    BY <1>1, <1>2, <2>1, OthersHeld
<1>6. Carried'
  BY <1>1, <1>2, CarriesOn
<1>7. Booked'
  BY <1>1, <1>2, BooksAsBefore
<1>. QED
  BY <1>3, <1>4, <1>5, <1>6, <1>7 DEF ProcessInv, HeldAll

\* Answers keeps the invariant: the hold outlasts the write.
LEMMA AnswersInv == ASSUME ProcessInv, NEW v \in Visits, Answers(v) PROVE ProcessInv'
<1>1. /\ ProcessTypeOK /\ visit[v].pc = "handling"
      /\ visit' = [visit EXCEPT ![v] = Until(@, "holding", uptime + HoldBound)]
      /\ UNCHANGED <<process, unread, booked, told, lastRead, apart, uptime>>
  BY DEF ProcessInv, Answers
<1>2. uptime + HoldBound \in Nat /\ uptime + LateDeadline < uptime + HoldBound
      /\ uptime <= uptime + HoldBound
  BY <1>1, ProcessTypes, Durations
<1>3. PICK r \in VisitStates :
          /\ Moves(v, r) /\ r.pc = "holding" /\ r.by = uptime + HoldBound
          /\ r.late = visit[v].late /\ r.lateBy = visit[v].lateBy /\ r.carries = visit[v].carries
  <2>1. Stays(v, "holding", uptime + HoldBound)
    BY <1>1 DEF Stays
  <2>. QED
    BY <1>1, <1>2, <2>1, StaysFields
<1>4. ProcessTypeOK'
  BY <1>1, <1>3 DEF ProcessTypeOK, Moves
<1>5. Shares' /\ Empty'
  BY <1>1, NothingInFlight DEF ProcessInv, Shares
<1>6. HeldAll'
  <2>1. visit[v].late = "writing" => visit[v].lateBy < uptime + HoldBound /\ uptime <= visit[v].lateBy
    <3>1. visit[v].lateBy \in Nat /\ uptime \in Nat
      BY <1>1, VisitTypes, ProcessTypes
    <3>. QED
      BY <1>1, <1>2, <3>1, Durations DEF ProcessInv, Held
  <2>2. Held(v)'
    BY <1>1, <1>2, <1>3, <2>1 DEF Held, Moves
  <2>. QED
    BY <1>1, <1>3, <2>2, OthersHeld
<1>7. Carried'
  BY <1>1, <1>3, CarriesOn
<1>8. Booked'
  BY <1>1, <1>3, BooksAsBefore
<1>. QED
  BY <1>4, <1>5, <1>6, <1>7, <1>8 DEF ProcessInv, HeldAll

\* LetsGo keeps the invariant: a write that is under way is not over its hold,
\* and what is measured was nowhere.
LEMMA LetsGoInv == ASSUME ProcessInv, NEW v \in Visits, LetsGo(v) PROVE ProcessInv'
<1>1. /\ ProcessTypeOK /\ visit[v].pc = "holding" /\ unread' = unread \cup {v}
      /\ Stays(v, "delivering", 0)
      /\ UNCHANGED <<process, booked, told, lastRead, apart, uptime>>
  BY DEF ProcessInv, LetsGo, Measured, Stays
<1>2. PICK r \in VisitStates :
          /\ Moves(v, r) /\ r.pc = "delivering"
          /\ r.late = visit[v].late /\ r.carries = visit[v].carries
  BY <1>1, StaysFields
<1>3. ProcessTypeOK'
  BY <1>1, <1>2 DEF ProcessTypeOK, Moves
<1>4. Shares' /\ Empty'
  BY <1>1, NothingInFlight DEF ProcessInv, Shares
<1>5. HeldAll'
  <2>1. visit[v].late # "writing"
    <3>1. visit[v].lateBy \in Nat /\ visit[v].by \in Nat /\ uptime \in Nat
      BY <1>1, VisitTypes, ProcessTypes
    <3>2. visit[v].late # "writing" \/ uptime >= visit[v].by
      BY DEF LetsGo
    <3>. QED
      BY <1>1, <3>1, <3>2 DEF ProcessInv, Held
  <2>2. Held(v)'
    BY <1>2, <2>1 DEF Held, Moves
  <2>. QED
    BY <1>1, <1>2, <2>2, OthersHeld
<1>6. Carried'
  <2>1. /\ Nowhere(v) /\ \A w \in Visits : visit'[w].carries = visit[w].carries
    BY <1>1, <1>2 DEF ProcessInv, Carried, Moves
  <2>2. \A w \in Visits \ {v} : Nowhere(w) => Nowhere(w)'
    BY <1>1, <2>1 DEF Nowhere
  <2>3. ToldOnce'
    BY <1>1, <2>1 DEF ProcessInv, Carried, ToldOnce, Nowhere
  <2>4. visit[v].carries = {}
    BY <1>1 DEF ProcessInv, Carried
  <2>. QED
    BY <1>1, <1>2, <2>2, <2>3, <2>4 DEF ProcessInv, Carried, Moves
<1>7. Booked'
  BY <1>1, <1>2, BooksAsBefore
<1>. QED
  BY <1>3, <1>4, <1>5, <1>6, <1>7 DEF ProcessInv, HeldAll

\* A request that is over, having carried nothing or told what it carried.
LEMMA IsOverKeeps ==
    ASSUME ProcessInv, NEW v \in Visits, IsOver(v), visit[v].pc \in {"delivering", "reading", "posting"},
           UNCHANGED <<process, unread, uptime>>
    PROVE  /\ visit' \in [Visits -> VisitStates]
           /\ Shares' /\ HeldAll' /\ Empty'
           /\ \E r \in VisitStates : Moves(v, r) /\ r.pc = "done" /\ r.carries = {}
<1>1. PICK r \in VisitStates :
          /\ Moves(v, r) /\ r.pc = "done" /\ r.late = visit[v].late /\ r.carries = {}
  BY DoneFields DEF ProcessInv
<1>2. visit[v].late # "writing"
  BY DEF ProcessInv, Held
<1>3. Held(v)'
  BY <1>1, <1>2 DEF Held, Moves
<1>4. HeldAll'
  BY <1>1, <1>3, OthersHeld
<1>5. Shares' /\ Empty'
  BY NothingInFlight DEF ProcessInv, Shares
<1>. QED
  BY <1>1, <1>4, <1>5 DEF Moves

\* A request that is over without a delivery.
LEMMA NoDeliveryInv ==
    ASSUME ProcessInv, NEW v \in Visits, IsOver(v), visit[v].pc \in {"delivering", "reading"},
           UNCHANGED <<process, unread, booked, told, lastRead, apart, uptime>>
    PROVE  ProcessInv'
<1>1. Shares' /\ HeldAll' /\ Empty' /\ visit' \in [Visits -> VisitStates]
  BY IsOverKeeps
<1>2. PICK r \in VisitStates : Moves(v, r) /\ r.pc = "done" /\ r.carries = {}
  BY IsOverKeeps
<1>3. ProcessTypeOK'
  BY <1>1 DEF ProcessInv, ProcessTypeOK
<1>4. Carried'
  <2>1. visit[v].carries = {}
    BY DEF ProcessInv, Carried
  <2>. QED
    BY <1>2, <2>1, CarriesOn
<1>5. Booked'
  BY <1>2, BooksAsBefore
<1>. QED
  BY <1>1, <1>3, <1>4, <1>5 DEF ProcessInv, HeldAll

\* Delivers keeps the invariant: nobody may still be about to read when a
\* delivery is due again.
LEMMA DeliversInv == ASSUME ProcessInv, NEW v \in Visits, Delivers(v) PROVE ProcessInv'
<1>1. /\ ProcessTypeOK /\ visit[v].pc = "delivering"
      /\ UNCHANGED <<process, unread, told, lastRead, apart, uptime>>
  BY DEF ProcessInv, Delivers, DeliversAndBooks
<1>2. CASE ~Due
  <2>1. IsOver(v) /\ booked' = booked
    BY <1>2 DEF Delivers, DeliversAndBooks, IsOver
  <2>. QED
    BY <1>1, <2>1, NoDeliveryInv
<1>3. CASE Due
  <2>1. Stays(v, "reading", uptime + FlushTimeout) /\ booked' = uptime
    BY <1>3 DEF Delivers, DeliversAndBooks, Stays
  <2>2. uptime \in Nat /\ uptime + FlushTimeout \in Nat /\ uptime <= uptime + FlushTimeout
    BY <1>1, ProcessTypes, Durations
  <2>3. PICK r \in VisitStates :
            /\ Moves(v, r) /\ r.pc = "reading" /\ r.by = uptime + FlushTimeout
            /\ r.late = visit[v].late /\ r.carries = visit[v].carries
    BY <1>1, <2>1, <2>2, StaysFields
  <2>4. ProcessTypeOK'
    BY <1>1, <2>1, <2>2, <2>3 DEF ProcessTypeOK, Moves
  <2>5. Shares' /\ Empty'
    BY <1>1, NothingInFlight DEF ProcessInv, Shares
  <2>6. HeldAll'
    <3>1. visit[v].late # "writing"
      BY <1>1 DEF ProcessInv, Held
    <3>2. Held(v)'
      BY <1>1, <2>2, <2>3, <3>1 DEF Held, Moves
    <3>. QED
      BY <1>1, <2>3, <3>2, OthersHeld
  <2>7. Carried'
    BY <1>1, <2>3, CarriesOn
  <2>8. Booked'
    <3>1. booked = NoMoment \/ uptime - booked >= MetricInterval
      BY <1>3 DEF Due
    <3>2. booked \in Int /\ lastRead \in Int /\ NoMoment = -1
      BY <1>1, ProcessTypes DEF NoMoment
    <3>3. \A w \in Visits : visit[w].pc # "reading"
      <4>1. SUFFICES ASSUME NEW w \in Visits, visit[w].pc = "reading" PROVE FALSE
        OBVIOUS
      <4>2. booked # NoMoment /\ uptime <= booked + FlushTimeout
        BY <4>1 DEF ProcessInv, Booked, Held
      <4>. QED
        BY <2>2, <3>1, <3>2, <4>2, Durations
    <3>4. \A w \in Visits : visit'[w].pc = "reading" => w = v
      BY <2>3, <3>3 DEF Moves
    <3>5. lastRead # NoMoment => lastRead <= uptime - MetricInterval + FlushTimeout
      BY <2>2, <3>1, <3>2, Durations DEF ProcessInv, Booked
    <3>6. lastRead # NoMoment => lastRead <= uptime + FlushTimeout
      BY <2>2, <3>2, <3>5, Durations
    <3>7. uptime # NoMoment
      BY <2>2, <3>2
    <3>. QED
      BY <1>1, <2>1, <2>2, <2>3, <3>4, <3>5, <3>6, <3>7 DEF ProcessInv, Booked, Moves
  <2>. QED
    BY <2>4, <2>5, <2>6, <2>7, <2>8 DEF ProcessInv, HeldAll
<1>. QED
  BY <1>2, <1>3

\* What a reading leaves of the bookings: the one before it was booked an
\* interval earlier.
LEMMA ReadsBooked ==
    ASSUME ProcessInv, NEW v \in Visits, NEW r \in VisitStates, Moves(v, r), r.pc # "reading",
           visit[v].pc = "reading", UNCHANGED <<booked, uptime>>, lastRead' = uptime,
           apart' = (apart /\ (lastRead = NoMoment \/ uptime - lastRead >= MetricInterval - FlushTimeout))
    PROVE  Booked' /\ lastRead' \in Nat /\ apart' \in BOOLEAN
<1>1. /\ uptime \in Nat /\ booked \in Int /\ lastRead \in Int /\ visit[v].by \in Nat
      /\ NoMoment = -1
  BY ProcessTypes, VisitTypes DEF ProcessInv, NoMoment
<1>2. /\ booked # NoMoment /\ uptime <= booked + FlushTimeout /\ booked <= uptime
      /\ lastRead # NoMoment => lastRead <= booked - MetricInterval + FlushTimeout
  BY DEF ProcessInv, Booked, Held
<1>3. lastRead = NoMoment \/ uptime - lastRead >= MetricInterval - FlushTimeout
  BY <1>1, <1>2, Durations
<1>4. apart'
  BY <1>3 DEF ProcessInv, Booked
<1>5. \A w \in Visits : visit'[w].pc # "reading"
  BY DEF ProcessInv, Booked, Moves
<1>. QED
  BY <1>1, <1>2, <1>4, <1>5 DEF Booked

\* Reads keeps the invariant: what it takes out of the unread it carries.
LEMMA ReadsInv == ASSUME ProcessInv, NEW v \in Visits, Reads(v) PROVE ProcessInv'
<1>1. /\ ProcessTypeOK /\ visit[v].pc = "reading" /\ visit[v].carries = {}
      /\ UNCHANGED <<process, booked, told, uptime>>
  BY DEF ProcessInv, Reads, ReadsAndKeeps, Carried
<1>2. CASE IsOver(v) /\ UNCHANGED <<unread, lastRead, apart>>
  BY <1>1, <1>2, NoDeliveryInv
<1>3. CASE /\ IF unread = {} THEN IsOver(v) ELSE IsPosting(v)
           /\ unread' = {} /\ lastRead' = uptime
           /\ apart' = (apart /\ (lastRead = NoMoment \/ uptime - lastRead >= MetricInterval - FlushTimeout))
  <2>1. CASE unread = {}
    <3>1. IsOver(v) /\ unread' = unread
      BY <1>3, <2>1
    <3>2. Shares' /\ HeldAll' /\ Empty' /\ visit' \in [Visits -> VisitStates]
      BY <1>1, <3>1, IsOverKeeps
    <3>3. PICK r \in VisitStates : Moves(v, r) /\ r.pc = "done" /\ r.carries = {}
      BY <1>1, <3>1, IsOverKeeps
    <3>4. Booked' /\ lastRead' \in Nat /\ apart' \in BOOLEAN
      BY <1>1, <1>3, <3>3, ReadsBooked
    <3>5. ProcessTypeOK'
      BY <1>1, <3>1, <3>2, <3>4 DEF ProcessTypeOK
    <3>6. Carried'
      BY <1>1, <3>1, <3>3, CarriesOn
    <3>. QED
      BY <3>2, <3>4, <3>5, <3>6 DEF ProcessInv, HeldAll
  <2>2. CASE unread # {}
    <3>1. PICK r \in VisitStates :
              /\ Moves(v, r) /\ r.pc = "posting" /\ r.late = visit[v].late
              /\ r.by = visit[v].by /\ r.carries = unread
      BY <1>1, <1>3, <2>2, PostingFields
    <3>2. Booked' /\ lastRead' \in Nat /\ apart' \in BOOLEAN
      BY <1>1, <1>3, <3>1, ReadsBooked
    <3>3. ProcessTypeOK'
      BY <1>1, <1>3, <3>1, <3>2 DEF ProcessTypeOK, Moves
    <3>4. Shares' /\ Empty'
      BY <1>1, NothingInFlight DEF ProcessInv, Shares
    <3>5. HeldAll'
      <4>1. Held(v)'
        BY <1>1, <3>1 DEF ProcessInv, Held, Moves
      <4>. QED
        BY <1>1, <3>1, <4>1, OthersHeld
    <3>6. Carried'
      <4>1. visit'[v].carries = unread /\ \A w \in Visits \ {v} : visit'[w] = visit[w]
        BY <3>1 DEF Moves
      <4>2. \A w \in Visits : Nowhere(w) => Nowhere(w)'
        BY <1>1, <1>3, <4>1 DEF Nowhere
      <4>3. ToldOnce'
        BY <1>1, <1>3, <4>1 DEF ProcessInv, Carried, ToldOnce
      <4>. QED
        BY <1>1, <3>1, <4>1, <4>2, <4>3 DEF ProcessInv, Carried, Moves
    <3>. QED
      BY <3>2, <3>3, <3>4, <3>5, <3>6 DEF ProcessInv, HeldAll
  <2>. QED
    BY <2>1, <2>2
<1>. QED
  BY <1>2, <1>3 DEF Reads, ReadsAndKeeps, IsOver, IsPosting

\* Posts keeps the invariant: what it carried is told.
LEMMA PostsInv == ASSUME ProcessInv, NEW v \in Visits, Posts(v) PROVE ProcessInv'
<1>1. /\ ProcessTypeOK /\ visit[v].pc = "posting" /\ told' = told \cup visit[v].carries
      /\ IsOver(v)
      /\ UNCHANGED <<process, unread, booked, lastRead, apart, uptime>>
  BY DEF ProcessInv, Posts, IsOver
<1>2. Shares' /\ HeldAll' /\ Empty' /\ visit' \in [Visits -> VisitStates]
  BY <1>1, IsOverKeeps
<1>3. PICK r \in VisitStates : Moves(v, r) /\ r.pc = "done" /\ r.carries = {}
  BY <1>1, IsOverKeeps
<1>4. ProcessTypeOK'
  <2>1. told' \in SUBSET Visits
    BY <1>1, VisitTypes, ProcessTypes
  <2>. QED
    BY <1>1, <1>2, <2>1 DEF ProcessTypeOK
<1>5. Carried'
  <2>1. visit'[v].carries = {} /\ \A w \in Visits \ {v} : visit'[w] = visit[w]
    BY <1>3 DEF Moves
  <2>2. \A w \in Visits : Nowhere(w) => Nowhere(w)'
    BY <1>1, <2>1 DEF Nowhere
  <2>3. ToldOnce'
    BY <1>1, <2>1 DEF ProcessInv, Carried, ToldOnce
  <2>. QED
    BY <1>1, <1>3, <2>1, <2>2, <2>3 DEF ProcessInv, Carried, Moves
<1>6. Booked'
  BY <1>1, <1>3, BooksAsBefore
<1>. QED
  BY <1>2, <1>4, <1>5, <1>6 DEF ProcessInv, HeldAll

-----------------------------------------------------------------------------

\* Time passes no deadline.
LEMMA AgesInv == ASSUME ProcessInv, Ages PROVE ProcessInv'
<1>1. /\ ProcessTypeOK /\ uptime' = uptime + 1 /\ uptime \in Nat
      /\ UNCHANGED <<process, visit, unread, booked, told, lastRead, apart>>
  BY ProcessTypes DEF ProcessInv, Ages
<1>2. ProcessTypeOK'
  BY <1>1 DEF ProcessTypeOK
<1>3. Shares'
  <2>1. process.pc \in {"draining"} \cup Closing => uptime + 1 <= process.by
    BY <1>1, ProcessTypes DEF Ages
  <2>. QED
    BY <1>1, <2>1 DEF ProcessInv, Shares
<1>4. HeldAll'
  <2>1. SUFFICES ASSUME NEW v \in Visits PROVE Held(v)'
    BY DEF HeldAll
  <2>2. visit[v].lateBy \in Nat /\ visit[v].by \in Nat
    BY <1>1, VisitTypes
  <2>3. /\ visit[v].late = "writing" => uptime + 1 <= visit[v].lateBy
        /\ visit[v].pc \in {"holding", "reading", "posting"} => uptime + 1 <= visit[v].by
    BY <1>1, <2>2 DEF Ages
  <2>4. visit[v].lateBy <= uptime + LateDeadline => visit[v].lateBy <= uptime + 1 + LateDeadline
    BY <1>1, <2>2, Durations
  <2>. QED
    BY <1>1, <2>3, <2>4 DEF ProcessInv, Held
<1>5. Empty' /\ Carried'
  BY <1>1 DEF ProcessInv, Empty, Carried, Nowhere, ToldOnce
<1>6. Booked'
  <2>1. booked <= uptime + 1
    BY <1>1, ProcessTypes DEF ProcessInv, Booked, NoMoment
  <2>. QED
    BY <1>1, <2>1 DEF ProcessInv, Booked
<1>. QED
  BY <1>2, <1>3, <1>4, <1>5, <1>6 DEF ProcessInv, HeldAll

\* The invariant holds at first.
LEMMA InitInv == ASSUME ProcessInit PROVE ProcessInv
<1>1. /\ process \in ProcessStates
      /\ process.pc = "building" /\ process.saw = NoMoment /\ process.asked = FALSE
      /\ process.cut = FALSE /\ process.read = FALSE /\ process.failed = FALSE
      /\ process.carries = {}
  BY DEF ProcessInit, Built, ProcessStates, NoMoment
<1>2. NotCome \in VisitStates /\ \A v \in Visits : visit[v].pc = "idle" /\ visit[v].late = "none"
                                                   /\ visit[v].carries = {}
  BY DEF ProcessInit, NotCome, VisitStates
<1>3. ProcessTypeOK
  BY <1>1, <1>2 DEF ProcessInit, ProcessTypeOK
<1>4. Shares
  BY <1>1 DEF Shares, Out, Closing
<1>5. (\A v \in Visits : Held(v)) /\ Empty
  BY <1>1, <1>2 DEF Held, Empty, Out, Closing
<1>6. Carried
  BY <1>1, <1>2 DEF ProcessInit, Carried, Nowhere, ToldOnce
<1>7. Booked
  BY <1>2 DEF ProcessInit, Booked, NoMoment
<1>. QED
  BY <1>3, <1>4, <1>5, <1>6, <1>7 DEF ProcessInv

\* Every step keeps the invariant.
LEMMA NextInv == ASSUME ProcessInv, [ProcessNext]_process_vars PROVE ProcessInv'
<1>1. CASE UNCHANGED process_vars
  BY <1>1 DEF process_vars, ProcessInv, ProcessTypeOK, Shares, Held, Empty, Carried, Nowhere, ToldOnce, Booked
<1>2. CASE \/ Signal \/ Build \/ Listen \/ ServeFails \/ SeesStop \/ Drained \/ CutShort
           \/ ClosesTraces \/ LastReading \/ LastPost
  BY <1>2, SignalInv, BuildInv, ListenInv, ServeFailsInv, SeesStopInv, DrainedInv, CutShortInv,
     ClosesTracesInv, LastReadingInv, LastPostInv
<1>3. CASE \E v \in Visits :
              \/ Comes(v) \/ BeginsLate(v) \/ LateEnds(v) \/ Answers(v) \/ LetsGo(v)
              \/ Delivers(v) \/ Reads(v) \/ Posts(v)
  BY <1>3, ComesInv, BeginsLateInv, LateEndsInv, AnswersInv, LetsGoInv, DeliversInv, ReadsInv, PostsInv
<1>4. CASE Ages
  BY <1>4, AgesInv
<1>. QED
  BY <1>1, <1>2, <1>3, <1>4 DEF ProcessNext

\* The invariant gives what the stop promises.
LEMMA InvStops == ASSUME ProcessInv PROVE StopsHold
<1>1. ProcessTypeOK
  BY DEF ProcessInv
<1>2. LeavesInTime
  <2>1. SUFFICES ASSUME process.saw # NoMoment, process.pc \notin {"exited", "killed"}
                 PROVE  uptime <= process.saw + ShutdownTimeout
    BY DEF LeavesInTime, Alive
  <2>2. process.saw \in Nat /\ process.by \in Nat /\ uptime \in Nat
    BY <1>1, <2>1, ProcessTypes
  <2>3. uptime <= process.by /\ (\/ process.by = process.saw + DrainTimeout
                                 \/ process.by <= process.saw + ShutdownTimeout)
    BY <1>1, <2>1, ProcessTypes DEF ProcessInv, Shares, Closing
  <2>. QED
    BY <2>2, <2>3, Durations
<1>3. WritesAreWaitedFor /\ NothingMeasuredIsLeft
  <2>1. SUFFICES ASSUME Stopped
                 PROVE  /\ \A v \in Visits : visit[v].pc \in {"idle", "done"} /\ visit[v].late # "writing"
                        /\ process.read => unread = {}
    BY DEF WritesAreWaitedFor, NothingMeasuredIsLeft, Serving
  <2>. QED
    BY <2>1 DEF ProcessInv, Empty, Held, Stopped, Out
<1>4. ToldOnce /\ ReadingsAreApart
  BY DEF ProcessInv, Carried, Booked, ReadingsAreApart
<1>5. StopIsNoCrash
  BY DEF ProcessInv, Shares, StopIsNoCrash, Out
<1>. QED
  BY <1>1, <1>2, <1>3, <1>4, <1>5 DEF StopsHold

\* For any number of requests and any deadlines, the process is gone in time
\* once it is asked to go, and takes along no write and no measurement it had
\* time for; what is measured is delivered once, and the deliveries of requests
\* are apart (server.go, container.go, later.go, telemetry.go).
THEOREM Stops == ProcessSpec => []StopsHold
<1>1. ProcessInit => ProcessInv
  BY InitInv
<1>2. ProcessInv /\ [ProcessNext]_process_vars => ProcessInv'
  BY NextInv
<1>3. ProcessInv => StopsHold
  BY InvStops
<1>. QED
  BY <1>1, <1>2, <1>3, PTL DEF ProcessSpec


-----------------------------------------------------------------------------

(***************************************************************************)
(* One request to Drive (Calls): while an attempt is to come or is under   *)
(* way nothing was written, and an attempt under way has its time.         *)
(***************************************************************************)

NothingWrittenYet == attempt \in {"start", "flying", "pause", "expired"} => wrote = 0
InFlightHasTime == attempt = "flying" => time + Timeout <= ends
PausesAreLeft == attempt = "pause" => retries < Len(Pauses)

CallsInv ==
    CallsTypeOK /\ NothingWrittenYet /\ InFlightHasTime /\ PausesAreLeft
    /\ WrittenOnce /\ AnsweredWithinTheToken

LEMMA CallsInitially == CallsInit => CallsInv
<1>. SUFFICES ASSUME CallsInit PROVE CallsInv
  OBVIOUS
<1>1. keeping \in BOOLEAN
  BY DEF CallsInit
<1>2. Len(Pauses) \in Nat
  BY CallsHaveTimes
<1>3. CallsTypeOK
  BY <1>1, <1>2, CallsHaveTimes DEF CallsInit, CallsTypeOK
<1>. QED
  BY <1>3 DEF CallsInit, CallsInv, NothingWrittenYet, InFlightHasTime, PausesAreLeft,
     WrittenOnce, AnsweredWithinTheToken

\* An attempt that may have landed is not made again, so what it wrote is all.
LEMMA EndsInv ==
    ASSUME CallsInv, NEW outcome \in OverWith \ {"expired"}, NEW done \in BOOLEAN,
           NEW took \in 0..Timeout, Ends(outcome, done, took)
    PROVE  CallsInv'
<1>. USE CallsHaveTimes DEF CallsInv
<1>1. attempt = "flying" /\ wrote = 0 /\ time + Timeout <= ends
  BY DEF Ends, NothingWrittenYet, InFlightHasTime
<1>2. time' \in Nat /\ time' <= ends /\ ends' = ends /\ op' = op /\ began' = began
  BY <1>1 DEF Ends, CallsTypeOK
<1>3. /\ wrote' \in {0, 1}
      /\ ~(done /\ op \in DriveWrites) => wrote' = 0
  BY <1>1 DEF Ends
<1>. Len(Pauses) \in Nat
  OBVIOUS
<1>4. CASE WorthRepeating(outcome) /\ retries < Len(Pauses)
  <2>1. attempt' = "pause" /\ retries' = retries /\ keeping' = keeping
    BY <1>4 DEF Ends
  <2>2. wrote' = 0
    BY <1>3, <1>4 DEF Ends, WorthRepeating
  <2>. QED
    BY <1>2, <1>4, <2>1, <2>2 DEF CallsTypeOK, NothingWrittenYet, InFlightHasTime,
       PausesAreLeft, WrittenOnce, AnsweredWithinTheToken
<1>5. CASE ~(WorthRepeating(outcome) /\ retries < Len(Pauses)) /\ keeping /\ OfTheKeeping(outcome)
  <2>1. attempt' = "start" /\ retries' = 0 /\ keeping' \in BOOLEAN
    BY <1>5 DEF Ends
  <2>2. wrote' = 0
    BY <1>3, <1>5 DEF Ends, OfTheKeeping
  <2>. QED
    BY <1>2, <2>1, <2>2 DEF CallsTypeOK, NothingWrittenYet, InFlightHasTime,
       PausesAreLeft, WrittenOnce, AnsweredWithinTheToken, OverWith
<1>6. CASE /\ ~(WorthRepeating(outcome) /\ retries < Len(Pauses))
           /\ ~(keeping /\ OfTheKeeping(outcome))
  <2>1. attempt' = outcome /\ retries' = retries /\ keeping' = keeping
    BY <1>6 DEF Ends
  <2>2. outcome \notin {"start", "flying", "pause", "expired"}
    BY DEF OverWith
  <2>3. CallsTypeOK'
    BY <1>2, <1>3, <2>1 DEF CallsTypeOK
  <2>. QED
    BY <1>2, <1>3, <2>1, <2>2, <2>3 DEF NothingWrittenYet, InFlightHasTime,
       PausesAreLeft, WrittenOnce, AnsweredWithinTheToken
<1>. QED
  BY <1>4, <1>5, <1>6

LEMMA CallsInductive == CallsInv /\ [CallsNext]_call_vars => CallsInv'
<1>. SUFFICES ASSUME CallsInv, [CallsNext]_call_vars PROVE CallsInv'
  OBVIOUS
<1>. USE CallsHaveTimes
     DEF CallsInv, CallsTypeOK, NothingWrittenYet, InFlightHasTime, PausesAreLeft, WrittenOnce,
         AnsweredWithinTheToken
<1>1. CASE Start
  BY <1>1 DEF Start, Outlasted, OverWith
<1>2. ASSUME NEW outcome \in OverWith \ {"expired"}, NEW done \in BOOLEAN,
             NEW took \in 0..Timeout, Ends(outcome, done, took)
      PROVE  CallsInv'
  BY <1>2, EndsInv
<1>3. CASE Pause
  <2>1. ASSUME time' \in (time + Pauses[retries + 1] - Spread)..(time + Pauses[retries + 1] + Spread),
               attempt' = "start", retries' = retries + 1
        PROVE  CallsInv'
    <3>1. retries + 1 \in DOMAIN Pauses /\ Pauses[retries + 1] \in Nat /\ Pauses[retries + 1] >= Spread
      BY <1>3 DEF Pause
    <3>2. time' \in Nat
      BY <2>1, <3>1
    <3>. QED
      BY <1>3, <2>1, <3>1, <3>2 DEF Pause
  <2>2. ASSUME attempt' \in {"canceled", "timeout"}, UNCHANGED <<time, retries>>
        PROVE  CallsInv'
    BY <1>3, <2>2 DEF Pause, OverWith
  <2>. QED
    BY <1>3, <2>1, <2>2 DEF Pause
<1>4. CASE UNCHANGED call_vars
  BY <1>4 DEF call_vars
<1>. QED
  BY <1>1, <1>2, <1>3, <1>4 DEF CallsNext

\* For any pauses and any timeout, a call that is made again writes once at most,
\* and no answer comes after the token ended (worthRepeating, call).
THEOREM Repeats == CallsSpec => []RepeatsDoNoHarm
<1>1. CallsInv => RepeatsDoNoHarm
  BY DEF CallsInv, RepeatsDoNoHarm
<1>. QED
  BY CallsInitially, CallsInductive, <1>1, PTL DEF CallsSpec

-----------------------------------------------------------------------------

(***************************************************************************)
(* The documents kept (Documents): what is kept was the client's when its  *)
(* attempt began, and is kept from then on no longer than the longest.     *)
(***************************************************************************)

\* What was put over a form was put there after an attempt that read it began.
WasThereFrom(form, id, start) ==
    /\ form \in 1..Len(changed[id])
    /\ form < Len(changed[id]) => changed[id][form + 1] >= start

KeptFromThen ==
    \A id \in DOMAIN kept :
        /\ kept[id].form \in 1..Len(changed[id])
        /\ kept[id].expires <= hour + LongestKept
        /\ kept[id].form < Len(changed[id]) =>
               kept[id].expires <= changed[id][kept[id].form + 1] + LongestKept + AttemptTime

ReadFromThen ==
    \A f \in Fetches :
        /\ fetch[f].pc # "idle" => fetch[f].id \in ClientIds
        /\ fetch[f].pc = "read" =>
              /\ WasThereFrom(fetch[f].form, fetch[f].id, fetch[f].began)
              /\ fetch[f].began <= hour /\ hour <= fetch[f].began + AttemptTime
              /\ fetch[f].lifetime \in ShortestKept..LongestKept

FormsAreFew ==
    /\ IsFiniteSet(ChangesMade)
    /\ Cardinality(ChangesMade) <= MaxVersions
    /\ \A id \in ClientIds : Len(changed[id]) \in 1..(MaxVersions + 1)

DocumentsInv ==
    /\ DocumentsTypeOK
    /\ IsFiniteSet(DOMAIN kept)
    /\ CacheHasRoom
    /\ KeptFromThen
    /\ ReadFromThen
    /\ FormsAreFew

LEMMA LifetimeIsWithin ==
    ASSUME NEW allowed \in MaxAges
    PROVE  LifetimeOf(allowed) \in ShortestKept..LongestKept
BY KeptForAWhile DEF LifetimeOf

LEMMA DocumentsInitially == DocumentsInit => DocumentsInv
<1>. SUFFICES ASSUME DocumentsInit PROVE DocumentsInv
  OBVIOUS
<1>. USE KeptForAWhile
<1>1. DOMAIN kept = {}
  BY DEF DocumentsInit
<1>2. DocumentsTypeOK
  <2>1. changed \in [ClientIds -> Seq(0..MaxHour)]
    BY DEF DocumentsInit
  <2>2. NotUnderWayYet \in FetchStates
    BY DEF NotUnderWayYet, FetchStates, Attempts
  <2>. QED
    BY <1>1, <2>1, <2>2 DEF DocumentsInit, DocumentsTypeOK
<1>3. IsFiniteSet(DOMAIN kept) /\ Cardinality(DOMAIN kept) = 0
  BY <1>1, FS_EmptySet
<1>4. ReadFromThen
  BY DEF DocumentsInit, ReadFromThen, NotUnderWayYet
<1>5. FormsAreFew
  <2>1. \A id \in ClientIds : Len(changed[id]) = 1
    BY DEF DocumentsInit
  <2>2. ChangesMade = {}
    <3>1. \A change \in ClientIds \X (1..MaxVersions) : change[1] \in ClientIds /\ change[2] >= 1
      OBVIOUS
    <3>2. \A change \in ClientIds \X (1..MaxVersions) : ~(Len(changed[change[1]]) > change[2])
      <4>. TAKE change \in ClientIds \X (1..MaxVersions)
      <4>1. Len(changed[change[1]]) = 1 /\ change[2] \in 1..MaxVersions
        BY <2>1, <3>1
      <4>. QED
        BY <4>1
    <3>. QED
      BY <3>2 DEF ChangesMade
  <2>. QED
    <3>1. IsFiniteSet(ChangesMade) /\ Cardinality(ChangesMade) = 0
      BY <2>2, FS_EmptySet
    <3>2. MaxVersions \in Nat
      OBVIOUS
    <3>. QED
      <4>1. \A id \in ClientIds : Len(changed[id]) \in 1..(MaxVersions + 1)
        <5>. TAKE id \in ClientIds
        <5>1. Len(changed[id]) = 1
          BY <2>1
        <5>. QED
          BY <3>2, <5>1
      <4>2. Cardinality(ChangesMade) <= MaxVersions
        BY <3>1, <3>2
      <4>. QED
        BY <3>1, <4>1, <4>2 DEF FormsAreFew
<1>. QED
  BY <1>1, <1>2, <1>3, <1>4, <1>5 DEF DocumentsInv, CacheHasRoom, KeptFromThen

\* A step of one fetch that leaves the rest alone.
LEMMA FetchMoves ==
    ASSUME DocumentsInv, NEW f \in Fetches, NEW r \in FetchStates,
           fetch' = [fetch EXCEPT ![f] = r], UNCHANGED <<hour, changed, kept>>,
           r.pc # "idle" => r.id \in ClientIds,
           r.pc = "read" =>
              /\ WasThereFrom(r.form, r.id, r.began)
              /\ r.began <= hour /\ hour <= r.began + AttemptTime
              /\ r.lifetime \in ShortestKept..LongestKept
    PROVE  DocumentsInv'
<1>1. DocumentsTypeOK'
  BY DEF DocumentsInv, DocumentsTypeOK
<1>2. \A g \in Fetches : fetch'[g] = IF g = f THEN r ELSE fetch[g]
  BY DEF DocumentsInv, DocumentsTypeOK
<1>3. ReadFromThen'
  BY <1>2 DEF DocumentsInv, ReadFromThen, WasThereFrom
<1>. QED
  BY <1>1, <1>3 DEF DocumentsInv, CacheHasRoom, KeptFromThen, FormsAreFew, ChangesMade

LEMMA NotUnderWayState == NotUnderWayYet \in FetchStates /\ NotUnderWayYet.pc = "idle"
BY KeptForAWhile DEF NotUnderWayYet, FetchStates, Attempts

LEMMA AskForInv == ASSUME DocumentsInv, NEW f \in Fetches, AskFor(f) PROVE DocumentsInv'
<1>1. PICK id \in ClientIds : fetch' = [fetch EXCEPT ![f].pc = "attempt", ![f].id = id]
  BY DEF AskFor
<1>. DEFINE r == [fetch[f] EXCEPT !.pc = "attempt", !.id = id]
<1>2. fetch[f] \in FetchStates /\ fetch' = [fetch EXCEPT ![f] = r]
  BY <1>1 DEF DocumentsInv, DocumentsTypeOK
<1>3. r \in FetchStates /\ r.pc = "attempt" /\ r.id = id
  BY <1>2 DEF FetchStates
<1>. HIDE DEF r
<1>. QED
  BY <1>2, <1>3, FetchMoves DEF AskFor

LEMMA AnswersWithInv == ASSUME DocumentsInv, NEW f \in Fetches, AnswersWith(f) PROVE DocumentsInv'
<1>1. PICK allowed \in MaxAges :
          fetch' = [fetch EXCEPT ![f].pc = "read", ![f].began = hour,
                                 ![f].form = Len(changed[fetch[f].id]),
                                 ![f].lifetime = LifetimeOf(allowed)]
  BY DEF AnswersWith
<1>. DEFINE n == Len(changed[fetch[f].id])
            r == [fetch[f] EXCEPT !.pc = "read", !.began = hour, !.form = n,
                                  !.lifetime = LifetimeOf(allowed)]
<1>2. fetch[f] \in FetchStates /\ fetch' = [fetch EXCEPT ![f] = r]
  BY <1>1 DEF DocumentsInv, DocumentsTypeOK
<1>3. fetch[f].id \in ClientIds /\ n \in 1..(MaxVersions + 1)
  BY DEF DocumentsInv, ReadFromThen, FormsAreFew, AnswersWith
<1>4. LifetimeOf(allowed) \in ShortestKept..LongestKept /\ LifetimeOf(allowed) \in Nat
  BY LifetimeIsWithin, KeptForAWhile
<1>5. hour \in 0..MaxHour /\ AttemptTime \in Nat /\ MaxVersions \in Nat
  BY KeptForAWhile DEF DocumentsInv, DocumentsTypeOK
<1>. HIDE DEF n
<1>6. /\ r \in FetchStates /\ r.pc = "read" /\ r.id = fetch[f].id
      /\ r.began = hour /\ r.form = n /\ r.lifetime = LifetimeOf(allowed)
  BY <1>2, <1>3, <1>4, <1>5 DEF FetchStates
<1>. HIDE DEF r
<1>7. WasThereFrom(r.form, r.id, r.began)
  BY <1>3, <1>5, <1>6 DEF WasThereFrom, n
<1>. QED
  <2>1. UNCHANGED <<hour, changed, kept>>
    BY DEF AnswersWith
  <2>2. r.began <= hour /\ hour <= r.began + AttemptTime
    BY <1>5, <1>6
  <2>3. r.id \in ClientIds /\ r.lifetime \in ShortestKept..LongestKept /\ r \in FetchStates
    BY <1>3, <1>4, <1>6
  <2>. QED
    BY <1>2, <1>7, <2>1, <2>2, <2>3, FetchMoves

LEMMA MightPassInv == ASSUME DocumentsInv, NEW f \in Fetches, MightPass(f) PROVE DocumentsInv'
<1>. DEFINE r == [NotUnderWayYet EXCEPT !.pc = "attempt", !.id = fetch[f].id,
                                        !.tries = fetch[f].tries + 1]
<1>1. CASE fetch[f].tries + 1 < Attempts
  <2>1. fetch[f] \in FetchStates /\ fetch' = [fetch EXCEPT ![f] = r]
    BY <1>1 DEF MightPass, DocumentsInv, DocumentsTypeOK
  <2>2. fetch[f].id \in ClientIds
    BY DEF DocumentsInv, ReadFromThen, MightPass
  <2>3. r \in FetchStates /\ r.pc = "attempt" /\ r.id = fetch[f].id
    <3>1. NotUnderWayYet \in FetchStates
      BY NotUnderWayState
    <3>2. fetch[f].tries + 1 \in 0..Attempts
      BY <1>1, <2>1 DEF FetchStates, Attempts
    <3>. QED
      BY <2>2, <3>1, <3>2 DEF FetchStates
  <2>. HIDE DEF r
  <2>. QED
    BY <2>1, <2>2, <2>3, FetchMoves DEF MightPass
<1>2. CASE ~(fetch[f].tries + 1 < Attempts)
  BY <1>2, NotUnderWayState, FetchMoves DEF MightPass, Over
<1>. QED
  BY <1>1, <1>2

LEMMA IsFinalInv == ASSUME DocumentsInv, NEW f \in Fetches, IsFinal(f) PROVE DocumentsInv'
BY NotUnderWayState, FetchMoves DEF IsFinal, Over

\* makeRoom leaves room for one, and lets go of what is fresh only when all is.
LEMMA RoomIsMade ==
    ASSUME DocumentsInv, NEW id, NeedsRoom(id), NEW others \in RoomMade
    PROVE  /\ others \subseteq DOMAIN kept
           /\ IsFiniteSet(others) /\ Cardinality(others) < CacheEntries
           /\ \A gone \in DOMAIN kept \ others : Fresh(gone) =>
                 \A other \in DOMAIN kept : Fresh(other) /\ kept[gone].expires <= kept[other].expires
<1>. DEFINE fresh == {other \in DOMAIN kept : Fresh(other)}
<1>1. /\ IsFiniteSet(DOMAIN kept) /\ Cardinality(DOMAIN kept) <= CacheEntries
      /\ CacheEntries \in Nat \ {0} /\ Cardinality(DOMAIN kept) >= CacheEntries
  BY KeptForAWhile DEF DocumentsInv, CacheHasRoom, NeedsRoom
<1>2. fresh \subseteq DOMAIN kept
  OBVIOUS
<1>3. /\ IsFiniteSet(fresh) /\ Cardinality(fresh) \in Nat /\ Cardinality(DOMAIN kept) \in Nat
      /\ Cardinality(fresh) <= Cardinality(DOMAIN kept)
      /\ Cardinality(fresh) = Cardinality(DOMAIN kept) => fresh = DOMAIN kept
  BY <1>1, <1>2, FS_Subset, FS_CardinalityType
<1>4. CASE Cardinality(fresh) < CacheEntries
  <2>1. others = fresh
    BY <1>4 DEF RoomMade
  <2>. QED
    BY <1>3, <1>4, <2>1
<1>5. CASE ~(Cardinality(fresh) < CacheEntries)
  <2>1. PICK soonest \in Soonest(fresh) : others = fresh \ {soonest}
    BY <1>5 DEF RoomMade
  <2>2. fresh = DOMAIN kept /\ Cardinality(fresh) = CacheEntries
    BY <1>1, <1>3, <1>5
  <2>3. soonest \in fresh /\ \A other \in fresh : kept[soonest].expires <= kept[other].expires
    BY <2>1 DEF Soonest
  <2>. HIDE DEF fresh
  <2>4. IsFiniteSet(others) /\ Cardinality(others) = CacheEntries - 1
    BY <1>3, <2>1, <2>2, <2>3, FS_RemoveElement
  <2>5. \A other \in DOMAIN kept : Fresh(other)
    BY <2>2 DEF fresh
  <2>. QED
    BY <1>1, <2>1, <2>2, <2>3, <2>4, <2>5
<1>. QED
  BY <1>4, <1>5

\* What is left of the others when a document is put, and that it fits.
LEMMA Put ==
    ASSUME DocumentsInv, NEW id, NEW entry, Keeps(id, entry)
    PROVE  /\ DOMAIN kept' \subseteq DOMAIN kept \cup {id} /\ id \in DOMAIN kept'
           /\ kept'[id] = entry
           /\ \A other \in DOMAIN kept' : other # id => kept'[other] = kept[other]
           /\ IsFiniteSet(DOMAIN kept') /\ Cardinality(DOMAIN kept') <= CacheEntries
           /\ \A gone \in DOMAIN kept \ DOMAIN kept' : Fresh(gone) =>
                 \A other \in DOMAIN kept : Fresh(other) /\ kept[gone].expires <= kept[other].expires
<1>1. PICK others \in IF NeedsRoom(id) THEN RoomMade ELSE {DOMAIN kept} :
          kept' = [other \in others \cup {id} |-> IF other = id THEN entry ELSE kept[other]]
  BY DEF Keeps
<1>2. IsFiniteSet(DOMAIN kept) /\ Cardinality(DOMAIN kept) <= CacheEntries /\ CacheEntries \in Nat
  BY KeptForAWhile DEF DocumentsInv, CacheHasRoom
<1>3. DOMAIN kept' = others \cup {id}
  BY <1>1
<1>4. CASE NeedsRoom(id)
  <2>1. others \in RoomMade
    BY <1>1, <1>4
  <2>2. others \subseteq DOMAIN kept /\ IsFiniteSet(others) /\ Cardinality(others) < CacheEntries
    BY <1>4, <2>1, RoomIsMade
  <2>3. \A gone \in DOMAIN kept \ others : Fresh(gone) =>
           \A other \in DOMAIN kept : Fresh(other) /\ kept[gone].expires <= kept[other].expires
    BY <1>4, <2>1, RoomIsMade
  <2>4. IsFiniteSet(others \cup {id}) /\ Cardinality(others \cup {id}) <= CacheEntries
    <3>1. Cardinality(others) \in Nat
      BY <2>2, FS_CardinalityType
    <3>2. /\ IsFiniteSet(others \cup {id})
          /\ Cardinality(others \cup {id}) \in {Cardinality(others), Cardinality(others) + 1}
      BY <2>2, FS_AddElement
    <3>. QED
      BY <1>2, <2>2, <3>1, <3>2
  <2>. QED
    BY <1>1, <1>3, <2>2, <2>3, <2>4
<1>5. CASE ~NeedsRoom(id)
  <2>1. others = DOMAIN kept
    BY <1>1, <1>5
  <2>2. IsFiniteSet(others \cup {id}) /\ Cardinality(others \cup {id}) <= CacheEntries
    <3>1. Cardinality(others) \in Nat
      BY <1>2, <2>1, FS_CardinalityType
    <3>2. /\ IsFiniteSet(others \cup {id})
          /\ id \in others => Cardinality(others \cup {id}) = Cardinality(others)
          /\ id \notin others => Cardinality(others \cup {id}) = Cardinality(others) + 1
      BY <1>2, <2>1, FS_AddElement
    <3>3. id \in others \/ Cardinality(others) < CacheEntries
      BY <1>2, <1>5, <2>1, <3>1 DEF NeedsRoom
    <3>. QED
      BY <1>2, <2>1, <3>1, <3>2, <3>3
  <2>. QED
    BY <1>1, <1>3, <2>1, <2>2
<1>. QED
  BY <1>4, <1>5

LEMMA KeepReadInv == ASSUME DocumentsInv, NEW f \in Fetches, KeepRead(f) PROVE DocumentsInv'
<1>. DEFINE id == fetch[f].id
            entry == [form |-> fetch[f].form, expires |-> hour + fetch[f].lifetime]
<1>1. Keeps(id, entry) /\ Over(f) /\ UNCHANGED <<hour, changed>> /\ fetch[f].pc = "read"
  BY DEF KeepRead
<1>2. /\ id \in ClientIds /\ WasThereFrom(fetch[f].form, id, fetch[f].began)
      /\ fetch[f].began <= hour /\ hour <= fetch[f].began + AttemptTime
      /\ fetch[f].lifetime \in ShortestKept..LongestKept
  BY <1>1 DEF DocumentsInv, ReadFromThen
<1>3. fetch[f] \in FetchStates /\ hour \in 0..MaxHour /\ {LongestKept, AttemptTime} \subseteq Nat
  BY KeptForAWhile DEF DocumentsInv, DocumentsTypeOK
<1>4. entry \in [form : 1..(MaxVersions + 1), expires : Nat]
  BY <1>3 DEF FetchStates
<1>5. entry.form = fetch[f].form /\ entry.expires = hour + fetch[f].lifetime
  OBVIOUS
<1>6. fetch[f].began \in Nat
  BY <1>3 DEF FetchStates
<1>. HIDE DEF id, entry
<1>7. /\ DOMAIN kept' \subseteq DOMAIN kept \cup {id} /\ id \in DOMAIN kept'
      /\ kept'[id] = entry
      /\ \A other \in DOMAIN kept' : other # id => kept'[other] = kept[other]
      /\ IsFiniteSet(DOMAIN kept') /\ Cardinality(DOMAIN kept') <= CacheEntries
  BY <1>1, Put
<1>8. DocumentsTypeOK'
  <2>1. fetch' \in [Fetches -> FetchStates]
    BY <1>1, NotUnderWayState DEF Over, DocumentsInv, DocumentsTypeOK
  <2>2. \A other \in DOMAIN kept' : kept'[other] \in [form : 1..(MaxVersions + 1), expires : Nat]
    BY <1>4, <1>7 DEF DocumentsInv, DocumentsTypeOK
  <2>. QED
    BY <1>1, <1>2, <1>7, <2>1, <2>2 DEF DocumentsInv, DocumentsTypeOK
<1>9. KeptFromThen'
  <2>1. ASSUME NEW other \in DOMAIN kept', other # id
        PROVE  /\ kept'[other].form \in 1..Len(changed'[other])
               /\ kept'[other].expires <= hour' + LongestKept
               /\ kept'[other].form < Len(changed'[other]) =>
                    kept'[other].expires <= changed'[other][kept'[other].form + 1] + LongestKept + AttemptTime
    BY <1>1, <1>7, <2>1 DEF DocumentsInv, KeptFromThen
  <2>2. entry.form \in 1..Len(changed[id]) /\ entry.expires <= hour + LongestKept
    BY <1>2, <1>3, <1>5 DEF WasThereFrom
  <2>3. entry.form < Len(changed[id]) =>
            entry.expires <= changed[id][entry.form + 1] + LongestKept + AttemptTime
    <3>. SUFFICES ASSUME entry.form < Len(changed[id])
                  PROVE  entry.expires <= changed[id][entry.form + 1] + LongestKept + AttemptTime
      OBVIOUS
    <3>1. changed[id] \in Seq(0..MaxHour)
      BY <1>2 DEF DocumentsInv, DocumentsTypeOK
    <3>2. entry.form + 1 \in 1..Len(changed[id])
      BY <2>2, <3>1
    <3>3. changed[id][entry.form + 1] \in Int
      <4>1. changed[id][entry.form + 1] \in 0..MaxHour
        BY <3>1, <3>2, ElementOfSeq
      <4>. QED
        BY <4>1
    <3>4. changed[id][entry.form + 1] >= fetch[f].began
      BY <1>2, <1>5 DEF WasThereFrom
    <3>. QED
      <4>. DEFINE replaced == changed[id][entry.form + 1]
      <4>1. fetch[f].lifetime \in Int /\ fetch[f].lifetime <= LongestKept
        BY <1>2, <1>3, KeptForAWhile
      <4>2. hour + fetch[f].lifetime <= fetch[f].began + AttemptTime + LongestKept
        BY <1>2, <1>3, <1>6, <4>1
      <4>3. replaced \in Int /\ replaced >= fetch[f].began
        BY <3>3, <3>4
      <4>. HIDE DEF replaced
      <4>4. entry.expires <= replaced + LongestKept + AttemptTime
        BY <1>3, <1>5, <1>6, <4>1, <4>2, <4>3, SMTT(30)
      <4>. QED
        BY <4>4 DEF replaced
  <2>4. kept'[id] = entry /\ changed' = changed /\ hour' = hour
    BY <1>1, <1>7
  <2>. QED
    BY <2>1, <2>2, <2>3, <2>4 DEF KeptFromThen
<1>10. ReadFromThen'
  <2>1. \A g \in Fetches : fetch'[g] = IF g = f THEN NotUnderWayYet ELSE fetch[g]
    BY <1>1 DEF Over, DocumentsInv, DocumentsTypeOK
  <2>. QED
    BY <1>1, <2>1, NotUnderWayState DEF DocumentsInv, ReadFromThen, WasThereFrom
<1>11. FormsAreFew'
  BY <1>1 DEF DocumentsInv, FormsAreFew, ChangesMade
<1>. QED
  BY <1>7, <1>8, <1>9, <1>10, <1>11 DEF DocumentsInv, CacheHasRoom

\* A form more of a document is one change more, within what is looked at.
LEMMA OneMoreChange ==
    ASSUME DocumentsInv, NEW id \in ClientIds, Changes(id)
    PROVE  FormsAreFew'
<1>. DEFINE n == Len(changed[id])
<1>1. /\ changed \in [ClientIds -> Seq(0..MaxHour)] /\ hour \in 0..MaxHour /\ MaxVersions \in Nat
      /\ IsFiniteSet(ChangesMade) /\ Cardinality(ChangesMade) < MaxVersions
      /\ \A other \in ClientIds : Len(changed[other]) \in 1..(MaxVersions + 1)
  BY KeptForAWhile DEF DocumentsInv, DocumentsTypeOK, FormsAreFew, Changes
<1>2. changed' = [changed EXCEPT ![id] = Append(@, hour)]
  BY DEF Changes
<1>3. \A other \in ClientIds : Len(changed'[other]) = IF other = id THEN n + 1 ELSE Len(changed[other])
  BY <1>1, <1>2
<1>4. n \in 1..(MaxVersions + 1)
  BY <1>1
<1>. HIDE DEF n
<1>5. n <= MaxVersions
  <2>. SUFFICES ASSUME n = MaxVersions + 1 PROVE FALSE
    BY <1>1, <1>4
  <2>. DEFINE Its == {id} \X (1..MaxVersions)
  <2>1. Its \subseteq ChangesMade
    <3>. SUFFICES ASSUME NEW k \in 1..MaxVersions PROVE <<id, k>> \in ChangesMade
      OBVIOUS
    <3>1. Len(changed[<<id, k>>[1]]) > <<id, k>>[2]
      BY <1>1 DEF n
    <3>. QED
      BY <3>1 DEF ChangesMade
  <2>2. IsFiniteSet({id}) /\ Cardinality({id}) = 1
    BY FS_Singleton
  <2>3. IsFiniteSet(1..MaxVersions) /\ Cardinality(1..MaxVersions) = MaxVersions
    BY <1>1, FS_Interval
  <2>4. Cardinality(Its) = MaxVersions
    <3>1. Cardinality(Its) = Cardinality({id}) * Cardinality(1..MaxVersions)
      BY <2>2, <2>3, FS_Product
    <3>. QED
      BY <1>1, <2>2, <2>3, <3>1
  <2>5. Cardinality(Its) <= Cardinality(ChangesMade)
    BY <1>1, <2>1, FS_Subset
  <2>. QED
    BY <1>1, <2>4, <2>5, FS_CardinalityType
<1>6. ChangesMade' = ChangesMade \cup {<<id, n>>}
  <2>. SUFFICES ASSUME NEW change \in ClientIds \X (1..MaxVersions)
                PROVE  change \in ChangesMade' <=> change \in ChangesMade \/ change = <<id, n>>
    BY <1>1, <1>4, <1>5 DEF ChangesMade
  <2>1. PICK other \in ClientIds, k \in 1..MaxVersions : change = <<other, k>>
    OBVIOUS
  <2>2. Len(changed'[other]) > k <=> Len(changed[other]) > k \/ (other = id /\ k = n)
    BY <1>1, <1>3, <1>4, <2>1 DEF n
  <2>3. change \in ChangesMade <=> Len(changed[other]) > k
    BY <2>1 DEF ChangesMade
  <2>4. change \in ChangesMade' <=> Len(changed'[other]) > k
    BY <2>1 DEF ChangesMade
  <2>. QED
    BY <2>1, <2>2, <2>3, <2>4
<1>7. /\ IsFiniteSet(ChangesMade')
      /\ Cardinality(ChangesMade') \in {Cardinality(ChangesMade), Cardinality(ChangesMade) + 1}
  BY <1>1, <1>6, FS_AddElement
<1>8. Cardinality(ChangesMade') <= MaxVersions
  BY <1>1, <1>7, FS_CardinalityType
<1>9. \A other \in ClientIds : Len(changed'[other]) \in 1..(MaxVersions + 1)
  <2>. TAKE other \in ClientIds
  <2>1. Len(changed[other]) \in 1..(MaxVersions + 1)
    BY <1>1
  <2>. QED
    BY <1>1, <1>3, <1>4, <1>5, <2>1
<1>. QED
  BY <1>7, <1>8, <1>9 DEF FormsAreFew

\* A form put over one that is kept, or being read, is put there now.
LEMMA ChangesInv == ASSUME DocumentsInv, NEW id \in ClientIds, Changes(id) PROVE DocumentsInv'
<1>1. /\ changed \in [ClientIds -> Seq(0..MaxHour)] /\ hour \in 0..MaxHour
      /\ {LongestKept, AttemptTime} \subseteq Nat
      /\ changed' = [changed EXCEPT ![id] = Append(@, hour)]
      /\ UNCHANGED <<hour, kept, fetch>>
  BY KeptForAWhile DEF DocumentsInv, DocumentsTypeOK, Changes
<1>2. \A other \in ClientIds :
         /\ Len(changed'[other]) = IF other = id THEN Len(changed[other]) + 1 ELSE Len(changed[other])
         /\ \A n \in 1..Len(changed[other]) : changed'[other][n] = changed[other][n]
         /\ Len(changed'[other]) # Len(changed[other]) => changed'[other][Len(changed[other]) + 1] = hour
  <2>. TAKE other \in ClientIds
  <2>1. changed'[other] = IF other = id THEN Append(changed[other], hour) ELSE changed[other]
    BY <1>1
  <2>2. changed[other] \in Seq(0..MaxHour)
    BY <1>1
  <2>. QED
    BY <1>1, <2>1, <2>2
<1>3. DocumentsTypeOK'
  <2>1. changed' \in [ClientIds -> Seq(0..MaxHour)]
    BY <1>1
  <2>. QED
    BY <1>1, <2>1 DEF DocumentsInv, DocumentsTypeOK
<1>4. \A form, other : other \in ClientIds /\ form \in 1..Len(changed[other]) =>
         /\ form \in 1..Len(changed'[other])
         /\ form < Len(changed'[other]) =>
               \/ form < Len(changed[other]) /\ changed'[other][form + 1] = changed[other][form + 1]
               \/ changed'[other][form + 1] = hour
  <2>. SUFFICES ASSUME NEW form, NEW other \in ClientIds, form \in 1..Len(changed[other])
                PROVE  /\ form \in 1..Len(changed'[other])
                       /\ form < Len(changed'[other]) =>
                             \/ /\ form < Len(changed[other])
                                /\ changed'[other][form + 1] = changed[other][form + 1]
                             \/ changed'[other][form + 1] = hour
    OBVIOUS
  <2>1. Len(changed[other]) \in Nat
    BY <1>1
  <2>2. form + 1 \in 1..Len(changed[other]) \/ form = Len(changed[other])
    BY <2>1
  <2>. QED
    BY <1>2, <2>1, <2>2
<1>5. KeptFromThen'
  <2>. SUFFICES ASSUME NEW other \in DOMAIN kept
                PROVE  /\ kept[other].form \in 1..Len(changed'[other])
                       /\ kept[other].expires <= hour + LongestKept
                       /\ kept[other].form < Len(changed'[other]) =>
                            kept[other].expires
                               <= changed'[other][kept[other].form + 1] + LongestKept + AttemptTime
    BY <1>1 DEF KeptFromThen
  <2>1. other \in ClientIds /\ kept[other].expires \in Nat
    BY DEF DocumentsInv, DocumentsTypeOK
  <2>2. /\ kept[other].form \in 1..Len(changed[other])
        /\ kept[other].expires <= hour + LongestKept
        /\ kept[other].form < Len(changed[other]) =>
              kept[other].expires <= changed[other][kept[other].form + 1] + LongestKept + AttemptTime
    BY DEF DocumentsInv, KeptFromThen
  <2>3. hour + LongestKept <= hour + LongestKept + AttemptTime
    BY <1>1
  <2>. QED
    BY <1>1, <1>4, <2>1, <2>2, <2>3, SMTT(30)
<1>6. ReadFromThen'
  <2>. SUFFICES ASSUME NEW f \in Fetches, fetch[f].pc = "read"
                PROVE  WasThereFrom(fetch[f].form, fetch[f].id, fetch[f].began)'
    BY <1>1 DEF DocumentsInv, ReadFromThen
  <2>1. /\ fetch[f].id \in ClientIds /\ fetch[f].began <= hour
        /\ WasThereFrom(fetch[f].form, fetch[f].id, fetch[f].began)
    BY DEF DocumentsInv, ReadFromThen
  <2>2. fetch[f].began \in Nat
    BY DEF DocumentsInv, DocumentsTypeOK, FetchStates
  <2>. QED
    BY <1>1, <1>4, <2>1, <2>2 DEF WasThereFrom
<1>. QED
  BY <1>1, <1>3, <1>5, <1>6, OneMoreChange DEF DocumentsInv, CacheHasRoom

LEMMA HourPassesInv == ASSUME DocumentsInv, HourPasses PROVE DocumentsInv'
<1>1. /\ hour \in Nat /\ hour' = hour + 1 /\ hour' \in 0..MaxHour
      /\ {LongestKept, AttemptTime} \subseteq Nat
      /\ UNCHANGED <<changed, kept, fetch>>
  BY KeptForAWhile DEF DocumentsInv, DocumentsTypeOK, HourPasses
<1>2. DocumentsTypeOK'
  BY <1>1 DEF DocumentsInv, DocumentsTypeOK
<1>3. KeptFromThen'
  <2>. SUFFICES ASSUME NEW id \in DOMAIN kept
                PROVE  kept[id].expires <= hour' + LongestKept
    BY <1>1 DEF DocumentsInv, KeptFromThen
  <2>1. kept[id].expires \in Nat /\ kept[id].expires <= hour + LongestKept
    BY DEF DocumentsInv, DocumentsTypeOK, KeptFromThen
  <2>. QED
    BY <1>1, <2>1
<1>4. ReadFromThen'
  <2>. SUFFICES ASSUME NEW f \in Fetches, fetch[f].pc = "read"
                PROVE  fetch[f].began <= hour' /\ hour' <= fetch[f].began + AttemptTime
    BY <1>1 DEF DocumentsInv, ReadFromThen, WasThereFrom
  <2>1. fetch[f].began <= hour /\ hour < fetch[f].began + AttemptTime
    BY DEF DocumentsInv, ReadFromThen, HourPasses
  <2>2. fetch[f].began \in Nat
    BY DEF DocumentsInv, DocumentsTypeOK, FetchStates
  <2>. QED
    BY <1>1, <2>1, <2>2
<1>. QED
  BY <1>1, <1>2, <1>3, <1>4 DEF DocumentsInv, CacheHasRoom, FormsAreFew, ChangesMade

LEMMA DocumentsInductive == DocumentsInv /\ [DocumentsNext]_document_vars => DocumentsInv'
<1>. SUFFICES ASSUME DocumentsInv, [DocumentsNext]_document_vars PROVE DocumentsInv'
  OBVIOUS
<1>1. CASE UNCHANGED document_vars
  BY <1>1 DEF document_vars, DocumentsInv, DocumentsTypeOK, CacheHasRoom, KeptFromThen, ReadFromThen,
     WasThereFrom, FormsAreFew, ChangesMade
<1>. QED
  BY <1>1, AskForInv, AnswersWithInv, MightPassInv, IsFinalInv, KeepReadInv, ChangesInv,
     HourPassesInv DEF DocumentsNext

LEMMA DocumentsInvariance == DocumentsSpec => []DocumentsInv
BY DocumentsInitially, DocumentsInductive, PTL DEF DocumentsSpec

\* For any clients, fetches and lifetimes, the cache stays in its room and holds
\* nobody to a document longer than the longest one is kept and the attempt that
\* read it (cacheEntries, longestKept).
THEOREM Caches == DocumentsSpec => []CacheHolds
<1>1. DocumentsInv => HeldToOldNoLonger
  <2>. SUFFICES ASSUME DocumentsInv, NEW id \in ClientIds, Fresh(id), kept[id].form < Len(changed[id])
                PROVE  hour - changed[id][kept[id].form + 1] < LongestKept + AttemptTime
    BY DEF HeldToOldNoLonger
  <2>. DEFINE n == kept[id].form + 1
              replaced == changed[id][n]
  <2>1. /\ id \in DOMAIN kept /\ hour < kept[id].expires /\ kept[id].form \in 1..Len(changed[id])
        /\ kept[id].expires <= replaced + LongestKept + AttemptTime
    BY DEF Fresh, DocumentsInv, KeptFromThen
  <2>2. /\ changed[id] \in Seq(0..MaxHour) /\ kept[id].expires \in Nat /\ hour \in Nat
        /\ {LongestKept, AttemptTime} \subseteq Nat
    BY <2>1, KeptForAWhile DEF DocumentsInv, DocumentsTypeOK
  <2>3. n \in 1..Len(changed[id])
    BY <2>1, <2>2
  <2>4. replaced \in 0..MaxHour
    BY <2>2, <2>3, ElementOfSeq
  <2>. HIDE DEF replaced, n
  <2>5. replaced \in Int
    BY <2>4
  <2>6. hour - replaced < LongestKept + AttemptTime
    BY <2>1, <2>2, <2>5
  <2>. QED
    BY <2>6 DEF replaced, n
<1>2. DocumentsInv => CacheHolds
  BY <1>1 DEF DocumentsInv, CacheHolds
<1>. QED
  BY <1>2, DocumentsInvariance, PTL

\* Whatever fetches put beside one another, a document that is fresh makes room
\* only where all others are fresh and end no sooner (makeRoom).
THEOREM FreshGoLast == DocumentsSpec => FreshAreLetGoLast
<1>1. ASSUME DocumentsInv, [DocumentsNext]_document_vars
      PROVE  [\A id \in DOMAIN kept \ DOMAIN kept' : Fresh(id) =>
                /\ \A other \in DOMAIN kept' : Fresh(other) \/ kept'[other].expires > hour
                /\ \A other \in DOMAIN kept : kept[id].expires <= kept[other].expires]_document_vars
  <2>. SUFFICES ASSUME DocumentsNext, NEW id \in DOMAIN kept \ DOMAIN kept', Fresh(id)
                PROVE  /\ \A other \in DOMAIN kept' : Fresh(other) \/ kept'[other].expires > hour
                       /\ \A other \in DOMAIN kept : kept[id].expires <= kept[other].expires
    BY <1>1
  <2>1. kept' # kept
    OBVIOUS
  <2>2. PICK f \in Fetches : KeepRead(f)
    BY <2>1 DEF DocumentsNext, AskFor, AnswersWith, MightPass, IsFinal, Changes, HourPasses
  <2>. DEFINE new == fetch[f].id
              entry == [form |-> fetch[f].form, expires |-> hour + fetch[f].lifetime]
  <2>3. Keeps(new, entry) /\ fetch[f].pc = "read"
    BY <2>2 DEF KeepRead
  <2>4. fetch[f].lifetime \in ShortestKept..LongestKept /\ hour \in Nat
    BY <1>1, <2>3 DEF DocumentsInv, DocumentsTypeOK, ReadFromThen
  <2>5. entry.expires > hour
    BY <2>4, KeptForAWhile
  <2>. HIDE DEF new, entry
  <2>6. \A other \in DOMAIN kept : Fresh(other) /\ kept[id].expires <= kept[other].expires
    BY <1>1, <2>3, Put
  <2>7. DOMAIN kept' \subseteq DOMAIN kept \cup {new} /\ kept'[new] = entry
    BY <1>1, <2>3, Put
  <2>. QED
    BY <2>5, <2>6, <2>7
<1>. QED
  BY <1>1, DocumentsInvariance, PTL DEF DocumentsSpec, FreshAreLetGoLast

-----------------------------------------------------------------------------

(***************************************************************************)
(* The programs that prove a task (Solvers): with no more runs than there  *)
(* are processors, a run is on a processor whenever its clock goes on, so  *)
(* what becomes of it is what would become of it alone.                    *)
(***************************************************************************)

Judges ==
    [pc : {"idle", "asking", "waiting", "running", "ended"}, program : Programs \cup {NotJudged.program},
     run : 1..2, first : 0..(Count - 1), gone : BOOLEAN, waited : 0..SlotWait,
     spent : 0..RunTime, done : Nat, outcome : Outcomes \cup {"none"}]

Most == IF RunTime < StepBudget THEN RunTime ELSE StepBudget

\* A run under way has worked for as long as its clock went on, and the second
\* is of a program that came to its end within what it may spend.
RunsByItself(s) ==
    /\ s.pc = "idle" => s = NotJudged
    /\ s.pc # "idle" => s.program \in Programs
    /\ s.pc \in {"asking", "waiting"} => s.spent = 0 /\ s.done = 0
    /\ s.pc \in {"waiting", "running"} => s.program.kind # "oversized"
    /\ s.pc = "running" => s.spent = s.done /\ s.done <= s.program.work /\ s.done <= Most
    /\ s.pc \in {"asking", "waiting", "running"} /\ s.run = 2 =>
          /\ One(s.program) /\ s.program.work <= Most
          /\ s.first = PointsAt(s.program, Place)
    /\ s.pc = "ended" /\ s.outcome \notin {"busy", "gone"} => s.outcome \in Alone(s.program)

SolversInv ==
    /\ slots \in Nat
    /\ judge \in [Judged -> Judges]
    /\ \A j \in Judged : RunsByItself(judge[j])
    /\ IsFiniteSet(Running) /\ SlotsAreInUse /\ slots <= Concurrency

LEMMA SolversLimits ==
    /\ SlotWait \in Nat \ {0} /\ RunTime \in Nat \ {0} /\ StepBudget \in Nat \ {0}
    /\ Works \subseteq Nat \ {0} /\ Processors \in Nat \ {0} /\ Concurrency \in 1..Processors
    /\ Most \in Nat \ {0} /\ Most <= RunTime /\ Most <= StepBudget
    /\ Most = RunTime \/ Most = StepBudget
BY LimitsArePositive, OneProcessorEach DEF Most

LEMMA NotJudgedState == NotJudged \in Judges /\ NotJudged.pc = "idle"
BY SolversLimits DEF NotJudged, Judges, Outcomes, Count

LEMMA SolversInitially == SolversInit => SolversInv
<1>. SUFFICES ASSUME SolversInit PROVE SolversInv
  OBVIOUS
<1>1. Running = {}
  BY NotJudgedState DEF SolversInit, Running, In
<1>2. IsFiniteSet(Running) /\ Cardinality(Running) = 0
  BY <1>1, FS_EmptySet
<1>3. \A j \in Judged : RunsByItself(judge[j])
  BY NotJudgedState DEF SolversInit, RunsByItself
<1>. QED
  BY <1>2, <1>3, NotJudgedState, SolversLimits DEF SolversInit, SolversInv, SlotsAreInUse

\* A step of one task's verdict that takes no slot and gives none back.
LEMMA JudgeMoves ==
    ASSUME SolversInv, NEW j \in Judged, NEW s \in Judges, judge' = [judge EXCEPT ![j] = s],
           UNCHANGED slots, RunsByItself(s), s.pc = "running" <=> judge[j].pc = "running"
    PROVE  SolversInv'
<1>1. \A i \in Judged : judge'[i] = IF i = j THEN s ELSE judge[i]
  BY DEF SolversInv
<1>2. Running' = Running
  BY <1>1 DEF Running, In
<1>3. \A i \in Judged : RunsByItself(judge'[i])
  BY <1>1 DEF SolversInv
<1>4. \A i \in Judged : RunsByItself(judge[i])'
  BY <1>3 DEF RunsByItself
<1>. QED
  BY <1>2, <1>4 DEF SolversInv, SlotsAreInUse

\* The verdict of a task, and its state: nothing of the run is left.
LEMMA VerdictState ==
    ASSUME SolversInv, NEW j \in Judged, NEW outcome \in Outcomes, judge[j].pc # "idle",
           outcome \notin {"busy", "gone"} => outcome \in Alone(judge[j].program)
    PROVE  \E s \in Judges :
              /\ Verdict(j, outcome) = [judge EXCEPT ![j] = s]
              /\ RunsByItself(s) /\ s.pc = "ended"
<1>. DEFINE s == [NotJudged EXCEPT !.pc = "ended", !.program = judge[j].program, !.outcome = outcome]
<1>1. judge[j] \in Judges /\ RunsByItself(judge[j])
  BY DEF SolversInv
<1>2. judge[j].program \in Programs
  BY <1>1 DEF RunsByItself
<1>3. s \in Judges /\ s.pc = "ended" /\ s.program = judge[j].program /\ s.outcome = outcome
  BY <1>2, NotJudgedState DEF Judges
<1>. HIDE DEF s
<1>4. RunsByItself(s)
  BY <1>2, <1>3 DEF RunsByItself
<1>5. Verdict(j, outcome) = [judge EXCEPT ![j] = s]
  BY DEF Verdict, s
<1>. QED
  BY <1>3, <1>4, <1>5

LEMMA ExamineInv ==
    ASSUME SolversInv, NEW j \in Judged, NEW program \in Programs, Examine(j, program)
    PROVE  SolversInv'
<1>. DEFINE s == [judge[j] EXCEPT !.pc = "asking", !.program = program]
<1>1. judge[j] \in Judges /\ RunsByItself(judge[j]) /\ judge[j].pc = "idle"
  BY DEF SolversInv, Examine
<1>2. judge' = [judge EXCEPT ![j] = s]
  BY <1>1 DEF Examine, SolversInv
<1>3. judge[j] = NotJudged
  BY <1>1 DEF RunsByItself
<1>4. /\ s \in Judges /\ s.pc = "asking" /\ s.program = program
      /\ s.spent = 0 /\ s.done = 0 /\ s.run = 1
  <2>1. NotJudged \in Judges /\ NotJudged.spent = 0 /\ NotJudged.done = 0 /\ NotJudged.run = 1
    BY NotJudgedState DEF NotJudged
  <2>. QED
    BY <1>3, <2>1 DEF Judges
<1>. HIDE DEF s
<1>5. RunsByItself(s)
  BY <1>4 DEF RunsByItself
<1>. QED
  BY <1>1, <1>2, <1>4, <1>5, JudgeMoves DEF Examine

LEMMA RunInv == ASSUME SolversInv, NEW j \in Judged, Run(j) PROVE SolversInv'
<1>1. /\ judge[j] \in Judges /\ RunsByItself(judge[j]) /\ judge[j].pc = "asking"
      /\ judge[j].program \in Programs /\ slots' = slots
  BY DEF SolversInv, Run, RunsByItself
<1>2. CASE judge[j].gone
  <2>1. PICK s \in Judges : Verdict(j, "gone") = [judge EXCEPT ![j] = s] /\ RunsByItself(s) /\ s.pc = "ended"
    BY <1>1, VerdictState DEF Outcomes
  <2>. QED
    BY <1>1, <1>2, <2>1, JudgeMoves DEF Run
<1>3. CASE ~judge[j].gone /\ judge[j].program.kind = "oversized"
  <2>1. "bad_source" \in Alone(judge[j].program)
    BY <1>3 DEF Alone
  <2>2. PICK s \in Judges :
            Verdict(j, "bad_source") = [judge EXCEPT ![j] = s] /\ RunsByItself(s) /\ s.pc = "ended"
    BY <1>1, <2>1, VerdictState DEF Outcomes
  <2>. QED
    BY <1>1, <1>3, <2>2, JudgeMoves DEF Run
<1>4. CASE ~judge[j].gone /\ judge[j].program.kind # "oversized"
  <2>. DEFINE s == [judge[j] EXCEPT !.pc = "waiting"]
  <2>1. judge' = [judge EXCEPT ![j] = s]
    BY <1>1, <1>4 DEF Run, SolversInv
  <2>2. /\ s \in Judges /\ s.pc = "waiting"
        /\ \A field \in {"program", "run", "first", "spent", "done"} : s[field] = judge[j][field]
    BY <1>1 DEF Judges
  <2>3. /\ s.program = judge[j].program /\ s.run = judge[j].run /\ s.first = judge[j].first
        /\ s.spent = judge[j].spent /\ s.done = judge[j].done
    BY <1>1 DEF Judges
  <2>. HIDE DEF s
  <2>4. RunsByItself(s)
    BY <1>1, <1>4, <2>2, <2>3 DEF RunsByItself
  <2>. QED
    BY <1>1, <2>1, <2>2, <2>4, JudgeMoves
<1>. QED
  BY <1>2, <1>3, <1>4

LEMMA RefuseInv == ASSUME SolversInv, NEW j \in Judged, RefuseRun(j) PROVE SolversInv'
<1>1. PICK outcome \in {"busy", "gone"} : judge' = Verdict(j, outcome)
  BY DEF RefuseRun
<1>2. judge[j].pc = "waiting" /\ slots' = slots
  BY DEF RefuseRun
<1>3. PICK s \in Judges : Verdict(j, outcome) = [judge EXCEPT ![j] = s] /\ RunsByItself(s) /\ s.pc = "ended"
  BY <1>2, VerdictState DEF Outcomes
<1>. QED
  BY <1>1, <1>2, <1>3, JudgeMoves

LEMMA GiveUpAskingInv == ASSUME SolversInv, NEW j \in Judged, GiveUpAsking(j) PROVE SolversInv'
<1>. DEFINE s == [judge[j] EXCEPT !.gone = TRUE]
<1>1. /\ judge[j] \in Judges /\ RunsByItself(judge[j]) /\ slots' = slots
      /\ judge[j].pc \in {"asking", "waiting", "running"}
  BY DEF SolversInv, GiveUpAsking
<1>2. judge' = [judge EXCEPT ![j] = s]
  BY DEF GiveUpAsking, SolversInv
<1>3. /\ s \in Judges /\ s.pc = judge[j].pc
      /\ s.program = judge[j].program /\ s.run = judge[j].run /\ s.first = judge[j].first
      /\ s.spent = judge[j].spent /\ s.done = judge[j].done
  BY <1>1 DEF Judges
<1>. HIDE DEF s
<1>4. RunsByItself(s)
  BY <1>1, <1>3 DEF RunsByItself
<1>. QED
  BY <1>1, <1>2, <1>3, <1>4, JudgeMoves

LEMMA TakeSlotInv == ASSUME SolversInv, NEW j \in Judged, TakeSlot(j) PROVE SolversInv'
<1>. DEFINE s == [judge[j] EXCEPT !.pc = "running", !.waited = 0]
<1>1. /\ judge[j] \in Judges /\ RunsByItself(judge[j]) /\ judge[j].pc = "waiting"
      /\ slots' = slots + 1 /\ slots < Concurrency
  BY DEF SolversInv, TakeSlot, SlotFree
<1>2. judge' = [judge EXCEPT ![j] = s]
  BY DEF TakeSlot, SolversInv
<1>3. /\ s \in Judges /\ s.pc = "running"
      /\ s.program = judge[j].program /\ s.run = judge[j].run /\ s.first = judge[j].first
      /\ s.spent = judge[j].spent /\ s.done = judge[j].done
  <2>1. 0 \in 0..SlotWait
    BY SolversLimits
  <2>. QED
    BY <1>1, <2>1 DEF Judges
<1>. HIDE DEF s
<1>4. s.program \in Programs /\ s.program.work \in Nat
  BY <1>1, <1>3, SolversLimits DEF RunsByItself, Programs
<1>5. RunsByItself(s)
  BY <1>1, <1>3, <1>4, SolversLimits DEF RunsByItself
<1>6. \A i \in Judged : judge'[i] = IF i = j THEN s ELSE judge[i]
  BY <1>2 DEF SolversInv
<1>7. judge' \in [Judged -> Judges]
  BY <1>2, <1>3 DEF SolversInv
<1>8. Running' = Running \cup {j} /\ j \notin Running
  BY <1>1, <1>3, <1>6 DEF Running, In
<1>9. IsFiniteSet(Running') /\ Cardinality(Running') = slots'
  BY <1>1, <1>8, FS_AddElement DEF SolversInv, SlotsAreInUse
<1>10. \A i \in Judged : RunsByItself(judge'[i])
  BY <1>5, <1>6 DEF SolversInv
<1>11. \A i \in Judged : RunsByItself(judge[i])'
  BY <1>10 DEF RunsByItself
<1>12. slots' \in Nat /\ slots' <= Concurrency
  BY <1>1, SolversLimits DEF SolversInv
<1>. QED
  BY <1>7, <1>9, <1>11, <1>12 DEF SolversInv, SlotsAreInUse

\* A run gives its slot back, whatever becomes of the verdict.
LEMMA SlotGivenBack ==
    ASSUME SolversInv, NEW j \in Judged, NEW s \in Judges, judge' = [judge EXCEPT ![j] = s],
           slots' = slots - 1, RunsByItself(s), judge[j].pc = "running", s.pc # "running"
    PROVE  SolversInv'
<1>1. \A i \in Judged : judge'[i] = IF i = j THEN s ELSE judge[i]
  BY DEF SolversInv
<1>2. judge' \in [Judged -> Judges]
  BY DEF SolversInv
<1>3. Running' = Running \ {j} /\ j \in Running
  BY <1>1 DEF Running, In
<1>4. IsFiniteSet(Running') /\ Cardinality(Running') = slots' /\ slots' \in Nat
  <2>1. IsFiniteSet(Running) /\ Cardinality(Running) = slots
    BY DEF SolversInv, SlotsAreInUse
  <2>2. IsFiniteSet(Running') /\ Cardinality(Running') = slots - 1
    BY <1>3, <2>1, FS_RemoveElement
  <2>. QED
    BY <2>2, FS_CardinalityType
<1>5. \A i \in Judged : RunsByItself(judge'[i])
  BY <1>1 DEF SolversInv
<1>6. \A i \in Judged : RunsByItself(judge[i])'
  BY <1>5 DEF RunsByItself
<1>7. slots' <= Concurrency
  BY SolversLimits DEF SolversInv
<1>. QED
  BY <1>2, <1>4, <1>6, <1>7 DEF SolversInv, SlotsAreInUse

\* Only a program that follows its text points at it under both labellings.
LEMMA PointsTwice ==
    ASSUME NEW program \in Programs, One(program)
    PROVE  /\ PointsAt(program, Place) \in 0..(Count - 1)
           /\ PointsAt(program, Relabelled(Place)) = Relabelled(PointsAt(program, Place))
                <=> program.kind = "follows"
<1>1. Relabelled(0) = 2 /\ Relabelled(4) = 1
  BY DEF Relabelled, Relabel, Count
<1>2. CASE program.kind = "follows"
  BY <1>1, <1>2 DEF PointsAt, Place, Count
<1>3. CASE program.kind = "letter"
  BY <1>1, <1>3 DEF PointsAt, Place, Count
<1>4. CASE program.kind = "mirrors"
  BY <1>1, <1>4 DEF PointsAt, Place, Count
<1>. QED
  BY <1>2, <1>3, <1>4 DEF One

LEMMA RunEndsInv == ASSUME SolversInv, NEW j \in Judged, RunEnds(j) PROVE SolversInv'
<1>. DEFINE p == judge[j].program
<1>1. /\ judge[j] \in Judges /\ RunsByItself(judge[j]) /\ judge[j].pc = "running"
      /\ judge[j].done = p.work /\ slots' = slots - 1 /\ judge' = Ran(j)
  BY DEF SolversInv, RunEnds
<1>2. /\ p \in Programs /\ p.work \in Nat /\ p.kind # "oversized" /\ p.work <= Most
  BY <1>1, SolversLimits DEF RunsByItself, Programs
<1>3. (IF p.kind = "follows" THEN "agreed" ELSE IF One(p) THEN "disagreed" ELSE Short(p)) \in Alone(p)
  BY <1>2, SolversLimits DEF Alone, Most
<1>4. CASE ~One(p)
  <2>1. Short(p) \in Alone(p) /\ Short(p) \in Outcomes
    BY <1>3, <1>4 DEF One, Short, Outcomes
  <2>2. PICK s \in Judges : Verdict(j, Short(p)) = [judge EXCEPT ![j] = s] /\ RunsByItself(s) /\ s.pc = "ended"
    BY <1>1, <2>1, VerdictState
  <2>. QED
    BY <1>1, <1>4, <2>2, SlotGivenBack DEF Ran
<1>5. CASE One(p) /\ judge[j].run = 1
  <2>. DEFINE s == [judge[j] EXCEPT !.pc = "asking", !.run = 2, !.first = PointsAt(p, Place),
                                    !.spent = 0, !.done = 0]
  <2>1. judge' = [judge EXCEPT ![j] = s]
    BY <1>1, <1>5 DEF Ran, SolversInv
  <2>2. PointsAt(p, Place) \in 0..(Count - 1)
    BY <1>2, <1>5, PointsTwice
  <2>3. /\ s \in Judges /\ s.pc = "asking" /\ s.program = p /\ s.run = 2
        /\ s.first = PointsAt(p, Place) /\ s.spent = 0 /\ s.done = 0
    <3>1. 0 \in 0..RunTime /\ 2 \in 1..2
      BY SolversLimits
    <3>. QED
      BY <1>1, <2>2, <3>1 DEF Judges
  <2>. HIDE DEF s
  <2>4. RunsByItself(s)
    BY <1>2, <1>5, <2>3 DEF RunsByItself
  <2>. QED
    BY <1>1, <2>1, <2>3, <2>4, SlotGivenBack
<1>6. CASE One(p) /\ judge[j].run # 1
  <2>. DEFINE outcome == IF PointsAt(p, Relabelled(Place)) = Relabelled(judge[j].first)
                         THEN "agreed" ELSE "disagreed"
  <2>1. judge[j].run = 2 /\ judge[j].first = PointsAt(p, Place)
    BY <1>1, <1>6 DEF RunsByItself, Judges
  <2>2. outcome = IF p.kind = "follows" THEN "agreed" ELSE "disagreed"
    BY <1>2, <1>6, <2>1, PointsTwice
  <2>3. outcome \in Alone(p) /\ outcome \in Outcomes
    BY <1>3, <1>6, <2>2 DEF Outcomes
  <2>4. judge' = Verdict(j, outcome)
    BY <1>1, <1>6 DEF Ran
  <2>. HIDE DEF outcome
  <2>5. PICK s \in Judges : Verdict(j, outcome) = [judge EXCEPT ![j] = s] /\ RunsByItself(s) /\ s.pc = "ended"
    BY <1>1, <2>3, VerdictState
  <2>. QED
    BY <1>1, <2>4, <2>5, SlotGivenBack
<1>. QED
  BY <1>4, <1>5, <1>6

LEMMA RunStoppedInv == ASSUME SolversInv, NEW j \in Judged, RunStopped(j) PROVE SolversInv'
<1>. DEFINE p == judge[j].program
            outcome == IF judge[j].gone THEN "gone" ELSE "timeout"
<1>1. /\ judge[j] \in Judges /\ RunsByItself(judge[j]) /\ judge[j].pc = "running"
      /\ slots' = slots - 1 /\ judge' = Verdict(j, outcome)
  BY DEF SolversInv, RunStopped
<1>2. /\ p \in Programs /\ p.work \in Nat /\ p.kind # "oversized"
      /\ judge[j].spent = judge[j].done /\ judge[j].done <= p.work /\ judge[j].done <= Most
      /\ judge[j].done \in Nat
  BY <1>1, SolversLimits DEF RunsByItself, Programs, Judges
<1>3. outcome = "timeout" => "timeout" \in Alone(p)
  <2>. SUFFICES ASSUME outcome = "timeout" PROVE "timeout" \in Alone(p)
    OBVIOUS
  <2>1. judge[j].spent = RunTime \/ judge[j].done = StepBudget
    BY DEF RunStopped
  <2>2. p.work >= Most
    BY <1>2, <2>1, SolversLimits
  <2>3. p.work > Most \/ p.work = Most
    BY <1>2, <2>2, SolversLimits
  <2>. QED
    BY <1>2, <2>3 DEF Alone, Most
<1>4. outcome \in Outcomes /\ (outcome \notin {"busy", "gone"} => outcome \in Alone(p))
  BY <1>3 DEF Outcomes
<1>. HIDE DEF outcome
<1>5. PICK s \in Judges : Verdict(j, outcome) = [judge EXCEPT ![j] = s] /\ RunsByItself(s) /\ s.pc = "ended"
  BY <1>1, <1>4, VerdictState
<1>. QED
  BY <1>1, <1>5, SlotGivenBack

\* There is a processor for every run, so each does what its clock shows.
LEMMA WorkInv == ASSUME SolversInv, Work PROVE SolversInv'
<1>1. PICK onto \in SUBSET Running :
         /\ Cardinality(onto) = IF Cardinality(Running) < Processors THEN Cardinality(Running) ELSE Processors
         /\ judge' = [j \in Judged |->
                IF judge[j].pc = "waiting" THEN [judge[j] EXCEPT !.waited = @ + 1]
                ELSE IF j \in onto THEN [judge[j] EXCEPT !.spent = @ + 1, !.done = @ + 1]
                ELSE IF j \in Running THEN [judge[j] EXCEPT !.spent = @ + 1]
                ELSE judge[j]]
  BY DEF Work
<1>2. onto = Running
  <2>1. IsFiniteSet(Running) /\ Cardinality(Running) \in Nat /\ Cardinality(Running) <= Processors
    BY SolversLimits, FS_CardinalityType DEF SolversInv, SlotsAreInUse
  <2>2. Cardinality(onto) = Cardinality(Running)
    <3>. DEFINE n == Cardinality(Running)
    <3>1. n \in Nat /\ n <= Processors /\ Processors \in Nat
      BY <2>1, SolversLimits
    <3>2. Cardinality(onto) = IF n < Processors THEN n ELSE Processors
      BY <1>1
    <3>. HIDE DEF n
    <3>3. Cardinality(onto) = n
      BY <3>1, <3>2
    <3>. QED
      BY <3>3 DEF n
  <2>. QED
    BY <1>1, <2>1, <2>2, FS_Subset
<1>3. slots' = slots
  BY DEF Work
<1>4. ASSUME NEW j \in Judged
      PROVE  judge'[j] \in Judges /\ RunsByItself(judge'[j]) /\ judge'[j].pc = judge[j].pc
  <2>1. judge[j] \in Judges /\ RunsByItself(judge[j])
    BY DEF SolversInv
  <2>2. CASE judge[j].pc = "waiting"
    <3>. DEFINE s == [judge[j] EXCEPT !.waited = @ + 1]
    <3>1. judge'[j] = s
      BY <1>1, <2>2
    <3>2. judge[j].waited < SlotWait
      BY <2>2 DEF Work, Settled, In
    <3>3. /\ s \in Judges /\ s.pc = "waiting" /\ s.program = judge[j].program /\ s.run = judge[j].run
          /\ s.first = judge[j].first /\ s.spent = judge[j].spent /\ s.done = judge[j].done
      BY <2>1, <2>2, <3>2, SolversLimits DEF Judges
    <3>. HIDE DEF s
    <3>4. RunsByItself(s)
      BY <2>1, <2>2, <3>3 DEF RunsByItself
    <3>. QED
      BY <2>2, <3>1, <3>3, <3>4
  <2>3. CASE judge[j].pc = "running"
    <3>. DEFINE s == [judge[j] EXCEPT !.spent = @ + 1, !.done = @ + 1]
    <3>1. j \in Running /\ judge'[j] = s
      BY <1>1, <1>2, <2>3 DEF Running, In
    <3>2. /\ judge[j].spent < RunTime /\ judge[j].done < StepBudget
          /\ judge[j].done < judge[j].program.work
      BY <3>1 DEF Work, Settled
    <3>3. /\ s \in Judges /\ s.pc = "running" /\ s.program = judge[j].program /\ s.run = judge[j].run
          /\ s.first = judge[j].first /\ s.spent = judge[j].spent + 1 /\ s.done = judge[j].done + 1
      <4>1. judge[j].spent \in 0..RunTime /\ judge[j].done \in Nat
        BY <2>1 DEF Judges
      <4>2. judge[j].spent + 1 \in 0..RunTime /\ judge[j].done + 1 \in Nat
        BY <3>2, <4>1, SolversLimits
      <4>. QED
        BY <2>1, <2>3, <4>2 DEF Judges
    <3>. HIDE DEF s
    <3>4. /\ judge[j].program \in Programs /\ judge[j].program.work \in Nat /\ judge[j].done \in Nat
          /\ judge[j].spent = judge[j].done
      BY <2>1, <2>3, SolversLimits DEF RunsByItself, Programs, Judges
    <3>5. s.spent = s.done /\ s.done <= s.program.work /\ s.done <= Most
      BY <3>2, <3>3, <3>4, SolversLimits
    <3>6. RunsByItself(s)
      BY <2>1, <2>3, <3>3, <3>4, <3>5 DEF RunsByItself
    <3>. QED
      BY <2>3, <3>1, <3>3, <3>6
  <2>4. CASE judge[j].pc \notin {"waiting", "running"}
    <3>1. judge'[j] = judge[j]
      BY <1>1, <1>2, <2>4 DEF Running, In
    <3>. QED
      BY <2>1, <3>1
  <2>. QED
    BY <2>2, <2>3, <2>4
<1>5. judge' \in [Judged -> Judges]
  BY <1>1, <1>4
<1>6. Running' = Running
  BY <1>4 DEF Running, In
<1>7. \A j \in Judged : RunsByItself(judge[j])'
  BY <1>4 DEF RunsByItself
<1>. QED
  BY <1>3, <1>5, <1>6, <1>7 DEF SolversInv, SlotsAreInUse

LEMMA SolversInductive == SolversInv /\ [SolversNext]_solver_vars => SolversInv'
<1>. SUFFICES ASSUME SolversInv, [SolversNext]_solver_vars PROVE SolversInv'
  OBVIOUS
<1>1. CASE UNCHANGED solver_vars
  BY <1>1 DEF solver_vars, SolversInv, RunsByItself, Running, In, SlotsAreInUse
<1>. QED
  BY <1>1, ExamineInv, RunInv, TakeSlotInv, RefuseInv, RunEndsInv, RunStoppedInv, GiveUpAskingInv,
     WorkInv DEF SolversNext

\* For any tasks, programs and limits, with no more slots than processors, a
\* program is judged as it would be alone, and a slot is taken by each run and by
\* nothing else (Concurrency, relabel, Run).
THEOREM Verdicts == SolversSpec => []VerdictsHold
<1>1. SolversInv => VerdictsHold
  <2>. SUFFICES ASSUME SolversInv PROVE VerdictsHold
    OBVIOUS
  <2>1. SolversTypeOK
    BY DEF SolversInv, SolversTypeOK, Judges
  <2>2. VerdictIsTheProgramsOwn
    BY DEF SolversInv, RunsByItself, VerdictIsTheProgramsOwn, In
  <2>. QED
    BY <2>1, <2>2 DEF SolversInv, VerdictsHold
<1>. QED
  BY SolversInitially, SolversInductive, <1>1, PTL DEF SolversSpec

(***************************************************************************)
(* The limits of requests (Ceilings): what a key holds, against what it    *)
(* has made of it.                                                         *)
(***************************************************************************)

\* A set of numbers has a least one.
LEMMA LeastIn == ASSUME NEW T, T \subseteq Nat, T # {} PROVE \E n \in T : \A m \in T : n <= m
<1> DEFINE U == {0..n : n \in T}
<1>1. U \subseteq FiniteSubsetsOf(Nat)
  <2>1. ASSUME NEW n \in T PROVE 0..n \in FiniteSubsetsOf(Nat)
    <3>1. IsFiniteSet(0..n) BY FS_Interval
    <3>2. 0..n \in SUBSET Nat OBVIOUS
    <3> QED BY <3>1, <3>2 DEF FiniteSubsetsOf
  <2>2. QED BY <2>1
<1>2. U # {} OBVIOUS
<1>3. \E x \in U : \A y \in U : ~ (<<y, x>> \in StrictSubsetOrdering(Nat))
  <2> HIDE DEF U
  <2> QED BY <1>1, <1>2, FS_StrictSubsetOrderingWellFounded, WFMin
<1>4. PICK n \in T : \A m \in T : ~ (<<0..m, 0..n>> \in StrictSubsetOrdering(Nat)) BY <1>3
<1>5. ASSUME NEW m \in T, m < n PROVE FALSE
  <2>1. 0..m \in SUBSET Nat /\ 0..n \in SUBSET Nat BY SMTT(30)
  <2>2. 0..m \subseteq 0..n /\ 0..m # 0..n
    <3>1. n \in 0..n /\ n \notin 0..m BY <1>5
    <3> QED BY <3>1, <1>5
  <2>3. <<0..m, 0..n>> \in StrictSubsetOrdering(Nat) BY <2>1, <2>2 DEF StrictSubsetOrdering
  <2> QED BY <2>3, <1>4
<1> QED BY <1>4, <1>5

\* A pace lets at least one request in after a pause.
LEMMA PaceIs ==
  /\ OwnPace.most \in Nat /\ OwnPace.interval = OwnInterval /\ OwnInterval \in Nat \ {0}
  /\ WholePace.most \in Nat /\ WholePace.interval = WholeInterval /\ WholeInterval \in Nat \ {0}
  /\ MaxKeys \in Nat \ {0} /\ MaxMoment \in Nat /\ MaxTaken \in Nat
<1>1. OwnBurst * OwnInterval \in Nat BY PacesAreKnown
<1>2. WholeBurst * WholeInterval \in Nat BY PacesAreKnown
<1> QED BY <1>1, <1>2, PacesAreKnown DEF OwnPace, WholePace, Pace

\* What the ideal is built from, one entry after another.
EntryAt(entries, n) == IF n = 0 THEN 0 ELSE entries[n].at
NextHeld(entries, held, n) ==
    Least2(OwnPace.most, held + (EntryAt(entries, n) - EntryAt(entries, n - 1)))
        - (IF entries[n].fate = "back" THEN 0 ELSE OwnInterval)
HeldBy(entries, f, last) ==
    /\ f \in [0..last -> Int]
    /\ f[0] = OwnPace.most
    /\ \A n \in 1..last : f[n] = NextHeld(entries, f[n - 1], n)

LEMMA EntriesAt ==
  ASSUME NEW e \in Seq(LogEntries)
  PROVE  /\ Len(e) \in Nat
         /\ \A n \in 1..Len(e) : e[n].at \in Int
         /\ \A n \in 0..Len(e) : EntryAt(e, n) \in Int
<1>1. ASSUME NEW n \in 1..Len(e) PROVE e[n].at \in Int
  <2>1. e[n] \in LogEntries OBVIOUS
  <2>2. e[n].at \in 0..MaxMoment BY <2>1 DEF LogEntries
  <2> QED BY <2>2
<1>2. ASSUME NEW n \in 0..Len(e) PROVE EntryAt(e, n) \in Int BY <1>1 DEF EntryAt
<1> QED BY <1>1, <1>2

LEMMA IdealIs ==
  ASSUME NEW e \in Seq(LogEntries)
  PROVE  \E f : HeldBy(e, f, Len(e)) /\ IdealOf(e) = [held |-> f[Len(e)], at |-> EntryAt(e, Len(e))]
<1> USE PaceIs
<1> DEFINE Takes(g, n) == IF n = 0 THEN OwnPace.most
                          ELSE Least2(OwnPace.most, g[n - 1] + (EntryAt(e, n) - EntryAt(e, n - 1)))
                                   - (IF e[n].fate = "back" THEN 0 ELSE OwnInterval)
           Reached(m) == \E g \in [0..m -> Int] : \A n \in 0..m : g[n] = Takes(g, n)
           Not == {m \in 0..Len(e) : ~Reached(m)}
<1>l. Len(e) \in Nat OBVIOUS
<1>s. \A n \in 0..Len(e) : EntryAt(e, n) \in Int BY EntriesAt
<1>t. ASSUME NEW m \in 1..Len(e), NEW g, g[m - 1] \in Int
      PROVE  Takes(g, m) \in Int
  <2>1. EntryAt(e, m) \in Int /\ EntryAt(e, m - 1) \in Int BY <1>s
  <2> QED BY <2>1, <1>t DEF Least2
<1>1. ASSUME Not # {} PROVE FALSE
  <2>1. PICK m \in Not : \A k \in Not : m <= k
    <3>1. Not \subseteq Nat BY <1>l
    <3> HIDE DEF Not
    <3> QED BY <1>1, <3>1, LeastIn
  <2>2. CASE m = 0
    <3> DEFINE g == [n \in 0..0 |-> OwnPace.most]
    <3>1. g \in [0..0 -> Int] OBVIOUS
    <3>2. \A n \in 0..0 : g[n] = Takes(g, n) OBVIOUS
    <3> HIDE DEF g
    <3>3. Reached(0) BY <3>1, <3>2
    <3> QED BY <3>3, <2>2
  <2>3. CASE m # 0
    <3>1. m \in Nat /\ m - 1 \in 0..Len(e) /\ m \in 1..Len(e) BY <2>3, <1>l
    <3>2. Reached(m - 1)
      <4>1. m - 1 \notin Not
        <5> HIDE DEF Not
        <5> QED BY <2>1, <3>1
      <4> HIDE DEF Reached
      <4> QED BY <4>1, <3>1
    <3>3. PICK g \in [0..(m - 1) -> Int] : \A n \in 0..(m - 1) : g[n] = Takes(g, n) BY <3>2
    <3> DEFINE h == [n \in 0..m |-> IF n = m THEN Takes(g, m) ELSE g[n]]
    <3>4. g[m - 1] \in Int BY <3>1
    <3>5. Takes(g, m) \in Int
      <4> HIDE DEF Takes
      <4> QED BY <3>1, <3>4, <1>t
    <3>6. h \in [0..m -> Int]
      <4> HIDE DEF Takes
      <4>1. \A n \in 0..m : n # m => n \in 0..(m - 1) BY <3>1
      <4> QED BY <3>5, <4>1
    <3>7. \A n \in 0..m : h[n] = Takes(h, n)
      <4> TAKE n \in 0..m
      <4>1. CASE n = m
        <5>1. h[m - 1] = g[m - 1] BY <3>1
        <5>2. h[m] = Takes(g, m) BY <3>1
        <5> HIDE DEF h
        <5> QED BY <4>1, <5>1, <5>2
      <4>2. CASE n # m
        <5>1. n \in 0..(m - 1) BY <4>2, <3>1
        <5>2. h[n] = g[n] BY <4>2
        <5>3. n # 0 => h[n - 1] = g[n - 1] BY <5>1, <3>1
        <5>4. g[n] = Takes(g, n) BY <5>1, <3>3
        <5> HIDE DEF h
        <5> QED BY <5>2, <5>3, <5>4
      <4> QED BY <4>1, <4>2
    <3> HIDE DEF h, Takes
    <3>8. Reached(m) BY <3>6, <3>7
    <3> QED BY <3>8
  <2> QED BY <2>2, <2>3
<1>2. Reached(Len(e))
  <2> HIDE DEF Reached
  <2> QED BY <1>1, <1>l
<1> DEFINE held == CHOOSE f : f = [n \in 0..Len(e) |-> Takes(f, n)]
<1>3. PICK g \in [0..Len(e) -> Int] : \A n \in 0..Len(e) : g[n] = Takes(g, n) BY <1>2
<1>4. held = [n \in 0..Len(e) |-> Takes(held, n)]
  <2>1. g = [n \in 0..Len(e) |-> Takes(g, n)]
    <3> HIDE DEF Takes
    <3> QED BY <1>3
  <2> QED BY <2>1
<1>5. IdealOf(e) = [held |-> held[Len(e)], at |-> EntryAt(e, Len(e))] BY DEF IdealOf, EntryAt
<1>6. ASSUME NEW n \in 0..Len(e) PROVE held[n] = Takes(held, n)
  <2> HIDE DEF held, Takes
  <2> QED BY <1>4
<1>7. ASSUME {n \in 0..Len(e) : held[n] \notin Int} # {} PROVE FALSE
  <2> DEFINE Off == {n \in 0..Len(e) : held[n] \notin Int}
  <2> HIDE DEF held
  <2>1. PICK m \in Off : \A k \in Off : m <= k
    <3>1. Off \subseteq Nat /\ Off # {} BY SMTT(30), <1>l, <1>7
    <3> HIDE DEF Off
    <3> QED BY <3>1, LeastIn
  <2>2. m # 0
    <3>1. held[0] = OwnPace.most BY <1>6, <1>l
    <3> QED BY <3>1
  <2>3. m - 1 \in 0..Len(e) /\ m \in 1..Len(e) BY <2>2, <1>l
  <2>4. held[m - 1] \in Int BY <2>1, <2>3
  <2> HIDE DEF Takes
  <2>5. held[m] = Takes(held, m) BY <1>6
  <2>6. Takes(held, m) \in Int BY <2>3, <2>4, <1>t
  <2> QED BY <2>5, <2>6
<1>8. HeldBy(e, held, Len(e))
  <2> HIDE DEF held
  <2>1. \A n \in 0..Len(e) : held[n] \in Int BY <1>7
  <2>2. held = [n \in 0..Len(e) |-> held[n]]
    <3> HIDE DEF Takes
    <3> QED BY <1>4
  <2>3. held \in [0..Len(e) -> Int] BY <2>1, <2>2
  <2>4. held[0] = OwnPace.most BY <1>6, <1>l
  <2>5. \A n \in 1..Len(e) : held[n] = NextHeld(e, held[n - 1], n)
    <3> TAKE n \in 1..Len(e)
    <3>1. held[n] = Takes(held, n)
      <4> HIDE DEF Takes
      <4> QED BY <1>6
    <3> QED BY <3>1 DEF NextHeld
  <2> QED BY <2>3, <2>4, <2>5 DEF HeldBy
<1> QED BY <1>5, <1>8

\* The ideal holds no more after an entry is added, and no more than a request more
\* after one is given back.
LEMMA IdealGrows ==
  ASSUME NEW e \in Seq(LogEntries), NEW f, HeldBy(e, f, Len(e)),
         NEW d \in Seq(LogEntries), NEW g, HeldBy(d, g, Len(d)), Len(e) <= Len(d),
         NEW i \in Nat \ {0},
         \A n \in 1..Len(e) : d[n].at = e[n].at /\ (n # i /\ d[n].fate = "back" => e[n].fate = "back")
  PROVE  \A n \in 0..Len(e) : g[n] <= f[n] + (IF n < i THEN 0 ELSE OwnInterval)
<1> USE PaceIs
<1> DEFINE Fits(n) == g[n] <= f[n] + (IF n < i THEN 0 ELSE OwnInterval)
           Not == {n \in 0..Len(e) : ~Fits(n)}
<1>l. Len(e) \in Nat /\ Len(d) \in Nat BY EntriesAt
<1>1. \A n \in 0..Len(e) : f[n] \in Int /\ g[n] \in Int
  <2>1. \A n \in 0..Len(e) : n \in 0..Len(d) BY <1>l
  <2>2. f \in [0..Len(e) -> Int] /\ g \in [0..Len(d) -> Int] BY DEF HeldBy
  <2> QED BY <2>1, <2>2
<1>2. f[0] = g[0] BY DEF HeldBy
<1>s. \A n \in 0..Len(e) : EntryAt(e, n) \in Int /\ EntryAt(d, n) = EntryAt(e, n)
  <2>1. \A n \in 0..Len(e) : EntryAt(e, n) \in Int BY EntriesAt
  <2> QED BY <2>1 DEF EntryAt
<1>3. ASSUME NEW n \in 1..Len(e), Fits(n - 1) PROVE Fits(n)
  <2>1. n \in Nat /\ n - 1 \in 0..Len(e) /\ n \in 0..Len(e) /\ n \in 1..Len(d) BY <1>l
  <2>2. f[n] = NextHeld(e, f[n - 1], n) /\ g[n] = NextHeld(d, g[n - 1], n) BY <2>1 DEF HeldBy
  <2>3. PICK t \in Int : t = EntryAt(e, n) - EntryAt(e, n - 1) /\ t = EntryAt(d, n) - EntryAt(d, n - 1)
    <3>1. EntryAt(e, n) \in Int /\ EntryAt(e, n - 1) \in Int BY <1>s, <2>1
    <3>2. EntryAt(d, n) = EntryAt(e, n) /\ EntryAt(d, n - 1) = EntryAt(e, n - 1) BY <1>s, <2>1
    <3> QED BY <3>1, <3>2
  <2>4. PICK x \in Int : x = f[n - 1] BY <1>1, <2>1
  <2>5. PICK y \in Int : y = g[n - 1] BY <1>1, <2>1
  <2> DEFINE back == e[n].fate = "back"
             backIn == d[n].fate = "back"
  <2>6. f[n] = Least2(OwnPace.most, x + t) - (IF back THEN 0 ELSE OwnInterval) BY <2>2, <2>3, <2>4 DEF NextHeld
  <2>7. g[n] = Least2(OwnPace.most, y + t) - (IF backIn THEN 0 ELSE OwnInterval) BY <2>2, <2>3, <2>5 DEF NextHeld
  <2>8. n # i /\ backIn => back OBVIOUS
  <2>9. y <= x + (IF n - 1 < i THEN 0 ELSE OwnInterval) BY <1>3, <2>4, <2>5
  <2> HIDE DEF back, backIn
  <2>a. OwnPace.most \in Int /\ OwnInterval \in Nat OBVIOUS
  <2> HIDE PaceIs
  <2>10. CASE n < i
    <3>1. y <= x /\ (backIn => back) BY <2>8, <2>9, <2>10, <2>1
    <3>2. g[n] <= f[n] /\ f[n] \in Int BY <3>1, <2>6, <2>7, <2>a DEF Least2
    <3> QED BY <3>2, <2>10
  <2>11. CASE n = i
    <3>1. y <= x BY <2>9, <2>11, <2>1
    <3>2. g[n] <= f[n] + OwnInterval BY <3>1, <2>6, <2>7, <2>a DEF Least2
    <3> QED BY <3>2, <2>11
  <2>12. CASE n > i
    <3>1. y <= x + OwnInterval /\ (backIn => back) BY <2>8, <2>9, <2>12, <2>1
    <3>2. g[n] <= f[n] + OwnInterval BY <3>1, <2>6, <2>7, <2>a DEF Least2
    <3> QED BY <3>2, <2>12, <2>1
  <2> QED BY <2>10, <2>11, <2>12, <2>1
<1>4. ASSUME Not # {} PROVE FALSE
  <2>1. PICK m \in Not : \A k \in Not : m <= k
    <3>1. Not \subseteq Nat OBVIOUS
    <3> HIDE DEF Not
    <3> QED BY <1>4, <3>1, LeastIn
  <2>2. Fits(0) BY <1>1, <1>2
  <2>3. m \in 1..Len(e) /\ m - 1 \in 0..Len(e)
    <3> HIDE DEF Fits
    <3> QED BY <2>2
  <2>4. Fits(m - 1)
    <3> HIDE DEF Fits
    <3> QED BY <2>1, <2>3
  <2> HIDE DEF Fits
  <2> QED BY <1>3, <2>3, <2>4
<1> QED BY <1>4

\* Each key is in the order once.
Once(order) == \A i, j \in DOMAIN order : order[i] = order[j] => i = j

\* The order after a use: the key first, and of the others those that stay, in the
\* order they were in.
LEMMA UsedNowIs ==
  ASSUME recent \in Seq(Clients), Once(recent), Len(recent) <= MaxKeys, NEW k \in Clients
  PROVE  /\ UsedNow(k) \in Seq(Clients) /\ Once(UsedNow(k)) /\ Len(UsedNow(k)) <= MaxKeys
         /\ ToSet(UsedNow(k)) \subseteq Kept \cup {k} /\ k \in ToSet(UsedNow(k))
         /\ 1 \in DOMAIN UsedNow(k) /\ UsedNow(k)[1] = k
         /\ \A i, j \in DOMAIN UsedNow(k) : 1 < i /\ i < j =>
                \E a, b \in DOMAIN recent : a < b /\ recent[a] = UsedNow(k)[i] /\ recent[b] = UsedNow(k)[j]
         /\ \A i \in DOMAIN UsedNow(k) : 1 < i => UsedNow(k)[i] # k /\ UsedNow(k)[i] \in Kept
<1> USE PaceIs
<1> DEFINE L == Len(recent)
           others == IF k \in Kept THEN RemoveAt(recent, PlaceOf(k))
                     ELSE IF Len(recent) >= MaxKeys THEN Front(recent) ELSE recent
           from(skip, i) == IF i < skip THEN i ELSE i + 1
           used == UsedNow(k)
<1>1. L \in Nat /\ DOMAIN recent = 1..L /\ \A i \in 1..L : recent[i] \in Clients OBVIOUS
<1>2. Kept = {recent[i] : i \in 1..L} BY <1>1 DEF Kept, ToSet
<1>3. \E skip \in 1..(L + 1) :
         /\ others \in Seq(Clients) /\ Len(others) + 1 <= MaxKeys
         /\ \A i \in 1..Len(others) : /\ from(skip, i) \in 1..L /\ others[i] = recent[from(skip, i)]
                                      /\ others[i] # k
  <2>1. CASE k \in Kept
    <3>1. PICK p : p = PlaceOf(k) OBVIOUS
    <3>2. p \in 1..L /\ recent[p] = k BY <1>1, <1>2, <2>1, <3>1 DEF PlaceOf
    <3>3. others = SubSeq(recent, 1, p - 1) \o SubSeq(recent, p + 1, L) BY <2>1, <3>1 DEF RemoveAt
    <3> HIDE DEF others
    <3> DEFINE front == SubSeq(recent, 1, p - 1)
               back == SubSeq(recent, p + 1, L)
    <3>4. /\ front \in Seq(Clients) /\ Len(front) = p - 1
          /\ \A i \in 1..(p - 1) : front[i] = recent[i]
      <4>1. \A i \in 1..(p - 1) : recent[i] \in Clients BY <1>1, <3>2
      <4>2. p - 1 \in Int /\ p - 1 >= 0 BY <3>2, <1>1
      <4>3. /\ front \in Seq(Clients) /\ Len(front) = IF 1 <= p - 1 THEN p - 1 - 1 + 1 ELSE 0
            /\ \A i \in 1..(p - 1 - 1 + 1) : front[i] = recent[1 + i - 1]
        BY <4>1, <4>2, SubSeqProperties
      <4> HIDE DEF front
      <4> QED BY <4>2, <4>3, SMTT(30)
    <3>5. /\ back \in Seq(Clients) /\ Len(back) = L - p
          /\ \A i \in 1..(L - p) : back[i] = recent[p + i]
      <4>1. \A i \in (p + 1)..L : recent[i] \in Clients BY <1>1, <3>2
      <4>2. p + 1 \in Int /\ L \in Int /\ p <= L BY <3>2, <1>1
      <4>3. /\ back \in Seq(Clients) /\ Len(back) = IF p + 1 <= L THEN L - (p + 1) + 1 ELSE 0
            /\ \A i \in 1..(L - (p + 1) + 1) : back[i] = recent[p + 1 + i - 1]
        BY <4>1, <4>2, SubSeqProperties
      <4> HIDE DEF back
      <4>4. p \in Int /\ L - (p + 1) + 1 = L - p BY <4>2, <3>2
      <4>5. Len(back) = L - p
        <5>1. PICK size : size = Len(back) OBVIOUS
        <5>2. size = IF p + 1 <= L THEN L - p ELSE 0 BY <4>3, <4>4, <5>1
        <5>3. size = L - p
          <6> HIDE DEF L
          <6> QED BY <4>2, <4>4, <5>2
        <5> QED BY <5>1, <5>3
      <4>6. \A i \in 1..(L - p) : back[i] = recent[p + 1 + i - 1] BY <4>3, <4>4
      <4>7. \A i \in 1..(L - p) : p + 1 + i - 1 = p + i BY <4>2, <4>4
      <4> QED BY <4>3, <4>5, <4>6, <4>7
    <3> HIDE DEF front, back
    <3>6. /\ others \in Seq(Clients) /\ Len(others) = L - 1
          /\ \A i \in 1..(L - 1) : others[i] = IF i <= p - 1 THEN front[i] ELSE back[i - (p - 1)]
      <4>1. others = front \o back BY <3>3 DEF front, back
      <4>2. /\ others \in Seq(Clients) /\ Len(others) = Len(front) + Len(back)
            /\ \A i \in 1..(Len(front) + Len(back)) :
                  others[i] = IF i <= Len(front) THEN front[i] ELSE back[i - Len(front)]
        BY <4>1, <3>4, <3>5, ConcatProperties
      <4>3. Len(front) = p - 1 /\ Len(front) + Len(back) = L - 1 BY <3>2, <3>4, <3>5, <1>1
      <4> QED BY <4>2, <4>3
    <3>7. ASSUME NEW i \in 1..(L - 1)
          PROVE  from(p, i) \in 1..L /\ others[i] = recent[from(p, i)] /\ others[i] # k
      <4>1. CASE i < p
        <5>1. i \in 1..(p - 1) /\ i <= p - 1 BY <4>1, <3>2, <1>1
        <5>2. others[i] = recent[i] BY <5>1, <3>4, <3>6
        <5> QED BY <4>1, <5>2, <3>2, <1>1 DEF Once
      <4>2. CASE ~(i < p)
        <5>1. i - (p - 1) \in 1..(L - p) /\ ~(i <= p - 1) BY <4>2, <3>2, <1>1
        <5>2. others[i] = back[i - (p - 1)] BY <5>1, <3>6
        <5>3. others[i] = recent[p + (i - (p - 1))] BY <5>1, <5>2, <3>5
        <5>4. p + (i - (p - 1)) = i + 1 BY <3>2, <1>1
        <5>5. from(p, i) = i + 1 BY <4>2
        <5>6. i + 1 \in 1..L /\ i + 1 # p BY <4>2, <3>2, <1>1
        <5>7. recent[i + 1] # k BY <5>6, <3>2, <1>1 DEF Once
        <5> HIDE DEF from
        <5> QED BY <5>3, <5>4, <5>5, <5>6, <5>7
      <4> QED BY <4>1, <4>2
    <3>8. p \in 1..(L + 1) BY <3>2, <1>1
    <3>9. Len(others) + 1 <= MaxKeys BY <3>6, <1>1
    <3> HIDE DEF from
    <3> QED BY <3>6, <3>7, <3>8, <3>9
  <2>2. CASE k \notin Kept
    <3>1. others = IF L >= MaxKeys THEN SubSeq(recent, 1, L - 1) ELSE recent BY <2>2 DEF Front
    <3> HIDE DEF others
    <3>2. others \in Seq(Clients) /\ Len(others) <= L /\ Len(others) + 1 <= MaxKeys BY <3>1, <1>1
    <3>3. \A i \in 1..Len(others) : i \in 1..L /\ others[i] = recent[i] BY <3>1, <1>1
    <3>4. \A i \in 1..L : recent[i] # k BY <2>2, <1>2
    <3>5. \A i \in 1..Len(others) : from(L + 1, i) = i BY <3>3, <1>1
    <3>6. L + 1 \in 1..(L + 1) BY <1>1
    <3> HIDE DEF from
    <3> QED BY <3>2, <3>3, <3>4, <3>5, <3>6
  <2> QED BY <2>1, <2>2
<1>4. PICK skip \in 1..(L + 1) :
         /\ others \in Seq(Clients) /\ Len(others) + 1 <= MaxKeys
         /\ \A i \in 1..Len(others) : /\ from(skip, i) \in 1..L /\ others[i] = recent[from(skip, i)]
                                      /\ others[i] # k
  BY <1>3
<1>5. used = <<k>> \o others BY DEF UsedNow
<1> HIDE DEF others, used
<1>6. used \in Seq(Clients) /\ Len(used) = Len(others) + 1 /\ Len(others) \in Nat BY <1>4, <1>5
<1>7. used[1] = k BY <1>4, <1>5
<1>8. \A i \in 2..Len(used) : used[i] = others[i - 1] BY <1>4, <1>5
<1>9. ASSUME NEW i \in 2..Len(used)
      PROVE  from(skip, i - 1) \in 1..L /\ used[i] = recent[from(skip, i - 1)] /\ used[i] # k
  <2>1. i - 1 \in 1..Len(others) BY <1>6
  <2> HIDE DEF from
  <2> QED BY <2>1, <1>4, <1>8
<1>10. DOMAIN used = 1..Len(used) BY <1>6
<1>11. \A i \in 1..Len(used) : i = 1 \/ i \in 2..Len(used) BY <1>6
<1>12. ASSUME NEW i \in DOMAIN used, NEW j \in DOMAIN used, used[i] = used[j] PROVE i = j
  <2>1. CASE i = 1 \/ j = 1 BY <2>1, <1>7, <1>9, <1>10, <1>11, <1>12
  <2>2. CASE i \in 2..Len(used) /\ j \in 2..Len(used)
    <3>1. from(skip, i - 1) = from(skip, j - 1) BY <2>2, <1>9, <1>12, <1>1 DEF Once
    <3> QED BY <3>1, <2>2, <1>6
  <2> QED BY <2>1, <2>2, <1>10, <1>11
<1>13. ASSUME NEW i \in DOMAIN used, NEW j \in DOMAIN used, 1 < i, i < j
       PROVE  \E a, b \in DOMAIN recent : a < b /\ recent[a] = used[i] /\ recent[b] = used[j]
  <2>1. i \in 2..Len(used) /\ j \in 2..Len(used) BY <1>10, <1>13, <1>6
  <2>2. from(skip, i - 1) < from(skip, j - 1) BY <2>1, <1>13, <1>6
  <2> HIDE DEF from
  <2> QED BY <2>1, <2>2, <1>9, <1>1
<1>14. ASSUME NEW i \in DOMAIN used, 1 < i PROVE used[i] # k /\ used[i] \in Kept
  <2>1. i \in 2..Len(used) BY <1>10, <1>14, <1>6
  <2> HIDE DEF from
  <2> QED BY <2>1, <1>9, <1>2
<1>15. ToSet(used) \subseteq Kept \cup {k} /\ k \in ToSet(used)
  <2>1. 1 \in DOMAIN used BY <1>6, <1>10
  <2>2. \A i \in DOMAIN used : used[i] \in Kept \cup {k} BY <1>7, <1>14, <1>10, <1>11
  <2> QED BY <2>1, <2>2, <1>7 DEF ToSet
<1>16. 1 \in DOMAIN used BY <1>6, <1>10
<1> QED BY <1>4, <1>6, <1>7, <1>12, <1>13, <1>14, <1>15, <1>16 DEF Once, used

\* As many keys are kept as are in the order.
LEMMA OnceCounts ==
  ASSUME recent \in Seq(Clients), Once(recent)
  PROVE  Len(recent) = Cardinality(Kept)
<1>1. Len(recent) \in Nat /\ DOMAIN recent = 1..Len(recent) OBVIOUS
<1>2. IsFiniteSet(1..Len(recent)) /\ Cardinality(1..Len(recent)) = Len(recent) BY <1>1, FS_Interval
<1>3. recent \in Bijection(1..Len(recent), Kept)
  <2>1. recent \in [1..Len(recent) -> Kept] BY <1>1 DEF Kept, ToSet
  <2>2. \A i \in Kept : \E n \in 1..Len(recent) : recent[n] = i BY <1>1 DEF Kept, ToSet
  <2>3. IsInjective(recent) BY <1>1 DEF IsInjective, Once
  <2> QED BY <2>1, <2>2, <2>3 DEF Bijection, Injection, Surjection
<1>4. ExistsBijection(1..Len(recent), Kept) BY <1>3 DEF ExistsBijection
<1> QED BY <1>2, <1>4, FS_Bijection

-----------------------------------------------------------------------------
\* The requests that went ahead from the n-th to the m-th, and those given back
\* meanwhile that were let in before.
GoneBy(entries, n, m) == {i \in n..m : entries[i].fate # "back"}
GivenBy(given, n, m) == {i \in DOMAIN given : given[i].nth < n /\ given[i].after \in n..(m - 1)}

\* What a key was let in for and what it holds never come to more than its pace gives.
Owed(a, entries, given) ==
    \A n \in DOMAIN entries :
        (Cardinality(GoneBy(entries, n, Len(entries))) - Cardinality(GivenBy(given, n, Len(entries) + 1)))
             * OwnInterval + a.held <= OwnPace.most + (a.at - entries[n].at)
Paced(entries, given) ==
    \A n, m \in DOMAIN entries : n <= m =>
        (Cardinality(GoneBy(entries, n, m)) - Cardinality(GivenBy(given, n, m))) * OwnInterval
            <= OwnPace.most + (entries[m].at - entries[n].at)
\* A key holds what it would hold by the requests that were not given back, at least.
Whole(a, entries) ==
    \A f : HeldBy(entries, f, Len(entries)) =>
        a.held >= Least2(OwnPace.most, f[Len(entries)] + (a.at - EntryAt(entries, Len(entries))))

Fair(a, entries, given) ==
    /\ a \in Allowances(OwnPace)
    /\ entries \in Seq(LogEntries) /\ Len(entries) <= MaxTaken
    /\ given \in Seq(ReturnEntries)
    /\ \A n \in DOMAIN entries : entries[n].at <= a.at
    /\ Owed(a, entries, given) /\ Paced(entries, given) /\ Whole(a, entries)

\* The sets counted are finite, and numbers count them.
LEMMA Counts ==
  ASSUME NEW e \in Seq(LogEntries), NEW g \in Seq(ReturnEntries), NEW n \in 1..Len(e), NEW m \in 0..Len(e)
  PROVE  /\ IsFiniteSet(GoneBy(e, n, m)) /\ Cardinality(GoneBy(e, n, m)) \in Nat
         /\ \A o : IsFiniteSet(GivenBy(g, n, o)) /\ Cardinality(GivenBy(g, n, o)) \in Nat
<1>1. Len(e) \in Nat /\ Len(g) \in Nat /\ DOMAIN g = 1..Len(g) OBVIOUS
<1>2. IsFiniteSet(n..m)
  <2>1. n \in Int /\ m \in Int BY <1>1
  <2> QED BY <2>1, FS_Interval
<1>3. IsFiniteSet(1..Len(g)) BY <1>1, FS_Interval
<1>4. GoneBy(e, n, m) \in SUBSET (n..m) BY DEF GoneBy
<1>5. \A o : GivenBy(g, n, o) \in SUBSET (1..Len(g)) BY <1>1 DEF GivenBy
<1>6. IsFiniteSet(GoneBy(e, n, m)) BY <1>2, <1>4, FS_Subset
<1>7. \A o : IsFiniteSet(GivenBy(g, n, o)) BY <1>3, <1>5, FS_Subset
<1> QED BY <1>6, <1>7, FS_CardinalityType

\* More that came back is more.
LEMMA LeastMoves ==
  ASSUME NEW most \in Int, NEW held \in Int, NEW x \in Int, NEW d \in Nat, held >= Least2(most, x)
  PROVE  Least2(most, held + d) \in Int /\ Least2(most, x + d) \in Int
         /\ Least2(most, held + d) >= Least2(most, x + d)
BY DEF Least2

\* A key nobody has used has all its pace allows.
LEMMA FairBegins ==
  ASSUME moment \in 0..MaxMoment
  PROVE  Fair(Full(OwnPace), <<>>, <<>>)
<1> USE PaceIs
<1>1. Full(OwnPace) \in Allowances(OwnPace) BY DEF Full, Allowances
<1>2. <<>> \in Seq(LogEntries) /\ <<>> \in Seq(ReturnEntries) /\ Len(<<>>) = 0 OBVIOUS
<1>3. DOMAIN <<>> = {} OBVIOUS
<1>4. Whole(Full(OwnPace), <<>>)
  <2> SUFFICES ASSUME NEW f, HeldBy(<<>>, f, 0)
               PROVE  OwnPace.most >= Least2(OwnPace.most, f[0] + (moment - EntryAt(<<>>, 0)))
    BY <1>2 DEF Whole, Full
  <2>1. f[0] = OwnPace.most /\ EntryAt(<<>>, 0) = 0 BY DEF HeldBy, EntryAt
  <2> QED BY <2>1 DEF Least2
<1> QED BY <1>1, <1>2, <1>3, <1>4 DEF Fair, Owed, Paced

\* Time that comes back takes nothing from what holds.
LEMMA FairCaughtUp ==
  ASSUME NEW a, NEW e, NEW g, Fair(a, e, g), moment \in 0..MaxMoment, a.at <= moment
  PROVE  /\ Fair(CaughtUp(a, OwnPace), e, g) /\ CaughtUp(a, OwnPace).at = moment
<1> USE PaceIs
<1> DEFINE b == CaughtUp(a, OwnPace)
           L == Len(e)
<1>1. a.held \in Int /\ a.at \in Int /\ 0 <= a.held /\ a.held <= OwnPace.most /\ 0 <= a.at /\ moment \in Int
  BY DEF Fair, Allowances
<1>a. a = [held |-> a.held, at |-> a.at] BY DEF Fair, Allowances
<1>2. b = [held |-> Least2(OwnPace.most, a.held + (moment - a.at)), at |-> moment]
  <2>1. CASE moment > a.at BY <2>1 DEF CaughtUp
  <2>2. CASE moment = a.at
    <3>1. b = a BY <2>2, <1>1 DEF CaughtUp
    <3>2. Least2(OwnPace.most, a.held + (moment - a.at)) = a.held BY <2>2, <1>1 DEF Least2
    <3> QED BY <3>1, <3>2, <2>2, <1>a
  <2> QED BY <2>1, <2>2, <1>1
<1>3. PICK h \in Int : h = b.held /\ h = Least2(OwnPace.most, a.held + (moment - a.at)) BY <1>1, <1>2 DEF Least2
<1>4. b.at = moment BY <1>2
<1>5. h <= OwnPace.most /\ 0 <= h /\ h <= a.held + (moment - a.at) BY <1>1, <1>3 DEF Least2
<1>6. b \in Allowances(OwnPace) BY <1>2, <1>3, <1>5 DEF Allowances
<1>7. L \in Nat /\ e \in Seq(LogEntries) /\ DOMAIN e = 1..L /\ g \in Seq(ReturnEntries) BY DEF Fair
<1>8. \A n \in DOMAIN e : e[n].at \in Int /\ e[n].at <= moment
  BY <1>1, <1>7, EntriesAt DEF Fair
<1> HIDE DEF b
<1>9. Owed(b, e, g)
  <2> SUFFICES ASSUME NEW n \in DOMAIN e
               PROVE  (Cardinality(GoneBy(e, n, L)) - Cardinality(GivenBy(g, n, L + 1))) * OwnInterval + h
                          <= OwnPace.most + (moment - e[n].at)
    BY <1>3, <1>4 DEF Owed
  <2>1. Cardinality(GoneBy(e, n, L)) \in Nat /\ Cardinality(GivenBy(g, n, L + 1)) \in Nat BY <1>7, Counts
  <2>2. PICK d \in Int : d = (Cardinality(GoneBy(e, n, L)) - Cardinality(GivenBy(g, n, L + 1))) * OwnInterval BY <2>1
  <2>3. d + a.held <= OwnPace.most + (a.at - e[n].at) BY <2>2 DEF Fair, Owed
  <2>4. e[n].at \in Int BY <1>8
  <2>5. d + h <= OwnPace.most + (moment - e[n].at) BY <2>3, <2>4, <1>1, <1>5
  <2> QED BY <2>2, <2>5
<1>10. Whole(b, e)
  <2> SUFFICES ASSUME NEW f, HeldBy(e, f, L)
               PROVE  h >= Least2(OwnPace.most, f[L] + (moment - EntryAt(e, L)))
    BY <1>3, <1>4 DEF Whole
  <2>1. f[L] \in Int BY <1>7 DEF HeldBy
  <2>2. EntryAt(e, L) \in Int BY <1>7, EntriesAt
  <2>3. a.held >= Least2(OwnPace.most, f[L] + (a.at - EntryAt(e, L))) BY DEF Fair, Whole
  <2>4. PICK x \in Int, t \in Int : x = f[L] /\ t = EntryAt(e, L) BY <2>1, <2>2
  <2>5. PICK d \in Nat : d = moment - a.at BY <1>1
  <2>6. a.held >= Least2(OwnPace.most, x + (a.at - t)) BY <2>3, <2>4
  <2>7. Least2(OwnPace.most, a.held + d) >= Least2(OwnPace.most, x + (a.at - t) + d)
    <3>1. PICK y \in Int, z \in Int : y = a.held /\ z = x + (a.at - t) BY <1>1
    <3>2. y >= Least2(OwnPace.most, z) BY <3>1, <2>6
    <3>3. OwnPace.most \in Int OBVIOUS
    <3>4. Least2(OwnPace.most, y + d) >= Least2(OwnPace.most, z + d) BY <3>2, <3>3, LeastMoves
    <3> QED BY <3>1, <3>4
  <2>8. x + (a.at - t) + d = x + (moment - t) BY <2>5, <1>1
  <2> QED BY <2>4, <2>5, <2>7, <2>8, <1>3
<1> QED BY <1>4, <1>6, <1>7, <1>8, <1>9, <1>10 DEF Fair, b

\* A request let in is one more that is not given back, and costs an interval.
UnderWay == [at |-> moment, fate |-> "under way"]

\* What was let in before is as it was.
LEMMA SameBefore ==
  ASSUME NEW e \in Seq(LogEntries), NEW d \in Seq(LogEntries),
         \A n \in 1..Len(e) : d[n].fate # "back" <=> e[n].fate # "back",
         NEW n \in 1..Len(e), NEW m \in 0..Len(e)
  PROVE  GoneBy(d, n, m) = GoneBy(e, n, m)
<1>1. Len(e) \in Nat OBVIOUS
<1>2. \A i \in n..m : i \in 1..Len(e) BY <1>1
<1> QED BY <1>2 DEF GoneBy

LEMMA FairSpent ==
  ASSUME NEW a, NEW e, NEW g, Fair(a, e, g), moment \in 0..MaxMoment, a.at <= moment,
         LetsIn(a, OwnPace), Len(e) < MaxTaken
  PROVE  /\ Fair(Spent(a, OwnPace), Append(e, UnderWay), g) /\ Spent(a, OwnPace).at = moment
<1> USE PaceIs
<1> DEFINE b == CaughtUp(a, OwnPace)
           s == Spent(a, OwnPace)
           d == Append(e, UnderWay)
           L == Len(e)
<1>1. Fair(b, e, g) /\ b.at = moment BY FairCaughtUp
<1>2. b \in Allowances(OwnPace) /\ b.held >= OwnInterval BY <1>1 DEF Fair, LetsIn
<1>b. moment \in Int OBVIOUS
<1>3. s = [held |-> b.held - OwnInterval, at |-> moment]
  <2>1. s = [b EXCEPT !.held = @ - OwnInterval] BY DEF Spent
  <2> HIDE DEF b, s
  <2> QED BY <2>1, <1>1, <1>2 DEF Allowances
<1>4. b.held \in Int /\ b.held <= OwnPace.most /\ b.held >= 0 BY <1>2 DEF Allowances
<1>5. s \in Allowances(OwnPace) BY <1>2, <1>3, <1>b, <1>4 DEF Allowances
<1>6. L \in Nat /\ e \in Seq(LogEntries) /\ DOMAIN e = 1..L /\ g \in Seq(ReturnEntries) BY DEF Fair
<1>7. UnderWay \in LogEntries BY DEF UnderWay, LogEntries
<1>8. d \in Seq(LogEntries) /\ Len(d) = L + 1 /\ DOMAIN d = 1..(L + 1) BY <1>6, <1>7
<1>9. d[L + 1] = UnderWay /\ \A n \in 1..L : d[n] = e[n] BY <1>6, <1>7
<1>10. \A n \in 1..L : e[n].at \in Int /\ e[n].at <= moment
  BY <1>1, <1>6, EntriesAt DEF Fair
<1>11. \A n \in 1..(L + 1) : n \in 1..L \/ n = L + 1 BY <1>6
<1> HIDE DEF b, s, d
<1>12. d[L + 1].at = moment /\ d[L + 1].fate = "under way"
  <2>1. UnderWay.at = moment /\ UnderWay.fate = "under way" BY DEF UnderWay
  <2> QED BY <2>1, <1>9
<1>a. s.at = moment /\ s.held = b.held - OwnInterval /\ s.held \in Nat /\ s.held <= OwnPace.most - OwnInterval
  <2>1. s.at = moment /\ s.held = b.held - OwnInterval BY <1>3, <1>b
  <2> QED BY <2>1, <1>2, <1>4
<1>13. \A n \in DOMAIN d : d[n].at <= s.at
  <2>1. \A n \in 1..L : d[n].at <= moment BY <1>9, <1>10
  <2>2. d[L + 1].at <= moment
    <3>1. PICK x : x = d[L + 1].at OBVIOUS
    <3>2. x = moment BY <1>12, <3>1
    <3>3. x <= moment BY <3>2, <1>b
    <3> QED BY <3>3, <3>1
  <2>3. \A n \in 1..(L + 1) : d[n].at <= moment BY <1>11, <2>1, <2>2
  <2> QED BY <1>a, <1>8, <2>3
<1>14. ASSUME NEW n \in 1..L
       PROVE  /\ GoneBy(d, n, L + 1) = GoneBy(e, n, L) \cup {L + 1}
              /\ Cardinality(GoneBy(d, n, L + 1)) = Cardinality(GoneBy(e, n, L)) + 1
              /\ Cardinality(GoneBy(e, n, L)) \in Nat
  <2>1. L + 1 \notin GoneBy(e, n, L) BY <1>6 DEF GoneBy
  <2>2. GoneBy(d, n, L + 1) = GoneBy(e, n, L) \cup {L + 1}
    <3>1. \A i \in n..(L + 1) : i = L + 1 \/ (i \in n..L /\ i \in 1..L) BY <1>6
    <3>2. \A i \in n..L : i \in n..(L + 1) /\ i \in 1..L BY <1>6
    <3>3. L + 1 \in n..(L + 1) BY <1>6
    <3>4. "under way" # "back" OBVIOUS
    <3>5. \A i \in 1..L : d[i].fate = e[i].fate BY <1>9
    <3> QED BY <3>1, <3>2, <3>3, <3>4, <3>5, <1>12 DEF GoneBy
  <2>3. IsFiniteSet(GoneBy(e, n, L)) /\ Cardinality(GoneBy(e, n, L)) \in Nat
    <3>1. L \in 0..L BY <1>6
    <3> QED BY <3>1, <1>6, Counts
  <2> QED BY <2>1, <2>2, <2>3, FS_AddElement
<1>15. GoneBy(d, L + 1, L + 1) = {L + 1} /\ Cardinality(GoneBy(d, L + 1, L + 1)) = 1
  <2>1. (L + 1)..(L + 1) = {L + 1} BY <1>6
  <2>2. GoneBy(d, L + 1, L + 1) = {L + 1} BY <2>1, <1>12 DEF GoneBy
  <2> QED BY <2>2, FS_Singleton
<1>16. \A n, o : IsFiniteSet(GivenBy(g, n, o)) /\ Cardinality(GivenBy(g, n, o)) \in Nat
  <2>1. Len(g) \in Nat /\ DOMAIN g = 1..Len(g) BY <1>6
  <2>2. \A n, o : GivenBy(g, n, o) \in SUBSET (1..Len(g)) BY <2>1 DEF GivenBy
  <2>3. IsFiniteSet(1..Len(g)) BY <2>1, FS_Interval
  <2> QED BY <2>2, <2>3, FS_Subset, FS_CardinalityType
<1>17. \A n : Cardinality(GivenBy(g, n, L + 1)) <= Cardinality(GivenBy(g, n, L + 2))
  <2> TAKE n
  <2>1. GivenBy(g, n, L + 1) \in SUBSET GivenBy(g, n, L + 2)
    <3>1. \A i \in DOMAIN g : g[i].after \in n..((L + 1) - 1) => g[i].after \in n..((L + 2) - 1)
      <4>1. (L + 1) - 1 = L /\ (L + 2) - 1 = L + 1 BY <1>6
      <4>2. \A x \in n..L : x \in n..(L + 1) BY <1>6
      <4> QED BY <4>1, <4>2
    <3> QED BY <3>1 DEF GivenBy
  <2> QED BY <2>1, <1>16, FS_Subset
<1>18. ASSUME NEW n \in 1..L
       PROVE  (Cardinality(GoneBy(d, n, L + 1)) - Cardinality(GivenBy(g, n, L + 1))) * OwnInterval + s.held
                  <= OwnPace.most + (moment - d[n].at)
  <2>1. PICK p \in Nat, q \in Nat : p = Cardinality(GoneBy(e, n, L)) /\ q = Cardinality(GivenBy(g, n, L + 1))
    BY <1>14, <1>16
  <2>2. (p - q) * OwnInterval + b.held <= OwnPace.most + (moment - e[n].at)
    BY <2>1, <1>1, <1>6 DEF Fair, Owed
  <2>3. Cardinality(GoneBy(d, n, L + 1)) = p + 1 BY <2>1, <1>14
  <2>4. s.held = b.held - OwnInterval /\ d[n].at = e[n].at BY <1>3, <1>b, <1>9
  <2>5. (p + 1 - q) * OwnInterval = (p - q) * OwnInterval + OwnInterval OBVIOUS
  <2>6. (p + 1 - q) * OwnInterval + (b.held - OwnInterval) = (p - q) * OwnInterval + b.held
    <3>1. (p - q) * OwnInterval \in Int OBVIOUS
    <3> QED BY <2>5, <3>1, <1>4
  <2> QED BY <2>1, <2>2, <2>3, <2>4, <2>6
<1>19. Owed(s, d, g)
  <2> SUFFICES ASSUME NEW n \in 1..(L + 1)
               PROVE  (Cardinality(GoneBy(d, n, L + 1)) - Cardinality(GivenBy(g, n, L + 2))) * OwnInterval + s.held
                          <= OwnPace.most + (moment - d[n].at)
    BY <1>3, <1>b, <1>6, <1>8 DEF Owed
  <2>1. CASE n \in 1..L
    <3>1. PICK p \in Nat, q \in Nat, r \in Nat :
             /\ p = Cardinality(GoneBy(d, n, L + 1)) /\ q = Cardinality(GivenBy(g, n, L + 1))
             /\ r = Cardinality(GivenBy(g, n, L + 2))
      <4>1. Cardinality(GoneBy(d, n, L + 1)) \in Nat BY <2>1, <1>14
      <4> QED BY <4>1, <1>16
    <3>2. q <= r BY <3>1, <1>17
    <3>3. (p - r) * OwnInterval <= (p - q) * OwnInterval BY <3>2
    <3>4. (p - q) * OwnInterval + s.held <= OwnPace.most + (moment - d[n].at) BY <2>1, <1>18, <3>1
    <3>5. (p - r) * OwnInterval \in Int /\ (p - q) * OwnInterval \in Int OBVIOUS
    <3>6. s.held \in Int /\ d[n].at \in Int BY <2>1, <1>a, <1>9, <1>10
    <3>7. (p - r) * OwnInterval + s.held <= OwnPace.most + (moment - d[n].at)
      <4>1. PICK u \in Int, v \in Int, h \in Int, t \in Int :
               u = (p - r) * OwnInterval /\ v = (p - q) * OwnInterval /\ h = s.held /\ t = d[n].at
        BY <3>5, <3>6
      <4>2. u <= v /\ v + h <= OwnPace.most + (moment - t) BY <3>3, <3>4, <4>1
      <4>3. u + h <= OwnPace.most + (moment - t) BY <4>2, <1>b
      <4> QED BY <4>1, <4>3
    <3> QED BY <3>1, <3>7
  <2>2. CASE n = L + 1
    <3>1. PICK r \in Nat : r = Cardinality(GivenBy(g, n, L + 2)) BY <1>16
    <3>2. (1 - r) * OwnInterval <= OwnInterval BY <3>1
    <3>3. (1 - r) * OwnInterval \in Int OBVIOUS
    <3>4. (1 - r) * OwnInterval + s.held <= OwnPace.most + (moment - d[n].at)
      <4>1. PICK x : x = d[n].at OBVIOUS
      <4>2. x = moment BY <2>2, <4>1, <1>12
      <4>3. (1 - r) * OwnInterval + s.held <= OwnPace.most + (moment - x) BY <3>2, <3>3, <4>2, <1>a, <1>b, SMTT(30)
      <4> QED BY <4>1, <4>3
    <3> QED BY <2>2, <3>1, <3>4, <1>15
  <2> QED BY <2>1, <2>2, <1>11
<1>20. Paced(d, g)
  <2> SUFFICES ASSUME NEW n \in 1..(L + 1), NEW m \in 1..(L + 1), n <= m
               PROVE  (Cardinality(GoneBy(d, n, m)) - Cardinality(GivenBy(g, n, m))) * OwnInterval
                          <= OwnPace.most + (d[m].at - d[n].at)
    BY <1>8 DEF Paced
  <2>1. CASE m \in 1..L
    <3>1. n \in 1..L /\ m \in 0..L BY <2>1, <1>6
    <3>2. GoneBy(d, n, m) = GoneBy(e, n, m)
      <4>1. \A i \in 1..Len(e) : d[i].fate # "back" <=> e[i].fate # "back" BY <1>9
      <4> QED BY <4>1, <3>1, <1>6, <1>8, SameBefore
    <3>3. d[m] = e[m] /\ d[n] = e[n] BY <2>1, <3>1, <1>9
    <3>4. (Cardinality(GoneBy(e, n, m)) - Cardinality(GivenBy(g, n, m))) * OwnInterval
               <= OwnPace.most + (e[m].at - e[n].at)
      BY <2>1, <3>1, <1>6 DEF Fair, Paced
    <3> QED BY <3>2, <3>3, <3>4
  <2>2. CASE m = L + 1 /\ n \in 1..L
    <3>1. PICK p \in Nat, q \in Nat :
             p = Cardinality(GoneBy(d, n, L + 1)) /\ q = Cardinality(GivenBy(g, n, L + 1))
      BY <2>2, <1>14, <1>16
    <3>2. (p - q) * OwnInterval + s.held <= OwnPace.most + (moment - d[n].at) BY <2>2, <1>18, <3>1
    <3>3. (p - q) * OwnInterval \in Int /\ s.held \in Nat /\ d[n].at \in Int
      <4>1. d[n].at \in Int BY <2>2, <1>9, <1>10
      <4> QED BY <4>1, <1>a
    <3>4. (p - q) * OwnInterval <= OwnPace.most + (moment - d[n].at)
      <4>1. PICK u \in Int, h \in Nat, t \in Int :
               u = (p - q) * OwnInterval /\ h = s.held /\ t = d[n].at
        BY <3>3
      <4>2. u + h <= OwnPace.most + (moment - t) BY <3>2, <4>1
      <4>3. u <= OwnPace.most + (moment - t) BY <4>2, <1>b
      <4> QED BY <4>1, <4>3
    <3> QED BY <2>2, <3>1, <3>4, <1>12
  <2>3. CASE m = L + 1 /\ n = L + 1
    <3>1. PICK q \in Nat : q = Cardinality(GivenBy(g, n, m)) BY <1>16
    <3>2. (1 - q) * OwnInterval <= OwnInterval BY <3>1
    <3>3. (1 - q) * OwnInterval \in Int OBVIOUS
    <3>4. d[m].at - d[n].at = 0
      <4>1. PICK x : x = d[L + 1].at OBVIOUS
      <4>2. x \in Int BY <4>1, <1>b, <1>12
      <4>3. x - x = 0 BY <4>2
      <4> QED BY <2>3, <4>1, <4>3
    <3>5. (1 - q) * OwnInterval <= OwnPace.most + (d[m].at - d[n].at) BY <3>2, <3>3, <3>4, <1>2, <1>4
    <3> QED BY <2>3, <3>1, <3>5, <1>15
  <2> QED BY <2>1, <2>2, <2>3, <1>11
<1>21. Whole(s, d)
  <2> SUFFICES ASSUME NEW f, HeldBy(d, f, L + 1)
               PROVE  s.held >= Least2(OwnPace.most, f[L + 1] + (moment - EntryAt(d, L + 1)))
    BY <1>3, <1>b, <1>8 DEF Whole
  <2>1. PICK h : HeldBy(e, h, L) BY <1>6, IdealIs
  <2>2. f[L] <= h[L]
    <3>1. \A n \in 1..L : d[n].at = e[n].at /\ (n # L + 1 /\ d[n].fate = "back" => e[n].fate = "back") BY <1>9
    <3>2. L + 1 \in Nat \ {0} /\ Len(e) <= Len(d) /\ HeldBy(d, f, Len(d)) BY <1>6, <1>8
    <3>3. \A n \in 0..L : f[n] <= h[n] + (IF n < L + 1 THEN 0 ELSE OwnInterval)
      BY <3>1, <3>2, <2>1, <1>6, <1>8, IdealGrows
    <3>4. L \in 0..L /\ L < L + 1 BY <1>6
    <3>5. h[L] \in Int BY <2>1, <3>4 DEF HeldBy
    <3>6. f[L] <= h[L] + 0 BY <3>3, <3>4
    <3> QED BY <3>5, <3>6
  <2>3. f[L] \in Int /\ h[L] \in Int /\ f[L + 1] = NextHeld(d, f[L], L + 1)
    <3>1. L \in 0..(L + 1) /\ L + 1 \in 1..(L + 1) /\ (L + 1) - 1 = L /\ L \in 0..L BY <1>6
    <3> QED BY <3>1, <2>1 DEF HeldBy
  <2>4. b.held >= Least2(OwnPace.most, h[L] + (moment - EntryAt(e, L))) BY <1>1, <2>1 DEF Fair, Whole
  <2>5. EntryAt(d, L + 1) = moment /\ EntryAt(d, L) = EntryAt(e, L) /\ EntryAt(e, L) \in Int
    <3>1. EntryAt(e, L) \in Int
      <4>1. L \in 0..L BY <1>6
      <4> QED BY <4>1, <1>6, EntriesAt
    <3>2. EntryAt(d, L) = EntryAt(e, L)
      <4>1. L # 0 => L \in 1..L BY <1>6
      <4> QED BY <4>1, <1>9 DEF EntryAt
    <3>3. L + 1 # 0 BY <1>6
    <3> QED BY <3>1, <3>2, <3>3, <1>12 DEF EntryAt
  <2>6. f[L + 1] = Least2(OwnPace.most, f[L] + (moment - EntryAt(e, L))) - OwnInterval
    <3>1. (L + 1) - 1 = L BY <1>6
    <3> QED BY <3>1, <2>3, <2>5, <1>12 DEF NextHeld
  <2>7. PICK x \in Int, y \in Int, t \in Int : x = f[L] /\ y = h[L] /\ t = moment - EntryAt(e, L) BY <2>3, <2>5, <1>3, <1>b
  <2>8. b.held >= f[L + 1] + OwnInterval
    <3>1. b.held >= Least2(OwnPace.most, y + t) /\ x <= y BY <2>2, <2>4, <2>7
    <3>2. f[L + 1] = Least2(OwnPace.most, x + t) - OwnInterval BY <2>6, <2>7
    <3>3. Least2(OwnPace.most, x + t) <= b.held /\ Least2(OwnPace.most, x + t) \in Int BY <3>1, <1>4 DEF Least2
    <3> QED BY <3>2, <3>3, <1>4
  <2>9. f[L + 1] \in Int BY <2>6, <2>7 DEF Least2
  <2>10. s.held >= f[L + 1] + (moment - EntryAt(d, L + 1)) BY <2>5, <2>8, <2>9, <1>3, <1>b, <1>4
  <2>11. f[L + 1] + (moment - EntryAt(d, L + 1)) \in Int BY <2>5, <2>9, <1>3, <1>b
  <2> QED BY <2>10, <2>11, <1>3, <1>b, <1>4 DEF Least2
<1> QED BY <1>3, <1>b, <1>5, <1>6, <1>8, <1>13, <1>19, <1>20, <1>21 DEF Fair, s, d

\* What became of a request that is logged.
Becoming(entries, i, what) == IF i = 0 THEN entries ELSE [entries EXCEPT ![i].fate = what]

\* A request under way is the i-th, or one of a key forgotten since.
Pending(entries, i) == i <= Len(entries) /\ (i # 0 => entries[i].fate = "under way")

LEMMA PendingIs ==
  ASSUME NEW e \in Seq(LogEntries), NEW i \in Nat, Pending(e, i)
  PROVE  /\ i <= Len(e) /\ i \in 0..Len(e)
         /\ i # 0 => i \in 1..Len(e) /\ e[i].fate = "under way"
<1>1. i <= Len(e) BY Zenon DEF Pending
<1>2. i # 0 => e[i].fate = "under way" BY Zenon DEF Pending
<1>3. Len(e) \in Nat OBVIOUS
<1>4. i \in 0..Len(e) BY <1>1, <1>3
<1>5. i # 0 => i \in 1..Len(e) BY <1>1, <1>3
<1> QED BY <1>1, <1>2, <1>4, <1>5

LEMMA Between == ASSUME NEW i \in Nat \ {0}, NEW l \in Nat, i <= l PROVE i \in 1..l OBVIOUS
LEMMA SameLength == ASSUME NEW p \in Nat, NEW q \in Nat, 1..p = 1..q PROVE p = q
<1>1. Cardinality(1..p) = p /\ Cardinality(1..q) = q BY FS_Interval
<1> QED BY <1>1

\* An entry is an entry still when its fate is another.
LEMMA EntryBecomes ==
  ASSUME NEW x \in LogEntries, NEW what \in {"under way", "ahead", "back"},
         NEW y, y = [x EXCEPT !.fate = what]
  PROVE  y \in LogEntries /\ y.fate = what /\ y.at = x.at
BY DEF LogEntries

LEMMA BecomingAt ==
  ASSUME NEW e \in Seq(LogEntries), NEW i \in Nat \ {0}, i <= Len(e), NEW what \in {"under way", "ahead", "back"}
  PROVE  /\ Becoming(e, i, what) \in Seq(LogEntries) /\ Len(Becoming(e, i, what)) = Len(e)
         /\ \A n \in 1..Len(e) : /\ Becoming(e, i, what)[n].at = e[n].at
                                 /\ n # i => Becoming(e, i, what)[n].fate = e[n].fate
         /\ Becoming(e, i, what)[i].fate = what
<1> DEFINE d == Becoming(e, i, what)
<1>0. d = [e EXCEPT ![i] = [e[i] EXCEPT !.fate = what]]
  <2>1. i # 0 OBVIOUS
  <2> QED BY <2>1, Zenon DEF Becoming
<1> HIDE DEF d
<1>b. Len(e) \in Nat BY LenProperties
<1>c. DOMAIN e = 1..Len(e) /\ e \in [1..Len(e) -> LogEntries] BY LenProperties
<1>1. Len(e) \in Nat /\ DOMAIN e = 1..Len(e) /\ e \in [1..Len(e) -> LogEntries] BY <1>b, <1>c
<1>a. i \in 1..Len(e) BY <1>b, Between, Zenon
<1>2. PICK x \in LogEntries : x = e[i] BY <1>1, <1>a
<1>3. PICK y : y = [x EXCEPT !.fate = what] OBVIOUS
<1>4. y \in LogEntries /\ y.fate = what /\ y.at = x.at BY <1>3, EntryBecomes
<1>5. d = [e EXCEPT ![i] = y] BY <1>0, <1>2, <1>3
<1>6. \A n \in 1..Len(e) : d[n] = IF n = i THEN y ELSE e[n] BY <1>1, <1>a, <1>5
<1>7. d \in [1..Len(e) -> LogEntries] BY <1>1, <1>4, <1>5
<1>8. d \in Seq(LogEntries) /\ Len(d) = Len(e)
  <2>1. d \in Seq(LogEntries) BY <1>1, <1>7, SeqDef
  <2>2. DOMAIN d = 1..Len(e) BY <1>7
  <2>3. Len(d) \in Nat /\ DOMAIN d = 1..Len(d) BY <2>1, LenProperties
  <2>4. Len(d) = Len(e)
    <3> QED BY <1>1, <2>2, <2>3, SameLength, Zenon
  <2> QED BY <2>1, <2>4
<1>9. \A n \in 1..Len(e) : d[n].at = e[n].at /\ (n # i => d[n].fate = e[n].fate) BY <1>2, <1>4, <1>6
<1>10. d[i].fate = what BY <1>a, <1>4, <1>6
<1> QED BY <1>8, <1>9, <1>10 DEF d

LEMMA BecomingIs ==
  ASSUME NEW e \in Seq(LogEntries), NEW i \in Nat, Pending(e, i), NEW what \in {"under way", "ahead", "back"}
  PROVE  /\ Becoming(e, i, what) \in Seq(LogEntries) /\ Len(Becoming(e, i, what)) = Len(e)
         /\ \A n \in 1..Len(e) : /\ Becoming(e, i, what)[n].at = e[n].at
                                 /\ n # i => Becoming(e, i, what)[n].fate = e[n].fate
         /\ i # 0 => Becoming(e, i, what)[i].fate = what
<1> DEFINE d == Becoming(e, i, what)
<1>1. CASE i = 0
  <2>1. d = e BY <1>1 DEF Becoming
  <2> HIDE DEF d
  <2> QED BY <2>1, <1>1 DEF d
<1>2. CASE i # 0
  <2>1. i \in Nat \ {0} /\ i <= Len(e) BY <1>2, PendingIs
  <2>2. /\ Becoming(e, i, what) \in Seq(LogEntries) /\ Len(Becoming(e, i, what)) = Len(e)
        /\ \A n \in 1..Len(e) : /\ Becoming(e, i, what)[n].at = e[n].at
                                /\ n # i => Becoming(e, i, what)[n].fate = e[n].fate
        /\ Becoming(e, i, what)[i].fate = what
    BY <2>1, BecomingAt, ZenonT(40)
  <2> QED BY <2>2, Zenon
<1> QED BY <1>1, <1>2

\* A request that went ahead is logged as one that may.
LEMMA FairAhead ==
  ASSUME NEW a, NEW e, NEW g, Fair(a, e, g), NEW i \in Nat, Pending(e, i)
  PROVE  Fair(a, Becoming(e, i, "ahead"), g)
<1> USE PaceIs
<1> DEFINE d == Becoming(e, i, "ahead")
           L == Len(e)
<1>1. L \in Nat /\ e \in Seq(LogEntries) /\ DOMAIN e = 1..L BY DEF Fair
<1>2. /\ d \in Seq(LogEntries) /\ Len(d) = L /\ DOMAIN d = 1..L
      /\ \A n \in 1..L : d[n].at = e[n].at /\ (n # i => d[n].fate = e[n].fate)
      /\ i # 0 => d[i].fate = "ahead"
  <2>1. "ahead" \in {"under way", "ahead", "back"} OBVIOUS
  <2>2. /\ d \in Seq(LogEntries) /\ Len(d) = Len(e)
        /\ \A n \in 1..Len(e) : d[n].at = e[n].at /\ (n # i => d[n].fate = e[n].fate)
        /\ i # 0 => d[i].fate = "ahead"
    BY <1>1, <2>1, BecomingIs, Zenon
  <2> HIDE DEF d
  <2> QED BY <1>1, <2>2
<1> HIDE DEF d
<1>3. \A n \in 1..L : d[n].fate # "back" <=> e[n].fate # "back"
  <2> TAKE n \in 1..L
  <2>1. CASE n # i BY <2>1, <1>2
  <2>2. CASE n = i
    <3>0. i # 0 BY <2>2
    <3>1. d[n].fate = "ahead" BY <3>0, <2>2, <1>2
    <3>2. e[n].fate = "under way" BY <3>0, <2>2, <1>1, PendingIs
    <3> QED BY <3>1, <3>2
  <2> QED BY <2>1, <2>2
<1>4. \A n \in 1..L, m \in 0..L : GoneBy(d, n, m) = GoneBy(e, n, m) BY <1>1, <1>2, <1>3, SameBefore
<1>5. L \in 0..L /\ \A m \in 1..L : m \in 0..L BY <1>1
<1>6. Owed(a, d, g)
  <2> SUFFICES ASSUME NEW n \in 1..L
               PROVE  (Cardinality(GoneBy(d, n, L)) - Cardinality(GivenBy(g, n, L + 1))) * OwnInterval + a.held
                          <= OwnPace.most + (a.at - d[n].at)
    BY <1>2 DEF Owed
  <2>1. GoneBy(d, n, L) = GoneBy(e, n, L) /\ d[n].at = e[n].at BY <1>2, <1>4, <1>5
  <2> QED BY <2>1, <1>1 DEF Fair, Owed
<1>7. Paced(d, g)
  <2> SUFFICES ASSUME NEW n \in 1..L, NEW m \in 1..L, n <= m
               PROVE  (Cardinality(GoneBy(d, n, m)) - Cardinality(GivenBy(g, n, m))) * OwnInterval
                          <= OwnPace.most + (d[m].at - d[n].at)
    BY <1>2 DEF Paced
  <2>1. GoneBy(d, n, m) = GoneBy(e, n, m) /\ d[n].at = e[n].at /\ d[m].at = e[m].at BY <1>2, <1>4, <1>5
  <2> QED BY <2>1, <1>1 DEF Fair, Paced
<1>8. Whole(a, d)
  <2> SUFFICES ASSUME NEW f, HeldBy(d, f, L)
               PROVE  a.held >= Least2(OwnPace.most, f[L] + (a.at - EntryAt(d, L)))
    BY <1>2 DEF Whole
  <2>1. \A n \in 0..L : EntryAt(d, n) = EntryAt(e, n) BY <1>2 DEF EntryAt
  <2>2. HeldBy(e, f, L)
    <3>1. ASSUME NEW n \in 1..L PROVE f[n] = NextHeld(e, f[n - 1], n)
      <4>1. EntryAt(d, n) = EntryAt(e, n) /\ EntryAt(d, n - 1) = EntryAt(e, n - 1) BY <2>1, <1>1
      <4>2. d[n].fate = "back" <=> e[n].fate = "back" BY <1>3
      <4>3. f[n] = NextHeld(d, f[n - 1], n) BY DEF HeldBy
      <4> QED BY <4>1, <4>2, <4>3 DEF NextHeld
    <3> QED BY <3>1 DEF HeldBy
  <2> QED BY <2>1, <2>2, <1>5 DEF Fair, Whole
<1>9. \A n \in DOMAIN d : d[n].at <= a.at BY <1>1, <1>2 DEF Fair
<1> QED BY <1>2, <1>6, <1>7, <1>8, <1>9 DEF Fair, d

\* A request given back gives its interval back.
LEMMA FairRefunded ==
  ASSUME NEW a, NEW e, NEW g, Fair(a, e, g), NEW i \in Nat, Pending(e, i)
  PROVE  /\ Fair(Refunded(a, OwnPace), Becoming(e, i, "back"), Append(g, [nth |-> i, after |-> Len(e)]))
         /\ Refunded(a, OwnPace).at = a.at
<1> USE PaceIs
<1> DEFINE d == Becoming(e, i, "back")
           b == Refunded(a, OwnPace)
           r == [nth |-> i, after |-> Len(e)]
           h == Append(g, r)
           L == Len(e)
           G == Len(g)
<1>1. /\ L \in Nat /\ L <= MaxTaken /\ e \in Seq(LogEntries) /\ DOMAIN e = 1..L
      /\ G \in Nat /\ g \in Seq(ReturnEntries) /\ DOMAIN g = 1..G
  BY DEF Fair
<1>2. /\ d \in Seq(LogEntries) /\ Len(d) = L /\ DOMAIN d = 1..L
      /\ \A n \in 1..L : d[n].at = e[n].at /\ (n # i => d[n].fate = e[n].fate)
      /\ i # 0 => d[i].fate = "back"
  <2>1. "back" \in {"under way", "ahead", "back"} OBVIOUS
  <2>2. /\ d \in Seq(LogEntries) /\ Len(d) = Len(e)
        /\ \A n \in 1..Len(e) : d[n].at = e[n].at /\ (n # i => d[n].fate = e[n].fate)
        /\ i # 0 => d[i].fate = "back"
    BY <1>1, <2>1, BecomingIs, Zenon
  <2> HIDE DEF d
  <2> QED BY <1>1, <2>2
<1>3. r \in ReturnEntries 
  <2>1. i \in 0..MaxTaken /\ L \in 0..MaxTaken
    <3>1. i <= L BY <1>1, PendingIs
    <3> QED BY <3>1, <1>1
  <2> QED BY <2>1 DEF ReturnEntries
<1>4. r.nth = i /\ r.after = L OBVIOUS
<1>5. /\ h \in Seq(ReturnEntries) /\ Len(h) = G + 1 /\ DOMAIN h = 1..(G + 1)
      /\ h[G + 1] = r /\ \A n \in 1..G : h[n] = g[n]
  BY <1>1, <1>3
<1>6. a \in [held : 0..OwnPace.most, at : 0..MaxMoment] BY DEF Fair, Allowances
<1>7. /\ a.held \in Int /\ 0 <= a.held /\ a.held <= OwnPace.most /\ a.at \in Int
      /\ b = [held |-> Least2(OwnPace.most, a.held + OwnInterval), at |-> a.at]
  BY <1>6 DEF Refunded
<1>8. b.at = a.at /\ b.held = Least2(OwnPace.most, a.held + OwnInterval) BY <1>7
<1>9. b.held \in Int /\ b.held <= a.held + OwnInterval /\ b.held <= OwnPace.most /\ 0 <= b.held
  BY <1>7, <1>8 DEF Least2
<1>10. b \in Allowances(OwnPace) BY <1>6, <1>7, <1>8, <1>9 DEF Allowances
<1> HIDE DEF d, b, h, r
<1>11. \A n \in 1..L : e[n].at \in Int BY <1>1, EntriesAt
<1>12. \A n \in 1..L, m \in 0..L : /\ IsFiniteSet(GoneBy(e, n, m)) /\ Cardinality(GoneBy(e, n, m)) \in Nat
                                   /\ IsFiniteSet(GoneBy(d, n, m)) /\ Cardinality(GoneBy(d, n, m)) \in Nat
  <2>1. \A n \in 1..L, m \in 0..L : IsFiniteSet(GoneBy(e, n, m)) /\ Cardinality(GoneBy(e, n, m)) \in Nat
    BY <1>1, Counts
  <2>2. \A n \in 1..L, m \in 0..L : IsFiniteSet(GoneBy(d, n, m)) /\ Cardinality(GoneBy(d, n, m)) \in Nat
    BY <1>1, <1>2, Counts
  <2> QED BY <2>1, <2>2
<1>13. \A n, o : IsFiniteSet(GivenBy(g, n, o)) /\ Cardinality(GivenBy(g, n, o)) \in Nat
  <2>2. \A n, o : GivenBy(g, n, o) \in SUBSET (1..G) BY <1>1 DEF GivenBy
  <2>3. IsFiniteSet(1..G) BY <1>1, FS_Interval
  <2> QED BY <2>2, <2>3, FS_Subset, FS_CardinalityType
<1>14. ASSUME NEW n \in 1..L, NEW m \in 0..L PROVE GoneBy(d, n, m) = GoneBy(e, n, m) \ {i}
  <2>1. \A j \in n..m : j \in 1..L BY <1>1
  <2>2. ASSUME NEW j \in n..m PROVE d[j].fate # "back" <=> (e[j].fate # "back" /\ j # i)
    <3>1. j \in 1..L BY <2>1
    <3>2. CASE j # i BY <3>1, <3>2, <1>2
    <3>3. CASE j = i
      <4>1. j # 0 BY <3>1
      <4> QED BY <3>3, <4>1, <1>2
    <3> QED BY <3>2, <3>3
  <2> QED BY <2>2 DEF GoneBy
<1>15. ASSUME NEW n \in 1..L, NEW m \in 1..L PROVE GivenBy(h, n, m) = GivenBy(g, n, m)
  <2>1. r.after \notin n..(m - 1) BY <1>1, <1>4
  <2>2. \A j \in 1..(G + 1) : j \in 1..G \/ j = G + 1 BY <1>1
  <2>3. \A j \in 1..G : j \in 1..(G + 1) BY <1>1
  <2> QED BY <2>1, <2>2, <2>3, <1>1, <1>5 DEF GivenBy
<1>16. ASSUME NEW n \in 1..L
       PROVE  GivenBy(h, n, L + 1) = IF i < n THEN GivenBy(g, n, L + 1) \cup {G + 1} ELSE GivenBy(g, n, L + 1)
  <2>1. r.after \in n..((L + 1) - 1) BY <1>1, <1>4
  <2>2. \A j \in 1..(G + 1) : j \in 1..G \/ j = G + 1 BY <1>1
  <2>3. \A j \in 1..G : j \in 1..(G + 1) BY <1>1
  <2>4. G + 1 \in 1..(G + 1) BY <1>1
  <2>5. r.nth < n <=> i < n BY <1>4
  <2> QED BY <2>1, <2>2, <2>3, <2>4, <2>5, <1>1, <1>5 DEF GivenBy
<1>17. Owed(b, d, h)
  <2> SUFFICES ASSUME NEW n \in 1..L
               PROVE  (Cardinality(GoneBy(d, n, L)) - Cardinality(GivenBy(h, n, L + 1))) * OwnInterval + b.held
                          <= OwnPace.most + (a.at - d[n].at)
    BY <1>2, <1>8 DEF Owed
  <2>1. L \in 0..L BY <1>1
  <2>2. PICK p \in Nat, q \in Nat : p = Cardinality(GoneBy(e, n, L)) /\ q = Cardinality(GivenBy(g, n, L + 1))
    BY <2>1, <1>12, <1>13
  <2>3. (p - q) * OwnInterval + a.held <= OwnPace.most + (a.at - e[n].at)
    BY <2>2, <1>1 DEF Fair, Owed
  <2>4. Cardinality(GoneBy(d, n, L)) - Cardinality(GivenBy(h, n, L + 1)) = p - q - 1
    <3>1. CASE i < n
      <4>1. i \notin n..L BY <3>1, <1>1
      <4>2. GoneBy(d, n, L) = GoneBy(e, n, L) BY <4>1, <2>1, <1>14 DEF GoneBy
      <4>3. GivenBy(h, n, L + 1) = GivenBy(g, n, L + 1) \cup {G + 1} BY <3>1, <1>16
      <4>4. G + 1 \notin GivenBy(g, n, L + 1) BY <1>1 DEF GivenBy
      <4>5. Cardinality(GivenBy(h, n, L + 1)) = q + 1 BY <4>3, <4>4, <2>2, <1>13, FS_AddElement
      <4>6. p - (q + 1) = p - q - 1 OBVIOUS
      <4> QED BY <4>2, <4>5, <4>6, <2>2
    <3>2. CASE ~(i < n)
      <4>1. i \in n..L /\ i # 0 
        <5>1. i <= L BY <1>1, PendingIs
        <5> QED BY <5>1, <3>2, <1>1
      <4>2. e[i].fate # "back"
        <5>1. e[i].fate = "under way" BY <4>1, <1>1, PendingIs
        <5> QED BY <5>1
      <4>3. i \in GoneBy(e, n, L) BY <4>1, <4>2 DEF GoneBy
      <4>4. GoneBy(d, n, L) = GoneBy(e, n, L) \ {i} BY <2>1, <1>14
      <4>5. Cardinality(GoneBy(d, n, L)) = p - 1
        <5>1. IsFiniteSet(GoneBy(e, n, L)) BY <2>1, <1>12
        <5>2. Cardinality(GoneBy(e, n, L) \ {i}) = Cardinality(GoneBy(e, n, L)) - 1
          BY <4>3, <5>1, FS_RemoveElement
        <5> HIDE DEF L
        <5> QED BY <4>4, <5>2, <2>2
      <4>6. GivenBy(h, n, L + 1) = GivenBy(g, n, L + 1) BY <3>2, <1>16
      <4>7. (p - 1) - q = p - q - 1 OBVIOUS
      <4> QED BY <4>5, <4>6, <4>7, <2>2
    <3> QED BY <3>1, <3>2
  <2>5. (p - q - 1) * OwnInterval = (p - q) * OwnInterval - OwnInterval OBVIOUS
  <2>6. PICK u \in Int, t \in Int : u = (p - q) * OwnInterval /\ t = e[n].at BY <1>11
  <2>7. PICK x \in Int, y \in Int, z \in Int : x = a.held /\ y = b.held /\ z = a.at BY <1>7, <1>9
  <2>8. u + x <= OwnPace.most + (z - t) /\ y <= x + OwnInterval BY <2>3, <2>6, <2>7, <1>9
  <2>9. u - OwnInterval + y <= OwnPace.most + (z - t) BY <2>8
  <2> QED BY <2>4, <2>5, <2>6, <2>7, <2>9, <1>2
<1>18. Paced(d, h)
  <2> SUFFICES ASSUME NEW n \in 1..L, NEW m \in 1..L, n <= m
               PROVE  (Cardinality(GoneBy(d, n, m)) - Cardinality(GivenBy(h, n, m))) * OwnInterval
                          <= OwnPace.most + (d[m].at - d[n].at)
    BY <1>2 DEF Paced
  <2>1. m \in 0..L BY <1>1
  <2>2. PICK p \in Nat, q \in Nat, s \in Nat :
           /\ p = Cardinality(GoneBy(e, n, m)) /\ q = Cardinality(GivenBy(g, n, m))
           /\ s = Cardinality(GoneBy(d, n, m))
    BY <2>1, <1>12, <1>13
  <2>3. GivenBy(h, n, m) = GivenBy(g, n, m) BY <1>15
  <2>4. s <= p
    <3>1. GoneBy(d, n, m) \in SUBSET GoneBy(e, n, m) BY <2>1, <1>14
    <3> QED BY <2>1, <2>2, <3>1, <1>12, FS_Subset
  <2>5. (p - q) * OwnInterval <= OwnPace.most + (e[m].at - e[n].at) BY <2>2, <1>1 DEF Fair, Paced
  <2>6. (s - q) * OwnInterval <= (p - q) * OwnInterval BY <2>4
  <2>7. PICK u \in Int, v \in Int, x \in Int, y \in Int :
           u = (p - q) * OwnInterval /\ v = (s - q) * OwnInterval /\ x = e[m].at /\ y = e[n].at
    BY <1>11
  <2>a. u <= OwnPace.most + (x - y) /\ v <= u BY <2>5, <2>6, <2>7
  <2>8. v <= OwnPace.most + (x - y) BY <2>a
  <2> QED BY <2>2, <2>3, <2>7, <2>8, <1>2
<1>19. Whole(b, d)
  <2> SUFFICES ASSUME NEW f, HeldBy(d, f, L)
               PROVE  b.held >= Least2(OwnPace.most, f[L] + (a.at - EntryAt(d, L)))
    BY <1>2, <1>8 DEF Whole
  <2>1. PICK k : HeldBy(e, k, L) BY <1>1, IdealIs
  <2>2. EntryAt(d, L) = EntryAt(e, L) BY <1>2 DEF EntryAt
  <2>3. L \in 0..L BY <1>1
  <2>4. f[L] \in Int /\ k[L] \in Int /\ EntryAt(e, L) \in Int BY <2>1, <2>3, <1>1, EntriesAt DEF HeldBy
  <2>5. f[L] <= k[L] + OwnInterval
    <3>1. PICK j \in Nat \ {0} : j = IF i = 0 THEN L + 1 ELSE i BY <1>1
    <3>2. \A n \in 1..L : d[n].at = e[n].at /\ (n # j /\ d[n].fate = "back" => e[n].fate = "back")
      <4>1. CASE i = 0
        <5>1. \A n \in 1..L : n # i BY <4>1, <1>1
        <5> QED BY <5>1, <1>2
      <4>2. CASE i # 0 BY <4>2, <3>1, <1>2
      <4> QED BY <4>1, <4>2
    <3>3. \A n \in 0..L : f[n] <= k[n] + (IF n < j THEN 0 ELSE OwnInterval)
      <4>1. HeldBy(d, f, Len(d)) /\ HeldBy(e, k, Len(e)) /\ Len(e) <= Len(d) BY <2>1, <1>1, <1>2
      <4> QED BY <3>2, <4>1, <1>1, <1>2, IdealGrows
    <3>4. f[L] <= k[L] + (IF L < j THEN 0 ELSE OwnInterval) BY <3>3, <2>3
    <3> QED BY <3>4, <2>4
  <2>6. a.held >= Least2(OwnPace.most, k[L] + (a.at - EntryAt(e, L))) BY <2>1 DEF Fair, Whole
  <2>7. PICK x \in Int, y \in Int, t \in Int : x = f[L] /\ y = k[L] /\ t = a.at - EntryAt(e, L) BY <2>4, <1>7
  <2>8. x <= y + OwnInterval /\ a.held >= Least2(OwnPace.most, y + t) BY <2>5, <2>6, <2>7
  <2>9. b.held >= Least2(OwnPace.most, x + t) BY <2>8, <1>7, <1>8 DEF Least2
  <2> QED BY <2>2, <2>7, <2>9
<1>20. \A n \in DOMAIN d : d[n].at <= b.at BY <1>1, <1>2, <1>8 DEF Fair
<1> QED BY <1>1, <1>2, <1>5, <1>8, <1>10, <1>17, <1>18, <1>19, <1>20 DEF Fair, d, b, h, r

-----------------------------------------------------------------------------
\* A key kept holds what is owed to it; of one not kept nothing is known.
Standing(k) ==
    IF k \in Kept THEN own[k].at <= moment /\ Fair(own[k], log[k], returns[k])
    ELSE log[k] = <<>> /\ returns[k] = <<>>

KeysStand ==
    /\ moment \in 0..MaxMoment
    /\ recent \in Seq(Clients) /\ Once(recent) /\ Len(recent) <= MaxKeys
    /\ DOMAIN own = Kept
    /\ ForgottenIsOldest
    /\ whole \in Allowances(WholePace) /\ whole.at <= moment
    /\ log \in [Clients -> Seq(LogEntries)] /\ returns \in [Clients -> Seq(ReturnEntries)]
    /\ \A k \in Clients : Standing(k)

Requests == [pc : {"idle", "whole", "refused"}, key : Clients \cup {"none"}, nth : 0..MaxTaken]

\* What a request under way was logged as is its alone.
AtWork(r) ==
    IF request[r].pc = "idle" THEN request[r] = NotUnderWay
    ELSE request[r].key \in Clients /\ Pending(log[request[r].key], request[r].nth)
Apart(r, q) == request[r].key = request[q].key /\ request[r].nth # 0 => request[q].nth # request[r].nth

RequestsStand ==
    /\ request \in [Hands -> Requests]
    /\ \A r \in Hands : AtWork(r)
    /\ \A r \in Hands : \A q \in Hands \ {r} : Apart(r, q)

CeilingsInv == KeysStand /\ RequestsStand

LEMMA CeilingsInitInv == ASSUME CeilingsInit PROVE CeilingsInv
<1> USE PaceIs
<1>1. moment = 0 /\ recent = <<>> /\ own = << >> /\ whole = Full(WholePace) BY DEF CeilingsInit
<1>2. /\ log = [k \in Clients |-> <<>>] /\ returns = [k \in Clients |-> <<>>]
      /\ request = [r \in Hands |-> NotUnderWay]
  BY DEF CeilingsInit
<1>3. Kept = {} BY <1>1 DEF Kept, ToSet
<1>4. /\ recent \in Seq(Clients) /\ Len(recent) = 0 /\ DOMAIN recent = {} /\ DOMAIN own = {}
      /\ \A S : <<>> \in Seq(S)
  BY <1>1
<1>5. whole \in Allowances(WholePace) /\ whole.at <= moment BY <1>1 DEF Full, Allowances
<1>6. KeysStand
  <2>1. moment \in 0..MaxMoment BY <1>1
  <2>2. Once(recent) /\ ForgottenIsOldest BY <1>4 DEF Once, ForgottenIsOldest
  <2>3. log \in [Clients -> Seq(LogEntries)] /\ returns \in [Clients -> Seq(ReturnEntries)] BY <1>2, <1>4
  <2>4. \A k \in Clients : Standing(k) BY <1>2, <1>3 DEF Standing
  <2> QED BY <1>3, <1>4, <1>5, <2>1, <2>2, <2>3, <2>4 DEF KeysStand
<1>7. NotUnderWay \in Requests /\ NotUnderWay.pc = "idle" /\ NotUnderWay.nth = 0 BY DEF NotUnderWay, Requests
<1>8. RequestsStand BY <1>2, <1>7 DEF RequestsStand, AtWork, Apart
<1> QED BY <1>6, <1>8 DEF CeilingsInv

\* An allowance looked at is one still.
LEMMA AllowanceStays ==
  ASSUME NEW p, p.most \in Nat, p.interval \in Nat, NEW a \in Allowances(p), a.at <= moment, moment \in 0..MaxMoment
  PROVE  /\ CaughtUp(a, p) \in Allowances(p) /\ CaughtUp(a, p).at <= moment
         /\ LetsIn(a, p) => Spent(a, p) \in Allowances(p) /\ Spent(a, p).at <= moment
<1>1. a = [held |-> a.held, at |-> a.at] /\ a.held \in 0..p.most /\ a.at \in 0..MaxMoment BY DEF Allowances
<1>2. PICK h \in Int, t \in Int : h = a.held /\ t = a.at BY <1>1
<1>3. PICK c \in Int :
        /\ c = IF moment > t THEN Least2(p.most, h + (moment - t)) ELSE h
        /\ 0 <= c /\ c <= p.most
  BY <1>1, <1>2 DEF Least2
<1>4. CaughtUp(a, p) = [held |-> c, at |-> moment]
  <2>1. CASE moment > t BY <2>1, <1>2, <1>3 DEF CaughtUp
  <2>2. CASE ~(moment > t)
    <3>1. t = moment BY <2>2, <1>2
    <3> QED BY <3>1, <2>2, <1>1, <1>2, <1>3 DEF CaughtUp
  <2> QED BY <2>1, <2>2
<1>5. CaughtUp(a, p) \in Allowances(p) /\ CaughtUp(a, p).at <= moment BY <1>3, <1>4 DEF Allowances
<1>6. ASSUME LetsIn(a, p) PROVE Spent(a, p) \in Allowances(p) /\ Spent(a, p).at <= moment
  <2>1. c >= p.interval BY <1>4, <1>6 DEF LetsIn
  <2>2. Spent(a, p) = [held |-> c - p.interval, at |-> moment] BY <1>4 DEF Spent
  <2>3. c - p.interval \in 0..p.most BY <1>3, <2>1
  <2> QED BY <2>2, <2>3 DEF Allowances
<1> QED BY <1>5, <1>6

\* A key's allowance, whether it is kept or begins anew, is what is owed to it.
LEMMA AllowanceIsFair ==
  ASSUME KeysStand, NEW k \in Clients
  PROVE  Fair(AllowanceOf(k), log[k], returns[k]) /\ AllowanceOf(k).at <= moment
<1>1. Standing(k) /\ moment \in 0..MaxMoment BY DEF KeysStand
<1>2. CASE k \in Kept BY <1>1, <1>2 DEF Standing, AllowanceOf
<1>3. CASE k \notin Kept
  <2>1. log[k] = <<>> /\ returns[k] = <<>> BY <1>1, <1>3 DEF Standing
  <2>2. AllowanceOf(k) = Full(OwnPace) BY <1>3 DEF AllowanceOf
  <2>3. Full(OwnPace).at <= moment BY <1>1 DEF Full
  <2> QED BY <1>1, <2>1, <2>2, <2>3, FairBegins
<1> QED BY <1>2, <1>3

\* A use of a key: it is the latest, and of those not kept now nothing is known.
LEMMA UseStands ==
  ASSUME KeysStand, NEW k \in Clients, NEW b, NEW e, Fair(b, e, returns[k]), b.at = moment,
         UNCHANGED <<moment, whole>>,
         recent' = UsedNow(k),
         own' = [other \in ToSet(recent') |-> IF other = k THEN b ELSE own[other]],
         log' = [other \in Clients |->
                   IF other \notin ToSet(recent') THEN <<>> ELSE IF other = k THEN e ELSE log[other]],
         returns' = [other \in Clients |-> IF other \in ToSet(recent') THEN returns[other] ELSE <<>>]
  PROVE  KeysStand' /\ k \in Kept'
<1>1. /\ moment \in 0..MaxMoment /\ recent \in Seq(Clients) /\ Once(recent) /\ Len(recent) <= MaxKeys
      /\ DOMAIN own = Kept /\ \A o \in Clients : Standing(o)
  BY DEF KeysStand
<1>2. /\ recent' \in Seq(Clients) /\ Once(recent') /\ Len(recent') <= MaxKeys
      /\ Kept' \subseteq Kept \cup {k} /\ k \in Kept'
      /\ 1 \in DOMAIN recent' /\ recent'[1] = k
      /\ \A i, j \in DOMAIN recent' : 1 < i /\ i < j =>
            \E x, y \in DOMAIN recent : x < y /\ recent[x] = recent'[i] /\ recent[y] = recent'[j]
      /\ \A i \in DOMAIN recent' : 1 < i => recent'[i] # k /\ recent'[i] \in Kept
  BY <1>1, UsedNowIs DEF Kept
<1>3. Kept' = ToSet(recent') BY DEF Kept
<1>4. /\ DOMAIN own' = Kept' /\ own'[k] = b
      /\ \A o \in Kept' \ {k} : o \in Kept /\ own'[o] = own[o] /\ log'[o] = log[o] /\ returns'[o] = returns[o]
  <2>1. \A o \in Kept' : o \in Clients BY <1>2, <1>3 DEF ToSet
  <2> QED BY <1>2, <1>3, <2>1
<1>5. log'[k] = e /\ returns'[k] = returns[k] BY <1>2, <1>3
<1>6. \A o \in Clients \ Kept' : log'[o] = <<>> /\ returns'[o] = <<>> BY <1>3
<1>7. ASSUME NEW o \in Clients PROVE Standing(o)'
  <2>1. CASE o = k BY <2>1, <1>1, <1>2, <1>4, <1>5 DEF Standing
  <2>2. CASE o # k /\ o \in Kept'
    <3>1. own[o].at <= moment /\ Fair(own[o], log[o], returns[o]) BY <2>2, <1>1, <1>4 DEF Standing
    <3> QED BY <3>1, <2>2, <1>4 DEF Standing
  <2>3. CASE o \notin Kept' BY <2>3, <1>6 DEF Standing
  <2> QED BY <2>1, <2>2, <2>3
<1>8. ForgottenIsOldest'
  <2> SUFFICES ASSUME NEW i \in DOMAIN recent', NEW j \in DOMAIN recent', i < j
               PROVE  own'[recent'[i]].at >= own'[recent'[j]].at
    BY DEF ForgottenIsOldest
  <2>0. DOMAIN recent' = 1..Len(recent') BY <1>2
  <2>1. 1 < j /\ i \in Nat BY <2>0
  <2>2. recent'[j] # k /\ recent'[j] \in Kept BY <2>1, <1>2
  <2>3. recent'[j] \in Kept' \ {k} BY <2>2, <1>3 DEF ToSet
  <2>4. own'[recent'[j]] = own[recent'[j]] BY <2>3, <1>4
  <2>5. recent'[j] \in Clients BY <2>0, <1>2
  <2>6. CASE i = 1
    <3>1. own'[recent'[i]].at = moment BY <2>6, <1>2, <1>4
    <3>2. own[recent'[j]].at <= moment BY <2>2, <2>5, <1>1 DEF Standing
    <3>3. own[recent'[j]].at \in Int BY <2>2, <2>5, <1>1 DEF Standing, Fair, Allowances
    <3> QED BY <3>1, <3>2, <3>3, <2>4, <1>1
  <2>7. CASE i # 1
    <3>1. 1 < i BY <2>7, <2>0
    <3>2. PICK x \in DOMAIN recent, y \in DOMAIN recent : x < y /\ recent[x] = recent'[i] /\ recent[y] = recent'[j]
      BY <3>1, <1>2
    <3>3. own[recent[x]].at >= own[recent[y]].at BY <3>2 DEF KeysStand, ForgottenIsOldest
    <3>4. recent'[i] \in Kept' \ {k} BY <3>1, <1>2, <1>3 DEF ToSet
    <3>5. own'[recent'[i]] = own[recent'[i]] BY <3>4, <1>4
    <3> QED BY <3>2, <3>3, <3>5, <2>4
  <2> QED BY <2>6, <2>7
<1>9. log' \in [Clients -> Seq(LogEntries)] /\ returns' \in [Clients -> Seq(ReturnEntries)]
  <2>1. e \in Seq(LogEntries) /\ \A S : <<>> \in Seq(S) BY DEF Fair
  <2> QED BY <2>1 DEF KeysStand
<1> QED BY <1>1, <1>2, <1>4, <1>7, <1>8, <1>9 DEF KeysStand

\* Requests whose keys' logs go on as they were stay what they are; those of keys
\* forgotten are no longer logged.
GoesOn(from, to) == Len(from) <= Len(to) /\ \A n \in 1..Len(from) : to[n] = from[n]
LogsFollow(k, e) ==
    /\ k \in Kept' /\ log'[k] = e
    /\ \A o \in Clients : /\ o \notin Kept' => log'[o] = <<>>
                          /\ o \in Kept' /\ o # k => log'[o] = log[o]
NoneTaken == request' = [q \in Hands |-> Forgets(q)]
Taken(r, k, e) ==
    /\ Len(e) = Len(log[k]) + 1 /\ Len(e) <= MaxTaken /\ e[Len(e)].fate = "under way"
    /\ request' = [q \in Hands |->
                      IF q = r THEN [pc |-> "whole", key |-> k, nth |-> Len(e)] ELSE Forgets(q)]

LEMMA TakenStands ==
  ASSUME CeilingsInv, NEW k \in Clients, NEW r \in Hands, NEW e \in Seq(LogEntries),
         GoesOn(log[k], e), LogsFollow(k, e), NoneTaken \/ Taken(r, k, e)
  PROVE  RequestsStand'
<1> USE PaceIs
<1>1. /\ request \in [Hands -> Requests] /\ \A q \in Hands : AtWork(q)
      /\ \A p \in Hands : \A q \in Hands \ {p} : Apart(p, q)
      /\ \A o \in Clients : log[o] \in Seq(LogEntries)
  BY DEF CeilingsInv, RequestsStand, KeysStand
<1>a. Len(log[k]) <= Len(e) /\ \A n \in 1..Len(log[k]) : e[n] = log[k][n] BY DEF GoesOn
<1>b. /\ k \in Kept' /\ log'[k] = e
      /\ \A o \in Clients : /\ o \notin Kept' => log'[o] = <<>>
                            /\ o \in Kept' /\ o # k => log'[o] = log[o]
  BY DEF LogsFollow
<1>2. Kept' = ToSet(recent') BY DEF Kept
<1>3. Len(log[k]) \in Nat /\ Len(e) \in Nat BY <1>1, LenProperties
<1>4. ASSUME NEW q \in Hands
      PROVE  /\ Forgets(q) \in Requests
             /\ Forgets(q).pc = request[q].pc /\ Forgets(q).key = request[q].key
             /\ Forgets(q).nth = IF request[q].key \in Kept' THEN request[q].nth ELSE 0
             /\ request[q].pc = "idle" => Forgets(q) = NotUnderWay
  <2>1. request[q] \in Requests BY <1>1
  <2>2. PICK x \in Requests : x = request[q] BY <2>1
  <2>3. Forgets(q) = IF x.key \in Kept' THEN x ELSE [x EXCEPT !.nth = 0] BY <1>2, <2>2 DEF Forgets
  <2>4. x.pc = "idle" => x = [pc |-> "idle", key |-> "none", nth |-> 0]
    BY <1>1, <2>2 DEF AtWork, NotUnderWay
  <2>5. [x EXCEPT !.nth = 0] \in Requests /\ [x EXCEPT !.nth = 0] = [pc |-> x.pc, key |-> x.key, nth |-> 0]
    BY DEF Requests
  <2> QED BY <2>2, <2>3, <2>4, <2>5 DEF NotUnderWay
<1>5. ASSUME NEW q \in Hands, request'[q] = Forgets(q) PROVE request'[q] \in Requests /\ AtWork(q)'
  <2>1. CASE request[q].pc = "idle"
    <3>1. request'[q] = NotUnderWay /\ request'[q] \in Requests BY <2>1, <1>4, <1>5
    <3> QED BY <3>1 DEF AtWork, NotUnderWay
  <2>2. CASE request[q].pc # "idle"
    <3>1. request[q].key \in Clients /\ Pending(log[request[q].key], request[q].nth) BY <2>2, <1>1 DEF AtWork
    <3>2. PICK o \in Clients, i \in Nat : o = request[q].key /\ i = request[q].nth
      <4>1. request[q].nth \in Nat BY <1>1 DEF Requests
      <4> QED BY <3>1, <4>1
    <3>3. /\ request'[q].pc # "idle" /\ request'[q].key = o /\ request'[q] \in Requests
          /\ request'[q].nth = IF o \in Kept' THEN i ELSE 0
      BY <2>2, <3>2, <1>4, <1>5
    <3>4. Pending(log'[o], request'[q].nth)
      <4>1. CASE o \notin Kept'
        <5>1. log'[o] = <<>> /\ request'[q].nth = 0 BY <4>1, <3>3, <1>b
        <5> QED BY <5>1 DEF Pending
      <4>2. CASE o \in Kept' /\ o # k
        <5>1. log'[o] = log[o] /\ request'[q].nth = i BY <4>2, <3>3, <1>b
        <5> QED BY <5>1, <3>1, <3>2
      <4>3. CASE o \in Kept' /\ o = k
        <5>1. log'[o] = e /\ request'[q].nth = i BY <4>3, <3>3, <1>b
        <5>2. Pending(log[k], i) /\ log[k] \in Seq(LogEntries) BY <4>3, <3>1, <3>2, <1>1
        <5>3. i <= Len(log[k]) /\ (i # 0 => i \in 1..Len(log[k]) /\ log[k][i].fate = "under way")
          BY <5>2, PendingIs
        <5>4. i <= Len(e)
          <6>1. i <= Len(log[k]) /\ Len(log[k]) <= Len(e) BY <5>3, <1>a
          <6> QED BY <6>1, <1>3
        <5>5. i # 0 => e[i].fate = "under way" BY <5>3, <1>a
        <5> QED BY <5>1, <5>4, <5>5 DEF Pending
      <4> QED BY <4>1, <4>2, <4>3
    <3> QED BY <3>2, <3>3, <3>4 DEF AtWork
  <2> QED BY <2>1, <2>2
<1>6. ASSUME NEW p \in Hands, NEW q \in Hands \ {p}, request'[p] = Forgets(p), request'[q] = Forgets(q)
      PROVE  Apart(p, q)'
  <2>1. Apart(p, q) /\ q \in Hands BY <1>1
  <2>2. /\ request'[p].key = request[p].key /\ request'[q].key = request[q].key
        /\ request'[p].nth = IF request[p].key \in Kept' THEN request[p].nth ELSE 0
        /\ request'[q].nth = IF request[q].key \in Kept' THEN request[q].nth ELSE 0
    BY <2>1, <1>4, <1>6
  <2> QED BY <2>1, <2>2 DEF Apart
<1>7. CASE NoneTaken
  <2>0. request' = [q \in Hands |-> Forgets(q)] BY <1>7 DEF NoneTaken
  <2>1. \A q \in Hands : request'[q] = Forgets(q) BY <2>0
  <2>2. request' \in [Hands -> Requests] BY <1>4, <2>0
  <2>3. \A q \in Hands : AtWork(q)' BY <2>1, <1>5
  <2>4. \A p \in Hands : \A q \in Hands \ {p} : Apart(p, q)' BY <2>1, <1>6
  <2> QED BY <2>2, <2>3, <2>4 DEF RequestsStand
<1>8. CASE Taken(r, k, e)
  <2>a. Len(e) = Len(log[k]) + 1 /\ Len(e) <= MaxTaken BY <1>8 DEF Taken
  <2>b. e[Len(e)].fate = "under way" BY <1>8 DEF Taken
  <2>c. request' = [q \in Hands |->
                      IF q = r THEN [pc |-> "whole", key |-> k, nth |-> Len(e)] ELSE Forgets(q)]
    BY <1>8 DEF Taken
  <2>1. \A q \in Hands \ {r} : request'[q] = Forgets(q) BY <2>c
  <2>2. request'[r] = [pc |-> "whole", key |-> k, nth |-> Len(e)] BY <2>c
  <2>3. Len(e) \in 0..MaxTaken /\ Len(e) # 0 BY <1>3, <2>a
  <2>4. request'[r] \in Requests BY <2>2, <2>3 DEF Requests
  <2>5. request' \in [Hands -> Requests]
    <3>1. \A q \in Hands : request'[q] \in Requests BY <2>1, <2>4, <1>5
    <3>2. request' = [q \in Hands |-> request'[q]] BY <2>c
    <3> QED BY <3>1, <3>2
  <2>6. AtWork(r)'
    <3>0. Len(e) <= Len(e) BY <1>3
    <3>1. Pending(e, Len(e)) BY <3>0, <2>b, Zenon DEF Pending
    <3> QED BY <3>1, <2>2, <1>b DEF AtWork
  <2>7. ASSUME NEW q \in Hands \ {r} PROVE Apart(r, q)' /\ Apart(q, r)'
    <3>0. q \in Hands /\ q # r OBVIOUS
    <3>1. request'[q] = Forgets(q) BY <2>1
    <3>2. CASE request'[q].key = k /\ request'[q].nth # 0
      <4>1. request[q].key = k /\ request'[q].nth = request[q].nth BY <3>0, <3>1, <3>2, <1>4
      <4>2. request[q].pc # "idle"
        <5>1. request[q].pc = "idle" => request'[q] = NotUnderWay BY <3>0, <3>1, <1>4
        <5> QED BY <5>1, <3>2 DEF NotUnderWay
      <4>3. Pending(log[k], request[q].nth) BY <3>0, <4>1, <4>2, <1>1 DEF AtWork
      <4>4. request[q].nth \in Nat BY <3>0, <1>1 DEF Requests
      <4>5. request[q].nth <= Len(log[k]) BY <4>3, <4>4, <1>1, PendingIs
      <4>6. request'[q].nth # Len(e) BY <4>1, <4>4, <4>5, <1>3, <2>a
      <4> QED BY <4>6, <2>2 DEF Apart
    <3>3. CASE ~(request'[q].key = k /\ request'[q].nth # 0)
      BY <3>3, <2>2, <2>3 DEF Apart
    <3> QED BY <3>2, <3>3
  <2>8. \A q \in Hands : AtWork(q)'
    <3> TAKE q \in Hands
    <3>1. CASE q = r BY <3>1, <2>6
    <3>2. CASE q # r BY <3>2, <2>1, <1>5
    <3> QED BY <3>1, <3>2
  <2>9. ASSUME NEW p \in Hands, NEW q \in Hands \ {p} PROVE Apart(p, q)'
    <3>1. CASE p = r BY <3>1, <2>7
    <3>2. CASE q = r
      <4>1. p \in Hands \ {r} BY <3>2
      <4> QED BY <3>2, <4>1, <2>7
    <3>3. CASE p # r /\ q # r BY <3>3, <2>1, <1>6
    <3> QED BY <3>1, <3>2, <3>3
  <2> QED BY <2>5, <2>8, <2>9 DEF RequestsStand
<1> QED BY <1>7, <1>8

LEMMA TakeOwnInv == ASSUME CeilingsInv, NEW r \in Hands, NEW k \in Clients, TakeOwn(r, k) PROVE CeilingsInv'
<1> USE PaceIs
<1> DEFINE a == AllowanceOf(k)
           e == log[k]
<1>1. /\ request[r].pc = "idle" /\ Len(e) < MaxTaken /\ UNCHANGED <<moment, whole>> BY DEF TakeOwn
<1>2. KeysStand /\ moment \in 0..MaxMoment /\ e \in Seq(LogEntries) BY DEF CeilingsInv, KeysStand
<1>3. Fair(a, e, returns[k]) /\ a.at <= moment BY <1>2, AllowanceIsFair
<1>4. Len(e) \in Nat BY <1>2, LenProperties
<1>5. \A S : Kept' = ToSet(recent') BY DEF Kept
<1>6. CASE LetsIn(a, OwnPace)
  <2> DEFINE d == Append(e, UnderWay)
             b == Spent(a, OwnPace)
  <2>1. /\ KeepKey(k, b) /\ Remembers(k, <<UnderWay>>)
        /\ request' = [q \in Hands |->
                         IF q = r THEN [pc |-> "whole", key |-> k, nth |-> Len(e) + 1] ELSE Forgets(q)]
    BY <1>6 DEF TakeOwn, UnderWay
  <2>2. UnderWay \in LogEntries BY <1>2 DEF UnderWay, LogEntries
  <2>3. e \o <<UnderWay>> = d BY <1>2, <2>2, AppendIsConcat
  <2>4. Fair(b, d, returns[k]) /\ b.at = moment BY <1>1, <1>2, <1>3, <1>6, FairSpent
  <2>5. log' = [other \in Clients |->
                  IF other \notin ToSet(recent') THEN <<>> ELSE IF other = k THEN d ELSE log[other]]
    BY <2>1, <2>3, Zenon DEF Remembers
  <2>6. /\ recent' = UsedNow(k)
        /\ own' = [other \in ToSet(recent') |-> IF other = k THEN b ELSE own[other]]
        /\ returns' = [other \in Clients |-> IF other \in ToSet(recent') THEN returns[other] ELSE <<>>]
    BY <2>1 DEF KeepKey, Remembers
  <2>7. /\ d \in Seq(LogEntries) /\ Len(d) = Len(e) + 1 /\ d[Len(e) + 1] = UnderWay
        /\ \A n \in 1..Len(e) : d[n] = e[n]
    BY <1>2, <2>2, AppendProperties
  <2>8. UnderWay.fate = "under way" BY DEF UnderWay
  <2> HIDE DEF a, b, d
  <2>9. KeysStand' /\ k \in Kept' BY <1>1, <1>2, <2>4, <2>5, <2>6, UseStands
  <2>10. LogsFollow(k, d) BY <1>5, <2>5, <2>9 DEF LogsFollow
  <2>11. GoesOn(e, d)
    <3>1. Len(e) <= Len(d) BY <1>4, <2>7
    <3> QED BY <3>1, <2>7 DEF GoesOn
  <2>12. Taken(r, k, d)
    <3>1. Len(d) <= MaxTaken BY <1>1, <1>4, <2>7
    <3>2. d[Len(d)].fate = "under way" BY <2>7, <2>8
    <3> QED BY <3>1, <3>2, <2>1, <2>7 DEF Taken
  <2>13. RequestsStand' BY <2>7, <2>10, <2>11, <2>12, TakenStands
  <2> QED BY <2>9, <2>13 DEF CeilingsInv
<1>7. CASE ~LetsIn(a, OwnPace)
  <2> DEFINE b == CaughtUp(a, OwnPace)
  <2>1. KeepKey(k, b) /\ Remembers(k, <<>>) /\ request' = [q \in Hands |-> Forgets(q)] BY <1>7 DEF TakeOwn
  <2>2. e \o <<>> = e BY <1>2, ConcatEmptySeq
  <2>3. Fair(b, e, returns[k]) /\ b.at = moment BY <1>2, <1>3, FairCaughtUp
  <2>4. log' = [other \in Clients |->
                  IF other \notin ToSet(recent') THEN <<>> ELSE IF other = k THEN e ELSE log[other]]
    BY <2>1, <2>2, Zenon DEF Remembers
  <2>5. /\ recent' = UsedNow(k)
        /\ own' = [other \in ToSet(recent') |-> IF other = k THEN b ELSE own[other]]
        /\ returns' = [other \in Clients |-> IF other \in ToSet(recent') THEN returns[other] ELSE <<>>]
    BY <2>1 DEF KeepKey, Remembers
  <2> HIDE DEF a, b
  <2>6. KeysStand' /\ k \in Kept' BY <1>1, <1>2, <2>3, <2>4, <2>5, UseStands
  <2>7. LogsFollow(k, e) BY <1>5, <2>4, <2>6 DEF LogsFollow
  <2>8. GoesOn(e, e) BY <1>4 DEF GoesOn
  <2>9. RequestsStand' BY <1>2, <2>1, <2>7, <2>8, TakenStands DEF NoneTaken
  <2> QED BY <2>6, <2>9 DEF CeilingsInv
<1> QED BY <1>6, <1>7

\* What became of a request is written where it is logged, and nowhere else.
LEMMA BecomesIs ==
  ASSUME CeilingsInv, NEW r \in Hands, request[r].pc # "idle", NEW what \in {"ahead", "back"}, Becomes(r, what)
  PROVE  /\ request[r].key \in Clients /\ request[r].nth \in Nat
         /\ Pending(log[request[r].key], request[r].nth)
         /\ log' = [log EXCEPT ![request[r].key] = Becoming(log[request[r].key], request[r].nth, what)]
         /\ log' \in [Clients -> Seq(LogEntries)]
<1> DEFINE k == request[r].key
           i == request[r].nth
<1>1. log \in [Clients -> Seq(LogEntries)] /\ AtWork(r) /\ request[r] \in Requests
  BY DEF CeilingsInv, KeysStand, RequestsStand
<1>2. k \in Clients /\ Pending(log[k], i) BY <1>1 DEF AtWork
<1>3. i \in Nat BY <1>1 DEF Requests
<1>4. log' = [log EXCEPT ![k] = Becoming(log[k], i, what)]
  <2>1. log' = IF i = 0 THEN log ELSE [log EXCEPT ![k][i].fate = what] BY DEF Becomes
  <2> HIDE DEF k, i
  <2>2. CASE i = 0 BY <2>1, <2>2, <1>1, <1>2 DEF Becoming
  <2>3. CASE i # 0 BY <2>1, <2>3, <1>1, <1>2 DEF Becoming
  <2> QED BY <2>2, <2>3
<1> HIDE DEF k, i
<1>5. Becoming(log[k], i, what) \in Seq(LogEntries)
  <2>1. what \in {"under way", "ahead", "back"} /\ log[k] \in Seq(LogEntries) BY <1>1, <1>2
  <2> QED BY <2>1, <1>2, <1>3, BecomingIs, Zenon
<1>6. log' \in [Clients -> Seq(LogEntries)] BY <1>1, <1>4, <1>5
<1> QED BY <1>2, <1>3, <1>4, <1>6 DEF k, i

LEMMA NonePending == ASSUME NEW i \in Nat, Pending(<<>>, i) PROVE i = 0
<1>1. i <= Len(<<>>) BY DEF Pending
<1> QED BY <1>1

LEMMA PendingStays ==
  ASSUME NEW e \in Seq(LogEntries), NEW i \in Nat, Pending(e, i), NEW n \in Nat, Pending(e, n),
         n # 0 => n # i, NEW what \in {"ahead", "back"}
  PROVE  Pending(Becoming(e, i, what), n)
<1> DEFINE d == Becoming(e, i, what)
<1>1. what \in {"under way", "ahead", "back"} OBVIOUS
<1>0. /\ d \in Seq(LogEntries) /\ Len(d) = Len(e)
      /\ \A m \in 1..Len(e) : d[m].at = e[m].at /\ (m # i => d[m].fate = e[m].fate)
      /\ i # 0 => d[i].fate = what
  BY ONLY <1>1, e \in Seq(LogEntries), i \in Nat, Pending(e, i), BecomingIs, ZenonT(40)
<1>2. Len(d) = Len(e) /\ \A m \in 1..Len(e) : m # i => d[m].fate = e[m].fate BY <1>0, Zenon
<1>3. n <= Len(e) /\ (n # 0 => n \in 1..Len(e) /\ e[n].fate = "under way") BY PendingIs, Zenon
<1> HIDE DEF d
<1>4. n # 0 => d[n].fate = "under way" BY <1>2, <1>3, Zenon
<1> QED BY <1>2, <1>3, <1>4, Zenon DEF Pending, d

\* A request that ends takes nothing from the others.
LEMMA EndStands ==
  ASSUME CeilingsInv, NEW r \in Hands, request[r].pc # "idle", NEW what \in {"ahead", "back"}, Becomes(r, what),
         request' = [request EXCEPT ![r] = NotUnderWay]
  PROVE  RequestsStand'
<1> USE PaceIs
<1> DEFINE k == request[r].key
           i == request[r].nth
<1>1. /\ request \in [Hands -> Requests] /\ \A q \in Hands : AtWork(q)
      /\ \A p \in Hands : \A q \in Hands \ {p} : Apart(p, q)
      /\ log \in [Clients -> Seq(LogEntries)]
  BY DEF CeilingsInv, RequestsStand, KeysStand
<1>2. /\ k \in Clients /\ i \in Nat /\ Pending(log[k], i)
      /\ log' = [log EXCEPT ![k] = Becoming(log[k], i, what)]
  BY BecomesIs
<1>3. NotUnderWay \in Requests /\ NotUnderWay.pc = "idle" /\ NotUnderWay.nth = 0 BY DEF NotUnderWay, Requests
<1>4. /\ request' \in [Hands -> Requests] /\ request'[r] = NotUnderWay
      /\ \A q \in Hands \ {r} : request'[q] = request[q]
  BY <1>1, <1>3
<1> HIDE DEF k, i
<1>5. ASSUME NEW q \in Hands PROVE AtWork(q)'
  <2>1. CASE q = r BY <2>1, <1>3, <1>4 DEF AtWork
  <2>2. CASE q # r /\ request[q].pc = "idle"
    <3>1. request'[q] = request[q] /\ request[q] = NotUnderWay BY <2>2, <1>1, <1>4 DEF AtWork
    <3> QED BY <3>1, <1>3 DEF AtWork
  <2>3. CASE q # r /\ request[q].pc # "idle"
    <3>1. request[q].key \in Clients /\ Pending(log[request[q].key], request[q].nth) BY <2>3, <1>1 DEF AtWork
    <3>2. request'[q] = request[q] BY <2>3, <1>4
    <3>3. CASE request[q].key # k
      <4>1. log'[request[q].key] = log[request[q].key] BY <3>1, <3>3, <1>1, <1>2
      <4> QED BY <2>3, <3>1, <3>2, <4>1 DEF AtWork
    <3>4. CASE request[q].key = k
      <4>1. PICK n \in Nat : n = request[q].nth
        <5>1. request[q].nth \in Nat BY <1>1 DEF Requests
        <5> QED BY <5>1
      <4>2. Pending(log[k], n) /\ log[k] \in Seq(LogEntries) BY <3>1, <3>4, <4>1, <1>1, <1>2
      <4>3. n # 0 => n # i
        <5>1. q \in Hands \ {r} /\ r \in Hands \ {q} BY <2>3
        <5>2. Apart(q, r) BY <5>1, <1>1
        <5> QED BY <5>2, <3>4, <4>1 DEF Apart, k, i
      <4>4. log'[k] = Becoming(log[k], i, what) BY <1>1, <1>2
      <4>5. Pending(Becoming(log[k], i, what), n) BY <4>2, <4>3, <1>2, PendingStays
      <4> QED BY <2>3, <3>1, <3>2, <3>4, <4>1, <4>4, <4>5 DEF AtWork
    <3> QED BY <3>3, <3>4
  <2> QED BY <2>1, <2>2, <2>3
<1>6. ASSUME NEW p \in Hands, NEW q \in Hands \ {p} PROVE Apart(p, q)'
  <2>1. CASE p = r BY <2>1, <1>3, <1>4 DEF Apart
  <2>2. CASE q = r BY <2>2, <1>3, <1>4 DEF Apart
  <2>3. CASE p # r /\ q # r
    <3>1. request'[p] = request[p] /\ request'[q] = request[q] BY <2>3, <1>4
    <3>2. Apart(p, q) BY <1>1
    <3> QED BY <3>1, <3>2 DEF Apart
  <2> QED BY <2>1, <2>2, <2>3
<1> QED BY <1>4, <1>5, <1>6 DEF RequestsStand

LEMMA TakeWholeInv == ASSUME CeilingsInv, NEW r \in Hands, TakeWhole(r) PROVE CeilingsInv'
<1> USE PaceIs
<1>1. request[r].pc = "whole" /\ UNCHANGED <<moment, recent, own, returns>> BY DEF TakeWhole
<1>2. /\ moment \in 0..MaxMoment /\ whole \in Allowances(WholePace) /\ whole.at <= moment
      /\ KeysStand /\ RequestsStand
  BY DEF CeilingsInv, KeysStand
<1>3. /\ CaughtUp(whole, WholePace) \in Allowances(WholePace) /\ CaughtUp(whole, WholePace).at <= moment
      /\ LetsIn(whole, WholePace) =>
            Spent(whole, WholePace) \in Allowances(WholePace) /\ Spent(whole, WholePace).at <= moment
  <2>1. WholePace.most \in Nat /\ WholePace.interval \in Nat OBVIOUS
  <2> QED BY <2>1, <1>2, AllowanceStays
<1>4. Kept' = Kept /\ (Once(recent) => Once(recent')) /\ (ForgottenIsOldest => ForgottenIsOldest')
  BY <1>1 DEF Kept, ForgottenIsOldest
<1>5. CASE LetsIn(whole, WholePace)
  <2>1. /\ whole' = Spent(whole, WholePace) /\ Becomes(r, "ahead")
        /\ request' = [request EXCEPT ![r] = NotUnderWay]
    BY <1>5 DEF TakeWhole
  <2>2. request[r].pc # "idle" /\ "ahead" \in {"ahead", "back"} BY <1>1
  <2>3. RequestsStand' BY <2>1, <2>2, EndStands
  <2>4. PICK k \in Clients, i \in Nat :
          /\ Pending(log[k], i) /\ log' = [log EXCEPT ![k] = Becoming(log[k], i, "ahead")]
          /\ log' \in [Clients -> Seq(LogEntries)]
    BY <2>1, <2>2, BecomesIs
  <2>5. ASSUME NEW o \in Clients PROVE Standing(o)'
    <3>1. Standing(o) /\ log \in [Clients -> Seq(LogEntries)] BY <1>2 DEF KeysStand
    <3>2. CASE o # k
      <4>1. log'[o] = log[o] BY <2>4, <3>1, <3>2
      <4> QED BY <4>1, <3>1, <1>1, <1>4 DEF Standing
    <3>3. CASE o = k
      <4>1. log'[o] = Becoming(log[o], i, "ahead") /\ Pending(log[o], i) BY <2>4, <3>1, <3>3
      <4>2. CASE o \in Kept
        <5>1. own[o].at <= moment /\ Fair(own[o], log[o], returns[o]) BY <3>1, <4>2 DEF Standing
        <5>2. Fair(own[o], Becoming(log[o], i, "ahead"), returns[o]) BY <4>1, <5>1, FairAhead
        <5> QED BY <4>1, <4>2, <5>1, <5>2, <1>1, <1>4 DEF Standing
      <4>3. CASE o \notin Kept
        <5>1. log[o] = <<>> /\ returns[o] = <<>> BY <3>1, <4>3 DEF Standing
        <5>2. i = 0 BY <4>1, <5>1, NonePending, Zenon
        <5>3. log'[o] = <<>> BY <4>1, <5>1, <5>2 DEF Becoming
        <5> QED BY <4>3, <5>1, <5>3, <1>1, <1>4 DEF Standing
      <4> QED BY <4>2, <4>3
    <3> QED BY <3>2, <3>3
  <2>6. KeysStand' BY <1>1, <1>2, <1>3, <1>4, <1>5, <2>1, <2>4, <2>5 DEF KeysStand
  <2> QED BY <2>3, <2>6 DEF CeilingsInv
<1>6. CASE ~LetsIn(whole, WholePace)
  <2>1. /\ whole' = CaughtUp(whole, WholePace) /\ log' = log
        /\ request' = [request EXCEPT ![r].pc = "refused"]
    BY <1>6 DEF TakeWhole
  <2>2. KeysStand'
    <3>1. \A o \in Clients : Standing(o)' BY <2>1, <1>1, <1>2, <1>4 DEF KeysStand, Standing
    <3> QED BY <3>1, <1>1, <1>2, <1>3, <1>4, <2>1 DEF KeysStand
  <2>3. /\ request \in [Hands -> Requests] /\ \A q \in Hands : AtWork(q)
        /\ \A p \in Hands : \A q \in Hands \ {p} : Apart(p, q)
    BY <1>2 DEF RequestsStand
  <2>4. /\ request' \in [Hands -> Requests] /\ request'[r].pc = "refused"
        /\ \A q \in Hands : request'[q].key = request[q].key /\ request'[q].nth = request[q].nth
        /\ \A q \in Hands \ {r} : request'[q] = request[q]
    BY <2>1, <2>3 DEF Requests
  <2>5. \A q \in Hands : AtWork(q)'
    <3> TAKE q \in Hands
    <3>1. CASE q = r
      <4>1. request[r].key \in Clients /\ Pending(log[request[r].key], request[r].nth)
        BY <1>1, <2>3 DEF AtWork
      <4> QED BY <3>1, <4>1, <2>1, <2>4 DEF AtWork
    <3>2. CASE q # r BY <3>2, <2>1, <2>3, <2>4 DEF AtWork
    <3> QED BY <3>1, <3>2
  <2>6. \A p \in Hands : \A q \in Hands \ {p} : Apart(p, q)' BY <2>3, <2>4 DEF Apart
  <2> QED BY <2>2, <2>4, <2>5, <2>6 DEF CeilingsInv, RequestsStand
<1> QED BY <1>5, <1>6

LEMMA RefundInv == ASSUME CeilingsInv, NEW r \in Hands, Refund(r) PROVE CeilingsInv'
<1> USE PaceIs
<1>1. /\ request[r].pc = "refused" /\ Becomes(r, "back") /\ request' = [request EXCEPT ![r] = NotUnderWay]
      /\ UNCHANGED <<moment, recent, whole>>
  BY DEF Refund
<1>2. request[r].pc # "idle" /\ "back" \in {"ahead", "back"} BY <1>1
<1>3. RequestsStand' BY <1>1, <1>2, EndStands
<1>4. PICK k \in Clients, i \in Nat :
        /\ k = request[r].key /\ i = request[r].nth
        /\ Pending(log[k], i) /\ log' = [log EXCEPT ![k] = Becoming(log[k], i, "back")]
        /\ log' \in [Clients -> Seq(LogEntries)]
  BY <1>1, <1>2, BecomesIs
<1>5. /\ own' = IF k \in Kept THEN [own EXCEPT ![k] = Refunded(own[k], OwnPace)] ELSE own
      /\ returns' = IF k \in Kept
                    THEN [returns EXCEPT ![k] = Append(returns[k], [nth |-> i, after |-> Len(log[k])])]
                    ELSE returns
  BY <1>4 DEF Refund
<1>6. /\ moment \in 0..MaxMoment /\ DOMAIN own = Kept /\ KeysStand
      /\ log \in [Clients -> Seq(LogEntries)] /\ returns \in [Clients -> Seq(ReturnEntries)]
      /\ \A o \in Clients : Standing(o)
  BY DEF CeilingsInv, KeysStand
<1>7. Kept' = Kept BY <1>1 DEF Kept
<1>8. log'[k] = Becoming(log[k], i, "back") /\ \A o \in Clients \ {k} : log'[o] = log[o] BY <1>4, <1>6
<1>9. CASE k \in Kept
  <2> DEFINE g == Append(returns[k], [nth |-> i, after |-> Len(log[k])])
  <2>1. own[k].at <= moment /\ Fair(own[k], log[k], returns[k]) BY <1>6, <1>9 DEF Standing
  <2>2. /\ Fair(Refunded(own[k], OwnPace), Becoming(log[k], i, "back"), g)
        /\ Refunded(own[k], OwnPace).at = own[k].at
    BY <2>1, <1>4, FairRefunded
  <2>3. g \in Seq(ReturnEntries) BY <2>2 DEF Fair
  <2>4. own' = [own EXCEPT ![k] = Refunded(own[k], OwnPace)] /\ returns' = [returns EXCEPT ![k] = g]
    BY <1>5, <1>9
  <2> HIDE DEF g
  <2>5. /\ DOMAIN own' = Kept /\ own'[k] = Refunded(own[k], OwnPace) /\ returns'[k] = g
        /\ \A o \in Kept \ {k} : own'[o] = own[o]
        /\ \A o \in Clients \ {k} : returns'[o] = returns[o]
        /\ returns' \in [Clients -> Seq(ReturnEntries)]
    BY <2>3, <2>4, <1>6, <1>9
  <2>6. ASSUME NEW o \in Clients PROVE Standing(o)'
    <3>1. CASE o = k BY <3>1, <2>1, <2>2, <2>5, <1>1, <1>7, <1>8, <1>9 DEF Standing
    <3>2. CASE o # k BY <3>2, <2>5, <1>1, <1>6, <1>7, <1>8 DEF Standing
    <3> QED BY <3>1, <3>2
  <2>7. ForgottenIsOldest'
    <3>1. \A o \in Kept : own'[o].at = own[o].at BY <2>2, <2>5
    <3>2. \A j \in DOMAIN recent : recent[j] \in Kept BY <1>6 DEF KeysStand, Kept, ToSet
    <3> QED BY <3>1, <3>2, <1>1, <1>6 DEF KeysStand, ForgottenIsOldest
  <2>8. KeysStand' BY <1>1, <1>4, <1>6, <1>7, <2>5, <2>6, <2>7 DEF KeysStand, Once
  <2> QED BY <2>8, <1>3 DEF CeilingsInv
<1>10. CASE k \notin Kept
  <2>1. own' = own /\ returns' = returns BY <1>5, <1>10
  <2>2. log[k] = <<>> BY <1>6, <1>10 DEF Standing
  <2>3. i = 0 BY <1>4, <2>2, NonePending, Zenon
  <2>4. log'[k] = log[k] BY <1>8, <2>3 DEF Becoming
  <2>5. \A o \in Clients : log'[o] = log[o] BY <1>8, <2>4
  <2>6. \A o \in Clients : Standing(o)' BY <2>1, <2>5, <1>1, <1>6, <1>7 DEF Standing
  <2>7. ForgottenIsOldest' BY <2>1, <1>1, <1>6 DEF KeysStand, ForgottenIsOldest
  <2>8. KeysStand' BY <1>1, <1>4, <1>6, <1>7, <2>1, <2>6, <2>7 DEF KeysStand, Once
  <2> QED BY <2>8, <1>3 DEF CeilingsInv
<1> QED BY <1>9, <1>10

LEMMA PassesInv == ASSUME CeilingsInv, Passes PROVE CeilingsInv'
<1> USE PaceIs
<1>1. moment' = moment + 1 /\ moment < MaxMoment /\ UNCHANGED <<recent, own, whole, request, log, returns>>
  BY DEF Passes
<1>2. KeysStand /\ RequestsStand /\ moment \in 0..MaxMoment BY DEF CeilingsInv, KeysStand
<1>3. Kept' = Kept BY <1>1 DEF Kept
<1>4. RequestsStand' BY <1>1, <1>2 DEF RequestsStand, AtWork, Apart
<1>5. whole.at \in Int /\ moment' \in 0..MaxMoment /\ moment <= moment' BY <1>1, <1>2 DEF KeysStand, Allowances
<1>6. whole'.at <= moment' BY <1>1, <1>2, <1>5 DEF KeysStand
<1>7. ASSUME NEW o \in Clients PROVE Standing(o)'
  <2>1. Standing(o) BY <1>2 DEF KeysStand
  <2>2. CASE o \in Kept
    <3>1. own[o].at <= moment /\ Fair(own[o], log[o], returns[o]) BY <2>1, <2>2 DEF Standing
    <3>2. own[o].at \in Int BY <3>1 DEF Fair, Allowances
    <3>3. own[o].at <= moment' BY <3>1, <3>2, <1>2, <1>5
    <3> QED BY <3>1, <3>3, <2>2, <1>1, <1>3 DEF Standing
  <2>3. CASE o \notin Kept BY <2>1, <2>3, <1>1, <1>3 DEF Standing
  <2> QED BY <2>2, <2>3
<1>8. ForgottenIsOldest' /\ Once(recent') BY <1>1, <1>2 DEF KeysStand, ForgottenIsOldest
<1>9. KeysStand' BY <1>1, <1>2, <1>3, <1>5, <1>6, <1>7, <1>8 DEF KeysStand
<1> QED BY <1>4, <1>9 DEF CeilingsInv

LEMMA CeilingsNextInv == ASSUME CeilingsInv, [CeilingsNext]_ceiling_vars PROVE CeilingsInv'
<1>1. CASE UNCHANGED ceiling_vars
  BY <1>1 DEF ceiling_vars, CeilingsInv, KeysStand, RequestsStand, ForgottenIsOldest, Standing, Kept, AtWork, Apart
<1>2. ASSUME NEW r \in Hands, NEW k \in Clients, TakeOwn(r, k) PROVE CeilingsInv' BY <1>2, TakeOwnInv
<1>3. ASSUME NEW r \in Hands, TakeWhole(r) PROVE CeilingsInv' BY <1>3, TakeWholeInv
<1>4. ASSUME NEW r \in Hands, Refund(r) PROVE CeilingsInv' BY <1>4, RefundInv
<1>5. CASE Passes BY <1>5, PassesInv
<1> QED BY <1>1, <1>2, <1>3, <1>4, <1>5 DEF CeilingsNext

\* What a key would hold is never more than its pace gives at once.
LEMMA IdealIsWithin ==
  ASSUME NEW e \in Seq(LogEntries), NEW f, HeldBy(e, f, Len(e))
  PROVE  f[Len(e)] \in Int /\ f[Len(e)] <= OwnPace.most
<1> USE PaceIs
<1>1. Len(e) \in Nat /\ \A n \in 0..Len(e) : EntryAt(e, n) \in Int BY EntriesAt
<1>2. f[Len(e)] \in Int
  <2>1. Len(e) \in 0..Len(e) BY <1>1
  <2> QED BY <2>1 DEF HeldBy
<1>3. CASE Len(e) = 0 BY <1>2, <1>3 DEF HeldBy
<1>4. CASE Len(e) # 0
  <2>1. Len(e) \in 1..Len(e) /\ Len(e) - 1 \in 0..Len(e) /\ Len(e) \in 0..Len(e) BY <1>1, <1>4
  <2>2. f[Len(e)] = NextHeld(e, f[Len(e) - 1], Len(e)) BY <2>1 DEF HeldBy
  <2>3. f[Len(e) - 1] \in Int BY <2>1 DEF HeldBy
  <2>4. PICK x \in Int, y \in Int : x = f[Len(e) - 1] /\ y = EntryAt(e, Len(e)) - EntryAt(e, Len(e) - 1)
    BY <2>1, <2>3, <1>1, SMTT(30)
  <2>5. PICK c \in {0, OwnInterval} : c = IF e[Len(e)].fate = "back" THEN 0 ELSE OwnInterval OBVIOUS
  <2>6. f[Len(e)] = Least2(OwnPace.most, x + y) - c BY <2>2, <2>4, <2>5 DEF NextHeld
  <2> QED BY <2>6, <1>2 DEF Least2
<1> QED BY <1>3, <1>4

\* What a key holds is no less than it would by the requests that went ahead alone.
LEMMA TurnedAwayCosts ==
  ASSUME NEW a, NEW e, NEW g, Fair(a, e, g), a.at <= moment, moment \in 0..MaxMoment
  PROVE  CaughtUp(a, OwnPace).held >= CaughtUp(IdealOf(e), OwnPace).held
<1> USE PaceIs
<1>1. e \in Seq(LogEntries) /\ Whole(a, e) /\ \A n \in DOMAIN e : e[n].at <= a.at BY DEF Fair
<1>2. PICK f : HeldBy(e, f, Len(e)) /\ IdealOf(e) = [held |-> f[Len(e)], at |-> EntryAt(e, Len(e))] BY <1>1, IdealIs
<1>3. f[Len(e)] \in Int /\ f[Len(e)] <= OwnPace.most BY <1>1, <1>2, IdealIsWithin
<1>4. a.held \in 0..OwnPace.most /\ a.at \in 0..MaxMoment BY DEF Fair, Allowances
<1>5. EntryAt(e, Len(e)) \in Int /\ EntryAt(e, Len(e)) <= a.at
  <2>1. Len(e) \in Nat /\ DOMAIN e = 1..Len(e) /\ \A n \in 0..Len(e) : EntryAt(e, n) \in Int BY <1>1, EntriesAt
  <2>2. Len(e) \in 0..Len(e) BY <2>1
  <2>3. CASE Len(e) = 0 BY <2>1, <2>2, <2>3, <1>4 DEF EntryAt
  <2>4. CASE Len(e) # 0
    <3>1. Len(e) \in DOMAIN e BY <2>1, <2>4
    <3> QED BY <3>1, <2>1, <2>2, <2>4, <1>1 DEF EntryAt
  <2> QED BY <2>3, <2>4
<1>6. PICK h \in Int, t \in Int, x \in Int, s \in Int :
        h = a.held /\ t = a.at /\ x = f[Len(e)] /\ s = EntryAt(e, Len(e))
  BY <1>3, <1>4, <1>5
<1>7. h >= Least2(OwnPace.most, x + (t - s)) BY <1>1, <1>2, <1>6 DEF Whole
<1>8. x <= OwnPace.most /\ h <= OwnPace.most /\ s <= t /\ t <= moment /\ moment \in Int BY <1>3, <1>4, <1>5, <1>6
<1>9. CaughtUp(a, OwnPace).held = IF moment > t THEN Least2(OwnPace.most, h + (moment - t)) ELSE h
  BY <1>6 DEF CaughtUp
<1>10. CaughtUp(IdealOf(e), OwnPace).held = IF moment > s THEN Least2(OwnPace.most, x + (moment - s)) ELSE x
  BY <1>2, <1>6 DEF CaughtUp
<1>11. PICK p \in Int, q \in Int :
         /\ p = IF moment > t THEN Least2(OwnPace.most, h + (moment - t)) ELSE h
         /\ q = IF moment > s THEN Least2(OwnPace.most, x + (moment - s)) ELSE x
  BY <1>8 DEF Least2
<1>12. p >= q BY <1>7, <1>8, <1>11 DEF Least2
<1> QED BY <1>9, <1>10, <1>11, <1>12

\* What stands is what holds.
LEMMA CeilingsInvHolds == ASSUME CeilingsInv PROVE CeilingsHold
<1> USE PaceIs
<1>1. /\ moment \in 0..MaxMoment /\ recent \in Seq(Clients) /\ Once(recent) /\ Len(recent) <= MaxKeys
      /\ DOMAIN own = Kept /\ ForgottenIsOldest /\ whole \in Allowances(WholePace)
      /\ log \in [Clients -> Seq(LogEntries)] /\ returns \in [Clients -> Seq(ReturnEntries)]
      /\ \A k \in Clients : Standing(k)
      /\ request \in [Hands -> Requests]
  BY DEF CeilingsInv, KeysStand, RequestsStand
<1>2. Kept \subseteq Clients
  <2>1. \A i \in DOMAIN recent : recent[i] \in Clients BY <1>1
  <2> QED BY <2>1 DEF Kept, ToSet
<1>3. \A k \in Kept : own[k].at <= moment /\ Fair(own[k], log[k], returns[k]) BY <1>1, <1>2 DEF Standing
<1>4. CeilingsTypeOK
  <2>1. \A k \in DOMAIN own : own[k] \in Allowances(OwnPace) BY <1>1, <1>3 DEF Fair
  <2> QED BY <1>1, <1>2, <2>1 DEF CeilingsTypeOK, Requests
<1>5. OrderIsExact BY <1>1, OnceCounts DEF OrderIsExact
<1>6. PaceHolds
  <2> SUFFICES ASSUME NEW k \in Clients, NEW n \in DOMAIN log[k], NEW m \in DOMAIN log[k], n <= m
               PROVE  (Cardinality(GoneAhead(k, n, m)) - Cardinality(GivenMeanwhile(k, n, m))) * OwnInterval
                          <= OwnPace.most + (log[k][m].at - log[k][n].at)
    BY DEF PaceHolds
  <2>1. Standing(k) BY <1>1
  <2>2. k \in Kept
    <3>1. log[k] = <<>> => DOMAIN log[k] = {} OBVIOUS
    <3>2. DOMAIN log[k] # {} OBVIOUS
    <3> QED BY <3>1, <3>2, <2>1 DEF Standing
  <2>3. Paced(log[k], returns[k]) BY <1>3, <2>2 DEF Fair
  <2>4. GoneAhead(k, n, m) = GoneBy(log[k], n, m) BY DEF GoneAhead, GoneBy
  <2>5. GivenMeanwhile(k, n, m) = GivenBy(returns[k], n, m) BY DEF GivenMeanwhile, GivenBy
  <2> QED BY <2>3, <2>4, <2>5 DEF Paced
<1>7. TurnedAwayCostsNothing
  <2> SUFFICES ASSUME NEW k \in Kept
               PROVE  CaughtUp(own[k], OwnPace).held >= CaughtUp(Ideal(k), OwnPace).held
    BY DEF TurnedAwayCostsNothing
  <2>1. own[k].at <= moment /\ Fair(own[k], log[k], returns[k]) BY <1>3
  <2> QED BY <2>1, <1>1, TurnedAwayCosts DEF Ideal
<1> QED BY <1>1, <1>4, <1>5, <1>6, <1>7 DEF CeilingsHold

\* A key goes ahead as its pace allows and no oftener, by the allowance kept for it
\* alone, and a request turned away costs it nothing (ratelimit.go: Admit, take,
\* refund, catchUp, allowanceOf).
THEOREM CeilingsAreHeld == CeilingsSpec => []CeilingsHold
<1>1. CeilingsInit => CeilingsInv BY CeilingsInitInv
<1>2. CeilingsInv /\ [CeilingsNext]_ceiling_vars => CeilingsInv' BY CeilingsNextInv
<1>3. CeilingsInv => CeilingsHold BY CeilingsInvHolds
<1> QED BY <1>1, <1>2, <1>3, PTL DEF CeilingsSpec

-----------------------------------------------------------------------------
(***************************************************************************)
(* Sign-in (Tokens): the margins by which tokens are dated are enough, for *)
(* any lifetimes, any number of instances and any disagreement of their    *)
(* clocks within the one allowed for.                                      *)
(***************************************************************************)

\* Google's token ends no later than some instance thought, by its clock, and one
\* of the reviewers' grant that signs in somebody else came through Google.
SoundGoogle(google) ==
    /\ \E j \in Instances : google.expiry <= google.ends + ahead[j]
    /\ google.grant = Demo /\ google.user # "reviewer" => ThroughGoogle

\* A sign-in is dated by some instance's clock.
SoundSession(session) ==
    /\ SoundGoogle(session.google)
    /\ \E j \in Instances : session.signedInAt = session.signed + ahead[j]

\* What an access token promises: it ends the margin before the Google token
\* inside it, within the sign-in, and when the host was told.
SoundAccess(token) ==
    /\ SoundGoogle(token.google)
    /\ token.expiresAt <= token.google.expiry - GoogleMargin
    /\ \E j \in Instances : token.expiresAt <= token.signed + ahead[j] + SessionLifetime
    /\ \E j \in Instances : token.until + ahead[j] = token.expiresAt

\* A tool was let in the span and a disagreement before its Google token ends
\* by the clock it was let in by.
SoundTool(state) ==
    /\ state.on \in Instances
    /\ SoundGoogle(state.session.google)
    /\ state.at + ahead[state.on] <= state.session.google.expiry - ClockSkew - RequestSpan
    /\ \E j \in Instances :
        state.at + ahead[state.on] <=
            state.session.signed + ahead[j] + SessionLifetime + ClockSkew

SoundCall(state) ==
    /\ state.pc \in {"exchange", "renew"} => state.on \in Instances
    /\ state.pc = "renew" => SoundSession(state.session)
    /\ state.pc = "tool" => SoundTool(state)
    /\ state.pc = "revoke" =>
        SoundGoogle(state.session.google) /\ state.session.google.user # "reviewer"

InTime == \A c \in Calls : call[c].pc = "tool" => now <= call[c].at + RequestSpan

Sound ==
    /\ \A code \in codes : SoundSession(code)
    /\ \A token \in refreshes : SoundSession(token.session)
    /\ \A token \in accesses : SoundAccess(token)
    /\ \A c \in Calls : SoundCall(call[c])

IInv ==
    /\ TypeOK
    /\ ClocksAgree
    /\ Sound
    /\ InTime
    /\ RevokedIsEnded

-----------------------------------------------------------------------------

\* The least of three numbers is one of them, and none is less.
LEMMA LeastOfThree ==
  ASSUME NEW a \in Int, NEW b \in Int, NEW c \in Int
  PROVE  /\ Least({a, b, c}) \in {a, b, c}
         /\ Least({a, b, c}) <= a
         /\ Least({a, b, c}) <= b
         /\ Least({a, b, c}) <= c
  <1>1. \E x \in {a, b, c} : \A y \in {a, b, c} : x <= y
    <2>1. CASE a <= b /\ a <= c
      BY <2>1
    <2>2. CASE b <= a /\ b <= c
      BY <2>2
    <2>3. CASE c <= a /\ c <= b
      BY <2>3
    <2>4. QED
      BY <2>1, <2>2, <2>3
  <1>2. QED
    BY <1>1 DEF Least

\* The least of two numbers is one of them.
LEMMA LeastOfTwo ==
  ASSUME NEW a \in Int, NEW b \in Int
  PROVE  Least({a, b}) \in {a, b}
  <1>1. \E x \in {a, b} : \A y \in {a, b} : x <= y
    <2>1. CASE a <= b
      BY <2>1
    <2>2. CASE b <= a
      BY <2>2
    <2>3. QED
      BY <2>1, <2>2
  <1>2. QED
    BY <1>1 DEF Least

\* When an access token ends is bounded by what is inside it and by the sign-in.
LEMMA AccessEndBounds ==
  ASSUME TypeOK, NEW i \in Instances, NEW session \in Sessions
  PROVE  /\ AccessEnd(i, session) \in Int
         /\ AccessEnd(i, session) <= session.google.expiry - GoogleMargin
         /\ AccessEnd(i, session) <= SessionEnd(session)
  <1>1. /\ Clock(i) + AccessLifetime \in Int
        /\ session.google.expiry - GoogleMargin \in Int
        /\ SessionEnd(session) \in Int
    BY TimesAreNumbers DEF TypeOK, Clock, GoogleMargin, SessionEnd, Sessions, GoogleTokens
  <1>2. QED
    BY <1>1, LeastOfThree DEF AccessEnd

\* When a refresh token ends is a time.
LEMMA RefreshEndIsTime ==
  ASSUME TypeOK, NEW i \in Instances, NEW session \in Sessions
  PROVE  RefreshEnd(i, session) \in Int
  <1>1. /\ Clock(i) + RefreshLifetime \in Int
        /\ SessionEnd(session) \in Int
    BY TimesAreNumbers DEF TypeOK, Clock, SessionEnd, Sessions, GoogleTokens
  <1>2. QED
    BY <1>1, LeastOfTwo DEF RefreshEnd

\* What Google gives is a token that ends no later than the instance thinks.
LEMMA GivenIsSound ==
  ASSUME TypeOK, NEW i \in Instances, NEW sent \in Nat, NEW grant \in Nat,
         NEW user \in Users, NEW refresh \in Nat,
         NEW google \in Given(i, sent, grant, user, refresh)
  PROVE  /\ google \in GoogleTokens
         /\ google.grant = grant /\ google.user = user
         /\ \E j \in Instances : google.expiry <= google.ends + ahead[j]
  <1>1. PICK lasts \in GoogleLasts, given \in sent..now :
            google = [grant |-> grant, user |-> user, refresh |-> refresh,
                      expiry |-> sent + ahead[i] + lasts, ends |-> given + lasts]
    BY DEF Given
  <1>2. lasts \in Nat /\ given \in Nat /\ sent <= given /\ ahead[i] \in Int
    BY TimesAreNumbers DEF TypeOK
  <1>3. google \in GoogleTokens
    BY <1>1, <1>2 DEF GoogleTokens
  <1>4. google.expiry <= google.ends + ahead[i]
    BY <1>1, <1>2
  <1>5. QED
    BY <1>1, <1>3, <1>4

\* A call that is answered is in no state to be held to anything.
LEMMA EndIsSound ==
  ASSUME IInv, NEW c \in Calls, End(c), UNCHANGED <<now, ahead>>
  PROVE  /\ call' \in [Calls -> CallStates]
         /\ \A d \in Calls : SoundCall(call'[d])
         /\ InTime'
  <1>1. Idle \in CallStates
    BY DEF Idle, CallStates, NoSession, NoGoogle, Sessions, GoogleTokens, Demo, Captured, Users
  <1>2. Idle.pc = "idle"
    BY DEF Idle
  <1>3. \A d \in Calls : call'[d] = IF d = c THEN Idle ELSE call[d]
    BY DEF End, IInv, TypeOK
  <1>4. call' \in [Calls -> CallStates]
    BY <1>1 DEF End, IInv, TypeOK
  <1>5. SoundCall(Idle)
    BY <1>2 DEF SoundCall
  <1>6. QED
    BY <1>2, <1>3, <1>4, <1>5 DEF IInv, Sound, InTime

\* What a host is handed is sound.
LEMMA GiveIsSound ==
  ASSUME IInv, NEW i \in Instances, NEW session \in Sessions,
         SoundSession(session), Give(i, session), UNCHANGED <<now, ahead>>
  PROVE  /\ accesses' \subseteq Accesses
         /\ refreshes' \subseteq Refreshes
         /\ \A token \in accesses' : SoundAccess(token)
         /\ \A token \in refreshes' : SoundSession(token.session)
  <1> DEFINE end == AccessEnd(i, session)
             access == [google |-> session.google, expiresAt |-> end,
                        signed |-> session.signed, until |-> now + (end - Clock(i))]
             refresh == [session |-> session, expiresAt |-> RefreshEnd(i, session)]
  <1>1. /\ accesses' = accesses \cup {access}
        /\ refreshes' = refreshes \cup {refresh}
    BY DEF Give
  <1>2. TypeOK
    BY DEF IInv
  <1>3. /\ end \in Int
        /\ end <= session.google.expiry - GoogleMargin
        /\ end <= SessionEnd(session)
    BY <1>2, AccessEndBounds
  <1>4. /\ Clock(i) = now + ahead[i]
        /\ now \in Int /\ ahead[i] \in Int
        /\ session.google \in GoogleTokens /\ session.signed \in Nat /\ session.signedInAt \in Int
    BY <1>2 DEF Clock, TypeOK, Sessions
  <1>5. now + (end - Clock(i)) \in Int /\ now + (end - Clock(i)) + ahead[i] = end
    BY <1>3, <1>4
  <1>6. access \in Accesses
    BY <1>3, <1>4, <1>5 DEF Accesses
  <1>7. refresh \in Refreshes
    BY <1>2, RefreshEndIsTime DEF Refreshes
  <1>8. SoundAccess(access)
    <2>1. PICK j \in Instances : session.signedInAt = session.signed + ahead[j]
      BY DEF SoundSession
    <2>2. end <= session.signed + ahead[j] + SessionLifetime
      BY <1>3, <2>1 DEF SessionEnd
    <2>3. QED
      BY <1>3, <1>5, <2>2 DEF SoundAccess, SoundSession
  <1>9. SoundSession(refresh.session)
    OBVIOUS
  <1>10. accesses' \subseteq Accesses /\ \A token \in accesses' : SoundAccess(token)
    BY <1>1, <1>6, <1>8 DEF IInv, TypeOK, Sound
  <1>11. refreshes' \subseteq Refreshes /\ \A token \in refreshes' : SoundSession(token.session)
    BY <1>1, <1>7, <1>9 DEF IInv, TypeOK, Sound
  <1>12. QED
    BY <1>10, <1>11

\* The parts of the invariant a call of the token endpoint can disturb.
TokensSound ==
    /\ accesses \subseteq Accesses
    /\ refreshes \subseteq Refreshes
    /\ call \in [Calls -> CallStates]
    /\ \A token \in accesses : SoundAccess(token)
    /\ \A token \in refreshes : SoundSession(token.session)
    /\ \A c \in Calls : SoundCall(call[c])
    /\ InTime

\* A step that leaves everything else alone keeps the invariant, though Google
\* may have given a refresh token in the place of another.
LEMMA RestGoesOn ==
  ASSUME IInv, TokensSound', UNCHANGED <<now, ahead, latest, ended, codes, unended>>,
         lastRefresh' \in Nat, dropped' \subseteq Nat, dropped \subseteq dropped'
  PROVE  IInv'
  <1>1. TypeOK'
    BY DEF IInv, TypeOK, TokensSound
  <1>2. ClocksAgree' /\ RevokedIsEnded'
    BY DEF IInv, ClocksAgree, RevokedIsEnded, ThroughGoogle
  <1>3. \A code \in codes' : SoundSession(code)'
    BY DEF IInv, Sound, SoundSession, SoundGoogle, ThroughGoogle
  <1>4. QED
    BY <1>1, <1>2, <1>3 DEF IInv, Sound, TokensSound

\* A step that leaves everything else alone keeps the invariant.
LEMMA RestKept ==
  ASSUME IInv, TokensSound', UNCHANGED <<now, ahead, grants, codes, unended>>
  PROVE  IInv'
  BY RestGoesOn DEF IInv, TypeOK, grants

\* What is sound stays sound while the clocks do not change, and the codes are
\* only added to.
LEMMA SoundnessKept ==
  ASSUME UNCHANGED ahead, codes \subseteq codes'
  PROVE  /\ \A token : SoundAccess(token) => SoundAccess(token)'
         /\ \A session : SoundSession(session) => SoundSession(session)'
         /\ \A state : SoundCall(state) => SoundCall(state)'
  <1>1. ThroughGoogle => ThroughGoogle'
    BY DEF ThroughGoogle
  <1>2. \A google : SoundGoogle(google) => SoundGoogle(google)'
    BY <1>1 DEF SoundGoogle
  <1>3. \A session : SoundSession(session) => SoundSession(session)'
    BY <1>2 DEF SoundSession
  <1>4. \A token : SoundAccess(token) => SoundAccess(token)'
    BY <1>2 DEF SoundAccess
  <1>5. \A state : SoundTool(state) => SoundTool(state)'
    BY <1>2 DEF SoundTool
  <1>6. QED
    BY <1>2, <1>3, <1>4, <1>5 DEF SoundCall

\* A request that is answered with its tokens keeps them sound.
LEMMA IssueIsSound ==
  ASSUME IInv, NEW c \in Calls, NEW i \in Instances, NEW session \in Sessions,
         SoundSession(session), Issue(c, i, session), UNCHANGED <<now, ahead, codes>>
  PROVE  TokensSound'
  <1>1. End(c)
    BY DEF Issue
  <1>2. /\ accesses' \subseteq Accesses
        /\ refreshes' \subseteq Refreshes
        /\ \A token \in accesses' : SoundAccess(token)
        /\ \A token \in refreshes' : SoundSession(token.session)
    <2>1. CASE UNCHANGED <<accesses, refreshes>>
      BY <2>1 DEF IInv, TypeOK, Sound
    <2>2. CASE Give(i, session)
      BY <2>2, GiveIsSound
    <2>3. QED
      BY <2>1, <2>2 DEF Issue
  <1>3. /\ call' \in [Calls -> CallStates]
        /\ \A d \in Calls : SoundCall(call'[d])
        /\ InTime'
    BY <1>1, EndIsSound
  <1>4. /\ \A token \in accesses' : SoundAccess(token)'
        /\ \A token \in refreshes' : SoundSession(token.session)'
        /\ \A d \in Calls : SoundCall(call[d])'
    BY <1>2, <1>3, SoundnessKept
  <1>5. QED
    BY <1>2, <1>3, <1>4 DEF TokensSound

\* A request that is answered without tokens keeps them sound.
LEMMA RefusedIsSound ==
  ASSUME IInv, NEW c \in Calls, End(c), UNCHANGED <<now, ahead, codes, accesses, refreshes>>
  PROVE  TokensSound'
  <1>1. /\ call' \in [Calls -> CallStates]
        /\ \A d \in Calls : SoundCall(call'[d])
        /\ InTime'
    BY EndIsSound
  <1>2. /\ \A token \in accesses' : SoundAccess(token)'
        /\ \A token \in refreshes' : SoundSession(token.session)'
        /\ \A d \in Calls : SoundCall(call[d])'
    BY <1>1, SoundnessKept DEF IInv, Sound
  <1>3. QED
    BY <1>1, <1>2 DEF TokensSound, IInv, TypeOK

\* A request for tokens, by a code or a refresh token, is judged soundly.
LEMMA JudgeIsSound ==
  ASSUME IInv, NEW c \in Calls, NEW i \in Instances, NEW session \in Sessions,
         SoundSession(session), Judge(c, i, session), UNCHANGED <<now, ahead, codes>>
  PROVE  TokensSound'
  <1>1. CASE Issue(c, i, session)
    BY <1>1, IssueIsSound
  <1>2. CASE End(c) /\ UNCHANGED <<accesses, refreshes>>
    BY <1>2, RefusedIsSound
  <1>3. CASE /\ call' = [call EXCEPT ![c].pc = "renew", ![c].on = i, ![c].at = now,
                                     ![c].session = session]
             /\ UNCHANGED <<accesses, refreshes>>
    <2> DEFINE state == [call[c] EXCEPT !.pc = "renew", !.on = i, !.at = now, !.session = session]
    <2>1. call[c] \in CallStates /\ now \in Nat
      BY DEF IInv, TypeOK
    <2>2. /\ state \in CallStates /\ state.pc = "renew" /\ state.on = i
          /\ state.session = session
      BY <2>1 DEF CallStates
    <2>3. call' = [call EXCEPT ![c] = state]
      BY <1>3
    <2>4. \A d \in Calls : call'[d] = IF d = c THEN state ELSE call[d]
      BY <2>3 DEF IInv, TypeOK
    <2>5. call' \in [Calls -> CallStates]
      BY <2>2, <2>3 DEF IInv, TypeOK
    <2>6. SoundCall(state)
      BY <2>2 DEF SoundCall
    <2>7. \A d \in Calls : SoundCall(call'[d])
      BY <2>4, <2>6 DEF IInv, Sound
    <2>8. /\ \A d \in Calls : SoundCall(call[d])'
          /\ \A token \in accesses' : SoundAccess(token)'
          /\ \A token \in refreshes' : SoundSession(token.session)'
      BY <1>3, <2>7, SoundnessKept DEF IInv, Sound
    <2>9. InTime'
      BY <2>2, <2>4 DEF IInv, InTime
    <2>10. QED
      BY <1>3, <2>5, <2>8, <2>9 DEF TokensSound, IInv, TypeOK
  <1>4. QED
    BY <1>1, <1>2, <1>3 DEF Judge

\* Redeem and Renew keep the invariant.
LEMMA TokenEndpointIInv ==
  ASSUME IInv, NEW c \in Calls, Redeem(c) \/ Renew(c)
  PROVE  IInv'
  <1>1. UNCHANGED <<now, ahead, grants, codes, unended>>
    BY DEF Redeem, Renew
  <1>2. CASE Redeem(c)
    <2>1. PICK i \in Instances, code \in codes : Judge(c, i, code)
      BY <1>2 DEF Redeem
    <2>2. code \in Sessions /\ SoundSession(code)
      BY DEF IInv, TypeOK, Codes, Sound
    <2>3. TokensSound'
      BY <1>1, <2>1, <2>2, JudgeIsSound
    <2>4. QED
      BY <1>1, <2>3, RestKept
  <1>3. CASE Renew(c)
    <2>1. PICK i \in Instances, token \in refreshes : Judge(c, i, token.session)
      BY <1>3 DEF Renew
    <2>2. token.session \in Sessions /\ SoundSession(token.session)
      BY DEF IInv, TypeOK, Refreshes, Sound
    <2>3. TokensSound'
      BY <1>1, <2>1, <2>2, JudgeIsSound
    <2>4. QED
      BY <1>1, <2>3, RestKept
  <1>4. QED
    BY <1>2, <1>3

\* Google's numbering, and what it lets go of, stay what they are.
LEMMA GoesOnTyped ==
  ASSUME TypeOK, NEW old \in Nat, NEW refresh \in 0..(lastRefresh + 1), GoesOnWith(old, refresh)
  PROVE  /\ lastRefresh' \in Nat /\ refresh \in Nat
         /\ dropped' \subseteq Nat /\ dropped \subseteq dropped'
  <1>1. lastRefresh \in Nat /\ dropped \subseteq Nat
    BY DEF TypeOK
  <1>2. CASE refresh = old /\ UNCHANGED <<lastRefresh, dropped>>
    BY <1>1, <1>2
  <1>3. CASE NewRefresh(refresh) /\ dropped' = dropped \cup {old}
    BY <1>1, <1>3 DEF NewRefresh
  <1>4. QED
    BY <1>2, <1>3 DEF GoesOnWith

\* Renewed keeps the invariant: the session goes on with what Google gave, which
\* signs in whom it did before.
LEMMA RenewedIInv ==
  ASSUME IInv, NEW c \in Calls, Renewed(c)
  PROVE  IInv'
  <1> DEFINE i == call[c].on
             session == call[c].session
             old == session.google
  <1>1. UNCHANGED <<now, ahead, latest, ended, codes, unended>>
    BY DEF Renewed
  <1>2. i \in Instances /\ session \in Sessions /\ call[c].at \in Nat /\ SoundSession(session)
    BY DEF IInv, TypeOK, CallStates, Sound, SoundCall, Renewed
  <1>3. old \in GoogleTokens /\ SoundGoogle(old)
    BY <1>2 DEF Sessions, SoundSession
  <1>4. CASE End(c) /\ UNCHANGED <<lastRefresh, dropped, accesses, refreshes>>
    BY <1>1, <1>4, RefusedIsSound, RestKept DEF grants
  <1>5. CASE \E refresh \in 0..(lastRefresh + 1) :
                /\ GoesOnWith(old.refresh, refresh)
                /\ \E google \in Given(i, call[c].at, old.grant, old.user, refresh) :
                    Issue(c, i, [session EXCEPT !.google = google])
    <2>1. PICK refresh \in 0..(lastRefresh + 1) :
                /\ GoesOnWith(old.refresh, refresh)
                /\ \E google \in Given(i, call[c].at, old.grant, old.user, refresh) :
                    Issue(c, i, [session EXCEPT !.google = google])
      BY <1>5
    <2>2. PICK google \in Given(i, call[c].at, old.grant, old.user, refresh) :
                Issue(c, i, [session EXCEPT !.google = google])
      BY <2>1
    <2>3. old.grant \in Nat /\ old.user \in Users /\ old.refresh \in Nat
      BY <1>3 DEF GoogleTokens
    <2>4. /\ lastRefresh' \in Nat /\ refresh \in Nat
          /\ dropped' \subseteq Nat /\ dropped \subseteq dropped'
      BY <2>1, <2>3, GoesOnTyped DEF IInv
    <2>5. google \in GoogleTokens /\ SoundGoogle(google)
      BY <1>2, <1>3, <2>3, <2>4, GivenIsSound DEF IInv, SoundGoogle
    <2> DEFINE with == [session EXCEPT !.google = google]
    <2>6. /\ with \in Sessions /\ with.google = google
          /\ with.signedInAt = session.signedInAt /\ with.signed = session.signed
      BY <1>2, <2>5 DEF Sessions
    <2>7. SoundSession(with)
      BY <1>2, <2>5, <2>6 DEF SoundSession
    <2>8. TokensSound'
      BY <1>1, <1>2, <2>2, <2>6, <2>7, IssueIsSound
    <2>9. QED
      BY <1>1, <2>4, <2>8, RestGoesOn
  <1>6. QED
    BY <1>4, <1>5 DEF Renewed

\* A step that only moves one request to a sound state keeps the invariant.
LEMMA MoveIInv ==
  ASSUME IInv, NEW c \in Calls, NEW state \in CallStates,
         call' = [call EXCEPT ![c] = state], SoundCall(state),
         state.pc = "tool" => now <= state.at + RequestSpan,
         UNCHANGED <<now, ahead, grants, issued, unended>>
  PROVE  IInv'
  <1>1. \A d \in Calls : call'[d] = IF d = c THEN state ELSE call[d]
    BY DEF IInv, TypeOK
  <1>2. call' \in [Calls -> CallStates]
    BY DEF IInv, TypeOK
  <1>3. \A d \in Calls : SoundCall(call'[d])
    BY <1>1 DEF IInv, Sound
  <1>4. /\ \A d \in Calls : SoundCall(call[d])'
        /\ \A token \in accesses' : SoundAccess(token)'
        /\ \A token \in refreshes' : SoundSession(token.session)'
    BY <1>3, SoundnessKept DEF IInv, Sound, issued
  <1>5. InTime'
    BY <1>1 DEF IInv, InTime
  <1>6. TokensSound'
    BY <1>2, <1>4, <1>5 DEF TokensSound, IInv, TypeOK, issued
  <1>7. QED
    BY <1>6, RestKept DEF issued

\* ComeBack keeps the invariant.
LEMMA ComeBackIInv ==
  ASSUME IInv, NEW c \in Calls, ComeBack(c)
  PROVE  IInv'
  <1>1. PICK i \in Instances, kind \in {"parent", "demo", "reviewer"} :
            call' = [call EXCEPT ![c].pc = "exchange", ![c].on = i, ![c].at = now, ![c].kind = kind]
    BY DEF ComeBack
  <1> DEFINE state == [call[c] EXCEPT !.pc = "exchange", !.on = i, !.at = now, !.kind = kind]
  <1>2. call[c] \in CallStates /\ now \in Nat
    BY DEF IInv, TypeOK
  <1>3. state \in CallStates /\ state.pc = "exchange" /\ state.on = i
    BY <1>2 DEF CallStates
  <1>4. call' = [call EXCEPT ![c] = state]
    BY <1>1
  <1>5. SoundCall(state)
    BY <1>3 DEF SoundCall
  <1>6. QED
    BY <1>3, <1>4, <1>5, MoveIInv DEF ComeBack

\* Exchange keeps the invariant: the code carries what Google gave, and is itself
\* the sign-in through Google, when the demo account came back.
LEMMA ExchangeIInv ==
  ASSUME IInv, NEW c \in Calls, Exchange(c)
  PROVE  IInv'
  <1> DEFINE i == call[c].on
             user == UserFor(call[c].kind)
  <1>1. UNCHANGED <<now, ahead, ended, refreshes, accesses, unended>> /\ End(c)
    BY DEF Exchange
  <1>2. i \in Instances /\ call[c].at \in Nat /\ now \in Nat /\ ahead[i] \in Int
    BY DEF IInv, TypeOK, CallStates, Sound, SoundCall, Exchange
  <1>3. PICK grant \in 0..(latest + 1), refresh \in 0..(lastRefresh + 1) :
            /\ GrantFor(call[c].kind, grant, refresh)
            /\ \E google \in Given(i, call[c].at, grant, user, refresh) :
                codes' = codes \cup {CodeFor(i, google)}
    BY DEF Exchange
  <1>4. PICK google \in Given(i, call[c].at, grant, user, refresh) :
            codes' = codes \cup {CodeFor(i, google)}
    BY <1>3
  <1>5. /\ grant \in Nat /\ refresh \in Nat /\ user \in Users
        /\ latest' \in Nat /\ lastRefresh' \in Nat
        /\ dropped' \subseteq Nat /\ dropped \subseteq dropped'
    <2>1. grant \in Nat /\ refresh \in Nat /\ user \in Users /\ latest' \in Nat
      BY <1>3 DEF GrantFor, UserFor, Users, IInv, TypeOK
    <2>2. CASE NewRefresh(refresh) /\ UNCHANGED dropped
      BY <2>1, <2>2 DEF NewRefresh, IInv, TypeOK
    <2>3. CASE GoesOnWith(Captured, refresh)
      <3>1. Captured \in Nat
        BY DEF Captured
      <3>2. QED
        BY <1>3, <2>1, <2>3, <3>1, GoesOnTyped DEF IInv
    <2>4. QED
      BY <1>3, <2>1, <2>2, <2>3 DEF GrantFor
  <1>6. /\ google \in GoogleTokens
        /\ \E j \in Instances : google.expiry <= google.ends + ahead[j]
    BY <1>2, <1>5, GivenIsSound DEF IInv
  <1> DEFINE code == CodeFor(i, google)
  <1>7. /\ code \in Codes /\ code.google = google
        /\ code.signedInAt = code.signed + ahead[i]
    BY <1>2, <1>6 DEF CodeFor, Codes, Sessions, Clock
  <1> HIDE DEF code
  <1>8. ASSUME NEW signIn, signIn = code
        PROVE  SoundSession(signIn)'
    <2>1. google.grant = Demo /\ google.user # "reviewer" => ThroughGoogle'
      BY <1>4, <1>7 DEF ThroughGoogle, code
    <2>2. SoundGoogle(google)'
      BY <1>1, <1>6, <2>1 DEF SoundGoogle
    <2>3. QED
      BY <1>1, <1>2, <1>7, <1>8, <2>2 DEF SoundSession
  <1>9. /\ call' \in [Calls -> CallStates]
        /\ \A d \in Calls : SoundCall(call'[d])
        /\ InTime'
    BY <1>1, EndIsSound
  <1>10. TypeOK'
    BY <1>1, <1>4, <1>5, <1>7, <1>9 DEF IInv, TypeOK, code
  <1>11. Sound'
    <2>1. codes \subseteq codes'
      BY <1>4
    <2>2. \A old \in codes : SoundSession(old)'
      BY <1>1, <2>1, SoundnessKept DEF IInv, Sound
    <2>3. /\ \A token \in refreshes' : SoundSession(token.session)'
          /\ \A token \in accesses' : SoundAccess(token)'
          /\ \A d \in Calls : SoundCall(call[d])'
      BY <1>1, <1>9, <2>1, SoundnessKept DEF IInv, Sound
    <2>4. \A signIn \in codes' : SoundSession(signIn)'
      BY <1>4, <1>8, <2>2 DEF code
    <2>5. QED
      BY <2>3, <2>4 DEF Sound
  <1>12. ClocksAgree' /\ RevokedIsEnded'
    BY <1>1, <1>4, <1>5 DEF IInv, ClocksAgree, RevokedIsEnded, ThroughGoogle
  <1>13. QED
    BY <1>9, <1>10, <1>11, <1>12 DEF IInv

\* LetIn keeps the invariant: the margin is what the clocks may disagree by,
\* twice, and the span of a tool.
LEMMA LetInIInv ==
  ASSUME IInv, NEW c \in Calls, LetIn(c)
  PROVE  IInv'
  <1>1. PICK i \in Instances, token \in accesses :
            /\ Admits(i, token)
            /\ call' = [call EXCEPT ![c] =
                          [call[c] EXCEPT !.pc = "tool", !.on = i, !.at = now,
                                          !.session = [call[c].session EXCEPT
                                              !.google = token.google, !.signed = token.signed]]]
    BY DEF LetIn
  <1> DEFINE session == [call[c].session EXCEPT !.google = token.google, !.signed = token.signed]
             state == [call[c] EXCEPT !.pc = "tool", !.on = i, !.at = now, !.session = session]
  <1>2. /\ call[c] \in CallStates /\ now \in Nat /\ token \in Accesses /\ ahead[i] \in Int
        /\ SoundAccess(token)
    BY DEF IInv, TypeOK, Sound
  <1>3. /\ session \in Sessions
        /\ session.google = token.google /\ session.signed = token.signed
    BY <1>2 DEF CallStates, Sessions, Accesses
  <1>4. /\ state \in CallStates /\ state.pc = "tool" /\ state.on = i /\ state.at = now
        /\ state.session = session
    BY <1>2, <1>3 DEF CallStates
  <1>5. call' = [call EXCEPT ![c] = state]
    BY <1>1
  <1>6. now + ahead[i] <= token.expiresAt + ClockSkew
    BY <1>1 DEF Admits, Clock
  <1>7. /\ token.expiresAt \in Int /\ token.signed \in Nat
        /\ token.google.expiry \in Int /\ GoogleMargin = 2 * ClockSkew + RequestSpan
    BY <1>2 DEF Accesses, GoogleTokens, GoogleMargin
  <1>8. now + ahead[i] <= token.google.expiry - ClockSkew - RequestSpan
    <2>1. token.expiresAt <= token.google.expiry - GoogleMargin
      BY <1>2 DEF SoundAccess
    <2>2. QED
      BY <1>2, <1>6, <1>7, <2>1, TimesAreNumbers
  <1>9. PICK j \in Instances : token.expiresAt <= token.signed + ahead[j] + SessionLifetime
    BY <1>2 DEF SoundAccess
  <1>10. now + ahead[i] <= token.signed + ahead[j] + SessionLifetime + ClockSkew
    <2>1. ahead[j] \in Int
      BY DEF IInv, TypeOK
    <2>2. QED
      BY <1>2, <1>6, <1>7, <1>9, <2>1, TimesAreNumbers
  <1>11. SoundTool(state)
    BY <1>2, <1>3, <1>4, <1>8, <1>10 DEF SoundTool, SoundAccess
  <1>12. SoundCall(state)
    BY <1>4, <1>11 DEF SoundCall
  <1>13. now <= state.at + RequestSpan
    BY <1>2, <1>4, TimesAreNumbers
  <1>14. QED
    BY <1>4, <1>5, <1>12, <1>13, MoveIInv DEF LetIn

\* Answer keeps the invariant.
LEMMA AnswerIInv ==
  ASSUME IInv, NEW c \in Calls, Answer(c)
  PROVE  IInv'
  BY RefusedIsSound, RestKept DEF Answer, issued

\* Revoke keeps the invariant: a refresh token that is answered at once signs in
\* a reviewer, of whose grant nothing was promised.
LEMMA RevokeIInv ==
  ASSUME IInv, NEW c \in Calls, Revoke(c)
  PROVE  IInv'
  <1>1. UNCHANGED <<now, ahead, grants, issued>>
    BY DEF Revoke
  <1>2. PICK i \in Instances, kind \in {"refresh", "access"}, token \in refreshes \cup accesses,
             google \in GoogleTokens :
            Present(c, i, kind, token, google) /\ SoundGoogle(google)
    <2>1. PICK i \in Instances :
            \/ \E token \in refreshes : Present(c, i, "refresh", token, token.session.google)
            \/ \E token \in accesses : Present(c, i, "access", token, token.google)
      BY DEF Revoke
    <2>2. CASE \E token \in refreshes : Present(c, i, "refresh", token, token.session.google)
      <3>1. PICK token \in refreshes : Present(c, i, "refresh", token, token.session.google)
        BY <2>2
      <3>2. token.session.google \in GoogleTokens /\ SoundGoogle(token.session.google)
        BY DEF IInv, TypeOK, Refreshes, Sessions, Sound, SoundSession
      <3>3. QED
        BY <3>1, <3>2
    <2>3. CASE \E token \in accesses : Present(c, i, "access", token, token.google)
      <3>1. PICK token \in accesses : Present(c, i, "access", token, token.google)
        BY <2>3
      <3>2. token.google \in GoogleTokens /\ SoundGoogle(token.google)
        BY DEF IInv, TypeOK, Accesses, Sound, SoundAccess
      <3>3. QED
        BY <3>1, <3>2
    <2>4. QED
      BY <2>1, <2>2, <2>3
  <1>3. CASE /\ ~IsDemo(google)
             /\ call' = [call EXCEPT ![c].pc = "revoke", ![c].at = now, ![c].kind = kind,
                                     ![c].session.google = google]
             /\ UNCHANGED unended
    <2> DEFINE session == [call[c].session EXCEPT !.google = google]
               state == [call[c] EXCEPT !.pc = "revoke", !.at = now, !.kind = kind, !.session = session]
    <2>1. call[c] \in CallStates /\ now \in Nat
      BY DEF IInv, TypeOK
    <2>2. session \in Sessions /\ session.google = google
      BY <2>1 DEF CallStates, Sessions
    <2>3. state \in CallStates /\ state.pc = "revoke" /\ state.session = session
      BY <2>1, <2>2 DEF CallStates
    <2>4. call' = [call EXCEPT ![c] = state]
      BY <1>3
    <2>5. SoundCall(state)
      BY <1>2, <1>3, <2>2, <2>3 DEF SoundCall, IsDemo
    <2>6. QED
      BY <1>1, <1>3, <2>3, <2>4, <2>5, MoveIInv
  <1>4. CASE /\ IsDemo(google) \/ ~MayEnd(i, kind, token)
             /\ Told(kind, google, ended)
             /\ End(c)
    <2>1. unended' = unended
      BY <1>4 DEF Told, IsDemo, MayEnd
    <2>2. QED
      BY <1>1, <1>4, <2>1, RefusedIsSound, RestKept DEF issued
  <1>5. QED
    BY <1>2, <1>3, <1>4 DEF Present

\* Revoking keeps the invariant: what is told over is ended at Google first,
\* unless Google honours the refresh token no more.
LEMMA RevokingIInv ==
  ASSUME IInv, NEW c \in Calls, Revoking(c)
  PROVE  IInv'
  <1> DEFINE google == call[c].session.google
             kind == call[c].kind
             over == IF Honours(kind, google) THEN ended \cup {google.grant} ELSE ended
  <1>1. UNCHANGED <<now, ahead, latest, lastRefresh, dropped, issued>> /\ End(c)
    BY DEF Revoking
  <1>2. google \in GoogleTokens /\ SoundGoogle(google) /\ google.user # "reviewer"
    BY DEF IInv, TypeOK, CallStates, Sessions, Sound, SoundCall, Revoking
  <1>3. google.grant \in Nat /\ google.refresh \in Nat
    BY <1>2 DEF GoogleTokens
  <1>4. ended' = ended \/ ended' = ended \cup {google.grant}
    BY DEF Revoking
  <1>5. ended' \subseteq Nat
    BY <1>3, <1>4 DEF IInv, TypeOK
  <1>6. unended' \subseteq unended \cup dropped
    <2>1. CASE Told(kind, google, over)
      BY <2>1, <1>3 DEF Told, Honours
    <2>2. QED
      BY <2>1 DEF Revoking
  <1>7. unended' \subseteq dropped /\ unended' \subseteq Nat
    BY <1>6 DEF IInv, TypeOK, RevokedIsEnded
  <1>8. Demo \in ended' => ThroughGoogle
    BY <1>2, <1>4 DEF IInv, RevokedIsEnded, SoundGoogle
  <1>9. TokensSound'
    BY <1>1, RefusedIsSound DEF issued
  <1>10. TypeOK'
    BY <1>1, <1>5, <1>7, <1>9 DEF IInv, TypeOK, TokensSound, issued
  <1>11. \A code \in codes' : SoundSession(code)'
    BY <1>1, SoundnessKept DEF IInv, Sound, issued
  <1>12. ClocksAgree' /\ RevokedIsEnded'
    BY <1>1, <1>7, <1>8 DEF IInv, ClocksAgree, RevokedIsEnded, ThroughGoogle, issued
  <1>13. QED
    BY <1>9, <1>10, <1>11, <1>12 DEF IInv, Sound, TokensSound

\* Google lets go of a refresh token, and nothing here changes by it.
LEMMA LapseIInv ==
  ASSUME IInv, Lapse
  PROVE  IInv'
  <1>1. PICK session \in codes \cup {token.session : token \in refreshes} :
            dropped' = dropped \cup {session.google.refresh}
    BY DEF Lapse
  <1>2. session \in Sessions
    BY DEF IInv, TypeOK, Codes, Refreshes
  <1>3. dropped' \subseteq Nat /\ dropped \subseteq dropped'
    BY <1>1, <1>2 DEF IInv, TypeOK, Sessions, GoogleTokens
  <1>4. /\ UNCHANGED <<now, ahead, latest, ended, lastRefresh, codes, unended>>
        /\ UNCHANGED <<refreshes, accesses, call>>
    BY DEF Lapse, issued
  <1>5. TokensSound'
    <2>1. /\ \A token \in accesses' : SoundAccess(token)'
          /\ \A token \in refreshes' : SoundSession(token.session)'
          /\ \A c \in Calls : SoundCall(call[c])'
      BY <1>4, SoundnessKept DEF IInv, Sound
    <2>2. QED
      BY <1>4, <2>1 DEF TokensSound, IInv, TypeOK, InTime
  <1>6. QED
    BY <1>3, <1>4, <1>5, RestGoesOn DEF IInv, TypeOK

\* Time that passes keeps the invariant: a tool ends within its span.
LEMMA TickIInv ==
  ASSUME IInv, Tick
  PROVE  IInv'
  <1>1. now' = now + 1 /\ now < MaxTime /\ now \in Nat
    BY DEF Tick, IInv, TypeOK
  <1>2. /\ UNCHANGED <<ahead, latest, ended, lastRefresh, dropped>>
        /\ UNCHANGED <<codes, refreshes, accesses, call, unended>>
    BY DEF Tick, grants, issued
  <1>3. TypeOK'
    BY <1>1, <1>2, TimesAreNumbers DEF IInv, TypeOK
  <1>4. ClocksAgree' /\ RevokedIsEnded'
    BY <1>2 DEF IInv, ClocksAgree, RevokedIsEnded, ThroughGoogle
  <1>5. Sound'
    BY <1>2, SoundnessKept DEF IInv, Sound
  <1>6. InTime'
    <2>1. \A c \in Calls : call[c].at \in Nat
      BY DEF IInv, TypeOK, CallStates
    <2>2. \A c \in Calls : call[c].pc = "tool" => now < call[c].at + RequestSpan
      BY DEF Tick
    <2>3. QED
      BY <1>1, <1>2, <2>1, <2>2, TimesAreNumbers DEF InTime
  <1>7. QED
    BY <1>3, <1>4, <1>5, <1>6 DEF IInv

\* Initially nothing is issued, and the clocks agree.
LEMMA InitIInv == Init => IInv
  <1> SUFFICES ASSUME Init PROVE IInv
    OBVIOUS
  <1>1. Idle \in CallStates /\ Idle.pc = "idle"
    BY DEF Idle, CallStates, NoSession, NoGoogle, Sessions, GoogleTokens, Demo, Captured, Users
  <1>2. call \in [Calls -> CallStates] /\ \A c \in Calls : call[c] = Idle
    BY <1>1 DEF Init
  <1>3. TypeOK
    BY <1>2, TimesAreNumbers DEF Init, TypeOK, Captured
  <1>4. Sound /\ InTime
    BY <1>1, <1>2 DEF Init, Sound, SoundCall, InTime
  <1>5. QED
    BY <1>3, <1>4 DEF Init, IInv, RevokedIsEnded

\* Every step keeps the invariant.
LEMMA NextIInv == IInv /\ [Next]_vars => IInv'
  <1> SUFFICES ASSUME IInv, [Next]_vars PROVE IInv'
    OBVIOUS
  <1>1. CASE UNCHANGED vars
    <2>1. TokensSound'
      BY <1>1, SoundnessKept DEF vars, IInv, TypeOK, Sound, InTime, TokensSound
    <2>2. QED
      BY <1>1, <2>1, RestKept DEF vars, grants
  <1>2. CASE Tick \/ Lapse
    BY <1>2, TickIInv, LapseIInv
  <1>3. ASSUME NEW c \in Calls,
               \/ ComeBack(c) \/ Exchange(c)
               \/ Redeem(c) \/ Renew(c) \/ Renewed(c)
               \/ LetIn(c) \/ Answer(c)
               \/ Revoke(c) \/ Revoking(c)
        PROVE  IInv'
    BY <1>3, ComeBackIInv, ExchangeIInv, TokenEndpointIInv, RenewedIInv, LetInIInv,
       AnswerIInv, RevokeIInv, RevokingIInv
  <1>4. QED
    BY <1>1, <1>2, <1>3 DEF Next

\* The invariant holds of every behaviour.
THEOREM Invariant == Spec => []IInv
  BY InitIInv, NextIInv, PTL DEF Spec

\* Every variable keeps its type.
THEOREM TypeCorrect == Spec => []TypeOK
  <1>1. IInv => TypeOK
    BY DEF IInv
  <1>2. QED
    BY <1>1, Invariant, PTL

\* A tool that was let in reaches Drive with a Google token that has not ended,
\* whatever clocks issued and checked the tokens on its way (grants.go:36-45).
THEOREM ToolsReach == Spec => []ToolsReachDrive
  <1>1. IInv => ToolsReachDrive
    <2> SUFFICES ASSUME IInv, NEW c \in Calls, call[c].pc = "tool"
                 PROVE  /\ now <= call[c].session.google.ends
                        /\ Clock(call[c].on) <= call[c].session.google.expiry
      BY DEF ToolsReachDrive
    <2> DEFINE i == call[c].on
               google == call[c].session.google
    <2>1. /\ SoundTool(call[c]) /\ now <= call[c].at + RequestSpan
          /\ google \in GoogleTokens /\ call[c].at \in Nat /\ i \in Instances
      BY DEF IInv, Sound, SoundCall, SoundTool, InTime, TypeOK, CallStates, Sessions
    <2>2. PICK j \in Instances : google.expiry <= google.ends + ahead[j]
      BY <2>1 DEF SoundTool, SoundGoogle
    <2>3. call[c].at + ahead[i] <= google.expiry - ClockSkew - RequestSpan
      BY <2>1 DEF SoundTool
    <2>4. ahead[j] - ahead[i] <= ClockSkew
      BY <2>1, <2>2 DEF IInv, ClocksAgree
    <2>5. /\ now \in Nat /\ ahead[i] \in Int /\ ahead[j] \in Int
          /\ google.expiry \in Int /\ google.ends \in Nat
      BY <2>1, <2>2 DEF IInv, TypeOK, GoogleTokens
    <2>6. now <= google.ends
      BY <2>1, <2>2, <2>3, <2>4, <2>5, TimesAreNumbers
    <2>7. now + ahead[i] <= google.expiry
      BY <2>1, <2>3, <2>5, TimesAreNumbers
    <2>8. QED
      BY <2>6, <2>7 DEF Clock
  <1>2. QED
    BY <1>1, Invariant, PTL

\* An access token is taken everywhere for as long as the host was told
\* (grants.go:175-182, access.go:16-23).
THEOREM TakenAsTold == Spec => []TakenAsLongAsTold
  <1>1. IInv => TakenAsLongAsTold
    <2> SUFFICES ASSUME IInv, NEW token \in accesses, now <= token.until, NEW i \in Instances
                 PROVE  Admits(i, token)
      BY DEF TakenAsLongAsTold
    <2>1. PICK j \in Instances : token.until + ahead[j] = token.expiresAt
      BY DEF IInv, Sound, SoundAccess
    <2>2. ahead[i] - ahead[j] <= ClockSkew
      BY DEF IInv, ClocksAgree
    <2>3. /\ now \in Nat /\ ahead[i] \in Int /\ ahead[j] \in Int
          /\ token.until \in Int /\ token.expiresAt \in Int
      BY DEF IInv, TypeOK, Accesses
    <2>4. QED
      BY <2>1, <2>2, <2>3, TimesAreNumbers DEF Admits, Clock
  <1>2. QED
    BY <1>1, Invariant, PTL

\* No request is let in by the tokens of a sign-in later than a sign-in lasts,
\* and twice what the clocks disagree by (grants.go:24-27).
THEOREM SignInBounds == Spec => []BoundedBySignIn
  <1>1. IInv => BoundedBySignIn
    <2> SUFFICES ASSUME IInv, NEW c \in Calls, call[c].pc = "tool"
                 PROVE  call[c].at <= call[c].session.signed + SessionLifetime + 2 * ClockSkew
      BY DEF BoundedBySignIn
    <2>1. SoundTool(call[c]) /\ call[c].at \in Nat /\ call[c].session.signed \in Nat
      BY DEF IInv, Sound, SoundCall, TypeOK, CallStates, Sessions
    <2>2. PICK j \in Instances :
            call[c].at + ahead[call[c].on] <=
                call[c].session.signed + ahead[j] + SessionLifetime + ClockSkew
      BY <2>1 DEF SoundTool
    <2>3. /\ ahead[j] - ahead[call[c].on] <= ClockSkew
          /\ ahead[j] \in Int /\ ahead[call[c].on] \in Int
      BY <2>1 DEF IInv, ClocksAgree, SoundTool, TypeOK
    <2>4. QED
      BY <2>1, <2>2, <2>3, TimesAreNumbers
  <1>2. QED
    BY <1>1, Invariant, PTL

\* A code is taken by every instance from the moment it is issued
\* (token.go:113-116).
THEOREM CodesTaken == Spec => []CodesAreTaken
  <1> DEFINE Past == \A code \in codes : code.signed <= now
  <1>1. Init => Past
    BY DEF Init
  <1>2. IInv /\ Past /\ [Next]_vars => Past'
    <2> SUFFICES ASSUME IInv, Past, [Next]_vars PROVE Past'
      OBVIOUS
    <2>1. \A code \in codes : code.signed \in Nat
      BY DEF IInv, TypeOK, Codes, Sessions
    <2>2. CASE UNCHANGED <<codes, now>>
      BY <2>2
    <2>3. CASE Tick
      BY <2>1, <2>3 DEF Tick, issued, IInv, TypeOK
    <2>4. CASE \E c \in Calls : Exchange(c)
      <3>1. PICK c \in Calls : Exchange(c)
        BY <2>4
      <3>2. PICK google : codes' = codes \cup {CodeFor(call[c].on, google)}
        BY <3>1 DEF Exchange
      <3>3. CodeFor(call[c].on, google).signed = now /\ now \in Nat /\ now' = now
        BY <3>1 DEF CodeFor, Exchange, IInv, TypeOK
      <3>4. QED
        BY <3>2, <3>3
    <2>5. QED
      BY <2>2, <2>3, <2>4 DEF Next, vars, issued, ComeBack, Redeem, Renew, Renewed,
         LetIn, Answer, Revoke, Revoking, Lapse
  <1>3. IInv /\ Past => CodesAreTaken
    <2> SUFFICES ASSUME IInv, Past, NEW i \in Instances, NEW code \in codes
                 PROVE  /\ now <= code.signed + CodeLifetime - ClockSkew => TakesCode(i, code)
                        /\ TakesCode(i, code) => now <= code.signed + CodeLifetime + ClockSkew
      BY DEF CodesAreTaken
    <2>1. PICK j \in Instances : code.signedInAt = code.signed + ahead[j]
      BY DEF IInv, Sound, SoundSession
    <2>2. ahead[i] - ahead[j] <= ClockSkew /\ ahead[j] - ahead[i] <= ClockSkew
      BY DEF IInv, ClocksAgree
    <2>3. /\ now \in Nat /\ ahead[i] \in Int /\ ahead[j] \in Int
          /\ code.signed \in Nat /\ code.signed <= now
      BY DEF IInv, TypeOK, Codes, Sessions
    <2>4. QED
      BY <2>1, <2>2, <2>3, TimesAreNumbers DEF TakesCode, Clock
  <1>4. QED
    BY <1>1, <1>2, <1>3, Invariant, PTL DEF Spec

\* What a host is told revoked is ended at Google, unless Google honours the
\* refresh token no more, and no reviewer's token ends the grant the reviewers
\* share (revoke.go:30-39, 84-87, reviewer.go:57-63).
THEOREM RevokedEnds == Spec => []RevokedIsEnded
  <1>1. IInv => RevokedIsEnded
    BY DEF IInv
  <1>2. QED
    BY <1>1, Invariant, PTL

\* Over any instances whose clocks disagree within the margin, what was given is
\* good for as long as it was said to be.
THEOREM GivenHolds == Spec => []GivenIsGood
  BY ToolsReach, TakenAsTold, CodesTaken, PTL DEF GivenIsGood

\* No chain of renewals, however long, outlasts the sign-in; a grant its host was
\* told is ended is ended at Google, but where Google had let go of the refresh
\* token presented, and no reviewer ends the reviewers'.
THEOREM GivenIsEnded == Spec => []GivenEnds
  BY TypeCorrect, SignInBounds, RevokedEnds, PTL DEF GivenEnds

=============================================================================
