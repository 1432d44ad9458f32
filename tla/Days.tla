-------------------------------- MODULE Days --------------------------------
(***************************************************************************)
(* The day the limits of a family count (Daily of internal/domain/profile, *)
(* task.go): it ends at the family's midnight by the clock it began under, *)
(* a clock the child's device tells with an answer.  Every instance of the *)
(* service reads and writes the counters by a clock of its own.            *)
(*                                                                         *)
(* Times count the quarters of UTC days.                                   *)
(***************************************************************************)
EXTENDS Integers

CONSTANTS
    DayLength,      \* how long a day is
    Offsets,        \* how far a clock may run ahead of UTC
    DailyTasks,     \* the tasks a day has room for
    Skews,          \* how far the clocks of the instances may be apart
    MaxAtOnce,      \* bound: how many tasks can be handed out at one time
    MaxMoment,      \* bound: how long it all goes on
    MaxClocks       \* bound: how many clocks are told

ASSUME DaysAreTimes ==
    /\ {DayLength, DailyTasks} \subseteq Nat \ {0}
    /\ Offsets \subseteq Int /\ 0 \in Offsets
    /\ Skews \subseteq Nat
    /\ {MaxAtOnce, MaxMoment} \subseteq Nat /\ MaxClocks \in Nat

VARIABLES
    moment,     \* the true time
    skew,       \* how far from it a clock of the service may be
    daily,      \* Daily: the counters of the profile
    request,    \* whether a request for a task is open
    handed,     \* history: how many tasks were handed out no longer ago than each age under a day's
    clocks      \* history: how many clocks were told

day_vars == <<moment, skew, daily, request, handed, clocks>>

NoEnd == -DayLength * MaxMoment

DaysTypeOK ==
    /\ moment \in Nat
    /\ skew \in Skews
    /\ daily \in [accepted : Nat, date : Int, ends : Int, offset : Offsets]
    /\ request \in BOOLEAN
    /\ handed \in [0..DayLength - 1 -> Nat]
    /\ clocks \in 0..MaxClocks

-----------------------------------------------------------------------------
(* The day                                                                 *)

\* dayFrom: nothing counted yet, the date the clock shows, and its end at the
\* clock's next midnight.
DayFrom(now, offset) ==
    LET date == (now + offset) \div DayLength
    IN  [accepted |-> 0, date |-> date, ends |-> (date + 1) * DayLength - offset, offset |-> offset]

\* ends: a file from before the family's clock was kept ends its day at the UTC
\* midnight after its date.
Ends(d) == IF d.ends # NoEnd THEN d.ends ELSE (d.date + 1) * DayLength

\* Mutant: a day lasts until its end, however early it is read.
TodayUntil(d, now) == IF now < Ends(d) THEN d ELSE DayFrom(now, d.offset)

\* Mutant: a day goes by its date, as the clock shows it now.
TodayByDate(d, now) ==
    IF (now + d.offset) \div DayLength = d.date THEN d ELSE DayFrom(now, d.offset)

\* Today: the counters while their day lasts, a day begun now otherwise.
Today(d, now) ==
    IF Ends(d) - DayLength <= now /\ now < Ends(d) THEN d ELSE DayFrom(now, d.offset)

\* The day a file holds to begin with: begun by the clock it is under, or kept
\* by a build that knew no clocks, or by a hand, yesterday, today or tomorrow.
DaysInit ==
    /\ moment = DayLength
    /\ skew \in Skews
    /\ daily \in {DayFrom(DayLength, offset) : offset \in Offsets}
            \cup [accepted : 0..DailyTasks, date : 0..2, ends : {NoEnd}, offset : {0}]
    /\ request = FALSE
    /\ handed = [age \in 0..DayLength - 1 |-> 0]
    /\ clocks = 0

-----------------------------------------------------------------------------
(* The steps, by the clock of one instance or another                      *)

Nows == {now \in moment - skew..moment + skew : now >= 0}

\* Daily.reached.
HasRoom(d, now) == Today(d, now).accepted < DailyTasks

\* next_task: a request is opened if the day has room for another task.
OpenRequest ==
    /\ ~request /\ handed[0] < MaxAtOnce
    /\ \E now \in Nows : HasRoom(daily, now)
    /\ request' = TRUE
    /\ UNCHANGED <<moment, skew, daily, handed, clocks>>

\* CountAccepted.
Counted(d, now) == [Today(d, now) EXCEPT !.accepted = @ + 1]

\* handOut: a task reaches the child, and is counted.
HandOutToday ==
    /\ request
    /\ request' = FALSE
    /\ \E now \in Nows : daily' = Counted(daily, now)
    /\ handed' = [age \in DOMAIN handed |-> handed[age] + 1]
    /\ UNCHANGED <<moment, skew, clocks>>

\* Mutant: a clock told moves the end of the day under way.
ClockAtOnce(d, offset) ==
    [d EXCEPT !.offset = offset, !.ends = Ends(d) + d.offset - offset]

\* SetClock.
ClockSet(d, offset) == [d EXCEPT !.offset = offset]

\* An answer tells the clock of the device it was given on.
TellClock ==
    /\ clocks < MaxClocks
    /\ clocks' = clocks + 1
    /\ \E offset \in Offsets \ {daily.offset} : daily' = ClockSet(daily, offset)
    /\ UNCHANGED <<moment, skew, request, handed>>

TimePasses ==
    /\ moment < MaxMoment
    /\ moment' = moment + 1
    /\ handed' = [age \in DOMAIN handed |-> IF age = 0 THEN 0 ELSE handed[age - 1]]
    /\ UNCHANGED <<skew, daily, request, clocks>>

DaysNext == OpenRequest \/ HandOutToday \/ TellClock \/ TimePasses

DaysSpec == DaysInit /\ [][DaysNext]_day_vars

-----------------------------------------------------------------------------

\* The day being counted is left only at an edge of it, within what the clocks
\* of the instances are apart, whatever clocks were told in it (SetClock:
\* "neither ends a day sooner nor carries its tasks into the next").
LeftAtAnEdge ==
    Ends(daily') # Ends(daily) =>
        \/ moment + skew >= Ends(daily)
        \/ moment - skew < Ends(daily) - DayLength

\* A task is counted in a day it was handed out in, within what the clocks are
\* apart: yesterday's tasks hold back nothing today (Today).
CountedInItsDay ==
    request /\ ~request' =>
        Ends(daily') - DayLength <= moment + skew /\ moment - skew < Ends(daily')

\* Days are whole: none is cut short, and what is counted is counted in its own.
DaysAreWhole == [][LeftAtAnEdge /\ CountedInItsDay]_day_vars

\* A family is given no more tasks in any day's length than two days have room
\* for, and those of one more day for each clock its devices told; the
\* instances' clocks agreeing.
NoMoreThanTheDays ==
    DaysTypeOK /\ (skew = 0 => handed[DayLength - 1] <= DailyTasks * (2 + clocks))
=============================================================================
