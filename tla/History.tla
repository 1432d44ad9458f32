------------------------------ MODULE History ------------------------------
(***************************************************************************)
(* What the profile remembers of the answers: a window of the latest       *)
(* entries, which lets one go when it is over full, and where the child    *)
(* stood as each day of the week began (answer.go, history.go, request.go  *)
(* of internal/domain/profile).                                            *)
(*                                                                         *)
(* The level is arithmetic on real numbers, left out: a level is known by  *)
(* how many answers it rests on.                                           *)
(***************************************************************************)
EXTENDS Integers, Sequences, FiniteSets, SequencesExt, FiniteSetsExt

CONSTANTS
    Subjects,       \* the topics
    TrialSeries,    \* how many answers the trial series takes
    MaxRecent,      \* how many entries the window holds
    MinRecent,      \* how many of the latest answers it keeps
    RatingDaysKept, \* how many days a week has
    MaxEntries,     \* bound: how many tasks are looked at
    MaxDate         \* bound: how many days

ASSUME WindowFits ==
    /\ {TrialSeries, MaxRecent, MinRecent, RatingDaysKept} \subseteq Nat \ {0}
    /\ TrialSeries <= MinRecent /\ MinRecent <= MaxRecent
    /\ MaxEntries \in Nat /\ MaxDate \in Nat

VARIABLES
    today,      \* the date
    window,     \* Recent: the latest entries, the oldest first
    rated,      \* how many answers the level rests on
    met,        \* the topics: how many answers each rests on
    days,       \* RatingDays: where the child stood as each day began, in the order of their dates
    entries,    \* how many tasks were looked at
    past,       \* history: every answer there was
    lost        \* history: how many there were when an earlier build last wrote the file

history_vars == <<today, window, rated, met, days, entries, past, lost>>

\* No date.
Never == -1

\* nth is history: which answer it is, 0 for a skipped task.  kept tells whether
\* the level before it is (Before).
WindowEntries == [nth : 0..MaxEntries, skipped : BOOLEAN, date : 0..MaxDate, kept : BOOLEAN]

\* The days are of different dates and within a week, or the file is refused
\* (validateRatingDays).
HistoryTypeOK ==
    /\ today \in 0..MaxDate
    /\ window \in Seq(WindowEntries) /\ Len(window) <= MaxRecent
    /\ rated \in 0..MaxEntries
    /\ met \in [Subjects -> 0..MaxEntries]
    /\ days \subseteq [date : 0..MaxDate, met : SUBSET Subjects, level : 0..MaxEntries,
                       unkept : Never..MaxDate]
    /\ \A d, e \in days : d # e => d.date # e.date /\ d.date - e.date < RatingDaysKept
    /\ entries \in 0..MaxEntries
    /\ past \in Seq([subject : Subjects, date : 0..MaxDate])
    /\ lost \in 0..MaxEntries

HistoryInit ==
    /\ today = 0
    /\ window = <<>>
    /\ rated = 0
    /\ met = [s \in Subjects |-> 0]
    /\ days = {}
    /\ entries = 0
    /\ past = <<>>
    /\ lost = 0

-----------------------------------------------------------------------------
(* The window                                                              *)

Given(held) == {n \in DOMAIN held : ~held[n].skipped}

AnswersAfter(held, place) == Cardinality({n \in Given(held) : n > place})

\* The oldest skipped task, 0 if there is none.
OldestSkipped(held) ==
    LET skipped == DOMAIN held \ Given(held) IN IF skipped = {} THEN 0 ELSE Min(skipped)

\* Mutant: the oldest goes, whatever it is.
LeavingOldest(held) == 1

\* Mutant: answers stay, and skipped tasks make room for them.
LeavingSkipped(held) == OldestSkipped(held)

\* leaving: the oldest entry, unless it is one of the latest answers kept, and
\* then the oldest skipped task.
Leaving(held) ==
    IF Head(held).skipped \/ AnswersAfter(held, 1) >= MinRecent THEN 1 ELSE OldestSkipped(held)

\* remember: a file holds no more than the window to begin with, so one goes.
\* No entry to let go of is a panic, and nothing is written.
Remembers(held) ==
    IF Len(held) <= MaxRecent THEN window' = held
    ELSE Leaving(held) # 0 /\ window' = RemoveAt(held, Leaving(held))

\* trialSoFar: the last answers of the window, as many as the level rests on.
TrialSoFar == {n \in Given(window) : AnswersAfter(window, n) < rated}

-----------------------------------------------------------------------------
(* The days                                                                *)

InTrial == rated < TrialSeries

\* weekFrom.
WeekFrom(date) == date - (RatingDaysKept - 1)

DatesOf(places) == {window[n].date : n \in places}

\* Mutant: a skipped task, which keeps no level, is not passed over.
LastUnkeptEntry == Max({Never} \cup DatesOf({n \in DOMAIN window : ~window[n].kept}))

\* lastUnkeptAnswer: the latest answer of the window that keeps no level.
LastUnkeptAnswer == Max({Never} \cup DatesOf({n \in Given(window) : ~window[n].kept}))

\* holdsDayFrom: the last day is the one of the latest date.
HoldsDayFrom(date) == \E d \in days : d.date >= date

\* The topics answered so far (answeredDeltas).
Answered == {s \in Subjects : met[s] > 0}

\* Mutant: a day starts from the levels as its first answer left them.
StartsMoved(date, unkept) ==
    [date |-> date, met |-> Answered, level |-> rated + 1, unkept |-> unkept]

Starts(date, unkept) == [date |-> date, met |-> Answered, level |-> rated, unkept |-> unkept]

\* Mutant: a day is let go of while the week still reaches it.
KeptWithin(held, date) == {d \in held : d.date > WeekFrom(date)}

KeptFrom(held, date) == {d \in held : d.date >= WeekFrom(date)}

\* The date the first day kept carries: of the latest answer before it that
\* kept no level, unless the trial series has just ended.
Unkept == IF days = {} /\ rated > TrialSeries THEN LastUnkeptAnswer ELSE Never

\* startTheDay: the first answer of a day keeps where the child stands.  The
\* days the week no longer reaches go.
StartTheDay ==
    LET started == IF InTrial \/ HoldsDayFrom(today) THEN {} ELSE {Starts(today, Unkept)}
    IN  days' = KeptFrom(days \cup started, today)

-----------------------------------------------------------------------------
(* What happens to a task                                                  *)

\* A task is looked at.
Looks == entries < MaxEntries /\ entries' = entries + 1

Entry == [nth |-> Len(past) + 1, skipped |-> FALSE, date |-> today, kept |-> TRUE]

Skipped == [nth |-> 0, skipped |-> TRUE, date |-> today, kept |-> FALSE]

\* The level and the topic answered move.
Moves(s) ==
    /\ Looks
    /\ rated' = rated + 1
    /\ met' = [met EXCEPT ![s] = @ + 1]
    /\ past' = Append(past, [subject |-> s, date |-> today])
    /\ UNCHANGED today

\* apply: an answer moves the level and is remembered with the one before.
AnswerOf(s) ==
    /\ Moves(s)
    /\ StartTheDay
    /\ Remembers(Append(window, Entry))
    /\ UNCHANGED lost

\* leave: a task skipped is remembered, and moves nothing.
LeaveTask ==
    /\ Looks
    /\ Remembers(Append(window, Skipped))
    /\ UNCHANGED <<today, rated, met, days, past, lost>>

\* The entries as a build that kept no history writes them back: without the
\* level any answer kept.
Unleveled(held) == [n \in DOMAIN held |-> [held[n] EXCEPT !.kept = FALSE]]

\* Such a build records an answer, a task skipped or something else, and writes
\* the file back without the days.
EarlierBuild ==
    /\ \/ \E s \in Subjects : Moves(s) /\ Remembers(Unleveled(Append(window, Entry)))
       \/ Looks /\ Remembers(Unleveled(Append(window, Skipped))) /\ UNCHANGED <<today, rated, met, past>>
       \/ window' = Unleveled(window) /\ UNCHANGED <<today, rated, met, entries, past>>
    /\ days' = {}
    /\ lost' = Len(past')

NextDay ==
    /\ today < MaxDate
    /\ today' = today + 1
    /\ UNCHANGED <<window, rated, met, days, entries, past, lost>>

HistoryNext ==
    \/ \E s \in Subjects : AnswerOf(s)
    \/ LeaveTask \/ EarlierBuild \/ NextDay

HistorySpec == HistoryInit /\ [][HistoryNext]_history_vars

-----------------------------------------------------------------------------
(* WeekStart                                                               *)

Untold == [known |-> FALSE, moved |-> FALSE, level |-> 0, met |-> {}]
\* The week began where the child stands.
NothingMoved == [known |-> TRUE, moved |-> FALSE, level |-> 0, met |-> {}]

\* LastAnswer, if there is one.
LastAnswer == window[Max(Given(window))]

\* WeekStart: where the child stood as the week ending today began, nothing if
\* nothing moved in it, and whether the week can be told at all.
WeekStart ==
    LET first == WeekFrom(today)
        reached == {d \in days : d.date \in first..today}
        start == CHOOSE d \in reached : \A e \in reached : d.date <= e.date
    IN  IF reached # {}
        THEN IF start.unkept # Never /\ start.unkept >= first THEN Untold
             ELSE [known |-> TRUE, moved |-> TRUE, level |-> start.level, met |-> start.met]
        ELSE IF Given(window) = {} \/ LastAnswer.date < first THEN NothingMoved ELSE Untold

-----------------------------------------------------------------------------

\* The answers at these places, each by which it is.
Which(places) == {window[n].nth : n \in places}

\* The latest answers are in the window, in their order, however many tasks were
\* skipped between them (leaving: "a run of skipped tasks must not push them out").
LatestAnswersKept ==
    /\ {n \in DOMAIN past : n > Len(past) - MinRecent} \subseteq Which(Given(window))
    /\ \A m, n \in Given(window) : m < n => window[m].nth < window[n].nth

\* While the trial series runs the level is estimated from every answer of it:
\* the window holds them all (trialSoFar).
TrialIsWhole == rated <= TrialSeries => Which(TrialSoFar) = DOMAIN past

\* There is always an entry a full window can let go of (leaving: "so there is
\* always one to let go").
AlwaysOneToLetGo ==
    Len(window) = MaxRecent =>
        Leaving(Append(window, Entry)) # 0 /\ Leaving(Append(window, Skipped)) # 0

\* The answers of the week, in all there ever were.
InWeek == {n \in DOMAIN past : past[n].date >= WeekFrom(today)}

\* A week that is told is told from where the child stood before its first
\* answer, and never from its middle, whichever days were kept, let go of or
\* lost to an earlier build (WeekStart: "would pass part of a week off as the
\* whole").  The answers of the trial series are not measured.
WeekToldWhole ==
    LET measured == {n \in InWeek : n > TrialSeries} IN
    (rated > TrialSeries /\ WeekStart.known) =>
        IF WeekStart.moved
        THEN measured # {} /\ WeekStart.level = Min(measured) - 1
        ELSE measured = {}

\* A topic is new to the week if no answer before it was in the topic
\* (answeredDeltas).
NewToTheWeek ==
    (rated > TrialSeries /\ WeekStart.known /\ WeekStart.moved) =>
        WeekStart.met = {past[n].subject : n \in 1..WeekStart.level}

\* A week goes untold only for an answer in it that an earlier build wrote the
\* file after, or for the trial series in it.
UntoldForAReason ==
    (rated > TrialSeries /\ ~WeekStart.known) => \E n \in InWeek : n <= TrialSeries \/ n <= lost

\* The window keeps what the rules read back, and can always let something go.
WindowKeepsItsOwn == HistoryTypeOK /\ LatestAnswersKept /\ TrialIsWhole /\ AlwaysOneToLetGo

\* The week is told as it was, or not at all, and not for nothing.
WeekIsToldRight == WeekToldWhole /\ NewToTheWeek /\ UntoldForAReason
=============================================================================
