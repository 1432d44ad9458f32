------------------------------- MODULE Lesson -------------------------------
(***************************************************************************)
(* The lesson as the tools carry it on (internal/transport/mcp): each      *)
(* action is one call that reads the profile and writes it, the whole of   *)
(* it between the read and the write that no other write comes between.    *)
(* A call that finds nothing to write leaves everything as it was.         *)
(***************************************************************************)
EXTENDS Profile, FiniteSets

CONSTANT MaxClock       \* a bound: how far the clock runs

ASSUME MaxClockIsNumber == MaxClock \in Nat

VARIABLES
    profile,    \* the profile the file holds
    clock,      \* the service's clock
    asked       \* the names given to requests so far

vars == <<profile, clock, asked>>

TypeOK ==
    /\ profile \in Profiles
    /\ clock \in Nat
    /\ asked \subseteq Ids

Init ==
    /\ clock = 0
    /\ \E lesson \in Lessons : profile = New(lesson, 0)
    /\ asked = {}

-----------------------------------------------------------------------------
(* What every call writes.                                                 *)

Writes(p) == profile' = p /\ UNCHANGED clock
Names(id) == id \notin asked /\ asked' = asked \cup {id}

-----------------------------------------------------------------------------
(* next_task: a person asks for the next task, which may have to stand     *)
(* elsewhere than the one written ahead.                                   *)

\* A mutated form: a request the child waits for does not stop another.
AsksImpatiently(now) == ~DayIsFull(profile, now)

Asks(now) == ~WaitedOpen(profile, now) /\ ~DayIsFull(profile, now)

\* The task being written ahead becomes the one the child waits for.
AwaitAhead(elsewhere) ==
    LET p == LetGo(profile, elsewhere, clock) IN
    /\ Asks(clock)
    /\ AheadOpen(p, clock)
    /\ Writes(Await(Skip(p), clock))
    /\ UNCHANGED asked

\* The task kept is handed out.
ServeReady(elsewhere) ==
    LET p == LetGo(profile, elsewhere, clock) IN
    /\ Asks(clock)
    /\ ~AheadOpen(p, clock)
    /\ p.ready # None
    /\ Writes(HandOutReady(p, clock))
    /\ UNCHANGED asked

\* A request is opened for a task to be written now.
AskAnew(elsewhere, id) ==
    LET p == LetGo(profile, elsewhere, clock) IN
    /\ Asks(clock)
    /\ ~AheadOpen(p, clock)
    /\ p.ready = None
    /\ Names(id)
    /\ Writes(Ask(Skip(p), id, clock))

-----------------------------------------------------------------------------
(* prepare_task: the model asks what to write now.                         *)

\* A request is opened for the task after the one on the card.
PrepareAhead(id) ==
    LET p == LetGo(profile, FALSE, clock) IN
    /\ ~WaitedOpen(profile, clock)
    /\ OpensAhead(p, clock)
    /\ Names(id)
    /\ Writes(AskAhead(p, id, clock))

\* Nothing is left to write.  The code writes what it let go here too; by
\* ReadyHasRoom a request was open for it in its place, and there is none.
PrepareNothing ==
    LET p == LetGo(profile, FALSE, clock) IN
    /\ ~WaitedOpen(profile, clock)
    /\ ~OpensAhead(p, clock)
    /\ Writes(p)
    /\ UNCHANGED asked

-----------------------------------------------------------------------------
(* submit_task: a task is handed in and judged.                            *)

HandInRefused == HandedIn(profile, clock) /\ Writes(Refuse(profile, clock)) /\ UNCHANGED asked

HandInKept ==
    /\ HandedIn(profile, clock)
    /\ profile.request.ahead
    /\ Writes(Keep(profile))
    /\ UNCHANGED asked

HandInIssued ==
    /\ HandedIn(profile, clock)
    /\ ~profile.request.ahead
    /\ Writes(Issue(profile, clock))
    /\ UNCHANGED asked

-----------------------------------------------------------------------------
(* submit_answer and save_profile.                                         *)

\* A mutated form: an answer to a task that has had one is recorded again.
AnswerAgain(choice) ==
    /\ profile.task # None
    /\ Writes(Apply(profile, choice))
    /\ UNCHANGED asked

\* The first answer to the task on the card is recorded.
AnswerOnce(choice) ==
    /\ InFlight(profile)
    /\ Writes(Apply(profile, choice))
    /\ UNCHANGED asked

\* The seal of the task on the card no longer opens, answered or not.
Discard == profile.task # None /\ Writes(DiscardTask(profile)) /\ UNCHANGED asked

\* The parent keeps the lessons to something else.
Edit(lesson) ==
    /\ profile.lesson # lesson
    /\ Writes([profile EXCEPT !.lesson = lesson])
    /\ UNCHANGED asked

Tick ==
    /\ clock < MaxClock
    /\ clock' = clock + 1
    /\ UNCHANGED <<profile, asked>>

Next ==
    \/ \E elsewhere \in BOOLEAN :
        \/ AwaitAhead(elsewhere)
        \/ ServeReady(elsewhere)
        \/ \E id \in Ids : AskAnew(elsewhere, id)
    \/ \E id \in Ids : PrepareAhead(id)
    \/ PrepareNothing
    \/ HandInRefused
    \/ HandInKept
    \/ HandInIssued
    \/ \E choice \in AnswerChoices : AnswerOnce(choice)
    \/ Discard
    \/ \E lesson \in Lessons : Edit(lesson)
    \/ Tick

Spec == Init /\ [][Next]_vars

-----------------------------------------------------------------------------
(* What the lesson promises.                                               *)

\* A task kept ready is never in the file beside an open request (the comment
\* on Profile.ReadyTask): Keep and HandOutReady close what they take, and
\* next_task and prepare_task open a request only once nothing is kept.
ReadyBesideNoRequest == profile.ready = None \/ profile.request = None

\* Every task handed out is behind the child or in front of them, and counted
\* once: answered, skipped or discarded, or in flight.  The turns of the topics
\* are counted by it (tutor.go: Answers + Skipped + Discarded).
TasksAddUp ==
    Len(profile.given) =
        Len(profile.recent) + profile.discarded + (IF InFlight(profile) THEN 1 ELSE 0)

\* A task is answered or skipped at most once, whatever calls are made of it:
\* Record finds the answer it has had, and Skip and handOut leave an answered
\* task out.
EndsOnce ==
    \A m, n \in DOMAIN profile.recent :
        profile.recent[m].task = profile.recent[n].task => m = n

\* No day has more tasks handed out, or more requests out of attempts, than it
\* has room for, though the room is looked at when a request is opened or taken
\* up, and the task counted calls later, perhaps on another day.
DayHasRoom ==
    profile.daily.accepted <= DailyTasks /\ profile.daily.failed <= DailyFailed

\* A task kept for the child is never kept from them: next_task looks at the
\* room in the day before it serves what is kept, and prepare_task looked at it
\* long before, perhaps on an earlier day, when it opened the request.
ReadyHasRoom == profile.ready # None => ~DayIsFull(profile, clock)

\* A card that waits for a request and is told its task is not coming stops
\* asking, so that is the end of it: no call and no passing of time brings the
\* task back (TaskFor, read_task).
NotComingIsFinal ==
    [][\A id \in asked :
        TaskFor(profile, id, clock) = "not_coming" => TaskFor(profile, id, clock)' = "not_coming"]_vars

\* A task the child waits for is theirs: until its time is up, the only ends of
\* its request are the task on the card or the last attempt refused.
WaitIsKept ==
    [][(WaitedOpen(profile, clock) /\ clock' = clock) =>
        \/ profile'.request # None /\ profile'.request.id = profile.request.id
        \/ profile'.task # None /\ profile'.task.id = profile.request.id
        \/ profile.request.attempts + 1 = MaxAttempts]_vars

\* A task written ahead is handed out only while the lessons are kept to what
\* it was written for (letGo before serveReady).
HandedOutFits ==
    [][(profile.ready # None /\ profile'.task # None /\ profile'.task.id = profile.ready.id) =>
        ~Misfit(profile.ready.lesson, profile'.lesson, FALSE)]_vars

\* The tasks that reach the child are what is counted and told of them: each once,
\* and each ends once.
BooksBalance == TypeOK /\ TasksAddUp /\ EndsOnce

\* No day goes over its room, and what is kept ready for the child is theirs to
\* have: nothing open stands beside it, and there is room for it.
RoomIsKept == DayHasRoom /\ ReadyHasRoom /\ ReadyBesideNoRequest

\* What a card was told of a task holds: one that is coming comes or is said to
\* have ended, and one that is not coming never comes.
CardIsToldTrue == NotComingIsFinal /\ WaitIsKept
=============================================================================
