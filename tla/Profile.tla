------------------------------ MODULE Profile ------------------------------
(***************************************************************************)
(* The profile of a child (internal/domain/profile), as far as the tasks   *)
(* of the lesson go: a task is asked for by a request, written by the      *)
(* model, handed out on the card or kept ready, and left behind answered,  *)
(* skipped or discarded.  Each operator is a method of the profile, from   *)
(* the profile it is called on to the profile it leaves.                   *)
(*                                                                         *)
(* A task goes by the name of its request (TaskIDFor).  What a task has to *)
(* agree with the lesson on is the topic the lessons are kept to, which    *)
(* stands for their language too, and the skills kept out of them.  The    *)
(* field recent holds every task answered or skipped, as the counts of the *)
(* topics do; the file's window keeps the latest of them.                  *)
(***************************************************************************)
EXTENDS Integers, Sequences

CONSTANTS
    Ids,            \* the names requests are given (uuid.NewString)
    Topics,         \* what the lessons may be kept to
    Skills,         \* the skills that may be kept out of the tasks
    AnswerChoices,  \* the answers a child may give, "?" among them
    NoAnswer,       \* a task without an answer yet
    None,           \* no request, no task, no task kept
    MaxAttempts,    \* how often a request's task may be handed in
    Window,         \* how long a request is waited for
    DayLength,      \* how long a family's day is
    DailyTasks,     \* the tasks a day has room for
    DailyFailed     \* the requests out of attempts a day has room for

Lessons == [topic : Topics, excluded : SUBSET Skills]

Requests ==
    [id : Ids, ahead : BOOLEAN, attempts : 0 .. MaxAttempts - 1, opened : Nat, lesson : Lessons]
KeptTasks == [id : Ids, lesson : Lessons]
CardTasks == [id : Ids, answered : AnswerChoices \cup {NoAnswer}]
Entries == [task : Ids, choice : AnswerChoices \cup {"skipped"}]
Days == [date : Nat, accepted : Nat, failed : Nat]

Profiles ==
    [lesson : Lessons, request : Requests \cup {None}, ready : KeptTasks \cup {None},
     task : CardTasks \cup {None}, recent : Seq(Entries), discarded : Nat,
     given : Seq(Ids), daily : Days]

ASSUME LimitsAreNumbers ==
    /\ MaxAttempts \in Nat \ {0} /\ Window \in Nat /\ DayLength \in Nat \ {0}
    /\ DailyTasks \in Nat /\ DailyFailed \in Nat
ASSUME NoAnswerIsNone == NoAnswer \notin AnswerChoices
ASSUME SkippedIsNoChoice == "skipped" \notin AnswerChoices
ASSUME NoneIsNone == None \notin Requests /\ None \notin KeptTasks /\ None \notin CardTasks

\* A profile just made for a child.
New(lesson, now) ==
    [lesson |-> lesson, request |-> None, ready |-> None, task |-> None,
     recent |-> <<>>, discarded |-> 0, given |-> <<>>,
     daily |-> [date |-> now \div DayLength, accepted |-> 0, failed |-> 0]]

-----------------------------------------------------------------------------
(* The counters of the day.                                                *)

\* The counters a limit reads: nothing is counted yet on a day other than theirs.
Today(daily, now) ==
    IF daily.date = now \div DayLength
    THEN daily
    ELSE [date |-> now \div DayLength, accepted |-> 0, failed |-> 0]

\* A mutated form: an accepted task is counted without the day looked at.
CountAcceptedAnyDay(p, now) == [p EXCEPT !.daily.accepted = @ + 1]

CountAccepted(p, now) ==
    [p EXCEPT !.daily = [Today(p.daily, now) EXCEPT !.accepted = @ + 1]]

CountFailed(p, now) ==
    [p EXCEPT !.daily = [Today(p.daily, now) EXCEPT !.failed = @ + 1]]

\* Daily.reached: the day has no room for another task.
DayIsFull(p, now) ==
    \/ Today(p.daily, now).accepted >= DailyTasks
    \/ Today(p.daily, now).failed >= DailyFailed

-----------------------------------------------------------------------------
(* The task on the card.                                                   *)

InFlight(p) == p.task # None /\ p.task.answered = NoAnswer

Leave(p) ==
    [p EXCEPT !.recent = Append(@, [task |-> p.task.id, choice |-> "skipped"])]

\* A task without an answer leaves the card as skipped, an answered one leaves
\* nothing more behind.
Skip(p) == [IF InFlight(p) THEN Leave(p) ELSE p EXCEPT !.task = None]

\* A task whose seal no longer opens is taken off the card.
DiscardTask(p) ==
    [p EXCEPT !.discarded = @ + (IF InFlight(p) THEN 1 ELSE 0), !.task = None]

\* A mutated form: the task left on the card goes without a trace.
HandOutOver(p, id, now) ==
    CountAccepted([p EXCEPT !.task = [id |-> id, answered |-> NoAnswer], !.given = Append(@, id)], now)

\* handOut: the task id goes on the card, counted against the day.
HandOut(p, id, now) ==
    LET left == IF InFlight(p) THEN Leave(p) ELSE p
    IN  CountAccepted(
            [left EXCEPT !.task = [id |-> id, answered |-> NoAnswer],
                         !.given = Append(@, id)], now)

\* Record, of the answer to a task that has had none.
Apply(p, choice) ==
    [p EXCEPT !.task.answered = choice,
              !.recent = Append(@, [task |-> p.task.id, choice |-> choice])]

-----------------------------------------------------------------------------
(* The request a task is written for.                                      *)

Awaited(request, now) ==
    /\ request.attempts < MaxAttempts
    /\ -Window <= now - request.opened
    /\ now - request.opened < Window

\* Ask: a new request in place of whatever was open or kept.
Ask(p, id, now) ==
    [p EXCEPT !.ready = None,
              !.request = [id |-> id, ahead |-> FALSE, attempts |-> 0, opened |-> now, lesson |-> p.lesson]]

\* AskAhead: a request for the task after the one on the card.
AskAhead(p, id, now) == [Ask(p, id, now) EXCEPT !.request.ahead = TRUE]

\* Await: the child waits for the task that was being written ahead.
Await(p, now) == [p EXCEPT !.request.ahead = FALSE, !.request.opened = now]

\* A mutated form: the last attempt refused leaves the request open.
RefuseForEver(p, now) == [p EXCEPT !.request.attempts = @ + 1]

\* Refuse: an attempt the checks turned down; the last closes the request.
Refuse(p, now) ==
    IF p.request.attempts + 1 < MaxAttempts
    THEN [p EXCEPT !.request.attempts = @ + 1]
    ELSE CountFailed([p EXCEPT !.request = None], now)

\* Issue: the task written for the request goes on the card.
Issue(p, now) == HandOut([p EXCEPT !.request = None], p.request.id, now)

\* A mutated form: the request stays open once its task is kept.
KeepOpen(p) == [p EXCEPT !.ready = [id |-> p.request.id, lesson |-> p.request.lesson]]

\* Keep: the task written ahead is kept ready.
Keep(p) ==
    [p EXCEPT !.ready = [id |-> p.request.id, lesson |-> p.request.lesson],
              !.request = None]

\* HandOutReady: the task kept goes on the card as it was written.
HandOutReady(p, now) == [HandOut(p, p.ready.id, now) EXCEPT !.ready = None]

DropReady(p) == [p EXCEPT !.ready = None]
CloseRequest(p) == [p EXCEPT !.request = None]

\* misfit: what was written for one lesson no longer fits another.  A skill let
\* back in is no misfit; a place a person asked for elsewhere is one.
Misfit(written, lesson, elsewhere) ==
    \/ written.topic # lesson.topic
    \/ ~(lesson.excluded \subseteq written.excluded)
    \/ elsewhere

\* TaskFor: how the task of a request stands, to a card that waits for it.
TaskFor(p, id, now) ==
    CASE p.task # None /\ p.task.id = id -> "on_the_card"
      [] p.ready # None /\ p.ready.id = id -> "kept"
      [] p.request # None /\ p.request.id = id /\ Awaited(p.request, now) -> "being_written"
      [] OTHER -> "not_coming"

-----------------------------------------------------------------------------
(* What a call of the tools finds in the profile p it read, at the moment  *)
(* now (internal/transport/mcp).                                           *)

\* The request a child waits for, while it is waited for.
WaitedOpen(p, now) == p.request # None /\ ~p.request.ahead /\ Awaited(p.request, now)

\* A mutated form: a request ahead is open however long ago it was opened.
AheadEver(p, now) == p.request # None /\ p.request.ahead

\* The request for a task written ahead, while it is waited for.
AheadOpen(p, now) == p.request # None /\ p.request.ahead /\ Awaited(p.request, now)

\* A mutated form: a task kept is handed out whatever became of the lesson.
LetGoUnwritten(p, elsewhere, now) ==
    IF AheadOpen(p, now) /\ Misfit(p.request.lesson, p.lesson, elsewhere)
    THEN CloseRequest(p)
    ELSE p

\* The task written ahead is let go once it no longer fits the lesson.
LetGo(p, elsewhere, now) ==
    LET left == IF p.ready # None /\ Misfit(p.ready.lesson, p.lesson, elsewhere)
                THEN DropReady(p)
                ELSE p
    IN  IF AheadOpen(left, now) /\ Misfit(left.request.lesson, left.lesson, elsewhere)
        THEN CloseRequest(left)
        ELSE left

\* A mutated form: a task is written ahead with no room in the day for it.
OpensAheadAnyDay(p, now) == ~AheadOpen(p, now) /\ p.ready = None

\* What prepare_task finds to ask for, in the profile p nothing unfit is left in.
OpensAhead(p, now) == ~AheadOpen(p, now) /\ p.ready = None /\ ~DayIsFull(p, now)

\* A task handed in for the request that is open and still waited for.
HandedIn(p, now) == p.request # None /\ Awaited(p.request, now)
=============================================================================
