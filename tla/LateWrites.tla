----------------------------- MODULE LateWrites -----------------------------
(***************************************************************************)
(* The calls of the tools on one account's profile (internal/transport/    *)
(* mcp), on several instances at once: each reads the profile, decides     *)
(* what to do to it and writes it, and is made afresh when the profile     *)
(* moved on in between.  The writes nobody waits for, an answer recorded   *)
(* and a kept task handed out, are made after the call has answered, and   *)
(* every later call on the same instance waits for them.                   *)
(*                                                                         *)
(* The file moves by the contract of the store: a write goes over the      *)
(* revision it was computed from, or is a conflict.  What is done to a     *)
(* profile is Profile's, and the guards are Lesson's, at one moment of     *)
(* one day: the windows and the days are Lesson's to check.                *)
(***************************************************************************)
EXTENDS Profile, FiniteSets

CONSTANTS
    Instances,      \* instances of the service
    Calls,          \* calls of the tools, each made once
    NameOf,         \* the name a call gives the request it opens
    GivenFirst,     \* the task on the card at first
    AskedNext,      \* the request for the task after it
    Settings        \* the settings the calls may be made in

AllTools == {"submit_answer", "next_task", "prepare_task", "submit_task", "save_profile"}
Attempts == 3       \* afresh's attempts
LateAttempts == 3   \* lateAttempts

\* A setting, one for good in each behaviour:
\*   home        the instance each call runs on
\*   lessons     what the lessons may be kept to: a subset of Lessons
\*   tools       the tools called: a subset of AllTools
\*   maxOutages  bound: how often Drive fails a request
\*   maxStops    bound: how often an instance stops
\*   mayErase    the parent may delete the file
ASSUME SettingsAreKnown ==
    \A s \in Settings :
        /\ s.home \in [Calls -> Instances]
        /\ s.lessons \subseteq Lessons /\ s.tools \subseteq AllTools
        /\ s.maxOutages \in Nat /\ s.maxStops \in Nat /\ s.mayErase \in BOOLEAN
ASSUME NamesAreApart ==
    /\ NameOf \in [Calls -> Ids \ {GivenFirst, AskedNext}]
    /\ \A c, d \in Calls : NameOf[c] = NameOf[d] => c = d
    /\ GivenFirst \in Ids /\ AskedNext \in Ids /\ GivenFirst # AskedNext
ASSUME CallsAreFinite == IsFiniteSet(Calls)
ASSUME SomeChoice == AnswerChoices # {}                       \* "?" is always one
ASSUME LimitsAreSet == DailyTasks >= 1 /\ DailyFailed >= 1   \* validateLimits

VARIABLES
    setting,    \* the setting, one of Settings
    file,       \* the profile the file holds, its number, and whether it is there
    seen,       \* the names of requests the file has held
    st,         \* the state of each call
    pending,    \* the writes after the answer each instance has begun
    lines,      \* the lines of answers recorded, by task
    outages,    \* how often Drive failed a request
    stops       \* how often an instance stopped

vars == <<setting, file, seen, st, pending, lines, outages, stops>>

Home == setting.home

Lesson == INSTANCE Lesson WITH
    profile <- file.profile, clock <- 0, asked <- seen, MaxClock <- 0

Places == {"idle", "load", "decided", "save", "late", "again", "done"}
Tolds == {"none", "ok", "nothing", "conflict", "failed", "noProfile"}
Outcomes == {"none", "written", "remade", "already", "lost", "failed"}

\* about is the task answered, the request handed in for or the name of the one
\* to open; base and put are the number read at and the profile to write;
\* waits are the writes begun before, which the store is reached after.  after,
\* which serves a property alone, are the calls answered before this one began.
CallStates ==
    [pc : Places, tool : AllTools, about : Ids, choice : AnswerChoices, passes : BOOLEAN,
     lesson : Lessons, tries : Nat, base : Nat, read : Profiles, put : Profiles, lateWrite : BOOLEAN,
     waits : SUBSET Calls, mayHaveLanded : BOOLEAN, remade : BOOLEAN, told : Tolds,
     outcome : Outcomes, after : SUBSET Calls]

TypeOK ==
    /\ setting \in Settings
    /\ file \in [profile : Profiles, number : Nat, here : BOOLEAN]
    /\ seen \subseteq Ids
    /\ st \in [Calls -> CallStates]
    /\ pending \in [Instances -> SUBSET Calls]
    /\ lines \in [Ids -> Nat]
    /\ outages \in 0..setting.maxOutages
    /\ stops \in 0..setting.maxStops

\* The lesson some calls later: a task on the card, and the next one not asked
\* for yet, or, with room for it in the day, being written ahead, or kept.
Starts(lesson) ==
    LET onTheCard == Issue(Ask(New(lesson, 0), GivenFirst, 0), 0)
        ahead == AskAhead(onTheCard, AskedNext, 0)
    IN  {onTheCard} \cup (IF DayIsFull(onTheCard, 0) THEN {} ELSE {ahead, Keep(ahead)})

Idle(p) ==
    [pc |-> "idle", tool |-> "save_profile", about |-> GivenFirst,
     choice |-> CHOOSE choice \in AnswerChoices : TRUE, passes |-> FALSE, lesson |-> p.lesson,
     tries |-> 0, base |-> 0, read |-> p, put |-> p, lateWrite |-> FALSE, waits |-> {},
     mayHaveLanded |-> FALSE, remade |-> FALSE, told |-> "none", outcome |-> "none", after |-> {}]

Init ==
    /\ setting \in Settings
    /\ \E lesson \in setting.lessons : \E p \in Starts(lesson) :
        /\ file = [profile |-> p, number |-> 1, here |-> TRUE]
        /\ st = [c \in Calls |-> Idle(p)]
    /\ seen = {GivenFirst, AskedNext}
    /\ pending = [i \in Instances |-> {}]
    /\ lines = [id \in Ids |-> 0]
    /\ outages = 0
    /\ stops = 0

-----------------------------------------------------------------------------
(* What a call does to the profile p it read: nothing, a write before it    *)
(* answers, or one after.                                                   *)

Nothing(p) == [writes |-> FALSE, late |-> FALSE, put |-> p]
Now(p) == [writes |-> TRUE, late |-> FALSE, put |-> p]
Late(p) == [writes |-> TRUE, late |-> TRUE, put |-> p]

\* submit_answer: the first answer to the task on the card.
Answering(c, p) ==
    IF InFlight(p) /\ p.task.id = st[c].about THEN Late(Apply(p, st[c].choice)) ELSE Nothing(p)

\* next_task: wait for the task being written ahead, hand out the one kept, or
\* open a request.
Asking(c, p) ==
    LET fitting == LetGo(p, FALSE, 0) IN
    IF ~WaitedOpen(p, 0) /\ ~DayIsFull(p, 0)
    THEN IF AheadOpen(fitting, 0) THEN Now(Await(Skip(fitting), 0))
         ELSE IF fitting.ready # None THEN Late(HandOutReady(fitting, 0))
         ELSE Now(Ask(Skip(fitting), NameOf[c], 0))
    ELSE Nothing(p)

\* prepare_task: open a request for the task after the one on the card, or let
\* go of what no longer fits.
Preparing(c, p) ==
    LET fitting == LetGo(p, FALSE, 0) IN
    IF WaitedOpen(p, 0) THEN Nothing(p)
    ELSE IF OpensAhead(fitting, 0) THEN Now(AskAhead(fitting, NameOf[c], 0))
    ELSE IF fitting # p THEN Now(fitting)
    ELSE Nothing(p)

\* submit_task: a task for the open request, refused, kept or handed out.
HandingIn(c, p) ==
    IF HandedIn(p, 0) /\ p.request.id = st[c].about
    THEN IF ~st[c].passes THEN Now(Refuse(p, 0))
         ELSE IF p.request.ahead THEN Now(Keep(p))
         ELSE Now(Issue(p, 0))
    ELSE Nothing(p)

\* save_profile: what the lessons are kept to.
Editing(c, p) ==
    IF p.lesson # st[c].lesson THEN Now([p EXCEPT !.lesson = st[c].lesson]) ELSE Nothing(p)

Decision(c, p) ==
    CASE st[c].tool = "submit_answer" -> Answering(c, p)
      [] st[c].tool = "next_task" -> Asking(c, p)
      [] st[c].tool = "prepare_task" -> Preparing(c, p)
      [] st[c].tool = "submit_task" -> HandingIn(c, p)
      [] st[c].tool = "save_profile" -> Editing(c, p)

-----------------------------------------------------------------------------
(* What a write after the answer does to a fresh read of the profile.       *)

\* Two mutated forms: another answer is taken for this one, and this one, recorded
\* already, is recorded again.
RecordAgainEither(c, p) ==
    IF p.task = None \/ p.task.id # st[c].about THEN "gone"
    ELSE IF p.task.answered = NoAnswer THEN "changed" ELSE "already"
RecordAgainTwice(c, p) ==
    IF p.task = None \/ p.task.id # st[c].about THEN "gone"
    ELSE IF p.task.answered \in {NoAnswer, st[c].choice} THEN "changed" ELSE "gone"

\* recordAgain: the answer once more, unless it stands already or the task has
\* another, or has gone.
RecordAgain(c, p) ==
    IF p.task = None \/ p.task.id # st[c].about THEN "gone"
    ELSE IF p.task.answered = NoAnswer THEN "changed"
    ELSE IF p.task.answered = st[c].choice THEN "already"
    ELSE "gone"

\* handOutKept: the task kept once more, unless it is on the card already or is
\* kept no more.
HandOutAgain(c, p) ==
    IF p.task # None /\ p.task.id = st[c].put.task.id THEN "already"
    ELSE IF p.ready = None \/ p.ready.id # st[c].put.task.id THEN "gone"
    ELSE "changed"

MadeAgain(c, p) == IF st[c].tool = "submit_answer" THEN RecordAgain(c, p) ELSE HandOutAgain(c, p)

\* A mutated form: the profile computed first is laid over what is there now.
PutOver(c, p) == st[c].put

PutAgain(c, p) ==
    IF st[c].tool = "submit_answer" THEN Apply(p, st[c].choice) ELSE HandOutReady(p, 0)

-----------------------------------------------------------------------------
(* The steps of a call.                                                     *)

\* The writes after the answer an operation of the store waits for: those begun
\* before it, and none begun after.
Begun(c) == pending[Home[c]]
Settled(c) == st[c].waits \cap pending[Home[c]] = {}

Answered(d) == st[d].told # "none"

\* Nothing of the calls changes but the state of c.
Moves(c, state) == st' = [st EXCEPT ![c] = state]

Begin(c) ==
    /\ st[c].pc = "idle"
    /\ \E tool \in setting.tools, about \in seen, choice \in AnswerChoices,
          passes \in BOOLEAN, lesson \in setting.lessons :
        /\ tool \notin {"submit_answer", "submit_task"} => about = GivenFirst
        /\ tool # "submit_answer" => choice = st[c].choice
        /\ tool # "submit_task" => passes = FALSE
        /\ tool # "save_profile" => lesson = st[c].lesson
        /\ Moves(c, [st[c] EXCEPT !.pc = "load", !.tool = tool, !.about = about,
                                  !.choice = choice, !.passes = passes, !.lesson = lesson,
                                  !.waits = Begun(c),
                                  !.after = {d \in Calls : Home[d] = Home[c] /\ Answered(d)}])
    /\ UNCHANGED <<setting, file, seen, pending, lines, outages, stops>>

Tell(c, told) == Moves(c, [st[c] EXCEPT !.pc = "done", !.told = told])

\* settled.Load, and what the call decides of what it read.  A mutated form
\* reads without waiting for the writes begun before.
Read(c) ==
    \/ /\ ~file.here
       /\ Tell(c, "noProfile")
    \/ /\ file.here
       /\ LET decided == Decision(c, file.profile) IN
          IF decided.writes
          THEN Moves(c, [st[c] EXCEPT !.pc = "decided", !.base = file.number,
                                      !.read = file.profile, !.put = decided.put,
                                      !.lateWrite = decided.late])
          ELSE Moves(c, [st[c] EXCEPT !.pc = "done", !.told = "nothing", !.base = file.number,
                                      !.read = file.profile])

LoadAtOnce(c) ==
    /\ st[c].pc = "load"
    /\ Read(c)
    /\ UNCHANGED <<setting, file, seen, pending, lines, outages, stops>>

Load(c) ==
    /\ st[c].pc = "load"
    /\ Settled(c)
    /\ Read(c)
    /\ UNCHANGED <<setting, file, seen, pending, lines, outages, stops>>

\* A write made before the answer waits for those begun by now ...
GoOnToSave(c) ==
    /\ st[c].pc = "decided"
    /\ ~st[c].lateWrite
    /\ Moves(c, [st[c] EXCEPT !.pc = "save", !.waits = Begun(c)])
    /\ UNCHANGED <<setting, file, seen, pending, lines, outages, stops>>

\* ... and one made after it is begun, and the call answered.
AnswerFirst(c) ==
    /\ st[c].pc = "decided"
    /\ st[c].lateWrite
    /\ Moves(c, [st[c] EXCEPT !.pc = "late", !.told = "ok", !.tries = 0])
    /\ pending' = [pending EXCEPT ![Home[c]] = @ \cup {c}]
    /\ UNCHANGED <<setting, file, seen, lines, outages, stops>>

Holds(c) == file.here /\ file.number = st[c].base

\* The write the store makes: over the number it was computed from.
Land(c) ==
    /\ file' = [file EXCEPT !.profile = st[c].put, !.number = st[c].base + 1]
    /\ seen' = seen \cup (IF st[c].put.request = None THEN {} ELSE {st[c].put.request.id})

\* settled.Save, and afresh: a profile that moved on is read once more.
Save(c) ==
    /\ st[c].pc = "save"
    /\ Settled(c)
    /\ \/ /\ Holds(c)
          /\ Land(c)
          /\ Tell(c, "ok")
       \/ /\ ~Holds(c)
          /\ IF st[c].tries + 1 < Attempts
             THEN Moves(c, [st[c] EXCEPT !.pc = "load", !.tries = @ + 1, !.waits = Begun(c)])
             ELSE Tell(c, "conflict")
          /\ UNCHANGED <<file, seen>>
    /\ UNCHANGED <<setting, pending, lines, outages, stops>>

-----------------------------------------------------------------------------
(* The write after the answer (land).                                       *)

\* A mutated form: a write that was lost is never ended.
EndsUnlessLost(c, outcome) ==
    /\ Moves(c, [st[c] EXCEPT !.pc = "done", !.outcome = outcome])
    /\ pending' = IF outcome = "lost" THEN pending ELSE [pending EXCEPT ![Home[c]] = @ \ {c}]

Ends(c, outcome) ==
    /\ Moves(c, [st[c] EXCEPT !.pc = "done", !.outcome = outcome])
    /\ pending' = [pending EXCEPT ![Home[c]] = @ \ {c}]

\* A mutated form: a change made again leaves no lines.
LeavesAtFirst(c) ==
    lines' = IF st[c].tool = "submit_answer" /\ ~st[c].remade
             THEN [lines EXCEPT ![st[c].about] = @ + 1] ELSE lines

Leaves(c) ==
    lines' = IF st[c].tool = "submit_answer" THEN [lines EXCEPT ![st[c].about] = @ + 1] ELSE lines

ByNow(c) == IF st[c].remade THEN "remade" ELSE "written"
LastTry(c) == st[c].tries + 1 = LateAttempts

\* The file is written, and the lines are left; or it moved on, and is read
\* again while tries are left.
LandLate(c) ==
    /\ st[c].pc = "late"
    /\ \/ /\ Holds(c)
          /\ Land(c)
          /\ Leaves(c)
          /\ Ends(c, ByNow(c))
       \/ /\ ~Holds(c)
          /\ LastTry(c)
          /\ Ends(c, "failed")
          /\ UNCHANGED <<file, seen, lines>>
       \/ /\ ~Holds(c)
          /\ ~LastTry(c)
          /\ Moves(c, [st[c] EXCEPT !.pc = "again", !.tries = @ + 1, !.mayHaveLanded = FALSE])
          /\ UNCHANGED <<file, seen, pending, lines>>
    /\ UNCHANGED <<setting, outages, stops>>

\* The change found there is this write, landed unheard.
Own(c) == st[c].mayHaveLanded /\ file.number = st[c].base + 1

\* readAgain, and the change made again on what is there.
ReadAgain(c) ==
    /\ st[c].pc = "again"
    /\ \/ /\ ~file.here \/ MadeAgain(c, file.profile) = "gone"
          /\ Ends(c, "lost")
          /\ UNCHANGED lines
       \/ /\ file.here
          /\ MadeAgain(c, file.profile) = "already"
          /\ IF Own(c) THEN Leaves(c) /\ Ends(c, ByNow(c)) ELSE Ends(c, "already") /\ UNCHANGED lines
       \/ /\ file.here
          /\ MadeAgain(c, file.profile) = "changed"
          /\ Moves(c, [st[c] EXCEPT !.pc = "late", !.base = file.number,
                                    !.put = PutAgain(c, file.profile), !.remade = TRUE])
          /\ UNCHANGED <<pending, lines>>
    /\ UNCHANGED <<setting, file, seen, outages, stops>>

-----------------------------------------------------------------------------
(* What goes wrong.                                                         *)

Fails == outages < setting.maxOutages /\ outages' = outages + 1

\* Drive is out of reach of a read, or the time of a call is up while it waits.
ReadFails(c) ==
    /\ Fails
    /\ \/ st[c].pc \in {"load", "save"} /\ Tell(c, "failed") /\ UNCHANGED pending
       \/ st[c].pc = "again" /\ Ends(c, "failed")
    /\ UNCHANGED <<setting, file, seen, lines, stops>>

\* Drive does not answer a write, which may have landed all the same.
Unavailable(c) ==
    /\ Fails
    /\ \/ Holds(c) /\ Land(c)
       \/ UNCHANGED <<file, seen>>
    /\ \/ st[c].pc = "save" /\ Settled(c) /\ Tell(c, "failed") /\ UNCHANGED pending
       \/ st[c].pc = "late" /\ LastTry(c) /\ Ends(c, "failed")
       \/ /\ st[c].pc = "late"
          /\ ~LastTry(c)
          /\ Moves(c, [st[c] EXCEPT !.pc = "again", !.tries = @ + 1, !.mayHaveLanded = TRUE])
          /\ UNCHANGED pending
    /\ UNCHANGED <<setting, lines, stops>>

\* A write after the answer is out of its time, or refused for good.
OutOfTime(c) ==
    /\ Fails
    /\ st[c].pc = "late"
    /\ \/ Holds(c) /\ Land(c)
       \/ UNCHANGED <<file, seen>>
    /\ Ends(c, "failed")
    /\ UNCHANGED <<setting, lines, stops>>

\* An instance stops with the calls on it, answered or not.
Stop(i) ==
    /\ stops < setting.maxStops
    /\ stops' = stops + 1
    /\ \E c \in Calls : Home[c] = i /\ st[c].pc \notin {"idle", "done"}
    /\ st' = [c \in Calls |->
                IF Home[c] = i /\ st[c].pc \notin {"idle", "done"}
                THEN [st[c] EXCEPT !.pc = "done",
                                   !.told = IF @ = "none" THEN "failed" ELSE @,
                                   !.outcome = IF st[c].told = "none" THEN "none" ELSE "failed"]
                ELSE st[c]]
    /\ pending' = [pending EXCEPT ![i] = {}]
    /\ UNCHANGED <<setting, file, seen, lines, outages>>

\* The parent deletes the file for good.
Erase ==
    /\ setting.mayErase
    /\ file.here
    /\ file' = [file EXCEPT !.here = FALSE]
    /\ UNCHANGED <<setting, seen, st, pending, lines, outages, stops>>

Step(c) ==
    \/ Load(c) \/ GoOnToSave(c) \/ AnswerFirst(c) \/ Save(c)
    \/ LandLate(c) \/ ReadAgain(c)

AllDone == (\A c \in Calls : st[c].pc = "done") /\ UNCHANGED vars

Next ==
    \/ \E c \in Calls :
        Begin(c) \/ Step(c) \/ ReadFails(c) \/ Unavailable(c) \/ OutOfTime(c)
    \/ \E i \in Instances : Stop(i)
    \/ Erase
    \/ AllDone

\* A call that has begun runs on, and so does a write after its answer: the
\* request is held open for it, and nothing waits without a bound but for a
\* write begun before.
Fairness == \A c \in Calls : WF_vars(Step(c))

Spec == Init /\ [][Next]_vars /\ Fairness

-----------------------------------------------------------------------------
(* What the calls promise.                                                  *)

Kept(c) == st[c].outcome \in {"written", "remade", "already"}

\* However the calls and their late writes interleave, fail and are made again,
\* the file changes by one operation of the lesson at a time, made on what it
\* then holds (afresh: "what it did not do is done on top of what it did"), as
\* long as a task kept fits the lessons.  One that does not may be handed out all
\* the same, as HandedOutFits shows.
AsOneAtATime ==
    [][LET p == file.profile
       IN  (p.ready # None => ~Misfit(p.ready.lesson, p.lesson, FALSE)) => Lesson!Next]_<<file.profile, seen>>

\* A write after the answer that is said to be written, remade or there already
\* is in the file for good: the child was told no answer the file does not have.
SaidIsKept ==
    \A c \in Calls :
        (st[c].tool = "submit_answer" /\ Kept(c)) =>
            \E n \in DOMAIN file.profile.recent :
                file.profile.recent[n] = [task |-> st[c].about, choice |-> st[c].choice]

\* A call begun once another was answered on its instance reads what that one
\* said, however late it was written, unless the write came to nothing.
ReadsWhatWasTold ==
    \A c \in Calls : \A d \in st[c].after :
        /\ st[c].base > 0
        /\ st[d].tool = "submit_answer"
        /\ st[d].told = "ok"
        /\ st[d].outcome \in {"none", "written", "remade"}
        => \E n \in DOMAIN st[c].read.recent : st[c].read.recent[n].task = st[d].about

\* An answer leaves the lines that count it once, and once more at most for each
\* request Drive did not answer: a change the file holds already is another
\* writer's, and leaves none of this call, unless it stands at the very number
\* this call's unheard write would have given it (land).
CountedOnce == \A id \in Ids : lines[id] <= 1 + outages

\* An answer leaves its lines once the file holds it (answer, answerLines): when
\* the calls that told it are done, and each says the file holds it, one of them
\* has left them, as long as Drive answered every request.  A write that landed
\* unheard, with another over it since, is taken for another writer's and leaves
\* none.
CountedAtAll ==
    \A id \in Ids :
        LET told == {c \in Calls : st[c].tool = "submit_answer" /\ st[c].about = id /\ st[c].told = "ok"}
        IN  (outages = 0 /\ told # {} /\ \A c \in told : Kept(c)) => lines[id] >= 1

\* A task written ahead is handed out only while the lessons are kept to what it
\* was written for, however late the hand-out is written (Student, ReadyTask).
HandedOutFits ==
    [][LET p == file.profile
           q == file'.profile
       IN  (p.ready # None /\ q.task # None /\ q.task.id = p.ready.id) =>
               ~Misfit(p.ready.lesson, q.lesson, FALSE)]_vars

\* Every call is answered, and every write after an answer ends.
EveryCallEnds == \A c \in Calls : st[c].pc # "idle" ~> st[c].pc = "done"

\* Every answer the file holds is counted, and none oftener than the requests
\* that went unheard allow.
CountedRight == TypeOK /\ CountedOnce /\ CountedAtAll
=============================================================================
