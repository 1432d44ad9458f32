---------------------------- MODULE LessonProofs ----------------------------
(***************************************************************************)
(* The promises of the lesson, proved for any number of requests, lessons, *)
(* choices and limits.  Each operation keeps the profile in order          *)
(* (ProfileProofs), whichever order the calls are made in.                 *)
(***************************************************************************)
EXTENDS Lesson, ProfileProofs

-----------------------------------------------------------------------------
(* The invariant.                                                          *)

IInv == asked \subseteq Ids /\ clock \in Nat /\ Fine(profile, asked, clock)

\* What letting go leaves of the profile the file holds.
LEMMA LetGoKnows ==
    ASSUME IInv, NEW e
    PROVE  /\ Sound(LetGo(profile, e, clock))
           /\ Known(LetGo(profile, e, clock), asked)
           /\ LetGo(profile, e, clock).daily = profile.daily
           /\ LetGo(profile, e, clock).task = profile.task
           /\ Handed(LetGo(profile, e, clock)) = Handed(profile)
           /\ DayIsFull(LetGo(profile, e, clock), clock) = DayIsFull(profile, clock)
<1>1. profile \in Profiles /\ Fine(profile, asked, clock)
  BY DEF IInv, Fine, Sound
<1>2. /\ Fine(LetGo(profile, e, clock), asked, clock)
      /\ Handed(LetGo(profile, e, clock)) = Handed(profile)
      /\ DayIsFull(LetGo(profile, e, clock), clock) = DayIsFull(profile, clock)
  BY <1>1, LetGoFine
<1> QED
  BY <1>1, <1>2, LetGoTakes DEF Fine

\* Every step keeps the invariant.
LEMMA StepKeeps ==
    ASSUME IInv, [Next]_vars
    PROVE  IInv'
<1>1. /\ asked \subseteq Ids /\ clock \in Nat /\ profile \in Profiles
      /\ Fine(profile, asked, clock)
  BY DEF IInv, Fine, Sound
<1>2. ASSUME NEW q, profile' = q, clock' = clock, asked' \subseteq Ids, Fine(q, asked', clock)
      PROVE  IInv'
  BY <1>1, <1>2 DEF IInv
<1>3. ASSUME NEW e \in BOOLEAN, AwaitAhead(e)
      PROVE  IInv'
  <2>. DEFINE p == LetGo(profile, e, clock)
  <2>1. /\ ~DayIsFull(profile, clock) /\ p.request # None
        /\ profile' = Await(Skip(p), clock) /\ clock' = clock /\ asked' = asked
    BY <1>3 DEF AwaitAhead, Asks, AheadOpen, Writes
  <2>2. Fine(p, asked, clock) /\ ~DayIsFull(p, clock)
    BY <1>1, <2>1, LetGoFine
  <2>. HIDE DEF p
  <2>3. Fine(Skip(p), asked, clock) /\ ~DayIsFull(Skip(p), clock) /\ Skip(p).request = p.request
    BY <2>2, SkipFine
  <2>4. Fine(Await(Skip(p), clock), asked, clock)
    BY <1>1, <2>1, <2>3, AwaitFine
  <2> QED
    BY <1>1, <1>2, <2>1, <2>4
<1>4. ASSUME NEW e \in BOOLEAN, ServeReady(e)
      PROVE  IInv'
  <2>. DEFINE p == LetGo(profile, e, clock)
  <2>1. /\ p.ready # None
        /\ profile' = HandOutReady(p, clock) /\ clock' = clock /\ asked' = asked
    BY <1>4 DEF ServeReady, Writes
  <2>2. Fine(p, asked, clock)
    BY <1>1, LetGoFine
  <2>. HIDE DEF p
  <2> QED
    BY <1>1, <1>2, <2>1, <2>2, HandOutReadyFine
<1>5. ASSUME NEW e \in BOOLEAN, NEW id \in Ids, AskAnew(e, id)
      PROVE  IInv'
  <2>. DEFINE p == LetGo(profile, e, clock)
  <2>1. /\ ~DayIsFull(profile, clock) /\ id \notin asked /\ asked' = asked \cup {id}
        /\ profile' = Ask(Skip(p), id, clock) /\ clock' = clock
    BY <1>5 DEF AskAnew, Asks, Names, Writes
  <2>2. Fine(p, asked, clock) /\ ~DayIsFull(p, clock)
    BY <1>1, <2>1, LetGoFine
  <2>. HIDE DEF p
  <2>3. Fine(Skip(p), asked, clock) /\ ~DayIsFull(Skip(p), clock)
    BY <2>2, SkipFine
  <2>4. Fine(Ask(Skip(p), id, clock), asked', clock) /\ asked' \subseteq Ids
    BY <1>1, <2>1, <2>3, AskFine
  <2> QED
    BY <1>2, <2>1, <2>4
<1>6. ASSUME NEW id \in Ids, PrepareAhead(id)
      PROVE  IInv'
  <2>. DEFINE p == LetGo(profile, FALSE, clock)
  <2>1. /\ ~DayIsFull(p, clock) /\ id \notin asked /\ asked' = asked \cup {id}
        /\ profile' = AskAhead(p, id, clock) /\ clock' = clock
    BY <1>6 DEF PrepareAhead, OpensAhead, Names, Writes
  <2>2. Fine(p, asked, clock)
    BY <1>1, LetGoFine
  <2>. HIDE DEF p
  <2>3. Fine(AskAhead(p, id, clock), asked', clock) /\ asked' \subseteq Ids
    BY <1>1, <2>1, <2>2, AskAheadFine
  <2> QED
    BY <1>2, <2>1, <2>3
<1>7. ASSUME PrepareNothing
      PROVE  IInv'
  <2>1. profile' = LetGo(profile, FALSE, clock) /\ clock' = clock /\ asked' = asked
    BY <1>7 DEF PrepareNothing, Writes
  <2> QED
    BY <1>1, <1>2, <2>1, LetGoFine
<1>8. ASSUME HandInRefused
      PROVE  IInv'
  <2>1. /\ profile.request # None /\ profile' = Refuse(profile, clock)
        /\ clock' = clock /\ asked' = asked
    BY <1>8 DEF HandInRefused, HandedIn, Writes
  <2> QED
    BY <1>1, <1>2, <2>1, RefuseFine
<1>9. ASSUME HandInKept
      PROVE  IInv'
  <2>1. profile.request # None /\ profile' = Keep(profile) /\ clock' = clock /\ asked' = asked
    BY <1>9 DEF HandInKept, HandedIn, Writes
  <2> QED
    BY <1>1, <1>2, <2>1, KeepFine
<1>10. ASSUME HandInIssued
       PROVE  IInv'
  <2>1. /\ profile.request # None /\ profile' = Issue(profile, clock)
        /\ clock' = clock /\ asked' = asked
    BY <1>10 DEF HandInIssued, HandedIn, Writes
  <2> QED
    BY <1>1, <1>2, <2>1, IssueFine
<1>11. ASSUME NEW choice \in AnswerChoices, AnswerOnce(choice)
       PROVE  IInv'
  <2>1. InFlight(profile) /\ profile' = Apply(profile, choice) /\ clock' = clock /\ asked' = asked
    BY <1>11 DEF AnswerOnce, Writes
  <2> QED
    BY <1>1, <1>2, <2>1, ApplyFine
<1>12. ASSUME Discard
       PROVE  IInv'
  <2>1. profile' = DiscardTask(profile) /\ clock' = clock /\ asked' = asked
    BY <1>12 DEF Discard, Writes
  <2> QED
    BY <1>1, <1>2, <2>1, DiscardFine
<1>13. ASSUME NEW lesson \in Lessons, Edit(lesson)
       PROVE  IInv'
  <2>1. profile' = [profile EXCEPT !.lesson = lesson] /\ clock' = clock /\ asked' = asked
    BY <1>13 DEF Edit, Writes
  <2> QED
    BY <1>1, <1>2, <2>1, EditFine
<1>14. ASSUME Tick
       PROVE  IInv'
  <2>1. clock' = clock + 1 /\ profile' = profile /\ asked' = asked
    BY <1>14 DEF Tick
  <2>2. Sound(profile) /\ Known(profile, asked) /\ Timely(profile, clock) /\ Recorded(profile)
    BY <1>1 DEF Fine
  <2>3. Timely(profile, clock + 1)
    BY <1>1, <2>2, TimelyLater
  <2> QED
    BY <1>1, <2>1, <2>2, <2>3 DEF IInv, Fine
<1>15. CASE UNCHANGED vars
  BY <1>1, <1>15 DEF IInv, vars
<1> QED
  BY <1>3, <1>4, <1>5, <1>6, <1>7, <1>8, <1>9, <1>10, <1>11, <1>12, <1>13, <1>14, <1>15 DEF Next

\* The invariant holds of every behaviour.
THEOREM Invariance == Spec => []IInv
<1>1. Init => IInv
  <2>. SUFFICES ASSUME Init
                PROVE  IInv
    OBVIOUS
  <2>1. PICK lesson \in Lessons : profile = New(lesson, 0)
    BY DEF Init
  <2>2. clock = 0 /\ asked = {}
    BY DEF Init
  <2>3. /\ Sound(profile) /\ Handed(profile) = {} /\ profile.request = None /\ profile.ready = None
        /\ profile.task = None
        /\ profile.daily.date = 0 \div DayLength
        /\ profile.daily.accepted = 0 /\ profile.daily.failed = 0
    BY <2>1, NewIsSound
  <2>4. 0 \div DayLength <= 0 \div DayLength
    BY DaysGoOn
  <2>5. Known(profile, asked) /\ Timely(profile, clock)
    BY <2>2, <2>3, <2>4, LimitsAreNumbers DEF Known, Timely
  <2> QED
    BY <2>2, <2>3, <2>5 DEF IInv, Fine, Recorded
<1>2. IInv /\ [Next]_vars => IInv'
  BY StepKeeps
<1> QED
  BY <1>1, <1>2, PTL DEF Spec

\* Every variable keeps its type.
THEOREM TypeCorrect == Spec => []TypeOK
<1>1. IInv => TypeOK
  BY DEF IInv, Fine, Sound, TypeOK
<1> QED
  BY <1>1, Invariance, PTL

\* No task is kept ready beside an open request, in any file the lesson writes.
THEOREM NeverKeptBesideOpen == Spec => []ReadyBesideNoRequest
<1>1. IInv => ReadyBesideNoRequest
  BY DEF IInv, Fine, Sound, ReadyBesideNoRequest
<1> QED
  BY <1>1, Invariance, PTL

\* Every task handed out is answered, skipped, discarded or in flight, and
\* counted once.
THEOREM EveryTaskIsCounted == Spec => []TasksAddUp
<1>1. IInv => TasksAddUp
  BY DEF IInv, Fine, Sound, AddsUp, TasksAddUp
<1> QED
  BY <1>1, Invariance, PTL

\* No task is answered or skipped twice.
THEOREM EveryTaskEndsOnce == Spec => []EndsOnce
<1>1. IInv => EndsOnce
  BY DEF IInv, Fine, Sound, EachOnce, EndsOnce
<1> QED
  BY <1>1, Invariance, PTL

\* A task kept for the child can be handed out the moment it is asked for.
THEOREM KeptHasRoom == Spec => []ReadyHasRoom
<1>1. IInv => ReadyHasRoom
  BY DEF IInv, Fine, Timely, ReadyHasRoom
<1> QED
  BY <1>1, Invariance, PTL

\* No day goes past its limits.
THEOREM LimitsHold == Spec => []DayHasRoom
<1>1. IInv => DayHasRoom
  BY DEF IInv, Fine, Timely, DayHasRoom
<1> QED
  BY <1>1, Invariance, PTL

-----------------------------------------------------------------------------
(* What a step may never do.                                               *)

\* A task written ahead is handed out only while it fits the lesson.
THEOREM KeptFitsWhenHandedOut == Spec => HandedOutFits
<1>1. ASSUME IInv, [Next]_vars,
             profile.ready # None, profile'.task # None, profile'.task.id = profile.ready.id
      PROVE  ~Misfit(profile.ready.lesson, profile'.lesson, FALSE)
  <2>1. /\ Sound(profile) /\ profile \in Profiles /\ clock \in Nat /\ profile.request = None
        /\ profile.ready.id \notin Handed(profile)
    BY <1>1 DEF IInv, Fine, Sound, InOrder
  <2>2. ASSUME profile.task # None
        PROVE  profile.task.id # profile.ready.id
    BY <2>1, <2>2 DEF Sound, InOrder
  <2>3. ASSUME profile'.task = profile.task
        PROVE  FALSE
    BY <1>1, <2>2, <2>3
  <2>4. ASSUME NEW e \in BOOLEAN, AwaitAhead(e)
        PROVE  FALSE
    BY <2>1, <2>4, LetGoTakes DEF AwaitAhead, AheadOpen
  <2>5. ASSUME NEW e \in BOOLEAN, ServeReady(e)
        PROVE  ~Misfit(profile.ready.lesson, profile'.lesson, FALSE)
    <3>. DEFINE p == LetGo(profile, e, clock)
    <3>1. p.ready # None /\ profile' = HandOutReady(p, clock)
      BY <2>5 DEF ServeReady, Writes
    <3>2. Sound(p) /\ p.lesson = profile.lesson
      BY <2>1, LetGoSound, LetGoTakes
    <3>3. ~Misfit(profile.ready.lesson, profile.lesson, FALSE)
      BY <2>1, <3>1, LetGoFits
    <3>. HIDE DEF p
    <3>4. HandOutReady(p, clock).lesson = p.lesson
      BY <2>1, <3>1, <3>2, HandOutReadyKeeps
    <3> QED
      BY <3>1, <3>2, <3>3, <3>4
  <2>6. ASSUME NEW e \in BOOLEAN, NEW id \in Ids, AskAnew(e, id)
        PROVE  FALSE
    <3>. DEFINE p == LetGo(profile, e, clock)
                left == Skip(p)
    <3>1. /\ profile' = Ask(left, id, clock) /\ id \notin asked
      BY <2>6 DEF AskAnew, Names, Writes
    <3>2. Sound(p) /\ Known(p, asked)
      BY <1>1, LetGoKnows
    <3>. HIDE DEF p
    <3>3. Sound(left) /\ left.task = None /\ left.given = p.given
      BY <3>2, SkipKeeps
    <3>4. id \notin Handed(left)
      BY <3>1, <3>2, <3>3 DEF Known, Handed
    <3>. HIDE DEF left
    <3>5. Ask(left, id, clock).task = None
      BY <2>1, <3>3, <3>4, AskKeeps
    <3> QED
      BY <1>1, <3>1, <3>5
  <2>7. ASSUME NEW id \in Ids, PrepareAhead(id)
        PROVE  FALSE
    <3>. DEFINE p == LetGo(profile, FALSE, clock)
    <3>1. profile' = AskAhead(p, id, clock) /\ id \notin asked
      BY <2>7 DEF PrepareAhead, Names, Writes
    <3>2. Sound(p) /\ Known(p, asked) /\ p.task = profile.task
      BY <1>1, LetGoKnows
    <3>. HIDE DEF p
    <3>3. AskAhead(p, id, clock).task = p.task
      BY <2>1, <3>1, <3>2, FreshIsFresh, AskAheadKeeps
    <3> QED
      BY <2>3, <3>1, <3>2, <3>3
  <2>8. ASSUME PrepareNothing
        PROVE  FALSE
    BY <1>1, <2>3, <2>8, LetGoKnows DEF PrepareNothing, Writes
  <2>9. ASSUME HandInRefused \/ HandInKept \/ HandInIssued
        PROVE  FALSE
    BY <2>1, <2>9 DEF HandInRefused, HandInKept, HandInIssued, HandedIn
  <2>10. ASSUME NEW choice \in AnswerChoices, AnswerOnce(choice)
         PROVE  FALSE
    <3>1. InFlight(profile) /\ profile' = Apply(profile, choice)
      BY <2>10 DEF AnswerOnce, Writes
    <3>2. Apply(profile, choice).task.id = profile.task.id /\ profile.task # None
      BY <2>1, <3>1, ApplyKeeps DEF InFlight
    <3> QED
      BY <1>1, <2>2, <3>1, <3>2
  <2>11. ASSUME Discard
         PROVE  FALSE
    BY <1>1, <2>1, <2>11, DiscardKeeps DEF Discard, Writes
  <2>12. ASSUME NEW lesson \in Lessons, Edit(lesson)
         PROVE  FALSE
    BY <2>1, <2>3, <2>12, EditKeeps DEF Edit, Writes
  <2>13. ASSUME Tick \/ UNCHANGED vars
         PROVE  FALSE
    BY <2>3, <2>13 DEF Tick, vars
  <2> QED
    BY <1>1, <2>4, <2>5, <2>6, <2>7, <2>8, <2>9, <2>10, <2>11, <2>12, <2>13 DEF Next
<1>2. IInv /\ [Next]_vars =>
        [(profile.ready # None /\ profile'.task # None /\ profile'.task.id = profile.ready.id) =>
            ~Misfit(profile.ready.lesson, profile'.lesson, FALSE)]_vars
  BY <1>1
<1> QED
  BY <1>2, Invariance, PTL DEF Spec, HandedOutFits

\* A task is coming, or has come, to the card that waits for its request.
Coming(p, id, now) ==
    \/ p.task # None /\ p.task.id = id
    \/ p.ready # None /\ p.ready.id = id
    \/ p.request # None /\ p.request.id = id /\ Awaited(p.request, now)

LEMMA ComingOrNot ==
    ASSUME NEW p, NEW id, NEW now
    PROVE  TaskFor(p, id, now) = "not_coming" <=> ~Coming(p, id, now)
  BY DEF TaskFor, Coming

\* What is coming after a step was coming before it, or has a name of its own.
LEMMA OnlyTheNewComes ==
    ASSUME IInv, [Next]_vars, NEW id \in asked, Coming(profile', id, clock')
    PROVE  Coming(profile, id, clock)
<1>1. /\ Sound(profile) /\ profile \in Profiles /\ clock \in Nat
      /\ Known(profile, asked) /\ Timely(profile, clock)
  BY DEF IInv, Fine, Sound
<1>2. ASSUME NEW e \in BOOLEAN
      PROVE  /\ Coming(LetGo(profile, e, clock), id, clock) => Coming(profile, id, clock)
             /\ Coming(Skip(LetGo(profile, e, clock)), id, clock) => Coming(profile, id, clock)
  <2>. DEFINE p == LetGo(profile, e, clock)
  <2>1. /\ p.ready \in {profile.ready, None} /\ p.request \in {profile.request, None}
        /\ p.task = profile.task /\ Sound(p)
    BY <1>1, LetGoTakes, LetGoSound
  <2>. HIDE DEF p
  <2>2. Skip(p).request = p.request /\ Skip(p).ready = p.ready /\ Skip(p).task = None
    BY <2>1, SkipKeeps
  <2>3. Coming(p, id, clock) => Coming(profile, id, clock)
    BY <2>1 DEF Coming
  <2>4. Coming(Skip(p), id, clock) => Coming(p, id, clock)
    BY <2>2 DEF Coming
  <2> QED
    BY <2>3, <2>4 DEF p
<1>3. ASSUME NEW e \in BOOLEAN, AwaitAhead(e)
      PROVE  Coming(profile, id, clock)
  <2>. DEFINE p == LetGo(profile, e, clock)
              left == Skip(p)
              q == Await(left, clock)
  <2>1. AheadOpen(p, clock) /\ profile' = q /\ clock' = clock
    BY <1>3 DEF AwaitAhead, Writes
  <2>2. Sound(p)
    BY LetGoKnows
  <2>3. Sound(left) /\ left.request = p.request /\ left.ready = p.ready /\ left.task = None
    BY <2>2, SkipKeeps
  <2>4. left.request # None /\ Awaited(left.request, clock)
    BY <2>1, <2>3 DEF AheadOpen
  <2>5. Coming(left, id, clock) => Coming(profile, id, clock)
    BY <1>2
  <2>. HIDE DEF p, left
  <2>6. /\ q.request.id = left.request.id /\ q.ready = left.ready /\ q.task = left.task
    BY <1>1, <2>3, <2>4, AwaitKeeps
  <2>. HIDE DEF q
  <2>7. Coming(q, id, clock) => Coming(left, id, clock)
    BY <2>4, <2>6 DEF Coming
  <2> QED
    BY <2>1, <2>5, <2>7
<1>4. ASSUME NEW e \in BOOLEAN, ServeReady(e)
      PROVE  Coming(profile, id, clock)
  <2>. DEFINE p == LetGo(profile, e, clock)
              q == HandOutReady(p, clock)
  <2>1. p.ready # None /\ profile' = q /\ clock' = clock
    BY <1>4 DEF ServeReady, Writes
  <2>2. Sound(p) /\ (Coming(p, id, clock) => Coming(profile, id, clock))
    BY <1>2, LetGoKnows
  <2>. HIDE DEF p
  <2>3. q.request = None /\ q.ready = None /\ q.task = [id |-> p.ready.id, answered |-> NoAnswer]
    BY <1>1, <2>1, <2>2, HandOutReadyKeeps
  <2>. HIDE DEF q
  <2>4. Coming(q, id, clock) => Coming(p, id, clock)
    BY <2>1, <2>3 DEF Coming
  <2> QED
    BY <2>1, <2>2, <2>4
<1>5. ASSUME NEW e \in BOOLEAN, NEW new \in Ids, AskAnew(e, new)
      PROVE  Coming(profile, id, clock)
  <2>. DEFINE p == LetGo(profile, e, clock)
              left == Skip(p)
              q == Ask(left, new, clock)
  <2>1. new \notin asked /\ profile' = q /\ clock' = clock
    BY <1>5 DEF AskAnew, Names, Writes
  <2>2. Sound(p) /\ Known(p, asked)
    BY LetGoKnows
  <2>3. Sound(left) /\ left.task = None /\ left.given = p.given
    BY <2>2, SkipKeeps
  <2>4. new \notin Handed(left)
    BY <2>1, <2>2, <2>3 DEF Known, Handed
  <2>. HIDE DEF p, left
  <2>5. q.request.id = new /\ q.ready = None /\ q.task = None
    BY <1>1, <2>3, <2>4, AskKeeps
  <2>. HIDE DEF q
  <2> QED
    BY <2>1, <2>5 DEF Coming
<1>6. ASSUME NEW new \in Ids, PrepareAhead(new)
      PROVE  Coming(profile, id, clock)
  <2>. DEFINE p == LetGo(profile, FALSE, clock)
              q == AskAhead(p, new, clock)
  <2>1. new \notin asked /\ profile' = q /\ clock' = clock
    BY <1>6 DEF PrepareAhead, Names, Writes
  <2>2. Sound(p) /\ Known(p, asked) /\ p.task = profile.task
    BY LetGoKnows
  <2>. HIDE DEF p
  <2>3. q.request.id = new /\ q.ready = None /\ q.task = profile.task
    BY <1>1, <2>1, <2>2, FreshIsFresh, AskAheadKeeps
  <2>. HIDE DEF q
  <2> QED
    BY <2>1, <2>3 DEF Coming
<1>7. ASSUME PrepareNothing
      PROVE  Coming(profile, id, clock)
  BY <1>2, <1>7 DEF PrepareNothing, Writes
<1>8. ASSUME HandInRefused
      PROVE  Coming(profile, id, clock)
  <2>. DEFINE q == Refuse(profile, clock)
  <2>1. /\ profile.request # None /\ Awaited(profile.request, clock)
        /\ profile' = q /\ clock' = clock
    BY <1>8 DEF HandInRefused, HandedIn, Writes
  <2>2. /\ q.ready = None /\ q.task = profile.task
        /\ q.request # None => q.request.id = profile.request.id
    BY <1>1, <2>1, RefuseKeeps
  <2>. HIDE DEF q
  <2> QED
    BY <2>1, <2>2 DEF Coming
<1>9. ASSUME HandInKept
      PROVE  Coming(profile, id, clock)
  <2>. DEFINE q == Keep(profile)
  <2>1. /\ profile.request # None /\ Awaited(profile.request, clock)
        /\ profile' = q /\ clock' = clock
    BY <1>9 DEF HandInKept, HandedIn, Writes
  <2>2. q.request = None /\ q.ready.id = profile.request.id /\ q.task = profile.task
    BY <1>1, <2>1, KeepKeeps
  <2>. HIDE DEF q
  <2> QED
    BY <2>1, <2>2 DEF Coming
<1>10. ASSUME HandInIssued
       PROVE  Coming(profile, id, clock)
  <2>. DEFINE q == Issue(profile, clock)
  <2>1. /\ profile.request # None /\ Awaited(profile.request, clock)
        /\ profile' = q /\ clock' = clock
    BY <1>10 DEF HandInIssued, HandedIn, Writes
  <2>2. /\ q.request = None /\ q.ready = None
        /\ q.task = [id |-> profile.request.id, answered |-> NoAnswer]
    BY <1>1, <2>1, IssueKeeps
  <2>. HIDE DEF q
  <2> QED
    BY <2>1, <2>2 DEF Coming
<1>11. ASSUME NEW choice \in AnswerChoices, AnswerOnce(choice)
       PROVE  Coming(profile, id, clock)
  <2>. DEFINE q == Apply(profile, choice)
  <2>1. InFlight(profile) /\ profile' = q /\ clock' = clock
    BY <1>11 DEF AnswerOnce, Writes
  <2>2. /\ q.request = profile.request /\ q.ready = profile.ready
        /\ q.task.id = profile.task.id /\ profile.task # None
    BY <1>1, <2>1, ApplyKeeps DEF InFlight
  <2>. HIDE DEF q
  <2> QED
    BY <2>1, <2>2 DEF Coming
<1>12. ASSUME Discard
       PROVE  Coming(profile, id, clock)
  <2>. DEFINE q == DiscardTask(profile)
  <2>1. profile' = q /\ clock' = clock
    BY <1>12 DEF Discard, Writes
  <2>2. q.request = profile.request /\ q.ready = profile.ready /\ q.task = None
    BY <1>1, DiscardKeeps
  <2>. HIDE DEF q
  <2> QED
    BY <2>1, <2>2 DEF Coming
<1>13. ASSUME NEW lesson \in Lessons, Edit(lesson)
       PROVE  Coming(profile, id, clock)
  <2>. DEFINE q == [profile EXCEPT !.lesson = lesson]
  <2>1. profile' = q /\ clock' = clock
    BY <1>13 DEF Edit, Writes
  <2>2. q.request = profile.request /\ q.ready = profile.ready /\ q.task = profile.task
    BY <1>1, EditKeeps
  <2>. HIDE DEF q
  <2> QED
    BY <2>1, <2>2 DEF Coming
<1>14. ASSUME Tick
       PROVE  Coming(profile, id, clock)
  <2>1. clock' = clock + 1 /\ profile' = profile
    BY <1>14 DEF Tick
  <2>2. ASSUME profile.request # None, Awaited(profile.request, clock + 1)
        PROVE  Awaited(profile.request, clock)
    <3>1. profile.request.opened \in Nat /\ profile.request.opened <= clock
      <4>1. profile.request \in Requests
        BY <1>1, <2>2 DEF Profiles
      <4> QED
        BY <1>1, <2>2, <4>1 DEF Timely, Requests
    <3>2. profile.request.attempts < MaxAttempts /\ clock + 1 - profile.request.opened < Window
      BY <1>1, <2>2, <3>1, LimitsAreNumbers DEF Awaited
    <3>3. -Window <= clock - profile.request.opened /\ clock - profile.request.opened < Window
      <4>. DEFINE opened == profile.request.opened
      <4>1. /\ opened \in Nat /\ opened <= clock /\ clock + 1 - opened < Window
            /\ clock \in Nat /\ Window \in Nat
        BY <1>1, <3>1, <3>2, LimitsAreNumbers
      <4>. HIDE DEF opened
      <4>2. -Window <= clock - opened /\ clock - opened < Window
        BY <4>1
      <4> QED
        BY <4>2 DEF opened
    <3> QED
      BY <3>2, <3>3 DEF Awaited
  <2> QED
    BY <2>1, <2>2 DEF Coming
<1>15. CASE UNCHANGED vars
  BY <1>15 DEF vars
<1> QED
  BY <1>3, <1>4, <1>5, <1>6, <1>7, <1>8, <1>9, <1>10, <1>11, <1>12, <1>13, <1>14, <1>15 DEF Next

\* A card told that its task is not coming is told so for good.
THEOREM NotComingForGood == Spec => NotComingIsFinal
<1>1. ASSUME IInv, [Next]_vars, NEW id \in asked, TaskFor(profile, id, clock) = "not_coming"
      PROVE  TaskFor(profile, id, clock)' = "not_coming"
  <2>1. ~Coming(profile, id, clock)
    BY <1>1, ComingOrNot
  <2>2. ~Coming(profile', id, clock')
    BY <1>1, <2>1, OnlyTheNewComes
  <2>3. TaskFor(profile', id, clock') = "not_coming"
    BY <2>2, ComingOrNot
  <2> QED
    BY <2>3
<1>2. IInv /\ [Next]_vars =>
        [\A id \in asked :
            TaskFor(profile, id, clock) = "not_coming" => TaskFor(profile, id, clock)' = "not_coming"]_vars
  BY <1>1
<1> QED
  BY <1>2, Invariance, PTL DEF Spec, NotComingIsFinal

\* The request a child waits for ends on the card or with its last attempt.
THEOREM WaitedForIsKept == Spec => WaitIsKept
<1>. DEFINE Ends ==
              \/ profile'.request # None /\ profile'.request.id = profile.request.id
              \/ profile'.task # None /\ profile'.task.id = profile.request.id
              \/ profile.request.attempts + 1 = MaxAttempts
<1>1. ASSUME IInv, [Next]_vars, WaitedOpen(profile, clock), clock' = clock
      PROVE  Ends
  <2>1. /\ Sound(profile) /\ profile \in Profiles /\ clock \in Nat
        /\ profile.request # None /\ ~profile.request.ahead
    BY <1>1 DEF IInv, Fine, Sound, WaitedOpen
  <2>2. ASSUME profile'.request = profile.request
        PROVE  Ends
    BY <2>1, <2>2
  <2>3. ASSUME NEW e \in BOOLEAN, NEW id \in Ids,
               AwaitAhead(e) \/ ServeReady(e) \/ AskAnew(e, id) \/ PrepareAhead(id) \/ PrepareNothing
        PROVE  Ends
    BY <1>1, <2>3 DEF AwaitAhead, ServeReady, AskAnew, Asks, PrepareAhead, PrepareNothing
  <2>4. ASSUME NEW e \in BOOLEAN, AwaitAhead(e) \/ ServeReady(e) \/ PrepareNothing
        PROVE  Ends
    BY <1>1, <2>4 DEF AwaitAhead, ServeReady, Asks, PrepareNothing
  <2>5. ASSUME HandInRefused
        PROVE  Ends
    <3>1. profile' = Refuse(profile, clock)
      BY <2>5 DEF HandInRefused, Writes
    <3>2. \/ /\ Refuse(profile, clock).request # None
             /\ Refuse(profile, clock).request.id = profile.request.id
          \/ profile.request.attempts + 1 = MaxAttempts
      BY <2>1, RefuseKeeps
    <3> QED
      BY <3>1, <3>2
  <2>6. ASSUME HandInKept
        PROVE  Ends
    BY <2>1, <2>6 DEF HandInKept
  <2>7. ASSUME HandInIssued
        PROVE  Ends
    <3>1. profile' = Issue(profile, clock)
      BY <2>7 DEF HandInIssued, Writes
    <3>2. Issue(profile, clock).task = [id |-> profile.request.id, answered |-> NoAnswer]
      BY <2>1, IssueKeeps
    <3>3. Issue(profile, clock).task \in CardTasks
      BY <2>1, <3>2 DEF Profiles, Requests, CardTasks
    <3> QED
      BY <3>1, <3>2, <3>3, NoneIsNone
  <2>8. ASSUME NEW choice \in AnswerChoices, AnswerOnce(choice)
        PROVE  Ends
    BY <2>1, <2>2, <2>8, ApplyKeeps DEF AnswerOnce, Writes
  <2>9. ASSUME Discard
        PROVE  Ends
    BY <2>1, <2>2, <2>9, DiscardKeeps DEF Discard, Writes
  <2>10. ASSUME NEW lesson \in Lessons, Edit(lesson)
         PROVE  Ends
    BY <2>1, <2>2, <2>10, EditKeeps DEF Edit, Writes
  <2>11. ASSUME Tick
         PROVE  Ends
    BY <1>1, <2>1, <2>11 DEF Tick
  <2>12. CASE UNCHANGED vars
    BY <2>2, <2>12 DEF vars
  <2> QED
    BY <1>1, <2>3, <2>4, <2>5, <2>6, <2>7, <2>8, <2>9, <2>10, <2>11, <2>12 DEF Next
<1>2. IInv /\ [Next]_vars => [WaitedOpen(profile, clock) /\ clock' = clock => Ends]_vars
  BY <1>1
<1> QED
  BY <1>2, Invariance, PTL DEF Spec, WaitIsKept

\* In a lesson of any length, each task that reached the child is counted once and
\* ends once.
THEOREM BooksAreBalanced == Spec => []BooksBalance
  BY TypeCorrect, EveryTaskIsCounted, EveryTaskEndsOnce, PTL DEF BooksBalance

\* For every limit and every length of a day, no day goes over its room, and what is
\* kept ready has room of its own.
THEOREM RoomIsThere == Spec => []RoomIsKept
  BY LimitsHold, KeptHasRoom, NeverKeptBesideOpen, PTL DEF RoomIsKept

\* For any window and any passing of time, a card that was told to wait, or not to,
\* was told the truth.
THEOREM CardIsTold == Spec => CardIsToldTrue
  BY NotComingForGood, WaitedForIsKept DEF CardIsToldTrue

=============================================================================
