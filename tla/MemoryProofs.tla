---------------------------- MODULE MemoryProofs ----------------------------
(***************************************************************************)
(* What a profile remembers of its lessons and what is chosen by it, for   *)
(* every length of the lessons and every setting: probes are apart, what   *)
(* counts as mastered was earned, a day is counted whole and gives no more *)
(* than its room; a damaged profile is put back from what was kept of it;  *)
(* a list's ideas are given in turn; the latest answers are kept and the   *)
(* week is told as it was; and every topic's turn comes round.  The seven  *)
(* share no state, and each has an invariant of its own.                   *)
(***************************************************************************)
EXTENDS Probes, Mastery, Days, Recovery, Ideas, History, Rotation, FiniteSetTheorems, TLAPS

(***************************************************************************)
(* The probes (Probes): each task handed out takes exactly one turn, so a  *)
(* probe is handed out only as the last of ProbeEvery, whatever became of  *)
(* the tasks between.                                                      *)
(***************************************************************************)

\* The turn of a probe, as a count of the tasks handed out before it.
ProbesTurn(n) == n % ProbeEvery = ProbeEvery - 1

EveryTaskTakesATurn == TasksBehind = given

\* Each task that reached the child is behind it once, answered, skipped,
\* discarded or on the card; so the turn a probe was chosen at is still the turn
\* it is handed out at, and the last probe was handed out at such a turn.
ProbesInv ==
    /\ ProbesTypeOK
    /\ EveryTaskTakesATurn
    /\ asked = "probe" => ProbesTurn(given)
    /\ probed # 0 => probed \in 1..given /\ ProbesTurn(probed - 1)

\* Two turns of the probe are ProbeEvery tasks apart at least.
LEMMA TurnsAreApart ==
    ASSUME NEW m \in Nat, NEW n \in Nat, m < n, ProbesTurn(m), ProbesTurn(n)
    PROVE  n - m >= ProbeEvery
<1>. DEFINE k == ProbeEvery
<1>1. k \in Nat \ {0}
  BY ProbesHaveTurns
<1>. HIDE DEF k
<1>2. m % k = k - 1 /\ n % k = k - 1
  BY DEF ProbesTurn, k
<1>. DEFINE a == m \div k  b == n \div k
<1>3. a \in Int /\ m = k * a + (k - 1)
  BY <1>1, <1>2
<1>4. b \in Int /\ n = k * b + (k - 1)
  BY <1>1, <1>2
<1>. HIDE DEF a, b
<1>5. b > a
  BY <1>1, <1>3, <1>4
<1>6. k * (b - a) = k + k * (b - a - 1) /\ b - a - 1 \in Nat
  BY <1>1, <1>3, <1>4, <1>5
<1>7. k * (b - a - 1) \in Nat
  BY <1>1, <1>6
<1>. QED
  BY <1>1, <1>3, <1>4, <1>6, <1>7 DEF k

LEMMA ProbesInitially == ProbesInit => ProbesInv
<1>. SUFFICES ASSUME ProbesInit PROVE ProbesInv
  OBVIOUS
<1>1. ProbesTypeOK
  BY DEF ProbesInit, ProbesTypeOK
<1>2. EveryTaskTakesATurn
  BY DEF ProbesInit, EveryTaskTakesATurn, TasksBehind
<1>3. asked # "probe" /\ probed = 0
  BY DEF ProbesInit
<1>. QED
  BY <1>1, <1>2, <1>3 DEF ProbesInv

LEMMA ProbesInductive == ProbesInv /\ [ProbesNext]_probe_vars => ProbesInv'
<1>. SUFFICES ASSUME ProbesInv, [ProbesNext]_probe_vars PROVE ProbesInv'
  OBVIOUS
<1>. USE ProbesHaveTurns
         DEF ProbesInv, ProbesTypeOK, EveryTaskTakesATurn, TasksBehind, ProbesTurn
<1>1. CASE AskNow
  BY <1>1 DEF AskNow, Chosen, ProbeDue
<1>2. CASE AskAhead
  BY <1>2 DEF AskAhead, Chosen, ProbeDue
<1>3. CASE HandOut
  BY <1>3 DEF HandOut
<1>4. CASE LetGo
  BY <1>4 DEF LetGo
<1>5. CASE Await
  BY <1>5 DEF Await
<1>6. CASE AnswerCard
  BY <1>6 DEF AnswerCard
<1>7. CASE DiscardTask
  BY <1>7 DEF DiscardTask
<1>8. CASE UNCHANGED probe_vars
  BY <1>8 DEF probe_vars
<1>. QED
  BY <1>1, <1>2, <1>3, <1>4, <1>5, <1>6, <1>7, <1>8 DEF ProbesNext

\* What is counted behind the child is what reached the child, in every state.
THEOREM EveryTurnIsCounted == ProbesSpec => []ProbesInv
<1>. QED
  BY ProbesInitially, ProbesInductive, PTL DEF ProbesSpec

\* Between two probes the child is handed ProbeEvery - 1 other tasks at least.
THEOREM ProbesApart == ProbesSpec => ProbesAreApart
<1>1. ASSUME ProbesInv, [ProbesNext]_probe_vars
      PROVE  [probed' # probed => probed = 0 \/ probed' - probed >= ProbeEvery]_probe_vars
  <2>. SUFFICES ASSUME ProbesNext, probed' # probed, probed # 0
                PROVE  probed' - probed >= ProbeEvery
    BY <1>1
  <2>1. HandOut /\ asked = "probe" /\ probed' = given + 1
    BY DEF ProbesNext, AskNow, AskAhead, HandOut, LetGo, Await, AnswerCard, DiscardTask
  <2>2. ProbesTurn(given) /\ ProbesTurn(probed - 1) /\ probed \in 1..given /\ given \in Nat
    BY <1>1, <2>1 DEF ProbesInv, ProbesTypeOK
  <2>3. probed - 1 \in Nat /\ probed - 1 < given
    BY <2>2
  <2>4. given - (probed - 1) >= ProbeEvery
    BY <2>2, <2>3, TurnsAreApart
  <2>. QED
    BY <2>1, <2>2, <2>4, ProbesHaveTurns
<1>. QED
  BY <1>1, EveryTurnIsCounted, PTL DEF ProbesSpec, ProbesAreApart

-----------------------------------------------------------------------------

(***************************************************************************)
(* The levels mastered (Mastery): the run the profile keeps is the run     *)
(* there was.                                                              *)
(***************************************************************************)

\* The run WrongStreak keeps is how many answers were wrong since a right one.
StreakIsTheRun == streak = run

MasteryInv == MasteryTypeOK /\ StreakIsTheRun /\ MasteryIsEarned

\* One answer, with the level the estimate cleared.
Judged(t, task, correct, aided, clears) ==
    /\ clears \in MayClear(t, task, correct, aided)
    /\ level' = [Cleared EXCEPT
           ![t] = IF streak'[t] >= MasteryLostAfter THEN NotMastered ELSE HeldAt(@, clears)]

LEMMA LevelsAreNumbers == \A l \in Levels \cup {NotMastered} : l \in Nat
BY MasteryHasRules DEF NotMastered

LEMMA MasteryInitially == MasteryInit => MasteryInv
<1>. SUFFICES ASSUME MasteryInit PROVE MasteryInv
  OBVIOUS
<1>. USE MasteryHasRules
<1>1. MasteryTypeOK
  <2>1. level \in [MetTopics -> Levels \cup {NotMastered}]
    BY DEF MasteryInit
  <2>2. streak \in [MetTopics -> Nat] /\ run \in [MetTopics -> Nat]
    BY DEF MasteryInit
  <2>3. solved \in [MetTopics -> 0..MasteryAnswers]
    BY DEF MasteryInit
  <2>4. best \in [MetTopics -> Levels \cup {NotMastered}]
    BY DEF MasteryInit
  <2>. QED
    BY <2>1, <2>2, <2>3, <2>4 DEF MasteryInit, MasteryTypeOK
<1>2. cautious => \A t \in MetTopics : level[t] = NotMastered
  BY DEF MasteryInit
<1>. QED
  BY <1>1, <1>2 DEF MasteryInv, StreakIsTheRun, MasteryIsEarned, MasteryInit

\* An answer keeps the types, and the runs alike.
LEMMA JudgeTyped ==
    ASSUME MasteryInv, NEW t \in MetTopics, NEW task \in Levels, NEW correct \in BOOLEAN,
           NEW aided \in BOOLEAN, Judge(t, task, correct, aided)
    PROVE  MasteryTypeOK' /\ StreakIsTheRun'
<1>. USE MasteryHasRules
<1>1. streak' = run'
  BY DEF MasteryInv, MasteryTypeOK, StreakIsTheRun, Judge, Streak
<1>2. run' \in [MetTopics -> Nat]
  BY DEF MasteryInv, MasteryTypeOK, Judge
<1>3. solved' \in [MetTopics -> 0..MasteryAnswers]
  BY DEF MasteryInv, MasteryTypeOK, Judge
<1>4. best' \in [MetTopics -> Levels \cup {NotMastered}]
  BY DEF MasteryInv, MasteryTypeOK, Judge
<1>5. Cleared \in [MetTopics -> Levels \cup {NotMastered}]
  BY DEF MasteryInv, MasteryTypeOK, Cleared
<1>6. PICK clears : Judged(t, task, correct, aided, clears)
  BY DEF Judge, Judged
<1>7. clears \in Levels \cup {NotMastered}
  BY <1>6 DEF Judged, MayClear
<1>8. level' \in [MetTopics -> Levels \cup {NotMastered}]
  BY <1>5, <1>6, <1>7 DEF Judged, HeldAt
<1>9. cautious' = TRUE
  BY DEF Judge
<1>. QED
  BY <1>1, <1>2, <1>3, <1>4, <1>8, <1>9 DEF MasteryTypeOK, StreakIsTheRun

\* What the answer clears it clears of every topic; what counted before counts
\* as it was, and what it adds is its own topic's.
LEMMA JudgeEarned ==
    ASSUME MasteryInv, NEW t \in MetTopics, NEW task \in Levels, NEW correct \in BOOLEAN,
           NEW aided \in BOOLEAN, Judge(t, task, correct, aided)
    PROVE  MasteryIsEarned'
<1>. USE MasteryHasRules
<1>. SUFFICES ASSUME NEW u \in MetTopics, level'[u] # NotMastered
              PROVE  solved'[u] = MasteryAnswers /\ level'[u] <= best'[u] /\ run'[u] < MasteryLostAfter
  BY DEF MasteryIsEarned
<1>1. MasteryTypeOK' /\ streak' = run'
  BY JudgeTyped DEF StreakIsTheRun
<1>2. PICK clears : Judged(t, task, correct, aided, clears)
  BY DEF Judge, Judged
<1>3. Cleared \in [MetTopics -> Levels \cup {NotMastered}]
  BY DEF MasteryInv, MasteryTypeOK, Cleared
<1>4. Cleared[u] # NotMastered =>
          cautious /\ Cleared[u] = level[u] /\ solved[u] = MasteryAnswers
              /\ level[u] <= best[u] /\ run[u] < MasteryLostAfter
  BY DEF MasteryInv, MasteryTypeOK, MasteryIsEarned, Cleared
<1>5. CASE u # t
  <2>1. level'[u] = Cleared[u]
    BY <1>2, <1>3, <1>5 DEF Judged
  <2>2. solved'[u] = solved[u] /\ best'[u] = best[u] /\ run'[u] = run[u]
    BY <1>5 DEF MasteryInv, MasteryTypeOK, Judge
  <2>. QED
    BY <1>4, <2>1, <2>2
<1>6. CASE u = t
  <2>1. level'[t] = IF streak'[t] >= MasteryLostAfter THEN NotMastered ELSE HeldAt(Cleared[t], clears)
    BY <1>2, <1>3 DEF Judged
  <2>2. run'[t] \in Nat /\ run'[t] < MasteryLostAfter
    BY <1>1, <1>6, <2>1 DEF MasteryTypeOK
  <2>3. best'[t] = IF correct /\ ~aided /\ task > best[t] THEN task ELSE best[t]
    BY <2>2 DEF MasteryInv, MasteryTypeOK, Judge
  <2>4. best[t] \in Nat /\ task \in Nat /\ Cleared[t] \in Nat
    BY <1>3, LevelsAreNumbers DEF MasteryInv, MasteryTypeOK
  <2>5. clears \in Nat
    BY <1>2, LevelsAreNumbers DEF Judged, MayClear
  <2>6. level'[t] = HeldAt(Cleared[t], clears)
    BY <1>1, <2>1, <2>2
  <2>7. CASE clears = NotMastered \/ clears <= Cleared[t]
    <3>1. level'[t] = Cleared[t]
      BY <2>6, <2>4, <2>7, <2>5 DEF HeldAt, NotMastered
    <3>2. solved'[t] = MasteryAnswers
      BY <1>4, <1>6, <3>1 DEF MasteryInv, MasteryTypeOK, Judge
    <3>. QED
      BY <1>4, <1>6, <2>2, <2>3, <2>4, <3>1, <3>2
  <2>8. CASE clears # NotMastered /\ ~(clears <= Cleared[t])
    <3>1. correct /\ ~aided /\ solved'[t] >= MasteryAnswers /\ clears \in Levels /\ clears <= task
      BY <1>2, <2>8 DEF Judged, MayClear
    <3>2. level'[t] = clears
      BY <2>6, <2>4, <2>8, <2>5 DEF HeldAt
    <3>3. solved'[t] = MasteryAnswers
      BY <1>1, <3>1 DEF MasteryTypeOK
    <3>. QED
      BY <1>6, <2>2, <2>3, <2>4, <3>1, <3>2, <3>3
  <2>. QED
    BY <2>7, <2>8
<1>. QED
  BY <1>5, <1>6

LEMMA MasteryInductive == MasteryInv /\ [MasteryNext]_mastery_vars => MasteryInv'
<1>1. ASSUME MasteryInv, MasteryNext PROVE MasteryInv'
  BY <1>1, JudgeTyped, JudgeEarned DEF MasteryNext, MasteryInv
<1>2. ASSUME MasteryInv, UNCHANGED mastery_vars PROVE MasteryInv'
  BY <1>2 DEF mastery_vars, MasteryInv, MasteryTypeOK, StreakIsTheRun, MasteryIsEarned
<1>. QED
  BY <1>1, <1>2

\* What holds in every state: the types, the runs alike, and
THEOREM MasteryInvariance == MasterySpec => []MasteryInv
<1>. QED
  BY MasteryInitially, MasteryInductive, PTL DEF MasterySpec

\* whatever counts as mastered was earned.
THEOREM Earned == MasterySpec => []MasteryIsEarned
<1>1. MasteryInv => MasteryIsEarned
  BY DEF MasteryInv
<1>. QED
  BY <1>1, MasteryInvariance, PTL

\* A mastery that counts never moves down, and only a run of wrong answers in
\* its own topic loses it.
THEOREM Lost == MasterySpec => LostByARunAlone
<1>1. ASSUME MasteryInv, NEW t \in MetTopics, NEW task \in Levels, NEW correct \in BOOLEAN,
             NEW aided \in BOOLEAN, Judge(t, task, correct, aided),
             NEW u \in MetTopics, cautious, level'[u] < level[u]
      PROVE  level'[u] = NotMastered /\ run'[u] >= MasteryLostAfter
  <2>. USE MasteryHasRules
  <2>1. PICK clears : Judged(t, task, correct, aided, clears)
    BY <1>1 DEF Judge, Judged
  <2>2. Cleared = level /\ level \in [MetTopics -> Levels \cup {NotMastered}]
    BY <1>1 DEF Cleared, MasteryInv, MasteryTypeOK
  <2>3. u = t
    <3>1. level[u] \in Nat
      BY <2>2, LevelsAreNumbers
    <3>2. u # t => level'[u] = level[u]
      BY <2>1, <2>2 DEF Judged
    <3>. QED
      BY <1>1, <3>1, <3>2
  <2>4. level'[t] = IF streak'[t] >= MasteryLostAfter THEN NotMastered ELSE HeldAt(level[t], clears)
    BY <2>1, <2>2 DEF Judged
  <2>5. clears \in Nat /\ level[t] \in Nat
    BY <2>1, <2>2, LevelsAreNumbers DEF Judged, MayClear
  <2>6. streak'[t] >= MasteryLostAfter
    BY <1>1, <2>3, <2>4, <2>5 DEF HeldAt
  <2>7. streak' = run'
    BY <1>1, JudgeTyped DEF StreakIsTheRun
  <2>. QED
    BY <2>3, <2>4, <2>6, <2>7
<1>2. ASSUME MasteryInv, [MasteryNext]_mastery_vars
      PROVE  [\A t \in MetTopics : cautious /\ level'[t] < level[t] =>
                 level'[t] = NotMastered /\ run'[t] >= MasteryLostAfter]_mastery_vars
  BY <1>1, <1>2 DEF MasteryNext
<1>. QED
  BY <1>2, MasteryInvariance, PTL DEF MasterySpec, LostByARunAlone

-----------------------------------------------------------------------------

(***************************************************************************)
(* The family's day (Days): a day begun now holds the moment it is begun   *)
(* in, by whatever clock, and is exchanged only for one it is outside of.  *)
(***************************************************************************)

Counters == [accepted : Nat, date : Int, ends : Int, offset : Int]

DaysInv ==
    /\ moment \in Nat /\ skew \in Nat
    /\ daily \in Counters

LEMMA DayBegunNow ==
    ASSUME NEW now \in Nat, NEW offset \in Int
    PROVE  /\ DayFrom(now, offset) \in Counters
           /\ Ends(DayFrom(now, offset)) \in Int
           /\ Ends(DayFrom(now, offset)) - DayLength <= now
           /\ now < Ends(DayFrom(now, offset))
<1>. DEFINE dayIs == (now + offset) \div DayLength
<1>1. DayLength \in Nat \ {0} /\ NoEnd \in Int /\ NoEnd <= 0
  <2>1. DayLength \in Nat \ {0} /\ MaxMoment \in Nat
    BY DaysAreTimes
  <2>2. DayLength * MaxMoment \in Nat
    BY <2>1
  <2>. QED
    BY <2>1, <2>2 DEF NoEnd
<1>2. dayIs \in Int /\ DayLength * dayIs <= now + offset /\ now + offset < DayLength * dayIs + DayLength
  BY <1>1
<1>3. DayFrom(now, offset) =
        [accepted |-> 0, date |-> dayIs, ends |-> (dayIs + 1) * DayLength - offset, offset |-> offset]
  BY DEF DayFrom
<1>. HIDE DEF dayIs
<1>4. (dayIs + 1) * DayLength = DayLength * dayIs + DayLength /\ DayLength * dayIs \in Int
  BY <1>1, <1>2
<1>. DEFINE finish == (dayIs + 1) * DayLength - offset
<1>5. finish \in Int /\ finish - DayLength <= now /\ now < finish
  BY <1>1, <1>2, <1>4
<1>. HIDE DEF finish
<1>6. Ends(DayFrom(now, offset)) = finish
  BY <1>1, <1>3, <1>5 DEF Ends, finish
<1>7. DayFrom(now, offset) \in Counters
  BY <1>2, <1>3, <1>5 DEF Counters, finish
<1>. QED
  BY <1>5, <1>6, <1>7

LEMMA EndsIsATime == ASSUME NEW d \in Counters PROVE Ends(d) \in Int
<1>1. DayLength \in Nat
  BY DaysAreTimes
<1>2. (d.date + 1) * DayLength \in Int
  BY <1>1 DEF Counters
<1>. QED
  BY <1>2 DEF Ends, Counters

\* What is counted is counted in the day its moment is in.
LEMMA CountedNow ==
    ASSUME NEW d \in Counters, NEW now \in Nat
    PROVE  /\ Counted(d, now) \in Counters
           /\ Ends(Counted(d, now)) = Ends(Today(d, now))
           /\ Ends(Today(d, now)) \in Int
           /\ Ends(Today(d, now)) - DayLength <= now /\ now < Ends(Today(d, now))
<1>1. d.offset \in Int
  BY DEF Counters
<1>2. /\ Today(d, now) \in Counters
      /\ Ends(Today(d, now)) - DayLength <= now /\ now < Ends(Today(d, now))
  BY <1>1, DayBegunNow DEF Today
<1>3. Counted(d, now) \in Counters /\ Ends(Counted(d, now)) = Ends(Today(d, now))
  BY <1>2 DEF Counted, Counters, Ends
<1>. QED
  BY <1>2, <1>3, EndsIsATime

LEMMA DaysInitially == DaysInit => DaysInv
<1>. SUFFICES ASSUME DaysInit PROVE DaysInv
  OBVIOUS
<1>1. DayLength \in Nat \ {0} /\ MaxMoment \in Nat /\ DailyTasks \in Nat /\ Skews \subseteq Nat
      /\ Offsets \subseteq Int
  BY DaysAreTimes
<1>2. NoEnd \in Int
  BY <1>1 DEF NoEnd
<1>3. daily \in Counters
  <2>1. CASE daily \in {DayFrom(DayLength, offset) : offset \in Offsets}
    BY <1>1, <2>1, DayBegunNow
  <2>2. CASE daily \in [accepted : 0..DailyTasks, date : 0..2, ends : {NoEnd}, offset : {0}]
    BY <1>1, <1>2, <2>2 DEF Counters
  <2>. QED
    BY <2>1, <2>2 DEF DaysInit
<1>. QED
  BY <1>1, <1>3 DEF DaysInit, DaysInv

LEMMA DaysInductive == DaysInv /\ [DaysNext]_day_vars => DaysInv'
<1>. SUFFICES ASSUME DaysInv, [DaysNext]_day_vars PROVE DaysInv'
  OBVIOUS
<1>1. CASE OpenRequest
  BY <1>1 DEF OpenRequest, DaysInv
<1>2. CASE HandOutToday
  BY <1>2, CountedNow DEF HandOutToday, DaysInv, Nows
<1>3. CASE TellClock
  BY <1>3, DaysAreTimes DEF TellClock, ClockSet, DaysInv, Counters
<1>4. CASE TimePasses
  BY <1>4 DEF TimePasses, DaysInv
<1>5. CASE UNCHANGED day_vars
  BY <1>5 DEF day_vars, DaysInv
<1>. QED
  BY <1>1, <1>2, <1>3, <1>4, <1>5 DEF DaysNext

\* For any length of a day, any offsets and any disagreement of the instances, no
\* day is cut short by a clock that is told, and each task is counted in the day
\* it reached the child in (Today, SetClock).
THEOREM WholeDays == DaysSpec => DaysAreWhole
<1>1. ASSUME DaysInv, [DaysNext]_day_vars
      PROVE  [LeftAtAnEdge /\ CountedInItsDay]_day_vars
  <2>. SUFFICES ASSUME DaysNext PROVE LeftAtAnEdge /\ CountedInItsDay
    BY <1>1
  <2>1. CASE HandOutToday
    <3>1. PICK now \in Nows : daily' = Counted(daily, now)
      BY <2>1 DEF HandOutToday
    <3>2. /\ now \in Nat /\ moment - skew <= now /\ now <= moment + skew
          /\ moment \in Nat /\ skew \in Nat /\ daily \in Counters
      BY <1>1, <3>1 DEF Nows, DaysInv
    <3>3. /\ Ends(daily') = Ends(Today(daily, now)) /\ Ends(daily') \in Int
          /\ Ends(daily') - DayLength <= now /\ now < Ends(daily')
      BY <3>1, <3>2, CountedNow
    <3>4. DayLength \in Nat /\ Ends(daily) \in Int
      BY <3>2, EndsIsATime, DaysAreTimes
    <3>5. CountedInItsDay
      BY <3>2, <3>3, <3>4 DEF CountedInItsDay
    <3>6. Ends(daily') # Ends(daily) => now < Ends(daily) - DayLength \/ now >= Ends(daily)
      BY <3>2, <3>3, <3>4 DEF Today
    <3>7. LeftAtAnEdge
      BY <3>2, <3>4, <3>6 DEF LeftAtAnEdge
    <3>. QED
      BY <3>5, <3>7
  <2>2. CASE TellClock
    <3>1. Ends(daily') = Ends(daily)
      BY <1>1, <2>2 DEF TellClock, ClockSet, Ends, DaysInv, Counters
    <3>. QED
      BY <2>2, <3>1 DEF TellClock, LeftAtAnEdge, CountedInItsDay
  <2>3. CASE OpenRequest
    BY <2>3 DEF OpenRequest, LeftAtAnEdge, CountedInItsDay
  <2>4. CASE TimePasses
    BY <2>4 DEF TimePasses, LeftAtAnEdge, CountedInItsDay
  <2>. QED
    BY <2>1, <2>2, <2>3, <2>4 DEF DaysNext
<1>. QED
  BY <1>1, DaysInitially, DaysInductive, PTL DEF DaysSpec, DaysAreWhole

(***************************************************************************)
(* How many tasks a family is given in a day's length.  A day is left when *)
(* it is over, and the next ends a day's length later, unless a clock was  *)
(* told in between; so of the days that a stretch as long as one reaches   *)
(* into, each but two was begun by a clock that was told.                  *)
(***************************************************************************)

\* The tasks handed out from a time on, as far back as they are counted.
HandedFrom(time) ==
    LET age == moment - time
    IN  IF age < 0 THEN 0 ELSE IF age < DayLength THEN handed[age] ELSE handed[DayLength - 1]

HandedInADay == handed[DayLength - 1]

\* What the day being counted gave, at most.
GivenByTheDay == IF daily.accepted < DailyTasks THEN daily.accepted ELSE DailyTasks

\* A day of a clock ends at a midnight of it.
AtMidnight(end, offset) == \E n \in Int : end + offset = n * DayLength

\* Of the clocks told, told began a day of their own up to the one being counted,
\* which was begun by the clock offset; it gave what the days before it did not.
BegunBy(told, offset) ==
    /\ AtMidnight(Ends(daily), offset)
    /\ offset = daily.offset \/ told < clocks
    /\ HandedInADay <= GivenByTheDay + DailyTasks + DailyTasks * told
    /\ HandedFrom(Ends(daily) - DayLength) <= GivenByTheDay + DailyTasks * told

\* A request may be open over a full day only before or after it.
DaysCounted ==
    /\ \A age, older \in 0..DayLength - 1 : age <= older => handed[age] <= handed[older]
    /\ moment < Ends(daily) - DayLength => HandedInADay = 0
    /\ request => daily.accepted < DailyTasks \/ moment >= Ends(daily) \/ HandedInADay = 0
    /\ HandedFrom(Ends(daily)) = 0
    /\ \E told \in 0..clocks, offset \in Offsets : BegunBy(told, offset)

CountInv == DaysTypeOK /\ (skew = 0 => DaysCounted)

LEMMA CountTypes ==
    ASSUME DaysTypeOK
    PROVE  /\ DayLength \in Nat /\ DayLength >= 1 /\ DailyTasks \in Nat /\ DailyTasks >= 1
           /\ moment \in Nat /\ clocks \in Nat /\ skew \in Nat
           /\ daily \in Counters /\ daily.accepted \in Nat /\ daily.offset \in Offsets
           /\ daily.offset \in Int /\ Ends(daily) \in Int
           /\ handed \in [0..DayLength - 1 -> Nat] /\ HandedInADay \in Nat
           /\ GivenByTheDay \in Nat /\ GivenByTheDay <= DailyTasks
           /\ \A time \in Int : HandedFrom(time) \in Nat
<1>1. /\ DayLength \in Nat /\ DayLength >= 1 /\ DailyTasks \in Nat /\ DailyTasks >= 1
      /\ Offsets \subseteq Int /\ Skews \subseteq Nat /\ MaxClocks \in Nat
  BY DaysAreTimes
<1>2. daily \in Counters /\ daily.accepted \in Nat /\ daily.offset \in Offsets
  BY <1>1 DEF DaysTypeOK, Counters
<1>3. handed \in [0..DayLength - 1 -> Nat] /\ HandedInADay \in Nat
  BY <1>1 DEF DaysTypeOK, HandedInADay
<1>4. moment \in Nat /\ clocks \in Nat /\ skew \in Nat
  BY <1>1 DEF DaysTypeOK
<1>5. ASSUME NEW time \in Int PROVE HandedFrom(time) \in Nat
  BY <1>1, <1>3, <1>4 DEF HandedFrom
<1>6. Ends(daily) \in Int /\ daily.offset \in Int
  BY <1>1, <1>2, EndsIsATime
<1>7. GivenByTheDay \in Nat /\ GivenByTheDay <= DailyTasks
  BY <1>1, <1>2 DEF GivenByTheDay
<1>. QED
  BY <1>1, <1>2, <1>3, <1>4, <1>5, <1>6, <1>7

\* Two midnights of one clock are a day apart at least.
LEMMA MidnightsApart ==
    ASSUME NEW end \in Int, NEW later \in Int, NEW offset \in Int, end < later,
           AtMidnight(end, offset), AtMidnight(later, offset)
    PROVE  end + DayLength <= later
<1>1. PICK m \in Int, n \in Int :
          end + offset = m * DayLength /\ later + offset = n * DayLength
  BY DEF AtMidnight
<1>2. DayLength \in Nat /\ DayLength >= 1
  BY DaysAreTimes
<1>3. later - end = (n - m) * DayLength
  BY <1>1, <1>2
<1>4. n - m >= 1
  <2>. SUFFICES ASSUME n - m <= 0 PROVE FALSE
    BY <1>1
  <2>1. (n - m) * DayLength <= 0
    BY <1>1, <1>2
  <2>. QED
    BY <1>3, <2>1
<1>5. (n - m) * DayLength = DayLength + (n - m - 1) * DayLength
  BY <1>1, <1>2
<1>6. (n - m - 1) * DayLength >= 0
  BY <1>1, <1>2, <1>4
<1>7. (n - m - 1) * DayLength \in Int
  BY <1>1, <1>2
<1>. QED
  BY <1>2, <1>3, <1>5, <1>6, <1>7

\* A day begun now ends at a midnight of its clock.
LEMMA BegunAtMidnight ==
    ASSUME NEW now \in Nat, NEW offset \in Int
    PROVE  AtMidnight(Ends(DayFrom(now, offset)), offset)
<1>. DEFINE dayIs == (now + offset) \div DayLength
            day == DayFrom(now, offset)
<1>1. DayLength \in Nat \ {0}
  BY DaysAreTimes
<1>2. dayIs \in Int
  BY <1>1
<1>3. /\ day.ends = (dayIs + 1) * DayLength - offset /\ day.date = dayIs
  BY DEF DayFrom
<1>. HIDE DEF dayIs, day
<1>4. (dayIs + 1) * DayLength \in Int
  BY <1>1, <1>2
<1>5. CASE day.ends # NoEnd
  <2>1. Ends(day) + offset = (dayIs + 1) * DayLength
    BY <1>3, <1>4, <1>5 DEF Ends
  <2>. QED
    BY <1>2, <2>1 DEF AtMidnight, day
<1>6. CASE day.ends = NoEnd
  <2>1. NoEnd <= 0
    <3>1. DayLength * MaxMoment \in Nat
      BY <1>1, DaysAreTimes
    <3>. QED
      BY <3>1 DEF NoEnd
  <2>2. Ends(day) = (dayIs + 1) * DayLength
    BY <1>3, <1>6 DEF Ends
  <2>3. now + offset < (dayIs + 1) * DayLength
    <3>1. now + offset < DayLength * dayIs + DayLength
      BY <1>1 DEF dayIs
    <3>2. (dayIs + 1) * DayLength = DayLength * dayIs + DayLength
      BY <1>1, <1>2
    <3>. QED
      BY <3>1, <3>2
  <2>. QED
    BY <1>3, <1>4, <1>6, <2>1, <2>3
<1>. QED
  BY <1>5, <1>6

\* More clocks told are more days, each with its room.
LEMMA MoreDays ==
    ASSUME NEW told \in Nat, NEW more \in Nat, told <= more
    PROVE  /\ DailyTasks * told \in Nat /\ DailyTasks * more \in Nat
           /\ DailyTasks * told <= DailyTasks * more
           /\ DailyTasks * (told + 1) = DailyTasks * told + DailyTasks
           /\ DailyTasks * (2 + told) = DailyTasks + DailyTasks + DailyTasks * told
<1>1. DailyTasks \in Nat
  BY DaysAreTimes
<1>2. DailyTasks * (more - told) \in Nat
  BY <1>1
<1>3. DailyTasks * more = DailyTasks * told + DailyTasks * (more - told)
  BY <1>1
<1>4. DailyTasks * told \in Nat /\ DailyTasks * more \in Nat
  BY <1>1
<1>5. DailyTasks * (told + 1) = DailyTasks * told + DailyTasks
  BY <1>1
<1>6. DailyTasks * (2 + told) = DailyTasks + DailyTasks + DailyTasks * told
  BY <1>1
<1>. QED
  BY <1>2, <1>3, <1>4, <1>5, <1>6

LEMMA CountTypesStay == DaysTypeOK /\ [DaysNext]_day_vars => DaysTypeOK'
<1>. SUFFICES ASSUME DaysTypeOK, [DaysNext]_day_vars PROVE DaysTypeOK'
  OBVIOUS
<1>1. DayLength \in Nat /\ DayLength >= 1 /\ Offsets \subseteq Int /\ MaxClocks \in Nat
  BY DaysAreTimes
<1>2. CASE OpenRequest
  BY <1>2 DEF OpenRequest, DaysTypeOK
<1>3. CASE HandOutToday
  <2>1. PICK now \in Nows : daily' = Counted(daily, now)
    BY <1>3 DEF HandOutToday
  <2>2. now \in Nat
    BY <2>1, CountTypes DEF Nows
  <2>3. Today(daily, now) \in [accepted : Nat, date : Int, ends : Int, offset : Offsets]
    <3>1. DayFrom(now, daily.offset) \in Counters /\ DayFrom(now, daily.offset).offset = daily.offset
      BY <2>2, CountTypes, DayBegunNow DEF DayFrom
    <3>2. DayFrom(now, daily.offset) \in [accepted : Nat, date : Int, ends : Int, offset : Offsets]
      BY <3>1, CountTypes DEF Counters
    <3>. QED
      BY <3>2 DEF Today, DaysTypeOK
  <2>4. daily' \in [accepted : Nat, date : Int, ends : Int, offset : Offsets]
    BY <2>1, <2>3 DEF Counted
  <2>5. handed' \in [0..DayLength - 1 -> Nat]
    BY <1>3, <1>1 DEF HandOutToday, DaysTypeOK
  <2>. QED
    BY <1>3, <2>4, <2>5 DEF HandOutToday, DaysTypeOK
<1>4. CASE TellClock
  <2>1. PICK offset \in Offsets : daily' = [daily EXCEPT !.offset = offset]
    BY <1>4 DEF TellClock, ClockSet
  <2>2. daily \in [accepted : Nat, date : Int, ends : Int, offset : Offsets]
    BY DEF DaysTypeOK
  <2>3. daily' \in [accepted : Nat, date : Int, ends : Int, offset : Offsets]
    BY ONLY <2>1, <2>2
  <2>4. clocks' \in 0..MaxClocks
    BY <1>1, <1>4 DEF TellClock, DaysTypeOK
  <2>. QED
    BY <1>4, <2>3, <2>4 DEF TellClock, DaysTypeOK
<1>5. CASE TimePasses
  <2>1. handed' \in [0..DayLength - 1 -> Nat]
    BY <1>5, <1>1 DEF TimePasses, DaysTypeOK
  <2>. QED
    BY <1>5, <2>1 DEF TimePasses, DaysTypeOK
<1>6. CASE UNCHANGED day_vars
  BY <1>6 DEF day_vars, DaysTypeOK
<1>. QED
  BY <1>2, <1>3, <1>4, <1>5, <1>6 DEF DaysNext

LEMMA CountInitially == DaysInit => CountInv
<1>. SUFFICES ASSUME DaysInit PROVE CountInv
  OBVIOUS
<1>1. /\ DayLength \in Nat /\ DayLength >= 1 /\ DailyTasks \in Nat /\ DailyTasks >= 1
      /\ MaxMoment \in Nat /\ Skews \subseteq Nat /\ Offsets \subseteq Int /\ 0 \in Offsets
      /\ MaxClocks \in Nat
  BY DaysAreTimes
<1>2. NoEnd \in Int
  BY <1>1 DEF NoEnd
<1>3. /\ daily \in [accepted : Nat, date : Int, ends : Int, offset : Offsets]
      /\ AtMidnight(Ends(daily), daily.offset)
  <2>1. ASSUME NEW offset \in Offsets, daily = DayFrom(DayLength, offset)
        PROVE  /\ daily \in [accepted : Nat, date : Int, ends : Int, offset : Offsets]
               /\ AtMidnight(Ends(daily), daily.offset)
    <3>1. daily \in Counters /\ daily.offset = offset
      BY <1>1, <2>1, DayBegunNow DEF DayFrom
    <3>. QED
      BY <1>1, <2>1, <3>1, BegunAtMidnight DEF Counters
  <2>2. ASSUME daily \in [accepted : 0..DailyTasks, date : 0..2, ends : {NoEnd}, offset : {0}]
        PROVE  /\ daily \in [accepted : Nat, date : Int, ends : Int, offset : Offsets]
               /\ AtMidnight(Ends(daily), daily.offset)
    <3>1. Ends(daily) = (daily.date + 1) * DayLength /\ daily.offset = 0 /\ daily.date \in Int
      BY <2>2 DEF Ends
    <3>2. (daily.date + 1) * DayLength + 0 = (daily.date + 1) * DayLength
      BY <1>1, <3>1
    <3>3. AtMidnight(Ends(daily), daily.offset)
      BY <3>1, <3>2 DEF AtMidnight
    <3>. QED
      BY <1>1, <1>2, <2>2, <3>3
  <2>. QED
    BY <2>1, <2>2 DEF DaysInit
<1>4. DaysTypeOK
  <2>1. handed \in [0..DayLength - 1 -> Nat]
    <3>1. handed = [age \in 0..DayLength - 1 |-> 0]
      BY DEF DaysInit
    <3>. QED
      BY ONLY <3>1
  <2>2. moment \in Nat /\ skew \in Skews /\ request \in BOOLEAN /\ clocks \in 0..MaxClocks
    <3>1. moment = DayLength /\ skew \in Skews /\ request = FALSE /\ clocks = 0
      BY DEF DaysInit
    <3>2. 0 \in 0..MaxClocks
      BY ONLY <1>1
    <3>. QED
      BY ONLY <1>1, <3>1, <3>2
  <2>. QED
    BY <1>3, <2>1, <2>2 DEF DaysTypeOK
<1>5. \A age \in 0..DayLength - 1 : handed[age] = 0
  BY DEF DaysInit
<1>6. HandedInADay = 0 /\ \A time \in Int : HandedFrom(time) = 0
  BY <1>1, <1>4, <1>5, CountTypes DEF HandedInADay, HandedFrom
<1>7. BegunBy(0, daily.offset)
  <2>1. /\ Ends(daily) - DayLength \in Int /\ GivenByTheDay \in Nat
        /\ DailyTasks * 0 = 0 /\ DailyTasks \in Nat
    BY <1>1, <1>4, CountTypes
  <2>2. HandedFrom(Ends(daily) - DayLength) = 0 /\ HandedInADay = 0
    BY <1>6, <2>1
  <2>. QED
    BY <1>3, <2>1, <2>2 DEF BegunBy
<1>. QED
  BY <1>1, <1>4, <1>5, <1>6, <1>7, CountTypes DEF CountInv, DaysCounted, DaysInit

\* What is not handed out again is only forgotten, as time passes.
LEMMA CountIsForgotten ==
    ASSUME DaysTypeOK, DaysCounted, TimePasses
    PROVE  /\ HandedInADay' <= HandedInADay
           /\ \A time \in Int : HandedFrom(time)' <= HandedFrom(time)
           /\ \A age, older \in 0..DayLength - 1 : age <= older => handed'[age] <= handed'[older]
<1>1. /\ DayLength \in Nat /\ DayLength >= 1 /\ moment \in Nat /\ moment' = moment + 1
      /\ handed \in [0..DayLength - 1 -> Nat]
  BY CountTypes DEF TimePasses
<1>2. \A age \in 0..DayLength - 1 : handed'[age] = IF age = 0 THEN 0 ELSE handed[age - 1]
  BY <1>1 DEF TimePasses
<1>3. \A age, older \in 0..DayLength - 1 : age <= older => handed[age] <= handed[older]
  BY DEF DaysCounted
<1>4. \A age, older \in 0..DayLength - 1 : age <= older => handed'[age] <= handed'[older]
  <2>. SUFFICES ASSUME NEW age \in 0..DayLength - 1, NEW older \in 0..DayLength - 1, age <= older
                PROVE  handed'[age] <= handed'[older]
    OBVIOUS
  <2>1. CASE age = 0
    BY <1>1, <1>2, <2>1
  <2>2. CASE age # 0
    <3>1. age - 1 \in 0..DayLength - 1 /\ older - 1 \in 0..DayLength - 1 /\ age - 1 <= older - 1
      BY <1>1, <2>2
    <3>2. handed[age - 1] <= handed[older - 1]
      BY <1>3, <3>1
    <3>. QED
      BY <1>1, <1>2, <2>2, <3>2
  <2>. QED
    BY <2>1, <2>2
<1>5. \A age \in 0..DayLength - 1 : handed'[age] <= handed[age]
  <2>. SUFFICES ASSUME NEW age \in 0..DayLength - 1 PROVE handed'[age] <= handed[age]
    OBVIOUS
  <2>1. CASE age = 0
    BY <1>1, <1>2, <2>1
  <2>2. CASE age # 0
    <3>1. age - 1 \in 0..DayLength - 1
      BY <1>1, <2>2
    <3>2. handed[age - 1] <= handed[age]
      BY <1>1, <1>3, <3>1
    <3>. QED
      BY <1>2, <2>2, <3>2
  <2>. QED
    BY <2>1, <2>2
<1>6. ASSUME NEW time \in Int PROVE HandedFrom(time)' <= HandedFrom(time)
  <2>. DEFINE age == moment - time
  <2>1. age \in Int /\ moment' - time = age + 1
    BY <1>1
  <2>2. HandedFrom(time) = IF age < 0 THEN 0
                           ELSE IF age < DayLength THEN handed[age] ELSE handed[DayLength - 1]
    BY DEF HandedFrom
  <2>3. HandedFrom(time)' = IF age + 1 < 0 THEN 0
                            ELSE IF age + 1 < DayLength THEN handed'[age + 1] ELSE handed'[DayLength - 1]
    BY <2>1 DEF HandedFrom
  <2>. HIDE DEF age
  <2>4. CASE age + 1 < 0
    BY <2>1, <2>2, <2>3, <2>4
  <2>5. CASE age + 1 = 0
    <3>1. handed'[0] = 0
      BY <1>1, <1>2
    <3>. QED
      BY <1>1, <2>1, <2>2, <2>3, <2>5, <3>1
  <2>6. CASE age + 1 > 0 /\ age + 1 < DayLength
    <3>1. handed'[age + 1] = handed[age]
      BY <1>1, <1>2, <2>1, <2>6
    <3>2. handed[age] \in Nat
      BY <1>1, <2>1, <2>6
    <3>. QED
      BY <1>1, <2>1, <2>2, <2>3, <2>6, <3>1, <3>2
  <2>7. CASE age + 1 >= DayLength
    <3>1. HandedFrom(time) = handed[DayLength - 1]
      BY <1>1, <2>1, <2>2, <2>7
    <3>2. HandedFrom(time)' = handed'[DayLength - 1]
      BY <1>1, <2>1, <2>3, <2>7
    <3>. QED
      BY <1>1, <1>5, <3>1, <3>2
  <2>. QED
    BY <1>1, <2>1, <2>4, <2>5, <2>6, <2>7
<1>7. HandedInADay' <= HandedInADay
  BY <1>1, <1>5 DEF HandedInADay
<1>. QED
  BY <1>4, <1>6, <1>7

\* A task handed out in the day that is being counted.
LEMMA HandedOutInTheDay ==
    ASSUME DaysTypeOK, DaysCounted, request,
           daily' = [daily EXCEPT !.accepted = @ + 1],
           Ends(daily) - DayLength <= moment, moment < Ends(daily),
           handed' = [age \in DOMAIN handed |-> handed[age] + 1],
           ~request', moment' = moment, clocks' = clocks
    PROVE  DaysCounted'
<1>. DEFINE e == Ends(daily)  now == moment
<1>1. /\ DayLength \in Nat /\ DayLength >= 1 /\ DailyTasks \in Nat /\ DailyTasks >= 1
      /\ now \in Nat /\ clocks \in Nat /\ e \in Int
      /\ daily \in Counters /\ daily.accepted \in Nat
      /\ handed \in [0..DayLength - 1 -> Nat] /\ HandedInADay \in Nat
      /\ GivenByTheDay \in Nat /\ GivenByTheDay <= DailyTasks
  BY CountTypes
<1>2. \A age, older \in 0..DayLength - 1 : age <= older => handed[age] <= handed[older]
  BY DEF DaysCounted
<1>3. Ends(daily') = e /\ daily'.offset = daily.offset /\ daily'.accepted = daily.accepted + 1
  BY <1>1 DEF Ends, Counters
<1>. HIDE DEF e, now
<1>4. \A age \in 0..DayLength - 1 : handed'[age] = handed[age] + 1
  BY <1>1
<1>5. HandedInADay' = HandedInADay + 1
  BY <1>1, <1>4 DEF HandedInADay
<1>. DEFINE begun == now - (e - DayLength)
<1>6. now - e < 0 /\ now - e \in Int /\ begun \in 0..DayLength - 1 /\ ~(begun < 0) /\ begun < DayLength
  BY <1>1 DEF e, now
<1>7. HandedFrom(Ends(daily))' = 0
  BY <1>3, <1>6 DEF HandedFrom, now
<1>8. /\ HandedFrom(e - DayLength) = handed[begun]
      /\ HandedFrom(Ends(daily) - DayLength)' = handed[begun] + 1
  <2>1. moment - (e - DayLength) = begun /\ moment' - (Ends(daily') - DayLength) = begun
    BY <1>3 DEF now
  <2>. HIDE DEF begun
  <2>2. HandedFrom(e - DayLength) = handed[begun]
    BY <1>6, <2>1 DEF HandedFrom
  <2>3. HandedFrom(Ends(daily) - DayLength)' = handed'[begun]
    BY <1>6, <2>1 DEF HandedFrom
  <2>. QED
    BY <1>4, <1>6, <2>2, <2>3
<1>. HIDE DEF begun
<1>9. handed[begun] \in Nat /\ handed[begun] <= HandedInADay
  <2>1. DayLength - 1 \in 0..DayLength - 1 /\ begun <= DayLength - 1 /\ begun \in Int
    <3>1. DayLength \in Nat /\ DayLength >= 1
      BY <1>1
    <3>2. begun \in 0..DayLength - 1
      BY <1>6
    <3>. QED
      BY ONLY <3>1, <3>2
  <2>. QED
    BY <1>1, <1>2, <1>6, <2>1 DEF HandedInADay
<1>10. PICK told \in 0..clocks, offset \in Offsets : BegunBy(told, offset)
  BY DEF DaysCounted
<1>11. told \in Nat /\ DailyTasks * told \in Nat
  BY <1>1, <1>10
<1>12. /\ AtMidnight(e, offset) /\ (offset = daily.offset \/ told < clocks)
       /\ HandedInADay <= GivenByTheDay + DailyTasks + DailyTasks * told
       /\ handed[begun] <= GivenByTheDay + DailyTasks * told
  BY <1>8, <1>10 DEF BegunBy, e
<1>13. \/ GivenByTheDay' = GivenByTheDay + 1
       \/ HandedInADay = 0 /\ GivenByTheDay' >= 1 /\ GivenByTheDay' \in Nat
  <2>1. daily.accepted < DailyTasks \/ HandedInADay = 0
    BY <1>1 DEF DaysCounted, e, now
  <2>2. CASE daily.accepted < DailyTasks
    BY <1>1, <1>3, <2>2 DEF GivenByTheDay
  <2>3. CASE daily.accepted >= DailyTasks /\ HandedInADay = 0
    BY <1>1, <1>3, <2>3 DEF GivenByTheDay
  <2>. QED
    BY <1>1, <2>1, <2>2, <2>3
<1>14. /\ HandedInADay' <= GivenByTheDay' + DailyTasks + DailyTasks * told
       /\ handed[begun] + 1 <= GivenByTheDay' + DailyTasks * told
  <2>1. GivenByTheDay' \in Nat
    BY <1>1, <1>13
  <2>. DEFINE from == handed[begun]  room == DailyTasks * told
  <2>2. /\ from \in Nat /\ from <= HandedInADay /\ room \in Nat
        /\ HandedInADay <= GivenByTheDay + DailyTasks + room /\ from <= GivenByTheDay + room
    BY <1>9, <1>11, <1>12
  <2>. HIDE DEF from, room
  <2>3. PICK new \in Nat : new = GivenByTheDay'
    BY <2>1
  <2>4. PICK by \in Nat : by = GivenByTheDay
    BY <1>1
  <2>5. PICK all \in Nat : all = HandedInADay
    BY <1>1
  <2>6. DailyTasks \in Nat
    BY <1>1
  <2>7. all + 1 <= new + DailyTasks + room /\ from + 1 <= new + room
    <3>1. CASE new = by + 1
      BY <2>2, <2>4, <2>5, <2>6, <3>1
    <3>2. CASE all = 0 /\ new >= 1
      BY <2>2, <2>5, <2>6, <3>2
    <3>. QED
      BY <1>13, <2>3, <2>4, <2>5, <3>1, <3>2
  <2>. QED
    BY <1>5, <2>3, <2>5, <2>7 DEF from, room
<1>15. BegunBy(told, offset)'
  BY <1>3, <1>8, <1>12, <1>14 DEF BegunBy
<1>16. \A age, older \in 0..DayLength - 1 : age <= older => handed'[age] <= handed'[older]
  <2>1. \A age \in 0..DayLength - 1 : handed[age] \in Nat /\ handed'[age] = handed[age] + 1
    BY <1>1, <1>4
  <2>. QED
    BY ONLY <2>1, <1>2
<1>17. ~(moment' < Ends(daily') - DayLength)
  BY <1>1, <1>3 DEF e, now
<1>. QED
  BY <1>7, <1>10, <1>15, <1>16, <1>17 DEF DaysCounted

\* A task handed out in a day begun with it: the one before it is over, or gave
\* none, and with it those that began before it.
LEMMA HandedOutInANewDay ==
    ASSUME DaysTypeOK, DaysCounted,
           daily' = [DayFrom(moment, daily.offset) EXCEPT !.accepted = @ + 1],
           moment < Ends(daily) - DayLength \/ moment >= Ends(daily),
           handed' = [age \in DOMAIN handed |-> handed[age] + 1],
           ~request', moment' = moment, clocks' = clocks
    PROVE  DaysCounted'
<1>. DEFINE e == Ends(daily)  now == moment  later == Ends(daily')
<1>1. /\ DayLength \in Nat /\ DayLength >= 1 /\ DailyTasks \in Nat /\ DailyTasks >= 1
      /\ now \in Nat /\ clocks \in Nat /\ e \in Int
      /\ daily \in Counters /\ daily.offset \in Offsets /\ daily.offset \in Int
      /\ handed \in [0..DayLength - 1 -> Nat] /\ HandedInADay \in Nat
      /\ GivenByTheDay \in Nat /\ GivenByTheDay <= DailyTasks
  BY CountTypes
<1>2. \A age, older \in 0..DayLength - 1 : age <= older => handed[age] <= handed[older]
  BY DEF DaysCounted
<1>3. /\ DayFrom(now, daily.offset) \in Counters
      /\ DayFrom(now, daily.offset).accepted = 0 /\ DayFrom(now, daily.offset).offset = daily.offset
  BY <1>1, DayBegunNow DEF DayFrom
<1>4. /\ Ends(daily') = Ends(DayFrom(now, daily.offset))
      /\ daily'.offset = daily.offset /\ daily'.accepted = 1
  BY <1>3 DEF Ends, Counters, now
<1>5. /\ later \in Int /\ later - DayLength <= now /\ now < later
      /\ AtMidnight(later, daily.offset)
  BY <1>1, <1>4, DayBegunNow, BegunAtMidnight
<1>6. now < e - DayLength \/ now >= e
  OBVIOUS
<1>. HIDE DEF e, now, later
<1>7. \A age \in 0..DayLength - 1 : handed'[age] = handed[age] + 1
  BY <1>1
<1>8. HandedInADay' = HandedInADay + 1
  BY <1>1, <1>7 DEF HandedInADay
<1>9. now - later < 0 /\ now - (later - DayLength) \in 0..DayLength - 1 /\ now - later \in Int
  BY <1>1, <1>5
<1>. DEFINE before == handed[now - (later - DayLength)]
<1>10. HandedFrom(Ends(daily))' = 0
  BY <1>9 DEF HandedFrom, now, later
<1>11. HandedFrom(Ends(daily) - DayLength)' = before + 1
  BY <1>1, <1>7, <1>9 DEF HandedFrom, now, later
<1>12. before \in Nat /\ before <= HandedInADay
  BY <1>1, <1>2, <1>9 DEF HandedInADay
<1>13. GivenByTheDay' = 1
  BY <1>1, <1>4 DEF GivenByTheDay
<1>14. PICK told \in 0..clocks, offset \in Offsets : BegunBy(told, offset)
  BY DEF DaysCounted
<1>15. told \in Nat /\ DailyTasks * told \in Nat /\ offset \in Int
  BY <1>1, <1>14, DaysAreTimes
<1>. DEFINE room == DailyTasks * told
<1>. HIDE DEF room, before
<1>16. AtMidnight(e, offset) /\ (offset = daily.offset \/ told < clocks)
  BY <1>14 DEF BegunBy, e
<1>17. room \in Nat /\ HandedInADay <= DailyTasks + room
  <2>. room \in Nat
    BY <1>15 DEF room
  <2>1. CASE now < e - DayLength
    <3>1. HandedInADay = 0
      BY <2>1 DEF DaysCounted, e, now
    <3>. QED
      BY <1>1, <3>1
  <2>2. CASE now >= e
    <3>1. HandedFrom(e - DayLength) = HandedInADay
      BY <1>1, <2>2 DEF HandedFrom, HandedInADay, now
    <3>2. HandedFrom(e - DayLength) <= GivenByTheDay + room
      BY <1>14 DEF BegunBy, e, room
    <3>. QED
      BY <1>1, <3>1, <3>2
  <2>. QED
    BY <1>6, <2>1, <2>2
<1>18. ASSUME offset = daily.offset PROVE BegunBy(told, daily.offset)'
  <2>1. before = 0
    <3>1. CASE now < e - DayLength
      <4>1. HandedInADay = 0
        BY <3>1 DEF DaysCounted, e, now
      <4>. QED
        BY <1>12, <4>1
    <3>2. CASE now >= e
      <4>1. e + DayLength <= later
        BY <1>1, <1>5, <1>15, <1>16, <1>18, <3>2, MidnightsApart
      <4>2. now - (later - DayLength) <= now - e /\ now - e \in Int
        BY <1>1, <1>5, <4>1
      <4>3. HandedFrom(e) = 0
        BY DEF DaysCounted, e
      <4>4. before <= HandedFrom(e)
        <5>1. CASE now - e < DayLength
          <6>1. HandedFrom(e) = handed[now - e] /\ now - e \in 0..DayLength - 1
            BY <1>1, <3>2, <4>2, <5>1 DEF HandedFrom, now
          <6>. QED
            BY <1>2, <1>9, <4>2, <6>1 DEF before
        <5>2. CASE now - e >= DayLength
          <6>1. HandedFrom(e) = HandedInADay
            BY <1>1, <3>2, <4>2, <5>2 DEF HandedFrom, HandedInADay, now
          <6>. QED
            BY <1>12, <6>1
        <5>. QED
          BY <4>2, <5>1, <5>2, <1>1
      <4>. QED
        BY <1>12, <4>3, <4>4
    <3>. QED
      BY <1>6, <3>1, <3>2
  <2>2. BegunBy(told, daily.offset)'
    <3>1. HandedInADay' <= GivenByTheDay' + DailyTasks + room
      BY <1>1, <1>8, <1>13, <1>17
    <3>2. HandedFrom(Ends(daily) - DayLength)' <= GivenByTheDay' + room
      BY <1>11, <1>13, <1>17, <2>1
    <3>. QED
      BY <1>4, <1>5, <3>1, <3>2 DEF BegunBy, later, room
  <2>. QED
    BY <2>2
<1>19. ASSUME told < clocks PROVE told + 1 \in 0..clocks /\ BegunBy(told + 1, daily.offset)'
  <2>1. told + 1 \in 0..clocks
    <3>1. told \in Nat /\ clocks \in Nat
      BY <1>1, <1>15
    <3>. QED
      BY ONLY <3>1, <1>19
  <2>2. DailyTasks * (told + 1) = room + DailyTasks
    BY <1>15, MoreDays DEF room
  <2>3. HandedInADay' <= GivenByTheDay' + DailyTasks + (room + DailyTasks)
    BY <1>1, <1>8, <1>13, <1>17
  <2>4. HandedFrom(Ends(daily) - DayLength)' <= GivenByTheDay' + (room + DailyTasks)
    BY <1>1, <1>11, <1>12, <1>13, <1>17
  <2>5. BegunBy(told + 1, daily.offset)'
    BY <1>4, <1>5, <2>2, <2>3, <2>4 DEF BegunBy, later
  <2>. QED
    BY <2>1, <2>5
<1>20. \E more \in 0..clocks : BegunBy(more, daily.offset)'
  BY <1>14, <1>16, <1>18, <1>19
<1>21. \A age, older \in 0..DayLength - 1 : age <= older => handed'[age] <= handed'[older]
  <2>1. \A age \in 0..DayLength - 1 : handed[age] \in Nat /\ handed'[age] = handed[age] + 1
    BY <1>1, <1>7
  <2>. QED
    BY ONLY <2>1, <1>2
<1>22. ~(moment' < Ends(daily') - DayLength)
  BY <1>1, <1>5 DEF now, later
<1>. QED
  BY <1>1, <1>4, <1>10, <1>20, <1>21, <1>22 DEF DaysCounted

LEMMA DaysCountedStay ==
    ASSUME DaysTypeOK, DaysCounted, skew = 0, [DaysNext]_day_vars
    PROVE  DaysCounted'
<1>1. /\ DayLength \in Nat /\ DayLength >= 1 /\ moment \in Nat /\ clocks \in Nat
      /\ daily \in Counters /\ daily.offset \in Offsets /\ Ends(daily) \in Int
      /\ HandedInADay \in Nat /\ \A time \in Int : HandedFrom(time) \in Nat
  BY CountTypes
<1>2. DaysTypeOK'
  BY CountTypesStay
<1>3. Nows = {moment}
  BY <1>1 DEF Nows
<1>4. CASE OpenRequest
  <2>1. daily' = daily /\ handed' = handed /\ moment' = moment /\ clocks' = clocks
    BY <1>4 DEF OpenRequest
  <2>2. HasRoom(daily, moment)
    BY <1>3, <1>4 DEF OpenRequest
  <2>3. daily.accepted < DailyTasks \/ moment >= Ends(daily) \/ HandedInADay = 0
    BY <1>1, <2>2 DEF HasRoom, Today, DaysCounted
  <2>. QED
    BY <2>1, <2>3 DEF DaysCounted, BegunBy, HandedFrom, HandedInADay, GivenByTheDay
<1>5. CASE HandOutToday
  <2>1. /\ request /\ ~request' /\ daily' = Counted(daily, moment)
        /\ handed' = [age \in DOMAIN handed |-> handed[age] + 1]
        /\ moment' = moment /\ clocks' = clocks
    BY <1>3, <1>5 DEF HandOutToday
  <2>2. CASE Ends(daily) - DayLength <= moment /\ moment < Ends(daily)
    <3>1. daily' = [daily EXCEPT !.accepted = @ + 1]
      BY <2>1, <2>2 DEF Counted, Today
    <3>. QED
      BY <2>1, <2>2, <3>1, HandedOutInTheDay
  <2>3. CASE moment < Ends(daily) - DayLength \/ moment >= Ends(daily)
    <3>1. daily' = [DayFrom(moment, daily.offset) EXCEPT !.accepted = @ + 1]
      BY <1>1, <2>1, <2>3 DEF Counted, Today
    <3>. QED
      BY <2>1, <2>3, <3>1, HandedOutInANewDay
  <2>. QED
    BY <1>1, <2>2, <2>3
<1>6. CASE TellClock
  <2>1. /\ clocks' = clocks + 1 /\ handed' = handed /\ moment' = moment /\ request' = request
        /\ \E offset \in Offsets : daily' = ClockSet(daily, offset)
    BY <1>6 DEF TellClock
  <2>2. Ends(daily') = Ends(daily) /\ daily'.accepted = daily.accepted
    BY <1>1, <2>1 DEF ClockSet, Ends, Counters
  <2>3. /\ GivenByTheDay' = GivenByTheDay /\ HandedInADay' = HandedInADay
        /\ HandedFrom(Ends(daily))' = HandedFrom(Ends(daily))
        /\ HandedFrom(Ends(daily) - DayLength)' = HandedFrom(Ends(daily) - DayLength)
    BY <2>1, <2>2 DEF GivenByTheDay, HandedInADay, HandedFrom
  <2>4. PICK told \in 0..clocks, offset \in Offsets : BegunBy(told, offset)
    BY DEF DaysCounted
  <2>5. told \in 0..clocks' /\ told < clocks'
    BY <1>1, <2>1, <2>4
  <2>6. BegunBy(told, offset)'
    BY <2>2, <2>3, <2>4, <2>5 DEF BegunBy
  <2>. QED
    BY <2>1, <2>2, <2>3, <2>5, <2>6 DEF DaysCounted
<1>7. CASE TimePasses
  <2>1. moment' = moment + 1 /\ daily' = daily /\ request' = request /\ clocks' = clocks
    BY <1>7 DEF TimePasses
  <2>2. /\ HandedInADay' <= HandedInADay
        /\ HandedFrom(Ends(daily))' <= HandedFrom(Ends(daily))
        /\ HandedFrom(Ends(daily) - DayLength)' <= HandedFrom(Ends(daily) - DayLength)
        /\ \A age, older \in 0..DayLength - 1 : age <= older => handed'[age] <= handed'[older]
    <3>1. \A time \in Int : HandedFrom(time)' <= HandedFrom(time)
      BY <1>7, CountIsForgotten
    <3>2. HandedFrom(Ends(daily))' <= HandedFrom(Ends(daily))
      BY <1>1, <2>1, <3>1 DEF HandedFrom
    <3>3. HandedFrom(Ends(daily) - DayLength)' <= HandedFrom(Ends(daily) - DayLength)
      BY <1>1, <2>1, <3>1 DEF HandedFrom
    <3>. QED
      BY <1>7, <3>2, <3>3, CountIsForgotten
  <2>3. /\ Ends(daily)' = Ends(daily) /\ GivenByTheDay' = GivenByTheDay
        /\ HandedInADay' \in Nat /\ HandedFrom(Ends(daily))' \in Nat
        /\ HandedFrom(Ends(daily) - DayLength)' \in Nat
    <3>1. HandedInADay' \in Nat /\ \A time \in Int : HandedFrom(time)' \in Nat
      <4>1. handed' \in [0..DayLength - 1 -> Nat] /\ moment' \in Nat
        BY <1>2 DEF DaysTypeOK
      <4>2. HandedInADay' \in Nat
        BY <1>1, <4>1 DEF HandedInADay
      <4>3. ASSUME NEW time \in Int PROVE HandedFrom(time)' \in Nat
        <5>. DEFINE age == moment' - time
        <5>1. age \in Int /\ 0 <= age /\ age < DayLength => age \in 0..DayLength - 1
          BY <1>1
        <5>2. handed'[DayLength - 1] \in Nat
          BY <1>1, <4>1
        <5>3. age \in 0..DayLength - 1 => handed'[age] \in Nat
          BY <4>1
        <5>4. age \in Int
          BY <4>1
        <5>. QED
          BY <1>1, <5>1, <5>2, <5>3, <5>4 DEF HandedFrom
      <4>. QED
        BY <4>2, <4>3
    <3>2. Ends(daily)' = Ends(daily) /\ GivenByTheDay' = GivenByTheDay
      BY <2>1 DEF GivenByTheDay
    <3>. QED
      BY <1>1, <2>1, <3>1, <3>2 DEF HandedFrom
  <2>4. PICK told \in 0..clocks, offset \in Offsets : BegunBy(told, offset)
    BY DEF DaysCounted
  <2>5. BegunBy(told, offset)'
    <3>. DEFINE room == DailyTasks * told
    <3>1. room \in Nat /\ DailyTasks \in Nat /\ GivenByTheDay \in Nat
      BY <1>1, <2>4, CountTypes, MoreDays
    <3>2. /\ HandedInADay <= GivenByTheDay + DailyTasks + room
          /\ HandedFrom(Ends(daily) - DayLength) <= GivenByTheDay + room
      BY <2>4 DEF BegunBy
    <3>. HIDE DEF room
    <3>3. HandedInADay' <= GivenByTheDay' + DailyTasks + room
      BY <1>1, <2>2, <2>3, <3>1, <3>2
    <3>4. HandedFrom(Ends(daily) - DayLength)' <= GivenByTheDay' + room
      BY <1>1, <2>2, <2>3, <3>1, <3>2
    <3>. QED
      BY <2>1, <2>4, <3>3, <3>4 DEF BegunBy, room
  <2>6. moment' < Ends(daily') - DayLength => HandedInADay' = 0
    BY <1>1, <2>1, <2>2, <2>3 DEF DaysCounted
  <2>7. request' => daily'.accepted < DailyTasks \/ moment' >= Ends(daily') \/ HandedInADay' = 0
    BY <1>1, <2>1, <2>2, <2>3 DEF DaysCounted
  <2>8. HandedFrom(Ends(daily))' = 0
    BY <1>1, <2>2, <2>3 DEF DaysCounted
  <2>. QED
    BY <2>1, <2>2, <2>4, <2>5, <2>6, <2>7, <2>8 DEF DaysCounted
<1>8. CASE UNCHANGED day_vars
  BY <1>8 DEF day_vars, DaysCounted, BegunBy, HandedFrom, HandedInADay, GivenByTheDay
<1>. QED
  BY <1>4, <1>5, <1>6, <1>7, <1>8 DEF DaysNext

\* For any days, room and clocks, a family is given no more tasks in any day's
\* length than two days have room for, and those of one more day for each clock
\* its devices told (Today, SetClock, CountAccepted).
THEOREM NoMoreThanDays == DaysSpec => []NoMoreThanTheDays
<1>1. CountInv /\ [DaysNext]_day_vars => CountInv'
  <2>1. [DaysNext]_day_vars => skew' = skew
    BY DEF DaysNext, day_vars, OpenRequest, HandOutToday, TellClock, TimePasses
  <2>. QED
    BY <2>1, CountTypesStay, DaysCountedStay DEF CountInv
<1>2. CountInv => NoMoreThanTheDays
  <2>. SUFFICES ASSUME DaysTypeOK, skew = 0, DaysCounted
                PROVE  handed[DayLength - 1] <= DailyTasks * (2 + clocks)
    BY DEF CountInv, NoMoreThanTheDays
  <2>1. PICK told \in 0..clocks, offset \in Offsets : BegunBy(told, offset)
    BY DEF DaysCounted
  <2>2. told \in Nat /\ told <= clocks /\ clocks \in Nat
    BY <2>1, CountTypes
  <2>3. /\ DailyTasks * told \in Nat /\ DailyTasks * clocks \in Nat
        /\ DailyTasks * told <= DailyTasks * clocks
        /\ DailyTasks * (2 + clocks) = DailyTasks + DailyTasks + DailyTasks * clocks
    BY <2>2, MoreDays
  <2>4. handed[DayLength - 1] <= GivenByTheDay + DailyTasks + DailyTasks * told
    BY <2>1 DEF BegunBy, HandedInADay
  <2>5. /\ GivenByTheDay \in Nat /\ GivenByTheDay <= DailyTasks /\ DailyTasks \in Nat
        /\ handed[DayLength - 1] \in Nat
    BY CountTypes DEF HandedInADay
  <2>. DEFINE room == DailyTasks * told  most == DailyTasks * clocks
  <2>. HIDE DEF room, most
  <2>6. room \in Nat /\ most \in Nat /\ room <= most
    BY <2>3 DEF room, most
  <2>7. handed[DayLength - 1] <= GivenByTheDay + DailyTasks + room
    BY <2>4 DEF room
  <2>8. handed[DayLength - 1] <= DailyTasks + DailyTasks + most
    BY <2>5, <2>6, <2>7
  <2>. QED
    BY <2>3, <2>8 DEF most
<1>. QED
  BY <1>1, <1>2, CountInitially, PTL DEF DaysSpec

(***************************************************************************)
(* The recovery of a damaged file (Recovery): what is tried and what makes *)
(* room are sets of revisions, and the proof counts them.  First, sets of  *)
(* numbers: the least and the greatest, and how many there are.            *)
(***************************************************************************)

\* A set of numbers has a least one: of the ranges up to each, one is smallest.
LEMMA LeastIs ==
    ASSUME NEW S \in SUBSET Nat, S # {}
    PROVE  Min(S) \in S /\ \A n \in S : Min(S) <= n
<1>. DEFINE U == {0..n : n \in S}
<1>1. U \subseteq FiniteSubsetsOf(Nat)
  <2>1. ASSUME NEW n \in S PROVE 0..n \in FiniteSubsetsOf(Nat)
    <3>1. IsFiniteSet(0..n)
      BY FS_Interval
    <3>2. 0..n \in SUBSET Nat
      OBVIOUS
    <3>. QED
      BY <3>1, <3>2 DEF FiniteSubsetsOf
  <2>. QED
    BY <2>1
<1>2. U # {}
  OBVIOUS
<1>3. \E x \in U : \A y \in U : ~ (<<y, x>> \in StrictSubsetOrdering(Nat))
  <2>. HIDE DEF U
  <2>. QED
    BY <1>1, <1>2, FS_StrictSubsetOrderingWellFounded, WFMin
<1>4. PICK n \in S : \A m \in S : ~ (<<0..m, 0..n>> \in StrictSubsetOrdering(Nat))
  BY <1>3
<1>5. ASSUME NEW m \in S, m < n PROVE FALSE
  <2>1. 0..m \in SUBSET Nat /\ 0..n \in SUBSET Nat
    BY SMTT(30)
  <2>2. 0..m \subseteq 0..n /\ n \in 0..n /\ n \notin 0..m
    BY <1>5
  <2>3. <<0..m, 0..n>> \in StrictSubsetOrdering(Nat)
    BY <2>1, <2>2 DEF StrictSubsetOrdering
  <2>. QED
    BY <2>3, <1>4
<1>6. \A m \in S : n <= m
  BY <1>5
<1>. QED
  BY <1>6 DEF Min

\* A set of numbers up to some has a greatest one.
LEMMA GreatestIs ==
    ASSUME NEW k \in Nat, NEW S \in SUBSET (0..k), S # {}
    PROVE  Max(S) \in S /\ \A n \in S : n <= Max(S)
<1>. DEFINE T == {k - n : n \in S}
<1>1. T \in SUBSET Nat /\ T # {}
  <2>1. \A n \in S : k - n \in Nat
    OBVIOUS
  <2>. QED
    BY <2>1
<1>2. Min(T) \in T /\ \A n \in T : Min(T) <= n
  <2>. HIDE DEF T
  <2>. QED
    BY <1>1, LeastIs
<1>3. PICK n \in S : Min(T) = k - n
  BY <1>2
<1>4. \A m \in S : m <= n
  <2>1. ASSUME NEW m \in S PROVE m <= n
    <3>1. k - n <= k - m
      BY <1>2, <1>3
    <3>. QED
      BY <3>1
  <2>. QED
    BY <2>1
<1>. QED
  BY <1>4 DEF Max

LEMMA Finite == ASSUME NEW k \in Nat, NEW S \in SUBSET (0..k) PROVE IsFiniteSet(S) /\ Cardinality(S) \in Nat
<1>1. IsFiniteSet(0..k)
  BY FS_Interval
<1>2. IsFiniteSet(S)
  BY <1>1, FS_Subset
<1>. QED
  BY <1>2, FS_CardinalityType

\* Those with fewer than some count of others after them are no more than that.
LEMMA LatestAreFew ==
    ASSUME NEW k \in Nat, NEW S \in SUBSET (0..k), NEW c \in Nat \ {0}
    PROVE  Cardinality({n \in S : Cardinality({m \in S : m > n}) < c}) <= c
<1>. DEFINE T == {n \in S : Cardinality({m \in S : m > n}) < c}
<1>. T \in SUBSET S
  OBVIOUS
<1>1. CASE T = {}
  <2>1. Cardinality(T) = 0
    <3>. HIDE DEF T
    <3>. QED
      BY <1>1, FS_EmptySet
  <2>. QED
    BY <2>1
<1>2. CASE T # {}
  <2>1. PICK n \in T : \A m \in T : n <= m
    <3>. HIDE DEF T
    <3>1. T \in SUBSET Nat
      OBVIOUS
    <3>2. Min(T) \in T /\ \A m \in T : Min(T) <= m
      BY <1>2, <3>1, LeastIs
    <3>. QED
      BY <3>2
  <2>. DEFINE V == {m \in S : m > n}
  <2>2. V \in SUBSET (0..k) /\ Cardinality(V) < c /\ n \in 0..k /\ n \notin V
    <3>1. Cardinality(V) < c
      OBVIOUS
    <3>. HIDE DEF T
    <3>2. n \in S
      OBVIOUS
    <3>3. V \in SUBSET S /\ n \in 0..k
      BY <3>2
    <3>4. n \notin V
      <4>1. ~(n > n)
        BY ONLY <3>3, k \in Nat
      <4>. QED
        BY <4>1
    <3>. HIDE DEF V
    <3>. QED
      BY <3>1, <3>3, <3>4
  <2>3. T \subseteq V \cup {n}
    <3>1. ASSUME NEW m \in T, m # n PROVE m \in V
      BY <3>1, <2>1
    <3>. QED
      BY <3>1
  <2>. HIDE DEF T, V
  <2>4. IsFiniteSet(V) /\ Cardinality(V) \in Nat
    BY <2>2, Finite
  <2>5. IsFiniteSet(V \cup {n}) /\ Cardinality(V \cup {n}) = Cardinality(V) + 1
    BY <2>2, <2>4, FS_AddElement
  <2>6. Cardinality(T) <= Cardinality(V \cup {n}) /\ IsFiniteSet(T)
    BY <2>3, <2>5, FS_Subset
  <2>7. Cardinality(T) \in Nat
    BY <2>6, FS_CardinalityType
  <2>8. Cardinality(T) <= c
    BY <2>2, <2>4, <2>5, <2>6, <2>7
  <2>. QED
    BY <2>8 DEF T
<1>. QED
  BY <1>1, <1>2

\* What is tried: of the earlier ones listed, at most Recent and one kept; and no
\* earlier one kept is left out that is later than a kept one tried.
LEMMA TriedAre ==
    ASSUME NEW k \in Nat, NEW listed \in SUBSET (1..k), NEW kept \in SUBSET listed
    PROVE  LET tried == CandidatesOf(listed, kept)
           IN  /\ tried \subseteq listed \ {Max(listed)}
               /\ IsFiniteSet(tried) /\ Cardinality(tried) \in Nat /\ Cardinality(tried) < MaxKept
               /\ Cardinality(tried \ kept) <= Recent
               /\ \A n \in tried \cap kept, m \in kept : m >= n => m \in tried \cup {Max(listed)}
<1>. DEFINE earlier == listed \ {Max(listed)}
            latest == {n \in earlier : Cardinality({m \in earlier : m > n}) < Recent}
            pins == kept \cap earlier
            finals == IF pins = {} THEN {} ELSE {Max(pins)}
            tried == CandidatesOf(listed, kept)
<1>1. tried = IF Cardinality(listed) < 2 THEN {} ELSE latest \cup finals
  BY DEF CandidatesOf
<1>2. earlier \in SUBSET (0..k) /\ pins \in SUBSET (0..k) /\ latest \in SUBSET (0..k)
  <2>1. earlier \in SUBSET (0..k) /\ pins \in SUBSET earlier
    <3>1. listed \in SUBSET (0..k)
      OBVIOUS
    <3>. HIDE DEF latest, tried, finals
    <3>. QED
      BY <3>1, Zenon
  <2>2. latest \in SUBSET earlier
    <3>. HIDE DEF earlier
    <3>. QED
      BY Zenon
  <2>. QED
    BY <2>1, <2>2
<1>3. Recent \in Nat \ {0} /\ MaxKept \in Nat /\ Recent + 1 < MaxKept
  BY RecoveryHasBounds, TriedFit
<1>4. pins # {} => Max(pins) \in pins /\ \A n \in pins : n <= Max(pins)
  <2>. HIDE DEF pins
  <2>. QED
    BY <1>2, GreatestIs
<1>5. finals \subseteq pins /\ IsFiniteSet(finals) /\ Cardinality(finals) \in 0..1
  <2>1. IsFiniteSet({}) /\ Cardinality({}) = 0
    BY FS_EmptySet
  <2>2. IsFiniteSet({Max(pins)}) /\ Cardinality({Max(pins)}) = 1
    BY FS_Singleton
  <2>. HIDE DEF pins
  <2>. QED
    BY <1>4, <2>1, <2>2
<1>6. IsFiniteSet(latest) /\ Cardinality(latest) \in Nat /\ Cardinality(latest) <= Recent
  <2>1. Cardinality(latest) <= Recent
    <3>. HIDE DEF earlier
    <3>. QED
      BY <1>2, <1>3, LatestAreFew
  <2>2. IsFiniteSet(latest) /\ Cardinality(latest) \in Nat
    <3>. HIDE DEF latest
    <3>. QED
      BY <1>2, Finite
  <2>. QED
    BY <2>1, <2>2
<1>7. latest \subseteq earlier /\ pins \subseteq earlier
  <2>. HIDE DEF earlier
  <2>. QED
    OBVIOUS
<1>8. IsFiniteSet(tried) /\ Cardinality(tried) \in Nat /\ Cardinality(tried) < MaxKept
  <2>. HIDE DEF latest, finals, tried
  <2>1. CASE Cardinality(listed) < 2
    BY <1>1, <1>3, <2>1, FS_EmptySet
  <2>2. CASE ~(Cardinality(listed) < 2)
    <3>1. /\ IsFiniteSet(tried)
          /\ Cardinality(tried) = Cardinality(latest) + Cardinality(finals) - Cardinality(latest \cap finals)
      BY <1>1, <1>5, <1>6, <2>2, FS_Union
    <3>2. IsFiniteSet(latest \cap finals)
      BY <1>6, FS_Intersection
    <3>3. Cardinality(latest \cap finals) \in Nat /\ Cardinality(tried) \in Nat
      BY <3>1, <3>2, FS_CardinalityType
    <3>. QED
      BY <1>3, <1>5, <1>6, <3>1, <3>3
  <2>. QED
    BY <2>1, <2>2
<1>9. tried \subseteq earlier
  <2>. HIDE DEF latest, finals, tried, earlier, pins
  <2>. QED
    BY <1>1, <1>5, <1>7
<1>a. Cardinality(tried \ kept) <= Recent
  <2>. HIDE DEF latest, finals, tried, earlier
  <2>1. tried \ kept \subseteq latest
    BY <1>1, <1>5
  <2>2. IsFiniteSet(tried \ kept) /\ Cardinality(tried \ kept) <= Cardinality(latest)
    BY <1>6, <2>1, FS_Subset
  <2>3. Cardinality(tried \ kept) \in Nat
    BY <2>2, FS_CardinalityType
  <2>. QED
    BY <1>3, <1>6, <2>2, <2>3
<1>10. ASSUME NEW n \in tried \cap kept, NEW m \in kept, m >= n, m # Max(listed)
       PROVE  m \in tried
  <2>1. m \in pins /\ m \in Nat /\ n \in Nat /\ Cardinality(listed) >= 2
    <3>1. m \in earlier
      BY <1>10
    <3>2. Cardinality(listed) \in Nat
      <4>1. listed \in SUBSET (0..k)
        OBVIOUS
      <4>. QED
        BY <4>1, Finite
    <3>3. ~(Cardinality(listed) < 2)
      <4>. HIDE DEF tried
      <4>. QED
        BY <1>1, <1>10
    <3>4. m \in Nat /\ n \in Nat
      <4>1. n \in kept /\ kept \in SUBSET (1..k)
        BY Zenon
      <4>. QED
        BY ONLY <4>1, m \in kept, k \in Nat
    <3>5. m \in pins
      <4>. HIDE DEF tried, earlier
      <4>. QED
        BY <3>1
    <3>. HIDE DEF tried, pins
    <3>. QED
      BY <3>2, <3>3, <3>4, <3>5
  <2>2. CASE n \in finals
    <3>1. n = Max(pins) /\ m <= n
      <4>. HIDE DEF pins
      <4>. QED
        BY <1>4, <2>1, <2>2
    <3>2. m = n
      BY <3>1, <1>10, <2>1
    <3>. QED
      BY <3>2, <1>10
  <2>3. CASE n \in latest
    <3>. DEFINE After(x) == {y \in earlier : y > x}
    <3>1. After(m) \subseteq After(n)
      <4>1. \A y \in earlier : y \in Nat
        BY <1>2
      <4>. HIDE DEF earlier, tried, finals, latest
      <4>. QED
        BY <2>1, <1>10, <4>1
    <3>2. After(n) \in SUBSET (0..k) /\ After(m) \in SUBSET (0..k)
      BY <1>2
    <3>3. Cardinality(After(n)) < Recent /\ m \in earlier
      BY <2>3, <2>1
    <3>4. Cardinality(After(m)) < Recent
      <4>. HIDE DEF After
      <4>1. IsFiniteSet(After(n)) /\ Cardinality(After(n)) \in Nat /\ Cardinality(After(m)) \in Nat
        BY <3>2, Finite
      <4>2. Cardinality(After(m)) <= Cardinality(After(n))
        BY <3>1, <4>1, FS_Subset
      <4>. QED
        BY <1>3, <3>3, <4>1, <4>2
    <3>5. m \in latest
      BY <3>3, <3>4
    <3>. HIDE DEF latest, tried, finals
    <3>. QED
      BY <3>5, <1>1, <2>1
  <2>. QED
    <3>. HIDE DEF latest, tried, finals
    <3>. QED
      BY <1>1, <1>10, <2>1, <2>2, <2>3
<1>. QED
  <2>. HIDE DEF tried
  <2>1. tried \subseteq listed \ {Max(listed)}
    BY <1>9
  <2>. QED
    BY <1>8, <1>a, <1>10, <2>1 DEF tried

\* The earliest kept make room for those tried, and for no more: none of these
\* is deleted, what stays and what is to be kept are no more than Drive keeps, and
\* beside what is let go of as many later ones stay.
LEMMA RoomIs ==
    ASSUME NEW k \in Nat, NEW kept \in SUBSET (1..k), NEW tried, NEW latest,
           IsFiniteSet(tried), Cardinality(tried) \in Nat, Cardinality(tried) < MaxKept,
           \A n \in tried \cap kept, m \in kept : m >= n => m \in tried \cup {latest}
    PROVE  LET room == InTheWay(tried, kept)
           IN  /\ room \subseteq kept /\ room \cap tried = {}
               /\ Cardinality(kept \ room) + Cardinality(tried \ kept) <= MaxKept
               /\ \A n \in room : Cardinality({m \in kept : m > n}) >= MaxKept - Cardinality(tried \ kept)
<1>. DEFINE over == Over(tried, kept)
            Before(n) == {m \in kept : m < n}
            room == {n \in kept : Cardinality(Before(n)) < over}
<1>1. InTheWay(tried, kept) = room
  BY DEF InTheWay
<1>2. kept \in SUBSET (0..k) /\ IsFiniteSet(kept) /\ Cardinality(kept) \in Nat
  <2>1. kept \in SUBSET (0..k)
    OBVIOUS
  <2>. QED
    BY <2>1, Finite
<1>3. /\ IsFiniteSet(tried \ kept) /\ Cardinality(tried \ kept) \in Nat
      /\ Cardinality(tried \ kept) = Cardinality(tried) - Cardinality(tried \cap kept)
      /\ IsFiniteSet(tried \cap kept) /\ Cardinality(tried \cap kept) \in Nat
  BY FS_Difference, FS_Intersection, FS_CardinalityType
<1>4. MaxKept \in Nat /\ over = Cardinality(kept) + Cardinality(tried \ kept) - MaxKept
  BY RecoveryHasBounds DEF Over
<1>5. over \in Int /\ \A n \in kept : Before(n) \in SUBSET kept /\ IsFiniteSet(Before(n)) /\ Cardinality(Before(n)) \in Nat
  <2>1. over \in Int
    BY <1>2, <1>3, <1>4
  <2>2. ASSUME NEW n \in kept PROVE Before(n) \in SUBSET kept /\ IsFiniteSet(Before(n)) /\ Cardinality(Before(n)) \in Nat
    <3>1. Before(n) \in SUBSET kept
      OBVIOUS
    <3>. HIDE DEF Before
    <3>. QED
      BY <1>2, <3>1, FS_Subset, FS_CardinalityType
  <2>. QED
    BY <2>1, <2>2
<1>. HIDE DEF over
<1>6. room \subseteq kept /\ \A n \in kept : n \in room <=> Cardinality(Before(n)) < over
  <2>. HIDE DEF Before
  <2>. QED
    BY Zenon
<1>7. ASSUME NEW n \in room, n \in tried PROVE FALSE
  <2>. DEFINE since == kept \ Before(n)
  <2>1. n \in kept /\ Cardinality(Before(n)) < over
    BY <1>6, <1>7
  <2>2. since \subseteq (tried \cap kept) \cup {latest}
    <3>1. ASSUME NEW m \in since PROVE m \in (tried \cap kept) \cup {latest}
      <4>1. m \in kept /\ m >= n
        BY <2>1, <3>1
      <4>. QED
        BY <1>7, <2>1, <4>1
    <3>. QED
      BY <3>1
  <2>3. kept \cap Before(n) = Before(n)
    OBVIOUS
  <2>. HIDE DEF Before, room
  <2>4. /\ IsFiniteSet(since) /\ Cardinality(since) \in Nat
        /\ Cardinality(since) = Cardinality(kept) - Cardinality(Before(n))
    <3>1. /\ IsFiniteSet(kept \ Before(n))
          /\ Cardinality(kept \ Before(n)) = Cardinality(kept) - Cardinality(kept \cap Before(n))
      BY <1>2, FS_Difference
    <3>2. Cardinality(kept \ Before(n)) \in Nat
      BY <3>1, FS_CardinalityType
    <3>. QED
      BY <2>3, <3>1, <3>2
  <2>. HIDE DEF since
  <2>5. Cardinality(since) <= Cardinality(tried \cap kept) + 1
    <3>. DEFINE both == tried \cap kept
    <3>1. IsFiniteSet(both) /\ Cardinality(both) \in Nat
      BY <1>3
    <3>. HIDE DEF both
    <3>2. /\ IsFiniteSet(both \cup {latest})
          /\ Cardinality(both \cup {latest}) = IF latest \in both THEN Cardinality(both) ELSE Cardinality(both) + 1
      BY <3>1, FS_AddElement
    <3>3. Cardinality(since) <= Cardinality(both \cup {latest})
      BY <2>2, <3>2, FS_Subset DEF both
    <3>4. Cardinality(since) <= Cardinality(both) + 1
      BY <2>4, <3>1, <3>2, <3>3
    <3>. QED
      BY <3>4 DEF both
  <2>. QED
    BY <1>2, <1>3, <1>4, <1>5, <2>1, <2>4, <2>5
<1>8. Cardinality(kept \ room) + Cardinality(tried \ kept) <= MaxKept
  <2>. DEFINE stay == kept \ room
  <2>1. CASE stay = {}
    <3>1. Cardinality(stay) = 0
      <4>. HIDE DEF stay
      <4>. QED
        BY <2>1, FS_EmptySet
    <3>2. Cardinality(tried \ kept) <= MaxKept
      BY <1>3, <1>4
    <3>. HIDE DEF room
    <3>. QED
      BY <1>3, <1>4, <3>1, <3>2
  <2>2. CASE stay # {}
    <3>1. PICK n \in stay : \A m \in stay : n <= m
      <4>1. stay \in SUBSET Nat
        <5>1. stay \in SUBSET kept /\ \A m \in 1..k : m \in Nat
          <6>. HIDE DEF room
          <6>. QED
            OBVIOUS
        <5>. HIDE DEF stay
        <5>. QED
          BY <5>1
      <4>. HIDE DEF stay
      <4>2. Min(stay) \in stay /\ \A m \in stay : Min(stay) <= m
        BY <2>2, <4>1, LeastIs
      <4>. QED
        BY <4>2
    <3>. HIDE DEF room
    <3>2. n \in kept /\ ~(Cardinality(Before(n)) < over)
      <4>1. n \in kept /\ n \notin room
        BY <3>1
      <4>. HIDE DEF Before
      <4>. QED
        BY <4>1, <1>6
    <3>3. Before(n) \subseteq room
      <4>1. ASSUME NEW m \in Before(n) PROVE m \in room
        <5>1. m \in kept /\ m \in Nat /\ n \in Nat /\ m < n
          BY <3>2, <4>1
        <5>2. m \notin stay
          <6>. HIDE DEF stay, Before
          <6>. QED
            BY <3>1, <5>1
        <5>. QED
          BY <5>1, <5>2
      <4>. QED
        BY <4>1
    <3>. HIDE DEF Before
    <3>4. IsFiniteSet(room) /\ Cardinality(room) \in Nat /\ Cardinality(Before(n)) <= Cardinality(room)
      <4>1. IsFiniteSet(room) /\ Cardinality(room) \in Nat
        BY <1>2, <1>6, FS_Subset, FS_CardinalityType
      <4>. QED
        BY <3>3, <4>1, FS_Subset
    <3>5. Cardinality(stay) = Cardinality(kept) - Cardinality(room)
      <4>1. kept \cap room = room
        BY <1>6
      <4>2. Cardinality(stay) = Cardinality(kept) - Cardinality(kept \cap room)
        BY <1>2, FS_Difference
      <4>. QED
        BY <4>1, <4>2
    <3>. HIDE DEF stay
    <3>6. Cardinality(stay) <= Cardinality(kept) - over
      BY <1>2, <1>5, <3>2, <3>4, <3>5
    <3>7. Cardinality(stay) + Cardinality(tried \ kept) <= MaxKept
      <4>1. Cardinality(stay) \in Int
        BY <1>2, <3>4, <3>5
      <4>. QED
        BY <1>2, <1>3, <1>4, <3>6, <4>1
    <3>. QED
      BY <3>7 DEF stay
  <2>. QED
    BY <2>1, <2>2
<1>9. room \cap tried = {} /\ room \subseteq kept
  <2>. HIDE DEF room
  <2>. QED
    BY <1>6, <1>7
<1>10. ASSUME NEW n \in room
       PROVE  Cardinality({m \in kept : m > n}) >= MaxKept - Cardinality(tried \ kept)
  <2>. DEFINE Later == {m \in kept : m > n}
              since == kept \ Before(n)
  <2>1. n \in kept /\ Cardinality(Before(n)) < over
    BY <1>6
  <2>2. since \subseteq Later \cup {n} /\ Later \in SUBSET (0..k)
    <3>1. n \in Nat /\ \A m \in kept : m \in Nat
      BY <2>1
    <3>2. ASSUME NEW m \in since, m # n PROVE m \in Later
      <4>1. m \in kept /\ ~(m < n) /\ m \in Nat
        BY <3>1
      <4>. QED
        BY <3>1, <3>2, <4>1
    <3>3. Later \in SUBSET kept
      OBVIOUS
    <3>. HIDE DEF room, Later, since
    <3>. QED
      BY <1>2, <3>2, <3>3
  <2>3. kept \cap Before(n) = Before(n)
    OBVIOUS
  <2>. HIDE DEF Before, room
  <2>4. /\ IsFiniteSet(since) /\ Cardinality(since) \in Nat
        /\ Cardinality(since) = Cardinality(kept) - Cardinality(Before(n))
    <3>1. /\ IsFiniteSet(kept \ Before(n))
          /\ Cardinality(kept \ Before(n)) = Cardinality(kept) - Cardinality(kept \cap Before(n))
      BY <1>2, FS_Difference
    <3>2. Cardinality(kept \ Before(n)) \in Nat
      BY <3>1, FS_CardinalityType
    <3>. QED
      BY <2>3, <3>1, <3>2
  <2>. HIDE DEF since, Later
  <2>5. IsFiniteSet(Later) /\ Cardinality(Later) \in Nat
    BY <2>2, Finite
  <2>6. /\ IsFiniteSet(Later \cup {n})
        /\ Cardinality(Later \cup {n}) = IF n \in Later THEN Cardinality(Later) ELSE Cardinality(Later) + 1
    BY <2>5, FS_AddElement
  <2>7. Cardinality(since) <= Cardinality(Later \cup {n})
    BY <2>2, <2>6, FS_Subset
  <2>8. Cardinality(Later) >= MaxKept - Cardinality(tried \ kept)
    BY <1>2, <1>3, <1>4, <1>5, <2>1, <2>4, <2>5, <2>6, <2>7
  <2>. QED
    BY <2>8 DEF Later
<1>. QED
  <2>. HIDE DEF room
  <2>. QED
    BY <1>1, <1>8, <1>9, <1>10

(***************************************************************************)
(* What holds of a recovery wherever it is.                                *)
(***************************************************************************)

Steps == {"clear", "download", "restore", "upload"}
Tries == {"download", "restore", "upload"}
Moments == Ended \cup Steps \cup {"list"}

\* What a recovery of a file of k revisions may be.
Records(k) == [pc : Moments, damage : Damages \cup {""}, listed : SUBSET (1..k), kept : SUBSET (1..k),
               clearing : SUBSET (1..k), left : SUBSET (1..k), unsure : BOOLEAN]

\* What makes room, and what of it is gone.
Room(r) == InTheWay(ToTry(r), recovery[r].kept)
Gone(r) == Room(r) \ recovery[r].clearing

\* Where a recovery is, it has what it needs there.
InPlace(r) ==
    /\ recovery[r] \in Records(Now)
    /\ recovery[r].kept \subseteq recovery[r].listed \cap forever
    /\ recovery[r].clearing \subseteq Room(r)
    /\ recovery[r].left \subseteq ToTry(r)
    /\ recovery[r].pc \in Tries => recovery[r].left # {} /\ recovery[r].clearing = {}
    /\ recovery[r].pc = "nothing" => recovery[r].left = {} /\ ~recovery[r].unsure

\* What is tried no more was looked at, or the recovery knows it was not.
Looked(r) ==
    recovery[r].pc \in Steps \cup {"nothing"} /\ ~recovery[r].unsure =>
        \A n \in ToTry(r) \ recovery[r].left : n \in purged \/ Holds(n) # Reads

\* The file is as a recovery by itself found it, but for what it cleared and kept.
AsItWas(r) ==
    /\ Now \in recovery[r].listed
    /\ purged \cap recovery[r].listed \subseteq Gone(r)
    /\ forever \cap There \subseteq
           (recovery[r].kept \ Gone(r)) \cup ((ToTry(r) \ recovery[r].kept) \ recovery[r].left)
               \cup (IF recovery[r].pc = "clear" THEN {} ELSE {Trying(r)})
    /\ \A n \in ToTry(r) \ recovery[r].left : Holds(n) # Reads

ByItself(r) ==
    /\ recovery[r].pc \notin {"unsure", "stopped", "conflict"}
    /\ recovery[r].pc \in Steps \cup {"list"} =>
           /\ Holds(Now) = recovery[r].damage /\ recovery[r].damage \in Damages
           /\ ~recovery[r].unsure
    /\ recovery[r].pc \in Steps => AsItWas(r)

Stands(r) == InPlace(r) /\ Looked(r) /\ (r \in alone => ByItself(r))

\* What was kept forever or deleted is never the damage that came last.
Kept ==
    /\ RecoveryTypeOK /\ made # <<>>
    /\ Now \in purged => Now \in forever
    /\ Now \in forever => Holds(Now) = Reads

RecoveryInv ==
    /\ Kept
    /\ recovery = [r \in Recoverers |-> recovery[r]]
    /\ \A r \in Recoverers : Stands(r)

\* A file's revisions, and what was done to them, only grow.
Grown ==
    /\ made' = made \/ \E e : made' = Append(made, e)
    /\ forever \subseteq forever' /\ purged \subseteq purged'

(***************************************************************************)
(* The file: whatever is done to it, no more is kept than Drive keeps.     *)
(***************************************************************************)

LEMMA KeptIs ==
    ASSUME Kept
    PROVE  /\ Now \in Nat \ {0} /\ DOMAIN made = 1..Now
           /\ \A n \in 1..Now : made[n] \in [holds : Damages \cup {Reads}, ofItsDay : BOOLEAN]
           /\ made \in Seq([holds : Damages \cup {Reads}, ofItsDay : BOOLEAN])
           /\ forever \subseteq 1..Now /\ purged \subseteq 1..Now
           /\ IsFiniteSet(forever \cap There) /\ Cardinality(forever \cap There) \in Nat
           /\ Cardinality(forever \cap There) <= MaxKept /\ MaxKept \in Nat \ {0}
<1>. DEFINE E == [holds : Damages \cup {Reads}, ofItsDay : BOOLEAN]
<1>1. made \in Seq(E) /\ made # <<>>
  BY DEF Kept, RecoveryTypeOK
<1>. HIDE DEF E
<1>2. Now \in Nat \ {0} /\ DOMAIN made = 1..Now /\ \A n \in 1..Now : made[n] \in E
  BY <1>1 DEF Now
<1>3. forever \subseteq 1..Now /\ purged \subseteq 1..Now /\ Cardinality(forever \cap There) <= MaxKept
  BY <1>2 DEF Kept, RecoveryTypeOK
<1>4. forever \cap There \in SUBSET (0..Now)
  <2>1. \A n \in 1..Now : n \in 0..Now
    BY <1>2
  <2>. QED
    BY <1>3, <2>1
<1>5. IsFiniteSet(forever \cap There) /\ Cardinality(forever \cap There) \in Nat
  BY <1>2, <1>4, Finite
<1>6. MaxKept \in Nat \ {0}
  BY RecoveryHasBounds
<1>. QED
  BY <1>1, <1>2, <1>3, <1>5, <1>6 DEF E

LEMMA AppendIs ==
    ASSUME Kept, NEW e, made' = Append(made, e)
    PROVE  /\ Now' = Now + 1 /\ DOMAIN made' = 1..(Now + 1)
           /\ made'[Now + 1] = e /\ \A n \in 1..Now : made'[n] = made[n]
           /\ e \in [holds : Damages \cup {Reads}, ofItsDay : BOOLEAN] =>
                  made' \in Seq([holds : Damages \cup {Reads}, ofItsDay : BOOLEAN])
<1>. DEFINE E == [holds : Damages \cup {Reads}, ofItsDay : BOOLEAN]
<1>1. made \in Seq(E) /\ Now = Len(made) /\ Now \in Nat
  BY KeptIs DEF Now
<1>. HIDE DEF E
<1>2. made \in Seq(E \cup {e})
  BY <1>1
<1>3. /\ Len(made') = Len(made) + 1 /\ DOMAIN made' = 1..(Len(made) + 1)
      /\ made'[Len(made) + 1] = e /\ \A n \in 1..Len(made) : made'[n] = made[n]
  BY <1>2
<1>4. e \in E => made' \in Seq(E)
  BY <1>1
<1>. QED
  BY <1>1, <1>3, <1>4 DEF E, Now

\* A revision made that is not kept.
LEMMA MadeMore ==
    ASSUME Kept, NEW e \in [holds : Damages \cup {Reads}, ofItsDay : BOOLEAN],
           made' = Append(made, e), UNCHANGED <<forever, purged>>, alone' \subseteq Recoverers
    PROVE  Kept' /\ Grown
<1>1. /\ Now' = Now + 1 /\ DOMAIN made' = 1..(Now + 1) /\ Now \in Nat /\ DOMAIN made = 1..Now
      /\ forever \subseteq 1..Now /\ purged \subseteq 1..Now
      /\ made' \in Seq([holds : Damages \cup {Reads}, ofItsDay : BOOLEAN])
  BY AppendIs, KeptIs
<1>2. Now + 1 \notin forever /\ Now + 1 \notin purged /\ DOMAIN made \subseteq DOMAIN made'
  BY <1>1
<1>3. forever' \cap There' = forever \cap There
  BY <1>1, <1>2 DEF There
<1>4. made' # <<>>
  BY <1>1
<1>. QED
  BY <1>1, <1>2, <1>3, <1>4 DEF Kept, RecoveryTypeOK, Grown

\* One kept for its day.
LEMMA MadeForItsDay ==
    ASSUME Kept, NEW e \in [holds : {Reads}, ofItsDay : BOOLEAN], made' = Append(made, e),
           Cardinality(forever \cap There) < MaxKept, forever' = forever \cup {Now + 1},
           purged' = purged, alone' \subseteq Recoverers
    PROVE  Kept' /\ Grown
<1>1. /\ Now' = Now + 1 /\ DOMAIN made' = 1..(Now + 1) /\ Now \in Nat /\ DOMAIN made = 1..Now
      /\ forever \subseteq 1..Now /\ purged \subseteq 1..Now /\ made'[Now + 1] = e
      /\ IsFiniteSet(forever \cap There) /\ Cardinality(forever \cap There) \in Nat /\ MaxKept \in Nat
      /\ made' \in Seq([holds : Damages \cup {Reads}, ofItsDay : BOOLEAN])
  BY AppendIs, KeptIs
<1>2. Now + 1 \notin forever /\ Now + 1 \notin purged /\ Now + 1 \in DOMAIN made' /\ DOMAIN made \subseteq DOMAIN made'
  BY <1>1
<1>3. forever' \cap There' = (forever \cap There) \cup {Now + 1}
  BY <1>1, <1>2 DEF There
<1>4. Cardinality(forever' \cap There') <= MaxKept
  <2>. DEFINE S == forever \cap There
  <2>1. Cardinality(S \cup {Now + 1}) = IF Now + 1 \in S THEN Cardinality(S) ELSE Cardinality(S) + 1
    BY <1>1, FS_AddElement
  <2>2. Cardinality(S) \in Nat /\ Cardinality(S) < MaxKept /\ MaxKept \in Nat
    BY <1>1
  <2>. HIDE DEF S
  <2>3. Cardinality(S \cup {Now + 1}) <= MaxKept
    BY <2>1, <2>2
  <2>. QED
    BY <2>3, <1>3 DEF S
<1>5. made' # <<>> /\ (Holds(Now))' = Reads
  BY <1>1 DEF Holds
<1>. QED
  BY <1>1, <1>2, <1>4, <1>5 DEF Kept, RecoveryTypeOK, Grown

\* One let go of: an earlier one, or one that was kept.
LEMMA Forgone ==
    ASSUME Kept, NEW n \in DOMAIN made, n = Now => n \in forever, purged' = purged \cup {n},
           UNCHANGED <<made, forever>>, alone' \subseteq Recoverers
    PROVE  Kept' /\ Grown
<1>1. /\ IsFiniteSet(forever \cap There) /\ Cardinality(forever \cap There) \in Nat
      /\ Cardinality(forever \cap There) <= MaxKept /\ MaxKept \in Nat
  BY KeptIs
<1>2. forever' \cap There' \subseteq forever \cap There
  BY DEF There
<1>3. IsFiniteSet(forever' \cap There') /\ Cardinality(forever' \cap There') <= Cardinality(forever \cap There)
  BY <1>1, <1>2, FS_Subset
<1>4. Cardinality(forever' \cap There') \in Nat
  BY <1>3, FS_CardinalityType
<1>5. Cardinality(forever' \cap There') <= MaxKept
  BY <1>1, <1>3, <1>4
<1>6. Now' = Now /\ (Holds(Now))' = Holds(Now)
  BY DEF Now, Holds
<1>. QED
  BY <1>5, <1>6 DEF Kept, RecoveryTypeOK, Grown

\* One kept forever, as long as there is room.
LEMMA KeptForGood ==
    ASSUME Kept, NEW n \in There, n # Now, n \in forever \/ Cardinality(forever \cap There) < MaxKept,
           forever' = forever \cup {n}, UNCHANGED <<made, purged>>, alone' \subseteq Recoverers
    PROVE  Kept' /\ Grown
<1>1. /\ IsFiniteSet(forever \cap There) /\ Cardinality(forever \cap There) \in Nat
      /\ Cardinality(forever \cap There) <= MaxKept /\ MaxKept \in Nat
  BY KeptIs
<1>2. There' = There /\ forever' \cap There' = (forever \cap There) \cup {n}
  BY DEF There
<1>3. Cardinality(forever' \cap There') <= MaxKept
  <2>. DEFINE S == forever \cap There
  <2>1. Cardinality(S \cup {n}) = IF n \in S THEN Cardinality(S) ELSE Cardinality(S) + 1
    BY <1>1, FS_AddElement
  <2>2. Cardinality(S) \in Nat /\ Cardinality(S) <= MaxKept /\ MaxKept \in Nat
    BY <1>1
  <2>3. n \in S \/ Cardinality(S) < MaxKept
    OBVIOUS
  <2>. HIDE DEF S
  <2>4. Cardinality(S \cup {n}) <= MaxKept
    BY <2>1, <2>2, <2>3
  <2>. QED
    BY <2>4, <1>2 DEF S
<1>4. Now' = Now /\ (Holds(Now))' = Holds(Now) /\ n \in DOMAIN made
  BY DEF Now, Holds, There
<1>. QED
  BY <1>3, <1>4 DEF Kept, RecoveryTypeOK, Grown

LEMMA SameFile ==
    ASSUME Kept, UNCHANGED <<made, forever, purged>>, alone' \subseteq Recoverers
    PROVE  Kept' /\ Grown
BY DEF Kept, RecoveryTypeOK, Grown, Now, Holds, There

(***************************************************************************)
(* A recovery: what it is to try and what makes room, by what it listed.   *)
(***************************************************************************)

LEMMA GrownIs ==
    ASSUME Kept, Kept', Grown
    PROVE  /\ Now' \in Nat /\ Now <= Now' /\ 1..Now \subseteq 1..Now'
           /\ \A n \in 1..Now : made'[n] = made[n]
<1>1. Now \in Nat
  BY KeptIs
<1>2. CASE made' = made
  BY <1>1, <1>2 DEF Now
<1>3. ASSUME NEW e, made' = Append(made, e)
      PROVE  Now' = Now + 1 /\ \A n \in 1..Now : made'[n] = made[n]
  BY <1>3, AppendIs
<1>. QED
  BY <1>1, <1>2, <1>3 DEF Grown

LEMMA TryIs ==
    ASSUME Kept, NEW r \in Recoverers, InPlace(r)
    PROVE  /\ ToTry(r) \subseteq recovery[r].listed
           /\ \A n \in ToTry(r) : n \in 1..Now /\ n < Now
           /\ Room(r) \subseteq recovery[r].kept
           /\ recovery[r].left # {} =>
                  Trying(r) \in recovery[r].left /\ \A n \in recovery[r].left : n <= Trying(r)
           /\ recovery[r].clearing # {} => Min(recovery[r].clearing) \in recovery[r].clearing
<1>. DEFINE k == Now  listed == recovery[r].listed  kept == recovery[r].kept
            left == recovery[r].left  clearing == recovery[r].clearing
<1>1. /\ k \in Nat /\ listed \in SUBSET (1..k) /\ kept \in SUBSET listed
      /\ left \in SUBSET (1..k) /\ clearing \in SUBSET (1..k) /\ left \subseteq ToTry(r)
  BY KeptIs DEF InPlace, Records
<1>. HIDE DEF k, listed, kept, left, clearing
<1>2. listed \in SUBSET (0..k) /\ left \in SUBSET (0..k) /\ clearing \in SUBSET Nat
  <2>1. \A n \in 1..k : n \in 0..k /\ n \in Nat
    BY <1>1
  <2>. QED
    BY <1>1, <2>1
<1>3. ToTry(r) = CandidatesOf(listed, kept)
  BY DEF ToTry, listed, kept
<1>4. ToTry(r) \subseteq listed \ {Max(listed)}
  <2>1. CandidatesOf(listed, kept) \subseteq listed \ {Max(listed)}
    BY ONLY <1>1, TriedAre
  <2>. QED
    BY <1>3, <2>1
<1>5. ASSUME NEW n \in ToTry(r) PROVE n \in 1..k /\ n < k
  <2>1. n \in listed /\ n # Max(listed)
    BY <1>4
  <2>2. Max(listed) \in listed /\ n <= Max(listed)
    BY <1>1, <1>2, <2>1, GreatestIs
  <2>3. n \in 1..k /\ Max(listed) \in 1..k
    BY <1>1, <2>1, <2>2
  <2>. QED
    BY <1>1, <2>1, <2>2, <2>3
<1>6. Room(r) \subseteq kept
  BY DEF Room, InTheWay, kept
<1>7. left # {} => Trying(r) \in left /\ \A n \in left : n <= Trying(r)
  <2>1. Trying(r) = Max(left)
    BY DEF Trying, left
  <2>. QED
    BY <1>1, <1>2, <2>1, GreatestIs
<1>8. clearing # {} => Min(clearing) \in clearing
  BY <1>2, LeastIs
<1>. QED
  BY <1>4, <1>5, <1>6, <1>7, <1>8 DEF k, listed, kept, left, clearing

\* Room is made beside what is tried, of what has later ones kept.
LEMMA RoomIsMade ==
    ASSUME Kept, NEW r \in Recoverers, InPlace(r)
    PROVE  /\ Room(r) \cap ToTry(r) = {}
           /\ LET stay == recovery[r].kept \ Room(r)
                  come == ToTry(r) \ recovery[r].kept
              IN  /\ IsFiniteSet(stay) /\ IsFiniteSet(come)
                  /\ Cardinality(stay) \in Nat /\ Cardinality(come) \in Nat
                  /\ Cardinality(stay) + Cardinality(come) <= MaxKept
           /\ \A n \in Room(r) : Cardinality({m \in recovery[r].kept : m > n}) >= MaxKept - Recent
<1>. DEFINE k == Now  listed == recovery[r].listed  kept == recovery[r].kept
            tried == ToTry(r)  room == Room(r)
<1>1. /\ k \in Nat /\ listed \in SUBSET (1..k) /\ kept \in SUBSET listed
  BY KeptIs DEF InPlace, Records
<1>2. tried = CandidatesOf(listed, kept) /\ room = InTheWay(tried, kept)
  BY DEF ToTry, Room
<1>. HIDE DEF k, listed, kept, tried, room
<1>3. kept \in SUBSET (1..k) /\ kept \in SUBSET (0..k)
  <2>1. \A n \in 1..k : n \in 0..k
    BY <1>1
  <2>. QED
    BY <1>1, <2>1
<1>4. PICK latest : latest = Max(listed)
  OBVIOUS
<1>5. /\ IsFiniteSet(tried) /\ Cardinality(tried) \in Nat /\ Cardinality(tried) < MaxKept
      /\ Cardinality(tried \ kept) <= Recent
      /\ \A n \in tried \cap kept, m \in kept : m >= n => m \in tried \cup {latest}
  <2>. DEFINE picked == CandidatesOf(listed, kept)
  <2>1. /\ IsFiniteSet(picked) /\ Cardinality(picked) \in Nat /\ Cardinality(picked) < MaxKept
        /\ Cardinality(picked \ kept) <= Recent
        /\ \A n \in picked \cap kept, m \in kept : m >= n => m \in picked \cup {Max(listed)}
    BY ONLY <1>1, TriedAre
  <2>. HIDE DEF picked
  <2>2. tried = picked
    BY <1>2 DEF picked
  <2>. QED
    BY <1>4, <2>1, <2>2
<1>6. /\ room \subseteq kept /\ room \cap tried = {}
      /\ Cardinality(kept \ room) + Cardinality(tried \ kept) <= MaxKept
      /\ \A n \in room : Cardinality({m \in kept : m > n}) >= MaxKept - Cardinality(tried \ kept)
  <2>. DEFINE gone == InTheWay(tried, kept)
  <2>1. /\ gone \subseteq kept /\ gone \cap tried = {}
        /\ Cardinality(kept \ gone) + Cardinality(tried \ kept) <= MaxKept
        /\ \A n \in gone : Cardinality({m \in kept : m > n}) >= MaxKept - Cardinality(tried \ kept)
    BY ONLY <1>1, <1>3, <1>5, RoomIs
  <2>. QED
    BY <1>2, <2>1
<1>7. /\ IsFiniteSet(kept \ room) /\ Cardinality(kept \ room) \in Nat
      /\ IsFiniteSet(tried \ kept) /\ Cardinality(tried \ kept) \in Nat
  <2>1. IsFiniteSet(kept)
    BY <1>1, <1>3, Finite
  <2>2. IsFiniteSet(kept \ room) /\ IsFiniteSet(tried \ kept)
    BY <1>5, <2>1, FS_Difference
  <2>. QED
    BY <2>2, FS_CardinalityType
<1>8. ASSUME NEW n \in room PROVE Cardinality({m \in kept : m > n}) >= MaxKept - Recent
  <2>. DEFINE later == {m \in kept : m > n}
  <2>1. later \in SUBSET (0..k)
    BY <1>3
  <2>2. Cardinality(later) >= MaxKept - Cardinality(tried \ kept)
    BY <1>6
  <2>. HIDE DEF later
  <2>3. Cardinality(later) \in Nat /\ MaxKept \in Nat /\ Recent \in Nat
    BY <1>1, <2>1, Finite, RecoveryHasBounds
  <2>4. Cardinality(later) >= MaxKept - Recent
    BY <1>5, <1>7, <2>2, <2>3
  <2>. QED
    BY <2>4 DEF later
<1>. QED
  BY <1>6, <1>7, <1>8 DEF kept, tried, room

\* What others do leaves a recovery where it is; by itself it is only as long as
\* they do nothing to the file.
LEMMA OthersLeave ==
    ASSUME Kept, Kept', Grown, NEW r \in Recoverers, Stands(r), recovery'[r] = recovery[r],
           r \in alone' => r \in alone /\ (recovery[r].pc \in Ended \/ UNCHANGED <<made, forever, purged>>)
    PROVE  Stands(r)'
<1>1. /\ Now \in Nat /\ 1..Now \subseteq 1..Now' /\ \A n \in 1..Now : made'[n] = made[n]
      /\ ToTry(r) \subseteq 1..Now
  <2>1. ToTry(r) \subseteq 1..Now
    BY TryIs DEF Stands
  <2>. QED
    BY <2>1, GrownIs, KeptIs
<1>2. ToTry(r)' = ToTry(r) /\ Room(r)' = Room(r) /\ Trying(r)' = Trying(r) /\ Gone(r)' = Gone(r)
  BY DEF ToTry, Room, Trying, Gone
<1>3. InPlace(r)'
  <2>1. SUBSET (1..Now) \subseteq SUBSET (1..Now')
    BY <1>1
  <2>2. forever \subseteq forever'
    BY DEF Grown
  <2>3. recovery'[r] \in Records(Now')
    BY <2>1 DEF Stands, InPlace, Records
  <2>. QED
    BY <1>2, <2>2, <2>3 DEF Stands, InPlace
<1>4. Looked(r)'
  <2>1. purged \subseteq purged'
    BY DEF Grown
  <2>. QED
    BY <1>1, <1>2, <2>1 DEF Stands, Looked, Holds
<1>5. r \in alone' => ByItself(r)'
  <2>. SUFFICES ASSUME r \in alone' PROVE ByItself(r)'
    OBVIOUS
  <2>1. ByItself(r)
    BY DEF Stands
  <2>2. CASE recovery[r].pc \in Ended
    BY <2>1, <2>2 DEF ByItself, Ended, Steps
  <2>3. CASE UNCHANGED <<made, forever, purged>>
    <3>1. Now' = Now /\ There' = There /\ \A n \in 1..Now : (Holds(n))' = Holds(n)
      BY <2>3 DEF Now, There, Holds
    <3>2. (Holds(Now))' = Holds(Now)
      BY <2>3 DEF Holds, Now
    <3>3. AsItWas(r) => AsItWas(r)'
      BY <1>1, <1>2, <2>3, <3>1 DEF AsItWas
    <3>. QED
      BY <2>1, <3>2, <3>3 DEF ByItself
  <2>. QED
    BY <2>2, <2>3
<1>. QED
  BY <1>3, <1>4, <1>5 DEF Stands

\* A step of one recovery, which leaves the others where they are.
Stepped(r) ==
    /\ Kept' /\ Grown /\ Stands(r)'
    /\ recovery' = [q \in Recoverers |-> recovery'[q]]
    /\ \A q \in Recoverers \ {r} :
           /\ recovery'[q] = recovery[q]
           /\ q \in alone' => q \in alone /\ (recovery[q].pc \in Ended \/ UNCHANGED <<made, forever, purged>>)

LEMMA SteppedHolds == ASSUME RecoveryInv, NEW r \in Recoverers, Stepped(r) PROVE RecoveryInv'
<1>1. ASSUME NEW q \in Recoverers, q # r PROVE Stands(q)'
  BY <1>1, OthersLeave DEF Stepped, RecoveryInv
<1>. QED
  BY <1>1 DEF Stepped, RecoveryInv

LEMMA TurnIs ==
    ASSUME RecoveryInv, NEW r \in Recoverers, NEW x, Turn(r, x)
    PROVE  /\ recovery' = [q \in Recoverers |-> recovery'[q]] /\ recovery'[r] = x
           /\ \A q \in Recoverers \ {r} : recovery'[q] = recovery[q]
BY DEF RecoveryInv, Turn

LEMMA AloneIs == ASSUME Kept PROVE alone \subseteq Recoverers
BY DEF Kept, RecoveryTypeOK

LEMMA BeginStands == ASSUME RecoveryInv, NEW r \in Recoverers, Begin(r) PROVE Stepped(r)
<1>. DEFINE x == [AtRest EXCEPT !.pc = "list", !.damage = Holds(Now)]
<1>1. Kept /\ Now \in Nat /\ Holds(Now) \in Damages /\ UNCHANGED <<made, forever, purged>>
  BY KeptIs DEF RecoveryInv, Begin
<1>2. alone' \subseteq Recoverers /\ \A q \in Recoverers \ {r} : q \in alone' => q \in alone
  BY <1>1, AloneIs DEF Begin
<1>3. Kept' /\ Grown
  BY <1>1, <1>2, SameFile
<1>4. /\ recovery' = [q \in Recoverers |-> recovery'[q]] /\ recovery'[r] = x
      /\ \A q \in Recoverers \ {r} : recovery'[q] = recovery[q]
  BY TurnIs DEF Begin
<1>5. /\ x.pc = "list" /\ x.damage = Holds(Now) /\ x.listed = {} /\ x.kept = {}
      /\ x.clearing = {} /\ x.left = {} /\ x.unsure = FALSE
  BY DEF AtRest
<1>a. x \in Records(Now)
  <2>1. /\ "list" \in Moments /\ "idle" \in Moments /\ Holds(Now) \in Damages \cup {""}
        /\ "" \in Damages \cup {""} /\ {} \in SUBSET (1..Now) /\ FALSE \in BOOLEAN
    BY <1>1 DEF Moments, Ended
  <2>. QED
    BY <2>1 DEF AtRest, Records
<1>. HIDE DEF x
<1>6. InPlace(r)'
  <2>1. recovery'[r] \in Records(Now')
    <3>1. Now' = Now
      BY <1>1 DEF Now
    <3>. QED
      BY <3>1, <1>4, <1>a
  <2>. QED
    BY <2>1, <1>4, <1>5 DEF InPlace, Tries
<1>7. Looked(r)'
  BY <1>4, <1>5 DEF Looked, Steps
<1>8. ByItself(r)'
  <2>1. (Holds(Now))' = Holds(Now)
    BY <1>1 DEF Holds, Now
  <2>. QED
    BY <1>1, <1>4, <1>5, <2>1 DEF ByItself, Steps
<1>. QED
  BY <1>1, <1>2, <1>3, <1>4, <1>6, <1>7, <1>8 DEF Stepped, Stands

\* A recovery that moves on tries, and makes room, by the history it listed.
LEMMA MovesOn ==
    ASSUME Kept, Kept', Grown, NEW r \in Recoverers, InPlace(r),
           recovery'[r] \in Records(Now),
           recovery'[r].listed = recovery[r].listed, recovery'[r].kept = recovery[r].kept,
           recovery'[r].clearing \subseteq recovery[r].clearing,
           recovery'[r].left \subseteq recovery[r].left,
           recovery'[r].pc \in Tries => recovery'[r].left # {} /\ recovery'[r].clearing = {},
           recovery'[r].pc = "nothing" => recovery'[r].left = {} /\ ~recovery'[r].unsure
    PROVE  InPlace(r)' /\ ToTry(r)' = ToTry(r) /\ Room(r)' = Room(r)
<1>1. ToTry(r)' = ToTry(r) /\ Room(r)' = Room(r)
  BY DEF ToTry, Room
<1>2. SUBSET (1..Now) \subseteq SUBSET (1..Now') /\ forever \subseteq forever'
  BY GrownIs DEF Grown
<1>3. recovery'[r] \in Records(Now')
  BY <1>2 DEF Records
<1>4. /\ recovery'[r].kept \subseteq recovery'[r].listed \cap forever'
      /\ recovery'[r].clearing \subseteq Room(r)'
      /\ recovery'[r].left \subseteq ToTry(r)'
  BY <1>1, <1>2 DEF InPlace
<1>. QED
  BY <1>1, <1>3, <1>4 DEF InPlace

\* One that has ended, and not with nothing, holds on to nothing.
LEMMA SaidStands ==
    ASSUME RecoveryInv, Kept', Grown, NEW r \in Recoverers, NEW word \in Ended \ {"nothing"},
           Said(r, word), r \in alone' => word \notin {"unsure", "stopped", "conflict"}
    PROVE  Stands(r)'
<1>. DEFINE x == [recovery[r] EXCEPT !.pc = word]
<1>1. Kept /\ InPlace(r) /\ recovery'[r] = x
  BY TurnIs DEF Said, RecoveryInv, Stands
<1>2. /\ x.pc = word /\ x.listed = recovery[r].listed /\ x.kept = recovery[r].kept
      /\ x.clearing = recovery[r].clearing /\ x.left = recovery[r].left
  BY <1>1 DEF InPlace
<1>3. x \in Records(Now)
  BY <1>1 DEF InPlace, Moments, Records
<1>. HIDE DEF x
<1>4. word \notin Steps \cup Tries \cup {"list", "nothing"}
  BY DEF Ended, Steps, Tries
<1>5. InPlace(r)'
  BY <1>1, <1>2, <1>3, <1>4, MovesOn
<1>6. Looked(r)' /\ (r \in alone' => ByItself(r)')
  BY <1>1, <1>2, <1>4 DEF Looked, ByItself
<1>. QED
  BY <1>5, <1>6 DEF Stands

LEMMA ListStands == ASSUME RecoveryInv, NEW r \in Recoverers, List(r) PROVE Stepped(r)
<1>1. /\ Kept /\ Now \in Nat \ {0} /\ DOMAIN made = 1..Now /\ UNCHANGED <<made, forever, purged>>
      /\ Stands(r) /\ recovery[r].pc = "list" /\ There = 1..Now \ purged
  BY KeptIs DEF RecoveryInv, List, There
<1>2. alone' \subseteq alone /\ alone \subseteq Recoverers
  BY <1>1, AloneIs DEF List, Failed
<1>3. Kept' /\ Grown
  BY <1>1, <1>2, SameFile
<1>4. /\ Now' = Now /\ There' = There /\ (Holds(Now))' = Holds(Now)
      /\ \A n \in 1..Now : (Holds(n))' = Holds(n)
  BY <1>1 DEF Now, There, Holds
<1>. DEFINE kept == forever \cap There
            picked == CandidatesOf(There, kept)
            x == [recovery[r] EXCEPT !.pc = "clear", !.listed = There, !.kept = kept,
                                     !.clearing = InTheWay(picked, kept), !.left = picked]
            y == [recovery[r] EXCEPT !.pc = "stopped"]
<1>5. CASE Turn(r, x) /\ UNCHANGED <<faults, alone>>
  <2>1. /\ recovery' = [q \in Recoverers |-> recovery'[q]] /\ recovery'[r] = x
        /\ \A q \in Recoverers \ {r} : recovery'[q] = recovery[q]
    BY <1>5, TurnIs
  <2>2. /\ x.pc = "clear" /\ x.listed = There /\ x.kept = kept
        /\ x.clearing = InTheWay(picked, kept) /\ x.left = picked
        /\ x.damage = recovery[r].damage /\ x.unsure = recovery[r].unsure
    BY <1>1 DEF Stands, InPlace
  <2>3. picked \subseteq There /\ InTheWay(picked, kept) \subseteq kept
    <3>1. There \in SUBSET (1..Now) /\ kept \in SUBSET There
      BY <1>1
    <3>2. picked \subseteq There \ {Max(There)}
      <4>. HIDE DEF kept
      <4>1. CandidatesOf(There, kept) \subseteq There \ {Max(There)}
        <5>. DEFINE k == Now  there == There
        <5>1. k \in Nat /\ there \in SUBSET (1..k) /\ kept \in SUBSET there
          BY <1>1, <3>1
        <5>. HIDE DEF k, there
        <5>2. CandidatesOf(there, kept) \subseteq there \ {Max(there)}
          BY ONLY <5>1, TriedAre
        <5>. QED
          BY <5>2 DEF there
      <4>. QED
        BY <4>1
    <3>. QED
      BY <3>2 DEF InTheWay
  <2>4. x \in Records(Now)
    <3>1. There \in SUBSET (1..Now) /\ kept \in SUBSET (1..Now)
      BY <1>1
    <3>2. picked \in SUBSET (1..Now) /\ InTheWay(picked, kept) \in SUBSET (1..Now)
      BY <2>3, <3>1
    <3>. HIDE DEF picked, kept
    <3>. QED
      BY <1>1, <3>1, <3>2 DEF Stands, InPlace, Moments, Steps, Records
  <2>. HIDE DEF x
  <2>5. ToTry(r)' = picked /\ Room(r)' = InTheWay(picked, kept)
    BY <2>1, <2>2 DEF ToTry, Room
  <2>. HIDE DEF picked
  <2>6. InPlace(r)'
    BY <1>1, <1>4, <2>1, <2>2, <2>4, <2>5 DEF InPlace, Tries
  <2>7. Looked(r)'
    BY <2>1, <2>2, <2>5 DEF Looked
  <2>8. ASSUME r \in alone' PROVE ByItself(r)'
    <3>1. ByItself(r) /\ ~recovery[r].unsure
      BY <1>1, <1>2, <2>8 DEF Stands, ByItself, Steps
    <3>2. Holds(Now) = recovery[r].damage /\ recovery[r].damage \in Damages
      BY <1>1, <3>1 DEF ByItself
    <3>3. Now \in There
      BY <1>1, <3>2, DamageIsNoProfile DEF Kept, Reads
    <3>4. Gone(r)' = {}
      BY <2>1, <2>2, <2>5 DEF Gone
    <3>5. AsItWas(r)'
      BY <1>1, <1>4, <2>1, <2>2, <2>5, <3>1, <3>3, <3>4 DEF AsItWas
    <3>. QED
      BY <1>4, <2>1, <2>2, <3>1, <3>2, <3>5 DEF ByItself
  <2>. QED
    BY <1>1, <1>2, <1>3, <2>1, <2>6, <2>7, <2>8 DEF Stepped, Stands
<1>6. CASE Turn(r, y) /\ Failed(r)
  <2>1. /\ recovery' = [q \in Recoverers |-> recovery'[q]] /\ recovery'[r] = y
        /\ \A q \in Recoverers \ {r} : recovery'[q] = recovery[q]
    BY <1>6, TurnIs
  <2>2. Stands(r)'
    <3>1. "stopped" \in Ended \ {"nothing"} /\ r \notin alone'
      BY <1>6 DEF Ended, Failed
    <3>. QED
      BY <1>3, <1>6, <3>1, SaidStands DEF Said
  <2>. QED
    BY <1>1, <1>2, <1>3, <2>1, <2>2 DEF Stepped
<1>. QED
  BY <1>5, <1>6 DEF List, Said

\* What a recovery is found with, and what a step leaves it with.
LEMMA StandingIs ==
    ASSUME RecoveryInv, NEW r \in Recoverers
    PROVE  /\ Kept /\ InPlace(r) /\ Looked(r) /\ (r \in alone => ByItself(r))
           /\ recovery[r] \in Records(Now) /\ alone \subseteq Recoverers
BY AloneIs DEF RecoveryInv, Stands, InPlace, Records

LEMMA ClearStands == ASSUME RecoveryInv, NEW r \in Recoverers, Clear(r) PROVE Stepped(r)
<1>. DEFINE R == recovery[r]
            old == Min(R.clearing)
            x == [R EXCEPT !.clearing = @ \ {old}]
            y == [R EXCEPT !.clearing = {}]
<1>1. /\ Kept /\ InPlace(r) /\ Looked(r) /\ (r \in alone => ByItself(r))
      /\ R \in Records(Now) /\ alone \subseteq Recoverers
      /\ R.pc = "clear" /\ R.clearing # {} /\ UNCHANGED <<made, forever>>
  BY StandingIs DEF Clear
<1>2. Now' = Now /\ (Holds(Now))' = Holds(Now) /\ \A n \in 1..Now : (Holds(n))' = Holds(n)
  BY <1>1 DEF Now, Holds
<1>3. CASE Turn(r, x) /\ purged' = purged \cup {old} /\ Crossed(r)
  <2>1. /\ recovery' = [q \in Recoverers |-> recovery'[q]] /\ recovery'[r] = x
        /\ \A q \in Recoverers \ {r} : recovery'[q] = recovery[q]
    BY <1>3, TurnIs
  <2>2. /\ x \in Records(Now) /\ x.pc = "clear" /\ x.listed = R.listed /\ x.kept = R.kept /\ x.left = R.left
        /\ x.clearing = R.clearing \ {old} /\ x.damage = R.damage /\ x.unsure = R.unsure
    BY <1>1 DEF Records
  <2>3. old \in R.clearing /\ old \in Room(r) /\ old \in forever /\ old \in DOMAIN made
    BY <1>1, TryIs, KeptIs DEF InPlace
  <2>. HIDE DEF x, old
  <2>4. alone' \subseteq alone /\ \A q \in alone' : q = r \/ recovery[q].pc \in Ended
    BY <1>3 DEF Crossed
  <2>5. Kept' /\ Grown
    BY <1>1, <1>3, <2>3, <2>4, Forgone
  <2>6. InPlace(r)' /\ ToTry(r)' = ToTry(r) /\ Room(r)' = Room(r)
    BY <1>1, <2>1, <2>2, <2>5, MovesOn DEF Records, Tries
  <2>7. ToTry(r) \subseteq 1..Now
    BY <1>1, TryIs
  <2>8. Looked(r)'
    BY <1>1, <1>2, <1>3, <2>1, <2>2, <2>6, <2>7 DEF Looked, Steps
  <2>9. ASSUME r \in alone' PROVE ByItself(r)'
    <3>1. ByItself(r) /\ AsItWas(r)
      BY <1>1, <2>4, <2>9 DEF ByItself, Steps
    <3>2. Gone(r)' = Gone(r) \cup {old}
      BY <2>1, <2>2, <2>3, <2>6 DEF Gone
    <3>3. There' = There \ {old}
      BY <1>1, <1>3 DEF There
    <3>4. AsItWas(r)'
      <4>1. Now' \in recovery'[r].listed
        BY <1>2, <2>1, <2>2, <3>1 DEF AsItWas
      <4>2. purged' \cap recovery'[r].listed \subseteq Gone(r)'
        BY <1>3, <2>1, <2>2, <3>1, <3>2 DEF AsItWas
      <4>3. forever' \cap There' \subseteq
                (R.kept \ Gone(r)') \cup ((ToTry(r) \ R.kept) \ R.left)
        BY <1>1, <3>1, <3>2, <3>3 DEF AsItWas
      <4>4. \A n \in ToTry(r) \ R.left : (Holds(n))' # Reads
        BY <1>2, <2>7, <3>1 DEF AsItWas
      <4>. QED
        BY <2>1, <2>2, <2>6, <4>1, <4>2, <4>3, <4>4 DEF AsItWas
    <3>. QED
      BY <1>1, <1>2, <2>1, <2>2, <3>1, <3>4 DEF ByItself, Steps
  <2>. QED
    BY <2>1, <2>4, <2>5, <2>6, <2>8, <2>9 DEF Stepped, Stands
<1>4. CASE Turn(r, y) /\ Failed(r) /\ UNCHANGED purged
  <2>1. /\ recovery' = [q \in Recoverers |-> recovery'[q]] /\ recovery'[r] = y
        /\ \A q \in Recoverers \ {r} : recovery'[q] = recovery[q]
    BY <1>4, TurnIs
  <2>2. /\ y \in Records(Now) /\ y.pc = "clear" /\ y.listed = R.listed /\ y.kept = R.kept /\ y.left = R.left
        /\ y.clearing = {} /\ y.damage = R.damage /\ y.unsure = R.unsure
    BY <1>1 DEF Records
  <2>. HIDE DEF y
  <2>3. alone' = alone \ {r}
    BY <1>4 DEF Failed
  <2>4. Kept' /\ Grown
    BY <1>1, <1>4, <2>3, SameFile
  <2>5. InPlace(r)' /\ ToTry(r)' = ToTry(r)
    BY <1>1, <2>1, <2>2, <2>4, MovesOn DEF Records, Tries
  <2>6. ToTry(r) \subseteq 1..Now
    BY <1>1, TryIs
  <2>7. Looked(r)'
    BY <1>1, <1>2, <1>4, <2>1, <2>2, <2>5, <2>6 DEF Looked, Steps
  <2>. QED
    BY <1>1, <1>4, <2>1, <2>3, <2>4, <2>5, <2>7 DEF Stepped, Stands
<1>. QED
  BY <1>3, <1>4 DEF Clear

\* What is tried is there, and what is kept of it not cleared, by itself.
LEMMA TriesWhatIsThere ==
    ASSUME RecoveryInv, NEW r \in alone, recovery[r].pc \in Steps, NEW n \in ToTry(r)
    PROVE  /\ n \in There /\ n \notin Room(r)
           /\ recovery[r].pc = "clear" /\ recovery[r].clearing = {}
                  /\ n \in recovery[r].left /\ n \notin recovery[r].kept =>
                  Cardinality(forever \cap There) < MaxKept
<1>. DEFINE R == recovery[r]
            stay == R.kept \ Room(r)
            come == ToTry(r) \ R.kept
<1>1. Kept /\ InPlace(r) /\ ByItself(r) /\ AsItWas(r) /\ r \in Recoverers
  BY StandingIs, AloneIs DEF ByItself, RecoveryInv
<1>3. /\ Room(r) \cap ToTry(r) = {}
      /\ IsFiniteSet(stay) /\ IsFiniteSet(come)
      /\ Cardinality(stay) \in Nat /\ Cardinality(come) \in Nat
      /\ Cardinality(stay) + Cardinality(come) <= MaxKept
  BY <1>1, RoomIsMade
<1>4. n \in There /\ n \notin Room(r)
  <2>1. n \in R.listed /\ n \in 1..Now
    BY <1>1, TryIs
  <2>2. n \notin purged
    BY <1>1, <1>3, <2>1 DEF AsItWas, Gone
  <2>. QED
    BY <1>1, <1>3, <2>1, <2>2, KeptIs DEF There
<1>5. ASSUME R.pc = "clear", R.clearing = {}, n \in R.left, n \notin R.kept
      PROVE  Cardinality(forever \cap There) < MaxKept
  <2>. DEFINE less == come \ {n}
  <2>1. forever \cap There \subseteq stay \cup less
    BY <1>1, <1>5 DEF AsItWas, Gone
  <2>2. n \in come
    BY <1>5
  <2>. HIDE DEF stay, come
  <2>3. IsFiniteSet(less) /\ Cardinality(less) = Cardinality(come) - 1
    BY <1>3, <2>2, FS_RemoveElement
  <2>. HIDE DEF less
  <2>4. /\ IsFiniteSet(stay \cup less)
        /\ Cardinality(stay \cup less) = Cardinality(stay) + Cardinality(less) - Cardinality(stay \cap less)
    BY <1>3, <2>3, FS_Union
  <2>5. IsFiniteSet(stay \cap less)
    BY <1>3, FS_Intersection
  <2>6. Cardinality(stay \cap less) \in Nat /\ Cardinality(stay \cup less) \in Nat
    BY <2>4, <2>5, FS_CardinalityType
  <2>7. Cardinality(forever \cap There) <= Cardinality(stay \cup less)
    BY <2>1, <2>4, FS_Subset
  <2>8. Cardinality(forever \cap There) \in Nat /\ MaxKept \in Nat
    BY <1>1, KeptIs
  <2>. QED
    BY <1>3, <2>3, <2>4, <2>6, <2>7, <2>8
<1>. QED
  BY <1>4, <1>5

\* One passed over is one that was looked at, or makes the recovery unsure.
LEMMA PassingStands ==
    ASSUME RecoveryInv, NEW r \in Recoverers, recovery[r].pc \in {"clear", "download"},
           recovery[r].left # {}, recovery[r].clearing = {}, UNCHANGED <<made, forever, purged>>,
           NEW x, Turn(r, x), alone' \subseteq alone,
           \/ x = PassedOver(r) /\ (Trying(r) \in purged \/ Holds(Trying(r)) # Reads)
           \/ x = PassedOverUnsure(r),
           r \in alone' => x = PassedOver(r) /\ recovery[r].pc = "download" /\ Holds(Trying(r)) # Reads
    PROVE  Stepped(r)
<1>. DEFINE R == recovery[r]
            n == Trying(r)
<1>1. /\ Kept /\ InPlace(r) /\ Looked(r) /\ (r \in alone => ByItself(r))
      /\ R \in Records(Now) /\ alone \subseteq Recoverers
  BY StandingIs
<1>2. Now' = Now /\ (Holds(Now))' = Holds(Now) /\ There' = There /\ \A m \in 1..Now : (Holds(m))' = Holds(m)
  BY DEF Now, Holds, There
<1>3. /\ recovery' = [q \in Recoverers |-> recovery'[q]] /\ recovery'[r] = x
      /\ \A q \in Recoverers \ {r} : recovery'[q] = recovery[q]
  BY TurnIs
<1>4. n \in R.left /\ R.left \subseteq ToTry(r) /\ ToTry(r) \subseteq 1..Now
  BY <1>1, TryIs DEF InPlace
<1>. HIDE DEF n
<1>5. /\ x \in Records(Now) /\ x.pc = "clear" /\ x.listed = R.listed /\ x.kept = R.kept
      /\ x.left = R.left \ {n} /\ x.clearing = {} /\ x.damage = R.damage
      /\ (x = PassedOver(r) => x.unsure = R.unsure) /\ (x = PassedOverUnsure(r) => x.unsure = TRUE)
  <2>1. PassedOver(r) = [R EXCEPT !.pc = "clear", !.left = @ \ {n}]
    BY DEF PassedOver, n
  <2>2. /\ PassedOver(r) \in Records(Now) /\ PassedOver(r).pc = "clear" /\ PassedOver(r).listed = R.listed
        /\ PassedOver(r).kept = R.kept /\ PassedOver(r).left = R.left \ {n}
        /\ PassedOver(r).clearing = {} /\ PassedOver(r).damage = R.damage
        /\ PassedOver(r).unsure = R.unsure
    BY <1>1, <2>1 DEF Records, Moments, Steps
  <2>. DEFINE y == PassedOver(r)
  <2>. HIDE DEF y
  <2>3. PassedOverUnsure(r) = [y EXCEPT !.unsure = TRUE]
    BY DEF PassedOverUnsure, y
  <2>4. y \in Records(Now)
    BY <2>2 DEF y
  <2>5. /\ PassedOverUnsure(r) \in Records(Now) /\ PassedOverUnsure(r).pc = y.pc
        /\ PassedOverUnsure(r).listed = y.listed
        /\ PassedOverUnsure(r).kept = y.kept /\ PassedOverUnsure(r).left = y.left
        /\ PassedOverUnsure(r).clearing = y.clearing /\ PassedOverUnsure(r).damage = y.damage
        /\ PassedOverUnsure(r).unsure = TRUE
    BY <2>3, <2>4 DEF Records
  <2>6. CASE x = PassedOver(r) /\ x # PassedOverUnsure(r)
    BY <2>2, <2>6
  <2>7. CASE x = PassedOverUnsure(r) /\ x # PassedOver(r)
    BY <2>2, <2>5, <2>7 DEF y
  <2>8. CASE x = PassedOverUnsure(r) /\ x = PassedOver(r)
    BY <2>2, <2>5, <2>8
  <2>. QED
    BY <2>6, <2>7, <2>8
<1>6. Kept' /\ Grown
  BY <1>1, SameFile
<1>7. InPlace(r)' /\ ToTry(r)' = ToTry(r) /\ Room(r)' = Room(r)
  BY <1>1, <1>3, <1>5, <1>6, MovesOn DEF Records, Tries
<1>8. Looked(r)'
  <2>. SUFFICES ASSUME ~x.unsure, NEW m \in ToTry(r) \ x.left PROVE m \in purged \/ Holds(m) # Reads
    BY <1>2, <1>3, <1>4, <1>7 DEF Looked
  <2>1. ~R.unsure /\ (n \in purged \/ Holds(n) # Reads)
    BY <1>5 DEF n
  <2>2. CASE m = n
    BY <2>1, <2>2
  <2>3. CASE m \notin R.left
    BY <1>1, <2>1, <2>3 DEF Looked, Steps
  <2>. QED
    BY <1>5, <2>2, <2>3
<1>9. ASSUME r \in alone' PROVE ByItself(r)'
  <2>1. ByItself(r) /\ AsItWas(r) /\ x.unsure = R.unsure /\ R.pc = "download" /\ Holds(n) # Reads
    BY <1>1, <1>5, <1>9 DEF ByItself, Steps, n
  <2>2. Gone(r) = Room(r) /\ Gone(r)' = Room(r)
    BY <1>3, <1>5, <1>7 DEF Gone
  <2>3. n \notin Room(r)
    BY <1>4, <1>9, <2>1, TriesWhatIsThere DEF Steps
  <2>4. forever' \cap There' \subseteq
            (R.kept \ Gone(r)) \cup ((ToTry(r) \ R.kept) \ x.left)
    <3>1. forever \cap There \subseteq
              (R.kept \ Gone(r)) \cup ((ToTry(r) \ R.kept) \ R.left) \cup {n}
      BY <2>1 DEF AsItWas, n
    <3>2. n \in (R.kept \ Gone(r)) \cup ((ToTry(r) \ R.kept) \ x.left)
      BY <1>4, <1>5, <2>2, <2>3
    <3>. QED
      BY <1>2, <1>5, <3>1, <3>2
  <2>5. \A m \in ToTry(r) \ x.left : (Holds(m))' # Reads
    <3>1. ASSUME NEW m \in ToTry(r) \ x.left PROVE Holds(m) # Reads
      BY <1>5, <2>1 DEF AsItWas
    <3>. QED
      BY <1>2, <1>4, <3>1
  <2>6. Now' \in x.listed /\ purged' \cap x.listed \subseteq Gone(r)
    BY <1>2, <1>5, <2>1 DEF AsItWas
  <2>7. AsItWas(r)'
    BY <1>3, <1>5, <1>7, <2>2, <2>4, <2>5, <2>6 DEF AsItWas
  <2>. QED
    BY <1>2, <1>3, <1>5, <2>1, <2>7 DEF ByItself, Steps
<1>. QED
  BY <1>3, <1>6, <1>7, <1>8, <1>9 DEF Stepped, Stands

\* A recovery stopped, or told that the file has moved on, was not by itself.
LEMMA EndingStands ==
    ASSUME RecoveryInv, NEW r \in Recoverers, NEW word \in Ended \ {"nothing"}, Said(r, word),
           UNCHANGED <<made, forever, purged>>, alone' \subseteq alone,
           r \in alone' => word \notin {"unsure", "stopped", "conflict"}
    PROVE  Stepped(r)
<1>1. Kept /\ alone' \subseteq Recoverers
  BY StandingIs
<1>2. Kept' /\ Grown
  BY <1>1, SameFile
<1>3. Stands(r)'
  BY <1>2, SaidStands
<1>. QED
  BY <1>2, <1>3, TurnIs DEF Stepped, Said

\* A failure ends a recovery or makes it unsure.
LEMMA FailingStands ==
    ASSUME RecoveryInv, NEW r \in Recoverers, Failed(r), UNCHANGED <<made, forever, purged>>,
           \/ Said(r, "stopped")
           \/ /\ recovery[r].pc \in {"clear", "download"}
              /\ recovery[r].left # {} /\ recovery[r].clearing = {} /\ Turn(r, Refused(r))
    PROVE  Stepped(r)
<1>1. alone' \subseteq alone /\ r \notin alone'
  BY DEF Failed
<1>2. CASE Said(r, "stopped")
  BY <1>1, <1>2, EndingStands DEF Ended
<1>3. CASE /\ recovery[r].pc \in {"clear", "download"}
           /\ recovery[r].left # {} /\ recovery[r].clearing = {} /\ Turn(r, Refused(r))
  BY <1>1, <1>3, PassingStands DEF Refused
<1>. QED
  BY <1>2, <1>3

\* One tried that is kept forever, as it was or from now on.
LEMMA KeepingStands ==
    ASSUME RecoveryInv, NEW r \in Recoverers, RoomCleared(r), recovery[r].left # {},
           Turn(r, [recovery[r] EXCEPT !.pc = "download"]), UNCHANGED <<made, purged>>,
           \/ Trying(r) \in recovery[r].kept /\ UNCHANGED <<forever, alone>>
           \/ /\ Trying(r) \in There /\ Crossed(r) /\ forever' = forever \cup {Trying(r)}
              /\ Trying(r) \in forever \/ Cardinality(forever \cap There) < MaxKept
    PROVE  Stepped(r)
<1>. DEFINE R == recovery[r]
            n == Trying(r)
            x == [R EXCEPT !.pc = "download"]
<1>1. /\ Kept /\ InPlace(r) /\ Looked(r) /\ (r \in alone => ByItself(r))
      /\ R \in Records(Now) /\ alone \subseteq Recoverers /\ R.pc = "clear" /\ R.clearing = {}
  BY StandingIs DEF RoomCleared
<1>2. Now' = Now /\ (Holds(Now))' = Holds(Now) /\ There' = There /\ \A m \in 1..Now : (Holds(m))' = Holds(m)
  BY DEF Now, Holds, There
<1>3. /\ recovery' = [q \in Recoverers |-> recovery'[q]] /\ recovery'[r] = x
      /\ \A q \in Recoverers \ {r} : recovery'[q] = recovery[q]
  BY TurnIs
<1>4. n \in R.left /\ R.left \subseteq ToTry(r) /\ ToTry(r) \subseteq 1..Now /\ n < Now /\ Now \in Nat
  BY <1>1, TryIs, KeptIs DEF InPlace
<1>5. /\ x \in Records(Now) /\ x.pc = "download" /\ x.listed = R.listed /\ x.kept = R.kept
      /\ x.left = R.left /\ x.clearing = {} /\ x.damage = R.damage /\ x.unsure = R.unsure
  BY <1>1 DEF Records, Moments, Steps
<1>6. Trying(r)' = n
  BY <1>3, <1>5 DEF Trying
<1>. HIDE DEF n, x
<1>7. /\ alone' \subseteq alone /\ forever' \subseteq forever \cup {n}
      /\ \A q \in alone' : q = r \/ recovery[q].pc \in Ended \/ UNCHANGED <<made, forever, purged>>
  BY DEF Crossed, n
<1>8. Kept' /\ Grown
  <2>1. CASE UNCHANGED forever
    BY <1>1, <1>7, <2>1, SameFile
  <2>2. CASE /\ n \in There /\ forever' = forever \cup {n}
             /\ n \in forever \/ Cardinality(forever \cap There) < MaxKept
    <3>1. n # Now
      BY <1>4
    <3>. QED
      BY <1>1, <1>7, <2>2, <3>1, KeptForGood
  <2>. QED
    BY <2>1, <2>2 DEF n
<1>9. InPlace(r)' /\ ToTry(r)' = ToTry(r) /\ Room(r)' = Room(r)
  BY <1>1, <1>3, <1>5, <1>8, MovesOn DEF Records
<1>10. Looked(r)'
  BY <1>1, <1>2, <1>3, <1>4, <1>5, <1>9 DEF Looked, Steps
<1>11. ASSUME r \in alone' PROVE ByItself(r)'
  <2>1. ByItself(r) /\ AsItWas(r)
    BY <1>1, <1>7, <1>11 DEF ByItself, Steps
  <2>2. Gone(r)' = Gone(r)
    BY <1>1, <1>3, <1>5, <1>9 DEF Gone
  <2>3. AsItWas(r)'
    <3>1. forever' \cap There' \subseteq
              (R.kept \ Gone(r)) \cup ((ToTry(r) \ R.kept) \ R.left) \cup {n}
      BY <1>1, <1>2, <1>7, <2>1 DEF AsItWas
    <3>2. \A m \in ToTry(r) \ R.left : (Holds(m))' # Reads
      BY <1>2, <1>4, <2>1 DEF AsItWas
    <3>3. Now' \in R.listed /\ purged' \cap R.listed \subseteq Gone(r)
      BY <1>2, <2>1 DEF AsItWas
    <3>. QED
      BY <1>3, <1>5, <1>6, <1>9, <2>2, <3>1, <3>2, <3>3 DEF AsItWas
  <2>. QED
    BY <1>1, <1>2, <1>3, <1>5, <2>1, <2>3 DEF ByItself, Steps
<1>. QED
  BY <1>3, <1>7, <1>8, <1>9, <1>10, <1>11 DEF Stepped, Stands

LEMMA KeepForGoodStands == ASSUME RecoveryInv, NEW r \in Recoverers, KeepForGood(r) PROVE Stepped(r)
<1>. DEFINE n == Trying(r)
            x == [recovery[r] EXCEPT !.pc = "download"]
<1>1. /\ RoomCleared(r) /\ recovery[r].left # {} /\ UNCHANGED <<made, purged>>
      /\ recovery[r].pc = "clear" /\ recovery[r].clearing = {} /\ Kept /\ InPlace(r)
      /\ (r \in alone => ByItself(r))
  BY StandingIs DEF KeepForGood, RoomCleared
<1>2. n \in recovery[r].left /\ n \in ToTry(r) /\ n \in DOMAIN made
  BY <1>1, TryIs, KeptIs DEF InPlace
<1>3. r \in alone => n \in There /\ (n \notin recovery[r].kept => Cardinality(forever \cap There) < MaxKept)
  BY <1>1, <1>2, TriesWhatIsThere DEF Steps
<1>4. ASSUME Turn(r, x), \/ n \in recovery[r].kept /\ UNCHANGED <<forever, alone>>
                        \/ /\ n \in There /\ Crossed(r) /\ forever' = forever \cup {n}
                           /\ n \in forever \/ Cardinality(forever \cap There) < MaxKept
      PROVE  Stepped(r)
  BY <1>1, <1>4, KeepingStands
<1>5. ASSUME n \notin There, Turn(r, PassedOver(r)), UNCHANGED <<forever, alone>> PROVE Stepped(r)
  <2>1. n \in purged /\ r \notin alone
    BY <1>2, <1>3, <1>5 DEF There
  <2>. QED
    BY <1>1, <1>5, <2>1, PassingStands
<1>6. ASSUME n \notin recovery[r].kept, Cardinality(forever \cap There) >= MaxKept,
             Turn(r, Refused(r)), UNCHANGED <<forever, alone>>
      PROVE  Stepped(r)
  <2>1. Cardinality(forever \cap There) \in Nat /\ MaxKept \in Nat
    BY <1>1, KeptIs
  <2>2. r \notin alone
    BY <1>3, <1>6, <2>1
  <2>. QED
    BY <1>1, <1>6, <2>2, PassingStands DEF Refused
<1>7. ASSUME Said(r, "stopped") \/ Turn(r, Refused(r)), Failed(r), UNCHANGED forever PROVE Stepped(r)
  BY <1>1, <1>7, FailingStands
<1>. QED
  BY <1>4, <1>5, <1>6, <1>7 DEF KeepForGood

\* A recovery that found what reads goes on to put it back.
LEMMA GoesOn ==
    ASSUME RecoveryInv, NEW r \in Recoverers, recovery[r].pc \in {"download", "restore"},
           NEW word \in {"restore", "upload"}, Turn(r, [recovery[r] EXCEPT !.pc = word]),
           UNCHANGED <<made, forever, purged, alone>>
    PROVE  Stepped(r)
<1>. DEFINE R == recovery[r]
            x == [R EXCEPT !.pc = word]
<1>1. /\ Kept /\ InPlace(r) /\ Looked(r) /\ (r \in alone => ByItself(r))
      /\ R \in Records(Now) /\ alone \subseteq Recoverers /\ R.clearing = {} /\ R.left # {}
  BY StandingIs DEF InPlace, Tries
<1>2. Now' = Now /\ (Holds(Now))' = Holds(Now) /\ There' = There /\ \A m \in 1..Now : (Holds(m))' = Holds(m)
  BY DEF Now, Holds, There
<1>3. /\ recovery' = [q \in Recoverers |-> recovery'[q]] /\ recovery'[r] = x
      /\ \A q \in Recoverers \ {r} : recovery'[q] = recovery[q]
  BY TurnIs
<1>4. ToTry(r) \subseteq 1..Now
  BY <1>1, TryIs
<1>5. /\ x \in Records(Now) /\ x.pc = word /\ x.listed = R.listed /\ x.kept = R.kept
      /\ x.left = R.left /\ x.clearing = {} /\ x.damage = R.damage /\ x.unsure = R.unsure
  BY <1>1 DEF Records, Moments, Steps
<1>. HIDE DEF x
<1>6. Kept' /\ Grown
  BY <1>1, SameFile
<1>7. InPlace(r)' /\ ToTry(r)' = ToTry(r) /\ Room(r)' = Room(r)
  BY <1>1, <1>3, <1>5, <1>6, MovesOn DEF Records
<1>8. Looked(r)'
  BY <1>1, <1>2, <1>3, <1>4, <1>5, <1>7 DEF Looked, Steps
<1>9. ASSUME r \in alone PROVE ByItself(r)'
  <2>1. ByItself(r) /\ AsItWas(r)
    BY <1>1, <1>9 DEF ByItself, Steps
  <2>2. Gone(r)' = Gone(r) /\ Trying(r)' = Trying(r)
    BY <1>1, <1>3, <1>5, <1>7 DEF Gone, Trying
  <2>3. AsItWas(r)'
    <3>1. \A m \in ToTry(r) \ R.left : (Holds(m))' # Reads
      BY <1>2, <1>4, <2>1 DEF AsItWas
    <3>. QED
      BY <1>2, <1>3, <1>5, <1>7, <2>1, <2>2, <3>1 DEF AsItWas
  <2>. QED
    <3>1. word \notin {"unsure", "stopped", "conflict"}
      OBVIOUS
    <3>2. Holds(Now) = R.damage /\ R.damage \in Damages /\ ~R.unsure
      BY <2>1 DEF ByItself, Steps
    <3>. QED
      BY <1>2, <1>3, <1>5, <2>3, <3>1, <3>2 DEF ByItself
<1>. QED
  BY <1>3, <1>6, <1>7, <1>8, <1>9 DEF Stepped, Stands

LEMMA DownloadStands == ASSUME RecoveryInv, NEW r \in Recoverers, Download(r) PROVE Stepped(r)
<1>. DEFINE n == Trying(r)
<1>1. /\ recovery[r].pc = "download" /\ UNCHANGED <<made, forever, purged>> /\ Kept /\ InPlace(r)
      /\ recovery[r].left # {} /\ recovery[r].clearing = {} /\ (r \in alone => ByItself(r))
  BY StandingIs DEF Download, InPlace, Tries
<1>2. n \in ToTry(r) /\ n \in DOMAIN made
  BY <1>1, TryIs, KeptIs DEF InPlace
<1>3. CASE n \in There /\ Holds(n) = Reads /\ UNCHANGED alone /\ Turn(r, [recovery[r] EXCEPT !.pc = "restore"])
  BY <1>1, <1>3, GoesOn
<1>4. CASE ~(n \in There /\ Holds(n) = Reads) /\ UNCHANGED alone /\ Turn(r, PassedOver(r))
  <2>1. n \in purged \/ Holds(n) # Reads
    BY <1>2, <1>4 DEF There
  <2>2. r \in alone => n \in There
    BY <1>1, <1>2, TriesWhatIsThere DEF Steps
  <2>. QED
    BY <1>1, <1>4, <2>1, <2>2, PassingStands
<1>5. CASE (Said(r, "stopped") \/ Turn(r, Refused(r))) /\ Failed(r)
  BY <1>1, <1>5, FailingStands
<1>. QED
  BY <1>3, <1>4, <1>5 DEF Download

LEMMA NothingReadsStands == ASSUME RecoveryInv, NEW r \in Recoverers, NothingReads(r) PROVE Stepped(r)
<1>. DEFINE R == recovery[r]
            x == [R EXCEPT !.pc = "nothing"]
<1>1. /\ Kept /\ InPlace(r) /\ Looked(r) /\ (r \in alone => ByItself(r))
      /\ R \in Records(Now) /\ alone \subseteq Recoverers /\ R.pc = "clear" /\ R.left = {}
      /\ UNCHANGED <<made, forever, purged, alone>>
  BY StandingIs DEF NothingReads, RoomCleared
<1>2. CASE R.unsure
  <2>1. r \notin alone /\ Said(r, "unsure")
    BY <1>1, <1>2 DEF NothingReads, ByItself, Steps
  <2>. QED
    BY <1>1, <2>1, EndingStands DEF Ended
<1>3. CASE ~R.unsure
  <2>1. Turn(r, x)
    BY <1>3 DEF NothingReads, Said
  <2>2. /\ recovery' = [q \in Recoverers |-> recovery'[q]] /\ recovery'[r] = x
        /\ \A q \in Recoverers \ {r} : recovery'[q] = recovery[q]
    BY <2>1, TurnIs
  <2>3. /\ x \in Records(Now) /\ x.pc = "nothing" /\ x.listed = R.listed /\ x.kept = R.kept
        /\ x.left = {} /\ x.clearing = R.clearing /\ x.unsure = FALSE
    <3>1. "nothing" \in Moments /\ R.unsure = FALSE
      BY <1>1, <1>3 DEF Moments, Ended, Records
    <3>. QED
      BY <1>1, <3>1 DEF Records
  <2>. HIDE DEF x
  <2>4. Kept' /\ Grown
    BY <1>1, SameFile
  <2>5. InPlace(r)' /\ ToTry(r)' = ToTry(r)
    BY <1>1, <2>2, <2>3, <2>4, MovesOn DEF Records, Tries
  <2>6. ToTry(r) \subseteq 1..Now /\ \A m \in 1..Now : (Holds(m))' = Holds(m)
    BY <1>1, TryIs DEF Holds
  <2>7. Looked(r)'
    BY <1>1, <1>3, <2>2, <2>3, <2>5, <2>6 DEF Looked, Steps
  <2>8. r \in alone' => ByItself(r)'
    BY <2>2, <2>3 DEF ByItself, Steps
  <2>. QED
    BY <1>1, <2>2, <2>4, <2>5, <2>7, <2>8 DEF Stepped, Stands
<1>. QED
  BY <1>2, <1>3

LEMMA ReadAgainStands == ASSUME RecoveryInv, NEW r \in Recoverers, ReadAgain(r) PROVE Stepped(r)
<1>1. /\ recovery[r].pc = "restore" /\ UNCHANGED <<made, forever, purged>> /\ (r \in alone => ByItself(r))
  BY StandingIs DEF ReadAgain
<1>2. CASE Holds(Now) = recovery[r].damage /\ Said(r, "upload") /\ UNCHANGED alone
  BY <1>1, <1>2, GoesOn DEF Said
<1>3. CASE Holds(Now) # recovery[r].damage /\ Said(r, "conflict") /\ UNCHANGED alone
  <2>1. r \notin alone
    BY <1>1, <1>3 DEF ByItself, Steps
  <2>. QED
    BY <1>1, <1>3, <2>1, EndingStands DEF Ended
<1>4. CASE Said(r, "stopped") /\ Failed(r)
  BY <1>1, <1>4, FailingStands
<1>. QED
  BY <1>2, <1>3, <1>4 DEF ReadAgain

LEMMA UploadStands == ASSUME RecoveryInv, NEW r \in Recoverers, Upload(r) PROVE Stepped(r)
<1>1. Kept /\ alone \subseteq Recoverers /\ UNCHANGED <<forever, purged>>
  BY StandingIs DEF Upload
<1>2. CASE Said(r, "stopped") /\ Failed(r) /\ UNCHANGED made
  BY <1>1, <1>2, FailingStands
<1>3. CASE Said(r, "restored") /\ Crossed(r) /\ made' = Append(made, [holds |-> Reads, ofItsDay |-> FALSE])
  <2>1. alone' \subseteq alone /\ \A q \in alone' : q = r \/ recovery[q].pc \in Ended
    BY <1>3 DEF Crossed
  <2>2. Kept' /\ Grown
    <3>1. [holds |-> Reads, ofItsDay |-> FALSE] \in [holds : Damages \cup {Reads}, ofItsDay : BOOLEAN]
      OBVIOUS
    <3>. QED
      BY <1>1, <1>3, <2>1, <3>1, MadeMore
  <2>3. Stands(r)'
    BY <1>3, <2>2, SaidStands DEF Ended
  <2>. QED
    BY <1>3, <2>1, <2>2, <2>3, TurnIs DEF Stepped, Said
<1>. QED
  BY <1>2, <1>3 DEF Upload

LEMMA RecoveryBegins == ASSUME RecoveryInit PROVE RecoveryInv
<1>. DEFINE e == [holds |-> Reads, ofItsDay |-> TRUE]
<1>1. made = <<e>> /\ forever = {1} /\ purged = {} /\ alone = Recoverers
  BY DEF RecoveryInit
<1>2. Now = 1 /\ DOMAIN made = {1} /\ made # <<>> /\ Holds(Now) = Reads
  BY <1>1 DEF Now, Holds
<1>3. made \in Seq([holds : Damages \cup {Reads}, ofItsDay : BOOLEAN])
  <2>1. e \in [holds : Damages \cup {Reads}, ofItsDay : BOOLEAN]
    OBVIOUS
  <2>. HIDE DEF e
  <2>. QED
    BY <1>1, <2>1
<1>4. Cardinality(forever \cap There) <= MaxKept
  <2>1. forever \cap There = {1}
    BY <1>1, <1>2 DEF There
  <2>2. Cardinality({1}) = 1 /\ MaxKept \in Nat \ {0}
    BY FS_Singleton, RecoveryHasBounds
  <2>. QED
    BY <2>1, <2>2
<1>5. Kept
  BY <1>1, <1>2, <1>3, <1>4 DEF Kept, RecoveryTypeOK
<1>6. recovery = [r \in Recoverers |-> AtRest]
  BY DEF RecoveryInit
<1>7. ASSUME NEW r \in Recoverers PROVE Stands(r)
  <2>1. /\ recovery[r].pc = "idle" /\ recovery[r].listed = {} /\ recovery[r].kept = {}
        /\ recovery[r].clearing = {} /\ recovery[r].left = {}
    BY <1>6 DEF AtRest
  <2>2. recovery[r] \in Records(Now)
    <3>1. "idle" \in Moments /\ "" \in Damages \cup {""} /\ {} \in SUBSET (1..Now)
      BY DEF Moments, Ended
    <3>2. recovery[r] = AtRest
      BY <1>6
    <3>3. AtRest \in Records(Now)
      BY <3>1 DEF AtRest, Records
    <3>. QED
      BY <3>2, <3>3
  <2>3. InPlace(r)
    BY <2>1, <2>2 DEF InPlace, Tries
  <2>4. Looked(r) /\ ByItself(r)
    BY <2>1 DEF Looked, ByItself, Steps
  <2>. QED
    BY <2>3, <2>4 DEF Stands
<1>. QED
  BY <1>5, <1>6, <1>7 DEF RecoveryInv

\* What others do to the file no recovery is in.
LEMMA AroundThem ==
    ASSUME RecoveryInv, Kept', Grown, UNCHANGED recovery,
           alone' = {q \in alone : recovery[q].pc \in Ended}
    PROVE  RecoveryInv'
<1>1. ASSUME NEW r \in Recoverers PROVE Stands(r)'
  BY OthersLeave DEF RecoveryInv
<1>. QED
  BY <1>1 DEF RecoveryInv

LEMMA RecoveryKeeps == RecoveryInv /\ [RecoveryNext]_recovery_vars => RecoveryInv'
<1>. SUFFICES ASSUME RecoveryInv, [RecoveryNext]_recovery_vars PROVE RecoveryInv'
  OBVIOUS
<1>1. Kept /\ alone \subseteq Recoverers
  BY AloneIs DEF RecoveryInv
<1>2. ASSUME NEW r \in Recoverers,
             Begin(r) \/ List(r) \/ Clear(r) \/ KeepForGood(r) \/ Download(r) \/ NothingReads(r)
                 \/ ReadAgain(r) \/ Upload(r)
      PROVE  RecoveryInv'
  <2>1. Stepped(r)
    BY <1>2, BeginStands, ListStands, ClearStands, KeepForGoodStands, DownloadStands,
       NothingReadsStands, ReadAgainStands, UploadStands
  <2>. QED
    BY <2>1, SteppedHolds
<1>3. ASSUME NEW ofItsDay \in BOOLEAN, Write(ofItsDay) PROVE RecoveryInv'
  <2>. DEFINE e == [holds |-> Reads, ofItsDay |-> ofItsDay]
  <2>1. /\ e \in [holds : {Reads}, ofItsDay : BOOLEAN]
        /\ e \in [holds : Damages \cup {Reads}, ofItsDay : BOOLEAN]
    OBVIOUS
  <2>2. /\ made' = Append(made, e) /\ UNCHANGED <<purged, recovery>>
        /\ alone' = {q \in alone : recovery[q].pc \in Ended} /\ alone' \subseteq Recoverers
    BY <1>1, <1>3 DEF Write
  <2>. HIDE DEF e
  <2>3. CASE Cardinality(forever \cap There) < MaxKept /\ forever' = forever \cup {Now + 1}
    BY <1>1, <2>1, <2>2, <2>3, MadeForItsDay, AroundThem
  <2>4. CASE UNCHANGED forever
    BY <1>1, <2>1, <2>2, <2>4, MadeMore, AroundThem
  <2>. QED
    BY <1>3, <2>3, <2>4 DEF Write
<1>4. CASE Damage
  <2>1. PICK holds \in Damages : made' = Append(made, [holds |-> holds, ofItsDay |-> FALSE])
    BY <1>4 DEF Damage
  <2>. DEFINE e == [holds |-> holds, ofItsDay |-> FALSE]
  <2>2. e \in [holds : Damages \cup {Reads}, ofItsDay : BOOLEAN]
    OBVIOUS
  <2>3. /\ made' = Append(made, e) /\ UNCHANGED <<forever, purged, recovery>>
        /\ alone' = {q \in alone : recovery[q].pc \in Ended} /\ alone' \subseteq Recoverers
    BY <1>1, <1>4, <2>1 DEF Damage
  <2>. HIDE DEF e
  <2>. QED
    BY <1>1, <2>2, <2>3, MadeMore, AroundThem
<1>5. CASE Purge
  <2>1. PICK n \in There \ (forever \cup {Now}) : purged' = purged \cup {n}
    BY <1>5 DEF Purge
  <2>2. n \in DOMAIN made /\ n # Now
    BY DEF There
  <2>3. /\ UNCHANGED <<made, forever, recovery>>
        /\ alone' = {q \in alone : recovery[q].pc \in Ended} /\ alone' \subseteq Recoverers
    BY <1>1, <1>5 DEF Purge
  <2>. QED
    BY <1>1, <2>1, <2>2, <2>3, Forgone, AroundThem
<1>6. CASE UNCHANGED recovery_vars
  <2>1. Kept' /\ Grown /\ UNCHANGED <<made, forever, purged, recovery, alone>>
    BY <1>1, <1>6, SameFile DEF recovery_vars
  <2>2. ASSUME NEW r \in Recoverers PROVE Stands(r)'
    BY <1>1, <2>1, OthersLeave DEF RecoveryInv
  <2>. QED
    BY <2>1, <2>2 DEF RecoveryInv
<1>. QED
  BY <1>2, <1>3, <1>4, <1>5, <1>6 DEF RecoveryNext

\* However recoveries meet, fail and are made again, and whatever is written, damaged
\* and purged beside them, a profile is said not to read only where every state
\* that was to be tried was looked at; and a recovery by itself has room for each and
\* puts back the latest that reads (recover, candidates, makeRoom, earlier, restore).
THEOREM RecoveriesHold == RecoverySpec => []RecoveryHolds
<1>1. RecoveryInv => RecoveryHolds
  <2>. SUFFICES ASSUME RecoveryInv PROVE RecoveryHolds
    OBVIOUS
  <2>1. RecoveryTypeOK
    BY DEF RecoveryInv, Kept
  <2>2. NothingSaidUnlessLooked
    BY StandingIs DEF NothingSaidUnlessLooked, InPlace, Looked
  <2>3. AloneItMends
    <3>1. ASSUME NEW r \in alone PROVE recovery[r].pc \notin {"unsure", "stopped", "conflict"}
      BY <2>1, StandingIs DEF ByItself, RecoveryTypeOK
    <3>2. ASSUME NEW r \in alone, recovery[r].pc \in {"restore", "upload"},
                 NEW n \in ToTry(r), n > Trying(r)
          PROVE  Holds(n) # Reads
      <4>1. r \in Recoverers
        BY <2>1 DEF RecoveryTypeOK
      <4>2. Kept /\ InPlace(r) /\ AsItWas(r) /\ Now \in Nat
        BY <3>2, <4>1, StandingIs, KeptIs DEF ByItself, Steps
      <4>3. \A m \in recovery[r].left : m <= Trying(r)
        BY <4>1, <4>2, TryIs
      <4>4. n \in Nat /\ Trying(r) \in Nat
        <5>1. recovery[r].left # {} /\ recovery[r].left \subseteq ToTry(r)
          BY <3>2, <4>2 DEF InPlace, Tries
        <5>2. Trying(r) \in ToTry(r) /\ n \in ToTry(r)
          BY <3>2, <4>1, <4>2, <5>1, TryIs
        <5>3. \A m \in ToTry(r) : m \in 1..Now
          BY <4>1, <4>2, TryIs
        <5>. QED
          BY <4>2, <5>2, <5>3
      <4>5. n \notin recovery[r].left
        BY <3>2, <4>3, <4>4
      <4>. QED
        BY <4>2, <4>5 DEF AsItWas
    <3>. QED
      BY <3>1, <3>2 DEF AloneItMends
  <2>. QED
    BY <2>1, <2>2, <2>3 DEF RecoveryHolds
<1>. QED
  BY <1>1, RecoveryBegins, RecoveryKeeps, PTL DEF RecoverySpec

\* Whatever runs beside it, a recovery deletes nothing it is to try to make room, and
\* nothing another is to try unless as many later ones are kept as Drive keeps,
\* less those tried (makeRoom).
THEOREM TriedStay == RecoverySpec => TriedAreNotDeleted
<1>1. ASSUME RecoveryInv, NEW q \in Recoverers, NEW r \in Recoverers, Clear(q),
             NEW n \in (purged' \ purged) \cap ToTry(r)
      PROVE  q # r /\ Cardinality({m \in recovery[q].kept : m > n}) >= MaxKept - Recent
  <2>1. Kept /\ InPlace(q) /\ recovery[q].clearing # {}
    BY <1>1, StandingIs DEF Clear
  <2>2. n = Min(recovery[q].clearing)
    BY <1>1 DEF Clear
  <2>3. n \in Room(q)
    BY <2>1, <2>2, TryIs DEF InPlace
  <2>. QED
    BY <2>1, <2>3, RoomIsMade
<1>2. RecoveryInv => [\A q, r \in Recoverers : Clear(q) =>
          \A n \in (purged' \ purged) \cap ToTry(r) :
              /\ q # r
              /\ Cardinality({m \in recovery[q].kept : m > n}) >= MaxKept - Recent]_recovery_vars
  BY <1>1
<1>. QED
  BY <1>2, RecoveryBegins, RecoveryKeeps, PTL DEF RecoverySpec, TriedAreNotDeleted

-----------------------------------------------------------------------------

(***************************************************************************)
(* The ideas of a list (Ideas): an idea named is one that may be given yet *)
(* when its task reaches the child, since nothing else is given before.    *)
(***************************************************************************)

Longest == Max(Lengths)
Shortest == Min(Lengths)

\* Every build's ideas were given in the round.
RoundIsThrough == 1..Shortest \subseteq ToSet(givenIdeas)

\* An idea named is left in the round, or begins the next.
IsNamed(idea) ==
    /\ idea \in [number : 1..Longest, round : 1..MaxRound]
    /\ \/ idea.round = round /\ idea.number \notin ToSet(givenIdeas)
       \/ /\ idea.round = round + 1
          /\ givenIdeas # <<>> => idea.number # Last(givenIdeas) /\ RoundIsThrough

\* How often each idea every build has was given: once more if it was in this round.
TurnsAre(rounds) ==
    \A i \in 1..Shortest : times[i] = IF i \in ToSet(givenIdeas) THEN rounds + 1 ELSE rounds

IdeasInv ==
    /\ IdeasTypeOK
    /\ last \in 0..Longest /\ (last # 0 => givenIdeas # <<>> /\ last = Last(givenIdeas))
    /\ times \in [1..Longest -> Nat]
    /\ open = NoTask \/ ready = NoTask
    /\ \A idea \in {open, ready} : idea \in {NoTask, NoIdea} \/ IsNamed(idea)
    /\ \E rounds \in Nat : TurnsAre(rounds)

LEMMA ListsAre ==
    /\ Longest \in Lengths /\ \A n \in Lengths : n \in Nat /\ 2 <= n /\ n <= Longest
    /\ Shortest \in Lengths /\ \A n \in Lengths : Shortest <= n
    /\ MaxRound \in Nat
<1>1. Lengths # {} /\ Lengths \subseteq Nat \ {0, 1} /\ MaxRound \in Nat
  BY ListsHaveIdeas
<1>2. PICK longest \in Lengths : \A n \in Lengths : n <= longest
  BY OneIsTheLongest
<1>3. longest \in Nat /\ Lengths \in SUBSET (0..longest) /\ Lengths \in SUBSET Nat
  BY <1>1, <1>2
<1>4. Longest \in Lengths /\ \A n \in Lengths : n <= Longest
  BY <1>1, <1>3, GreatestIs DEF Longest
<1>5. Shortest \in Lengths /\ \A n \in Lengths : Shortest <= n
  BY <1>1, <1>3, LeastIs DEF Shortest
<1>6. \A n \in Lengths : n \in Nat /\ 2 <= n
  BY <1>1
<1>. QED
  BY <1>1, <1>4, <1>5, <1>6

LEMMA GivenAre ==
    ASSUME IdeasTypeOK
    PROVE  /\ givenIdeas \in Seq(1..Longest) /\ Len(givenIdeas) \in Nat
           /\ ToSet(givenIdeas) \subseteq 1..Longest
           /\ (givenIdeas # <<>> => Last(givenIdeas) \in ToSet(givenIdeas))
           /\ (givenIdeas = <<>> => ToSet(givenIdeas) = {})
           /\ round \in Nat /\ length \in Lengths /\ length \in Nat
<1>1. givenIdeas \in Seq(1..Longest) /\ round \in 0..MaxRound /\ length \in Lengths
  BY DEF IdeasTypeOK, Longest
<1>2. Len(givenIdeas) \in Nat /\ DOMAIN givenIdeas = 1..Len(givenIdeas)
  BY <1>1
<1>3. \A n \in 1..Len(givenIdeas) : givenIdeas[n] \in 1..Longest
  <2>. DEFINE ideas == 1..Longest
  <2>1. givenIdeas \in Seq(ideas)
    BY <1>1
  <2>. HIDE DEF ideas
  <2>2. \A n \in 1..Len(givenIdeas) : givenIdeas[n] \in ideas
    BY <2>1
  <2>. QED
    BY <2>2 DEF ideas
<1>4. ToSet(givenIdeas) \subseteq 1..Longest
  BY <1>2, <1>3 DEF ToSet
<1>5. givenIdeas # <<>> => Last(givenIdeas) \in ToSet(givenIdeas)
  <2>1. givenIdeas # <<>> => Len(givenIdeas) \in 1..Len(givenIdeas)
    BY <1>1, <1>2
  <2>. QED
    BY <1>2, <2>1 DEF ToSet, Last
<1>6. givenIdeas = <<>> => ToSet(givenIdeas) = {}
  BY DEF ToSet
<1>. QED
  BY <1>1, <1>2, <1>4, <1>5, <1>6, ListsAre

\* What NextIdea names is left in the round or begins the next one.
LEMMA NextAreNamed ==
    ASSUME IdeasTypeOK, NEW idea \in NextIdeas, idea.round <= MaxRound
    PROVE  IsNamed(idea) /\ idea.number \in 1..length
<1>. DEFINE on == Max({round, 1})  left == IdeasBut(ToSet(givenIdeas))
<1>1. /\ round \in Nat /\ length \in Nat /\ 2 <= length /\ length <= Longest /\ Shortest <= length
      /\ Longest \in Nat /\ Shortest \in Nat /\ MaxRound \in Nat
      /\ ToSet(givenIdeas) \subseteq 1..Longest
      /\ (givenIdeas = <<>> => ToSet(givenIdeas) = {})
  BY GivenAre, ListsAre
<1>2. round = 0 <=> givenIdeas = <<>>
  BY DEF IdeasTypeOK
<1>3. on \in Nat /\ on = IF round = 0 THEN 1 ELSE round
  <2>1. {round, 1} \in SUBSET (0..round + 1) /\ {round, 1} # {} /\ round + 1 \in Nat
    BY <1>1
  <2>2. on \in {round, 1} /\ \A n \in {round, 1} : n <= on
    BY ONLY <2>1, GreatestIs
  <2>. QED
    BY <1>1, <2>2
<1>4. left = (1..length) \ ToSet(givenIdeas)
  BY DEF IdeasBut
<1>. HIDE DEF on, left
<1>5. ASSUME NEW i \in left, idea = [number |-> i, round |-> on]
      PROVE  IsNamed(idea) /\ idea.number \in 1..length
  <2>1. /\ idea.number = i /\ idea.round = on /\ i \in 1..length /\ i \notin ToSet(givenIdeas)
        /\ i \in 1..Longest /\ on \in 1..MaxRound
    BY <1>1, <1>3, <1>4, <1>5
  <2>2. idea \in [number : 1..Longest, round : 1..MaxRound]
    BY <1>5, <2>1
  <2>3. CASE round = 0
    BY <1>1, <1>2, <1>3, <2>1, <2>2, <2>3 DEF IsNamed
  <2>4. CASE round # 0
    BY <1>3, <2>1, <2>2, <2>4 DEF IsNamed
  <2>. QED
    BY <2>1, <2>3, <2>4
<1>6. ASSUME left = {}, NEW i \in NewRoundsFirst, idea = [number |-> i, round |-> on + 1]
      PROVE  IsNamed(idea) /\ idea.number \in 1..length
  <2>1. 1..length \subseteq ToSet(givenIdeas) /\ RoundIsThrough
    <3>1. 1..length \subseteq ToSet(givenIdeas)
      BY <1>4, <1>6
    <3>2. 1..Shortest \subseteq 1..length
      BY <1>1
    <3>. QED
      BY <3>1, <3>2 DEF RoundIsThrough
  <2>2. givenIdeas # <<>> /\ round # 0
    <3>1. 1 \in ToSet(givenIdeas)
      BY <1>1, <2>1
    <3>. QED
      BY <1>1, <1>2, <3>1
  <2>3. i \in 1..length /\ i # Last(givenIdeas)
    <3>. DEFINE but == (1..length) \ {Last(givenIdeas)}
    <3>1. 1 \in 1..length /\ 2 \in 1..length
      BY <1>1
    <3>2. but # {}
      BY <3>1
    <3>3. NewRoundsFirst = but
      BY <3>2 DEF NewRoundsFirst, IdeasBut
    <3>. QED
      BY <1>6, <3>3
  <2>4. idea.number = i /\ idea.round = round + 1 /\ i \in 1..Longest /\ round + 1 \in 1..MaxRound
    BY <1>1, <1>3, <1>6, <2>2, <2>3
  <2>5. idea \in [number : 1..Longest, round : 1..MaxRound]
    BY <1>3, <1>6, <2>2, <2>4
  <2>. QED
    BY <2>1, <2>3, <2>4, <2>5 DEF IsNamed
<1>7. idea \in IF left # {} THEN {[number |-> i, round |-> on] : i \in left}
               ELSE {[number |-> i, round |-> on + 1] : i \in NewRoundsFirst}
  BY DEF NextIdeas, on, left
<1>. QED
  BY <1>5, <1>6, <1>7

LEMMA EndsWith ==
    ASSUME NEW S, NEW s \in Seq(S), NEW x \in S
    PROVE  /\ Append(s, x) \in Seq(S) /\ Len(Append(s, x)) = Len(s) + 1
           /\ \A n \in 1..Len(s) : Append(s, x)[n] = s[n]
           /\ Append(s, x)[Len(s) + 1] = x
           /\ DOMAIN Append(s, x) = 1..Len(s) + 1 /\ DOMAIN s = 1..Len(s) /\ Len(s) \in Nat
  OBVIOUS

LEMMA OneMoreAtTheEnd ==
    ASSUME NEW S, NEW seq \in Seq(S), NEW x \in S
    PROVE  /\ Append(seq, x) \in Seq(S) /\ Append(seq, x) # <<>> /\ Last(Append(seq, x)) = x
           /\ Len(Append(seq, x)) = Len(seq) + 1
           /\ \A n \in 1..Len(seq) : Append(seq, x)[n] = seq[n]
           /\ Append(seq, x)[Len(seq) + 1] = x
<1>1. /\ Append(seq, x) \in Seq(S) /\ Len(Append(seq, x)) = Len(seq) + 1
      /\ \A n \in 1..Len(seq) : Append(seq, x)[n] = seq[n]
      /\ Append(seq, x)[Len(seq) + 1] = x
  BY EndsWith
<1>2. Len(seq) \in Nat
  OBVIOUS
<1>3. Append(seq, x) # <<>>
  BY <1>1, <1>2
<1>4. Last(Append(seq, x)) = x
  BY <1>1 DEF Last
<1>. QED
  BY <1>1, <1>3, <1>4

\* An idea that may be given yet is another than the last, and the ideas every
\* build has go on taking equal turns with it.
LEMMA GivingKeeps ==
    ASSUME IdeasInv, NEW idea, IsNamed(idea), HandedOut(idea),
           length' = length, open' = NoTask, ready' = NoTask
    PROVE  /\ IdeasInv' /\ last' # last /\ last' = idea.number
           /\ EqualTurns(times')
<1>1. /\ IdeasTypeOK /\ givenIdeas \in Seq(1..Longest) /\ Len(givenIdeas) \in Nat
      /\ ToSet(givenIdeas) \subseteq 1..Longest
      /\ (givenIdeas # <<>> => Last(givenIdeas) \in ToSet(givenIdeas))
      /\ (givenIdeas = <<>> => ToSet(givenIdeas) = {})
      /\ round \in Nat /\ length \in Lengths /\ MaxRound \in Nat
      /\ Longest \in Nat /\ Shortest \in Nat /\ Shortest <= Longest
  BY GivenAre, ListsAre DEF IdeasInv
<1>2. IsInjective(givenIdeas) /\ (round = 0 <=> givenIdeas = <<>>)
  BY <1>1 DEF IdeasTypeOK
<1>3. PICK rounds \in Nat : TurnsAre(rounds)
  BY DEF IdeasInv
<1>. DEFINE i == idea.number
<1>4. i \in 1..Longest /\ i \in Nat /\ i # 0 /\ idea.round \in 1..MaxRound /\ idea # NoIdea
  BY <1>1 DEF IsNamed, NoIdea
<1>5. /\ Gave(idea) /\ times' = [times EXCEPT ![i] = @ + 1] /\ last' = i
  BY <1>4 DEF HandedOut
<1>6. times \in [1..Longest -> Nat] /\ last \in 0..Longest
      /\ (last # 0 => givenIdeas # <<>> /\ last = Last(givenIdeas))
  BY DEF IdeasInv
<1>7. /\ times' \in [1..Longest -> Nat]
      /\ \A j \in 1..Shortest : times'[j] = IF j = i THEN times[j] + 1 ELSE times[j]
  <2>1. \A j \in 1..Shortest : j \in 1..Longest
    BY <1>1
  <2>2. times[i] + 1 \in Nat
    BY <1>4, <1>6
  <2>. HIDE DEF i
  <2>3. times' \in [1..Longest -> Nat]
    BY <1>5, <1>6, <2>2
  <2>. QED
    BY <1>4, <1>5, <1>6, <2>1, <2>3
<1>. HIDE DEF i
<1>8. /\ givenIdeas' \in Seq(1..Longest) /\ IsInjective(givenIdeas')
      /\ givenIdeas' # <<>> /\ Last(givenIdeas') = i
      /\ round' \in 1..MaxRound
      /\ i # last
      /\ \E more \in Nat : TurnsAre(more)'
  <2>1. CASE idea.round = round /\ i \notin ToSet(givenIdeas)
    <3>1. givenIdeas' = Append(givenIdeas, i) /\ round' = round
      BY <1>1, <1>4, <1>5, <2>1 DEF Gave, i
    <3>2. /\ givenIdeas' \in Seq(1..Longest) /\ givenIdeas' # <<>> /\ Last(givenIdeas') = i
          /\ Len(givenIdeas') = Len(givenIdeas) + 1
          /\ \A n \in 1..Len(givenIdeas) : givenIdeas'[n] = givenIdeas[n]
          /\ givenIdeas'[Len(givenIdeas) + 1] = i
      BY <1>1, <1>4, <3>1, OneMoreAtTheEnd
    <3>3. ToSet(givenIdeas') = ToSet(givenIdeas) \cup {i}
      <4>1. DOMAIN givenIdeas' = 1..Len(givenIdeas) + 1 /\ DOMAIN givenIdeas = 1..Len(givenIdeas)
        BY <1>1, <3>2
      <4>2. ASSUME NEW k \in 1..Len(givenIdeas) + 1
            PROVE  givenIdeas'[k] \in {givenIdeas[n] : n \in 1..Len(givenIdeas)} \cup {i}
        <5>1. k \in 1..Len(givenIdeas) \/ k = Len(givenIdeas) + 1
          BY <1>1
        <5>. QED
          BY <3>2, <5>1
      <4>3. ASSUME NEW k \in 1..Len(givenIdeas)
            PROVE  givenIdeas[k] \in {givenIdeas'[n] : n \in 1..Len(givenIdeas) + 1}
        <5>1. k \in 1..Len(givenIdeas) + 1
          BY <1>1
        <5>. QED
          BY <3>2, <5>1
      <4>4. i \in {givenIdeas'[n] : n \in 1..Len(givenIdeas) + 1}
        <5>1. Len(givenIdeas) + 1 \in 1..Len(givenIdeas) + 1
          BY <1>1
        <5>. QED
          BY <3>2, <5>1
      <4>. QED
        BY <4>1, <4>2, <4>3, <4>4 DEF ToSet
    <3>4. IsInjective(givenIdeas')
      <4>. SUFFICES ASSUME NEW m \in 1..Len(givenIdeas) + 1, NEW n \in 1..Len(givenIdeas) + 1,
                           givenIdeas'[m] = givenIdeas'[n]
                    PROVE  m = n
        BY <1>1, <3>2 DEF IsInjective
      <4>1. \A k \in 1..Len(givenIdeas) : givenIdeas[k] # i
        BY <1>1, <2>1 DEF ToSet
      <4>2. \A k, l \in 1..Len(givenIdeas) : givenIdeas[k] = givenIdeas[l] => k = l
        BY <1>1, <1>2 DEF IsInjective
      <4>3. \A k \in 1..Len(givenIdeas) + 1 : k \in 1..Len(givenIdeas) \/ k = Len(givenIdeas) + 1
        BY <1>1
      <4>. QED
        BY <3>2, <4>1, <4>2, <4>3
    <3>5. i # last
      BY <1>1, <1>4, <1>6, <2>1
    <3>6. TurnsAre(rounds)'
      <4>. SUFFICES ASSUME NEW j \in 1..Shortest
                    PROVE  times'[j] = IF j \in ToSet(givenIdeas') THEN rounds + 1 ELSE rounds
        BY DEF TurnsAre
      <4>1. times[j] = IF j \in ToSet(givenIdeas) THEN rounds + 1 ELSE rounds
        BY <1>3 DEF TurnsAre
      <4>. QED
        BY <1>3, <1>7, <2>1, <3>3, <4>1
    <3>. QED
      BY <1>3, <1>4, <2>1, <3>1, <3>2, <3>4, <3>5, <3>6
  <2>2. CASE /\ idea.round = round + 1
             /\ givenIdeas # <<>> => i # Last(givenIdeas) /\ RoundIsThrough
    <3>1. givenIdeas' = <<i>> /\ round' = round + 1
      BY <1>1, <1>5, <2>2 DEF Gave, i
    <3>2. /\ givenIdeas' \in Seq(1..Longest) /\ givenIdeas' # <<>> /\ Last(givenIdeas') = i
          /\ IsInjective(givenIdeas') /\ ToSet(givenIdeas') = {i}
      BY <1>4, <3>1 DEF Last, IsInjective, ToSet
    <3>3. i # last
      BY <1>1, <1>4, <1>6, <2>2
    <3>4. CASE givenIdeas = <<>>
      <4>1. TurnsAre(rounds)'
        <5>. SUFFICES ASSUME NEW j \in 1..Shortest
                      PROVE  times'[j] = IF j \in ToSet(givenIdeas') THEN rounds + 1 ELSE rounds
          BY DEF TurnsAre
        <5>1. times[j] = rounds
          BY <1>1, <1>3, <3>4 DEF TurnsAre
        <5>. QED
          BY <1>3, <1>7, <3>2, <5>1
      <4>. QED
        BY <1>3, <1>4, <2>2, <3>1, <3>2, <3>3, <4>1
    <3>5. CASE givenIdeas # <<>>
      <4>1. TurnsAre(rounds + 1)'
        <5>. SUFFICES ASSUME NEW j \in 1..Shortest
                      PROVE  times'[j] = IF j \in ToSet(givenIdeas') THEN rounds + 1 + 1 ELSE rounds + 1
          BY DEF TurnsAre
        <5>1. times[j] = rounds + 1
          BY <1>3, <2>2, <3>5 DEF TurnsAre, RoundIsThrough
        <5>. QED
          BY <1>3, <1>7, <3>2, <5>1
      <4>2. rounds + 1 \in Nat
        BY <1>3
      <4>. QED
        BY <1>4, <2>2, <3>1, <3>2, <3>3, <4>1, <4>2
    <3>. QED
      BY <3>4, <3>5
  <2>. QED
    BY <2>1, <2>2 DEF IsNamed, i
<1>9. IdeasTypeOK'
  <2>1. NoTask.number <= Longest
    BY <1>1 DEF NoTask
  <2>2. round' \in 0..MaxRound /\ round' # 0
    BY <1>1, <1>8
  <2>. QED
    BY <1>1, <1>8, <2>1, <2>2 DEF IdeasTypeOK, Longest
<1>10. IdeasInv'
  BY <1>4, <1>5, <1>7, <1>8, <1>9 DEF IdeasInv
<1>11. EqualTurns(times')
  <2>1. PICK more \in Nat : TurnsAre(more)'
    BY <1>8
  <2>2. \A j \in 1..Shortest : times'[j] = more \/ times'[j] = more + 1
    BY <2>1 DEF TurnsAre
  <2>3. \A j, k \in 1..Shortest : times'[j] <= times'[k] + 1
    BY <2>1, <2>2
  <2>. QED
    BY <2>3 DEF EqualTurns, Shortest
<1>. QED
  BY <1>5, <1>8, <1>10, <1>11 DEF i

LEMMA IdeasInitially == IdeasInit => IdeasInv
<1>. SUFFICES ASSUME IdeasInit PROVE IdeasInv
  OBVIOUS
<1>1. Longest \in Nat /\ 2 <= Longest /\ MaxRound \in Nat /\ Shortest \in Nat /\ Shortest <= Longest
  BY ListsAre
<1>2. givenIdeas = <<>> /\ ToSet(givenIdeas) = {}
  BY DEF IdeasInit, ToSet
<1>3. IdeasTypeOK
  <2>1. givenIdeas \in Seq(1..Max(Lengths)) /\ IsInjective(givenIdeas)
    BY <1>2 DEF IsInjective
  <2>. QED
    BY <1>1, <2>1 DEF IdeasInit, IdeasTypeOK, NoTask, Longest
<1>4. times \in [1..Longest -> Nat] /\ \A i \in 1..Longest : times[i] = 0
  BY DEF IdeasInit, Longest
<1>5. TurnsAre(0)
  <2>1. \A i \in 1..Shortest : i \in 1..Longest
    BY <1>1
  <2>. QED
    BY <1>2, <1>4, <2>1 DEF TurnsAre
<1>. QED
  BY <1>1, <1>3, <1>4, <1>5 DEF IdeasInit, IdeasInv

\* What a step of the ideas may do to those given (gave, NextIdea, requestIdea).
InTurn ==
    /\ IdeasTypeOK'
    /\ times' # times => last' # last /\ EqualTurns(times')
    /\ Submit /\ last' # last => last' <= length

\* A task on no idea gives none.
LEMMA NoneGiven ==
    ASSUME IdeasInv, HandedOut(NoIdea), length' = length, open' = NoTask, ready' = NoTask
    PROVE  IdeasInv' /\ times' = times /\ last' = 0
<1>1. round' = round /\ givenIdeas' = givenIdeas /\ times' = times /\ last' = 0
  BY DEF HandedOut, NoIdea
<1>2. Longest \in Nat /\ 2 <= Longest
  BY ListsAre
<1>3. IdeasTypeOK'
  BY <1>1, <1>2 DEF IdeasInv, IdeasTypeOK, NoTask, Longest
<1>4. \A rounds : TurnsAre(rounds)' <=> TurnsAre(rounds)
  BY <1>1 DEF TurnsAre
<1>. QED
  BY <1>1, <1>2, <1>3, <1>4 DEF IdeasInv

\* A step that hands nothing out leaves what was given, and may leave another idea
\* named.
LEMMA NothingHandedOut ==
    ASSUME IdeasInv, UNCHANGED <<round, givenIdeas, last, times>>, length' \in Lengths,
           open' = NoTask \/ ready' = NoTask,
           \A idea \in {open', ready'} : idea \in {NoTask, NoIdea, open, ready} \/ IsNamed(idea)
    PROVE  IdeasInv'
<1>1. Longest \in Nat /\ 2 <= Longest
  BY ListsAre
<1>2. \A idea : IsNamed(idea) => idea.number <= Longest
  BY <1>1 DEF IsNamed
<1>3. \A idea \in {open', ready'} : idea \in {NoTask, NoIdea} \/ IsNamed(idea)
  BY DEF IdeasInv
<1>4. \A idea \in {open', ready'} : idea.number <= Longest
  BY <1>1, <1>2, <1>3 DEF NoTask, NoIdea
<1>5. IdeasTypeOK'
  BY <1>4 DEF IdeasInv, IdeasTypeOK, Longest
<1>6. \A idea \in {open', ready'} : idea \in {NoTask, NoIdea} \/ IsNamed(idea)'
  <2>1. IsNamed(open') => IsNamed(open)'
    BY DEF IsNamed, RoundIsThrough
  <2>2. IsNamed(ready') => IsNamed(ready)'
    BY DEF IsNamed, RoundIsThrough
  <2>. QED
    BY <1>3, <2>1, <2>2
<1>7. \A rounds : TurnsAre(rounds)' <=> TurnsAre(rounds)
  BY DEF TurnsAre
<1>. QED
  BY <1>5, <1>6, <1>7 DEF IdeasInv

LEMMA IdeasStep == ASSUME IdeasInv, IdeasNext PROVE IdeasInv' /\ InTurn
<1>1. IdeasTypeOK /\ length \in Lengths /\ length \in Nat
  BY GivenAre DEF IdeasInv
<1>2. ASSUME IdeasInv', ~Submit, times' = times PROVE IdeasInv' /\ InTurn
  BY <1>2 DEF InTurn, IdeasInv
<1>3. CASE Open
  <2>1. PICK idea \in NextIdeas : open' = idea /\ idea.round <= MaxRound
    BY <1>3 DEF Open
  <2>2. IsNamed(open')
    BY <1>1, <2>1, NextAreNamed
  <2>3. open' # NoTask /\ open = NoTask /\ ready' = ready /\ length' = length
        /\ UNCHANGED <<round, givenIdeas, last, times>>
    BY <1>3, <2>2, ListsAre DEF Open, IsNamed, NoTask
  <2>4. IdeasInv'
    BY <1>1, <1>3, <2>2, <2>3, NothingHandedOut DEF Open
  <2>5. ~Submit
    BY <2>3 DEF Submit
  <2>. QED
    BY <1>2, <2>3, <2>4, <2>5
<1>4. CASE OpenUnnamed
  <2>1. open' = NoIdea /\ open = NoTask /\ ready = NoTask /\ ready' = ready /\ length' = length
        /\ UNCHANGED <<round, givenIdeas, last, times>>
    BY <1>4 DEF OpenUnnamed
  <2>2. IdeasInv'
    BY <1>1, <2>1, NothingHandedOut
  <2>3. ~Submit
    BY <2>1 DEF Submit
  <2>. QED
    BY <1>2, <2>1, <2>2, <2>3
<1>5. CASE Submit
  <2>1. PICK idea \in RequestIdeas \cup (IF open = NoIdea THEN {NoIdea} ELSE {}) :
          /\ idea.round <= MaxRound
          /\ \/ HandedOut(idea) /\ UNCHANGED ready
             \/ ready' = idea /\ UNCHANGED <<round, givenIdeas, last, times>>
    BY <1>5 DEF Submit
  <2>2. open # NoTask /\ open' = NoTask /\ ready = NoTask /\ length' = length
    BY <1>5 DEF Submit, IdeasInv
  <2>3. idea = NoIdea \/ (IsNamed(idea) /\ idea.number <= length)
    <3>1. CASE idea \in NextIdeas
      <4>1. IsNamed(idea) /\ idea.number \in 1..length
        BY <1>1, <2>1, <3>1, NextAreNamed
      <4>. QED
        BY <1>1, <4>1
    <3>2. CASE open # NoIdea /\ open.number <= length /\ idea \in RequestIdeas
      <4>1. RequestIdeas = {open}
        BY <3>2 DEF RequestIdeas
      <4>2. idea = open
        BY <3>2, <4>1
      <4>. QED
        BY <2>2, <3>2, <4>2 DEF IdeasInv
    <3>3. CASE ~(open # NoIdea /\ open.number <= length) /\ idea \in RequestIdeas
      <4>1. RequestIdeas = NextIdeas
        BY <3>3 DEF RequestIdeas
      <4>. QED
        BY <3>1, <3>3, <4>1
    <3>. QED
      BY <2>1, <3>2, <3>3
  <2>4. CASE HandedOut(idea) /\ UNCHANGED ready /\ idea = NoIdea
    <3>1. IdeasInv' /\ times' = times /\ last' = 0
      BY <2>2, <2>4, NoneGiven
    <3>. QED
      BY <1>1, <3>1 DEF InTurn, IdeasInv
  <2>5. CASE HandedOut(idea) /\ UNCHANGED ready /\ IsNamed(idea) /\ idea.number <= length
    <3>1. IdeasInv' /\ last' # last /\ last' = idea.number /\ EqualTurns(times')
      BY <2>2, <2>5, GivingKeeps
    <3>. QED
      BY <2>5, <3>1 DEF InTurn, IdeasInv
  <2>6. CASE ready' = idea /\ UNCHANGED <<round, givenIdeas, last, times>>
    <3>1. IdeasInv'
      BY <1>1, <2>2, <2>3, <2>6, NothingHandedOut
    <3>. QED
      BY <2>6, <3>1 DEF InTurn, IdeasInv
  <2>. QED
    BY <2>1, <2>3, <2>4, <2>5, <2>6
<1>6. CASE HandOutReady
  <2>1. ready # NoTask /\ HandedOut(ready) /\ ready' = NoTask /\ open = NoTask /\ open' = NoTask
        /\ length' = length
    BY <1>6 DEF HandOutReady, IdeasInv
  <2>2. ready = NoIdea \/ IsNamed(ready)
    BY <2>1 DEF IdeasInv
  <2>3. ~Submit
    BY <2>1 DEF Submit
  <2>4. CASE ready = NoIdea
    <3>1. IdeasInv' /\ times' = times
      BY <2>1, <2>4, NoneGiven
    <3>. QED
      BY <1>2, <2>3, <3>1
  <2>5. CASE IsNamed(ready)
    <3>1. IdeasInv' /\ last' # last /\ EqualTurns(times')
      BY <2>1, <2>5, GivingKeeps
    <3>. QED
      BY <2>3, <3>1 DEF InTurn, IdeasInv
  <2>. QED
    BY <2>2, <2>4, <2>5
<1>7. CASE LetIdeaGo
  <2>1. open' = NoTask /\ ready' = NoTask /\ length' = length
        /\ UNCHANGED <<round, givenIdeas, last, times>>
    BY <1>7 DEF LetIdeaGo
  <2>2. IdeasInv'
    BY <1>1, <2>1, NothingHandedOut
  <2>. QED
    BY <2>1, <2>2 DEF InTurn, IdeasInv
<1>8. CASE Deploy
  <2>1. open' = open /\ ready' = ready /\ length' \in Lengths
        /\ UNCHANGED <<round, givenIdeas, last, times>>
    BY <1>8 DEF Deploy
  <2>2. open' = NoTask \/ ready' = NoTask
    BY <2>1 DEF IdeasInv
  <2>3. IdeasInv'
    BY <2>1, <2>2, NothingHandedOut
  <2>. QED
    BY <2>1, <2>3 DEF InTurn, IdeasInv
<1>. QED
  BY <1>3, <1>4, <1>5, <1>6, <1>7, <1>8 DEF IdeasNext

\* For any builds, lists and rounds, and however tasks are let go of, asked for
\* again or written on other builds, no two tasks in a row are built on one idea,
\* the ideas every build has take equal turns, and a task handed in is built on an
\* idea its build has (gave, NextIdea, requestIdea).
THEOREM GivenInTurn == IdeasSpec => IdeasAreGivenInTurn
<1>1. IdeasInv /\ [IdeasNext]_idea_vars => IdeasInv'
  <2>1. ASSUME IdeasInv, UNCHANGED idea_vars PROVE IdeasInv'
    <3>1. open' = NoTask \/ ready' = NoTask
      BY <2>1 DEF IdeasInv, idea_vars
    <3>2. length' \in Lengths
      BY <2>1, GivenAre DEF IdeasInv, idea_vars
    <3>. QED
      BY <2>1, <3>1, <3>2, NothingHandedOut DEF idea_vars
  <2>. QED
    BY <2>1, IdeasStep
<1>2. IdeasInv /\ [IdeasNext]_idea_vars => [InTurn]_idea_vars
  BY IdeasStep
<1>. QED
  BY <1>1, <1>2, IdeasInitially, PTL DEF IdeasSpec, IdeasAreGivenInTurn, InTurn

-----------------------------------------------------------------------------

(***************************************************************************)
(* The window and the days (History).                                      *)
(***************************************************************************)

\* Entries of any number and date.
Held == [nth : Nat, skipped : BOOLEAN, date : Nat, kept : BOOLEAN]

\* Of all answers there were, as many as all, the window held has the latest, in
\* their order.
HoldsTheLatest(held, all) ==
    /\ \A n \in Given(held) : held[n].nth \in 1..all
    /\ \A m, n \in Given(held) : m < n => held[m].nth < held[n].nth
    /\ \A n \in 1..all : n > all - MinRecent => \E m \in Given(held) : held[m].nth = n

LEMMA PlacesAre ==
    ASSUME NEW held \in Seq(Held)
    PROVE  /\ Len(held) \in Nat /\ DOMAIN held = 1..Len(held)
           /\ Given(held) \in SUBSET (1..Len(held))
           /\ \A n \in 1..Len(held) : held[n] \in Held
           /\ \A n : AnswersAfter(held, n) \in Nat
<1>1. Len(held) \in Nat /\ DOMAIN held = 1..Len(held) /\ \A n \in 1..Len(held) : held[n] \in Held
  OBVIOUS
<1>2. Given(held) \in SUBSET (1..Len(held))
  BY <1>1 DEF Given
<1>3. ASSUME NEW n PROVE AnswersAfter(held, n) \in Nat
  <2>1. {m \in Given(held) : m > n} \in SUBSET (0..Len(held))
    BY <1>1, <1>2
  <2>. QED
    BY <1>1, <2>1, Finite DEF AnswersAfter
<1>. QED
  BY <1>1, <1>2, <1>3

\* After an answer come no more answers of the window than there were at all.
LEMMA AfterAreLater ==
    ASSUME NEW held \in Seq(Held), NEW all \in Nat, HoldsTheLatest(held, all),
           NEW n \in Given(held)
    PROVE  AnswersAfter(held, n) <= all - held[n].nth
<1>. DEFINE A == {m \in Given(held) : m > n}
            from == held[n].nth
            B == (from + 1)..all
            f == [m \in A |-> held[m].nth]
<1>1. from \in 1..all /\ from \in Nat
  BY DEF HoldsTheLatest
<1>2. f \in Injection(A, B)
  <2>1. \A m \in A : held[m].nth \in B
    <3>. SUFFICES ASSUME NEW m \in A PROVE held[m].nth \in B
      OBVIOUS
    <3>1. held[m].nth \in 1..all /\ held[m].nth > held[n].nth
      BY DEF HoldsTheLatest
    <3>. QED
      BY <1>1, <3>1
  <2>2. \A l, m \in A : f[l] = f[m] => l = m
    <3>. SUFFICES ASSUME NEW l \in A, NEW m \in A, held[l].nth = held[m].nth PROVE l = m
      OBVIOUS
    <3>1. l \in Nat /\ m \in Nat
      BY PlacesAre
    <3>2. held[l].nth \in Nat
      BY DEF HoldsTheLatest
    <3>3. ~(l < m) /\ ~(m < l)
      BY <3>2 DEF HoldsTheLatest
    <3>. QED
      BY <3>1, <3>3
  <2>. QED
    BY <2>1, <2>2 DEF Injection, IsInjective
<1>3. IsFiniteSet(B) /\ Cardinality(B) = all - from
  <2>1. from + 1 \in Int /\ all \in Int /\ (from + 1 > all => all - from = 0)
    BY <1>1
  <2>. HIDE DEF from
  <2>2. IsFiniteSet((from + 1)..all)
        /\ Cardinality((from + 1)..all) = IF from + 1 > all THEN 0 ELSE all - (from + 1) + 1
    BY <2>1, FS_Interval
  <2>. QED
    BY <1>1, <2>1, <2>2
<1>4. Cardinality(A) <= Cardinality(B)
  <2>. HIDE DEF A, B, f
  <2>. QED
    BY <1>2, <1>3, FS_Injection
<1>. QED
  BY <1>3, <1>4 DEF AnswersAfter

\* A window over full lets one go: its answers kept are no more than it holds.
LEMMA OneLeaves ==
    ASSUME NEW held \in Seq(Held), Len(held) = MaxRecent + 1
    PROVE  /\ Leaving(held) \in 1..Len(held)
           /\ \/ held[Leaving(held)].skipped
              \/ Leaving(held) = 1 /\ AnswersAfter(held, 1) >= MinRecent
<1>1. MaxRecent \in Nat /\ MinRecent \in Nat /\ MaxRecent >= 1 /\ MinRecent <= MaxRecent
  BY WindowFits
<1>2. Len(held) \in Nat /\ DOMAIN held = 1..Len(held) /\ Given(held) \in SUBSET (1..Len(held))
      /\ Head(held) = held[1] /\ 1 \in 1..Len(held)
  BY <1>1, PlacesAre
<1>3. CASE Head(held).skipped \/ AnswersAfter(held, 1) >= MinRecent
  <2>1. Leaving(held) = 1
    BY <1>3 DEF Leaving
  <2>2. held[1].skipped \/ AnswersAfter(held, 1) >= MinRecent
    BY ONLY <1>2, <1>3
  <2>. QED
    BY <1>2, <2>1, <2>2
<1>4. CASE ~(Head(held).skipped \/ AnswersAfter(held, 1) >= MinRecent)
  <2>. DEFINE left == DOMAIN held \ Given(held)
  <2>1. left # {}
    <3>. SUFFICES ASSUME left = {} PROVE FALSE
      OBVIOUS
    <3>1. Given(held) = 1..Len(held)
      BY <1>2
    <3>2. {m \in Given(held) : m > 1} = 2..Len(held)
      BY <1>1, <1>2, <3>1
    <3>3. Cardinality(2..Len(held)) = MaxRecent
      BY <1>1, <1>2, FS_Interval
    <3>. QED
      BY <1>1, <1>4, <3>2, <3>3 DEF AnswersAfter
  <2>2. left \in SUBSET Nat
    BY <1>2
  <2>3. Min(left) \in left
    <3>. HIDE DEF left
    <3>. QED
      BY <2>1, <2>2, LeastIs
  <2>4. Leaving(held) = Min(left)
    BY <1>4, <2>1 DEF Leaving, OldestSkipped
  <2>5. held[Min(left)].skipped
    BY <2>3 DEF Given
  <2>. QED
    BY ONLY <1>2, <2>3, <2>4, <2>5
<1>. QED
  BY <1>3, <1>4

LEMMA Joined ==
    ASSUME NEW S, NEW s \in Seq(S), NEW t \in Seq(S)
    PROVE  /\ s \o t \in Seq(S) /\ Len(s \o t) = Len(s) + Len(t)
           /\ \A n \in 1..Len(s) : (s \o t)[n] = s[n]
           /\ \A n \in 1..Len(t) : (s \o t)[Len(s) + n] = t[n]
<1>1. s \o t \in Seq(S) /\ Len(s \o t) = Len(s) + Len(t)
  OBVIOUS
<1>2. \A n \in 1..Len(s) : (s \o t)[n] = s[n]
  OBVIOUS
<1>3. \A n \in 1..Len(t) : (s \o t)[Len(s) + n] = t[n]
  OBVIOUS
<1>. QED
  BY <1>1, <1>2, <1>3

LEMMA RemovedAt ==
    ASSUME NEW S, NEW seq \in Seq(S), NEW i \in 1..Len(seq)
    PROVE  /\ RemoveAt(seq, i) \in Seq(S) /\ Len(RemoveAt(seq, i)) = Len(seq) - 1
           /\ \A n \in 1..Len(seq) - 1 : RemoveAt(seq, i)[n] = IF n < i THEN seq[n] ELSE seq[n + 1]
<1>. DEFINE before == SubSeq(seq, 1, i - 1)
            after == SubSeq(seq, i + 1, Len(seq))
<1>1. before \in Seq(S) /\ Len(before) = i - 1 /\ \A n \in 1..i - 1 : before[n] = seq[n]
  OBVIOUS
<1>2. after \in Seq(S) /\ Len(after) = Len(seq) - i /\ \A n \in 1..Len(seq) - i : after[n] = seq[n + i]
  OBVIOUS
<1>3. RemoveAt(seq, i) = before \o after
  BY DEF RemoveAt
<1>. HIDE DEF before, after
<1>4. /\ before \o after \in Seq(S) /\ Len(before \o after) = Len(seq) - 1
      /\ \A n \in 1..i - 1 : (before \o after)[n] = before[n]
      /\ \A n \in 1..Len(seq) - i : (before \o after)[i - 1 + n] = after[n]
  <2>1. /\ before \o after \in Seq(S) /\ Len(before \o after) = Len(before) + Len(after)
        /\ \A n \in 1..Len(before) : (before \o after)[n] = before[n]
        /\ \A n \in 1..Len(after) : (before \o after)[Len(before) + n] = after[n]
    <3>1. before \in Seq(S) /\ after \in Seq(S)
      BY ONLY <1>1, <1>2
    <3>. QED
      BY ONLY <3>1, Joined
  <2>2. Len(seq) \in Nat /\ i \in Nat
    OBVIOUS
  <2>. QED
    BY ONLY <1>1, <1>2, <2>1, <2>2
<1>5. ASSUME NEW n \in 1..Len(seq) - 1
      PROVE  (before \o after)[n] = IF n < i THEN seq[n] ELSE seq[n + 1]
  <2>1. CASE n < i
    <3>1. n \in 1..i - 1
      BY <2>1
    <3>. QED
      BY ONLY <1>1, <1>4, <2>1, <3>1
  <2>2. CASE n >= i
    <3>. DEFINE k == n - i + 1
    <3>1. k \in 1..Len(seq) - i /\ i - 1 + k = n /\ k + i = n + 1
      BY <2>2
    <3>2. (before \o after)[i - 1 + k] = after[k] /\ after[k] = seq[k + i]
      BY ONLY <1>2, <1>4, <3>1
    <3>. QED
      <4>1. (before \o after)[n] = seq[n + 1]
        BY ONLY <3>1, <3>2
      <4>2. ~(n < i)
        BY <2>2
      <4>. QED
        BY ONLY <4>1, <4>2
  <2>3. n < i \/ n >= i
    OBVIOUS
  <2>. QED
    BY ONLY <2>1, <2>2, <2>3
<1>. QED
  BY <1>3, <1>4, <1>5

\* The window over full lets none of the latest answers go.
LEMMA LatestStay ==
    ASSUME NEW held \in Seq(Held), NEW all \in Nat, HoldsTheLatest(held, all),
           Len(held) = MaxRecent + 1
    PROVE  /\ RemoveAt(held, Leaving(held)) \in Seq(Held)
           /\ Len(RemoveAt(held, Leaving(held))) = MaxRecent
           /\ HoldsTheLatest(RemoveAt(held, Leaving(held)), all)
           /\ \A n \in 1..MaxRecent : \E m \in 1..Len(held) : RemoveAt(held, Leaving(held))[n] = held[m]
<1>. DEFINE i == Leaving(held)
            rest == RemoveAt(held, i)
<1>1. MaxRecent \in Nat /\ MinRecent \in Nat /\ Len(held) = MaxRecent + 1 /\ all \in Nat
  BY WindowFits
<1>2. /\ i \in 1..Len(held)
      /\ held[i].skipped \/ (i = 1 /\ AnswersAfter(held, 1) >= MinRecent)
  BY OneLeaves
<1>. HIDE DEF i
<1>3. /\ rest \in Seq(Held) /\ Len(rest) = MaxRecent
      /\ \A n \in 1..MaxRecent : rest[n] = IF n < i THEN held[n] ELSE held[n + 1]
  <2>1. /\ RemoveAt(held, i) \in Seq(Held) /\ Len(RemoveAt(held, i)) = Len(held) - 1
        /\ \A n \in 1..Len(held) - 1 :
              RemoveAt(held, i)[n] = IF n < i THEN held[n] ELSE held[n + 1]
    BY <1>2, RemovedAt
  <2>2. Len(held) - 1 = MaxRecent
    BY <1>1
  <2>. QED
    BY <2>1, <2>2
<1>. HIDE DEF rest
<1>4. /\ DOMAIN rest = 1..MaxRecent /\ DOMAIN held = 1..MaxRecent + 1
      /\ i \in 1..MaxRecent + 1
  BY <1>1, <1>2, <1>3
<1>. DEFINE at == [n \in 1..MaxRecent |-> IF n < i THEN n ELSE n + 1]
<1>5. /\ \A n \in 1..MaxRecent : at[n] \in 1..MaxRecent + 1 /\ rest[n] = held[at[n]]
      /\ \A m, n \in 1..MaxRecent : m < n => at[m] < at[n]
  <2>1. ASSUME NEW n \in 1..MaxRecent PROVE at[n] \in 1..MaxRecent + 1 /\ rest[n] = held[at[n]]
    BY ONLY <1>1, <1>3, <1>4, <2>1
  <2>2. ASSUME NEW m \in 1..MaxRecent, NEW n \in 1..MaxRecent, m < n PROVE at[m] < at[n]
    BY ONLY <1>1, <1>4, <2>2
  <2>. QED
    BY <2>1, <2>2
<1>6. \A m \in 1..MaxRecent + 1 : m # i => \E n \in 1..MaxRecent : at[n] = m
  <2>. SUFFICES ASSUME NEW m \in 1..MaxRecent + 1, m # i PROVE \E n \in 1..MaxRecent : at[n] = m
    OBVIOUS
  <2>1. CASE m < i
    <3>1. m \in 1..MaxRecent
      BY ONLY <1>1, <1>4, <2>1
    <3>. QED
      BY <2>1, <3>1
  <2>2. CASE m > i
    <3>1. m - 1 \in 1..MaxRecent /\ ~(m - 1 < i) /\ m - 1 + 1 = m
      BY ONLY <1>1, <1>4, <2>2
    <3>. QED
      BY <3>1
  <2>. QED
    BY <1>4, <2>1, <2>2
<1>. HIDE DEF at
<1>7. /\ \A n \in Given(rest) : n \in 1..MaxRecent /\ at[n] \in Given(held) /\ rest[n] = held[at[n]]
      /\ \A m \in Given(held) : m # i => \E n \in Given(rest) : at[n] = m
  <2>1. ASSUME NEW n \in Given(rest) PROVE n \in 1..MaxRecent /\ at[n] \in Given(held)
    BY <1>4, <1>5 DEF Given
  <2>2. ASSUME NEW m \in Given(held), m # i PROVE \E n \in Given(rest) : at[n] = m
    <3>1. PICK n \in 1..MaxRecent : at[n] = m
      BY <1>4, <1>6, <2>2 DEF Given
    <3>2. ~rest[n].skipped
      BY <1>5, <3>1 DEF Given
    <3>. QED
      BY <1>4, <3>1, <3>2 DEF Given
  <2>. QED
    BY <1>5, <2>1, <2>2
<1>8. \A n \in Given(rest) : rest[n].nth \in 1..all
  BY <1>7 DEF HoldsTheLatest
<1>9. \A m, n \in Given(rest) : m < n => rest[m].nth < rest[n].nth
  BY <1>5, <1>7 DEF HoldsTheLatest
<1>10. ASSUME NEW n \in 1..all, n > all - MinRecent PROVE \E m \in Given(rest) : rest[m].nth = n
  <2>1. PICK m \in Given(held) : held[m].nth = n
    BY <1>10 DEF HoldsTheLatest
  <2>2. m # i
    <3>. SUFFICES ASSUME m = i PROVE FALSE
      OBVIOUS
    <3>1. m = 1 /\ AnswersAfter(held, 1) >= MinRecent
      BY <1>2, <2>1 DEF Given
    <3>2. AnswersAfter(held, m) <= all - held[m].nth /\ AnswersAfter(held, m) \in Nat
      BY <2>1, AfterAreLater, PlacesAre
    <3>. QED
      BY <1>1, <1>10, <2>1, <3>1, <3>2
  <2>. QED
    BY <1>7, <2>1, <2>2
<1>11. \A n \in 1..MaxRecent : \E m \in 1..Len(held) : rest[n] = held[m]
  BY <1>1, <1>5
<1>. QED
  BY <1>3, <1>8, <1>9, <1>10, <1>11 DEF HoldsTheLatest, i, rest

LEMMA OneIsGiven ==
    ASSUME NEW held \in Seq(Held), NEW all \in Nat, HoldsTheLatest(held, all),
           NEW entry \in Held, ~entry.skipped, entry.nth = all + 1
    PROVE  HoldsTheLatest(Append(held, entry), all + 1)
<1>. DEFINE more == Append(held, entry)
            L == Len(held)
<1>1. /\ more \in Seq(Held) /\ Len(more) = L + 1 /\ L \in Nat
      /\ \A n \in 1..L : more[n] = held[n]
      /\ more[L + 1] = entry
      /\ DOMAIN more = 1..L + 1 /\ DOMAIN held = 1..L
  BY EndsWith
<1>. HIDE DEF more, L
<1>2. Given(more) = Given(held) \cup {L + 1}
  BY <1>1 DEF Given
<1>3. \A n \in Given(held) : n \in 1..L /\ more[n] = held[n] /\ more[n].nth \in 1..all
  BY <1>1 DEF Given, HoldsTheLatest
<1>4. more[L + 1].nth = all + 1
  BY <1>1
<1>5. \A n \in Given(more) : more[n].nth \in 1..all + 1
  BY <1>2, <1>3, <1>4
<1>6. ASSUME NEW m \in Given(more), NEW n \in Given(more), m < n PROVE more[m].nth < more[n].nth
  <2>1. m \in Given(held)
    BY <1>1, <1>2, <1>3, <1>6
  <2>2. CASE n \in Given(held)
    BY <1>3, <1>6, <2>1, <2>2 DEF HoldsTheLatest
  <2>3. CASE n = L + 1
    <3>1. more[m].nth \in 1..all /\ more[n].nth = all + 1 /\ all \in Nat
      BY <1>3, <1>4, <2>1, <2>3
    <3>. QED
      BY ONLY <3>1
  <2>. QED
    BY <1>2, <2>2, <2>3
<1>7. ASSUME NEW n \in 1..all + 1, n > (all + 1) - MinRecent PROVE \E m \in Given(more) : more[m].nth = n
  <2>1. CASE n = all + 1
    BY <1>2, <1>4, <2>1
  <2>2. CASE n \in 1..all
    <3>1. n > all - MinRecent
      BY <1>7, WindowFits
    <3>2. PICK m \in Given(held) : held[m].nth = n
      BY <2>2, <3>1 DEF HoldsTheLatest
    <3>. QED
      BY <1>2, <1>3, <3>2
  <2>. QED
    BY <2>1, <2>2
<1>. QED
  BY <1>5, <1>6, <1>7 DEF HoldsTheLatest, more

LEMMA OneIsSkipped ==
    ASSUME NEW held \in Seq(Held), NEW all \in Nat, HoldsTheLatest(held, all),
           NEW entry \in Held, entry.skipped
    PROVE  HoldsTheLatest(Append(held, entry), all)
<1>. DEFINE more == Append(held, entry)
            L == Len(held)
<1>1. /\ more \in Seq(Held) /\ Len(more) = L + 1 /\ L \in Nat
      /\ \A n \in 1..L : more[n] = held[n]
      /\ more[L + 1] = entry
      /\ DOMAIN more = 1..L + 1 /\ DOMAIN held = 1..L
  BY EndsWith
<1>. HIDE DEF more, L
<1>2. Given(more) = Given(held)
  BY <1>1 DEF Given
<1>3. \A n \in Given(held) : more[n] = held[n]
  BY <1>1 DEF Given
<1>. QED
  BY <1>2, <1>3 DEF HoldsTheLatest, more

LEMMA UnleveledHold ==
    ASSUME NEW held \in Seq(Held), NEW all \in Nat, HoldsTheLatest(held, all)
    PROVE  /\ Unleveled(held) \in Seq(Held) /\ Len(Unleveled(held)) = Len(held)
           /\ Given(Unleveled(held)) = Given(held)
           /\ \A n \in 1..Len(held) : Unleveled(held)[n] = [held[n] EXCEPT !.kept = FALSE]
           /\ HoldsTheLatest(Unleveled(held), all)
<1>1. /\ Len(held) \in Nat /\ DOMAIN held = 1..Len(held)
      /\ \A n \in 1..Len(held) : held[n] \in Held
      /\ Given(held) \in SUBSET (1..Len(held))
  BY PlacesAre
<1>2. \A n \in 1..Len(held) : [held[n] EXCEPT !.kept = FALSE] \in Held
  BY <1>1 DEF Held
<1>3. Unleveled(held) = [n \in 1..Len(held) |-> [held[n] EXCEPT !.kept = FALSE]]
  BY <1>1 DEF Unleveled
<1>4. Unleveled(held) \in Seq(Held) /\ Len(Unleveled(held)) = Len(held)
      /\ DOMAIN Unleveled(held) = 1..Len(held)
  BY <1>1, <1>2, <1>3
<1>5. \A n \in 1..Len(held) :
          Unleveled(held)[n].skipped = held[n].skipped /\ Unleveled(held)[n].nth = held[n].nth
  BY <1>1, <1>3 DEF Held
<1>6. Given(Unleveled(held)) = Given(held)
  BY <1>1, <1>4, <1>5 DEF Given
<1>7. HoldsTheLatest(Unleveled(held), all)
  <2>. DEFINE back == Unleveled(held)
  <2>1. \A n \in Given(held) : back[n].nth = held[n].nth
    <3>1. Given(held) \subseteq 1..Len(held)
      BY <1>1
    <3>. QED
      BY <1>5, <3>1
  <2>2. Given(back) = Given(held)
    BY <1>6
  <2>. HIDE DEF back
  <2>3. HoldsTheLatest(back, all)
    BY <2>1, <2>2 DEF HoldsTheLatest
  <2>. QED
    BY <2>3 DEF back
<1>. QED
  BY <1>3, <1>4, <1>6, <1>7

-----------------------------------------------------------------------------

PastEntries == [subject : Subjects, date : 0..MaxDate]

\* Every answer moved the level and its topic, and none is dated before another.
PastIs ==
    /\ rated = Len(past) /\ Len(past) <= entries
    /\ \A n \in 1..Len(past) : past[n].date <= today
    /\ \A m, n \in 1..Len(past) : m < n => past[m].date <= past[n].date
    /\ \A s \in Subjects :
          /\ met[s] <= Len(past)
          /\ met[s] > 0 <=> \E n \in 1..Len(past) : past[n].subject = s

\* An entry is of the answer it says, with the level before it unless an earlier
\* build wrote it back.
Tells(entry, all, before) ==
    /\ entry.date = all[entry.nth].date
    /\ entry.kept <=> entry.nth > before

WindowIs ==
    /\ lost <= Len(past)
    /\ HoldsTheLatest(window, Len(past))
    /\ \A n \in Given(window) : Tells(window[n], past, lost)

\* Of the answer before a day's first: the trial series ended with it, the day
\* tells of it, or its day is kept or is out of the week.
ToldBefore(d) ==
    \/ d.level = TrialSeries /\ d.unkept = Never
    \/ d.level <= lost /\ d.unkept = past[d.level].date
    \/ d.unkept = Never /\ past[d.level].date < WeekFrom(today)
    \/ d.unkept = Never /\ \E e \in days : e.date = past[d.level].date /\ e.date < d.date

\* A day kept starts with an answer past the trial series, and the day of the
\* latest answer is kept unless an earlier build wrote the file after it.
DaysAre ==
    /\ \A d \in days :
          /\ d.level \in TrialSeries..(Len(past) - 1)
          /\ d.date = past[d.level + 1].date
          /\ d.met = {past[n].subject : n \in 1..d.level}
          /\ ToldBefore(d)
    /\ days = {} => Len(past) <= TrialSeries \/ lost = Len(past)
    /\ days # {} => \E d \in days : d.date = past[Len(past)].date

HistoryInv == HistoryTypeOK /\ PastIs /\ WindowIs /\ DaysAre

LEMMA HistoryTypes ==
    ASSUME HistoryTypeOK
    PROVE  /\ TrialSeries \in Nat /\ TrialSeries >= 1 /\ MinRecent \in Nat /\ MaxRecent \in Nat
           /\ RatingDaysKept \in Nat /\ RatingDaysKept >= 1
           /\ TrialSeries <= MinRecent /\ MinRecent <= MaxRecent
           /\ MaxEntries \in Nat /\ MaxDate \in Nat
           /\ past \in Seq(PastEntries) /\ Len(past) \in Nat /\ DOMAIN past = 1..Len(past)
           /\ \A n \in 1..Len(past) : past[n].date \in Nat /\ past[n].subject \in Subjects
           /\ today \in Nat /\ rated \in Nat /\ entries \in Nat /\ lost \in Nat
           /\ window \in Seq(WindowEntries) /\ window \in Seq(Held) /\ Len(window) \in Nat
<1>1. /\ TrialSeries \in Nat /\ TrialSeries >= 1 /\ MinRecent \in Nat /\ MaxRecent \in Nat
      /\ RatingDaysKept \in Nat /\ RatingDaysKept >= 1
      /\ TrialSeries <= MinRecent /\ MinRecent <= MaxRecent
      /\ MaxEntries \in Nat /\ MaxDate \in Nat
  BY WindowFits
<1>2. past \in Seq(PastEntries)
  BY DEF HistoryTypeOK, PastEntries
<1>3. /\ Len(past) \in Nat /\ DOMAIN past = 1..Len(past)
      /\ \A n \in 1..Len(past) : past[n] \in PastEntries
  BY <1>2
<1>4. \A n \in 1..Len(past) : past[n].date \in Nat /\ past[n].subject \in Subjects
  BY <1>1, <1>3 DEF PastEntries
<1>5. today \in Nat /\ rated \in Nat /\ entries \in Nat /\ lost \in Nat
  BY <1>1 DEF HistoryTypeOK
<1>6. WindowEntries \subseteq Held
  BY <1>1 DEF WindowEntries, Held
<1>7. window \in Seq(WindowEntries) /\ Len(window) \in Nat
  BY DEF HistoryTypeOK
<1>8. window \in Seq(Held)
  BY <1>6, <1>7
<1>. QED
  BY <1>1, <1>2, <1>3, <1>4, <1>5, <1>7, <1>8

LEMMA AnswerIsPast ==
    ASSUME HistoryTypeOK, PastIs, NEW s \in Subjects, Moves(s)
    PROVE  /\ past' \in Seq(PastEntries) /\ Len(past') = Len(past) + 1
           /\ \A n \in 1..Len(past) : past'[n] = past[n]
           /\ past'[Len(past) + 1].date = today
           /\ entries' \in 0..MaxEntries /\ rated' \in 0..MaxEntries /\ Len(past) + 1 <= MaxEntries
           /\ met' \in [Subjects -> 0..MaxEntries] /\ today' = today
           /\ PastIs'
<1>. DEFINE P == Len(past)
<1>1. /\ today \in 0..MaxDate /\ met \in [Subjects -> 0..MaxEntries] /\ MaxEntries \in Nat
      /\ entries \in 0..MaxEntries /\ entries \in Nat /\ P \in Nat
      /\ past \in Seq(PastEntries) /\ rated = P /\ P <= entries
  BY HistoryTypes DEF HistoryTypeOK, PastIs
<1>2. /\ entries' = entries + 1 /\ entries < MaxEntries /\ rated' = P + 1 /\ today' = today
      /\ met' = [met EXCEPT ![s] = @ + 1]
      /\ past' = Append(past, [subject |-> s, date |-> today])
  BY <1>1 DEF Moves, Looks
<1>3. [subject |-> s, date |-> today] \in PastEntries
  BY <1>1 DEF PastEntries
<1>4. /\ past' \in Seq(PastEntries) /\ Len(past') = P + 1
      /\ \A n \in 1..P : past'[n] = past[n]
      /\ past'[P + 1] = [subject |-> s, date |-> today]
  <2>. DEFINE x == [subject |-> s, date |-> today]
  <2>. HIDE DEF x
  <2>1. x \in PastEntries
    BY <1>3 DEF x
  <2>2. /\ Append(past, x) \in Seq(PastEntries) /\ Len(Append(past, x)) = P + 1
        /\ \A n \in 1..P : Append(past, x)[n] = past[n]
        /\ Append(past, x)[P + 1] = x
    BY <1>1, <2>1, EndsWith
  <2>3. past' = Append(past, x)
    BY <1>2 DEF x
  <2>. QED
    BY <2>2, <2>3 DEF x
<1>5. /\ entries' \in 0..MaxEntries /\ rated' \in 0..MaxEntries /\ P + 1 <= MaxEntries
      /\ P + 1 <= entries'
  BY <1>1, <1>2
<1>. HIDE DEF P
<1>6. /\ \A t \in Subjects : met[t] \in Nat /\ met[t] <= P
      /\ \A t \in Subjects : met[t] > 0 <=> \E n \in 1..P : past[n].subject = t
  BY <1>1 DEF PastIs, P
<1>7. \A t \in Subjects : met'[t] = IF t = s THEN met[t] + 1 ELSE met[t]
  BY <1>1, <1>2
<1>8. met' \in [Subjects -> 0..MaxEntries]
  <2>1. met[s] + 1 \in 0..MaxEntries
    BY <1>1, <1>5, <1>6
  <2>. QED
    BY <1>1, <1>2, <2>1
<1>9. \A t \in Subjects : met'[t] <= P + 1
  BY <1>1, <1>6, <1>7
<1>10. ASSUME NEW t \in Subjects PROVE met'[t] > 0 <=> \E n \in 1..P + 1 : past'[n].subject = t
  <2>1. P + 1 \in 1..P + 1 /\ past'[P + 1].subject = s
    BY <1>1, <1>4
  <2>2. \A n \in 1..P : n \in 1..P + 1 /\ past'[n].subject = past[n].subject
    BY <1>1, <1>4
  <2>3. \A n \in 1..P + 1 : n \in 1..P \/ n = P + 1
    BY <1>1
  <2>4. CASE t = s
    <3>1. met'[t] > 0
      BY <1>6, <1>7, <2>4
    <3>. QED
      BY <2>1, <2>4, <3>1
  <2>5. CASE t # s
    <3>1. (\E n \in 1..P : past[n].subject = t) <=> \E n \in 1..P + 1 : past'[n].subject = t
      BY ONLY <2>1, <2>2, <2>3, <2>5
    <3>. QED
      BY <1>6, <1>7, <2>5, <3>1
  <2>. QED
    BY <2>4, <2>5
<1>11. /\ \A n \in 1..P : past[n].date <= today /\ past[n].date \in Nat
       /\ \A m, n \in 1..P : m < n => past[m].date <= past[n].date
  BY HistoryTypes DEF PastIs, P
<1>12. \A n \in 1..P + 1 : past'[n].date <= today
  <2>1. ASSUME NEW n \in 1..P + 1 PROVE past'[n].date <= today
    <3>1. CASE n \in 1..P
      BY <1>4, <1>11, <3>1
    <3>2. CASE n = P + 1
      BY <1>1, <1>4, <3>2
    <3>. QED
      BY <1>1, <3>1, <3>2
  <2>. QED
    BY <2>1
<1>13. \A m, n \in 1..P + 1 : m < n => past'[m].date <= past'[n].date
  <2>1. ASSUME NEW m \in 1..P + 1, NEW n \in 1..P + 1, m < n PROVE past'[m].date <= past'[n].date
    <3>1. m \in 1..P /\ past'[m].date = past[m].date
      BY <1>1, <1>4, <2>1
    <3>2. CASE n \in 1..P
      BY <1>4, <1>11, <2>1, <3>1, <3>2
    <3>3. CASE n = P + 1
      BY <1>4, <1>11, <3>1, <3>3
    <3>. QED
      BY <1>1, <3>2, <3>3
  <2>. QED
    BY <2>1
<1>14. PastIs'
  BY <1>2, <1>4, <1>5, <1>9, <1>10, <1>12, <1>13 DEF PastIs
<1>15. past'[P + 1].date = today
  BY <1>4
<1>. QED
  BY <1>2, <1>4, <1>5, <1>8, <1>14, <1>15 DEF P

\* What the window holds once an entry is remembered.
LEMMA WindowRemembers ==
    ASSUME HistoryTypeOK, NEW held \in Seq(Held), NEW all \in Nat, HoldsTheLatest(held, all),
           Len(held) <= MaxRecent + 1, Remembers(held),
           \A n \in 1..Len(held) : held[n] \in WindowEntries
    PROVE  /\ window' \in Seq(WindowEntries) /\ Len(window') <= MaxRecent
           /\ HoldsTheLatest(window', all)
           /\ \A n \in Given(window') : \E m \in Given(held) : window'[n] = held[m]
<1>1. MaxRecent \in Nat /\ Len(held) \in Nat
  BY HistoryTypes
<1>2. /\ window' \in Seq(Held) /\ Len(window') <= MaxRecent /\ HoldsTheLatest(window', all)
      /\ \A n \in 1..Len(window') : \E m \in 1..Len(held) : window'[n] = held[m]
  <2>1. CASE Len(held) <= MaxRecent
    BY <2>1 DEF Remembers
  <2>2. CASE ~(Len(held) <= MaxRecent)
    <3>1. Len(held) = MaxRecent + 1
      BY <1>1, <2>2
    <3>2. window' = RemoveAt(held, Leaving(held))
      BY <2>2 DEF Remembers
    <3>3. /\ RemoveAt(held, Leaving(held)) \in Seq(Held)
          /\ Len(RemoveAt(held, Leaving(held))) = MaxRecent
          /\ HoldsTheLatest(RemoveAt(held, Leaving(held)), all)
          /\ \A n \in 1..MaxRecent : \E m \in 1..Len(held) : RemoveAt(held, Leaving(held))[n] = held[m]
      BY <3>1, LatestStay
    <3>. QED
      BY <1>1, <3>2, <3>3
  <2>. QED
    BY <2>1, <2>2
<1>3. window' \in Seq(WindowEntries)
  <2>1. \A n \in 1..Len(window') : window'[n] \in WindowEntries
    BY <1>2
  <2>. QED
    BY <1>2, <2>1
<1>4. ASSUME NEW n \in Given(window') PROVE \E m \in Given(held) : window'[n] = held[m]
  <2>1. n \in 1..Len(window') /\ ~window'[n].skipped
    BY <1>2 DEF Given
  <2>2. PICK m \in 1..Len(held) : window'[n] = held[m]
    BY <1>2, <2>1
  <2>3. m \in Given(held)
    BY <2>1, <2>2 DEF Given
  <2>. QED
    BY <2>2, <2>3
<1>. QED
  BY <1>2, <1>3, <1>4

\* What the window tells is of answers there were.
LEMMA WindowTells ==
    ASSUME NEW held, \A n \in Given(held) : Tells(held[n], past', lost'),
           \A n \in Given(window') : \E m \in Given(held) : window'[n] = held[m]
    PROVE  \A n \in Given(window') : Tells(window'[n], past', lost')
  OBVIOUS

\* The window and one entry more, of an answer or of a task skipped.
LEMMA OneMoreEntry ==
    ASSUME HistoryTypeOK, PastIs, WindowIs, NEW s \in Subjects, Moves(s)
    PROVE  /\ Append(window, Entry) \in Seq(Held) /\ Len(Append(window, Entry)) = Len(window) + 1
           /\ \A n \in 1..Len(window) + 1 : Append(window, Entry)[n] \in WindowEntries
           /\ HoldsTheLatest(Append(window, Entry), Len(past'))
           /\ \A n \in Given(Append(window, Entry)) : Tells(Append(window, Entry)[n], past', lost)
<1>. DEFINE P == Len(past)
            L == Len(window)
            more == Append(window, Entry)
<1>1. /\ P \in Nat /\ L \in Nat /\ today \in 0..MaxDate /\ MaxDate \in Nat /\ MaxEntries \in Nat
      /\ window \in Seq(Held) /\ \A n \in 1..L : window[n] \in WindowEntries
  BY HistoryTypes DEF HistoryTypeOK
<1>2. /\ Len(past') = P + 1 /\ \A n \in 1..P : past'[n] = past[n]
  BY AnswerIsPast
<1>3. /\ past'[P + 1].date = today /\ P + 1 <= MaxEntries
  BY AnswerIsPast
<1>4. /\ lost <= P /\ HoldsTheLatest(window, P) /\ lost \in Nat
      /\ \A n \in Given(window) : Tells(window[n], past, lost)
  BY HistoryTypes DEF WindowIs
<1>5. Entry \in WindowEntries /\ Entry \in Held /\ ~Entry.skipped /\ Entry.nth = P + 1
  BY <1>1, <1>3 DEF Entry, WindowEntries, Held
<1>6. Entry.date = today /\ Entry.kept = TRUE
  BY DEF Entry
<1>7. /\ more \in Seq(Held) /\ Len(more) = L + 1 /\ DOMAIN more = 1..L + 1 /\ DOMAIN window = 1..L
      /\ \A n \in 1..L : more[n] = window[n]
  BY <1>1, <1>5, EndsWith
<1>8. more[L + 1] = Entry
  BY <1>1, <1>5, EndsWith
<1>9. HoldsTheLatest(more, P + 1)
  BY <1>1, <1>4, <1>5, OneIsGiven
<1>. HIDE DEF more, L, P
<1>10. \A n \in 1..L + 1 : more[n] \in WindowEntries
  BY <1>1, <1>5, <1>7, <1>8
<1>11. ASSUME NEW n \in Given(more) PROVE Tells(more[n], past', lost)
  <2>1. n \in 1..L \/ n = L + 1
    BY <1>1, <1>7 DEF Given
  <2>2. CASE n \in 1..L
    <3>1. more[n] = window[n] /\ n \in Given(window)
      BY <1>7, <2>2 DEF Given
    <3>2. window[n].nth \in 1..P
      BY <1>4, <3>1 DEF HoldsTheLatest
    <3>3. past'[window[n].nth] = past[window[n].nth]
      BY <1>2, <3>2
    <3>. QED
      BY <1>4, <3>1, <3>3 DEF Tells
  <2>3. CASE n = L + 1
    BY <1>1, <1>3, <1>4, <1>5, <1>6, <1>8, <2>3 DEF Tells
  <2>. QED
    BY <2>1, <2>2, <2>3
<1>. QED
  BY <1>2, <1>7, <1>9, <1>10, <1>11 DEF more, L

LEMMA OneMoreSkipped ==
    ASSUME HistoryTypeOK, PastIs, WindowIs
    PROVE  /\ Append(window, Skipped) \in Seq(Held) /\ Len(Append(window, Skipped)) = Len(window) + 1
           /\ \A n \in 1..Len(window) + 1 : Append(window, Skipped)[n] \in WindowEntries
           /\ HoldsTheLatest(Append(window, Skipped), Len(past))
           /\ \A n \in Given(Append(window, Skipped)) : Tells(Append(window, Skipped)[n], past, lost)
<1>. DEFINE L == Len(window)
            more == Append(window, Skipped)
<1>1. /\ Len(past) \in Nat /\ L \in Nat /\ today \in 0..MaxDate /\ MaxDate \in Nat /\ MaxEntries \in Nat
      /\ window \in Seq(Held) /\ \A n \in 1..L : window[n] \in WindowEntries
  BY HistoryTypes DEF HistoryTypeOK
<1>2. Skipped \in WindowEntries /\ Skipped \in Held /\ Skipped.skipped
  BY <1>1 DEF Skipped, WindowEntries, Held
<1>3. /\ more \in Seq(Held) /\ Len(more) = L + 1 /\ DOMAIN more = 1..L + 1 /\ DOMAIN window = 1..L
      /\ \A n \in 1..L : more[n] = window[n]
  BY <1>1, <1>2, EndsWith
<1>4. more[L + 1] = Skipped
  BY <1>1, <1>2, EndsWith
<1>5. HoldsTheLatest(more, Len(past))
  BY <1>1, <1>2, OneIsSkipped DEF WindowIs
<1>. HIDE DEF more, L
<1>6. \A n \in 1..L + 1 : more[n] \in WindowEntries
  BY <1>1, <1>2, <1>3, <1>4
<1>7. ASSUME NEW n \in Given(more) PROVE Tells(more[n], past, lost)
  <2>1. n \in 1..L
    BY <1>1, <1>2, <1>3, <1>4 DEF Given
  <2>2. more[n] = window[n] /\ n \in Given(window)
    BY <1>3, <2>1 DEF Given
  <2>. QED
    BY <2>2 DEF WindowIs
<1>. QED
  BY <1>3, <1>5, <1>6, <1>7 DEF more, L

\* Written back without the levels, the entries tell of an earlier build.
LEMMA UnleveledTell ==
    ASSUME NEW held \in Seq(Held), NEW all, NEW count \in Nat, NEW before,
           HoldsTheLatest(held, count),
           \A n \in 1..Len(held) : held[n] \in WindowEntries,
           \A n \in Given(held) : Tells(held[n], all, before)
    PROVE  /\ \A n \in 1..Len(held) : Unleveled(held)[n] \in WindowEntries
           /\ \A n \in Given(Unleveled(held)) : Tells(Unleveled(held)[n], all, count)
<1>. DEFINE back == Unleveled(held)
<1>1. /\ Given(back) = Given(held) /\ Given(held) \in SUBSET (1..Len(held))
      /\ \A n \in 1..Len(held) : back[n] = [held[n] EXCEPT !.kept = FALSE]
  BY UnleveledHold, PlacesAre
<1>2. \A n \in 1..Len(held) : back[n] \in WindowEntries
  BY <1>1 DEF WindowEntries
<1>3. \A n \in 1..Len(held) : back[n].nth = held[n].nth /\ back[n].date = held[n].date /\ back[n].kept = FALSE
  BY <1>1 DEF WindowEntries
<1>. HIDE DEF back
<1>4. ASSUME NEW n \in Given(back) PROVE Tells(back[n], all, count)
  <2>1. n \in Given(held) /\ n \in 1..Len(held)
    BY <1>1
  <2>2. back[n].nth \in 1..count
    BY <1>3, <2>1 DEF HoldsTheLatest
  <2>3. ~(back[n].nth > count)
    BY <2>2
  <2>. QED
    BY <1>3, <2>1, <2>3 DEF Tells
<1>. QED
  BY <1>2, <1>4 DEF back

LEMMA WindowGoesOn ==
    ASSUME HistoryTypeOK, PastIs, WindowIs, [HistoryNext]_history_vars
    PROVE  window' \in Seq(WindowEntries) /\ Len(window') <= MaxRecent /\ WindowIs'
<1>1. /\ window \in Seq(Held) /\ window \in Seq(WindowEntries) /\ Len(window) \in Nat
      /\ Len(window) <= MaxRecent /\ MaxRecent \in Nat /\ lost \in Nat /\ Len(past) \in Nat
      /\ lost <= Len(past) /\ HoldsTheLatest(window, Len(past))
      /\ \A n \in Given(window) : Tells(window[n], past, lost)
  BY HistoryTypes DEF HistoryTypeOK, WindowIs
<1>2. ASSUME NEW held \in Seq(Held), Len(held) <= MaxRecent + 1, Len(past') \in Nat,
             HoldsTheLatest(held, Len(past')), Remembers(held),
             \A n \in 1..Len(held) : held[n] \in WindowEntries,
             \A n \in Given(held) : Tells(held[n], past', lost'), lost' <= Len(past')
      PROVE  window' \in Seq(WindowEntries) /\ Len(window') <= MaxRecent /\ WindowIs'
  <2>1. /\ window' \in Seq(WindowEntries) /\ Len(window') <= MaxRecent
        /\ HoldsTheLatest(window', Len(past'))
        /\ \A n \in Given(window') : \E m \in Given(held) : window'[n] = held[m]
    BY <1>2, WindowRemembers
  <2>2. \A n \in Given(window') : Tells(window'[n], past', lost')
    BY <1>2, <2>1, WindowTells
  <2>. QED
    BY <1>2, <2>1, <2>2 DEF WindowIs
<1>3. ASSUME NEW s \in Subjects, Moves(s)
      PROVE  /\ Append(window, Entry) \in Seq(Held) /\ Len(Append(window, Entry)) = Len(window) + 1
             /\ \A n \in 1..Len(window) + 1 : Append(window, Entry)[n] \in WindowEntries
             /\ HoldsTheLatest(Append(window, Entry), Len(past'))
             /\ \A n \in Given(Append(window, Entry)) : Tells(Append(window, Entry)[n], past', lost)
             /\ Len(past') = Len(past) + 1
  BY <1>3, OneMoreEntry, AnswerIsPast
<1>4. /\ Append(window, Skipped) \in Seq(Held) /\ Len(Append(window, Skipped)) = Len(window) + 1
      /\ \A n \in 1..Len(window) + 1 : Append(window, Skipped)[n] \in WindowEntries
      /\ HoldsTheLatest(Append(window, Skipped), Len(past))
      /\ \A n \in Given(Append(window, Skipped)) : Tells(Append(window, Skipped)[n], past, lost)
  BY OneMoreSkipped
<1>5. ASSUME NEW s \in Subjects, AnswerOf(s)
      PROVE  window' \in Seq(WindowEntries) /\ Len(window') <= MaxRecent /\ WindowIs'
  <2>1. Moves(s) /\ Remembers(Append(window, Entry)) /\ lost' = lost
    BY <1>5 DEF AnswerOf
  <2>. DEFINE held == Append(window, Entry)
  <2>2. /\ held \in Seq(Held) /\ Len(held) = Len(window) + 1
        /\ \A n \in 1..Len(window) + 1 : held[n] \in WindowEntries
        /\ HoldsTheLatest(held, Len(past'))
        /\ \A n \in Given(held) : Tells(held[n], past', lost)
        /\ Len(past') = Len(past) + 1 /\ Remembers(held)
    BY <1>3, <2>1
  <2>. HIDE DEF held
  <2>3. Len(held) <= MaxRecent + 1 /\ Len(past') \in Nat /\ lost' <= Len(past')
    BY <1>1, <2>1, <2>2
  <2>. QED
    BY <1>2, <2>1, <2>2, <2>3
<1>6. CASE LeaveTask
  <2>1. Remembers(Append(window, Skipped)) /\ lost' = lost /\ past' = past
    BY <1>6 DEF LeaveTask
  <2>. DEFINE held == Append(window, Skipped)
  <2>2. /\ held \in Seq(Held) /\ Len(held) = Len(window) + 1
        /\ \A n \in 1..Len(held) : held[n] \in WindowEntries
        /\ HoldsTheLatest(held, Len(past'))
        /\ \A n \in Given(held) : Tells(held[n], past', lost')
        /\ Remembers(held)
    BY <1>4, <2>1
  <2>. HIDE DEF held
  <2>3. Len(held) <= MaxRecent + 1 /\ Len(past') \in Nat /\ lost' <= Len(past')
    BY <1>1, <2>1, <2>2
  <2>. QED
    BY <1>2, <2>2, <2>3
<1>7. ASSUME NEW held \in Seq(Held), Len(held) <= MaxRecent + 1, Len(past') \in Nat,
             HoldsTheLatest(held, Len(past')), lost' = Len(past'),
             \A n \in 1..Len(held) : held[n] \in WindowEntries,
             \A n \in Given(held) : Tells(held[n], past', lost)
      PROVE  /\ Unleveled(held) \in Seq(Held) /\ Len(Unleveled(held)) = Len(held)
             /\ HoldsTheLatest(Unleveled(held), Len(past'))
             /\ \A n \in 1..Len(Unleveled(held)) : Unleveled(held)[n] \in WindowEntries
             /\ \A n \in Given(Unleveled(held)) : Tells(Unleveled(held)[n], past', lost')
             /\ lost' <= Len(past')
  <2>1. /\ Unleveled(held) \in Seq(Held) /\ Len(Unleveled(held)) = Len(held)
        /\ HoldsTheLatest(Unleveled(held), Len(past'))
    BY <1>7, UnleveledHold
  <2>2. /\ \A n \in 1..Len(held) : Unleveled(held)[n] \in WindowEntries
        /\ \A n \in Given(Unleveled(held)) : Tells(Unleveled(held)[n], past', Len(past'))
    BY <1>7, UnleveledTell
  <2>. QED
    BY <1>7, <2>1, <2>2
<1>8. CASE EarlierBuild
  <2>1. lost' = Len(past')
    BY <1>8 DEF EarlierBuild
  <2>2. ASSUME NEW s \in Subjects, Moves(s), Remembers(Unleveled(Append(window, Entry)))
        PROVE  window' \in Seq(WindowEntries) /\ Len(window') <= MaxRecent /\ WindowIs'
    <3>. DEFINE held == Append(window, Entry)
    <3>1. /\ held \in Seq(Held) /\ Len(held) = Len(window) + 1
          /\ \A n \in 1..Len(held) : held[n] \in WindowEntries
          /\ HoldsTheLatest(held, Len(past'))
          /\ \A n \in Given(held) : Tells(held[n], past', lost)
          /\ Len(past') = Len(past) + 1 /\ Remembers(Unleveled(held))
      BY <1>3, <2>2
    <3>. HIDE DEF held
    <3>2. Len(held) <= MaxRecent + 1 /\ Len(past') \in Nat
      BY <1>1, <3>1
    <3>. DEFINE back == Unleveled(held)
    <3>3. /\ back \in Seq(Held) /\ Len(back) = Len(held)
          /\ HoldsTheLatest(back, Len(past'))
          /\ \A n \in 1..Len(back) : back[n] \in WindowEntries
          /\ \A n \in Given(back) : Tells(back[n], past', lost')
          /\ lost' <= Len(past')
      BY <1>7, <2>1, <3>1, <3>2
    <3>. QED
      BY <1>2, <3>1, <3>2, <3>3
  <2>3. ASSUME Remembers(Unleveled(Append(window, Skipped))), past' = past
        PROVE  window' \in Seq(WindowEntries) /\ Len(window') <= MaxRecent /\ WindowIs'
    <3>. DEFINE held == Append(window, Skipped)
    <3>1. /\ held \in Seq(Held) /\ Len(held) = Len(window) + 1
          /\ \A n \in 1..Len(held) : held[n] \in WindowEntries
          /\ HoldsTheLatest(held, Len(past'))
          /\ \A n \in Given(held) : Tells(held[n], past', lost)
          /\ Len(past') = Len(past) /\ Remembers(Unleveled(held))
      BY <1>4, <2>3
    <3>. HIDE DEF held
    <3>2. Len(held) <= MaxRecent + 1 /\ Len(past') \in Nat
      BY <1>1, <3>1
    <3>. DEFINE back == Unleveled(held)
    <3>3. /\ back \in Seq(Held) /\ Len(back) = Len(held)
          /\ HoldsTheLatest(back, Len(past'))
          /\ \A n \in 1..Len(back) : back[n] \in WindowEntries
          /\ \A n \in Given(back) : Tells(back[n], past', lost')
          /\ lost' <= Len(past')
      BY <1>7, <2>1, <3>1, <3>2
    <3>. QED
      BY <1>2, <3>1, <3>2, <3>3
  <2>4. ASSUME window' = Unleveled(window), past' = past
        PROVE  window' \in Seq(WindowEntries) /\ Len(window') <= MaxRecent /\ WindowIs'
    <3>. DEFINE back == Unleveled(window)
    <3>1. /\ \A n \in 1..Len(window) : window[n] \in WindowEntries
          /\ Len(window) <= MaxRecent + 1
      BY <1>1
    <3>2. /\ HoldsTheLatest(window, Len(past')) /\ Len(past') \in Nat
          /\ \A n \in Given(window) : Tells(window[n], past', lost)
      BY <1>1, <2>4
    <3>3. /\ back \in Seq(Held) /\ Len(back) = Len(window)
          /\ HoldsTheLatest(back, Len(past'))
          /\ \A n \in 1..Len(back) : back[n] \in WindowEntries
          /\ \A n \in Given(back) : Tells(back[n], past', lost')
          /\ lost' <= Len(past')
      BY <1>1, <1>7, <2>1, <3>1, <3>2
    <3>. HIDE DEF back
    <3>4. back \in Seq(WindowEntries)
      BY <3>3
    <3>5. window' = back
      BY <2>4 DEF back
    <3>. QED
      BY <1>1, <3>3, <3>4, <3>5 DEF WindowIs
  <2>. QED
    BY <1>8, <2>2, <2>3, <2>4 DEF EarlierBuild
<1>9. CASE window' = window /\ past' = past /\ lost' = lost
  BY <1>1, <1>9 DEF WindowIs
<1>10. CASE NextDay \/ UNCHANGED history_vars
  <2>1. window' = window /\ past' = past /\ lost' = lost
    BY <1>10 DEF NextDay, history_vars
  <2>. QED
    BY <1>9, <2>1
<1>. QED
  BY <1>5, <1>6, <1>8, <1>10 DEF HistoryNext

LEMMA PastKeeps ==
    ASSUME HistoryTypeOK, PastIs, WindowIs, [HistoryNext]_history_vars
    PROVE  /\ PastIs' /\ past' \in Seq(PastEntries)
           /\ today' \in 0..MaxDate /\ today <= today'
           /\ rated' \in 0..MaxEntries /\ met' \in [Subjects -> 0..MaxEntries]
           /\ entries' \in 0..MaxEntries /\ lost' \in 0..MaxEntries
<1>1. /\ today \in 0..MaxDate /\ MaxDate \in Nat /\ MaxEntries \in Nat /\ today \in Nat
      /\ rated \in 0..MaxEntries /\ met \in [Subjects -> 0..MaxEntries]
      /\ entries \in 0..MaxEntries /\ past \in Seq(PastEntries) /\ lost \in 0..MaxEntries
      /\ Len(past) \in Nat /\ \A n \in 1..Len(past) : past[n].date \in Nat
  BY HistoryTypes DEF HistoryTypeOK
<1>2. ASSUME NEW s \in Subjects, Moves(s)
      PROVE  /\ PastIs' /\ past' \in Seq(PastEntries)
             /\ today' \in 0..MaxDate /\ today <= today'
             /\ rated' \in 0..MaxEntries /\ met' \in [Subjects -> 0..MaxEntries]
             /\ entries' \in 0..MaxEntries /\ Len(past') \in 0..MaxEntries
  <2>1. /\ past' \in Seq(PastEntries) /\ Len(past') = Len(past) + 1 /\ PastIs' /\ today' = today
        /\ rated' \in 0..MaxEntries /\ met' \in [Subjects -> 0..MaxEntries]
        /\ entries' \in 0..MaxEntries /\ Len(past) + 1 <= MaxEntries
    BY <1>2, AnswerIsPast
  <2>. QED
    BY <1>1, <2>1
<1>3. ASSUME UNCHANGED <<rated, met, past>>, today' \in 0..MaxDate, today <= today',
             entries' \in 0..MaxEntries, entries <= entries'
      PROVE  /\ PastIs' /\ past' \in Seq(PastEntries)
             /\ rated' \in 0..MaxEntries /\ met' \in [Subjects -> 0..MaxEntries]
             /\ Len(past') \in 0..MaxEntries
  <2>1. rated = Len(past) /\ Len(past) <= entries
    BY DEF PastIs
  <2>2. Len(past') = Len(past) /\ past' = past /\ Len(past) <= entries'
    BY <1>1, <1>3, <2>1
  <2>3. \A n \in 1..Len(past) : past[n].date <= today'
    <3>1. \A n \in 1..Len(past) : past[n].date <= today
      BY DEF PastIs
    <3>. QED
      BY <1>1, <1>3, <3>1
  <2>4. PastIs'
    BY <1>3, <2>2, <2>3 DEF PastIs
  <2>. QED
    BY <1>1, <1>3, <2>1, <2>4
<1>4. CASE \E s \in Subjects : AnswerOf(s)
  BY <1>1, <1>2, <1>4 DEF AnswerOf
<1>5. CASE LeaveTask
  <2>1. /\ UNCHANGED <<today, rated, met, past, lost>> /\ entries' = entries + 1 /\ entries < MaxEntries
    BY <1>5 DEF LeaveTask, Looks
  <2>2. today' \in 0..MaxDate /\ today <= today' /\ entries' \in 0..MaxEntries /\ entries <= entries'
    BY <1>1, <2>1
  <2>. QED
    BY <1>1, <1>3, <2>1, <2>2
<1>6. CASE EarlierBuild
  <2>1. CASE \E s \in Subjects : Moves(s)
    BY <1>2, <1>6, <2>1 DEF EarlierBuild
  <2>2. CASE UNCHANGED <<today, rated, met, past>> /\ (Looks \/ entries' = entries)
    <3>1. entries' \in 0..MaxEntries /\ entries <= entries' /\ today' \in 0..MaxDate /\ today <= today'
      BY <1>1, <2>2 DEF Looks
    <3>. QED
      BY <1>3, <1>6, <2>2, <3>1 DEF EarlierBuild
  <2>. QED
    BY <1>6, <2>1, <2>2 DEF EarlierBuild
<1>7. CASE NextDay
  <2>1. /\ UNCHANGED <<rated, met, entries, past, lost>> /\ today' = today + 1 /\ today < MaxDate
    BY <1>7 DEF NextDay
  <2>2. today' \in 0..MaxDate /\ today <= today' /\ entries' \in 0..MaxEntries /\ entries <= entries'
    BY <1>1, <2>1
  <2>. QED
    BY <1>1, <1>3, <2>1, <2>2
<1>8. CASE UNCHANGED history_vars
  <2>1. UNCHANGED <<today, rated, met, entries, past, lost>>
    BY <1>8 DEF history_vars
  <2>2. today' \in 0..MaxDate /\ today <= today' /\ entries' \in 0..MaxEntries /\ entries <= entries'
    BY <1>1, <2>1
  <2>. QED
    BY <1>1, <1>3, <2>1, <2>2
<1>. QED
  BY <1>4, <1>5, <1>6, <1>7, <1>8 DEF HistoryNext

LEMMA GreatestOf ==
    ASSUME NEW S \in SUBSET Int, NEW m \in S, \A n \in S : n <= m
    PROVE  Max(S) = m
<1>1. \A n \in S : m >= n
  OBVIOUS
<1>2. Max(S) \in S /\ \A n \in S : Max(S) >= n
  BY <1>1 DEF Max
<1>3. Max(S) \in Int /\ m \in Int /\ Max(S) >= m /\ m >= Max(S)
  BY <1>1, <1>2
<1>. QED
  BY ONLY <1>3

LEMMA LeastOf ==
    ASSUME NEW S \in SUBSET Int, NEW m \in S, \A n \in S : m <= n
    PROVE  Min(S) = m
<1>1. Min(S) \in S /\ \A n \in S : Min(S) <= n
  BY DEF Min
<1>2. Min(S) \in Int /\ m \in Int /\ Min(S) >= m /\ m >= Min(S)
  BY <1>1
<1>. QED
  BY ONLY <1>2

\* When an earlier build wrote the file after every answer, the latest one is
\* the latest whose level was not kept.
LEMMA LatestIsUnkept ==
    ASSUME HistoryTypeOK, PastIs, WindowIs, lost = Len(past), Len(past) >= 1
    PROVE  LastUnkeptAnswer = past[Len(past)].date
<1>. DEFINE P == Len(past)
            S == {Never} \cup DatesOf({n \in Given(window) : ~window[n].kept})
<1>1. /\ P \in Nat /\ P >= 1 /\ MinRecent \in Nat /\ MinRecent >= 1 /\ Never \in Int /\ Never < 0
      /\ \A n \in 1..P : past[n].date \in Nat
      /\ \A m, n \in 1..P : m < n => past[m].date <= past[n].date
  BY HistoryTypes DEF PastIs, Never
<1>2. /\ HoldsTheLatest(window, P)
      /\ \A n \in Given(window) : Tells(window[n], past, lost)
  BY DEF WindowIs
<1>3. PICK m \in Given(window) : window[m].nth = P
  <2>1. P \in 1..P /\ P > P - MinRecent
    BY <1>1
  <2>. HIDE DEF P
  <2>. QED
    BY <1>2, <2>1 DEF HoldsTheLatest
<1>4. ASSUME NEW n \in Given(window)
      PROVE  /\ window[n].date \in Nat /\ window[n].date <= past[P].date /\ ~window[n].kept
  <2>1. window[n].nth \in 1..P /\ Tells(window[n], past, P)
    BY <1>2 DEF HoldsTheLatest
  <2>2. window[n].date = past[window[n].nth].date /\ ~window[n].kept
    BY <1>1, <2>1 DEF Tells
  <2>3. window[n].nth < P \/ window[n].nth = P
    BY <1>1, <2>1
  <2>4. P \in 1..P
    BY <1>1
  <2>. HIDE DEF P
  <2>5. past[window[n].nth].date <= past[P].date
    BY <1>1, <2>1, <2>3, <2>4
  <2>. QED
    BY <1>1, <2>1, <2>2, <2>5
<1>5. past[P].date \in S
  <2>1. window[m].date = past[P].date
    BY <1>2, <1>3 DEF Tells
  <2>. QED
    BY <1>3, <1>4, <2>1 DEF DatesOf
<1>6. S \in SUBSET Int /\ \A n \in S : n <= past[P].date
  <2>1. P \in 1..P /\ past[P].date \in Nat
    BY <1>1
  <2>2. ASSUME NEW x \in S PROVE x \in Int /\ x <= past[P].date
    <3>1. CASE x = Never
      BY <1>1, <2>1, <3>1
    <3>2. CASE x # Never
      <4>1. PICK n \in Given(window) : x = window[n].date
        BY <2>2, <3>2 DEF DatesOf
      <4>. QED
        BY <1>4, <4>1
    <3>. QED
      BY <3>1, <3>2
  <2>. QED
    BY <2>2
<1>7. LastUnkeptAnswer = Max(S)
  BY DEF LastUnkeptAnswer
<1>. HIDE DEF S
<1>8. Max(S) = past[P].date
  BY <1>5, <1>6, GreatestOf
<1>. QED
  BY <1>7, <1>8

DayEntries == [date : 0..MaxDate, met : SUBSET Subjects, level : 0..MaxEntries, unkept : Never..MaxDate]

\* What a day kept rests on.
LEMMA DayIs ==
    ASSUME HistoryTypeOK, PastIs, DaysAre, NEW d \in days
    PROVE  /\ d \in DayEntries /\ d.level \in 1..Len(past) /\ d.level < Len(past)
           /\ d.level >= TrialSeries
           /\ d.level + 1 \in 1..Len(past) /\ d.date = past[d.level + 1].date
           /\ d.date \in Nat /\ d.date <= today /\ d.date <= past[Len(past)].date
           /\ d.unkept \in Int
<1>1. /\ Len(past) \in Nat /\ TrialSeries \in Nat /\ TrialSeries >= 1
      /\ \A n \in 1..Len(past) : past[n].date \in Nat /\ past[n].date <= today
      /\ \A m, n \in 1..Len(past) : m < n => past[m].date <= past[n].date
      /\ today \in Nat
  BY HistoryTypes DEF PastIs
<1>2. d \in DayEntries
  BY DEF HistoryTypeOK, DayEntries
<1>3. d.level \in TrialSeries..(Len(past) - 1) /\ d.date = past[d.level + 1].date
  BY DEF DaysAre
<1>4. d.level \in 1..Len(past) /\ d.level < Len(past) /\ d.level >= TrialSeries
      /\ d.level + 1 \in 1..Len(past) /\ Len(past) \in 1..Len(past)
      /\ (d.level + 1 < Len(past) \/ d.level + 1 = Len(past))
  BY <1>1, <1>3
<1>5. d.date \in Nat /\ d.date <= today
  BY <1>1, <1>3, <1>4
<1>6. d.date <= past[Len(past)].date
  <2>. DEFINE P == Len(past)  k == d.level + 1
  <2>1. k \in 1..P /\ P \in 1..P /\ (k < P \/ k = P) /\ d.date = past[k].date /\ d.date \in Nat
    BY <1>3, <1>4, <1>5
  <2>2. k < P => past[k].date <= past[P].date
    BY <1>1, <2>1
  <2>. HIDE DEF P, k
  <2>3. d.date <= past[P].date
    BY <2>1, <2>2
  <2>. QED
    BY <2>3 DEF P
<1>7. d.unkept \in Int
  BY <1>2, HistoryTypes DEF DayEntries, Never
<1>. QED
  BY <1>2, <1>3, <1>4, <1>5, <1>6, <1>7

\* A day stays told of while the days let go of are out of the week.
LEMMA ToldStays ==
    ASSUME HistoryTypeOK, NEW d \in DayEntries, ToldBefore(d),
           past[d.level].date \in Nat, past'[d.level] = past[d.level],
           today' \in Nat, today <= today', lost' = lost,
           \A e \in days : e \in days' \/ e.date < WeekFrom(today')
    PROVE  ToldBefore(d)'
<1>1. today \in Nat /\ RatingDaysKept \in Nat
  BY HistoryTypes
<1>2. CASE d.level = TrialSeries /\ d.unkept = Never
  BY <1>2 DEF ToldBefore
<1>3. CASE d.level <= lost /\ d.unkept = past[d.level].date
  BY <1>3 DEF ToldBefore
<1>4. CASE d.unkept = Never /\ past[d.level].date < WeekFrom(today)
  <2>1. past[d.level].date < WeekFrom(today')
    BY <1>1, <1>4 DEF WeekFrom
  <2>. QED
    BY <1>4, <2>1 DEF ToldBefore
<1>5. CASE d.unkept = Never /\ \E e \in days : e.date = past[d.level].date /\ e.date < d.date
  <2>1. PICK e \in days : e.date = past[d.level].date /\ e.date < d.date
    BY <1>5
  <2>2. CASE e \in days'
    BY <1>5, <2>1, <2>2 DEF ToldBefore
  <2>3. CASE e.date < WeekFrom(today')
    BY <1>5, <2>1, <2>3 DEF ToldBefore
  <2>. QED
    BY <2>2, <2>3
<1>. QED
  BY <1>2, <1>3, <1>4, <1>5 DEF ToldBefore

\* What a day rests on is not changed by what comes after it.
LEMMA DayStays ==
    ASSUME HistoryTypeOK, PastIs, DaysAre, NEW d \in days,
           Len(past') \in Nat, Len(past) <= Len(past'),
           \A n \in 1..Len(past) : past'[n] = past[n],
           today' \in Nat, today <= today', lost' = lost,
           \A e \in days : e \in days' \/ e.date < WeekFrom(today')
    PROVE  /\ d.level \in TrialSeries..(Len(past') - 1)
           /\ d.date = past'[d.level + 1].date
           /\ d.met = {past'[n].subject : n \in 1..d.level}
           /\ ToldBefore(d)'
<1>1. /\ d \in DayEntries /\ d.level \in 1..Len(past) /\ d.level < Len(past)
      /\ d.level + 1 \in 1..Len(past) /\ d.date = past[d.level + 1].date
      /\ d.level >= TrialSeries
  BY DayIs
<1>2. /\ Len(past) \in Nat /\ TrialSeries \in Nat
      /\ \A n \in 1..Len(past) : past[n].date \in Nat
  BY HistoryTypes
<1>3. d.met = {past[n].subject : n \in 1..d.level} /\ ToldBefore(d)
  BY DEF DaysAre
<1>4. d.level \in TrialSeries..(Len(past') - 1)
  BY <1>1, <1>2
<1>5. d.date = past'[d.level + 1].date
  BY <1>1
<1>6. d.met = {past'[n].subject : n \in 1..d.level}
  <2>1. \A n \in 1..d.level : past'[n] = past[n]
    BY <1>1, <1>2
  <2>. QED
    BY <1>3, <2>1
<1>7. ToldBefore(d)'
  BY <1>1, <1>2, <1>3, ToldStays
<1>. QED
  BY <1>4, <1>5, <1>6, <1>7

LEMMA DaysKeepTheirs ==
    ASSUME HistoryTypeOK, PastIs, WindowIs, DaysAre, NEW s \in Subjects, AnswerOf(s)
    PROVE  /\ days' \subseteq DayEntries /\ DaysAre'
           /\ \A d, e \in days' : d # e => d.date # e.date /\ d.date - e.date < RatingDaysKept
<1>. DEFINE P == Len(past)
            first == WeekFrom(today)
<1>1. /\ P \in Nat /\ TrialSeries \in Nat /\ TrialSeries >= 1 /\ RatingDaysKept \in Nat
      /\ RatingDaysKept >= 1 /\ MaxDate \in Nat /\ MaxEntries \in Nat
      /\ rated = P /\ today \in Nat /\ today \in 0..MaxDate /\ rated \in 0..MaxEntries
      /\ \A n \in 1..P : past[n].date \in Nat /\ past[n].date <= today
      /\ \A m, n \in 1..P : m < n => past[m].date <= past[n].date
      /\ \A n \in 1..P : past[n].subject \in Subjects /\ past[n].date \in 0..MaxDate
  <2>1. \A n \in 1..P : past[n] \in PastEntries
    BY HistoryTypes
  <2>2. \A n \in 1..P : past[n].subject \in Subjects /\ past[n].date \in 0..MaxDate
    BY <2>1 DEF PastEntries
  <2>. QED
    BY <2>2, HistoryTypes DEF HistoryTypeOK, PastIs
<1>2. /\ Len(past') = P + 1 /\ \A n \in 1..P : past'[n] = past[n]
  BY AnswerIsPast DEF AnswerOf
<1>3. past'[P + 1].date = today /\ today' = today /\ lost' = lost
  BY AnswerIsPast DEF AnswerOf
<1>4. \A d \in days :
        /\ d \in DayEntries /\ d.level \in 1..P /\ d.level >= TrialSeries /\ d.level < P
        /\ d.date \in Nat /\ d.date <= today /\ d.date <= past[P].date
  BY DayIs
<1>5. first = today - (RatingDaysKept - 1) /\ first \in Int /\ first <= today
  BY <1>1 DEF WeekFrom
<1>6. \A d, e \in days : d # e => d.date # e.date
  BY DEF HistoryTypeOK
<1>7. /\ days = {} => P <= TrialSeries \/ lost = P
      /\ days # {} => \E d \in days : d.date = past[P].date
  BY DEF DaysAre
<1>8. days' = KeptFrom(days \cup (IF InTrial \/ HoldsDayFrom(today) THEN {} ELSE {Starts(today, Unkept)}), today)
  BY DEF AnswerOf, StartTheDay
<1>9. InTrial <=> P < TrialSeries
  BY <1>1 DEF InTrial
<1>. HIDE DEF P, first
<1>10. ASSUME NEW d \in days, NEW all, all = days',
              \A e \in days : e \in days' \/ e.date < first
       PROVE  /\ d.level \in TrialSeries..(Len(past') - 1)
              /\ d.date = past'[d.level + 1].date
              /\ d.met = {past'[n].subject : n \in 1..d.level}
              /\ ToldBefore(d)'
  <2>1. /\ Len(past') \in Nat /\ Len(past) <= Len(past')
        /\ \A n \in 1..Len(past) : past'[n] = past[n]
        /\ today' \in Nat /\ today <= today' /\ lost' = lost
        /\ \A e \in days : e \in days' \/ e.date < WeekFrom(today')
    BY <1>1, <1>2, <1>3, <1>10 DEF P, first
  <2>. QED
    BY <2>1, DayStays
<1>11. CASE InTrial
  <2>1. days = {}
    BY <1>1, <1>4, <1>9, <1>11
  <2>2. days' = {}
    BY <1>8, <1>11, <2>1 DEF KeptFrom
  <2>3. Len(past') <= TrialSeries
    BY <1>1, <1>2, <1>9, <1>11
  <2>. QED
    BY <2>2, <2>3 DEF DaysAre
<1>12. CASE ~InTrial /\ HoldsDayFrom(today)
  <2>1. days' = {d \in days : d.date >= first}
    BY <1>8, <1>12 DEF KeptFrom, first
  <2>2. PICK d \in days : d.date = today
    BY <1>1, <1>4, <1>12 DEF HoldsDayFrom
  <2>3. d \in days' /\ d.date = past'[Len(past')].date
    BY <1>2, <1>3, <1>5, <2>1, <2>2
  <2>4. \A e \in days : e \in days' \/ e.date < first
    BY <1>4, <1>5, <2>1
  <2>5. DaysAre'
    BY <1>10, <2>1, <2>3, <2>4 DEF DaysAre
  <2>6. \A e, f \in days' : e # f => e.date # f.date /\ e.date - f.date < RatingDaysKept
    <3>1. ASSUME NEW e \in days', NEW f \in days' PROVE e.date - f.date < RatingDaysKept
      <4>1. e.date \in Nat /\ f.date \in Nat /\ e.date <= today /\ f.date >= first
        BY <1>4, <2>1
      <4>. QED
        BY ONLY <1>1, <1>5, <4>1
    <3>. QED
      BY <1>6, <2>1, <3>1
  <2>. QED
    BY <1>4, <2>1, <2>5, <2>6
<1>13. CASE ~InTrial /\ ~HoldsDayFrom(today)
  <2>1. \A d \in days : d.date < today
    BY <1>1, <1>4, <1>13 DEF HoldsDayFrom
  <2>. PICK new : new = Starts(today, Unkept)
    OBVIOUS
  <2>2. /\ new.date = today /\ new.met = Answered /\ new.level = P /\ new.unkept = Unkept
        /\ new = [date |-> today, met |-> Answered, level |-> P, unkept |-> Unkept]
    BY <1>1 DEF Starts
  <2>3. days' = {d \in days : d.date >= first} \cup {new}
    BY <1>5, <1>8, <1>13, <2>2 DEF KeptFrom, first
  <2>4. P >= TrialSeries /\ P \in 1..P /\ P \in TrialSeries..(P + 1 - 1)
    BY <1>1, <1>9, <1>13
  <2>5. \A e \in days : e \in days' \/ e.date < first
    BY <1>4, <1>5, <2>3
  <2>6. /\ days = {} /\ P > TrialSeries => lost = P /\ Unkept = past[P].date
        /\ days # {} \/ P = TrialSeries => Unkept = Never
        /\ Unkept \in Never..MaxDate
    <3>1. CASE days = {} /\ P > TrialSeries
      <4>1. lost = P
        BY <1>1, <1>7, <3>1
      <4>2. LastUnkeptAnswer = past[P].date
        BY <2>4, <1>1, <4>1, LatestIsUnkept DEF P
      <4>3. Unkept = past[P].date
        BY <1>1, <3>1, <4>2 DEF Unkept
      <4>4. past[P].date \in 0..MaxDate
        BY <1>1, <2>4
      <4>. QED
        BY <1>1, <3>1, <4>1, <4>3, <4>4 DEF Never
    <3>2. CASE ~(days = {} /\ P > TrialSeries)
      <4>1. Unkept = Never
        BY <1>1, <3>2 DEF Unkept
      <4>. QED
        BY <1>1, <3>2, <4>1 DEF Never
    <3>. QED
      BY <3>1, <3>2
  <2>7. past'[P] = past[P] /\ past[P].date \in Nat
    BY <1>1, <1>2, <2>4
  <2>8. ToldBefore(new)'
    <3>1. CASE days = {} /\ P = TrialSeries
      BY <2>2, <2>6, <3>1 DEF ToldBefore
    <3>2. CASE days = {} /\ P > TrialSeries
      <4>1. new.level <= lost' /\ new.unkept = past'[new.level].date
        BY <1>1, <1>3, <2>2, <2>6, <2>7, <3>2
      <4>. QED
        BY <4>1 DEF ToldBefore
    <3>3. CASE days # {}
      <4>1. PICK e \in days : e.date = past[P].date
        BY <1>7, <3>3
      <4>2. e.date < new.date /\ e.date = past'[new.level].date /\ new.unkept = Never
        BY <2>1, <2>2, <2>6, <2>7, <3>3, <4>1
      <4>3. CASE e \in days'
        BY <4>2, <4>3 DEF ToldBefore
      <4>4. CASE e.date < first
        <5>1. past'[new.level].date < WeekFrom(today')
          BY <1>3, <4>2, <4>4 DEF first
        <5>. QED
          BY <4>2, <5>1 DEF ToldBefore
      <4>. QED
        BY <2>5, <4>3, <4>4
    <3>. QED
      BY <1>1, <2>4, <3>1, <3>2, <3>3
  <2>9. new.met = {past'[n].subject : n \in 1..new.level}
    <3>1. Answered = {t \in Subjects : \E n \in 1..P : past[n].subject = t}
      BY DEF Answered, PastIs, P
    <3>2. Answered = {past[n].subject : n \in 1..P}
      BY <1>1, <3>1
    <3>3. \A n \in 1..P : past'[n] = past[n]
      BY <1>2
    <3>. QED
      BY <2>2, <3>2, <3>3
  <2>10. /\ new.level \in TrialSeries..(Len(past') - 1)
         /\ new.date = past'[new.level + 1].date
         /\ new \in days' /\ new.date = past'[Len(past')].date
    BY <1>2, <1>3, <2>2, <2>3, <2>4
  <2>11. \A d \in days' :
          /\ d.level \in TrialSeries..(Len(past') - 1)
          /\ d.date = past'[d.level + 1].date
          /\ d.met = {past'[n].subject : n \in 1..d.level}
          /\ ToldBefore(d)'
    <3>1. ASSUME NEW d \in days'
          PROVE  /\ d.level \in TrialSeries..(Len(past') - 1)
                 /\ d.date = past'[d.level + 1].date
                 /\ d.met = {past'[n].subject : n \in 1..d.level}
                 /\ ToldBefore(d)'
      <4>1. CASE d = new
        BY <2>8, <2>9, <2>10, <4>1
      <4>2. CASE d \in days
        BY <1>10, <2>5, <4>2
      <4>. QED
        BY <2>3, <4>1, <4>2
    <3>. QED
      BY <3>1
  <2>12. DaysAre'
    BY <2>10, <2>11 DEF DaysAre
  <2>13. new \in DayEntries
    <3>1. Answered \in SUBSET Subjects
      BY DEF Answered
    <3>. QED
      BY <1>1, <2>2, <2>6, <3>1 DEF DayEntries
  <2>14. \A e, f \in days' : e # f => e.date # f.date /\ e.date - f.date < RatingDaysKept
    <3>1. \A e \in days' : e.date \in Nat /\ e.date <= today /\ e.date >= first
      BY <1>1, <1>4, <1>5, <2>2, <2>3
    <3>2. ASSUME NEW e \in days', NEW f \in days' PROVE e.date - f.date < RatingDaysKept
      <4>1. e.date \in Nat /\ f.date \in Nat /\ e.date <= today /\ f.date >= first
        BY <3>1
      <4>. QED
        BY ONLY <1>1, <1>5, <4>1
    <3>3. ASSUME NEW e \in days', NEW f \in days', e # f PROVE e.date # f.date
      BY <1>1, <1>4, <1>6, <2>1, <2>2, <2>3, <3>3
    <3>. QED
      BY <3>2, <3>3
  <2>. QED
    BY <1>4, <2>3, <2>12, <2>13, <2>14
<1>. QED
  BY <1>11, <1>12, <1>13

LEMMA DaysKeep ==
    ASSUME HistoryTypeOK, PastIs, WindowIs, DaysAre, [HistoryNext]_history_vars
    PROVE  /\ days' \subseteq DayEntries /\ DaysAre'
           /\ \A d, e \in days' : d # e => d.date # e.date /\ d.date - e.date < RatingDaysKept
<1>1. /\ days \subseteq DayEntries
      /\ \A d, e \in days : d # e => d.date # e.date /\ d.date - e.date < RatingDaysKept
  BY DEF HistoryTypeOK, DayEntries
<1>2. CASE \E s \in Subjects : AnswerOf(s)
  BY <1>2, DaysKeepTheirs
<1>3. CASE EarlierBuild
  <2>1. days' = {} /\ lost' = Len(past')
    BY <1>3 DEF EarlierBuild
  <2>. QED
    BY <2>1 DEF DaysAre
<1>4. CASE days' = days /\ past' = past /\ lost' = lost /\ today' \in Nat /\ today <= today'
  <2>1. /\ Len(past') \in Nat /\ Len(past) <= Len(past')
        /\ \A n \in 1..Len(past) : past'[n] = past[n]
    BY <1>4, HistoryTypes
  <2>2. ASSUME NEW d \in days
        PROVE  /\ d.level \in TrialSeries..(Len(past') - 1)
               /\ d.date = past'[d.level + 1].date
               /\ d.met = {past'[n].subject : n \in 1..d.level}
               /\ ToldBefore(d)'
    <3>1. \A e \in days : e \in days' \/ e.date < WeekFrom(today')
      BY <1>4
    <3>. QED
      BY <1>4, <2>1, <3>1, DayStays
  <2>3. /\ days' = {} => Len(past') <= TrialSeries \/ lost' = Len(past')
        /\ days' # {} => \E d \in days' : d.date = past'[Len(past')].date
    BY <1>4 DEF DaysAre
  <2>4. DaysAre'
    BY <1>4, <2>2, <2>3 DEF DaysAre
  <2>. QED
    BY <1>1, <1>4, <2>4
<1>5. CASE LeaveTask \/ NextDay \/ UNCHANGED history_vars
  <2>1. days' = days /\ past' = past /\ lost' = lost
    BY <1>5 DEF LeaveTask, NextDay, history_vars
  <2>2. today' \in Nat /\ today <= today'
    BY PastKeeps, HistoryTypes
  <2>. QED
    BY <1>4, <2>1, <2>2
<1>. QED
  BY <1>2, <1>3, <1>5 DEF HistoryNext

LEMMA HistoryInitially == HistoryInit => HistoryInv
<1>. SUFFICES ASSUME HistoryInit PROVE HistoryInv
  OBVIOUS
<1>1. /\ today = 0 /\ window = <<>> /\ rated = 0 /\ met = [s \in Subjects |-> 0]
      /\ days = {} /\ past = <<>> /\ entries = 0 /\ lost = 0
  BY DEF HistoryInit
<1>2. MaxEntries \in Nat /\ MaxDate \in Nat /\ MaxRecent \in Nat /\ TrialSeries \in Nat
  BY WindowFits
<1>3. HistoryTypeOK
  <2>1. met \in [Subjects -> 0..MaxEntries]
    BY <1>1, <1>2
  <2>. QED
    BY <1>1, <1>2, <2>1 DEF HistoryTypeOK
<1>4. Len(past) = 0 /\ Given(window) = {}
  BY <1>1 DEF Given
<1>5. PastIs
  <2>1. \A s \in Subjects : met[s] = 0
    BY <1>1
  <2>. QED
    BY <1>1, <1>4, <2>1 DEF PastIs
<1>6. WindowIs
  BY <1>1, <1>4 DEF WindowIs, HoldsTheLatest
<1>7. DaysAre
  BY <1>1, <1>2, <1>4 DEF DaysAre
<1>. QED
  BY <1>3, <1>5, <1>6, <1>7 DEF HistoryInv

LEMMA HistoryStep == HistoryInv /\ [HistoryNext]_history_vars => HistoryInv'
<1>. SUFFICES ASSUME HistoryInv, [HistoryNext]_history_vars PROVE HistoryInv'
  OBVIOUS
<1>1. HistoryTypeOK /\ PastIs /\ WindowIs /\ DaysAre
  BY DEF HistoryInv
<1>2. /\ PastIs' /\ past' \in Seq(PastEntries) /\ today' \in 0..MaxDate
      /\ rated' \in 0..MaxEntries /\ met' \in [Subjects -> 0..MaxEntries]
      /\ entries' \in 0..MaxEntries /\ lost' \in 0..MaxEntries
  BY <1>1, PastKeeps
<1>3. window' \in Seq(WindowEntries) /\ Len(window') <= MaxRecent /\ WindowIs'
  BY <1>1, WindowGoesOn
<1>4. /\ days' \subseteq DayEntries /\ DaysAre'
      /\ \A d, e \in days' : d # e => d.date # e.date /\ d.date - e.date < RatingDaysKept
  BY <1>1, DaysKeep
<1>5. HistoryTypeOK'
  BY <1>2, <1>3, <1>4 DEF HistoryTypeOK, PastEntries, DayEntries
<1>. QED
  BY <1>2, <1>3, <1>4, <1>5 DEF HistoryInv

LEMMA WindowIsRight == HistoryInv => WindowKeepsItsOwn
<1>. SUFFICES ASSUME HistoryInv PROVE WindowKeepsItsOwn
  OBVIOUS
<1>1. HistoryTypeOK /\ PastIs /\ WindowIs
  BY DEF HistoryInv
<1>. DEFINE P == Len(past)
<1>2. /\ P \in Nat /\ DOMAIN past = 1..P /\ rated = P /\ HoldsTheLatest(window, P)
      /\ TrialSeries <= MinRecent /\ TrialSeries \in Nat /\ MinRecent \in Nat
      /\ window \in Seq(Held)
  BY <1>1, HistoryTypes DEF PastIs, WindowIs
<1>3. LatestAnswersKept
  <2>1. ASSUME NEW n \in DOMAIN past, n > P - MinRecent PROVE n \in Which(Given(window))
    <3>1. PICK m \in Given(window) : window[m].nth = n
      BY <1>2, <2>1 DEF HoldsTheLatest
    <3>. QED
      BY <3>1 DEF Which
  <2>2. \A m, n \in Given(window) : m < n => window[m].nth < window[n].nth
    BY <1>2 DEF HoldsTheLatest
  <2>. QED
    BY <2>1, <2>2 DEF LatestAnswersKept
<1>4. TrialIsWhole
  <2>. SUFFICES ASSUME P <= TrialSeries PROVE Which(TrialSoFar) = 1..P
    BY <1>2 DEF TrialIsWhole
  <2>1. ASSUME NEW x \in Which(TrialSoFar) PROVE x \in 1..P
    BY <1>2, <2>1 DEF Which, TrialSoFar, HoldsTheLatest
  <2>2. ASSUME NEW n \in 1..P PROVE n \in Which(TrialSoFar)
    <3>1. n > P - MinRecent
      BY <1>2
    <3>2. PICK m \in Given(window) : window[m].nth = n
      BY <1>2, <3>1 DEF HoldsTheLatest
    <3>3. AnswersAfter(window, m) <= P - n /\ AnswersAfter(window, m) \in Nat
      BY <1>2, <3>2, AfterAreLater, PlacesAre
    <3>4. AnswersAfter(window, m) < rated
      BY <1>2, <3>3
    <3>. QED
      BY <3>2, <3>4 DEF Which, TrialSoFar
  <2>. QED
    BY <2>1, <2>2
<1>5. AlwaysOneToLetGo
  <2>1. ASSUME NEW entry \in Held, Len(window) = MaxRecent PROVE Leaving(Append(window, entry)) # 0
    <3>1. Append(window, entry) \in Seq(Held) /\ Len(Append(window, entry)) = MaxRecent + 1
      BY <1>2, <2>1, EndsWith
    <3>2. Leaving(Append(window, entry)) \in 1..Len(Append(window, entry))
      BY <3>1, OneLeaves
    <3>. QED
      BY <3>1, <3>2
  <2>2. Entry \in Held /\ Skipped \in Held
    BY <1>1, <1>2, HistoryTypes DEF Entry, Skipped, Held
  <2>. QED
    BY <2>1, <2>2 DEF AlwaysOneToLetGo
<1>. QED
  BY <1>1, <1>3, <1>4, <1>5 DEF WindowKeepsItsOwn

\* The week, as its days are read.
LEMMA WeekIsRight == HistoryInv => WeekIsToldRight
<1>. SUFFICES ASSUME HistoryInv, rated > TrialSeries
     PROVE  /\ WeekStart.known =>
                  IF WeekStart.moved
                  THEN /\ {n \in InWeek : n > TrialSeries} # {}
                       /\ WeekStart.level = Min({n \in InWeek : n > TrialSeries}) - 1
                       /\ WeekStart.met = {past[n].subject : n \in 1..WeekStart.level}
                  ELSE {n \in InWeek : n > TrialSeries} = {}
            /\ ~WeekStart.known => \E n \in InWeek : n <= TrialSeries \/ n <= lost
  BY DEF WeekIsToldRight, WeekToldWhole, NewToTheWeek, UntoldForAReason
<1>1. HistoryTypeOK /\ PastIs /\ WindowIs /\ DaysAre
  BY DEF HistoryInv
<1>. DEFINE P == Len(past)
            first == WeekFrom(today)
            reached == {d \in days : d.date \in first..today}
            start == CHOOSE d \in reached : \A e \in reached : d.date <= e.date
            measured == {n \in InWeek : n > TrialSeries}
<1>2. /\ P \in Nat /\ DOMAIN past = 1..P /\ P > TrialSeries /\ TrialSeries \in Nat /\ P >= 1
      /\ today \in Nat /\ RatingDaysKept \in Nat /\ MinRecent \in Nat /\ MinRecent >= 1
      /\ \A n \in 1..P : past[n].date \in Nat /\ past[n].date <= today
      /\ \A m, n \in 1..P : m < n => past[m].date <= past[n].date
      /\ window \in Seq(Held)
  BY <1>1, HistoryTypes DEF PastIs
<1>3. first \in Int
  BY <1>2 DEF WeekFrom
<1>4. \A d \in days :
        /\ d.level \in 1..P /\ d.level >= TrialSeries /\ d.level < P
        /\ d.level + 1 \in 1..P /\ d.date = past[d.level + 1].date
        /\ d.date \in Nat /\ d.date <= today /\ d.unkept \in Int
  BY <1>1, DayIs
<1>5. InWeek = {n \in 1..P : past[n].date >= first}
  BY <1>2 DEF InWeek
<1>6. /\ WeekStart = IF reached # {}
                      THEN IF start.unkept # Never /\ start.unkept >= first THEN Untold
                           ELSE [known |-> TRUE, moved |-> TRUE, level |-> start.level, met |-> start.met]
                      ELSE IF Given(window) = {} \/ LastAnswer.date < first THEN NothingMoved ELSE Untold
      /\ Untold.known = FALSE /\ NothingMoved.known = TRUE /\ NothingMoved.moved = FALSE
  BY DEF WeekStart, Untold, NothingMoved
<1>7. \A d \in days : d.date >= first => d \in reached
  BY <1>2, <1>3, <1>4
<1>8. reached \subseteq days /\ \A d \in reached : d.date >= first
  BY <1>2, <1>3, <1>4
<1>. HIDE DEF P, first
<1>9. CASE reached # {}
  <2>1. start \in reached /\ \A e \in reached : start.date <= e.date
    <3>. DEFINE dates == {d.date : d \in reached}
    <3>1. dates \in SUBSET Nat /\ dates # {}
      BY <1>4, <1>8, <1>9
    <3>. HIDE DEF dates
    <3>2. Min(dates) \in dates /\ \A x \in dates : Min(dates) <= x
      BY <3>1, LeastIs
    <3>3. PICK d \in reached : d.date = Min(dates)
      BY <3>2 DEF dates
    <3>4. \A e \in reached : d.date <= e.date
      BY <3>2, <3>3 DEF dates
    <3>. HIDE DEF reached
    <3>. QED
      BY <3>4
  <2>. HIDE DEF start
  <2>2. start \in days /\ start.date >= first
    BY <1>8, <2>1
  <2>. HIDE DEF reached
  <2>. DEFINE k == start.level
  <2>3. /\ k \in 1..P /\ k >= TrialSeries /\ k + 1 \in 1..P /\ start.date = past[k + 1].date
        /\ start.unkept \in Int /\ k \in Nat
    BY <1>4, <2>2
  <2>4. start.met = {past[n].subject : n \in 1..k} /\ ToldBefore(start)
    BY <1>1, <2>2 DEF DaysAre
  <2>5. past[k].date \in Nat /\ past[k].date # Never
    BY <1>2, <2>3 DEF Never
  <2>6. CASE start.unkept # Never /\ start.unkept >= first
    <3>1. k <= lost /\ start.unkept = past[k].date
      BY <2>4, <2>6 DEF ToldBefore
    <3>2. k \in InWeek
      BY <1>5, <2>3, <2>6, <3>1
    <3>3. ~WeekStart.known
      BY <1>6, <1>9, <2>6
    <3>. QED
      BY <3>1, <3>2, <3>3
  <2>7. CASE ~(start.unkept # Never /\ start.unkept >= first)
    <3>1. /\ WeekStart = [known |-> TRUE, moved |-> TRUE, level |-> k, met |-> start.met]
      BY <1>6, <1>9, <2>7
    <3>2. k + 1 \in measured
      BY <1>5, <2>2, <2>3, <1>2
    <3>3. ASSUME NEW n \in measured, n <= k PROVE FALSE
      <4>1. n \in 1..P /\ n > TrialSeries /\ past[n].date >= first
        BY <1>5
      <4>2. past[k].date >= first
        <5>1. CASE n = k
          BY <4>1, <5>1
        <5>2. CASE n < k
          <6>1. past[n].date <= past[k].date /\ past[n].date \in Nat
            BY <1>2, <2>3, <4>1, <5>2
          <6>. QED
            BY <1>3, <2>5, <4>1, <6>1
        <5>. QED
          BY <2>3, <3>3, <4>1, <5>1, <5>2
      <4>3. CASE k = TrialSeries
        BY <2>3, <3>3, <4>1, <4>3
      <4>4. CASE start.unkept = past[k].date
        BY <2>5, <2>7, <4>2, <4>4
      <4>5. CASE past[k].date < WeekFrom(today)
        BY <1>3, <2>5, <4>2, <4>5 DEF first
      <4>6. CASE \E e \in days : e.date = past[k].date /\ e.date < start.date
        <5>1. PICK e \in days : e.date = past[k].date /\ e.date < start.date
          BY <4>6
        <5>2. e \in reached
          BY <1>7, <4>2, <5>1
        <5>3. start.date <= e.date /\ start.date \in Nat /\ e.date \in Nat
          BY <1>4, <2>1, <2>2, <5>1, <5>2
        <5>. QED
          BY <5>1, <5>3
      <4>. QED
        BY <2>4, <4>3, <4>4, <4>5, <4>6 DEF ToldBefore
    <3>4. measured \in SUBSET Int /\ \A n \in measured : k + 1 <= n
      <4>1. measured \in SUBSET Int
        BY <1>2, <1>5
      <4>2. ASSUME NEW n \in measured PROVE k + 1 <= n
        <5>1. n \in Int /\ ~(n <= k)
          BY <3>3, <4>1
        <5>. QED
          BY <2>3, <5>1
      <4>. QED
        BY <4>1, <4>2
    <3>. HIDE DEF measured, k
    <3>5. Min(measured) = k + 1
      BY <3>2, <3>4, LeastOf
    <3>6. k = Min(measured) - 1 /\ measured # {}
      <4>1. k \in Nat
        BY <2>3
      <4>. QED
        BY <3>2, <3>5, <4>1
    <3>7. WeekStart.known = TRUE /\ WeekStart.moved = TRUE /\ WeekStart.level = k /\ WeekStart.met = start.met
      BY <3>1
    <3>. QED
      BY <2>4, <3>6, <3>7 DEF measured
  <2>. QED
    BY <2>6, <2>7
<1>10. CASE reached = {}
  <2>1. HoldsTheLatest(window, P) /\ \A n \in Given(window) : Tells(window[n], past, lost)
    BY <1>1 DEF WindowIs, P
  <2>2. P \in 1..P /\ P > P - MinRecent
    BY <1>2
  <2>3. PICK m \in Given(window) : window[m].nth = P
    BY <2>1, <2>2 DEF HoldsTheLatest
  <2>4. Given(window) \in SUBSET Int
    BY <1>2, PlacesAre
  <2>5. ASSUME NEW n \in Given(window) PROVE n <= m
    <3>1. ~(m < n)
      <4>. SUFFICES ASSUME m < n PROVE FALSE
        OBVIOUS
      <4>1. window[m].nth < window[n].nth /\ window[n].nth \in 1..P
        BY <2>1 DEF HoldsTheLatest
      <4>. QED
        BY <1>2, <2>3, <4>1
    <3>. QED
      BY <2>4, <3>1
  <2>6. Max(Given(window)) = m
    BY <2>4, <2>5, GreatestOf
  <2>7. LastAnswer.date = past[P].date /\ past[P].date \in Nat
    BY <1>2, <2>1, <2>2, <2>3, <2>6 DEF LastAnswer, Tells
  <2>8. CASE LastAnswer.date < first
    <3>1. WeekStart = NothingMoved
      BY <1>6, <1>10, <2>8
    <3>2. ASSUME NEW n \in InWeek PROVE FALSE
      <4>1. n \in 1..P /\ past[n].date >= first /\ past[n].date \in Nat
        BY <1>2, <1>5
      <4>2. n < P => past[n].date <= past[P].date
        BY <1>2, <2>2, <4>1
      <4>3. n < P \/ n = P
        BY <1>2, <4>1
      <4>. QED
        BY <1>3, <2>7, <2>8, <4>1, <4>2, <4>3
    <3>3. measured = {}
      BY <3>2
    <3>. QED
      BY <1>6, <3>1, <3>3
  <2>9. CASE ~(LastAnswer.date < first)
    <3>1. WeekStart = Untold
      BY <1>6, <1>10, <2>3, <2>9
    <3>2. past[P].date >= first
      BY <1>3, <2>7, <2>9
    <3>3. P \in InWeek
      BY <1>5, <2>2, <3>2
    <3>4. days = {}
      <4>. SUFFICES ASSUME days # {} PROVE FALSE
        OBVIOUS
      <4>1. PICK d \in days : d.date = past[P].date
        BY <1>1 DEF DaysAre, P
      <4>. QED
        BY <1>7, <1>10, <3>2, <4>1
    <3>5. lost = P
      BY <1>1, <1>2, <3>4 DEF DaysAre, P
    <3>6. P <= lost
      BY <1>2, <3>5
    <3>. QED
      BY <1>6, <3>1, <3>3, <3>6
  <2>. QED
    BY <2>8, <2>9
<1>. QED
  BY <1>9, <1>10

\* Whatever tasks are answered or skipped, and whichever builds record them, the
\* window keeps what the rules read back and can always let something go
\* (remember, leaving, trialSoFar); and the days kept are of dates of their own
\* and within a week (validateRatingDays).
THEOREM WindowKept == HistorySpec => []WindowKeepsItsOwn
<1>. QED
  BY HistoryInitially, HistoryStep, WindowIsRight, PTL DEF HistorySpec

\* Whichever days were kept, let go of or lost to an earlier build, the week is
\* told from where the child stood before its first answer, or not at all and for
\* a reason (startTheDay, keptFrom, WeekStart).
THEOREM WeekTold == HistorySpec => []WeekIsToldRight
<1>. QED
  BY HistoryInitially, HistoryStep, WeekIsRight, PTL DEF HistorySpec

(***************************************************************************)
(* The turns (Rotation).  While no more than MaxSkips tasks are skipped in *)
(* a row the window lets go of its oldest entry, so what it holds are the  *)
(* latest tasks, and all that counts of the tasks handed out since the     *)
(* topic watched was is where each of them stands among them.              *)
(***************************************************************************)

RotationEntries == [topic : Topics, skipped : BOOLEAN]

RunsAreShort(held) ==
    \A n \in 1..Len(held) - MaxSkips : \E m \in n..n + MaxSkips : ~held[m].skipped

\* The task at a place, of those in the window and the one on the card.
TaskAt(held, onCard, m) == IF m = Len(held) + 1 THEN onCard ELSE held[m].topic

Behind(held, onCard) == Len(held) + (IF onCard # None THEN 1 ELSE 0)

\* The tasks handed out since the topic watched was: the topic of each, and
\* whether the topics took turns for it.
Tasks == [topic : Topics \ {watched}, inTurn : BOOLEAN]

\* The latest of them are the latest in the window and on the card.
StandIn(since, held, onCard) ==
    /\ \A i \in 1..Len(since) :
          Behind(held, onCard) - Len(since) + i >= 1 =>
              TaskAt(held, onCard, Behind(held, onCard) - Len(since) + i) = since[i].topic
    /\ Len(since) <= Behind(held, onCard) \/ Len(held) = WindowHolds

GivenLater(since) ==
    \A i \in 1..Len(since) :
        issued[since[i].topic] >= 0 /\ issued[since[i].topic] >= issued[watched]

\* Two turns of a topic: the second comes at twice the distance the first was
\* at, or a window later.
AreSpread(since) ==
    \A j \in 1..Len(since) : \A i \in 1..j - 1 :
        since[j].inTurn /\ since[i].topic = since[j].topic => 2 * i <= j \/ j - i >= WindowHolds

\* And so will the task asked for or kept, had the topic watched a turn then; a
\* task taken off the card since brings it nearer by one.
NextFits(since) ==
    next.turn = "watched" =>
        /\ next.topic # watched
        /\ \A i \in 1..Len(since) : since[i].topic = next.topic =>
              \/ 2 * i <= Len(since) \/ Len(since) + 1 - i > WindowHolds
              \/ card = None /\ (2 * i <= Len(since) + 1 \/ Len(since) + 1 - i >= WindowHolds)

\* The turns between two events.
Most == 2 * (Len(Catalog) - 1)

\* The topic watched was passed over once for each task since the latest event,
\* and no more than so often before that.
AreCounted(since) ==
    \E k \in 0..Len(since) :
        /\ \A i \in k + 1..Len(since) : since[i].inTurn
        /\ passed <= Most * events + (Len(since) - k)
        /\ next # Nothing /\ next.turn = None /\ next.topic # watched => k = Len(since)

TurnsAreKept(since) ==
    /\ StandIn(since, places, card) /\ GivenLater(since)
    /\ AreSpread(since) /\ NextFits(since) /\ AreCounted(since)

RotationInv ==
    /\ RotationTypeOK
    /\ date <= events /\ \A t \in Topics : issued[t] <= date
    /\ RunsAreShort(places)
    /\ \E since \in Seq(Tasks) : TurnsAreKept(since)

LEMMA CatalogIs ==
    /\ Len(Catalog) \in Nat \ {0} /\ IsFiniteSet(Topics) /\ Cardinality(Topics) \in Nat
    /\ Cardinality(Topics) <= Len(Catalog) /\ Most \in Nat /\ Len(Catalog) <= WindowHolds
    /\ WindowHolds \in Nat \ {0} /\ WindowKeeps \in Nat \ {0} /\ MaxSkips \in Nat /\ MaxEvents \in Nat
    /\ None \notin Topics
<1>1. /\ Catalog \in Seq(Topics) /\ Catalog # <<>> /\ None \notin Topics /\ Len(Catalog) <= WindowHolds
      /\ WindowHolds \in Nat \ {0} /\ WindowKeeps \in Nat \ {0} /\ MaxSkips \in Nat /\ MaxEvents \in Nat
  BY TurnsHaveBounds, TurnsAreInView
<1>2. Len(Catalog) \in Nat \ {0} /\ Catalog \in [1..Len(Catalog) -> Topics] /\ DOMAIN Catalog = 1..Len(Catalog)
  BY <1>1
<1>3. \A t \in Topics : \E n \in 1..Len(Catalog) : Catalog[n] = t
  BY <1>2 DEF Topics, ToSet
<1>4. Catalog \in Surjection(1..Len(Catalog), Topics)
  BY <1>2, <1>3 DEF Surjection
<1>5. IsFiniteSet(1..Len(Catalog)) /\ Cardinality(1..Len(Catalog)) = Len(Catalog)
  BY <1>2, FS_Interval
<1>6. IsFiniteSet(Topics) /\ Cardinality(Topics) <= Len(Catalog)
  BY <1>4, <1>5, FS_Surjection
<1>7. Cardinality(Topics) \in Nat
  BY <1>6, FS_CardinalityType
<1>8. Most \in Nat
  BY <1>2 DEF Most
<1>. QED
  BY <1>1, <1>2, <1>6, <1>7, <1>8

\* No more turns come one after another than twice the other topics: of the later
\* half no two would be of one topic.
LEMMA TurnsAreFew ==
    ASSUME watched \in Topics, NEW since \in Seq(Tasks), AreSpread(since), NEW k \in 0..Len(since),
           \A i \in k + 1..Len(since) : since[i].inTurn
    PROVE  Len(since) - k <= Most
<1>. DEFINE n == Len(Catalog)  len == Len(since)
<1>1. n \in Nat \ {0} /\ len \in Nat /\ n <= WindowHolds /\ WindowHolds \in Nat
  BY CatalogIs
<1>2. SUFFICES ASSUME len - k >= 2 * n - 1 PROVE FALSE
  BY <1>1 DEF Most
<1>. DEFINE late == len - n + 1..len  others == Topics \ {watched}
            topicOf == [i \in late |-> since[i].topic]
<1>3. late \subseteq k + 1..len /\ late \subseteq 1..len
  BY <1>1, <1>2
<1>4. IsFiniteSet(late) /\ Cardinality(late) = n
  <2>1. len - n + 1 \in Int /\ len \in Int /\ len - (len - n + 1) + 1 = n /\ ~ (len - n + 1 > len)
    BY <1>1
  <2>. QED
    BY <2>1, FS_Interval
<1>5. IsFiniteSet(others) /\ Cardinality(others) < n
  <2>1. IsFiniteSet(Topics) /\ Cardinality(Topics) \in Nat /\ Cardinality(Topics) <= n
    BY CatalogIs
  <2>2. IsFiniteSet(others) /\ Cardinality(others) = Cardinality(Topics) - 1
    BY <2>1, FS_RemoveElement
  <2>. QED
    BY <1>1, <2>1, <2>2
<1>6. topicOf \in [late -> others]
  <2>1. \A i \in 1..len : since[i] \in Tasks
    OBVIOUS
  <2>2. \A i \in late : since[i].topic \in others
    <3>. HIDE DEF late
    <3>. QED
      BY <1>3, <2>1 DEF Tasks
  <2>. QED
    BY <2>2
<1>7. PICK x \in late, y \in late : x # y /\ topicOf[x] = topicOf[y]
  <2>. HIDE DEF late, others, topicOf
  <2>. QED
    BY <1>4, <1>5, <1>6, FS_PigeonHole
<1>8. ASSUME NEW i \in late, NEW j \in late, i < j, since[i].topic = since[j].topic PROVE FALSE
  <2>1. j \in 1..len /\ i \in 1..j - 1 /\ since[j].inTurn
    <3>1. i \in 1..len /\ j \in 1..len /\ j \in k + 1..len
      BY <1>3
    <3>2. i \in 1..j - 1
      BY <1>1, <1>8, <3>1
    <3>. QED
      BY <3>1, <3>2
  <2>2. 2 * i <= j \/ j - i >= WindowHolds
    BY <1>8, <2>1 DEF AreSpread
  <2>. QED
    BY <1>1, <1>2, <2>2
<1>9. x < y \/ y < x
  BY <1>1, <1>7
<1>. QED
  BY <1>7, <1>8, <1>9

\* Where the last task of a topic stands: at no task of it before.
LEMMA PlaceIs ==
    ASSUME places \in Seq(RotationEntries), card \in Topics \cup {None}, NEW t \in Topics
    PROVE  /\ Place(t) \in 0..Behind(places, card)
           /\ \A m \in 1..Behind(places, card) : TaskAt(places, card, m) = t => m <= Place(t)
<1>. DEFINE held == Len(places)  of == {n \in DOMAIN places : places[n].topic = t}
<1>1. held \in Nat /\ DOMAIN places = 1..held /\ None \notin Topics /\ t # None
  BY CatalogIs
<1>2. {0} \cup of \in SUBSET (0..held) /\ {0} \cup of # {}
  BY <1>1
<1>3. Max({0} \cup of) \in 0..held /\ \A n \in of : n <= Max({0} \cup of)
  <2>. HIDE DEF of
  <2>. QED
    BY <1>1, <1>2, GreatestIs
<1>4. CASE card = t
  <2>1. Place(t) = held + 1 /\ Behind(places, card) = held + 1
    BY <1>1, <1>4 DEF Place, Behind
  <2>. QED
    BY <1>1, <2>1
<1>5. CASE card # t
  <2>1. Place(t) = Max({0} \cup of)
    BY <1>5 DEF Place
  <2>2. Behind(places, card) \in held..held + 1
    BY <1>1 DEF Behind
  <2>3. ASSUME NEW m \in 1..Behind(places, card), TaskAt(places, card, m) = t PROVE m \in of
    BY <1>1, <1>5, <2>2, <2>3 DEF TaskAt, Behind
  <2>. HIDE DEF of
  <2>4. Place(t) \in 0..Behind(places, card)
    BY <1>1, <1>3, <2>1, <2>2
  <2>5. \A m \in 1..Behind(places, card) : TaskAt(places, card, m) = t => m <= Place(t)
    BY <1>3, <2>1, <2>3
  <2>. QED
    BY <2>4, <2>5
<1>. QED
  BY <1>4, <1>5

LEMMA PlaceHolds ==
    ASSUME places \in Seq(RotationEntries), card \in Topics \cup {None}, NEW t \in Topics, Place(t) # 0
    PROVE  TaskAt(places, card, Place(t)) = t
<1>. DEFINE held == Len(places)  of == {n \in DOMAIN places : places[n].topic = t}
<1>1. held \in Nat /\ DOMAIN places = 1..held
  OBVIOUS
<1>2. {0} \cup of \in SUBSET (0..held) /\ {0} \cup of # {}
  BY <1>1
<1>3. Max({0} \cup of) \in {0} \cup of
  <2>. HIDE DEF of
  <2>. QED
    BY <1>1, <1>2, GreatestIs
<1>4. CASE card = t
  BY <1>4 DEF Place, TaskAt
<1>5. CASE card # t
  <2>1. Place(t) \in of
    BY <1>3, <1>5 DEF Place
  <2>. QED
    BY <1>1, <2>1 DEF TaskAt
<1>. QED
  BY <1>4, <1>5

\* A topic the turns take while the topic watched waits was not handed out since,
\* or only before half of the tasks since, or a window ago.
LEMMA TurnFits ==
    ASSUME RotationTypeOK, NEW since \in Seq(Tasks), StandIn(since, places, card), GivenLater(since),
           NEW t \in Topics, t # watched, NEW behind, ~WaitedLonger(watched, t, behind),
           NEW i \in 1..Len(since), since[i].topic = t
    PROVE  2 * i <= Len(since) \/ Len(since) + 1 - i > WindowHolds
<1>. DEFINE all == Behind(places, card)  len == Len(since)
<1>1. /\ places \in Seq(RotationEntries) /\ card \in Topics \cup {None} /\ watched \in Topics
      /\ issued \in [Topics -> NotYet..MaxEvents] /\ WindowHolds \in Nat /\ MaxEvents \in Nat
  BY CatalogIs DEF RotationTypeOK, RotationEntries
<1>2. len \in Nat /\ all \in Nat /\ Seen = all /\ Len(places) <= all /\ Len(places) \in Nat
  BY <1>1 DEF Behind, Seen, InFlight
<1>3. issued[t] # NotYet /\ issued[watched] # NotYet /\ issued[t] = issued[watched]
  <2>1. issued[t] >= 0 /\ issued[t] >= issued[watched]
    BY DEF GivenLater
  <2>2. issued[t] \in NotYet..MaxEvents /\ issued[watched] \in NotYet..MaxEvents
    BY <1>1
  <2>. QED
    BY <1>1, <2>1, <2>2 DEF WaitedLonger, NotYet
<1>4. /\ Place(watched) \in 0..all /\ Place(t) \in 0..all
      /\ \A m \in 1..all : TaskAt(places, card, m) = t => m <= Place(t)
  BY <1>1, PlaceIs
<1>5. all - len + i >= 1 => all - len + i <= Place(t)
  <2>1. all - len + i >= 1 => all - len + i \in 1..all /\ TaskAt(places, card, all - len + i) = t
    BY <1>2 DEF StandIn
  <2>. QED
    BY <1>4, <2>1
<1>6. CASE Place(t) = 0
  <2>1. all - len + i < 1
    BY <1>2, <1>5, <1>6
  <2>2. Len(places) = WindowHolds
    BY <1>2, <2>1 DEF StandIn
  <2>. QED
    BY <1>1, <1>2, <2>1, <2>2
<1>7. CASE Place(t) # 0
  <2>1. Place(watched) # 0
    BY <1>3, <1>7 DEF WaitedLonger
  <2>2. /\ ~ (Distance(watched, behind) > Distance(t, behind))
        /\ Distance(watched, behind) = Distance(t, behind) => ~ (Place(watched) < Place(t))
    <3>1. ~ (IF Distance(watched, behind) # Distance(t, behind) THEN Distance(watched, behind) > Distance(t, behind)
             ELSE Place(watched) < Place(t))
      BY <1>3, <1>7, <2>1, Zenon DEF WaitedLonger
    <3>2. Distance(watched, behind) \in Nat /\ Distance(t, behind) \in Nat
      <4>1. all + 1 - Place(watched) \in Nat /\ all + 1 - Place(t) \in Nat
        BY <1>2, <1>4
      <4>. QED
        BY <1>2, <4>1 DEF Distance
    <3>. QED
      BY <3>1, <3>2
  <2>3. Place(watched) <= all - len
    <3>1. TaskAt(places, card, Place(watched)) = watched
      BY <1>1, <1>2, <2>1, PlaceHolds
    <3>2. ASSUME Place(watched) > all - len PROVE FALSE
      <4>. DEFINE j == Place(watched) - all + len
      <4>1. j \in 1..len /\ all - len + j = Place(watched) /\ Place(watched) >= 1
        BY <1>2, <1>4, <2>1, <3>2
      <4>2. TaskAt(places, card, Place(watched)) = since[j].topic
        BY <4>1 DEF StandIn
      <4>3. since[j] \in Tasks
        BY <4>1
      <4>. QED
        BY <3>1, <4>2, <4>3 DEF Tasks
    <3>. QED
      BY <1>2, <1>4, <3>2
  <2>4. all - len + i >= 1
    BY <1>2, <1>4, <2>1, <2>3
  <2>5. Distance(watched, behind) >= all + 1 - Place(watched) /\ Distance(watched, behind) \in Nat
    BY <1>2, <1>4 DEF Distance
  <2>6. Distance(t, behind) <= 2 * (all + 1 - Place(t)) /\ Distance(t, behind) \in Nat
    BY <1>2, <1>4 DEF Distance
  <2>7. Place(t) > Place(watched) /\ all + 1 - Place(t) <= len + 1 - i
    BY <1>2, <1>4, <1>5, <2>3, <2>4
  <2>8. Distance(t, behind) > len + 1
    <3>1. Distance(t, behind) > Distance(watched, behind)
      BY <2>2, <2>5, <2>6, <2>7
    <3>2. Distance(watched, behind) >= len + 1
      BY <1>2, <1>4, <2>3, <2>5
    <3>. QED
      BY <1>2, <2>5, <2>6, <3>1, <3>2
  <2>9. 2 * (len + 1 - i) > len + 1
    BY <1>2, <1>4, <2>6, <2>7, <2>8
  <2>. QED
    BY <1>2, <2>9
<1>. QED
  BY <1>6, <1>7

\* Of as many entries in a row as the answers kept need at most, so many are answers.
LEMMA AnswersAreEnough ==
    ASSUME NEW held \in Seq(RotationEntries), RunsAreShort(held), Len(held) > WindowHolds
    PROVE  Cardinality({n \in DOMAIN held : n > 1 /\ ~held[n].skipped}) >= WindowKeeps
<1>. DEFINE judged == {n \in DOMAIN held : n > 1 /\ ~held[n].skipped}
            most == MaxSkips + 1
            answer == [k \in 1..WindowKeeps |->
                          CHOOSE n \in (k - 1) * most + 2..k * most + 1 : n \in judged]
<1>1. /\ WindowKeeps \in Nat \ {0} /\ WindowHolds \in Nat /\ most \in Nat \ {0} /\ MaxSkips = most - 1
      /\ WindowKeeps * most <= WindowHolds /\ Len(held) \in Nat /\ DOMAIN held = 1..Len(held)
  BY CatalogIs, TurnsAreInView
<1>. HIDE DEF most
<1>2. ASSUME NEW k \in 1..WindowKeeps
      PROVE  \E n \in (k - 1) * most + 2..k * most + 1 : n \in judged
  <2>1. (k - 1) * most \in Nat /\ k * most = (k - 1) * most + most
    BY <1>1
  <2>2. WindowKeeps * most = k * most + (WindowKeeps - k) * most /\ (WindowKeeps - k) * most \in Nat
    BY <1>1
  <2>. DEFINE first == (k - 1) * most + 2
  <2>3. first \in 1..Len(held) - MaxSkips /\ first + MaxSkips = k * most + 1
    BY <1>1, <2>1, <2>2
  <2>4. PICK n \in first..first + MaxSkips : ~held[n].skipped
    BY <2>3 DEF RunsAreShort
  <2>5. n \in DOMAIN held /\ n > 1
    BY <1>1, <2>1, <2>3, <2>4
  <2>. QED
    BY <2>3, <2>4, <2>5
<1>3. ASSUME NEW k \in 1..WindowKeeps
      PROVE  answer[k] \in judged /\ answer[k] >= (k - 1) * most + 2 /\ answer[k] <= k * most + 1
  <2>. HIDE DEF judged
  <2>1. answer[k] \in (k - 1) * most + 2..k * most + 1 /\ answer[k] \in judged
    BY <1>2
  <2>2. (k - 1) * most \in Nat /\ k * most \in Nat
    BY <1>1
  <2>. QED
    BY <2>1, <2>2
<1>4. ASSUME NEW j \in 1..WindowKeeps, NEW k \in 1..WindowKeeps, j < k PROVE answer[j] # answer[k]
  <2>1. k - 1 - j \in Nat /\ (k - 1 - j) * most \in Nat /\ (k - 1) * most = j * most + (k - 1 - j) * most
    BY <1>1, <1>4
  <2>2. j * most \in Nat /\ (k - 1) * most \in Nat
    BY <1>1
  <2>3. answer[j] <= j * most + 1 /\ answer[k] >= (k - 1) * most + 2 /\ answer[j] \in judged /\ answer[k] \in judged
    BY <1>3
  <2>4. answer[j] \in Nat /\ answer[k] \in Nat
    BY <1>1, <2>3
  <2>. DEFINE a == j * most  b == (k - 1 - j) * most  c == (k - 1) * most
  <2>5. a \in Nat /\ b \in Nat /\ c = a + b /\ answer[j] <= a + 1 /\ answer[k] >= c + 2
    BY <2>1, <2>2, <2>3
  <2>. HIDE DEF a, b, c, answer, judged
  <2>. QED
    BY <2>4, <2>5
<1>5. answer \in Injection(1..WindowKeeps, judged)
  <2>1. answer \in [1..WindowKeeps -> judged]
    <3>. HIDE DEF judged
    <3>1. DOMAIN answer = 1..WindowKeeps
      OBVIOUS
    <3>2. answer = [k \in 1..WindowKeeps |-> answer[k]]
      OBVIOUS
    <3>. HIDE DEF answer
    <3>. QED
      BY <1>3, <3>2
  <2>2. \A j, k \in 1..WindowKeeps : j < k \/ k < j \/ j = k
    BY <1>1
  <2>3. \A j, k \in 1..WindowKeeps : answer[j] = answer[k] => j = k
    <3>. HIDE DEF answer
    <3>. QED
      BY <1>4, <2>2
  <2>. HIDE DEF answer, judged
  <2>. QED
    BY <2>1, <2>3 DEF Injection, IsInjective
<1>6. IsFiniteSet(judged) /\ Cardinality(judged) \in Nat
  <2>1. judged \in SUBSET (0..Len(held))
    BY <1>1
  <2>. HIDE DEF judged
  <2>. QED
    BY <1>1, <2>1, Finite
<1>7. IsFiniteSet(1..WindowKeeps) /\ Cardinality(1..WindowKeeps) = WindowKeeps
  <2>1. 1 \in Int /\ WindowKeeps \in Int /\ ~ (1 > WindowKeeps) /\ WindowKeeps - 1 + 1 = WindowKeeps
    BY <1>1
  <2>. QED
    BY <2>1, FS_Interval
<1>8. Cardinality(1..WindowKeeps) <= Cardinality(judged)
  <2>. HIDE DEF judged, answer
  <2>. QED
    BY <1>5, <1>6, <1>7, FS_Injection
<1>. QED
  BY <1>7, <1>8

\* The tasks skipped since the last answer are a run no longer than may be.
LEMMA RunGoesOn ==
    ASSUME RotationTypeOK, RunsAreShort(places), NEW skips \in BOOLEAN, NEW t \in Topics,
           skips => SkippedInARow < MaxSkips
    PROVE  RunsAreShort(Append(places, [topic |-> t, skipped |-> skips]))
<1>. DEFINE entry == [topic |-> t, skipped |-> skips]  grown == Append(places, entry)  held == Len(places)
            judged == {n \in DOMAIN places : ~places[n].skipped}
<1>1. places \in Seq(RotationEntries) /\ entry \in RotationEntries /\ MaxSkips \in Nat
  BY CatalogIs DEF RotationTypeOK, RotationEntries
<1>2. /\ Len(grown) = held + 1 /\ held \in Nat /\ DOMAIN places = 1..held
      /\ \A n \in 1..held : grown[n] = places[n]
      /\ grown[held + 1] = entry
  BY <1>1, EndsWith
<1>. HIDE DEF grown
<1>3. ASSUME NEW n \in 1..held + 1 - MaxSkips PROVE \E m \in n..n + MaxSkips : ~grown[m].skipped
  <2>1. CASE n <= held - MaxSkips
    <3>1. PICK m \in n..n + MaxSkips : ~places[m].skipped
      BY <1>1, <1>2, <2>1 DEF RunsAreShort
    <3>2. m \in 1..held
      BY <1>1, <1>2, <2>1, <3>1
    <3>. QED
      BY <1>2, <3>1, <3>2
  <2>2. CASE n = held + 1 - MaxSkips /\ ~skips
    <3>1. held + 1 \in n..n + MaxSkips /\ ~grown[held + 1].skipped
      BY <1>1, <1>2, <2>2
    <3>. QED
      BY <3>1
  <2>3. CASE n = held + 1 - MaxSkips /\ skips
    <3>1. held - Max({0} \cup judged) < MaxSkips
      BY <2>3 DEF SkippedInARow
    <3>2. {0} \cup judged \in SUBSET (0..held) /\ {0} \cup judged # {}
      BY <1>2
    <3>3. Max({0} \cup judged) \in {0} \cup judged
      <4>. HIDE DEF judged
      <4>. QED
        BY <1>2, <3>2, GreatestIs
    <3>. DEFINE m == Max({0} \cup judged)
    <3>4. m \in 0..held /\ m >= n /\ m >= 1
      <4>1. m \in 0..held
        BY <3>2, <3>3
      <4>. HIDE DEF m
      <4>. QED
        BY <1>1, <1>2, <2>3, <3>1, <4>1 DEF m
    <3>5. m \in judged
      BY <3>3, <3>4
    <3>6. m \in n..n + MaxSkips /\ m \in 1..held
      <4>. HIDE DEF m
      <4>. QED
        BY <1>1, <1>2, <2>3, <3>4
    <3>. HIDE DEF m
    <3>. QED
      BY <1>2, <3>5, <3>6
  <2>. QED
    BY <1>1, <1>2, <2>1, <2>2, <2>3
<1>. QED
  <2>1. \A n \in 1..Len(grown) - MaxSkips : \E m \in n..n + MaxSkips : ~grown[m].skipped
    <3>1. \A n \in 1..held + 1 - MaxSkips : \E m \in n..n + MaxSkips : ~grown[m].skipped
      BY ONLY <1>3
    <3>2. Len(grown) - MaxSkips = held + 1 - MaxSkips
      BY <1>1, <1>2
    <3>. QED
      BY ONLY <3>1, <3>2
  <2>2. RunsAreShort(grown)
    BY <2>1 DEF RunsAreShort
  <2>. QED
    BY <2>2 DEF grown

\* A full window lets go of its oldest entry.
LEMMA WindowSlides ==
    ASSUME RotationTypeOK, RunsAreShort(places), InFlight, NEW skips \in BOOLEAN,
           skips => SkippedInARow < MaxSkips
    PROVE  LET held == Remembered(skips) IN
           /\ held \in Seq(RotationEntries) /\ Len(held) <= WindowHolds /\ RunsAreShort(held)
           /\ \E gone \in {0, 1} :
                 /\ Len(held) = Len(places) + 1 - gone
                 /\ gone = 1 => Len(held) = WindowHolds
                 /\ Len(places) = WindowHolds => gone = 1
                 /\ \A m \in 1..Len(held) : held[m].topic = TaskAt(places, card, m + gone)
<1>. DEFINE entry == [topic |-> card, skipped |-> skips]  grown == Append(places, entry)  now == Len(places)
<1>1. /\ places \in Seq(RotationEntries) /\ card \in Topics /\ entry \in RotationEntries
      /\ MaxSkips \in Nat /\ WindowHolds \in Nat \ {0} /\ now <= WindowHolds
  BY CatalogIs DEF RotationTypeOK, RotationEntries, InFlight
<1>2. /\ grown \in Seq(RotationEntries) /\ Len(grown) = now + 1 /\ now \in Nat /\ DOMAIN grown = 1..now + 1
      /\ \A n \in 1..now : grown[n] = places[n]
      /\ grown[now + 1] = entry
  BY <1>1, EndsWith
<1>3. RunsAreShort(grown)
  BY <1>1, RunGoesOn
<1>4. \A m \in 1..now + 1 : grown[m].topic = TaskAt(places, card, m)
  BY <1>2 DEF TaskAt
<1>5. CASE now < WindowHolds
  <2>1. Remembered(skips) = grown
    <3>1. Len(grown) <= WindowHolds
      <4>. HIDE DEF grown
      <4>. QED
        BY <1>1, <1>2, <1>5
    <3>. QED
      BY <3>1 DEF Remembered
  <2>2. Len(grown) <= WindowHolds /\ Len(grown) = now + 1 - 0 /\ now # WindowHolds
        /\ \A m \in 1..Len(grown) : grown[m].topic = TaskAt(places, card, m + 0)
    <3>. HIDE DEF grown
    <3>. QED
      BY <1>1, <1>2, <1>4, <1>5
  <2>. HIDE DEF grown
  <2>. QED
    BY <1>2, <1>3, <2>1, <2>2
<1>6. CASE now = WindowHolds
  <2>1. Cardinality({n \in DOMAIN grown : n > 1 /\ ~grown[n].skipped}) >= WindowKeeps
    <3>. HIDE DEF grown
    <3>. QED
      BY <1>1, <1>2, <1>3, <1>6, AnswersAreEnough
  <2>2. Remembered(skips) = RemoveAt(grown, 1)
    <3>1. Remembered(skips) = RemoveAt(grown, LetGoOf(grown))
      BY <1>1, <1>2, <1>6 DEF Remembered
    <3>2. LetGoOf(grown) = 1
      <4>. HIDE DEF grown
      <4>. QED
        BY <2>1 DEF LetGoOf
    <3>. QED
      BY <3>1, <3>2
  <2>. HIDE DEF grown
  <2>. DEFINE held == RemoveAt(grown, 1)
  <2>3. /\ held \in Seq(RotationEntries) /\ Len(held) = now
        /\ \A n \in 1..now : held[n] = grown[n + 1]
    <3>1. 1 \in 1..Len(grown)
      BY <1>2
    <3>2. /\ held \in Seq(RotationEntries) /\ Len(held) = Len(grown) - 1
          /\ \A n \in 1..Len(grown) - 1 : held[n] = IF n < 1 THEN grown[n] ELSE grown[n + 1]
      BY <1>2, <3>1, RemovedAt
    <3>. QED
      BY <1>2, <3>2
  <2>. HIDE DEF held
  <2>4. RunsAreShort(held)
    <3>1. ASSUME NEW n \in 1..now - MaxSkips PROVE \E m \in n..n + MaxSkips : ~held[m].skipped
      <4>. DEFINE from == n + 1
      <4>1. PICK m \in from..from + MaxSkips : ~grown[m].skipped
        <5>1. from \in 1..Len(grown) - MaxSkips
          BY <1>1, <1>2
        <5>. HIDE DEF from
        <5>. QED
          BY <1>3, <5>1 DEF RunsAreShort
      <4>2. m - 1 \in n..n + MaxSkips /\ m - 1 \in 1..now /\ (m - 1) + 1 = m
        BY <1>1, <1>2, <4>1
      <4>. QED
        BY <2>3, <4>1, <4>2
    <3>. QED
      BY <2>3, <3>1 DEF RunsAreShort
  <2>5. \A m \in 1..now : held[m].topic = TaskAt(places, card, m + 1)
    BY <1>2, <1>4, <2>3
  <2>6. Len(held) <= WindowHolds /\ Len(held) = now + 1 - 1 /\ Len(held) = WindowHolds
    BY <1>1, <1>2, <1>6, <2>3
  <2>. QED
    BY <2>2, <2>3, <2>4, <2>5, <2>6 DEF held
<1>. QED
  BY <1>1, <1>2, <1>5, <1>6

\* A task that leaves the card stays the latest.
LEMMA StandAfter ==
    ASSUME RotationTypeOK, InFlight, NEW held \in Seq(RotationEntries), NEW gone \in {0, 1},
           Len(held) = Len(places) + 1 - gone, gone = 1 => Len(held) = WindowHolds,
           Len(places) = WindowHolds => gone = 1,
           \A m \in 1..Len(held) : held[m].topic = TaskAt(places, card, m + gone),
           NEW since \in Seq(Tasks), StandIn(since, places, card)
    PROVE  StandIn(since, held, None)
<1>. DEFINE all == Behind(places, card)  now == Behind(held, None)  len == Len(since)
<1>1. /\ all = Len(places) + 1 /\ now = Len(held) /\ now = all - gone
      /\ all \in Nat /\ now \in Nat /\ len \in Nat /\ gone \in Nat
  <2>1. places \in Seq(RotationEntries)
    BY DEF RotationTypeOK, RotationEntries
  <2>2. Len(places) \in Nat /\ Len(held) \in Nat
    BY <2>1
  <2>. QED
    BY <2>2 DEF Behind, InFlight
<1>2. ASSUME NEW i \in 1..len, now - len + i >= 1
      PROVE  TaskAt(held, None, now - len + i) = since[i].topic
  <2>. DEFINE m == now - len + i
  <2>1. m \in 1..Len(held) /\ m + gone = all - len + i /\ m + gone >= 1 /\ m # Len(held) + 1
    BY <1>1, <1>2
  <2>2. TaskAt(places, card, m + gone) = since[i].topic
    BY <2>1 DEF StandIn
  <2>3. held[m].topic = TaskAt(places, card, m + gone)
    <3>. HIDE DEF m
    <3>. QED
      BY <2>1
  <2>. QED
    BY <2>1, <2>2, <2>3 DEF TaskAt
<1>3. len <= now \/ Len(held) = WindowHolds
  BY <1>1 DEF StandIn
<1>. QED
  BY <1>2, <1>3 DEF StandIn

\* What comes of leaving the task on the card, if it is in flight.
LEMMA LeavingKeeps ==
    ASSUME RotationTypeOK, RunsAreShort(places), Leaves
    PROVE  /\ places' \in Seq(RotationEntries) /\ Len(places') <= WindowHolds /\ RunsAreShort(places')
           /\ \A since \in Seq(Tasks) : StandIn(since, places, card) => StandIn(since, places', None)
<1>1. CASE InFlight
  <2>1. SkippedInARow < MaxSkips /\ places' = Remembered(TRUE)
    BY <1>1 DEF Leaves
  <2>2. /\ places' \in Seq(RotationEntries) /\ Len(places') <= WindowHolds /\ RunsAreShort(places')
        /\ \E gone \in {0, 1} :
              /\ Len(places') = Len(places) + 1 - gone
              /\ gone = 1 => Len(places') = WindowHolds
              /\ Len(places) = WindowHolds => gone = 1
              /\ \A m \in 1..Len(places') : places'[m].topic = TaskAt(places, card, m + gone)
    BY <1>1, <2>1, WindowSlides
  <2>. QED
    BY <1>1, <2>2, StandAfter
<1>2. CASE ~InFlight
  BY <1>2 DEF Leaves, InFlight, RotationTypeOK, RotationEntries
<1>. QED
  BY <1>1, <1>2

LEMMA AnsweringKeeps ==
    ASSUME RotationTypeOK, RunsAreShort(places), InFlight, places' = Remembered(FALSE)
    PROVE  /\ places' \in Seq(RotationEntries) /\ Len(places') <= WindowHolds /\ RunsAreShort(places')
           /\ \A since \in Seq(Tasks) : StandIn(since, places, card) => StandIn(since, places', None)
<1>1. /\ places' \in Seq(RotationEntries) /\ Len(places') <= WindowHolds /\ RunsAreShort(places')
      /\ \E gone \in {0, 1} :
            /\ Len(places') = Len(places) + 1 - gone
            /\ gone = 1 => Len(places') = WindowHolds
            /\ Len(places) = WindowHolds => gone = 1
            /\ \A m \in 1..Len(places') : places'[m].topic = TaskAt(places, card, m + gone)
  BY WindowSlides
<1>. QED
  BY <1>1, StandAfter

\* A task handed out is the latest.
LEMMA StandWith ==
    ASSUME NEW held \in Seq(RotationEntries), NEW since \in Seq(Tasks), StandIn(since, held, None),
           NEW task \in Tasks
    PROVE  StandIn(Append(since, task), held, task.topic)
<1>. DEFINE more == Append(since, task)  all == Len(held)  len == Len(since)
<1>1. /\ more \in Seq(Tasks) /\ Len(more) = len + 1 /\ len \in Nat /\ all \in Nat
      /\ \A i \in 1..len : more[i] = since[i]
      /\ more[len + 1] = task
  BY EndsWith
<1>2. Behind(held, None) = all /\ Behind(held, task.topic) = all + 1
  BY CatalogIs DEF Behind, Tasks
<1>. HIDE DEF more
<1>3. ASSUME NEW i \in 1..len + 1, (all + 1) - (len + 1) + i >= 1
      PROVE  TaskAt(held, task.topic, (all + 1) - (len + 1) + i) = more[i].topic
  <2>. DEFINE m == all - len + i
  <2>1. (all + 1) - (len + 1) + i = m /\ m >= 1
    BY <1>1, <1>3
  <2>2. CASE i = len + 1
    BY <1>1, <2>1, <2>2 DEF TaskAt
  <2>3. CASE i \in 1..len
    <3>1. TaskAt(held, None, m) = since[i].topic
      BY <1>2, <2>1, <2>3 DEF StandIn
    <3>2. m # all + 1
      BY <1>1, <2>3
    <3>. QED
      BY <1>1, <2>1, <2>3, <3>1, <3>2 DEF TaskAt
  <2>. QED
    BY <1>1, <2>2, <2>3
<1>4. len + 1 <= all + 1 \/ Len(held) = WindowHolds
  BY <1>1, <1>2 DEF StandIn
<1>. QED
  <2>1. StandIn(more, held, task.topic)
    BY <1>1, <1>2, <1>3, <1>4 DEF StandIn
  <2>. QED
    BY <2>1 DEF more

LEMMA NoneStand ==
    ASSUME NEW held \in Seq(RotationEntries), NEW onCard
    PROVE  <<>> \in Seq(Tasks) /\ Len(<<>>) = 0 /\ StandIn(<<>>, held, onCard)
<1>1. Len(held) \in Nat /\ Len(<<>>) = 0
  OBVIOUS
<1>2. 0 <= Behind(held, onCard)
  BY <1>1 DEF Behind
<1>. QED
  BY <1>1, <1>2 DEF StandIn

\* A task taken off the card was the latest, and leaves those before it.
LEMMA OneLess ==
    ASSUME NEW since \in Seq(Tasks), Len(since) # 0
    PROVE  LET fewer == SubSeq(since, 1, Len(since) - 1) IN
           /\ fewer \in Seq(Tasks) /\ Len(fewer) = Len(since) - 1 /\ Len(since) \in Nat
           /\ \A i \in 1..Len(since) - 1 : fewer[i] = since[i]
<1>1. \A i \in 1..Len(since) :
          /\ SubSeq(since, 1, i - 1) \in Seq(Tasks) /\ Len(SubSeq(since, 1, i - 1)) = i - 1
          /\ \A n \in 1..i - 1 : SubSeq(since, 1, i - 1)[n] = since[n]
  OBVIOUS
<1>2. Len(since) \in 1..Len(since) /\ Len(since) \in Nat
  OBVIOUS
<1>. QED
  BY <1>1, <1>2

LEMMA StandWithout ==
    ASSUME NEW held \in Seq(RotationEntries), NEW onCard \in Topics, NEW since \in Seq(Tasks),
           StandIn(since, held, onCard), Len(since) # 0
    PROVE  StandIn(SubSeq(since, 1, Len(since) - 1), held, None)
<1>. DEFINE fewer == SubSeq(since, 1, Len(since) - 1)  all == Len(held)  len == Len(since)
<1>1. /\ fewer \in Seq(Tasks) /\ Len(fewer) = len - 1 /\ len \in Nat /\ all \in Nat
      /\ \A i \in 1..len - 1 : fewer[i] = since[i]
  BY OneLess
<1>2. Behind(held, None) = all /\ Behind(held, onCard) = all + 1
  BY CatalogIs DEF Behind
<1>. HIDE DEF fewer
<1>3. ASSUME NEW i \in 1..len - 1, all - (len - 1) + i >= 1
      PROVE  TaskAt(held, None, all - (len - 1) + i) = fewer[i].topic
  <2>. DEFINE m == (all + 1) - len + i
  <2>1. all - (len - 1) + i = m /\ m >= 1 /\ m # all + 1 /\ i \in 1..len
    BY <1>1, <1>3
  <2>2. TaskAt(held, onCard, m) = since[i].topic
    BY <1>2, <2>1 DEF StandIn
  <2>. QED
    BY <1>1, <2>1, <2>2 DEF TaskAt
<1>4. len - 1 <= all \/ Len(held) = WindowHolds
  BY <1>1, <1>2 DEF StandIn
<1>. QED
  <2>1. StandIn(fewer, held, None)
    BY <1>1, <1>2, <1>3, <1>4 DEF StandIn
  <2>. QED
    BY <2>1 DEF fewer

LEMMA RotationTypes ==
    ASSUME RotationTypeOK
    PROVE  /\ places \in Seq(RotationEntries) /\ Len(places) \in Nat /\ Len(places) <= WindowHolds
           /\ card \in Topics \cup {None} /\ watched \in Topics /\ passed \in Nat
           /\ next \in [topic : Topics, turn : {None, "watched", "others"}] \cup {Nothing}
           /\ issued \in [Topics -> NotYet..MaxEvents] /\ date \in 0..MaxEvents /\ events \in 0..MaxEvents
           /\ date \in Nat /\ events \in Nat /\ \A t \in Topics : issued[t] \in Int
           /\ MaxEvents \in Nat /\ Most \in Nat /\ Most * events \in Nat
           /\ Most * (events + 1) = Most * events + Most
<1>1. MaxEvents \in Nat /\ Most \in Nat
  BY CatalogIs
<1>2. /\ places \in Seq(RotationEntries) /\ Len(places) <= WindowHolds
      /\ card \in Topics \cup {None} /\ watched \in Topics /\ passed \in Nat
      /\ next \in [topic : Topics, turn : {None, "watched", "others"}] \cup {Nothing}
      /\ issued \in [Topics -> NotYet..MaxEvents] /\ date \in 0..MaxEvents /\ events \in 0..MaxEvents
  BY DEF RotationTypeOK, RotationEntries
<1>3. Len(places) \in Nat /\ date \in Nat /\ events \in Nat
  BY <1>1, <1>2
<1>4. \A t \in Topics : issued[t] \in Int
  BY <1>1, <1>2 DEF NotYet
<1>5. Most * events \in Nat /\ Most * (events + 1) = Most * events + Most
  BY <1>1, <1>3
<1>. QED
  BY <1>1, <1>2, <1>3, <1>4, <1>5

\* An event begins the count again: what was passed before it is within the bound.
LEMMA CountBegins ==
    ASSUME RotationTypeOK, NEW since \in Seq(Tasks), AreSpread(since), AreCounted(since)
    PROVE  passed <= Most * (events + 1)
<1>1. PICK k \in 0..Len(since) :
          /\ \A i \in k + 1..Len(since) : since[i].inTurn
          /\ passed <= Most * events + (Len(since) - k)
  BY DEF AreCounted
<1>2. watched \in Topics /\ passed \in Nat /\ Most \in Nat /\ Most * events \in Nat
      /\ Most * (events + 1) = Most * events + Most
  BY RotationTypes
<1>3. Len(since) - k <= Most
  BY <1>1, <1>2, TurnsAreFew
<1>4. Len(since) \in Nat /\ k \in Nat
  OBVIOUS
<1>. QED
  BY <1>1, <1>2, <1>3, <1>4

LEMMA RotationInitially == RotationInit => RotationInv
<1>. SUFFICES ASSUME RotationInit PROVE RotationInv
  OBVIOUS
<1>1. /\ places = <<>> /\ card = None /\ next = Nothing /\ date = 0 /\ events = 0
      /\ issued = [t \in Topics |-> NotYet] /\ watched \in Topics /\ passed = 0
  BY DEF RotationInit
<1>2. WindowHolds \in Nat /\ MaxEvents \in Nat /\ MaxSkips \in Nat /\ Most \in Nat
  BY CatalogIs
<1>3. places \in Seq(RotationEntries) /\ Len(places) = 0
  BY <1>1
<1>4. RotationTypeOK
  BY <1>1, <1>2, <1>3 DEF RotationTypeOK, RotationEntries, NotYet
<1>5. date <= events /\ \A t \in Topics : issued[t] <= date
  BY <1>1 DEF NotYet
<1>6. RunsAreShort(places)
  BY <1>2, <1>3 DEF RunsAreShort
<1>7. TurnsAreKept(<<>>) /\ <<>> \in Seq(Tasks)
  <2>1. <<>> \in Seq(Tasks) /\ Len(<<>>) = 0 /\ StandIn(<<>>, places, card)
    BY <1>3, NoneStand
  <2>2. AreCounted(<<>>)
    <3>1. passed <= Most * events + (0 - 0)
      BY <1>1, <1>2
    <3>. QED
      BY <1>1, <2>1, <3>1 DEF AreCounted
  <2>3. NextFits(<<>>)
    BY <1>1 DEF NextFits, Nothing, None
  <2>. QED
    BY <2>1, <2>2, <2>3 DEF TurnsAreKept, GivenLater, AreSpread
<1>. QED
  BY <1>4, <1>5, <1>6, <1>7 DEF RotationInv

\* Of two topics one at most waited longer than the other.
LEMMA OneWaitedLonger ==
    ASSUME RotationTypeOK, NEW t \in Topics, NEW than \in Topics, NEW behind, WaitedLonger(t, than, behind)
    PROVE  ~WaitedLonger(than, t, behind)
<1>1. /\ places \in Seq(RotationEntries) /\ card \in Topics \cup {None}
      /\ issued[t] \in Int /\ issued[than] \in Int
  BY RotationTypes
<1>2. Len(places) \in Nat /\ Behind(places, card) \in Nat /\ Seen \in Nat
  BY <1>1 DEF Behind, Seen
<1>3. Place(t) \in Nat /\ Place(than) \in Nat
  <2>1. Place(t) \in 0..Behind(places, card) /\ Place(than) \in 0..Behind(places, card)
    BY <1>1, PlaceIs
  <2>. QED
    BY <1>2, <2>1
<1>4. Distance(t, behind) \in Int /\ Distance(than, behind) \in Int
  BY <1>2, <1>3 DEF Distance
<1>. QED
  BY <1>1, <1>3, <1>4 DEF WaitedLonger

\* The topic of the next task is chosen, by turn or not.
LEMMA ChoiceKeeps ==
    ASSUME RotationTypeOK, next = Nothing, ByTurn \/ OutOfTurn, UNCHANGED <<watched, passed>>,
           NEW since \in Seq(Tasks), TurnsAreKept(since)
    PROVE  /\ next' \in [topic : Topics, turn : {None, "watched", "others"}] \cup {Nothing}
           /\ events' \in 0..MaxEvents /\ events' >= events
           /\ NextFits(since)' /\ AreCounted(since)'
<1>1. watched \in Topics /\ events \in 0..MaxEvents /\ MaxEvents \in Nat /\ Len(since) \in Nat
  BY RotationTypes
<1>2. CASE ByTurn
  <2>0. PICK turn \in Turns : next' \in {ChosenByTurn(t, turn.among) : t \in Oldest(turn.among, turn.behind)}
    BY <1>2 DEF ByTurn
  <2>1. PICK t \in Oldest(turn.among, turn.behind) : next' = ChosenByTurn(t, turn.among)
    BY <2>0
  <2>2. events' = events /\ passed' = passed /\ watched' = watched
    BY <1>2 DEF ByTurn
  <2>3. turn.among \subseteq Topics
    BY DEF Turns, Candidates, Standings
  <2>9. t \in turn.among
    BY DEF Oldest
  <2>4. /\ next'.topic = t /\ t \in Topics
        /\ next'.turn = IF t = watched THEN None ELSE IF watched \in turn.among THEN "watched" ELSE "others"
        /\ next' \in [topic : Topics, turn : {None, "watched", "others"}]
    BY <2>1, <2>3, <2>9 DEF ChosenByTurn
  <2>5. NextFits(since)'
    <3>. SUFFICES ASSUME next'.turn = "watched"
                  PROVE  /\ t # watched
                         /\ \A i \in 1..Len(since) : since[i].topic = t =>
                                2 * i <= Len(since) \/ Len(since) + 1 - i > WindowHolds
      BY <2>2, <2>4 DEF NextFits
    <3>1. t # watched /\ watched \in turn.among
      BY <2>4 DEF None
    <3>2. ~WaitedLonger(watched, t, turn.behind)
      <4>1. WaitedLonger(t, watched, turn.behind) \/ ~WaitedLonger(watched, t, turn.behind)
        BY <3>1 DEF Oldest
      <4>. QED
        BY <1>1, <2>4, <4>1, OneWaitedLonger
    <3>3. StandIn(since, places, card) /\ GivenLater(since)
      BY DEF TurnsAreKept
    <3>. QED
      BY <2>4, <3>1, <3>2, <3>3, TurnFits
  <2>6. AreCounted(since)'
    <3>1. PICK k \in 0..Len(since) :
              /\ \A i \in k + 1..Len(since) : since[i].inTurn
              /\ passed <= Most * events + (Len(since) - k)
      BY DEF TurnsAreKept, AreCounted
    <3>2. ~ (next'.turn = None /\ next'.topic # watched)
      BY <2>4 DEF None
    <3>. QED
      BY <2>2, <3>1, <3>2 DEF AreCounted, Most
  <2>. QED
    BY <1>1, <2>2, <2>4, <2>5, <2>6
<1>3. CASE OutOfTurn
  <2>1. /\ events < MaxEvents /\ events' = events + 1 /\ next' \in [topic : Topics, turn : {None}]
        /\ passed' = passed /\ watched' = watched
    BY <1>3 DEF OutOfTurn
  <2>2. next'.turn = None /\ next'.topic \in Topics
    BY <2>1
  <2>3. NextFits(since)'
    BY <2>2 DEF NextFits, None
  <2>4. passed <= Most * (events + 1)
    BY CountBegins DEF TurnsAreKept
  <2>5. AreCounted(since)'
    <3>1. /\ Len(since) \in 0..Len(since)
          /\ \A i \in Len(since) + 1..Len(since) : since[i].inTurn
          /\ passed' <= Most * events' + (Len(since) - Len(since))
      <4>1. Most * events' \in Nat /\ passed \in Nat
        BY <1>1, <2>1, RotationTypes
      <4>. QED
        BY <1>1, <2>1, <2>4, <4>1
    <3>. QED
      BY <2>1, <3>1 DEF AreCounted, Most
  <2>6. next' \in [topic : Topics, turn : {None, "watched", "others"}]
    BY <2>1
  <2>. QED
    BY <1>1, <2>1, <2>3, <2>5, <2>6
<1>. QED
  BY <1>2, <1>3

\* A task handed out: the topic watched begins to wait again, or one more passed it.
LEMMA HandOutKeeps ==
    ASSUME RotationTypeOK, date <= events, \A t \in Topics : issued[t] <= date, RunsAreShort(places),
           HandOutTurn, NEW since \in Seq(Tasks), TurnsAreKept(since)
    PROVE  \E later \in Seq(Tasks)' : TurnsAreKept(later)'
<1>1. /\ watched \in Topics /\ events \in Nat /\ date \in Nat /\ passed \in Nat /\ Len(since) \in Nat
      /\ issued \in [Topics -> NotYet..MaxEvents] /\ Most * events \in Nat /\ \A t \in Topics : issued[t] \in Int
  BY RotationTypes
<1>2. /\ next \in [topic : Topics, turn : {None, "watched", "others"}] /\ next # Nothing
      /\ card' = next.topic /\ next' = Nothing /\ events' = events /\ watched' = watched
      /\ issued' = [issued EXCEPT ![next.topic] = date]
      /\ passed' = IF next.topic = watched \/ next.turn = "others" THEN 0
                   ELSE IF next.turn = "watched" THEN passed + 1
                   ELSE passed
  BY RotationTypes DEF HandOutTurn, Issued
<1>3. next.topic \in Topics /\ next.topic # None /\ Seq(Tasks)' = Seq(Tasks)
  BY <1>2, CatalogIs DEF Tasks
<1>4. places' \in Seq(RotationEntries) /\ StandIn(since, places', None)
  BY LeavingKeeps DEF HandOutTurn, TurnsAreKept
<1>5. \A t \in Topics : issued'[t] = IF t = next.topic THEN date ELSE issued[t]
  BY <1>1, <1>2
<1>6. CASE next.topic = watched \/ next.turn = "others"
  <2>1. <<>> \in Seq(Tasks) /\ Len(<<>>) = 0 /\ StandIn(<<>>, places', card')
    BY <1>4, NoneStand
  <2>2. AreCounted(<<>>)'
    <3>1. passed' <= Most * events' + (0 - 0)
      BY <1>1, <1>2, <1>6
    <3>. QED
      BY <1>2, <2>1, <3>1 DEF AreCounted, Most
  <2>3. NextFits(<<>>)'
    BY <1>2 DEF NextFits, Nothing, None
  <2>4. StandIn(<<>>, places, card)'
    BY <2>1 DEF StandIn, TaskAt, Behind
  <2>5. TurnsAreKept(<<>>)'
    BY <2>1, <2>2, <2>3, <2>4 DEF TurnsAreKept, GivenLater, AreSpread
  <2>. QED
    BY <1>3, <2>1, <2>5
<1>7. CASE next.topic # watched /\ next.turn # "others"
  <2>. DEFINE task == [topic |-> next.topic, inTurn |-> next.turn = "watched"]
              len == Len(since)
  <2>1. task \in Tasks
    BY <1>3, <1>7 DEF Tasks
  <2>2. task.topic = next.topic /\ (task.inTurn <=> next.turn = "watched")
    OBVIOUS
  <2>. HIDE DEF task
  <2>11. PICK later : later = Append(since, task)
    OBVIOUS
  <2>3. /\ later \in Seq(Tasks) /\ Len(later) = len + 1 /\ len \in Nat
        /\ \A i \in 1..len : later[i] = since[i]
        /\ later[len + 1] = task
    BY <2>1, <2>11, EndsWith
  <2>4. StandIn(later, places, card)'
    <3>1. StandIn(later, places', task.topic)
      BY <1>4, <2>1, <2>11, StandWith
    <3>. QED
      BY <1>2, <2>2, <3>1 DEF StandIn, TaskAt, Behind
  <2>5. GivenLater(later)'
    <3>1. ASSUME NEW i \in 1..len + 1
          PROVE  issued'[later[i].topic] >= 0 /\ issued'[later[i].topic] >= issued'[watched]
      <4>1. issued'[watched] = issued[watched] /\ issued[watched] <= date
        BY <1>1, <1>5, <1>7
      <4>2. CASE i = len + 1
        BY <1>1, <1>3, <1>5, <2>2, <2>3, <4>1, <4>2
      <4>3. CASE i \in 1..len
        <5>1. /\ later[i] = since[i] /\ since[i].topic \in Topics
              /\ issued[since[i].topic] >= 0 /\ issued[since[i].topic] >= issued[watched]
          <6>1. since[i] \in Tasks
            BY <4>3
          <6>2. GivenLater(since)
            BY DEF TurnsAreKept
          <6>. QED
            BY <2>3, <4>3, <6>1, <6>2 DEF GivenLater, Tasks
        <5>2. issued'[later[i].topic] \in {date, issued[since[i].topic]}
          BY <1>5, <5>1
        <5>. QED
          BY <1>1, <4>1, <5>1, <5>2
      <4>. QED
        BY <2>3, <4>2, <4>3
    <3>. QED
      BY <1>2, <2>3, <3>1 DEF GivenLater
  <2>6. AreSpread(later)
    <3>1. ASSUME NEW j \in 1..len + 1, NEW i \in 1..j - 1, later[j].inTurn, later[i].topic = later[j].topic
          PROVE  2 * i <= j \/ j - i >= WindowHolds
      <4>1. i \in 1..len /\ later[i] = since[i]
        BY <2>3
      <4>2. CASE j \in 1..len
        <5>1. since[j].inTurn /\ since[i].topic = since[j].topic
          BY <2>3, <3>1, <4>1, <4>2
        <5>2. AreSpread(since)
          BY DEF TurnsAreKept
        <5>. QED
          BY <4>2, <5>1, <5>2 DEF AreSpread
      <4>3. CASE j = len + 1
        <5>1. next.turn = "watched" /\ since[i].topic = next.topic
          BY <2>2, <2>3, <3>1, <4>1, <4>3
        <5>2. NextFits(since)
          BY DEF TurnsAreKept
        <5>3. \/ 2 * i <= len \/ len + 1 - i > WindowHolds
              \/ 2 * i <= len + 1 \/ len + 1 - i >= WindowHolds
          BY <4>1, <5>1, <5>2 DEF NextFits
        <5>4. WindowHolds \in Nat
          BY CatalogIs
        <5>. QED
          BY <2>3, <4>1, <4>3, <5>3, <5>4
      <4>. QED
        BY <2>3, <4>2, <4>3
    <3>. QED
      BY <2>3, <3>1 DEF AreSpread
  <2>7. NextFits(later)'
    BY <1>2 DEF NextFits, Nothing, None
  <2>8. AreCounted(later)'
    <3>1. PICK k \in 0..len :
              /\ \A i \in k + 1..len : since[i].inTurn
              /\ passed <= Most * events + (len - k)
              /\ next.turn = None => k = len
      BY <1>2, <1>7 DEF TurnsAreKept, AreCounted
    <3>2. CASE next.turn = "watched"
      <4>1. \A i \in k + 1..len + 1 : later[i].inTurn
        BY <2>2, <2>3, <3>1, <3>2
      <4>2. k \in 0..len + 1 /\ passed' <= Most * events' + ((len + 1) - k)
        BY <1>1, <1>2, <1>7, <2>3, <3>1, <3>2
      <4>. QED
        BY <1>2, <2>3, <4>1, <4>2 DEF AreCounted, Most
    <3>3. CASE next.turn = None
      <4>1. len + 1 \in 0..len + 1 /\ \A i \in (len + 1) + 1..len + 1 : later[i].inTurn
        BY <2>3
      <4>2. passed' <= Most * events' + ((len + 1) - (len + 1))
        BY <1>1, <1>2, <1>7, <2>3, <3>1, <3>3 DEF None
      <4>. QED
        BY <1>2, <2>3, <4>1, <4>2 DEF AreCounted, Most
    <3>. QED
      BY <1>2, <1>7, <3>2, <3>3
  <2>9. AreSpread(later)'
    BY <2>6 DEF AreSpread
  <2>10. TurnsAreKept(later)'
    BY <2>4, <2>5, <2>7, <2>8, <2>9 DEF TurnsAreKept
  <2>. QED
    BY <1>3, <2>3, <2>10
<1>. QED
  BY <1>6, <1>7

\* A task taken off the card makes the wait one shorter, and is an event.
LEMMA DiscardKeeps ==
    ASSUME RotationTypeOK, Discard, NEW since \in Seq(Tasks), TurnsAreKept(since)
    PROVE  \E later \in Seq(Tasks)' : TurnsAreKept(later)'
<1>1. /\ places \in Seq(RotationEntries) /\ watched \in Topics /\ events \in Nat /\ passed \in Nat
      /\ Len(since) \in Nat /\ Most \in Nat
  BY RotationTypes
<1>2. /\ card \in Topics /\ card # None /\ card' = None /\ events' = events + 1
      /\ places' = places /\ next' = next /\ issued' = issued /\ watched' = watched /\ passed' = passed
  BY RotationTypes DEF Discard, InFlight
<1>3. Seq(Tasks)' = Seq(Tasks)
  BY <1>2 DEF Tasks
<1>4. passed <= Most * events' /\ Most * events' \in Nat
  BY <1>1, <1>2, CountBegins DEF TurnsAreKept
<1>5. CASE Len(since) = 0
  <2>1. StandIn(since, places, None)
    BY <1>1, <1>5 DEF StandIn, Behind
  <2>2. StandIn(since, places, card)' /\ GivenLater(since)' /\ AreSpread(since)' /\ NextFits(since)'
    BY <1>2, <1>5, <2>1 DEF StandIn, TaskAt, Behind, GivenLater, AreSpread, NextFits, TurnsAreKept
  <2>3. AreCounted(since)'
    <3>1. passed' <= Most * events' + (0 - 0)
      BY <1>1, <1>2, <1>4
    <3>. QED
      BY <1>5, <3>1 DEF AreCounted, Most
  <2>. QED
    BY <1>3, <2>2, <2>3 DEF TurnsAreKept
<1>6. CASE Len(since) # 0
  <2>. DEFINE len == Len(since)
  <2>1. PICK fewer : fewer = SubSeq(since, 1, Len(since) - 1)
    OBVIOUS
  <2>2. /\ fewer \in Seq(Tasks) /\ Len(fewer) = len - 1
        /\ \A i \in 1..len - 1 : fewer[i] = since[i]
    BY <1>6, <2>1, OneLess
  <2>3. StandIn(fewer, places, card)'
    <3>1. StandIn(fewer, places, None)
      BY <1>1, <1>2, <1>6, <2>1, StandWithout DEF TurnsAreKept
    <3>. QED
      BY <1>2, <3>1 DEF StandIn, TaskAt, Behind
  <2>4. GivenLater(fewer)'
    BY <1>1, <1>2, <2>2 DEF GivenLater, TurnsAreKept
  <2>5. AreSpread(fewer)'
    <3>1. ASSUME NEW j \in 1..len - 1, NEW i \in 1..j - 1, fewer[j].inTurn, fewer[i].topic = fewer[j].topic
          PROVE  2 * i <= j \/ j - i >= WindowHolds
      <4>1. j \in 1..len /\ i \in 1..len - 1 /\ fewer[j] = since[j] /\ fewer[i] = since[i]
        BY <1>1, <2>2
      <4>2. AreSpread(since)
        BY DEF TurnsAreKept
      <4>. QED
        BY <3>1, <4>1, <4>2 DEF AreSpread
    <3>. QED
      BY <2>2, <3>1 DEF AreSpread
  <2>6. NextFits(fewer)'
    <3>. SUFFICES ASSUME next.turn = "watched"
                  PROVE  /\ next.topic # watched
                         /\ \A i \in 1..len - 1 : since[i].topic = next.topic =>
                                2 * i <= len \/ len - i >= WindowHolds
      BY <1>1, <1>2, <2>2 DEF NextFits
    <3>1. /\ next.topic # watched
          /\ \A i \in 1..len : since[i].topic = next.topic =>
                2 * i <= len \/ len + 1 - i > WindowHolds
      BY <1>2 DEF NextFits, TurnsAreKept
    <3>2. WindowHolds \in Nat
      BY CatalogIs
    <3>3. ASSUME NEW i \in 1..len - 1, since[i].topic = next.topic
          PROVE  2 * i <= len \/ len - i >= WindowHolds
      <4>1. 2 * i <= len \/ len + 1 - i > WindowHolds
        BY <1>1, <3>1, <3>3
      <4>. QED
        BY <1>1, <3>2, <4>1
    <3>. QED
      BY <3>1, <3>3
  <2>7. AreCounted(fewer)'
    <3>1. len - 1 \in 0..len - 1 /\ \A i \in (len - 1) + 1..len - 1 : fewer[i].inTurn
      BY <1>1, <1>6
    <3>2. passed' <= Most * events' + ((len - 1) - (len - 1))
      BY <1>1, <1>2, <1>4
    <3>. QED
      BY <2>2, <3>1, <3>2 DEF AreCounted, Most
  <2>. QED
    BY <1>3, <2>2, <2>3, <2>4, <2>5, <2>6, <2>7 DEF TurnsAreKept
<1>. QED
  BY <1>5, <1>6

\* Steps that neither choose nor hand out a task: the task on the card may be
\* left or answered, and the task asked for let go.
LEMMA OthersKeep ==
    ASSUME RotationTypeOK, NEW since \in Seq(Tasks), TurnsAreKept(since),
           UNCHANGED <<issued, events, watched, passed>>,
           next' \in {next, Nothing}, card' \in {card, None}, StandIn(since, places, card)'
    PROVE  \E later \in Seq(Tasks)' : TurnsAreKept(later)'
<1>1. GivenLater(since)' /\ AreSpread(since)'
  BY DEF TurnsAreKept, GivenLater, AreSpread
<1>2. NextFits(since)'
  <2>1. CASE next' = Nothing
    BY <2>1 DEF NextFits, Nothing, None
  <2>2. CASE next' = next
    BY <2>2 DEF TurnsAreKept, NextFits
  <2>. QED
    BY <2>1, <2>2
<1>3. AreCounted(since)'
  BY DEF TurnsAreKept, AreCounted, Most
<1>4. Seq(Tasks)' = Seq(Tasks)
  BY DEF Tasks
<1>. QED
  BY <1>1, <1>2, <1>3, <1>4 DEF TurnsAreKept

LEMMA TurnsStep == ASSUME RotationInv, RotationNext PROVE \E later \in Seq(Tasks)' : TurnsAreKept(later)'
<1>1. /\ RotationTypeOK /\ date <= events /\ \A t \in Topics : issued[t] <= date
      /\ RunsAreShort(places)
  BY DEF RotationInv
<1>2. PICK since \in Seq(Tasks) : TurnsAreKept(since)
  BY DEF RotationInv
<1>3. StandIn(since, places, card)
  BY <1>2 DEF TurnsAreKept
<1>4. CASE AskTurn \/ AskTurnAhead
  <2>1. /\ next = Nothing /\ (ByTurn \/ OutOfTurn)
        /\ UNCHANGED <<issued, date, watched, passed>>
    BY <1>4 DEF AskTurn, AskTurnAhead
  <2>2. NextFits(since)' /\ AreCounted(since)'
    BY <1>1, <1>2, <2>1, ChoiceKeeps
  <2>3. StandIn(since, places, card)'
    <3>1. CASE AskTurn
      <4>1. StandIn(since, places', None) /\ card' = None
        BY <1>1, <1>3, <3>1, LeavingKeeps DEF AskTurn
      <4>. QED
        BY <4>1 DEF StandIn, TaskAt, Behind
    <3>2. CASE AskTurnAhead
      BY <1>3, <3>2 DEF AskTurnAhead, StandIn, TaskAt, Behind
    <3>. QED
      BY <1>4, <3>1, <3>2
  <2>4. GivenLater(since)' /\ AreSpread(since)' /\ Seq(Tasks)' = Seq(Tasks)
    BY <1>2, <2>1 DEF TurnsAreKept, GivenLater, AreSpread, Tasks
  <2>. QED
    BY <2>2, <2>3, <2>4 DEF TurnsAreKept
<1>5. CASE AwaitAhead
  <2>1. StandIn(since, places', None) /\ card' = None
    BY <1>1, <1>3, <1>5, LeavingKeeps DEF AwaitAhead
  <2>2. StandIn(since, places, card)'
    BY <2>1 DEF StandIn, TaskAt, Behind
  <2>. QED
    BY <1>1, <1>2, <1>5, <2>1, <2>2, OthersKeep DEF AwaitAhead
<1>6. CASE HandOutTurn
  BY <1>1, <1>2, <1>6, HandOutKeeps
<1>7. CASE LetTurnGo
  <2>1. StandIn(since, places, card)'
    BY <1>3, <1>7 DEF LetTurnGo, StandIn, TaskAt, Behind
  <2>. QED
    BY <1>1, <1>2, <1>7, <2>1, OthersKeep DEF LetTurnGo
<1>8. CASE AnswerTurn
  <2>1. StandIn(since, places', None) /\ card' = None
    BY <1>1, <1>3, <1>8, AnsweringKeeps DEF AnswerTurn
  <2>2. StandIn(since, places, card)'
    BY <2>1 DEF StandIn, TaskAt, Behind
  <2>. QED
    BY <1>1, <1>2, <1>8, <2>1, <2>2, OthersKeep DEF AnswerTurn
<1>9. CASE Discard
  BY <1>1, <1>2, <1>9, DiscardKeeps
<1>10. CASE NextDate
  <2>1. events' = events + 1 /\ UNCHANGED <<places, card, next, issued, watched, passed>>
    BY <1>10 DEF NextDate
  <2>2. /\ StandIn(since, places, card)' /\ GivenLater(since)' /\ AreSpread(since)' /\ NextFits(since)'
        /\ Seq(Tasks)' = Seq(Tasks)
    BY <1>2, <2>1 DEF TurnsAreKept, StandIn, TaskAt, Behind, GivenLater, AreSpread, NextFits, Tasks
  <2>3. AreCounted(since)'
    <3>1. passed <= Most * events' /\ Most * events' \in Nat /\ passed \in Nat /\ Len(since) \in Nat
      <4>1. Most \in Nat /\ events \in Nat /\ passed \in Nat
        BY <1>1, RotationTypes
      <4>. QED
        BY <1>1, <1>2, <2>1, <4>1, CountBegins DEF TurnsAreKept
    <3>2. /\ Len(since) \in 0..Len(since) /\ \A i \in Len(since) + 1..Len(since) : since[i].inTurn
          /\ passed' <= Most * events' + (Len(since) - Len(since))
      BY <2>1, <3>1
    <3>. QED
      BY <2>1, <3>2 DEF AreCounted, Most
  <2>. QED
    BY <2>2, <2>3 DEF TurnsAreKept
<1>. QED
  BY <1>4, <1>5, <1>6, <1>7, <1>8, <1>9, <1>10 DEF RotationNext

LEMMA RotationTypesStep ==
    ASSUME RotationInv, RotationNext
    PROVE  /\ RotationTypeOK' /\ date' <= events' /\ \A t \in Topics : issued'[t] <= date'
           /\ RunsAreShort(places')
<1>1. /\ RotationTypeOK /\ date <= events /\ \A t \in Topics : issued[t] <= date
      /\ RunsAreShort(places)
  BY DEF RotationInv
<1>2. /\ places \in Seq(RotationEntries) /\ Len(places) <= WindowHolds
      /\ card \in Topics \cup {None} /\ watched \in Topics /\ passed \in Nat
      /\ next \in [topic : Topics, turn : {None, "watched", "others"}] \cup {Nothing}
      /\ issued \in [Topics -> NotYet..MaxEvents] /\ date \in 0..MaxEvents /\ events \in 0..MaxEvents
      /\ date \in Nat /\ events \in Nat /\ MaxEvents \in Nat
  BY <1>1, RotationTypes
<1>3. PICK since \in Seq(Tasks) : TurnsAreKept(since)
  BY DEF RotationInv
<1>. DEFINE InWindow == places' \in Seq(RotationEntries) /\ Len(places') <= WindowHolds /\ RunsAreShort(places')
            IsDated == /\ issued' \in [Topics -> NotYet..MaxEvents] /\ date' \in 0..MaxEvents
                       /\ date' <= events' /\ \A t \in Topics : issued'[t] <= date'
            IsTyped == /\ card' \in Topics \cup {None} /\ watched' \in Topics /\ passed' \in Nat
                       /\ next' \in [topic : Topics, turn : {None, "watched", "others"}] \cup {Nothing}
                       /\ events' \in 0..MaxEvents
<1>4. SUFFICES InWindow /\ IsDated /\ IsTyped
  BY DEF RotationTypeOK, RotationEntries
<1>5. CASE AskTurn \/ AskTurnAhead
  <2>1. next = Nothing /\ (ByTurn \/ OutOfTurn) /\ UNCHANGED <<issued, date, watched, passed>>
    BY <1>5 DEF AskTurn, AskTurnAhead
  <2>2. /\ next' \in [topic : Topics, turn : {None, "watched", "others"}] \cup {Nothing}
        /\ events' \in 0..MaxEvents /\ events' >= events
    BY <1>1, <1>3, <2>1, ChoiceKeeps
  <2>3. InWindow /\ card' \in Topics \cup {None}
    <3>1. CASE AskTurn
      BY <1>1, <3>1, LeavingKeeps DEF AskTurn
    <3>2. CASE AskTurnAhead
      BY <1>1, <1>2, <3>2 DEF AskTurnAhead
    <3>. QED
      BY <1>5, <3>1, <3>2
  <2>4. date' <= events'
    BY <1>1, <1>2, <2>1, <2>2
  <2>. QED
    BY <1>1, <1>2, <2>1, <2>2, <2>3, <2>4
<1>6. CASE AwaitAhead
  <2>1. InWindow
    BY <1>1, <1>6, LeavingKeeps DEF AwaitAhead
  <2>. QED
    BY <1>1, <1>2, <1>6, <2>1 DEF AwaitAhead
<1>7. CASE HandOutTurn
  <2>1. InWindow
    BY <1>1, <1>7, LeavingKeeps DEF HandOutTurn
  <2>2. /\ next \in [topic : Topics, turn : {None, "watched", "others"}] /\ card' = next.topic
        /\ next' = Nothing /\ date' = date /\ events' = events /\ watched' = watched
        /\ issued' = [issued EXCEPT ![next.topic] = date] /\ passed' \in {0, passed, passed + 1}
    BY <1>2, <1>7 DEF HandOutTurn, Issued
  <2>3. next.topic \in Topics /\ date \in NotYet..MaxEvents
    BY <1>2, <2>2 DEF NotYet
  <2>4. IsDated
    BY <1>1, <1>2, <2>2, <2>3
  <2>. QED
    BY <1>2, <2>1, <2>2, <2>3, <2>4
<1>8. CASE LetTurnGo
  BY <1>1, <1>2, <1>8 DEF LetTurnGo
<1>9. CASE AnswerTurn
  <2>1. InWindow
    BY <1>1, <1>9, AnsweringKeeps DEF AnswerTurn
  <2>. QED
    BY <1>1, <1>2, <1>9, <2>1 DEF AnswerTurn
<1>10. CASE Discard
  <2>1. events' = events + 1 /\ events' \in 0..MaxEvents /\ date <= events'
    BY <1>1, <1>2, <1>10 DEF Discard
  <2>. QED
    BY <1>1, <1>2, <1>10, <2>1 DEF Discard
<1>11. CASE NextDate
  <2>1. /\ events' = events + 1 /\ events' \in 0..MaxEvents /\ date' = date + 1 /\ date' <= events'
        /\ date' \in 0..MaxEvents
    BY <1>1, <1>2, <1>11 DEF NextDate
  <2>2. \A t \in Topics : issued[t] \in Int
    BY <1>1, RotationTypes
  <2>3. \A t \in Topics : issued[t] <= date'
    BY <1>1, <1>2, <2>1, <2>2
  <2>. QED
    BY <1>1, <1>2, <1>11, <2>1, <2>3 DEF NextDate
<1>. QED
  BY <1>5, <1>6, <1>7, <1>8, <1>9, <1>10, <1>11 DEF RotationNext

LEMMA RotationStep == RotationInv /\ [RotationNext]_rotation_vars => RotationInv'
<1>. SUFFICES ASSUME RotationInv, [RotationNext]_rotation_vars PROVE RotationInv'
  OBVIOUS
<1>1. CASE RotationNext
  BY <1>1, TurnsStep, RotationTypesStep DEF RotationInv
<1>2. CASE UNCHANGED rotation_vars
  <2>1. UNCHANGED <<places, card, next, issued, date, events, watched, passed>>
    BY <1>2 DEF rotation_vars
  <2>2. RotationTypeOK' /\ date' <= events' /\ \A t \in Topics : issued'[t] <= date'
    BY <2>1 DEF RotationInv, RotationTypeOK
  <2>3. PICK since \in Seq(Tasks) : TurnsAreKept(since)
    BY DEF RotationInv
  <2>4. StandIn(since, places, card)'
    BY <2>1, <2>3 DEF TurnsAreKept, StandIn, TaskAt, Behind
  <2>5. \E later \in Seq(Tasks)' : TurnsAreKept(later)'
    BY <2>1, <2>3, <2>4, OthersKeep DEF RotationInv
  <2>. QED
    BY <2>1, <2>2, <2>5 DEF RotationInv, RunsAreShort
<1>. QED
  BY <1>1, <1>2

LEMMA ComesRound == RotationInv => EveryTopicComesRound
<1>. SUFFICES ASSUME RotationInv PROVE EveryTopicComesRound
  OBVIOUS
<1>1. PICK since \in Seq(Tasks) : TurnsAreKept(since)
  BY DEF RotationInv
<1>2. passed <= Most * (events + 1)
  BY <1>1, CountBegins DEF RotationInv, TurnsAreKept
<1>. QED
  BY <1>2 DEF RotationInv, EveryTopicComesRound, Most

\* While the window holds a task of every topic and no run of skipped tasks
\* pushes others out of it, a topic the turns may take comes round between two
\* events within twice as many turns as there are other topics (oldest).
THEOREM TurnsComeRound == RotationSpec => []EveryTopicComesRound
<1>. QED
  BY RotationInitially, RotationStep, ComesRound, PTL DEF RotationSpec
=============================================================================
