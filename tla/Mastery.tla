------------------------------ MODULE Mastery -------------------------------
(***************************************************************************)
(* How a topic is mastered and how that is lost                            *)
(* (internal/domain/profile/answer.go, master): the runs of its answers,   *)
(* the level it is held at, and the masteries an earlier rule left in the  *)
(* file, which the first answer clears.                                    *)
(*                                                                         *)
(* Whether a level clears the cautious estimate is arithmetic on real      *)
(* numbers: after any right and unaided answer any of the levels the topic *)
(* is taught at, up to the task's, may.                                    *)
(***************************************************************************)
EXTENDS Integers

CONSTANTS
    MetTopics,          \* the topics
    Levels,             \* the levels of the tasks, by their order
    MasteryAnswers,     \* how many answers a topic needs
    MasteryLostAfter,   \* how many wrong answers in a row lose it
    MaxRun              \* bound: how many answers in a row are wrong

NotMastered == 0

ASSUME MasteryHasRules ==
    /\ Levels \subseteq Nat \ {NotMastered}
    /\ MasteryAnswers \in Nat /\ MasteryLostAfter \in Nat \ {0} /\ MaxRun \in Nat

VARIABLES
    cautious,   \* MasteryRule: whether the cautious estimate declared the masteries
    level,      \* MasteredLevel of every topic, or NotMastered
    streak,     \* WrongStreak
    solved,     \* Answers, as far as MasteryAnswers
    run,        \* history: how many answers were wrong since the last right one
    best        \* history: the hardest task solved unaided since the topic was last lost

mastery_vars == <<cautious, level, streak, solved, run, best>>

\* A new profile is the cautious estimate's; a file of the earlier rule keeps
\* masteries of its own, whatever answers its topics have behind them.
MasteryInit ==
    /\ cautious \in BOOLEAN
    /\ level \in [MetTopics -> IF cautious THEN {NotMastered} ELSE Levels \cup {NotMastered}]
    /\ streak \in [MetTopics -> IF cautious THEN {0} ELSE 0..1]
    /\ solved \in [MetTopics -> IF cautious THEN {0} ELSE 0..MasteryAnswers]
    /\ run = streak
    /\ best = [t \in MetTopics |-> NotMastered]

\* Mutant: a right answer with the hint leaves the run of wrong answers be.
StreakByUnaided(t, correct, aided) ==
    IF ~correct THEN streak[t] + 1 ELSE IF aided THEN streak[t] ELSE 0

\* master: a right answer ends the run, with the hint or without.
Streak(t, correct, aided) == IF correct THEN 0 ELSE streak[t] + 1

\* masteredAtOrAbove: a level at or below the one held adds nothing.
HeldAt(held, clears) == IF clears > held THEN clears ELSE held

\* Mutant: the masteries of the earlier rule are left where they are.
KeptEarlier == level

\* clearEarlierMasteries.
Cleared == IF cautious THEN level ELSE [t \in MetTopics |-> NotMastered]

\* MasteredAt: a level at or below the task's, or none.
MayClear(t, task, correct, aided) ==
    IF correct /\ ~aided /\ solved'[t] >= MasteryAnswers
    THEN {l \in Levels : l <= task} \cup {NotMastered} ELSE {NotMastered}

\* apply and master, of one answer.
Judge(t, task, correct, aided) ==
    /\ correct \/ run[t] < MaxRun
    /\ cautious' = TRUE
    /\ solved' = [solved EXCEPT ![t] = IF @ < MasteryAnswers THEN @ + 1 ELSE @]
    /\ streak' = [streak EXCEPT ![t] = Streak(t, correct, aided)]
    /\ \E clears \in MayClear(t, task, correct, aided) :
           level' = [Cleared EXCEPT
               ![t] = IF streak'[t] >= MasteryLostAfter THEN NotMastered ELSE HeldAt(@, clears)]
    /\ run' = [run EXCEPT ![t] = IF correct THEN 0 ELSE @ + 1]
    /\ best' = [best EXCEPT ![t] =
           IF run'[t] >= MasteryLostAfter THEN NotMastered
           ELSE IF correct /\ ~aided /\ task > @ THEN task ELSE @]

MasteryNext ==
    \E t \in MetTopics, task \in Levels, correct, aided \in BOOLEAN : Judge(t, task, correct, aided)

MasterySpec == MasteryInit /\ [][MasteryNext]_mastery_vars

-----------------------------------------------------------------------------

MasteryTypeOK ==
    /\ cautious \in BOOLEAN
    /\ level \in [MetTopics -> Levels \cup {NotMastered}]
    /\ streak \in [MetTopics -> Nat]
    /\ solved \in [MetTopics -> 0..MasteryAnswers]
    /\ run \in [MetTopics -> Nat]
    /\ best \in [MetTopics -> Levels \cup {NotMastered}]

\* A mastery that counts was earned: by answers enough, by a task of its level
\* or above solved unaided since the topic was last lost, and with no two wrong
\* answers in a row since; none is left of the earlier rule (master,
\* clearEarlierMasteries).
MasteryIsEarned ==
    cautious => \A t \in MetTopics : level[t] # NotMastered =>
        /\ solved[t] = MasteryAnswers
        /\ level[t] <= best[t]
        /\ run[t] < MasteryLostAfter

\* A mastery that counts never moves down, and is lost only by wrong answers in
\* a row in its own topic: one is a slip, and a right answer between two, with
\* the hint or without, makes each of them one (MasteryLostAfter).
LostByARunAlone ==
    [][\A t \in MetTopics : cautious /\ level'[t] < level[t] =>
          level'[t] = NotMastered /\ run'[t] >= MasteryLostAfter]_mastery_vars
=============================================================================
