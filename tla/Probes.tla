------------------------------- MODULE Probes -------------------------------
(***************************************************************************)
(* When a topic on pause is probed (internal/domain/tutor/pause.go): one   *)
(* task in ProbeEvery after the trial series, by the count of the tasks    *)
(* behind the child, which is read while a task waits for its answer, is   *)
(* written ahead, let go of, or is taken off the card.                     *)
(*                                                                         *)
(* Which topics are on pause and whether one may be probed is any choice.  *)
(***************************************************************************)
EXTENDS Integers

CONSTANTS
    TrialAnswers,   \* how many answers the trial series takes
    ProbeEvery,     \* one task in how many is a probe
    MaxTasks        \* bound: how many tasks are handed out

ASSUME ProbesHaveTurns == TrialAnswers \in Nat /\ ProbeEvery \in Nat \ {0} /\ MaxTasks \in Nat

VARIABLES
    answers,    \* Ratings.Answers
    skipped,    \* Skipped of every topic, added up
    discarded,  \* Discarded of every topic, added up
    inFlight,   \* how many tasks on the card wait for their answer, one or none
    asked,      \* the task asked for or kept: none, a probe or another
    probed,     \* history: the task that was the last probe, 0 if none was
    given       \* history: how many tasks were handed out

probe_vars == <<answers, skipped, discarded, inFlight, asked, probed, given>>

ProbesInit ==
    /\ answers = 0 /\ skipped = 0 /\ discarded = 0
    /\ inFlight = 0 /\ asked = "none"
    /\ probed = 0 /\ given = 0

\* Mutant: a task taken off the card for its seal is not counted.
TasksBehindUndiscarded == answers + skipped + inFlight

\* tasksBehind.
TasksBehind == answers + skipped + discarded + inFlight

\* probeDue.
ProbeDue ==
    /\ answers >= TrialAnswers
    /\ TasksBehind > TrialAnswers
    /\ TasksBehind % ProbeEvery = ProbeEvery - 1

\* choose: a failure worked over comes before a probe's turn, and nothing may
\* be on pause.
Chosen == {"other"} \cup (IF ProbeDue THEN {"probe"} ELSE {})

\* next_task: the brief is built before the task on the card is left.
AskNow ==
    /\ asked = "none"
    /\ asked' \in Chosen
    /\ skipped' = skipped + inFlight
    /\ inFlight' = 0
    /\ UNCHANGED <<answers, discarded, probed, given>>

\* prepare_task: the task on the card, if there is one, stays there.
AskAhead ==
    /\ asked = "none"
    /\ asked' \in Chosen
    /\ UNCHANGED <<answers, skipped, discarded, inFlight, probed, given>>

\* handOut.
HandOut ==
    /\ asked # "none" /\ given < MaxTasks
    /\ skipped' = skipped + inFlight
    /\ inFlight' = 1
    /\ given' = given + 1
    /\ probed' = IF asked = "probe" THEN given + 1 ELSE probed
    /\ asked' = "none"
    /\ UNCHANGED <<answers, discarded>>

\* The request ends without a task, or the task kept no longer fits.
LetGo ==
    /\ asked # "none"
    /\ asked' = "none"
    /\ UNCHANGED <<answers, skipped, discarded, inFlight, probed, given>>

\* awaitAhead: the task on the card is left, for the one being written.
Await ==
    /\ asked # "none" /\ inFlight = 1
    /\ skipped' = skipped + 1
    /\ inFlight' = 0
    /\ UNCHANGED <<answers, discarded, asked, probed, given>>

AnswerCard ==
    /\ inFlight = 1
    /\ answers' = answers + 1
    /\ inFlight' = 0
    /\ UNCHANGED <<skipped, discarded, asked, probed, given>>

\* DiscardTask, of a task that had no answer yet.
DiscardTask ==
    /\ inFlight = 1
    /\ discarded' = discarded + 1
    /\ inFlight' = 0
    /\ UNCHANGED <<answers, skipped, asked, probed, given>>

ProbesNext ==
    AskNow \/ AskAhead \/ HandOut \/ LetGo \/ Await \/ AnswerCard \/ DiscardTask

ProbesSpec == ProbesInit /\ [][ProbesNext]_probe_vars

-----------------------------------------------------------------------------

ProbesTypeOK ==
    /\ answers \in Nat /\ skipped \in Nat /\ discarded \in Nat
    /\ given \in Nat /\ probed \in Nat
    /\ inFlight \in {0, 1} /\ asked \in {"none", "probe", "other"}

\* Between two probes the child is handed ProbeEvery - 1 other tasks at least,
\* however the tasks are written ahead, left, let go of or taken off the card
\* (probeDue: "a task written ahead and one asked for in its place take the
\* same turn").
ProbesAreApart ==
    [][probed' # probed => probed = 0 \/ probed' - probed >= ProbeEvery]_probe_vars
=============================================================================
