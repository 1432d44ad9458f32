------------------------------ MODULE Solvers ------------------------------
(***************************************************************************)
(* The program that proves a task's answer is run twice, the options under *)
(* shifted labels the second time, and has to point at one text both times *)
(* (solver.go, verdict.go and options.go of internal/domain/solver).  Each *)
(* run takes one of a few slots, or is refused after a wait, and is stopped*)
(* by a wall clock (starlark.go and classify.go of internal/infra/         *)
(* starlark), so what becomes of a program could turn on the programs      *)
(* beside it.                                                              *)
(*                                                                         *)
(* A program is the kind of answer it gives and the work of one run; a     *)
(* run on a processor of its own does a unit of work in a unit of time.    *)
(***************************************************************************)
EXTENDS Integers, FiniteSets

CONSTANTS
    Judged,         \* the tasks that may be examined at once
    Concurrency,    \* how many runs may be in flight at once
    Processors,     \* the processors the instance has
    SlotWait,       \* Wait: how long a run waits for a slot
    RunTime,        \* Timeout: the wall clock of a run
    StepBudget,     \* Steps, in units of work
    Works           \* the work of a run

ASSUME OneProcessorEach == Processors \in Nat \ {0} /\ Concurrency \in 1..Processors
ASSUME LimitsArePositive == {SlotWait, RunTime, StepBudget} \subseteq Nat \ {0} /\ Works \subseteq Nat \ {0}

VARIABLES
    slots,          \* the slots taken
    judge           \* where the verdict on each task is

solver_vars == <<slots, judge>>

\* Count and relabel: the places of the options, from zero, and how far they move.
Count == 5
Relabel == 2

\* Relabelled, and Rotated: where what stood at a place stands in the second run.
Relabelled(place) == (place + Relabel) % Count

\* What a program gives: the place of the text it works out, a letter written
\* out by hand, the place the text would have if the list were mirrored, several
\* options or none, or what is no answer at all.  Too long a source is never run.
Kinds == {"follows", "letter", "mirrors", "several", "fails", "oversized"}
Programs == [kind : Kinds, work : Works]

Outcomes == {"agreed", "disagreed", "found", "failed", "timeout", "bad_source", "busy", "gone"}

NotJudged ==
    [pc |-> "idle", program |-> [kind |-> "fails", work |-> 1], run |-> 1, first |-> 0,
     gone |-> FALSE, waited |-> 0, spent |-> 0, done |-> 0, outcome |-> "none"]

SolversTypeOK ==
    /\ slots \in Nat
    /\ judge \in [Judged ->
           [pc : {"idle", "asking", "waiting", "running", "ended"}, program : Programs \cup {NotJudged.program},
            run : 1..2, first : 0..(Count - 1), gone : BOOLEAN, waited : 0..SlotWait,
            spent : 0..RunTime, done : Nat, outcome : Outcomes \cup {"none"}]]

SolversInit ==
    /\ slots = 0
    /\ judge = [j \in Judged |-> NotJudged]

In(pc) == {j \in Judged : judge[j].pc = pc}
Running == In("running")

\* The text the program works out stands first; every place is as good.
Place == 0

\* lettersOf: the place one run points at, by where the text stands in it.
PointsAt(program, place) ==
    CASE program.kind = "follows" -> place
      [] program.kind = "mirrors" -> Count - 1 - place
      [] OTHER -> Place

\* One: the run ran to its end and points at exactly one option.
One(program) == program.kind \in {"follows", "letter", "mirrors"}

\* Failed, found: what a run that points at no one option comes to.
Short(program) == IF program.kind = "several" THEN "found" ELSE "failed"

-----------------------------------------------------------------------------

Verdict(j, outcome) ==
    [judge EXCEPT ![j] = [NotJudged EXCEPT !.pc = "ended", !.program = judge[j].program, !.outcome = outcome]]

\* Verdict, Run: the first run of a program is asked for.
Examine(j, program) ==
    /\ judge[j].pc = "idle"
    /\ judge' = [judge EXCEPT ![j].pc = "asking", ![j].program = program]
    /\ UNCHANGED slots

\* Run: nobody is there to be answered, or the source is too long to be read,
\* or a slot is waited for.
Run(j) ==
    /\ judge[j].pc = "asking"
    /\ judge' = IF judge[j].gone THEN Verdict(j, "gone")
                ELSE IF judge[j].program.kind = "oversized" THEN Verdict(j, "bad_source")
                ELSE [judge EXCEPT ![j].pc = "waiting"]
    /\ UNCHANGED slots

\* Mutant: one run more than there are slots.
SlotFreeAnyway == slots <= Concurrency

SlotFree == slots < Concurrency

\* take, of a free slot.
TakeSlot(j) ==
    /\ judge[j].pc = "waiting"
    /\ SlotFree
    /\ slots' = slots + 1
    /\ judge' = [judge EXCEPT ![j].pc = "running", ![j].waited = 0]

\* take: the wait is over, or whoever asked has gone.
RefuseRun(j) ==
    /\ judge[j].pc = "waiting"
    /\ \/ judge[j].waited = SlotWait /\ judge' = Verdict(j, "busy")
       \/ judge[j].gone /\ judge' = Verdict(j, "gone")
    /\ UNCHANGED slots

\* Verdict: the first run is asked for again under shifted labels if it pointed
\* at one option; the second agrees if it points at the same text.
Ran(j) ==
    LET p == judge[j].program IN
    IF ~One(p) THEN Verdict(j, Short(p))
    ELSE IF judge[j].run = 1
         THEN [judge EXCEPT ![j].pc = "asking", ![j].run = 2, ![j].first = PointsAt(p, Place),
                               ![j].spent = 0, ![j].done = 0]
         ELSE Verdict(j, IF PointsAt(p, Relabelled(Place)) = Relabelled(judge[j].first)
                     THEN "agreed" ELSE "disagreed")

\* run: the program ends by itself, before it is stopped.
RunEnds(j) ==
    /\ judge[j].pc = "running"
    /\ judge[j].done = judge[j].program.work /\ judge[j].done <= StepBudget
    /\ slots' = slots - 1
    /\ judge' = Ran(j)

\* failed: the program is stopped, by whoever asked having gone, by the clock
\* or by its steps, in this order.
RunStopped(j) ==
    /\ judge[j].pc = "running"
    /\ \/ judge[j].gone
       \/ judge[j].spent = RunTime
       \/ judge[j].done = StepBudget
    /\ slots' = slots - 1
    /\ judge' = Verdict(j, IF judge[j].gone THEN "gone" ELSE "timeout")

\* Whoever asked gives up.
GiveUpAsking(j) ==
    /\ judge[j].pc \in {"asking", "waiting", "running"} /\ ~judge[j].gone
    /\ judge' = [judge EXCEPT ![j].gone = TRUE]
    /\ UNCHANGED slots

\* Nobody is left where time may not leave them: a run at its end, a wait at its
\* end, a free slot somebody waits for.
Settled ==
    /\ In("asking") = {}
    /\ In("waiting") = {} \/ ~SlotFree
    /\ \A j \in In("waiting") : judge[j].waited < SlotWait /\ ~judge[j].gone
    /\ \A j \in Running :
           /\ judge[j].spent < RunTime /\ ~judge[j].gone
           /\ judge[j].done < judge[j].program.work /\ judge[j].done < StepBudget

\* Time passes: each processor runs one of the runs, and the clock of each run
\* goes on, on a processor or off it.
Work ==
    /\ Settled
    /\ \E onto \in SUBSET Running :
           /\ Cardinality(onto) =
                  IF Cardinality(Running) < Processors THEN Cardinality(Running) ELSE Processors
           /\ judge' = [j \in Judged |->
                  IF judge[j].pc = "waiting" THEN [judge[j] EXCEPT !.waited = @ + 1]
                  ELSE IF j \in onto THEN [judge[j] EXCEPT !.spent = @ + 1, !.done = @ + 1]
                  ELSE IF j \in Running THEN [judge[j] EXCEPT !.spent = @ + 1]
                  ELSE judge[j]]
    /\ UNCHANGED slots

SolversNext ==
    \/ \E j \in Judged :
           \/ \E program \in Programs : Examine(j, program)
           \/ Run(j) \/ TakeSlot(j) \/ RefuseRun(j)
           \/ RunEnds(j) \/ RunStopped(j) \/ GiveUpAsking(j)
    \/ Work

SolversSpec == SolversInit /\ [][SolversNext]_solver_vars

-----------------------------------------------------------------------------

\* What becomes of a program that has the instance to itself, and nobody who
\* gives up on it.  One whose work is just what it may spend may end either way.
Alone(program) ==
    LET most == IF RunTime < StepBudget THEN RunTime ELSE StepBudget IN
    IF program.kind = "oversized" THEN {"bad_source"}
    ELSE IF program.work > most THEN {"timeout"}
    ELSE {IF program.kind = "follows" THEN "agreed"
          ELSE IF One(program) THEN "disagreed" ELSE Short(program)}
         \cup (IF program.work = most THEN {"timeout"} ELSE {})

\* A verdict is about the program and nothing else: whatever runs and waits
\* beside it, a program that is judged is judged as it would be alone, and only
\* one that follows its text is agreed with (Concurrency: "its verdict would turn
\* on what happened to run beside it"; relabel).
VerdictIsTheProgramsOwn ==
    \A j \in In("ended") :
        judge[j].outcome \notin {"busy", "gone"} => judge[j].outcome \in Alone(judge[j].program)

\* A slot is taken by each run and by nothing else, so a task turned away as busy
\* was turned away by runs (Run).
SlotsAreInUse == slots = Cardinality(Running)

\* What the sandbox is held to.
VerdictsHold == SolversTypeOK /\ VerdictIsTheProgramsOwn /\ SlotsAreInUse
=============================================================================
