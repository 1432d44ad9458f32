------------------------------- MODULE Ideas --------------------------------
(***************************************************************************)
(* The ideas the tasks are built on (internal/domain/tutor/idea.go,        *)
(* internal/domain/profile/idea.go): every list of a topic at a level is   *)
(* gone through round by round, an idea named when a task is asked for and *)
(* given when the task reaches the child, while tasks are written ahead,   *)
(* let go of and asked for again, and builds with longer or shorter lists, *)
(* or with none, serve the same profile.                                   *)
(*                                                                         *)
(* One list is modelled: tasks of other lists leave its record alone.      *)
(* Which idea left in a round is named is read off a hash, here any.       *)
(***************************************************************************)
EXTENDS Integers, Sequences, SequencesExt, FiniteSetsExt

CONSTANTS
    Lengths,    \* how many ideas the list has in the builds that come and go
    MaxRound,   \* bound: how many rounds of the list are gone through
    MaxUnnamed  \* bound: how many requests a build that named no idea opens

\* A list of one idea, which gives it every time, is left out.
ASSUME ListsHaveIdeas ==
    /\ Lengths # {} /\ Lengths \subseteq Nat \ {0, 1}
    /\ {MaxRound, MaxUnnamed} \subseteq Nat
ASSUME OneIsTheLongest == \E longest \in Lengths : \A n \in Lengths : n <= longest

VARIABLES
    length,     \* how many ideas the list has in the build a call lands on
    round,      \* IdeaRound: the round the list is on
    givenIdeas, \* the ideas given in it, the earliest first
    open,       \* OpenRequest: none, or the idea it names
    ready,      \* ReadyTask: none, or the idea it is built on
    unnamed,    \* how many requests named no idea
    last,       \* history: the idea of the task handed out last, 0 if it has none
    times       \* history: how many tasks on each idea were handed out

idea_vars == <<length, round, givenIdeas, open, ready, unnamed, last, times>>

NoIdea == [number |-> 0, round |-> 0]
NoTask == [number |-> -1, round |-> 0]

IdeasInit ==
    /\ length \in Lengths
    /\ round = 0 /\ givenIdeas = <<>>
    /\ open = NoTask /\ ready = NoTask /\ unnamed = 0
    /\ last = 0 /\ times = [i \in 1..Max(Lengths) |-> 0]

\* ideasBut.
IdeasBut(some) == (1..length) \ some

\* Mutant: a new round may begin with the idea the last one ended on.
NewRoundsFirstOfAll == IdeasBut({})

\* NextIdea: a new round begins with another idea than the one given last,
\* unless the list has no other.
NewRoundsFirst ==
    LET but == IdeasBut({Last(givenIdeas)}) IN IF but = {} THEN IdeasBut({}) ELSE but

\* NextIdea, every idea the hash may draw.
NextIdeas ==
    LET on == Max({round, 1})
        left == IdeasBut(ToSet(givenIdeas))
    IN  IF left # {} THEN {[number |-> i, round |-> on] : i \in left}
        ELSE {[number |-> i, round |-> on + 1] : i \in NewRoundsFirst}

\* Mutant: an idea named by a longer list is kept to.
RequestIdeasAsNamed == IF open # NoIdea THEN {open} ELSE NextIdeas

\* requestIdea: the idea the request named, unless it named none of the list.
RequestIdeas == IF open # NoIdea /\ open.number <= length THEN {open} ELSE NextIdeas

\* Mutant: an idea joins the round the list is on, whichever it was named in.
GaveInThisRound(idea) ==
    /\ round' = Max({round, idea.round})
    /\ givenIdeas' = IF idea.number \in ToSet(givenIdeas) THEN givenIdeas ELSE Append(givenIdeas, idea.number)

\* gave, of an idea.
Gave(idea) ==
    IF idea.round > round THEN round' = idea.round /\ givenIdeas' = <<idea.number>>
    ELSE /\ givenIdeas' = IF idea.number \in ToSet(givenIdeas) THEN givenIdeas ELSE Append(givenIdeas, idea.number)
         /\ UNCHANGED round

\* handOut: a task built on no idea records nothing.
HandedOut(idea) ==
    /\ IF idea = NoIdea THEN UNCHANGED <<round, givenIdeas, times>>
       ELSE Gave(idea) /\ times' = [times EXCEPT ![idea.number] = @ + 1]
    /\ last' = idea.number

-----------------------------------------------------------------------------

\* next_task and prepare_task: a request is opened, and names the next idea.
Open ==
    /\ open = NoTask /\ ready = NoTask
    /\ open' \in {idea \in NextIdeas : idea.round <= MaxRound}
    /\ UNCHANGED <<length, round, givenIdeas, ready, unnamed, last, times>>

\* An earlier build opens a request, and names none.
OpenUnnamed ==
    /\ open = NoTask /\ ready = NoTask /\ unnamed < MaxUnnamed
    /\ open' = NoIdea
    /\ unnamed' = unnamed + 1
    /\ UNCHANGED <<length, round, givenIdeas, ready, last, times>>

\* submit_task: the task handed in goes to the card, or is kept if it was
\* written ahead; an earlier build leaves the idea as the request has it.
Submit ==
    /\ open # NoTask
    /\ \E idea \in RequestIdeas \cup (IF open = NoIdea THEN {NoIdea} ELSE {}) :
           /\ idea.round <= MaxRound
           /\ \/ /\ HandedOut(idea)
                 /\ UNCHANGED ready
              \/ /\ ready' = idea
                 /\ UNCHANGED <<round, givenIdeas, last, times>>
    /\ open' = NoTask
    /\ UNCHANGED <<length, unnamed>>

\* HandOutReady.
HandOutReady ==
    /\ ready # NoTask
    /\ HandedOut(ready)
    /\ ready' = NoTask
    /\ UNCHANGED <<length, open, unnamed>>

\* CloseRequest, DropReady, and a request nobody answers in time.
LetIdeaGo ==
    /\ open # NoTask \/ ready # NoTask
    /\ open' = NoTask /\ ready' = NoTask
    /\ UNCHANGED <<length, round, givenIdeas, unnamed, last, times>>

\* A call lands on another build.
Deploy ==
    /\ length' \in Lengths \ {length}
    /\ UNCHANGED <<round, givenIdeas, open, ready, unnamed, last, times>>

IdeasNext == Open \/ OpenUnnamed \/ Submit \/ HandOutReady \/ LetIdeaGo \/ Deploy

IdeasSpec == IdeasInit /\ [][IdeasNext]_idea_vars

-----------------------------------------------------------------------------

\* The record of a list names no idea twice in a round, and no idea off the
\* longest list (validateIdeas).
IdeasTypeOK ==
    /\ length \in Lengths /\ round \in 0..MaxRound
    /\ givenIdeas \in Seq(1..Max(Lengths)) /\ IsInjective(givenIdeas)
    /\ (round = 0) = (givenIdeas = <<>>)
    /\ open.number <= Max(Lengths) /\ ready.number <= Max(Lengths)

\* The ideas every build has take equal turns: none is given twice more than
\* another is once (gave, NextIdea: "an idea comes back only in a later round").
EqualTurns(taken) == \A i, j \in 1..Min(Lengths) : taken[i] <= taken[j] + 1

\* However tasks are let go of, asked for again or written on other builds, no
\* two in a row are built on one idea of the list (NextIdea: "so that no two
\* tasks in a row are built on one idea"), the ideas take equal turns, and each
\* given is one that the list has when its task is handed in (requestIdea); and
\* what is kept of them is what validateIdeas takes.
IdeasAreGivenInTurn ==
    [][/\ IdeasTypeOK'
       /\ times' # times => last' # last /\ EqualTurns(times')
       /\ Submit /\ last' # last => last' <= length]_idea_vars
=============================================================================
