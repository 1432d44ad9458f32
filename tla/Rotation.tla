------------------------------ MODULE Rotation ------------------------------
(***************************************************************************)
(* The turns the topics take (internal/domain/tutor): the rule chooses the *)
(* topic of the next task from what the profile keeps of the tasks before  *)
(* it, a window of the latest entries and the day each topic was last      *)
(* given, while tasks are written ahead, skipped, let go of and taken off  *)
(* the card.                                                               *)
(*                                                                         *)
(* Where the child stands is arithmetic on real numbers, left out: which   *)
(* topics are within reach, mastered or behind is any choice each time the *)
(* rule is asked, and a failure worked over or a topic probed any topic.   *)
(***************************************************************************)
EXTENDS Integers, Sequences, FiniteSets, SequencesExt, FiniteSetsExt

CONSTANTS
    Catalog,        \* the topics, in catalog order
    WindowHolds,    \* how many entries the window holds
    WindowKeeps,    \* how many of the latest answers it keeps
    MaxSkips,       \* bound: how many tasks are skipped in a row
    MaxEvents       \* bound: how many days begin, tasks are discarded or set out of turn

Topics == ToSet(Catalog)
None == "none"

ASSUME TurnsHaveBounds ==
    /\ Catalog \in Seq(Topics) /\ Catalog # <<>> /\ None \notin Topics
    /\ {WindowHolds, WindowKeeps} \subseteq Nat \ {0}
    /\ {MaxSkips, MaxEvents} \subseteq Nat

\* The window holds a task of every topic, and with no more tasks skipped in a row
\* lets go of the oldest entry, whatever it is.
ASSUME TurnsAreInView ==
    /\ Len(Catalog) <= WindowHolds
    /\ WindowKeeps * (MaxSkips + 1) <= WindowHolds

VARIABLES
    places,     \* Recent: the latest entries, the oldest first
    card,       \* the topic of CurrentTask while it has no answer: the turns read no other
    next,       \* the task asked for or kept: its topic, and whose turn it was
    issued,     \* LastIssued of every topic
    date,       \* the family's date
    events,     \* how many days began, tasks were discarded or set out of turn
    watched,    \* history: a topic, any of them
    passed      \* history: how often the turns passed it over since it was given

rotation_vars == <<places, card, next, issued, date, events, watched, passed>>

Nothing == [topic |-> None, turn |-> None]
NotYet == -1

RotationInit ==
    /\ places = <<>> /\ card = None /\ next = Nothing
    /\ issued = [t \in Topics |-> NotYet]
    /\ date = 0 /\ events = 0
    /\ watched \in Topics /\ passed = 0

-----------------------------------------------------------------------------
(* What the rule reads                                                     *)

InFlight == card # None

\* waitsOf: the tasks the places count.
Seen == Len(places) + (IF InFlight THEN 1 ELSE 0)

\* lastPlaces: where each topic's last task stands in the window, the task on
\* the card after it, 0 if the window holds none.
Place(t) ==
    IF card = t THEN Len(places) + 1
    ELSE Max({0} \cup {n \in DOMAIN places : places[n].topic = t})

\* waits.of, to the task being chosen.
Distance(t, behind) ==
    LET since == Seen + 1 - Place(t) IN IF t \in behind THEN 2 * since ELSE since

\* Mutant: within a day the catalog's order decides.
WaitedLongerByDay(t, than, behind) ==
    IF issued[t] = NotYet THEN issued[than] # NotYet
    ELSE issued[than] # NotYet /\ issued[t] < issued[than]

\* waitedLonger.
WaitedLonger(t, than, behind) ==
    IF issued[t] = NotYet THEN issued[than] # NotYet
    ELSE IF issued[than] = NotYet THEN FALSE
    ELSE IF issued[t] # issued[than] THEN issued[t] < issued[than]
    ELSE IF Place(t) = 0 \/ Place(than) = 0 THEN Place(t) = 0 /\ Place(than) # 0
    ELSE IF Distance(t, behind) # Distance(than, behind) THEN Distance(t, behind) > Distance(than, behind)
    ELSE Place(t) < Place(than)

ListedBefore(t, than) == \E m, n \in DOMAIN Catalog : m < n /\ Catalog[m] = t /\ Catalog[n] = than

\* oldest: the one that waited longer than any other, or as long as one the
\* catalog lists after it.
Oldest(candidates, behind) ==
    {t \in candidates : \A than \in candidates \ {t} :
        \/ WaitedLonger(t, than, behind)
        \/ ListedBefore(t, than) /\ ~WaitedLonger(than, t, behind)}

\* Every way the child may stand.  With no topic within reach the rule takes
\* the easiest there are, which are a choice as good as any.
Standings ==
    {s \in [reach : SUBSET Topics \ {{}}, mastered : SUBSET Topics, behind : SUBSET Topics] :
        s.mastered \cup s.behind \subseteq s.reach}

\* unmastered, or every topic within reach if all are mastered.
Candidates(s) == IF s.reach \subseteq s.mastered THEN s.reach ELSE s.reach \ s.mastered

Turns == {[among |-> Candidates(s), behind |-> s.behind \cap Candidates(s)] : s \in Standings}

\* What came of choosing: whether the topic watched could have had the turn.
ChosenByTurn(t, candidates) ==
    [topic |-> t,
     turn |-> IF t = watched THEN None ELSE IF watched \in candidates THEN "watched" ELSE "others"]

\* choose: the topics take turns.
ByTurn ==
    /\ next' \in UNION {{ChosenByTurn(t, turn.among) : t \in Oldest(turn.among, turn.behind)} : turn \in Turns}
    /\ UNCHANGED events

\* A failure is worked over, a topic on pause probed, or the topic is the
\* model's or a person's choice.
OutOfTurn ==
    /\ events < MaxEvents
    /\ events' = events + 1
    /\ next' \in [topic : Topics, turn : {None}]

-----------------------------------------------------------------------------
(* The window                                                              *)

\* leaving: the oldest entry, unless it is one of the latest answers kept, and
\* then the oldest skipped task.
LetGoOf(entries) ==
    LET answeredAfter == {n \in DOMAIN entries : n > 1 /\ ~entries[n].skipped}
    IN  IF entries[1].skipped \/ Cardinality(answeredAfter) >= WindowKeeps THEN 1
        ELSE Min({n \in DOMAIN entries : entries[n].skipped})

\* remember.
Remembered(skipped) ==
    LET entries == Append(places, [topic |-> card, skipped |-> skipped])
    IN  IF Len(entries) <= WindowHolds THEN entries ELSE RemoveAt(entries, LetGoOf(entries))

SkippedInARow ==
    Len(places) - Max({0} \cup {n \in DOMAIN places : ~places[n].skipped})

\* leave, of the task on the card if it is in flight.
Leaves ==
    IF InFlight THEN SkippedInARow < MaxSkips /\ places' = Remembered(TRUE)
    ELSE places' = places

-----------------------------------------------------------------------------
(* The steps                                                               *)

\* next_task: the brief is chosen, then the task on the card is left behind, and
\* the request opened.
AskTurn ==
    /\ next = Nothing
    /\ ByTurn \/ OutOfTurn
    /\ Leaves
    /\ card' = None
    /\ UNCHANGED <<issued, date, watched, passed>>

\* prepare_task: the request is opened for the task after the one on the card.
AskTurnAhead ==
    /\ next = Nothing
    /\ ByTurn \/ OutOfTurn
    /\ UNCHANGED <<places, card, issued, date, watched, passed>>

\* The child waits for the task being written ahead: the one on the card is left.
AwaitAhead ==
    /\ next # Nothing /\ InFlight
    /\ Leaves
    /\ card' = None
    /\ UNCHANGED <<next, issued, date, events, watched, passed>>

Issued(t) == [issued EXCEPT ![t] = date]

\* handOut, of the task asked for or kept.
HandOutTurn ==
    /\ next # Nothing
    /\ Leaves
    /\ card' = next.topic
    /\ issued' = Issued(next.topic)
    /\ passed' = IF next.topic = watched \/ next.turn = "others" THEN 0
                 ELSE IF next.turn = "watched" THEN passed + 1
                 ELSE passed
    /\ next' = Nothing
    /\ UNCHANGED <<date, events, watched>>

\* The request ends without a task, or the task kept no longer fits.
LetTurnGo ==
    /\ next # Nothing
    /\ next' = Nothing
    /\ UNCHANGED <<places, card, issued, date, events, watched, passed>>

\* apply.
AnswerTurn ==
    /\ InFlight
    /\ card' = None
    /\ places' = Remembered(FALSE)
    /\ UNCHANGED <<next, issued, date, events, watched, passed>>

\* DiscardTask: a task whose seal no longer opens leaves no entry.
Discard ==
    /\ InFlight /\ events < MaxEvents
    /\ card' = None
    /\ events' = events + 1
    /\ UNCHANGED <<places, next, issued, date, watched, passed>>

NextDate ==
    /\ events < MaxEvents
    /\ events' = events + 1
    /\ date' = date + 1
    /\ UNCHANGED <<places, card, next, issued, watched, passed>>

RotationNext ==
    AskTurn \/ AskTurnAhead \/ AwaitAhead \/ HandOutTurn \/ LetTurnGo \/ AnswerTurn \/ Discard \/ NextDate

RotationSpec == RotationInit /\ [][RotationNext]_rotation_vars

-----------------------------------------------------------------------------

RotationTypeOK ==
    /\ places \in Seq([topic : Topics, skipped : BOOLEAN]) /\ Len(places) <= WindowHolds
    /\ card \in Topics \cup {None}
    /\ next \in [topic : Topics, turn : {None, "watched", "others"}] \cup {Nothing}
    /\ issued \in [Topics -> NotYet..MaxEvents] /\ date \in 0..MaxEvents
    /\ events \in 0..MaxEvents
    /\ watched \in Topics /\ passed \in Nat

\* No topic the turns may take is passed over for ever, whatever topics are behind
\* and whichever tasks are written ahead or, MaxSkips in a row, skipped: between
\* two events, twice as many turns as there are other topics bring it round
\* (oldest: "catalog order would settle the tie, and the rest of the day would go
\* to whichever of them the catalog lists first").
EveryTopicComesRound ==
    RotationTypeOK /\ passed <= 2 * (Len(Catalog) - 1) * (events + 1)
=============================================================================
