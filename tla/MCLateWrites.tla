---------------------------- MODULE MCLateWrites ----------------------------
(***************************************************************************)
(* Few calls for LateWrites, in the settings each run names: on one        *)
(* instance, or the first apart from the others.                           *)
(***************************************************************************)
EXTENDS LateWrites, TLC

CONSTANTS c1, c2, c3, i1, i2, n1, n2, n3, g, a, t1, t2

AllOnOne == [c \in Calls |-> i1]
OneApart == [c \in Calls |-> IF c = c1 THEN i1 ELSE i2]
NameEach == [c \in Calls |-> CASE c = c1 -> n1 [] c = c2 -> n2 [] c = c3 -> n3]
KeptTo(topics) == {lesson \in Lessons : lesson.topic \in topics}

\* One instance, with Drive at its best.
AtItsBest ==
    [home |-> AllOnOne, lessons |-> KeptTo({t1}),
     tools |-> {"submit_answer", "next_task", "prepare_task"},
     maxOutages |-> 0, maxStops |-> 0, mayErase |-> FALSE]
\* Two instances, a request lost and the lessons edited.
Apart ==
    [AtItsBest EXCEPT !.home = OneApart, !.lessons = Lessons, !.maxOutages = 1,
                      !.tools = {"submit_answer", "next_task", "save_profile"}]
\* One instance that stops, a request lost and the file deleted.
Stopping ==
    [AtItsBest EXCEPT !.tools = {"submit_answer", "next_task", "prepare_task", "submit_task"},
                      !.maxOutages = 1, !.maxStops = 1, !.mayErase = TRUE]
\* Two instances, and the lessons edited.
Edited == [Apart EXCEPT !.tools = {"next_task", "save_profile"}, !.maxOutages = 0]

BestAndApart == {AtItsBest, Apart}
StoppingAlone == {Stopping}
EditedAlone == {Edited}

\* The choices are alike, and so are the calls that run on one instance, each
\* with its name.
Swap(c, d) ==
    [v \in {c, d, NameEach[c], NameEach[d]} |->
        CASE v = c -> d [] v = d -> c [] v = NameEach[c] -> NameEach[d] [] v = NameEach[d] -> NameEach[c]]
ChoicesAlike == Permutations(AnswerChoices)
LatterAlike == ChoicesAlike \cup {Swap(c2, c3)}
=============================================================================
