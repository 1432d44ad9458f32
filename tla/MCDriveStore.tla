---------------------------- MODULE MCDriveStore ----------------------------
(***************************************************************************)
(* Small Drives and few calls for DriveStore, in the settings each run     *)
(* names.  Calls are on one instance, or the first on one and the others   *)
(* on another.                                                             *)
(***************************************************************************)
EXTENDS DriveStore, TLC

CONSTANTS c1, c2, c3, i1, i2, f1, f2, f3, f4

AllOnOne == [c \in Calls |-> i1]
OneApart == [c \in Calls |-> IF c = c1 THEN i1 ELSE i2]

\* Two instances with their answers lost.
TwoInstances ==
    [home |-> OneApart, made |-> Calls, maxAtFirst |-> 1,
     firstKinds |-> {"reads", "damaged"}, ops |-> {"write", "restore", "startOver"},
     parentActs |-> {}, maxParentActs |-> 0, maxLapses |-> 0,
     staleReads |-> FALSE, lostAnswers |-> TRUE, lateLandings |-> FALSE]
\* The parent's hand besides, two files at first and uploads that land late.
ParentsHand ==
    [TwoInstances EXCEPT !.made = {c1, c2}, !.maxAtFirst = 2, !.ops = AllOps,
                         !.parentActs = AllParentActs, !.maxParentActs = 1,
                         !.lateLandings = TRUE]
\* One instance whose reads come early.
EarlyReads ==
    [TwoInstances EXCEPT !.home = AllOnOne, !.ops = {"write", "restore"},
                         !.staleReads = TRUE, !.lostAnswers = FALSE]
\* One instance, two files at first.
TwoFiles ==
    [TwoInstances EXCEPT !.home = AllOnOne, !.made = {c1, c2}, !.maxAtFirst = 2, !.ops = AllOps]
\* One instance whose memory lapses, with files of every kind.
OneInstance ==
    [TwoFiles EXCEPT !.made = Calls, !.maxAtFirst = 1, !.firstKinds = Kinds, !.maxLapses = 1]
\* Two saves of one instance whose reads come early.
TwoSaves ==
    [EarlyReads EXCEPT !.made = {c1, c2}, !.ops = {"write"}, !.firstKinds = {"reads"}]

ManyGrounds == {TwoInstances, ParentsHand, EarlyReads}
FilesGround == {TwoFiles}
InstanceGround == {OneInstance}
SavesGround == {TwoSaves}

\* On one instance the calls are alike, and otherwise those of the second are.
LatterAlike ==
    Permutations(Files) \cup
        {[c \in Calls |-> CASE c = c2 -> c3 [] c = c3 -> c2 [] OTHER -> c]}
CallsAlike == Permutations(Files) \cup Permutations(Calls)
=============================================================================
