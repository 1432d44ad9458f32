------------------------------ MODULE MCMemory ------------------------------
(***************************************************************************)
(* What a profile remembers of the lessons and what is chosen by it: the   *)
(* latest answers and the days measured (History), the day's count and the *)
(* family's clock (Days), the turns of the topics (Rotation), the ideas    *)
(* (Ideas), the probes of a paused topic (Probes), the levels mastered     *)
(* (Mastery), and what is left of its file once it is damaged (Recovery).  *)
(* The models share no state, and each behaviour is of one of them; the    *)
(* others stand as they start.                                             *)
(***************************************************************************)
EXTENDS History, Days, Rotation, Ideas, Probes, Mastery, Recovery, TLC

CatalogOfThree == <<"ta", "tb", "tc">>
TravelEastAndWest == {-2, 0, 1}

\* What is only ever compared for equality.
Alike == Permutations(MetTopics) \cup Permutations(Recoverers)

VARIABLE part
memory_vars == <<history_vars, day_vars, rotation_vars, idea_vars, probe_vars, mastery_vars, recovery_vars, part>>

MemoryInit ==
    /\ part \in {"history", "days", "rotation", "ideas", "probes", "mastery", "recovery"}
    /\ HistoryInit
    /\ DaysInit
    /\ part # "days" => skew = 0 /\ daily = DayFrom(DayLength, 0)
    /\ RotationInit
    /\ part # "rotation" => watched = Head(Catalog)
    /\ IdeasInit
    /\ part # "ideas" => length = Max(Lengths)
    /\ ProbesInit
    /\ MasteryInit
    /\ part # "mastery" => cautious
    /\ RecoveryInit

MemoryNext ==
    /\ UNCHANGED part
    /\ \/ /\ part = "history" /\ HistoryNext
          /\ UNCHANGED <<day_vars, rotation_vars, idea_vars, probe_vars, mastery_vars, recovery_vars>>
       \/ /\ part = "days" /\ DaysNext
          /\ UNCHANGED <<history_vars, rotation_vars, idea_vars, probe_vars, mastery_vars, recovery_vars>>
       \/ /\ part = "rotation" /\ RotationNext
          /\ UNCHANGED <<history_vars, day_vars, idea_vars, probe_vars, mastery_vars, recovery_vars>>
       \/ /\ part = "ideas" /\ IdeasNext
          /\ UNCHANGED <<history_vars, day_vars, rotation_vars, probe_vars, mastery_vars, recovery_vars>>
       \/ /\ part = "probes" /\ ProbesNext
          /\ UNCHANGED <<history_vars, day_vars, rotation_vars, idea_vars, mastery_vars, recovery_vars>>
       \/ /\ part = "mastery" /\ MasteryNext
          /\ UNCHANGED <<history_vars, day_vars, rotation_vars, idea_vars, probe_vars, recovery_vars>>
       \/ /\ part = "recovery" /\ RecoveryNext
          /\ UNCHANGED <<history_vars, day_vars, rotation_vars, idea_vars, probe_vars, mastery_vars>>

MemorySpec == MemoryInit /\ [][MemoryNext]_memory_vars
=============================================================================
