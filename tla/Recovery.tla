------------------------------ MODULE Recovery ------------------------------
(***************************************************************************)
(* How a damaged profile is put back from its file's history               *)
(* (internal/store/drive/history.go): the revisions tried and their order, *)
(* the room made among those kept forever, and what is said when none      *)
(* reads.  Recoveries run beside each other, on several instances, and     *)
(* beside the writes of others; any call to Drive may fail, and a recovery *)
(* that stopped is made again.                                             *)
(*                                                                         *)
(* A revision is its place in the order the revisions were made.  Drive    *)
(* gives what a revision kept forever held, lets go by itself of none of   *)
(* those, and refuses to keep one past the most it keeps.                  *)
(***************************************************************************)
EXTENDS Integers, Sequences, FiniteSets, FiniteSetsExt

CONSTANTS
    Recoverers,     \* the instances an adult's recovery may land on
    Recent,         \* recent: how many of the latest before the damage are tried
    MaxKept,        \* maxKept: how many revisions Drive keeps forever at most
    Damages,        \* what a damaged file may hold
    MaxRevisions,   \* bound: how many revisions the file comes to have
    MaxRecoveries,  \* bound: how many recoveries are asked for
    MaxFaults       \* bound: how many calls to Drive fail

ASSUME RecoveryHasBounds ==
    /\ {Recent, MaxKept, MaxRevisions} \subseteq Nat \ {0}
    /\ {MaxRecoveries, MaxFaults} \subseteq Nat
ASSUME DamageIsNoProfile == "reads" \notin Damages
\* Drive keeps more than a recovery tries.
ASSUME TriedFit == Recent + 1 < MaxKept

VARIABLES
    made,       \* the revisions of the file: what each holds, whether kept for its day
    forever,    \* the revisions kept forever
    purged,     \* the revisions Drive no longer has
    recovery,   \* what each instance's recovery is doing
    recoveries, \* how many recoveries were asked for
    faults,     \* how many calls failed
    alone       \* history: the recoveries no fault and nobody else came across

recovery_vars == <<made, forever, purged, recovery, recoveries, faults, alone>>

Reads == "reads"

AtRest == [pc |-> "idle", damage |-> "", listed |-> {}, kept |-> {}, clearing |-> {},
           left |-> {}, unsure |-> FALSE]

Now == Len(made)
Holds(n) == made[n].holds
There == DOMAIN made \ purged

RecoveryInit ==
    /\ made = <<[holds |-> Reads, ofItsDay |-> TRUE]>>
    /\ forever = {1} /\ purged = {}
    /\ recovery = [r \in Recoverers |-> AtRest]
    /\ recoveries = 0 /\ faults = 0 /\ alone = Recoverers

-----------------------------------------------------------------------------
(* What a recovery works out of the history it was listed                  *)

\* candidates: the latest before the damage, and the latest kept forever.
CandidatesOf(listed, kept) ==
    LET earlier == listed \ {Max(listed)}
        latest == {n \in earlier : Cardinality({m \in earlier : m > n}) < Recent}
        pins == kept \cap earlier
    IN  IF Cardinality(listed) < 2 THEN {}
        ELSE latest \cup (IF pins = {} THEN {} ELSE {Max(pins)})

\* How many do not fit beside those tried.
Over(picked, kept) == Cardinality(kept) + Cardinality(picked \ kept) - MaxKept

\* Mutant: room is made for one fewer than is kept.
InTheWayByOneLess(picked, kept) ==
    {n \in kept : Cardinality({m \in kept : m < n}) < Over(picked, kept) - 1}

\* Mutant: the latest kept make room.
InTheWayLatest(picked, kept) ==
    {n \in kept : Cardinality({m \in kept : m > n}) < Over(picked, kept)}

\* makeRoom, unkept: the earliest kept, as many as do not fit.
InTheWay(picked, kept) ==
    {n \in kept : Cardinality({m \in kept : m < n}) < Over(picked, kept)}

-----------------------------------------------------------------------------
(* The steps of a recovery                                                 *)

Turn(r, now) == recovery' = [recovery EXCEPT ![r] = now]
Said(r, word) == Turn(r, [recovery[r] EXCEPT !.pc = word])
Ended == {"idle", "restored", "nothing", "unsure", "stopped", "conflict"}

\* Nobody but r changed anything: the others are alone no longer.
Crossed(r) == alone' = alone \cap ({r} \cup {q \in Recoverers : recovery[q].pc \in Ended})

\* A call that fails: Drive out of reach, the access or the time ended
\* (stopsRecovery), or a refusal the store has no word for.
Failed(r) ==
    /\ faults < MaxFaults
    /\ faults' = faults + 1
    /\ alone' = alone \ {r}

\* Restore: the file is read, and is damaged.
Begin(r) ==
    /\ recovery[r].pc \in Ended /\ recoveries < MaxRecoveries
    /\ Holds(Now) \in Damages
    /\ recoveries' = recoveries + 1
    /\ Turn(r, [AtRest EXCEPT !.pc = "list", !.damage = Holds(Now)])
    /\ alone' = IF \A q \in Recoverers \ {r} : recovery[q].pc \in Ended
                THEN alone \cup {r} ELSE alone \ {r}
    /\ UNCHANGED <<made, forever, purged, faults>>

\* recover: the history is listed.
List(r) ==
    /\ recovery[r].pc = "list"
    /\ LET kept == forever \cap There
           picked == CandidatesOf(There, kept)
       IN  \/ /\ Turn(r, [recovery[r] EXCEPT !.pc = "clear", !.listed = There, !.kept = kept,
                                             !.clearing = InTheWay(picked, kept),
                                             !.left = picked])
              /\ UNCHANGED <<faults, alone>>
           \/ Said(r, "stopped") /\ Failed(r)
    /\ UNCHANGED <<made, forever, purged, recoveries>>

\* makeRoom deletes one; a revision already gone is as good as deleted, and
\* what goes wrong ends it quietly.
Clear(r) ==
    /\ recovery[r].pc = "clear" /\ recovery[r].clearing # {}
    /\ LET old == Min(recovery[r].clearing)
       IN  \/ /\ purged' = purged \cup {old}
              /\ Turn(r, [recovery[r] EXCEPT !.clearing = @ \ {old}])
              /\ Crossed(r)
              /\ UNCHANGED faults
           \/ /\ Turn(r, [recovery[r] EXCEPT !.clearing = {}])
              /\ Failed(r)
              /\ UNCHANGED purged
    /\ UNCHANGED <<made, forever, recoveries>>

RoomCleared(r) == recovery[r].pc = "clear" /\ recovery[r].clearing = {}

\* The latest first.
Trying(r) == Max(recovery[r].left)
PassedOver(r) == [recovery[r] EXCEPT !.pc = "clear", !.left = @ \ {Trying(r)}]
PassedOverUnsure(r) == [PassedOver(r) EXCEPT !.unsure = TRUE]

\* Mutant: a revision Drive would not keep is passed over as one gone.
RefusedForgotten(r) == PassedOver(r)

\* A refusal the store has no word for leaves a recovery unsure.
Refused(r) == PassedOverUnsure(r)

\* earlier: the revision tried is kept forever first.
KeepForGood(r) ==
    /\ RoomCleared(r) /\ recovery[r].left # {}
    /\ LET n == Trying(r)
       IN  \/ /\ n \in recovery[r].kept
              /\ Turn(r, [recovery[r] EXCEPT !.pc = "download"])
              /\ UNCHANGED <<forever, faults, alone>>
           \/ /\ n \notin recovery[r].kept /\ n \in There
              /\ n \in forever \/ Cardinality(forever \cap There) < MaxKept
              /\ forever' = forever \cup {n}
              /\ Turn(r, [recovery[r] EXCEPT !.pc = "download"])
              /\ Crossed(r)
              /\ UNCHANGED faults
           \/ /\ n \notin recovery[r].kept /\ n \notin There
              /\ Turn(r, PassedOver(r))
              /\ UNCHANGED <<forever, faults, alone>>
           \/ /\ n \notin recovery[r].kept /\ n \in There \ forever
              /\ Cardinality(forever \cap There) >= MaxKept
              /\ Turn(r, Refused(r))
              /\ UNCHANGED <<forever, faults, alone>>
           \/ /\ n \notin recovery[r].kept
              /\ Said(r, "stopped") \/ Turn(r, Refused(r))
              /\ Failed(r)
              /\ UNCHANGED forever
    /\ UNCHANGED <<made, purged, recoveries>>

\* earlier and store.Parse: what the revision held, if Drive has it, is read.
Download(r) ==
    /\ recovery[r].pc = "download"
    /\ \/ /\ Turn(r, IF Trying(r) \in There /\ Holds(Trying(r)) = Reads
                     THEN [recovery[r] EXCEPT !.pc = "restore"] ELSE PassedOver(r))
          /\ UNCHANGED <<faults, alone>>
       \/ /\ Said(r, "stopped") \/ Turn(r, Refused(r))
          /\ Failed(r)
    /\ UNCHANGED <<made, forever, purged, recoveries>>

\* recover: nothing tried reads.
NothingReads(r) ==
    /\ RoomCleared(r) /\ recovery[r].left = {}
    /\ Said(r, IF recovery[r].unsure THEN "unsure" ELSE "nothing")
    /\ UNCHANGED <<made, forever, purged, recoveries, faults, alone>>

\* restore: the file is read again, and written only over the damage.
ReadAgain(r) ==
    /\ recovery[r].pc = "restore"
    /\ \/ /\ Said(r, IF Holds(Now) = recovery[r].damage THEN "upload" ELSE "conflict")
          /\ UNCHANGED <<faults, alone>>
       \/ Said(r, "stopped") /\ Failed(r)
    /\ UNCHANGED <<made, forever, purged, recoveries>>

\* restore, upload: what was read is written as the latest revision.
Upload(r) ==
    /\ recovery[r].pc = "upload"
    /\ \/ /\ made' = Append(made, [holds |-> Reads, ofItsDay |-> FALSE])
          /\ Said(r, "restored")
          /\ Crossed(r)
          /\ UNCHANGED faults
       \/ /\ Said(r, "stopped")
          /\ Failed(r)
          /\ UNCHANGED made
    /\ UNCHANGED <<forever, purged, recoveries>>

-----------------------------------------------------------------------------
(* The others                                                              *)

\* Save, of any instance, over a profile that reads: the first of a day is kept
\* while Drive has room, and made without being kept when it has none.
Write(ofItsDay) ==
    /\ Now < MaxRevisions /\ Holds(Now) = Reads
    /\ made' = Append(made, [holds |-> Reads, ofItsDay |-> ofItsDay])
    /\ forever' = IF ofItsDay /\ Cardinality(forever \cap There) < MaxKept
                  THEN forever \cup {Now + 1} ELSE forever
    /\ alone' = {q \in alone : recovery[q].pc \in Ended}
    /\ UNCHANGED <<purged, recovery, recoveries, faults>>

\* Something else writes what is no profile.
Damage ==
    /\ Now < MaxRevisions
    /\ \E holds \in Damages : made' = Append(made, [holds |-> holds, ofItsDay |-> FALSE])
    /\ alone' = {q \in alone : recovery[q].pc \in Ended}
    /\ UNCHANGED <<forever, purged, recovery, recoveries, faults>>

\* Drive purges an earlier revision nobody kept.
Purge ==
    /\ \E n \in There \ (forever \cup {Now}) : purged' = purged \cup {n}
    /\ alone' = {q \in alone : recovery[q].pc \in Ended}
    /\ UNCHANGED <<made, forever, recovery, recoveries, faults>>

RecoveryNext ==
    \/ \E r \in Recoverers :
           Begin(r) \/ List(r) \/ Clear(r) \/ KeepForGood(r) \/ Download(r) \/ NothingReads(r)
               \/ ReadAgain(r) \/ Upload(r)
    \/ \E ofItsDay \in BOOLEAN : Write(ofItsDay)
    \/ Damage
    \/ Purge

RecoverySpec == RecoveryInit /\ [][RecoveryNext]_recovery_vars

-----------------------------------------------------------------------------

RecoveryTypeOK ==
    /\ made \in Seq([holds : Damages \cup {Reads}, ofItsDay : BOOLEAN])
    /\ forever \subseteq DOMAIN made /\ purged \subseteq DOMAIN made
    /\ Cardinality(forever \cap There) <= MaxKept
    /\ alone \subseteq Recoverers

\* What a recovery was to try, by the history it was listed.
ToTry(r) == CandidatesOf(recovery[r].listed, recovery[r].kept)

\* A file is said to hold nothing that reads, and a new start is offered, only
\* when every state the recovery was to try was looked at: none Drive still has
\* reads, however the calls failed and whoever else was keeping and deleting
\* (recover: "a recovery that could not look is not one that found nothing").
NothingSaidUnlessLooked ==
    \A r \in Recoverers : recovery[r].pc = "nothing" =>
        \A n \in ToTry(r) : n \in purged \/ Holds(n) # Reads

\* No state a recovery is to try is deleted by it to make room. Another beside it
\* may, but only of a history in which as many later ones have come to be kept as
\* Drive keeps, less those tried (makeRoom: the earliest kept).
TriedAreNotDeleted ==
    [][\A q, r \in Recoverers : Clear(q) =>
          \A n \in (purged' \ purged) \cap ToTry(r) :
              /\ q # r
              /\ Cardinality({m \in recovery[q].kept : m > n}) >= MaxKept - Recent
      ]_recovery_vars

\* A recovery nothing failed for and nobody came across puts back the latest of
\* the states it tries that reads, with room enough to keep each, or finds that
\* none of them reads (candidates, unkept, makeRoom).
AloneItMends ==
    \A r \in alone :
        /\ recovery[r].pc \notin {"unsure", "stopped", "conflict"}
        /\ recovery[r].pc \in {"restore", "upload"} =>
               \A n \in ToTry(r) : n > Trying(r) => Holds(n) # Reads

\* A run of damage, however long, does not push the state kept for its day out
\* of reach: while there is one that reads, no recovery finds nothing
\* (candidates: "the one a run of damage cannot push out of reach").
TheDaysStateIsInReach ==
    \A r \in Recoverers : recovery[r].pc = "nothing" =>
        ~\E n \in recovery[r].kept : made[n].ofItsDay /\ Holds(n) = Reads

\* A recovery says that nothing reads only of what it looked at, and mends what
\* can be mended when nothing is in its way.
RecoveryHolds == RecoveryTypeOK /\ NothingSaidUnlessLooked /\ AloneItMends
=============================================================================
