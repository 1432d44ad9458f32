----------------------------- MODULE Documents -----------------------------
(***************************************************************************)
(* The documents clients name themselves by: fetched from the client's     *)
(* address, and the good ones kept in memory for a while (cache.go and     *)
(* fetch.go of internal/infra/cimd).  A client may change its document at  *)
(* any time, and a fetch takes time, so what is kept is what was there.    *)
(***************************************************************************)
EXTENDS Integers, Sequences, FiniteSets

CONSTANTS
    ClientIds,      \* identifiers, each the address of a document
    Fetches,        \* fetches that may be under way at once
    CacheEntries,   \* the most documents kept at once (cacheEntries)
    ShortestKept, LongestKept,  \* how long a document is kept
    AttemptTime,    \* how long an attempt may take (attemptTimeout)
    MaxAges,        \* what an answer allows, less the time kept on the way
    MaxVersions,    \* bound: how often documents are changed
    MaxHour         \* bound: how long it is looked at

ASSUME KeptForAWhile ==
    /\ {LongestKept, AttemptTime, MaxVersions, MaxHour} \subseteq Nat
    /\ {CacheEntries, ShortestKept} \subseteq Nat \ {0}
    /\ ShortestKept <= LongestKept /\ MaxAges \subseteq Int

VARIABLES
    hour,       \* the clock
    changed,    \* the clients: when each form of the document was put there
    kept,       \* the cache: the form kept of a document and when it expires
    fetch       \* where each fetch is

document_vars == <<hour, changed, kept, fetch>>

Attempts == 2

FetchStates ==
    [pc : {"idle", "attempt", "read"}, id : ClientIds \cup {"none"}, tries : 0..Attempts,
     began : 0..MaxHour, form : 1..(MaxVersions + 1), lifetime : Nat]

NotUnderWayYet ==
    [pc |-> "idle", id |-> "none", tries |-> 0,
     began |-> 0, form |-> 1, lifetime |-> 0]

DocumentsTypeOK ==
    /\ hour \in 0..MaxHour
    /\ changed \in [ClientIds -> Seq(0..MaxHour)]
    /\ DOMAIN kept \subseteq ClientIds
    /\ \A id \in DOMAIN kept : kept[id] \in [form : 1..(MaxVersions + 1), expires : Nat]
    /\ fetch \in [Fetches -> FetchStates]

DocumentsInit ==
    /\ hour = 0
    /\ changed = [id \in ClientIds |-> <<0>>]
    /\ kept = << >>
    /\ fetch = [f \in Fetches |-> NotUnderWayYet]

-----------------------------------------------------------------------------
(* The cache                                                               *)

Fresh(id) == id \in DOMAIN kept /\ hour < kept[id].expires

\* Mutant: an answer may ask for more than a day.
LifetimeAsAsked(allowed) == IF allowed > ShortestKept THEN allowed ELSE ShortestKept

\* lifetimeOf: what the answer allows, within the floor and the ceiling.
LifetimeOf(allowed) ==
    CASE allowed < ShortestKept -> ShortestKept
      [] allowed > LongestKept -> LongestKept
      [] OTHER -> allowed

\* The documents closest to their end: makeRoom goes over a map, so any of them.
Soonest(ids) == {id \in ids : \A other \in ids : kept[id].expires <= kept[other].expires}

\* Mutant: the one closest to its end goes, and whatever has expired stays.
RoomByTheSoonest ==
    {DOMAIN kept \ {id} : id \in Soonest({id \in DOMAIN kept : Fresh(id)})}

\* makeRoom: what is left of a full cache.  What has expired goes, and if that
\* frees nothing, the one closest to its end.
RoomMade ==
    LET fresh == {id \in DOMAIN kept : Fresh(id)}
    IN  IF Cardinality(fresh) < CacheEntries THEN {fresh} ELSE {fresh \ {id} : id \in Soonest(fresh)}

\* Mutant: room is made only when there is one too many already.
FullPastTheBrim(id) == id \notin DOMAIN kept /\ Cardinality(DOMAIN kept) > CacheEntries

NeedsRoom(id) == id \notin DOMAIN kept /\ Cardinality(DOMAIN kept) >= CacheEntries

\* put.
Keeps(id, entry) ==
    \E others \in IF NeedsRoom(id) THEN RoomMade ELSE {DOMAIN kept} :
        kept' = [other \in others \cup {id} |-> IF other = id THEN entry ELSE kept[other]]

-----------------------------------------------------------------------------
(* A fetch                                                                 *)

Over(f) == fetch' = [fetch EXCEPT ![f] = NotUnderWayYet]

\* Fetch: a document kept and still fresh is the answer, and nothing changes.
AskFor(f) ==
    /\ fetch[f].pc = "idle"
    /\ \E id \in ClientIds :
        /\ ~Fresh(id)
        /\ fetch' = [fetch EXCEPT ![f].pc = "attempt", ![f].id = id]
    /\ UNCHANGED <<hour, changed, kept>>

\* attempt: the answer is read as it was sent.
AnswersWith(f) ==
    /\ fetch[f].pc = "attempt"
    /\ \E allowed \in MaxAges :
        fetch' = [fetch EXCEPT ![f].pc = "read", ![f].began = hour,
                               ![f].form = Len(changed[fetch[f].id]),
                               ![f].lifetime = LifetimeOf(allowed)]
    /\ UNCHANGED <<hour, changed, kept>>

\* get: a failure that might pass is tried once more: no answer, a server that
\* failed, an answer broken off.
MightPass(f) ==
    /\ fetch[f].pc \in {"attempt", "read"}
    /\ IF fetch[f].tries + 1 < Attempts
       THEN fetch' = [fetch EXCEPT ![f] =
                        [NotUnderWayYet EXCEPT !.pc = "attempt", !.id = fetch[f].id,
                                               !.tries = fetch[f].tries + 1]]
       ELSE Over(f)
    /\ UNCHANGED <<hour, changed, kept>>

\* Any other failure is final: a refusal of ours, a redirect, a document too
\* large or not the client's, a request given up.
IsFinal(f) ==
    /\ fetch[f].pc \in {"attempt", "read"}
    /\ Over(f)
    /\ UNCHANGED <<hour, changed, kept>>

\* The document is the client's: it is kept from now on, and is the answer.
KeepRead(f) ==
    /\ fetch[f].pc = "read"
    /\ Keeps(fetch[f].id, [form |-> fetch[f].form, expires |-> hour + fetch[f].lifetime])
    /\ Over(f)
    /\ UNCHANGED <<hour, changed>>

-----------------------------------------------------------------------------

\* The changes made so far: each form but the first of each document.
ChangesMade == {change \in ClientIds \X (1..MaxVersions) : Len(changed[change[1]]) > change[2]}

\* A client changes its document.
Changes(id) ==
    /\ Cardinality(ChangesMade) < MaxVersions
    /\ changed' = [changed EXCEPT ![id] = Append(@, hour)]
    /\ UNCHANGED <<hour, kept, fetch>>

\* An attempt is read to its end within its time.
HourPasses ==
    /\ hour < MaxHour
    /\ \A f \in Fetches : fetch[f].pc = "read" => hour < fetch[f].began + AttemptTime
    /\ hour' = hour + 1
    /\ UNCHANGED <<changed, kept, fetch>>

DocumentsNext ==
    \/ \E f \in Fetches : AskFor(f) \/ AnswersWith(f) \/ MightPass(f) \/ IsFinal(f) \/ KeepRead(f)
    \/ \E id \in ClientIds : Changes(id)
    \/ HourPasses

DocumentsSpec == DocumentsInit /\ [][DocumentsNext]_document_vars

-----------------------------------------------------------------------------

\* The cache never outgrows its room, whatever expires and however fetches of
\* one document meet (cacheEntries).
CacheHasRoom == Cardinality(DOMAIN kept) <= CacheEntries

\* A client that changes its document is held to the old one no longer than the
\* longest a document is kept, and the attempt that read it (longestKept), even
\* when a fetch begun earlier is kept over a later one.
HeldToOldNoLonger ==
    \A id \in ClientIds :
        (Fresh(id) /\ kept[id].form < Len(changed[id])) =>
            hour - changed[id][kept[id].form + 1] < LongestKept + AttemptTime

\* A document that is fresh is let go of only when all the others are too, and
\* end no sooner (makeRoom).
FreshAreLetGoLast ==
    [][\A id \in DOMAIN kept \ DOMAIN kept' : Fresh(id) =>
          /\ \A other \in DOMAIN kept' : Fresh(other) \/ kept'[other].expires > hour
          /\ \A other \in DOMAIN kept : kept[id].expires <= kept[other].expires]_document_vars

\* The cache answers for its clients with what they lately said, in the room it has.
CacheHolds == DocumentsTypeOK /\ CacheHasRoom /\ HeldToOldNoLonger
=============================================================================
