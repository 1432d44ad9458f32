---------------------------- MODULE ProfileStore ----------------------------
(***************************************************************************)
(* What a store of profiles promises for one account (internal/store,      *)
(* Storage), as the store in memory keeps it by holding a lock             *)
(* (internal/store/memory): the profile is the latest of a history of      *)
(* states, every write is one step from the state it was computed from,    *)
(* and an answer says truly whether a write was made.                      *)
(***************************************************************************)
EXTENDS Integers, Sequences, SequencesExt

CONSTANT Calls      \* the sessions that write, each at most once

VARIABLES
    history,    \* the states of the account's profile, the latest last
    landed,     \* the sessions whose write was made
    answer      \* what each session was told, or "none" yet

abstractVars == <<history, landed, answer>>

Readable(content) == content.kind = "reads"
Kept == Last(history)

\* The states a session may find an account in.
AbstractInit ==
    /\ landed = {}
    /\ answer = [c \in Calls |-> "none"]

\* A write is made, and whoever made it is told later, or never for certain.
Lands(c) ==
    /\ c \notin landed
    /\ landed' = landed \cup {c}
    /\ \/ UNCHANGED answer
       \/ answer[c] = "none" /\ answer' = [answer EXCEPT ![c] = "unknown"]

\* Save: a profile moves on by exactly one from the one that is kept.
Save(c) ==
    /\ history # <<>>
    /\ Readable(Kept)
    /\ history' = Append(history, [kind |-> "reads", rev |-> Kept.rev + 1, by |-> c])
    /\ Lands(c)

\* Create: only an account without a profile is given a first one.
Create(c) ==
    /\ history = <<>>
    /\ history' = <<[kind |-> "reads", rev |-> 1, by |-> c]>>
    /\ Lands(c)

\* StartOver: a profile this build can read is never replaced.
StartOver(c) ==
    /\ history = <<>> \/ ~Readable(Kept)
    /\ history' = <<[kind |-> "reads", rev |-> 1, by |-> c]>>
    /\ Lands(c)

\* Restore: damage, and only damage, is put back to an earlier state that
\* reads, as a new state.
Restore(c) ==
    /\ history # <<>>
    /\ Kept.kind = "damaged"
    /\ \E n \in DOMAIN history :
        /\ Readable(history[n])
        /\ \A m \in DOMAIN history : m > n => ~Readable(history[m])
        /\ history' = Append(history, history[n])
    /\ Lands(c)

\* A session told that its write was made has made it, and one refused wrote
\* nothing.  A write whose answer was lost may have been made or not; so may a
\* new start that failed halfway.
Answer ==
    /\ \A c \in Calls :
        answer'[c] # answer[c] =>
            /\ answer[c] = "none"
            /\ answer'[c] = "ok" => c \in landed
            /\ answer'[c] \notin {"ok", "failed", "unknown"} => c \notin landed
    /\ UNCHANGED <<history, landed>>

AbstractNext ==
    \/ \E c \in Calls : Save(c) \/ Create(c) \/ StartOver(c) \/ Restore(c)
    \/ Answer

Contract == AbstractInit /\ [][AbstractNext]_abstractVars
=============================================================================
