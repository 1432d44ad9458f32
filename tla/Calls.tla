------------------------------- MODULE Calls --------------------------------
(***************************************************************************)
(* How a call to Drive is made (internal/store/drive/calls.go), and how an *)
(* upload asked to keep its revision is made again without (write.go): no  *)
(* attempt that could outlive the token, a pause and another attempt when  *)
(* Drive asks for one or fails, unless the attempt may have landed.        *)
(*                                                                         *)
(* Drive does what an attempt asked, or does not, whatever becomes of the  *)
(* answer; before it asks for a pause, or refuses, it does nothing.        *)
(***************************************************************************)
EXTENDS Integers, Sequences

CONSTANTS
    Timeout,    \* how long one attempt may take
    Pauses,     \* pauses: how long each retry waits
    Spread,     \* jittered: how much longer or shorter a pause may be
    MaxEnds     \* bound: when the token ends at the latest

ASSUME CallsHaveTimes ==
    /\ Timeout \in Nat \ {0} /\ Spread \in Nat /\ MaxEnds \in Nat
    /\ Pauses \in Seq(Nat) /\ \A n \in DOMAIN Pauses : Pauses[n] >= Spread

VARIABLES
    time,       \* the time
    ends,       \* Account.Ends: when the token ends
    op,         \* what is called: something read, done again to no other effect, or written
    keeping,    \* whether the write asks to keep its revision
    retries,    \* how many times the call was made again
    attempt,    \* where the call is
    began,      \* when the attempt was started
    wrote       \* history: how many attempts Drive did what a write asked in

call_vars == <<time, ends, op, keeping, retries, attempt, began, wrote>>

DriveWrites == {"create", "update"}
OverWith == {"ok", "expired", "rate_limited", "unavailable", "timeout", "canceled", "refused"}

CallsInit ==
    /\ time = 0 /\ ends \in 0..MaxEnds
    /\ op \in DriveWrites \cup {"read", "idempotent"}
    /\ keeping \in IF op = "update" THEN BOOLEAN ELSE {FALSE}
    /\ retries = 0 /\ attempt = "start" /\ began = 0 /\ wrote = 0

\* Mutant: an attempt may be started as long as the token has not ended.
OutlastedWhenStarted == time <= ends

\* attempt: the token outlasts whatever the attempt may take.
Outlasted == time + Timeout <= ends

\* Mutant: whatever Drive failed on is worth repeating.
RepeatingAnything(outcome) == outcome \in {"rate_limited", "unavailable"}

\* worthRepeating: a write Drive failed on may have landed all the same.
WorthRepeating(outcome) ==
    \/ outcome = "rate_limited"
    \/ outcome = "unavailable" /\ op \notin DriveWrites

\* alsoWithoutKeeping, denied: what an upload without keeping may not meet.
OfTheKeeping(outcome) == outcome = "refused"

\* An attempt is started, or would outlive the token.
Start ==
    /\ attempt = "start"
    /\ IF Outlasted THEN attempt' = "flying" /\ began' = time
                    ELSE attempt' = "expired" /\ UNCHANGED began
    /\ UNCHANGED <<time, ends, op, keeping, retries, wrote>>

\* An attempt ends, within Timeout; the call is made again after a pause,
\* without keeping its revision, or is over.
Ends(outcome, done, took) ==
    /\ attempt = "flying"
    /\ (outcome = "timeout") => took = Timeout
    /\ time' = time + took
    /\ outcome = "ok" => done
    /\ outcome \in {"rate_limited", "refused"} => ~done
    /\ wrote' = IF done /\ op \in DriveWrites THEN wrote + 1 ELSE wrote
    /\ IF WorthRepeating(outcome) /\ retries < Len(Pauses)
       THEN /\ attempt' = "pause"
            /\ UNCHANGED <<retries, keeping>>
       ELSE IF keeping /\ OfTheKeeping(outcome)
       THEN /\ attempt' = "start"
            /\ keeping' = FALSE
            /\ retries' = 0
       ELSE /\ attempt' = outcome
            /\ UNCHANGED <<retries, keeping>>
    /\ UNCHANGED <<ends, op, began>>

\* The pause before another attempt, which the caller may give up in.
Pause ==
    /\ attempt = "pause"
    /\ \/ /\ time' \in (time + Pauses[retries + 1] - Spread)..(time + Pauses[retries + 1] + Spread)
          /\ attempt' = "start"
          /\ retries' = retries + 1
       \/ /\ attempt' \in {"canceled", "timeout"}
          /\ UNCHANGED <<time, retries>>
    /\ UNCHANGED <<ends, op, keeping, began, wrote>>

CallsNext ==
    \/ Start
    \/ \E outcome \in OverWith \ {"expired"}, done \in BOOLEAN, took \in 0..Timeout :
           Ends(outcome, done, took)
    \/ Pause

CallsSpec == CallsInit /\ [][CallsNext]_call_vars

-----------------------------------------------------------------------------

CallsTypeOK ==
    /\ time \in Nat /\ ends \in 0..MaxEnds /\ began \in Nat
    /\ op \in DriveWrites \cup {"read", "idempotent"} /\ keeping \in BOOLEAN
    /\ retries \in 0..Len(Pauses)
    /\ attempt \in OverWith \cup {"start", "flying", "pause"}
    /\ wrote \in Nat

\* However often a call is made again, Drive does what a write asks once at
\* most, the write without keeping included: no stale state is laid over a newer
\* one by a repetition, and no second file is made (worthRepeating).
WrittenOnce == wrote <= 1

\* No answer of Drive's comes after the token ended, however long the pauses
\* before the attempt were: a refusal then would read as access taken back
\* (call: "no attempt is started that could outlive the account's token").
AnsweredWithinTheToken == attempt \notin {"start", "expired"} => time <= ends

\* Making a call again does no harm.
RepeatsDoNoHarm == CallsTypeOK /\ WrittenOnce /\ AnsweredWithinTheToken
=============================================================================
