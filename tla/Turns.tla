------------------------------- MODULE Turns -------------------------------
(***************************************************************************)
(* The turns by which the writes of one account's profile go one at a time *)
(* within an instance (internal/store/drive/turns.go).                     *)
(*                                                                         *)
(* A turn is an object of its own: a place, taken by the write under way,  *)
(* and a count of the writes in it.  The table held names the turn of an   *)
(* account only while somebody is in it; a turn nobody refers to any more  *)
(* is garbage, and its identity may be given to a new one.                 *)
(***************************************************************************)
EXTENDS FiniteSets, Integers

CONSTANTS
    Accounts,   \* the accounts whose profiles are written
    Calls,      \* the writes that may be under way at once in the instance
    TurnIds,    \* the identities of turn objects
    NoTurn,     \* an account without a turn
    NoCall      \* a turn whose place is free

ASSUME CallsFinite == IsFiniteSet(Calls)
ASSUME NoTurnIsNone == NoTurn \notin TurnIds
ASSUME NoCallIsNone == NoCall \notin Calls

VARIABLES
    held,       \* the table: the turn of each account, or NoTurn
    taken,      \* who has the place of each turn
    waiting,    \* the count of each turn
    pc,         \* where each call is
    account,    \* the account each call writes for
    mine,       \* the turn object each call goes by
    gone        \* whether the call's context has ended

vars == <<held, taken, waiting, pc, account, mine, gone>>

\* A call is in its turn from the moment it is counted in until leave counts
\* it out.
Inside == {"waiting", "holding", "leaving"}

TypeOK ==
    /\ held \in [Accounts -> TurnIds \cup {NoTurn}]
    /\ taken \in [TurnIds -> Calls \cup {NoCall}]
    /\ waiting \in [TurnIds -> Nat]
    /\ pc \in [Calls -> Inside \cup {"idle"}]
    /\ account \in [Calls -> Accounts]
    /\ mine \in [Calls -> TurnIds \cup {NoTurn}]
    /\ gone \in [Calls -> BOOLEAN]

Init ==
    /\ held = [a \in Accounts |-> NoTurn]
    /\ taken = [t \in TurnIds |-> NoCall]
    /\ waiting = [t \in TurnIds |-> 0]
    /\ pc = [c \in Calls |-> "idle"]
    /\ account \in [Calls -> Accounts]
    /\ mine = [c \in Calls |-> NoTurn]
    /\ gone = [c \in Calls |-> FALSE]

-----------------------------------------------------------------------------

In(t) == {c \in Calls : pc[c] \in Inside /\ mine[c] = t}

\* A turn object that neither the table nor a call refers to.
Unused(t) ==
    /\ \A a \in Accounts : held[a] # t
    /\ In(t) = {}

\* A mutated form: a call that joins a turn is not counted in.
JoinUncounted(c, a) ==
    /\ held[a] # NoTurn
    /\ mine' = [mine EXCEPT ![c] = held[a]]
    /\ UNCHANGED <<held, taken, waiting>>

\* The turn of an account somebody is in already is joined.
Join(c, a) ==
    /\ held[a] # NoTurn
    /\ mine' = [mine EXCEPT ![c] = held[a]]
    /\ waiting' = [waiting EXCEPT ![held[a]] = @ + 1]
    /\ UNCHANGED <<held, taken>>

\* An account nobody writes for gets a new turn, its place free.
Open(c, a) ==
    /\ held[a] = NoTurn
    /\ \E t \in TurnIds :
        /\ Unused(t)
        /\ held' = [held EXCEPT ![a] = t]
        /\ mine' = [mine EXCEPT ![c] = t]
        /\ waiting' = [waiting EXCEPT ![t] = 1]
        /\ taken' = [taken EXCEPT ![t] = NoCall]

\* take, under the table's mutex: a call is counted into the turn of the
\* account it writes for.
Arrive(c) ==
    /\ pc[c] = "idle"
    /\ \E a \in Accounts :
        /\ account' = [account EXCEPT ![c] = a]
        /\ Join(c, a) \/ Open(c, a)
    /\ pc' = [pc EXCEPT ![c] = "waiting"]
    /\ gone' = [gone EXCEPT ![c] = FALSE]

\* take, the first branch of its select: the place is free, and the call has
\* it.  Go chooses between the branches at random when both are ready, so a
\* call whose context has ended may take its turn all the same.
Take(c) ==
    /\ pc[c] = "waiting"
    /\ taken[mine[c]] = NoCall
    /\ taken' = [taken EXCEPT ![mine[c]] = c]
    /\ pc' = [pc EXCEPT ![c] = "holding"]
    /\ UNCHANGED <<held, waiting, account, mine, gone>>

\* A mutated form: a call that gives up is not counted out.
GiveUpUncounted(c) ==
    /\ pc[c] = "waiting"
    /\ gone[c]
    /\ pc' = [pc EXCEPT ![c] = "idle"]
    /\ mine' = [mine EXCEPT ![c] = NoTurn]
    /\ UNCHANGED <<held, taken, waiting, account, gone>>

\* take, the second branch: the caller gave up, and the write is never begun.
GiveUp(c) ==
    /\ pc[c] = "waiting"
    /\ gone[c]
    /\ pc' = [pc EXCEPT ![c] = "leaving"]
    /\ UNCHANGED <<held, taken, waiting, account, mine, gone>>

\* A mutated form: the place is not given back.
GiveBackUnfreed(c) ==
    /\ pc[c] = "holding"
    /\ pc' = [pc EXCEPT ![c] = "leaving"]
    /\ UNCHANGED <<held, taken, waiting, account, mine, gone>>

\* giveBack: the place is free again, before the call is counted out.
GiveBack(c) ==
    /\ pc[c] = "holding"
    /\ taken' = [taken EXCEPT ![mine[c]] = NoCall]
    /\ pc' = [pc EXCEPT ![c] = "leaving"]
    /\ UNCHANGED <<held, waiting, account, mine, gone>>

\* A mutated form: the turn is dropped although others are in it.
LeaveDropsAlways(c) ==
    /\ pc[c] = "leaving"
    /\ waiting' = [waiting EXCEPT ![mine[c]] = @ - 1]
    /\ held' = [held EXCEPT ![account[c]] = NoTurn]
    /\ pc' = [pc EXCEPT ![c] = "idle"]
    /\ mine' = [mine EXCEPT ![c] = NoTurn]
    /\ UNCHANGED <<taken, account, gone>>

\* leave: the call is counted out, and a turn nobody else is in is dropped
\* from the table, by the account's name.
Leave(c) ==
    /\ pc[c] = "leaving"
    /\ waiting' = [waiting EXCEPT ![mine[c]] = @ - 1]
    /\ held' = IF waiting'[mine[c]] = 0
               THEN [held EXCEPT ![account[c]] = NoTurn]
               ELSE held
    /\ pc' = [pc EXCEPT ![c] = "idle"]
    /\ mine' = [mine EXCEPT ![c] = NoTurn]
    /\ UNCHANGED <<taken, account, gone>>

\* The caller of a write that waits gives up.
CallerGone(c) ==
    /\ pc[c] = "waiting"
    /\ ~gone[c]
    /\ gone' = [gone EXCEPT ![c] = TRUE]
    /\ UNCHANGED <<held, taken, waiting, pc, account, mine>>

Next ==
    \E c \in Calls :
        \/ Arrive(c)
        \/ Take(c)
        \/ GiveUp(c)
        \/ GiveBack(c)
        \/ Leave(c)
        \/ CallerGone(c)

\* Whether a call is made, and whether its caller gives up, is the callers' to
\* decide.  A write that has the place gives it back, by its defer.  Senders on
\* a channel wait in the order they came, so the place is not withheld for ever
\* from one of them while it is free again and again.
Fairness ==
    \A c \in Calls :
        /\ WF_vars(GiveBack(c))
        /\ WF_vars(Leave(c))
        /\ WF_vars(GiveUp(c))
        /\ SF_vars(Take(c))

Spec == Init /\ [][Next]_vars /\ Fairness

-----------------------------------------------------------------------------

Holders(a) == {c \in Calls : pc[c] = "holding" /\ account[c] = a}

\* The writes of one account go one at a time: no two calls are between take
\* and giveBack for the same account, however turns are dropped and made again
\* in between (turns.go, the comment on turns).
OneAtATime ==
    \A a \in Accounts : \A c, d \in Holders(a) : c = d

\* An account nobody writes for takes no memory, and one somebody writes for
\* keeps its turn: the table has a turn for exactly the accounts with a call
\* in it, and every such call goes by that very object (turns.go, the comment
\* on turn).
TableIsExact ==
    /\ \A c \in Calls : pc[c] \in Inside => held[account[c]] = mine[c]
    /\ \A a \in Accounts :
        held[a] # NoTurn => \E c \in Calls : pc[c] \in Inside /\ account[c] = a

\* Every write that waits for its turn gets it or is told why not, however
\* many others come after it.
EveryWaitEnds ==
    \A c \in Calls : pc[c] = "waiting" ~> pc[c] # "waiting"


\* Writes of an account go one at a time, by a table that holds just the turns
\* somebody is in.
TurnsHold == TypeOK /\ OneAtATime /\ TableIsExact
=============================================================================
