------------------------------ MODULE MCWaits ------------------------------
(***************************************************************************)
(* What waits on one instance: the writes for their turn (Turns) and the   *)
(* card's questions for news (News).  The two share no state, and each     *)
(* behaviour is of one of them.                                            *)
(*                                                                         *)
(* Three calls over two accounts: one call holds the place, one waits for  *)
(* it, and one comes or goes between the two; as many turn objects as      *)
(* there are accounts, which is the most the table names at once.          *)
(* Two questions asked of s1, of a profile that s1 and s2 write.           *)
(***************************************************************************)
EXTENDS Turns, News

CONSTANTS a1, s1

VARIABLE part
waits_vars == <<vars, news_vars, part>>

WaitsInit ==
    /\ part \in {"turns", "news"}
    /\ Init
    /\ NewsInit
    /\ \A q \in Questions : question[q].on = s1
    /\ part # "turns" => \A c \in Calls : account[c] = a1

\* Every write has told its news and every question is answered.
NewsOver ==
    /\ part = "news"
    /\ \A q \in Questions : question[q].pc = "done"
    /\ UNCHANGED waits_vars

\* No question is asked of the other instances, so nobody hears the news of their
\* writes, and it is left untold; the writes themselves are read like any other.
OtherUntold == \A i \in Servers \ {s1} : told'[i] = {}

WaitsNext ==
    \/ part = "turns" /\ Next /\ UNCHANGED <<news_vars, part>>
    \/ part = "news" /\ NewsNext /\ OtherUntold /\ UNCHANGED <<vars, part>>
    \/ NewsOver

\* Nothing of the other part is enabled where it stands.
WaitsSpec == WaitsInit /\ [][WaitsNext]_waits_vars /\ Fairness /\ NewsFairness
=============================================================================
