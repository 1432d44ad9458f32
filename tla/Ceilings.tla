------------------------------ MODULE Ceilings ------------------------------
(***************************************************************************)
(* The paces an instance lets requests in at: one for each key, kept for   *)
(* the keys used latest, and one the whole instance shares (ratelimit.go). *)
(* Each ceiling is looked at under a mutex of its own, so requests pass    *)
(* one another between the two.  An allowance is held as time, as in the   *)
(* code; the least moment is one.                                          *)
(***************************************************************************)
EXTENDS Integers, Sequences, FiniteSets, SequencesExt

CONSTANTS
    Clients,        \* the keys requests are counted by
    Hands,          \* requests that may be under way at once
    MaxKeys,        \* the most keys a limiter keeps a count for
    OwnInterval,    \* what one request costs a key
    OwnBurst,       \* how many a key may make at once, after a pause
    WholeInterval,  \* the same of the instance
    WholeBurst,
    MaxMoment,      \* bound: how long it is looked at
    MaxTaken        \* bound: how many requests of a key are looked at

ASSUME PacesAreKnown ==
    /\ {MaxKeys, OwnInterval, OwnBurst, WholeInterval, WholeBurst} \subseteq Nat \ {0}
    /\ MaxMoment \in Nat /\ MaxTaken \in Nat

VARIABLES
    moment,     \* the clock the allowances come back by
    recent,     \* the keys kept, the one used latest first
    own,        \* the allowance of each key kept
    whole,      \* the allowance the instance shares
    request,    \* where each request is
    log,        \* history: the requests its own pace let in, for each key,
                \* since it was last forgotten
    returns     \* history: the requests given back, for each key, since then

ceiling_vars == <<moment, recent, own, whole, request, log, returns>>

Pace(interval, burst) == [interval |-> interval, most |-> burst * interval]
OwnPace == Pace(OwnInterval, OwnBurst)
WholePace == Pace(WholeInterval, WholeBurst)

\* A request let in by its own pace, and what became of it; and one given back:
\* which it was, 0 if the key was forgotten since, and how many were let in by then.
LogEntries == [at : 0..MaxMoment, fate : {"under way", "ahead", "back"}]
ReturnEntries == [nth : 0..MaxTaken, after : 0..MaxTaken]

Allowances(p) == [held : 0..p.most, at : 0..MaxMoment]
Full(p) == [held |-> p.most, at |-> moment]

NotUnderWay == [pc |-> "idle", key |-> "none", nth |-> 0]

CeilingsTypeOK ==
    /\ moment \in 0..MaxMoment
    /\ recent \in Seq(Clients)
    /\ DOMAIN own \subseteq Clients
    /\ \A k \in DOMAIN own : own[k] \in Allowances(OwnPace)
    /\ whole \in Allowances(WholePace)
    /\ request \in [Hands -> [pc : {"idle", "whole", "refused"}, key : Clients \cup {"none"}, nth : 0..MaxTaken]]
    /\ log \in [Clients -> Seq(LogEntries)]
    /\ returns \in [Clients -> Seq(ReturnEntries)]

CeilingsInit ==
    /\ moment = 0
    /\ recent = <<>>
    /\ own = << >>
    /\ whole = Full(WholePace)
    /\ request = [r \in Hands |-> NotUnderWay]
    /\ log = [k \in Clients |-> <<>>]
    /\ returns = [k \in Clients |-> <<>>]

-----------------------------------------------------------------------------
(* An allowance                                                            *)

Least2(a, b) == IF a < b THEN a ELSE b

\* Mutant: what came back once comes back again.
CaughtUpAgain(a, p) == [a EXCEPT !.held = Least2(p.most, @ + (moment - a.at))]

\* catchUp: the time that passed comes back, up to the most.
CaughtUp(a, p) ==
    IF moment > a.at THEN [held |-> Least2(p.most, a.held + (moment - a.at)), at |-> moment] ELSE a

\* take, once there is a request to spend.
Spent(a, p) == [CaughtUp(a, p) EXCEPT !.held = @ - p.interval]
LetsIn(a, p) == CaughtUp(a, p).held >= p.interval

\* refund.
Refunded(a, p) == [a EXCEPT !.held = Least2(p.most, @ + p.interval)]

-----------------------------------------------------------------------------
(* The keys kept                                                           *)

Kept == ToSet(recent)

PlaceOf(k) == CHOOSE i \in DOMAIN recent : recent[i] = k

\* Mutant: there is room for one key more.
UsedNowBesideAll(k) ==
    <<k>> \o (IF k \in Kept THEN RemoveAt(recent, PlaceOf(k))
             ELSE IF Len(recent) > MaxKeys THEN Front(recent) ELSE recent)

\* Mutant: the order is of the keys' first requests.
UsedAtFirst(k) ==
    LET known == IF k \in Kept THEN recent ELSE <<k>> \o recent
    IN  IF Len(known) > MaxKeys THEN Front(known) ELSE known

\* allowanceOf: the key is the latest used, and the one used longest ago makes
\* room for one not kept.
UsedNow(k) ==
    <<k>> \o (IF k \in Kept THEN RemoveAt(recent, PlaceOf(k))
             ELSE IF Len(recent) >= MaxKeys THEN Front(recent) ELSE recent)

AllowanceOf(k) == IF k \in Kept THEN own[k] ELSE Full(OwnPace)

\* What a key forgotten had, and what is known of it, is gone.
KeepKey(k, allowance) ==
    /\ recent' = UsedNow(k)
    /\ own' = [other \in ToSet(recent') |-> IF other = k THEN allowance ELSE own[other]]

Remembers(k, entry) ==
    /\ log' = [other \in Clients |->
                IF other \notin ToSet(recent') THEN <<>>
                ELSE IF other = k THEN log[k] \o entry ELSE log[other]]
    /\ returns' = [other \in Clients |-> IF other \in ToSet(recent') THEN returns[other] ELSE <<>>]

-----------------------------------------------------------------------------
(* Admit: the key's own ceiling, then the instance's                       *)

\* The requests of a key forgotten are no longer among those logged.
Forgets(r) ==
    IF request[r].key \in ToSet(recent') THEN request[r] ELSE [request[r] EXCEPT !.nth = 0]

\* Take, of the key's own ceiling: a request over it ends here.
TakeOwn(r, k) ==
    /\ request[r].pc = "idle"
    /\ Len(log[k]) < MaxTaken
    /\ \/ /\ LetsIn(AllowanceOf(k), OwnPace)
          /\ KeepKey(k, Spent(AllowanceOf(k), OwnPace))
          /\ Remembers(k, <<[at |-> moment, fate |-> "under way"]>>)
          /\ request' = [q \in Hands |->
                            IF q = r THEN [pc |-> "whole", key |-> k, nth |-> Len(log[k]) + 1]
                            ELSE Forgets(q)]
       \/ /\ ~LetsIn(AllowanceOf(k), OwnPace)
          /\ KeepKey(k, CaughtUp(AllowanceOf(k), OwnPace))
          /\ Remembers(k, <<>>)
          /\ request' = [q \in Hands |-> Forgets(q)]
    /\ UNCHANGED <<moment, whole>>

Becomes(r, fate) ==
    LET k == request[r].key
    IN  log' = IF request[r].nth = 0 THEN log
               ELSE [log EXCEPT ![k][request[r].nth].fate = fate]

\* Take, of the instance's ceiling: the request goes ahead, or is turned away.
TakeWhole(r) ==
    /\ request[r].pc = "whole"
    /\ \/ /\ LetsIn(whole, WholePace)
          /\ whole' = Spent(whole, WholePace)
          /\ Becomes(r, "ahead")
          /\ request' = [request EXCEPT ![r] = NotUnderWay]
       \/ /\ ~LetsIn(whole, WholePace)
          /\ whole' = CaughtUp(whole, WholePace)
          /\ request' = [request EXCEPT ![r].pc = "refused"]
          /\ UNCHANGED log
    /\ UNCHANGED <<moment, recent, own, returns>>

\* Mutant: a request turned away is not given back.
RefundNothing(r) ==
    /\ request[r].pc = "refused"
    /\ Becomes(r, "back")
    /\ request' = [request EXCEPT ![r] = NotUnderWay]
    /\ UNCHANGED <<moment, recent, own, whole, returns>>

\* Refund: the request is given back to the key, if it is kept, which does not
\* count as a use of it.
Refund(r) ==
    LET k == request[r].key IN
    /\ request[r].pc = "refused"
    /\ own' = IF k \in Kept THEN [own EXCEPT ![k] = Refunded(@, OwnPace)] ELSE own
    /\ returns' = IF k \in Kept
                  THEN [returns EXCEPT ![k] =
                            Append(@, [nth |-> request[r].nth, after |-> Len(log[k])])]
                  ELSE returns
    /\ Becomes(r, "back")
    /\ request' = [request EXCEPT ![r] = NotUnderWay]
    /\ UNCHANGED <<moment, recent, whole>>

Passes ==
    /\ moment < MaxMoment
    /\ moment' = moment + 1
    /\ UNCHANGED <<recent, own, whole, request, log, returns>>

CeilingsNext ==
    \/ \E r \in Hands :
        \/ \E k \in Clients : TakeOwn(r, k)
        \/ TakeWhole(r)
        \/ Refund(r)
    \/ Passes

CeilingsSpec == CeilingsInit /\ [][CeilingsNext]_ceiling_vars

-----------------------------------------------------------------------------

\* A limiter keeps an allowance for exactly the keys in its order, each there
\* once, and for no more of them than it may (allowanceOf).
OrderIsExact ==
    /\ DOMAIN own = Kept
    /\ Len(recent) = Cardinality(Kept)
    /\ Len(recent) <= MaxKeys

\* The keys are in the order their allowances were last looked at, so the one
\* forgotten has had the longest to fill back (allowanceOf).
ForgottenIsOldest ==
    \A i, j \in DOMAIN recent : i < j => own[recent[i]].at >= own[recent[j]].at

\* The n-th to the m-th request let in by a key's pace: those not given back,
\* and those given back meanwhile that were let in before.
GoneAhead(k, n, m) == {i \in n..m : log[k][i].fate # "back"}
GivenMeanwhile(k, n, m) ==
    {i \in DOMAIN returns[k] : returns[k][i].nth < n /\ returns[k][i].after \in n..(m - 1)}

\* Over any stretch of time a key goes ahead no oftener than its pace, after a
\* pause, allows, however its requests pass one another and are given back; a
\* request under way as the stretch begins and given back in it adds one
\* (ratelimit.go: take, refund, catchUp).  A key that was forgotten begins anew.
PaceHolds ==
    \A k \in Clients : \A n, m \in DOMAIN log[k] : n <= m =>
        (Cardinality(GoneAhead(k, n, m)) - Cardinality(GivenMeanwhile(k, n, m))) * OwnInterval
            <= OwnPace.most + (log[k][m].at - log[k][n].at)

\* What a key would hold if the requests given back had never been made.
IdealOf(entries) ==
    LET at(n) == IF n = 0 THEN 0 ELSE entries[n].at
        held[n \in 0..Len(entries)] ==
            IF n = 0 THEN OwnPace.most
            ELSE Least2(OwnPace.most, held[n - 1] + (at(n) - at(n - 1)))
                     - (IF entries[n].fate = "back" THEN 0 ELSE OwnInterval)
    IN  [held |-> held[Len(entries)], at |-> at(Len(entries))]
Ideal(k) == IdealOf(log[k])

\* A request that did not go ahead costs no allowance: a key holds at least what
\* it would if those turned away had never been made (Admit).
TurnedAwayCostsNothing ==
    \A k \in Kept : CaughtUp(own[k], OwnPace).held >= CaughtUp(Ideal(k), OwnPace).held

\* A key goes ahead as its pace allows and no oftener, by the allowance kept for
\* it alone.
CeilingsHold ==
    CeilingsTypeOK /\ OrderIsExact /\ ForgottenIsOldest /\ PaceHolds /\ TurnedAwayCostsNothing
=============================================================================
