------------------------------- MODULE Tokens -------------------------------
(***************************************************************************)
(* The tokens a host holds for a sign-in (internal/transport/oauth:        *)
(* code.go, token.go, grants.go, access.go, revoke.go) and Google's grant  *)
(* inside them (internal/infra/googleauth).                                *)
(*                                                                         *)
(* The server keeps nothing: a token carries its sign-in, sealed, and any  *)
(* instance opens it, by a clock of its own.  Whoever held a token may     *)
(* present it again, so the tokens ever issued are only added to.  Time    *)
(* passes while Google is asked and while a tool works.                    *)
(*                                                                         *)
(* The fields signed, ends and until, in the time of nobody's clock, serve *)
(* the properties alone; so do the revocations that ended nothing, in      *)
(* unended.                                                                *)
(***************************************************************************)
EXTENDS Integers, FiniteSets

CONSTANTS
    Instances,          \* instances of the service
    NoInstance,         \* where a request that is not made is served
    Calls,              \* requests of hosts and of browsers under way at once
    ClockSkew,          \* how far apart two instances' clocks may be
    CodeLifetime,       \* how long a code is worth tokens
    AccessLifetime,     \* how long an access token is good for, at most
    RefreshLifetime,    \* how long a refresh token lasts unused
    SessionLifetime,    \* how long a sign-in lasts
    RequestSpan,        \* how long a tool goes on calling Drive
    CallTimeout,        \* how long Google is waited for
    Spare,              \* what googleRenewal adds to the margin
    GoogleLasts,        \* the lifetimes Google gives its access tokens
    MaxCodes,           \* bound: how many sign-ins are finished
    MaxDropped,         \* bound: how many refresh tokens Google lets go of
    MaxTokens,          \* bound: how many access tokens are issued
    MaxTime             \* bound: the time the model ends at

ASSUME NoInstanceIsNone == NoInstance \notin Instances
ASSUME TimesAreNumbers ==
    /\ ClockSkew \in Nat /\ CodeLifetime \in Nat /\ AccessLifetime \in Nat
    /\ RefreshLifetime \in Nat /\ SessionLifetime \in Nat
    /\ RequestSpan \in Nat /\ CallTimeout \in Nat /\ Spare \in Nat
    /\ MaxCodes \in Nat /\ MaxDropped \in Nat /\ MaxTokens \in Nat /\ MaxTime \in Nat
    /\ GoogleLasts \subseteq Nat \ {0}

VARIABLES
    now,        \* the time
    ahead,      \* how far each instance's clock is ahead of it
    latest,     \* the number of the parent's latest grant at Google, 0 before any
    ended,      \* the grants that Google has ended
    lastRefresh,    \* the number of the latest refresh token Google gave
    dropped,    \* Google's refresh tokens it honours no more, whose grants stand
    codes,      \* the authorization codes ever issued
    refreshes,  \* the refresh tokens ever issued
    accesses,   \* the access tokens ever issued
    call,       \* where each request is
    unended     \* history: Google's refresh tokens that a host was told have
                \* ended their grant, and the grant stands

vars == <<now, ahead, latest, ended, lastRefresh, dropped,
          codes, refreshes, accesses, call, unended>>
grants == <<latest, ended, lastRefresh, dropped>>
issued == <<codes, refreshes, accesses>>

Least(S) == CHOOSE x \in S : \A y \in S : x <= y

GoogleMargin == 2 * ClockSkew + RequestSpan
GoogleRenewal == GoogleMargin + Spare

Clock(i) == now + ahead[i]

\* The grant of the demo account, and the refresh token of it that was captured
\* before the service is deployed; the parent's grants, and the refresh tokens
\* given since, are numbered from 1, in the order they were given.
Demo == 0
Captured == 0

\* Whom a token signs in: a reviewer, known by the demo account's identifier at
\* Google, or anybody who came through Google, known by theirs at Drive.
Users == {"parent", "reviewer"}

\* Google's tokens as the server knows them: what grant they are of, whom they
\* sign in, the refresh token, and when the access token ends by the clock that
\* asked for it, and when it does.
GoogleTokens == [grant : Nat, user : Users, refresh : Nat, expiry : Int, ends : Nat]
Sessions == [google : GoogleTokens, signedInAt : Int, signed : Nat]
NoGoogle == [grant |-> Demo, user |-> "reviewer", refresh |-> Captured, expiry |-> 0, ends |-> 0]
NoSession == [google |-> NoGoogle, signedInAt |-> 0, signed |-> 0]

Codes == Sessions
Refreshes == [session : Sessions, expiresAt : Int]
Accesses == [google : GoogleTokens, expiresAt : Int, signed : Nat, until : Int]

Idle == [pc |-> "idle", on |-> NoInstance, session |-> NoSession,
         at |-> 0, kind |-> "none"]

CallStates ==
    [pc : {"idle", "exchange", "renew", "tool", "revoke"},
     on : Instances \cup {NoInstance}, session : Sessions, at : Nat,
     kind : {"none", "parent", "demo", "reviewer", "access", "refresh"}]

TypeOK ==
    /\ now \in 0..MaxTime
    /\ ahead \in [Instances -> Int]
    /\ latest \in Nat
    /\ ended \subseteq Nat
    /\ lastRefresh \in Nat
    /\ dropped \subseteq Nat
    /\ codes \subseteq Codes
    /\ refreshes \subseteq Refreshes
    /\ accesses \subseteq Accesses
    /\ call \in [Calls -> CallStates]
    /\ unended \subseteq Nat

ClocksAgree == \A i, j \in Instances : ahead[i] - ahead[j] <= ClockSkew

Init ==
    /\ now = 0
    /\ ahead \in [Instances -> 0..ClockSkew]
    /\ ClocksAgree
    /\ latest = 0
    /\ ended = {}
    /\ lastRefresh = Captured
    /\ dropped = {}
    /\ codes = {}
    /\ refreshes = {}
    /\ accesses = {}
    /\ call = [c \in Calls |-> Idle]
    /\ unended = {}

-----------------------------------------------------------------------------
(* Signing in                                                              *)

\* The request is answered.
End(c) == call' = [call EXCEPT ![c] = Idle]

At(places) == {c \in Calls : call[c].pc \in places}

\* The bound on the sign-ins.
MoreCodes == Cardinality(codes) + Cardinality(At({"exchange"})) < MaxCodes

\* callback: the parent comes back from Google, on some instance, which sends
\* Google's code back to it; the account may be the demo account itself.
\* signInReviewer: the reviewer's own password has the demo account's grant
\* renewed instead.
ComeBack(c) ==
    /\ call[c].pc = "idle"
    /\ MoreCodes
    /\ \E i \in Instances, kind \in {"parent", "demo", "reviewer"} :
        call' = [call EXCEPT ![c].pc = "exchange", ![c].on = i, ![c].at = now, ![c].kind = kind]
    /\ UNCHANGED <<now, ahead, grants, issued, unended>>

\* issueCode.
CodeFor(i, google) == [google |-> google, signedInAt |-> Clock(i), signed |-> now]

\* What Google gives for a request sent at the time sent by this instance: an
\* access token that lasts from when it was given, counted here from when it was
\* asked for, and the refresh token the grant goes on with.
Given(i, sent, grant, user, refresh) ==
    {[grant |-> grant, user |-> user, refresh |-> refresh,
      expiry |-> sent + ahead[i] + lasts, ends |-> given + lasts] :
        lasts \in GoogleLasts, given \in sent..now}

\* Google's numbering of what it gives.
NewRefresh(refresh) == refresh = lastRefresh + 1 /\ lastRefresh' = refresh

\* Refresh, at Google: the grant goes on with the refresh token it was renewed
\* with, or with another in its place, and Google honours the first no more.
GoesOnWith(old, refresh) ==
    \/ refresh = old /\ UNCHANGED <<lastRefresh, dropped>>
    \/ /\ Cardinality(dropped) < MaxDropped
       /\ NewRefresh(refresh)
       /\ dropped' = dropped \cup {old}

\* What a sign-in is worth at Google.  An account that comes back has the grant
\* it has given already, or a new one, and is given a refresh token each time;
\* the demo account comes back to the grant that was captured, until that has
\* ended, and is a parent's like any other after.  A reviewer's sign-in renews
\* the captured refresh token, while Google honours it.
GrantFor(kind, grant, refresh) ==
    \/ /\ kind = "parent"
       /\ grant = IF latest = 0 \/ latest \in ended THEN latest + 1 ELSE latest
       /\ latest' = grant
       /\ NewRefresh(refresh)
       /\ UNCHANGED dropped
    \/ /\ kind = "demo"
       /\ grant = Demo
       /\ Demo \notin ended
       /\ NewRefresh(refresh)
       /\ UNCHANGED <<latest, dropped>>
    \/ /\ kind = "reviewer"
       /\ grant = Demo
       /\ Demo \notin ended /\ Captured \notin dropped
       /\ GoesOnWith(Captured, refresh)
       /\ UNCHANGED latest

\* Whom the sign-in is known as.
UserFor(kind) == IF kind = "reviewer" THEN "reviewer" ELSE "parent"

\* callback and reviewerCode, once Google has answered: a code for the client
\* that carries the grant.  A sign-in that fails leaves nothing behind here, and
\* is left out.
Exchange(c) ==
    LET i == call[c].on
        kind == call[c].kind
    IN
    /\ call[c].pc = "exchange"
    /\ \E grant \in 0..(latest + 1), refresh \in 0..(lastRefresh + 1) :
        /\ GrantFor(kind, grant, refresh)
        /\ \E google \in Given(i, call[c].at, grant, UserFor(kind), refresh) :
            codes' = codes \cup {CodeFor(i, google)}
    /\ End(c)
    /\ UNCHANGED <<now, ahead, ended, refreshes, accesses, unended>>

-----------------------------------------------------------------------------
(* The token endpoint                                                      *)

\* Mutant: a code dated later than this clock is refused.
TakesCodeByOneClock(i, code) ==
    LET age == Clock(i) - code.signedInAt
    IN  0 <= age /\ age <= CodeLifetime

\* sessionOfCode: a code is good for so long by the clock it is presented to,
\* and may be presented again while it is.
TakesCode(i, code) ==
    LET age == Clock(i) - code.signedInAt
    IN  -ClockSkew <= age /\ age <= CodeLifetime

\* sessionOfRefresh.
TakesRefresh(i, token) == Clock(i) <= token.expiresAt + ClockSkew

SessionEnd(session) == session.signedInAt + SessionLifetime

\* freshen: whether so little is left of Google's token that another is asked
\* for.
NeedsGoogle(i, session) == session.google.expiry - Clock(i) < GoogleRenewal

\* Mutant: the margin is one clock's disagreement short.
AccessEndTight(i, session) ==
    Least({Clock(i) + AccessLifetime, session.google.expiry - ClockSkew - RequestSpan,
           SessionEnd(session)})

\* Mutant: an access token lasts its minutes whatever is left of the sign-in.
AccessEndAnyway(i, session) ==
    Least({Clock(i) + AccessLifetime, session.google.expiry - GoogleMargin})

\* issue: the access token ends before the Google token inside it, and neither
\* token outlives the session.
AccessEnd(i, session) ==
    Least({Clock(i) + AccessLifetime, session.google.expiry - GoogleMargin, SessionEnd(session)})

RefreshEnd(i, session) == Least({Clock(i) + RefreshLifetime, SessionEnd(session)})

\* issue, its rest: the host is handed its tokens, and told for how many
\* seconds the access token is good.
Give(i, session) ==
    LET end == AccessEnd(i, session) IN
    /\ accesses' = accesses \cup
            {[google |-> session.google, expiresAt |-> end, signed |-> session.signed,
              until |-> now + (end - Clock(i))]}
    /\ refreshes' = refreshes \cup {[session |-> session, expiresAt |-> RefreshEnd(i, session)]}

\* issue, with a Google token fresh enough: an access token that would have
\* ended already is not issued.
Issue(c, i, session) ==
    /\ \/ AccessEnd(i, session) <= Clock(i) /\ UNCHANGED <<accesses, refreshes>>
       \/ AccessEnd(i, session) > Clock(i) /\ Give(i, session)
    /\ End(c)

\* issue: a session that has ended is given no tokens; one whose Google token
\* has little left waits for Google, or is put off, past the pace of its
\* account.
Judge(c, i, session) ==
    \/ /\ SessionEnd(session) <= Clock(i)
       /\ End(c)
       /\ UNCHANGED <<accesses, refreshes>>
    \/ /\ SessionEnd(session) > Clock(i)
       /\ ~NeedsGoogle(i, session)
       /\ Issue(c, i, session)
    \/ /\ SessionEnd(session) > Clock(i)
       /\ NeedsGoogle(i, session)
       /\ \/ call' = [call EXCEPT ![c].pc = "renew", ![c].on = i, ![c].at = now,
                                  ![c].session = session]
          \/ End(c)
       /\ UNCHANGED <<accesses, refreshes>>

\* The bound on what is issued.
MoreTokens == Cardinality(accesses) + Cardinality(At({"renew"})) < MaxTokens

Redeem(c) ==
    /\ call[c].pc = "idle"
    /\ MoreTokens
    /\ \E i \in Instances, code \in codes : TakesCode(i, code) /\ Judge(c, i, code)
    /\ UNCHANGED <<now, ahead, grants, codes, unended>>

Renew(c) ==
    /\ call[c].pc = "idle"
    /\ MoreTokens
    /\ \E i \in Instances, token \in refreshes :
        TakesRefresh(i, token) /\ Judge(c, i, token.session)
    /\ UNCHANGED <<now, ahead, grants, codes, unended>>

\* Whether Google renews a grant by this refresh token of it.
Renews(google) == google.grant \notin ended /\ google.refresh \notin dropped

\* Mutant: the renewed session is given tokens dated by when it was judged.
RenewedAsJudged(c) ==
    LET i == call[c].on
        session == call[c].session
        old == session.google
        judged == call[c].at + ahead[i]
        end(google) == Least({judged + AccessLifetime, google.expiry - GoogleMargin, SessionEnd(session)})
    IN
    /\ call[c].pc = "renew"
    /\ \/ /\ Renews(old)
          /\ \E google \in Given(i, call[c].at, old.grant, old.user, old.refresh) :
                /\ end(google) > judged
                /\ accesses' = accesses \cup
                    {[google |-> google, expiresAt |-> end(google), signed |-> session.signed,
                      until |-> now + (end(google) - judged)]}
          /\ UNCHANGED refreshes
       \/ UNCHANGED <<accesses, refreshes>>
    /\ End(c)
    /\ UNCHANGED <<now, ahead, grants, codes, unended>>

\* freshen, once Google has answered: while Google honours the grant and this
\* refresh token of it, a new access token, the refresh token to go on with, and
\* the time read again; or a refusal, or no answer, and no tokens.
Renewed(c) ==
    LET i == call[c].on
        session == call[c].session
        old == session.google
    IN
    /\ call[c].pc = "renew"
    /\ \/ /\ Renews(old)
          /\ \E refresh \in 0..(lastRefresh + 1) :
                /\ GoesOnWith(old.refresh, refresh)
                /\ \E google \in Given(i, call[c].at, old.grant, old.user, refresh) :
                    Issue(c, i, [session EXCEPT !.google = google])
       \/ End(c) /\ UNCHANGED <<lastRefresh, dropped, accesses, refreshes>>
    /\ UNCHANGED <<now, ahead, latest, ended, codes, unended>>

-----------------------------------------------------------------------------
(* The resource                                                            *)

\* account: whether an access token lets a request in.
Admits(i, token) == Clock(i) <= token.expiresAt + ClockSkew

\* A tool is let in, and reaches Drive by the Google token the token carries.
LetIn(c) ==
    /\ call[c].pc = "idle"
    /\ \E i \in Instances, token \in accesses :
        LET session == [call[c].session EXCEPT !.google = token.google, !.signed = token.signed]
        IN  /\ Admits(i, token)
            /\ call' = [call EXCEPT ![c] = [call[c] EXCEPT !.pc = "tool", !.on = i, !.at = now,
                                                          !.session = session]]
    /\ UNCHANGED <<now, ahead, grants, issued, unended>>

Answer(c) ==
    /\ call[c].pc = "tool"
    /\ End(c)
    /\ UNCHANGED <<now, ahead, grants, issued, unended>>

-----------------------------------------------------------------------------
(* Revocation                                                              *)

\* Mutant: a token past its end ends nothing.
MayEndUnended(i, kind, token) == Clock(i) <= token.expiresAt + ClockSkew

\* heldGrant, and serveRevoke after it: whether a token may still end its
\* grant.  It is read whatever its own end, but an access token ends nothing
\* once the Google token inside it has ended.
MayEnd(i, kind, token) == kind = "access" => token.google.expiry > Clock(i)

\* A host that revoked a token is told that its grant is over: noted, when the
\* grant is not among those that are.
Told(kind, google, over) ==
    unended' = IF kind = "refresh" /\ google.user # "reviewer" /\ google.grant \notin over
               THEN unended \cup {google.refresh} ELSE unended

\* Mutant: a reviewer who disconnects is a parent who does.
DemoUnknown(google) == FALSE

\* serveRevoke, whether a token's user is the demo account, as the reviewers'
\* sign-in names it.
IsDemo(google) == google.user = "reviewer"

\* serveRevoke, up to the request to Google: a token of the demo account, and
\* one that can end nothing, are answered as revoked, as any other would be.
Present(c, i, kind, token, google) ==
    \/ /\ ~IsDemo(google)
       /\ MayEnd(i, kind, token)
       /\ call' = [call EXCEPT ![c].pc = "revoke", ![c].at = now, ![c].kind = kind,
                               ![c].session.google = google]
       /\ UNCHANGED unended
    \/ /\ IsDemo(google) \/ ~MayEnd(i, kind, token)
       /\ Told(kind, google, ended)
       /\ End(c)

Revoke(c) ==
    /\ call[c].pc = "idle"
    /\ \E i \in Instances :
        \/ \E token \in refreshes : Present(c, i, "refresh", token, token.session.google)
        \/ \E token \in accesses : Present(c, i, "access", token, token.google)
    /\ UNCHANGED <<now, ahead, grants, issued>>

\* Whether Google honours the token that a grant is to be ended with.
Honours(kind, google) ==
    IF kind = "refresh" THEN google.refresh \notin dropped ELSE now < google.ends

\* endAtGoogle: Google ends the whole grant by any token of it that it still
\* honours, and refuses one it does not, which ends nothing, and which the host
\* hears as revoked too; or Google does not answer, and may have ended the grant
\* or not.
Revoking(c) ==
    LET google == call[c].session.google
        kind == call[c].kind
        over == IF Honours(kind, google) THEN ended \cup {google.grant} ELSE ended
    IN
    /\ call[c].pc = "revoke"
    /\ \/ ended' = over /\ Told(kind, google, over)
       \/ ended' \in {ended, over} /\ UNCHANGED unended
    /\ End(c)
    /\ UNCHANGED <<now, ahead, latest, lastRefresh, dropped, issued>>

-----------------------------------------------------------------------------

\* Google lets go of a refresh token whose grant stands: past the number of them
\* it keeps, or unused for months; or it gave another in its place to a request
\* whose answer was lost.
Lapse ==
    /\ Cardinality(dropped) < MaxDropped
    /\ \E session \in codes \cup {token.session : token \in refreshes} :
        dropped' = dropped \cup {session.google.refresh}
    /\ UNCHANGED <<now, ahead, latest, ended, lastRefresh, issued, call, unended>>

\* Time passes.  A tool that was let in ends within its span, by its own work
\* (grants.go, the comment on requestSpan), and Google is waited for so long and
\* no longer; the hosts and the parent take the time they take.  The time before
\* the first sign-in is left out.
Tick ==
    /\ now < MaxTime
    /\ codes # {} \/ At({"exchange"}) # {}
    /\ \A c \in Calls :
        /\ call[c].pc = "tool" => now < call[c].at + RequestSpan
        /\ call[c].pc \in {"exchange", "renew", "revoke"} => now < call[c].at + CallTimeout
    /\ now' = now + 1
    /\ UNCHANGED <<ahead, grants, issued, call, unended>>

Next ==
    \/ \E c \in Calls :
        \/ ComeBack(c) \/ Exchange(c)
        \/ Redeem(c) \/ Renew(c) \/ Renewed(c)
        \/ LetIn(c) \/ Answer(c)
        \/ Revoke(c) \/ Revoking(c)
    \/ Lapse
    \/ Tick

Spec == Init /\ [][Next]_vars

-----------------------------------------------------------------------------

\* A tool that was let in reaches Drive, for as long as it may go on calling,
\* with a Google token that has not ended, neither at Google nor by its own
\* instance's clock, whichever instances asked for the token, issued the access
\* token and let the tool in (grants.go:36-45).
ToolsReachDrive ==
    \A c \in Calls : call[c].pc = "tool" =>
        /\ now <= call[c].session.google.ends
        /\ Clock(call[c].on) <= call[c].session.google.expiry

\* An access token is taken, on every instance, for as long as the host was
\* told that it is good, however long Google took to renew what is inside it
\* (grants.go:175-182, access.go:16-23).
TakenAsLongAsTold ==
    \A token \in accesses : now <= token.until =>
        \A i \in Instances : Admits(i, token)

\* However often the tokens of a sign-in are renewed, no request is let in by
\* them later than a sign-in lasts, by more than the clocks disagree: what
\* bounds a token that was kept (grants.go:24-27).
BoundedBySignIn ==
    \A c \in Calls : call[c].pc = "tool" =>
        call[c].at <= call[c].session.signed + SessionLifetime + 2 * ClockSkew

\* A code is taken by every instance from the moment it is issued, for its
\* lifetime less what the clocks disagree by, and by none for longer than its
\* lifetime and as much again (token.go:113-116).
CodesAreTaken ==
    \A i \in Instances, code \in codes :
        /\ now <= code.signed + CodeLifetime - ClockSkew => TakesCode(i, code)
        /\ TakesCode(i, code) => now <= code.signed + CodeLifetime + ClockSkew

\* The demo account came back through Google.
ThroughGoogle == \E code \in codes : code.google.grant = Demo /\ code.google.user # "reviewer"

\* A host that ended its grant with a refresh token, and was answered as if it
\* had, finds the grant ended at Google, for every token of it, unless Google
\* honours the refresh token inside no more; and no reviewer's token ends the
\* grant that the reviewers' sign-in renews, which ends only by a sign-in of the
\* demo account through Google (revoke.go:30-39, 66-73, 84-87, 118-123,
\* reviewer.go:57-63).
RevokedIsEnded ==
    /\ unended \subseteq dropped
    /\ Demo \in ended => ThroughGoogle

\* What was given is good for what it was given for: a code and an access token
\* for as long as they were said to be, and a Google token for the whole of the
\* tool that was let in by it.
GivenIsGood == ToolsReachDrive /\ TakenAsLongAsTold /\ CodesAreTaken

\* And it comes to an end: with the sign-in, however it was renewed, and with the
\* grant that its host gave back.
GivenEnds == TypeOK /\ BoundedBySignIn /\ RevokedIsEnded
=============================================================================
