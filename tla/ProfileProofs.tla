---------------------------- MODULE ProfileProofs ----------------------------
(***************************************************************************)
(* What each operation of a child's profile keeps of it, proved once for   *)
(* the lesson and for the calls on several instances: a profile is sound,  *)
(* knows no name that was not given, is in time for its day, and recalls   *)
(* the answer on the card.                                                 *)
(***************************************************************************)
EXTENDS Profile, TLAPS

Handed(p) == {p.given[n] : n \in DOMAIN p.given}
Behind(p) == {p.recent[n].task : n \in DOMAIN p.recent}

AddsUp(p) ==
    Len(p.given) = Len(p.recent) + p.discarded + (IF InFlight(p) THEN 1 ELSE 0)

EachOnce(p) ==
    \A m, n \in DOMAIN p.recent : p.recent[m].task = p.recent[n].task => m = n

\* Every task behind the child was handed out, the one in flight is not behind
\* them, and what is open or kept was never handed out.
InOrder(p) ==
    /\ Behind(p) \subseteq Handed(p)
    /\ p.task # None => p.task.id \in Handed(p)
    /\ InFlight(p) => p.task.id \notin Behind(p)
    /\ p.request # None => p.request.id \notin Handed(p)
    /\ p.ready # None => p.ready.id \notin Handed(p)

Sound(p) ==
    /\ p \in Profiles
    /\ p.ready = None \/ p.request = None
    /\ AddsUp(p)
    /\ EachOnce(p)
    /\ InOrder(p)

-----------------------------------------------------------------------------
(* The operations of the profile.                                          *)

\* Letting go of what no longer fits only takes from the profile.
LEMMA LetGoTakes ==
    ASSUME NEW p \in Profiles, NEW e, NEW now
    PROVE  /\ LetGo(p, e, now) \in Profiles
           /\ LetGo(p, e, now).ready \in {p.ready, None}
           /\ LetGo(p, e, now).request \in {p.request, None}
           /\ LetGo(p, e, now).lesson = p.lesson
           /\ LetGo(p, e, now).task = p.task
           /\ LetGo(p, e, now).recent = p.recent
           /\ LetGo(p, e, now).discarded = p.discarded
           /\ LetGo(p, e, now).given = p.given
           /\ LetGo(p, e, now).daily = p.daily
<1>1. LetGo(p, e, now) \in {p, DropReady(p), CloseRequest(p), CloseRequest(DropReady(p))}
  BY DEF LetGo
<1>2. CASE LetGo(p, e, now) = p
  BY <1>2
<1>3. CASE LetGo(p, e, now) = DropReady(p)
  BY <1>3 DEF DropReady, Profiles
<1>4. CASE LetGo(p, e, now) = CloseRequest(p)
  BY <1>4 DEF CloseRequest, Profiles
<1>5. CASE LetGo(p, e, now) = CloseRequest(DropReady(p))
  BY <1>5 DEF CloseRequest, DropReady, Profiles
<1> QED
  BY <1>1, <1>2, <1>3, <1>4, <1>5

\* So it keeps the profile sound.
LEMMA LetGoSound ==
    ASSUME NEW p, Sound(p), NEW e, NEW now
    PROVE  Sound(LetGo(p, e, now))
<1>. DEFINE q == LetGo(p, e, now)
<1>1. /\ q \in Profiles
      /\ q.ready \in {p.ready, None} /\ q.request \in {p.request, None}
      /\ q.task = p.task /\ q.recent = p.recent
      /\ q.discarded = p.discarded /\ q.given = p.given
  BY LetGoTakes DEF Sound
<1>. HIDE DEF q
<1>2. Handed(q) = Handed(p) /\ Behind(q) = Behind(p) /\ InFlight(q) = InFlight(p)
  BY <1>1 DEF Handed, Behind, InFlight
<1>3. q.ready = None \/ q.request = None
  BY <1>1 DEF Sound
<1>4. AddsUp(q) /\ EachOnce(q)
  BY <1>1, <1>2 DEF Sound, AddsUp, EachOnce
<1>5. InOrder(q)
  BY <1>1, <1>2 DEF Sound, InOrder
<1>6. Sound(q)
  BY <1>1, <1>3, <1>4, <1>5 DEF Sound
<1> QED
  BY <1>6 DEF q

\* What appending does to a sequence.
LEMMA Appending ==
    ASSUME NEW S, NEW s \in Seq(S), NEW e \in S
    PROVE  /\ Append(s, e) \in Seq(S)
           /\ Len(Append(s, e)) = Len(s) + 1
           /\ DOMAIN s = 1 .. Len(s)
           /\ DOMAIN Append(s, e) = 1 .. Len(s) + 1
           /\ \A n \in 1 .. Len(s) : Append(s, e)[n] = s[n]
           /\ Append(s, e)[Len(s) + 1] = e
           /\ Len(s) \in Nat
  OBVIOUS

\* A task handed out joins those handed out before.
LEMMA HandedGrows ==
    ASSUME NEW p \in Profiles, NEW q, NEW id \in Ids, q.given = Append(p.given, id)
    PROVE  Handed(q) = Handed(p) \cup {id} /\ Len(q.given) = Len(p.given) + 1
<1>1. p.given \in Seq(Ids)
  BY DEF Profiles
<1> QED
  BY <1>1, Appending DEF Handed

\* A task recorded joins those behind the child, once.
LEMMA BehindGrows ==
    ASSUME NEW p \in Profiles, NEW q, NEW entry \in Entries, q.recent = Append(p.recent, entry)
    PROVE  /\ Behind(q) = Behind(p) \cup {entry.task}
           /\ Len(q.recent) = Len(p.recent) + 1
           /\ (EachOnce(p) /\ entry.task \notin Behind(p)) => EachOnce(q)
<1>1. p.recent \in Seq(Entries)
  BY DEF Profiles
<1>2. Behind(q) = Behind(p) \cup {entry.task} /\ Len(q.recent) = Len(p.recent) + 1
  BY <1>1, Appending DEF Behind
<1>3. ASSUME EachOnce(p), entry.task \notin Behind(p)
      PROVE  EachOnce(q)
  BY <1>1, <1>3, Appending DEF Behind, EachOnce
<1> QED
  BY <1>2, <1>3

\* The counters of a day count a day.
LEMMA TodayIsADay ==
    ASSUME NEW daily \in Days, NEW now \in Nat
    PROVE  Today(daily, now) \in Days /\ now \div DayLength \in Nat
<1>1. now \div DayLength \in Nat
  BY LimitsAreNumbers
<1> QED
  BY <1>1 DEF Today, Days

\* A count raised changes nothing else.
LEMMA CountsKeep ==
    ASSUME NEW p \in Profiles, NEW now \in Nat
    PROVE  /\ CountAccepted(p, now) = [p EXCEPT !.daily = CountAccepted(p, now).daily]
           /\ CountFailed(p, now) = [p EXCEPT !.daily = CountFailed(p, now).daily]
           /\ CountAccepted(p, now).daily = [Today(p.daily, now) EXCEPT !.accepted = @ + 1]
           /\ CountFailed(p, now).daily = [Today(p.daily, now) EXCEPT !.failed = @ + 1]
           /\ CountAccepted(p, now).daily \in Days
           /\ CountFailed(p, now).daily \in Days
<1>1. p.daily \in Days
  BY DEF Profiles
<1>2. Today(p.daily, now) \in Days
  BY <1>1, TodayIsADay
<1>3. /\ [Today(p.daily, now) EXCEPT !.accepted = @ + 1] \in Days
      /\ [Today(p.daily, now) EXCEPT !.failed = @ + 1] \in Days
  BY <1>2 DEF Days
<1>4. /\ CountAccepted(p, now).daily = [Today(p.daily, now) EXCEPT !.accepted = @ + 1]
      /\ CountFailed(p, now).daily = [Today(p.daily, now) EXCEPT !.failed = @ + 1]
  BY DEF CountAccepted, CountFailed, Profiles
<1>5. /\ CountAccepted(p, now) = [p EXCEPT !.daily = CountAccepted(p, now).daily]
      /\ CountFailed(p, now) = [p EXCEPT !.daily = CountFailed(p, now).daily]
  BY <1>4 DEF CountAccepted, CountFailed
<1> QED
  BY <1>3, <1>4, <1>5

\* A task left on the card is recorded as skipped, once.
LEMMA SkipKeeps ==
    ASSUME NEW p, Sound(p)
    PROVE  /\ Sound(Skip(p))
           /\ Skip(p).lesson = p.lesson /\ Skip(p).request = p.request
           /\ Skip(p).ready = p.ready /\ Skip(p).given = p.given
           /\ Skip(p).daily = p.daily /\ Skip(p).task = None
<1>. DEFINE q == Skip(p)
            entry == [task |-> p.task.id, choice |-> "skipped"]
<1>1. p \in Profiles
  BY DEF Sound
<1>2. /\ q.lesson = p.lesson /\ q.request = p.request /\ q.ready = p.ready
      /\ q.given = p.given /\ q.daily = p.daily /\ q.task = None
      /\ q.discarded = p.discarded
      /\ q.recent = IF InFlight(p) THEN Append(p.recent, entry) ELSE p.recent
  BY <1>1 DEF Skip, Leave, Profiles
<1>3. ~InFlight(q) /\ Handed(q) = Handed(p)
  BY <1>2 DEF InFlight, Handed
<1>4. CASE InFlight(p)
  <2>1. entry \in Entries /\ p.task.id \notin Behind(p) /\ p.task.id \in Handed(p)
    BY <1>1, <1>4 DEF Sound, InOrder, InFlight, Profiles, CardTasks, Entries
  <2>2. q \in Profiles
    <3>1. q = [p EXCEPT !.recent = Append(p.recent, entry), !.task = None]
      BY <1>1, <1>4 DEF Skip, Leave, Profiles
    <3>2. Append(p.recent, entry) \in Seq(Entries)
      BY <1>1, <2>1, Appending DEF Profiles
    <3> QED
      BY <1>1, <3>1, <3>2 DEF Profiles
  <2>3. /\ Behind(q) = Behind(p) \cup {p.task.id} /\ Len(q.recent) = Len(p.recent) + 1
        /\ EachOnce(q)
    <3>1. q.recent = Append(p.recent, entry) /\ entry.task = p.task.id
      BY <1>2, <1>4
    <3>2. EachOnce(p) /\ entry.task \notin Behind(p)
      BY <2>1, <3>1 DEF Sound
    <3>. HIDE DEF q, entry
    <3>3. /\ Behind(q) = Behind(p) \cup {entry.task} /\ Len(q.recent) = Len(p.recent) + 1
          /\ EachOnce(q)
      BY <1>1, <2>1, <3>1, <3>2, BehindGrows
    <3> QED
      BY <3>1, <3>3
  <2>4. AddsUp(q)
    BY <1>1, <1>2, <1>3, <1>4, <2>3 DEF Sound, AddsUp, Profiles
  <2>5. InOrder(q)
    BY <1>2, <1>3, <2>1, <2>3 DEF Sound, InOrder
  <2> QED
    BY <1>2, <2>2, <2>3, <2>4, <2>5 DEF Sound
<1>5. CASE ~InFlight(p)
  <2>1. q \in Profiles
    BY <1>1, <1>5 DEF Skip, Profiles
  <2>2. Behind(q) = Behind(p) /\ EachOnce(q) /\ AddsUp(q)
    BY <1>2, <1>3, <1>5 DEF Sound, Behind, EachOnce, AddsUp
  <2>3. InOrder(q)
    BY <1>2, <1>3, <2>2 DEF Sound, InOrder
  <2> QED
    BY <1>2, <2>1, <2>2, <2>3 DEF Sound
<1> QED
  BY <1>2, <1>4, <1>5

\* A task handed out that was not before keeps the profile sound: q is p with
\* nothing open or kept, the one left on the card skipped and id on the card.
LEMMA HandedOutSound ==
    ASSUME NEW p, Sound(p), NEW id \in Ids, id \notin Handed(p),
           NEW q \in Profiles, q.ready = None, q.request = None,
           q.task = [id |-> id, answered |-> NoAnswer],
           q.given = Append(p.given, id), q.discarded = p.discarded,
           q.recent = IF InFlight(p)
                      THEN Append(p.recent, [task |-> p.task.id, choice |-> "skipped"])
                      ELSE p.recent
    PROVE  Sound(q)
<1>. DEFINE entry == [task |-> p.task.id, choice |-> "skipped"]
<1>1. p \in Profiles
  BY DEF Sound
<1>2. Handed(q) = Handed(p) \cup {id} /\ Len(q.given) = Len(p.given) + 1
  BY <1>1, HandedGrows
<1>3. q.task \in CardTasks /\ q.task # None /\ InFlight(q)
  BY NoneIsNone DEF CardTasks, InFlight
<1>4. CASE InFlight(p)
  <2>1. entry \in Entries /\ p.task.id \notin Behind(p) /\ p.task.id \in Handed(p)
    BY <1>1, <1>4 DEF Sound, InOrder, InFlight, Profiles, CardTasks, Entries
  <2>2. /\ Behind(q) = Behind(p) \cup {p.task.id} /\ Len(q.recent) = Len(p.recent) + 1
        /\ EachOnce(q)
    <3>1. q.recent = Append(p.recent, entry) /\ entry.task = p.task.id
      BY <1>4
    <3>2. EachOnce(p) /\ entry.task \notin Behind(p)
      BY <2>1, <3>1 DEF Sound
    <3>. HIDE DEF entry
    <3>3. /\ Behind(q) = Behind(p) \cup {entry.task} /\ Len(q.recent) = Len(p.recent) + 1
          /\ EachOnce(q)
      BY <1>1, <2>1, <3>1, <3>2, BehindGrows
    <3> QED
      BY <3>1, <3>3
  <2>3. AddsUp(q)
    BY <1>1, <1>2, <1>3, <1>4, <2>2 DEF Sound, AddsUp, Profiles
  <2>4. InOrder(q)
    BY <1>2, <2>1, <2>2 DEF Sound, InOrder
  <2> QED
    BY <2>2, <2>3, <2>4 DEF Sound
<1>5. CASE ~InFlight(p)
  <2>1. Behind(q) = Behind(p) /\ EachOnce(q)
    BY <1>5 DEF Sound, Behind, EachOnce
  <2>2. AddsUp(q)
    BY <1>1, <1>2, <1>3, <1>5 DEF Sound, AddsUp, Profiles
  <2>3. InOrder(q)
    BY <1>2, <2>1 DEF Sound, InOrder
  <2> QED
    BY <2>1, <2>2, <2>3 DEF Sound
<1> QED
  BY <1>4, <1>5

\* The hand-out of a task, field by field.
LEMMA HandOutFields ==
    ASSUME NEW p \in Profiles, NEW id \in Ids, NEW now \in Nat
    PROVE  /\ HandOut(p, id, now) \in Profiles
           /\ HandOut(p, id, now).lesson = p.lesson
           /\ HandOut(p, id, now).request = p.request
           /\ HandOut(p, id, now).ready = p.ready
           /\ HandOut(p, id, now).task = [id |-> id, answered |-> NoAnswer]
           /\ HandOut(p, id, now).given = Append(p.given, id)
           /\ HandOut(p, id, now).discarded = p.discarded
           /\ HandOut(p, id, now).recent =
                IF InFlight(p)
                THEN Append(p.recent, [task |-> p.task.id, choice |-> "skipped"])
                ELSE p.recent
           /\ HandOut(p, id, now).daily = [Today(p.daily, now) EXCEPT !.accepted = @ + 1]
<1>. DEFINE entry == [task |-> p.task.id, choice |-> "skipped"]
            left == IF InFlight(p) THEN Leave(p) ELSE p
            card == [id |-> id, answered |-> NoAnswer]
            r == [left EXCEPT !.task = card, !.given = Append(@, id)]
<1>1. InFlight(p) => entry \in Entries
  BY DEF InFlight, Profiles, CardTasks, Entries
<1>2. InFlight(p) => Append(p.recent, entry) \in Seq(Entries)
  <2>1. p.recent \in Seq(Entries)
    BY DEF Profiles
  <2>. HIDE DEF entry
  <2> QED
    BY <1>1, <2>1, Appending
<1>3. /\ left \in Profiles
      /\ left.lesson = p.lesson /\ left.request = p.request /\ left.ready = p.ready
      /\ left.given = p.given /\ left.discarded = p.discarded /\ left.daily = p.daily
      /\ left.recent = IF InFlight(p) THEN Append(p.recent, entry) ELSE p.recent
  BY <1>2 DEF Leave, Profiles
<1>4. card \in CardTasks /\ Append(p.given, id) \in Seq(Ids)
  BY Appending DEF CardTasks, Profiles
<1>5. /\ r \in Profiles
      /\ r.lesson = p.lesson /\ r.request = p.request /\ r.ready = p.ready
      /\ r.given = Append(p.given, id) /\ r.discarded = p.discarded /\ r.daily = p.daily
      /\ r.recent = left.recent /\ r.task = card
  <2>. HIDE DEF left, card
  <2> QED
    BY <1>3, <1>4 DEF Profiles
<1>6. HandOut(p, id, now) = CountAccepted(r, now)
  BY DEF HandOut
<1>7. /\ CountAccepted(r, now) = [r EXCEPT !.daily = CountAccepted(r, now).daily]
      /\ CountAccepted(r, now).daily = [Today(r.daily, now) EXCEPT !.accepted = @ + 1]
      /\ CountAccepted(r, now).daily \in Days
  <2>. HIDE DEF r
  <2> QED
    BY <1>5, CountsKeep
<1>. HIDE DEF r, left, card
<1>8. /\ CountAccepted(r, now) \in Profiles
      /\ CountAccepted(r, now).lesson = r.lesson /\ CountAccepted(r, now).request = r.request
      /\ CountAccepted(r, now).ready = r.ready /\ CountAccepted(r, now).task = r.task
      /\ CountAccepted(r, now).given = r.given /\ CountAccepted(r, now).discarded = r.discarded
      /\ CountAccepted(r, now).recent = r.recent
  BY <1>5, <1>7 DEF Profiles
<1> QED
  BY <1>3, <1>5, <1>6, <1>7, <1>8 DEF card

\* The task handed in for the request goes on the card, the request closed.
LEMMA IssueKeeps ==
    ASSUME NEW p, Sound(p), p.request # None, NEW now \in Nat
    PROVE  /\ Sound(Issue(p, now))
           /\ Issue(p, now).request = None /\ Issue(p, now).ready = None
           /\ Issue(p, now).task = [id |-> p.request.id, answered |-> NoAnswer]
           /\ Handed(Issue(p, now)) = Handed(p) \cup {p.request.id}
           /\ Issue(p, now).daily = [Today(p.daily, now) EXCEPT !.accepted = @ + 1]
           /\ Issue(p, now).lesson = p.lesson
<1>. DEFINE r == [p EXCEPT !.request = None]
            id == p.request.id
<1>1. /\ p \in Profiles /\ id \in Ids /\ id \notin Handed(p) /\ p.ready = None
  BY DEF Sound, Profiles, Requests, InOrder
<1>2. /\ r \in Profiles /\ r.request = None
      /\ r.lesson = p.lesson /\ r.ready = p.ready /\ r.given = p.given /\ r.daily = p.daily
      /\ r.discarded = p.discarded /\ r.recent = p.recent /\ r.task = p.task
  BY <1>1 DEF Profiles
<1>3. Issue(p, now) = HandOut(r, id, now) /\ InFlight(r) = InFlight(p)
  BY <1>2 DEF Issue, InFlight
<1>. DEFINE q == HandOut(r, id, now)
<1>. HIDE DEF r, id
<1>4. /\ q \in Profiles /\ q.request = None /\ q.ready = None
      /\ q.task = [id |-> id, answered |-> NoAnswer] /\ q.lesson = p.lesson
      /\ q.given = Append(p.given, id) /\ q.discarded = p.discarded
      /\ q.recent = IF InFlight(p)
                    THEN Append(p.recent, [task |-> p.task.id, choice |-> "skipped"])
                    ELSE p.recent
      /\ q.daily = [Today(p.daily, now) EXCEPT !.accepted = @ + 1]
  BY <1>1, <1>2, <1>3, HandOutFields
<1>. HIDE DEF q
<1>5. Sound(q)
  BY <1>1, <1>4, HandedOutSound
<1>6. Handed(q) = Handed(p) \cup {id}
  BY <1>1, <1>4, HandedGrows
<1> QED
  BY <1>3, <1>4, <1>5, <1>6 DEF q, id

\* The task kept ready goes on the card.
LEMMA HandOutReadyKeeps ==
    ASSUME NEW p, Sound(p), p.ready # None, NEW now \in Nat
    PROVE  /\ Sound(HandOutReady(p, now))
           /\ HandOutReady(p, now).request = None /\ HandOutReady(p, now).ready = None
           /\ HandOutReady(p, now).task = [id |-> p.ready.id, answered |-> NoAnswer]
           /\ Handed(HandOutReady(p, now)) = Handed(p) \cup {p.ready.id}
           /\ HandOutReady(p, now).daily = [Today(p.daily, now) EXCEPT !.accepted = @ + 1]
           /\ HandOutReady(p, now).lesson = p.lesson
<1>. DEFINE id == p.ready.id
            h == HandOut(p, id, now)
            q == [h EXCEPT !.ready = None]
<1>1. /\ p \in Profiles /\ id \in Ids /\ id \notin Handed(p) /\ p.request = None
  BY DEF Sound, Profiles, KeptTasks, InOrder
<1>2. HandOutReady(p, now) = q
  BY DEF HandOutReady
<1>. HIDE DEF id
<1>3. /\ h \in Profiles /\ h.request = None
      /\ h.task = [id |-> id, answered |-> NoAnswer] /\ h.lesson = p.lesson
      /\ h.given = Append(p.given, id) /\ h.discarded = p.discarded
      /\ h.recent = IF InFlight(p)
                    THEN Append(p.recent, [task |-> p.task.id, choice |-> "skipped"])
                    ELSE p.recent
      /\ h.daily = [Today(p.daily, now) EXCEPT !.accepted = @ + 1]
  BY <1>1, HandOutFields
<1>. HIDE DEF h
<1>4. /\ q \in Profiles /\ q.request = None /\ q.ready = None
      /\ q.task = h.task /\ q.lesson = h.lesson /\ q.given = h.given
      /\ q.discarded = h.discarded /\ q.recent = h.recent /\ q.daily = h.daily
  BY <1>3 DEF Profiles
<1>. HIDE DEF q
<1>5. Sound(q)
  BY <1>1, <1>3, <1>4, HandedOutSound
<1>6. Handed(q) = Handed(p) \cup {id}
  BY <1>1, <1>3, <1>4, HandedGrows
<1> QED
  BY <1>2, <1>3, <1>4, <1>5, <1>6 DEF id

\* What is open or kept may change, while it was never handed out.
LEMMA OpenChangesSound ==
    ASSUME NEW p, Sound(p), NEW q \in Profiles,
           q.task = p.task, q.recent = p.recent, q.discarded = p.discarded, q.given = p.given,
           q.ready = None \/ q.request = None,
           q.request # None => q.request.id \notin Handed(p),
           q.ready # None => q.ready.id \notin Handed(p)
    PROVE  Sound(q) /\ Handed(q) = Handed(p)
<1>1. Handed(q) = Handed(p) /\ Behind(q) = Behind(p) /\ InFlight(q) = InFlight(p)
  BY DEF Handed, Behind, InFlight
<1>2. AddsUp(q) /\ EachOnce(q)
  BY <1>1 DEF Sound, AddsUp, EachOnce
<1>3. InOrder(q)
  BY <1>1 DEF Sound, InOrder
<1> QED
  BY <1>1, <1>2, <1>3 DEF Sound

\* A request is opened under a name never handed out.
LEMMA AskKeeps ==
    ASSUME NEW p, Sound(p), NEW id \in Ids, id \notin Handed(p), NEW now \in Nat
    PROVE  /\ Sound(Ask(p, id, now)) /\ Handed(Ask(p, id, now)) = Handed(p)
           /\ Ask(p, id, now).request \in Requests /\ Ask(p, id, now).request # None
           /\ Ask(p, id, now).request.id = id /\ Ask(p, id, now).request.opened = now
           /\ Ask(p, id, now).ready = None /\ Ask(p, id, now).task = p.task
           /\ Ask(p, id, now).daily = p.daily
<1>. DEFINE q == Ask(p, id, now)
            request == [id |-> id, ahead |-> FALSE, attempts |-> 0, opened |-> now, lesson |-> p.lesson]
<1>1. p \in Profiles
  BY DEF Sound
<1>2. request \in Requests /\ request.id = id /\ request.opened = now
  BY <1>1, LimitsAreNumbers DEF Requests, Profiles
<1>3. q = [p EXCEPT !.ready = None, !.request = request]
  BY DEF Ask
<1>. HIDE DEF request
<1>4. /\ q \in Profiles /\ q.request = request /\ q.ready = None /\ q.task = p.task
      /\ q.recent = p.recent /\ q.given = p.given /\ q.discarded = p.discarded /\ q.daily = p.daily
  BY <1>1, <1>2, <1>3 DEF Profiles
<1>. HIDE DEF q
<1>5. Sound(q) /\ Handed(q) = Handed(p) /\ q.request # None
  BY <1>2, <1>4, NoneIsNone, OpenChangesSound
<1> QED
  BY <1>2, <1>4, <1>5 DEF q

\* So is the request for the task after the one on the card.
LEMMA AskAheadKeeps ==
    ASSUME NEW p, Sound(p), NEW id \in Ids, id \notin Handed(p), NEW now \in Nat
    PROVE  /\ Sound(AskAhead(p, id, now)) /\ Handed(AskAhead(p, id, now)) = Handed(p)
           /\ AskAhead(p, id, now).request # None
           /\ AskAhead(p, id, now).request.id = id /\ AskAhead(p, id, now).request.opened = now
           /\ AskAhead(p, id, now).ready = None /\ AskAhead(p, id, now).task = p.task
           /\ AskAhead(p, id, now).daily = p.daily
<1>. DEFINE r == Ask(p, id, now)
            q == AskAhead(p, id, now)
            request == [r.request EXCEPT !.ahead = TRUE]
<1>1. /\ Sound(r) /\ Handed(r) = Handed(p) /\ r.request \in Requests
      /\ r.request.id = id /\ r.request.opened = now
      /\ r.ready = None /\ r.task = p.task /\ r.daily = p.daily
  BY AskKeeps
<1>2. r \in Profiles
  BY <1>1 DEF Sound
<1>3. q = [r EXCEPT !.request.ahead = TRUE]
  BY DEF AskAhead
<1>. HIDE DEF r, q
<1>4. request \in Requests /\ request.id = id /\ request.opened = now
  BY <1>1 DEF Requests
<1>5. q = [r EXCEPT !.request = request]
  BY <1>1, <1>2, <1>3 DEF Requests, Profiles
<1>. HIDE DEF request
<1>6. /\ q \in Profiles /\ q.request = request /\ q.ready = None /\ q.task = r.task
      /\ q.recent = r.recent /\ q.given = r.given /\ q.discarded = r.discarded /\ q.daily = r.daily
  BY <1>1, <1>2, <1>4, <1>5 DEF Profiles
<1>7. Sound(q) /\ Handed(q) = Handed(r) /\ q.request # None
  BY <1>1, <1>4, <1>6, NoneIsNone, OpenChangesSound
<1> QED
  BY <1>1, <1>4, <1>6, <1>7 DEF q

\* The request a child waits for now is the one that was open ahead.
LEMMA AwaitKeeps ==
    ASSUME NEW p, Sound(p), p.request # None, NEW now \in Nat
    PROVE  /\ Sound(Await(p, now)) /\ Handed(Await(p, now)) = Handed(p)
           /\ Await(p, now).request # None
           /\ Await(p, now).request.id = p.request.id /\ Await(p, now).request.opened = now
           /\ Await(p, now).request.ahead = FALSE
           /\ Await(p, now).request.attempts = p.request.attempts
           /\ Await(p, now).ready = p.ready /\ Await(p, now).task = p.task
           /\ Await(p, now).daily = p.daily
<1>. DEFINE q == Await(p, now)
            awaited == [p.request EXCEPT !.ahead = FALSE, !.opened = now]
<1>1. p \in Profiles /\ p.request \in Requests
  BY DEF Sound, Profiles
<1>2. /\ awaited \in Requests /\ awaited.id = p.request.id /\ awaited.opened = now
      /\ awaited.ahead = FALSE /\ awaited.attempts = p.request.attempts
  BY <1>1 DEF Requests
<1>3. q = [p EXCEPT !.request = awaited]
  BY <1>1 DEF Await, Requests, Profiles
<1>. HIDE DEF awaited
<1>4. /\ q \in Profiles /\ q.request = awaited /\ q.ready = p.ready /\ q.task = p.task
      /\ q.recent = p.recent /\ q.given = p.given /\ q.discarded = p.discarded /\ q.daily = p.daily
  BY <1>1, <1>2, <1>3 DEF Profiles
<1>. HIDE DEF q
<1>5. p.ready = None /\ p.request.id \notin Handed(p) /\ q.request # None
  BY <1>2, <1>4, NoneIsNone DEF Sound, InOrder
<1>6. Sound(q) /\ Handed(q) = Handed(p)
  BY <1>2, <1>4, <1>5, OpenChangesSound
<1> QED
  BY <1>2, <1>4, <1>5, <1>6 DEF q

\* The task written ahead is kept ready in place of its request.
LEMMA KeepKeeps ==
    ASSUME NEW p, Sound(p), p.request # None
    PROVE  /\ Sound(Keep(p)) /\ Handed(Keep(p)) = Handed(p)
           /\ Keep(p).request = None /\ Keep(p).ready.id = p.request.id
           /\ Keep(p).ready # None
           /\ Keep(p).task = p.task /\ Keep(p).daily = p.daily
<1>. DEFINE q == Keep(p)
            kept == [id |-> p.request.id, lesson |-> p.request.lesson]
<1>1. p \in Profiles /\ p.request \in Requests
  BY DEF Sound, Profiles
<1>2. kept \in KeptTasks /\ kept.id = p.request.id
  BY <1>1 DEF Requests, KeptTasks
<1>3. q = [p EXCEPT !.ready = kept, !.request = None]
  BY DEF Keep
<1>. HIDE DEF kept
<1>4. /\ q \in Profiles /\ q.request = None /\ q.ready = kept /\ q.task = p.task
      /\ q.recent = p.recent /\ q.given = p.given /\ q.discarded = p.discarded /\ q.daily = p.daily
  BY <1>1, <1>2, <1>3 DEF Profiles
<1>. HIDE DEF q
<1>5. p.request.id \notin Handed(p) /\ q.ready # None
  BY <1>2, <1>4, NoneIsNone DEF Sound, InOrder
<1>6. Sound(q) /\ Handed(q) = Handed(p)
  BY <1>2, <1>4, <1>5, OpenChangesSound
<1> QED
  BY <1>2, <1>4, <1>5, <1>6 DEF q

\* An attempt refused is spent, and the last closes the request and is counted.
LEMMA RefuseKeeps ==
    ASSUME NEW p, Sound(p), p.request # None, NEW now \in Nat
    PROVE  /\ Sound(Refuse(p, now)) /\ Handed(Refuse(p, now)) = Handed(p)
           /\ Refuse(p, now).ready = None /\ Refuse(p, now).task = p.task
           /\ \/ /\ Refuse(p, now).request # None
                 /\ Refuse(p, now).request.id = p.request.id
                 /\ Refuse(p, now).request.opened = p.request.opened
                 /\ Refuse(p, now).daily = p.daily
              \/ /\ p.request.attempts + 1 = MaxAttempts
                 /\ Refuse(p, now).request = None
                 /\ Refuse(p, now).daily = [Today(p.daily, now) EXCEPT !.failed = @ + 1]
<1>. DEFINE q == Refuse(p, now)
            closed == [p EXCEPT !.request = None]
            spent == [p.request EXCEPT !.attempts = @ + 1]
<1>1. /\ p \in Profiles /\ p.request \in Requests /\ p.ready = None
      /\ p.request.id \notin Handed(p)
  BY DEF Sound, Profiles, InOrder
<1>2. CASE p.request.attempts + 1 < MaxAttempts
  <2>1. /\ spent \in Requests /\ spent.id = p.request.id /\ spent.opened = p.request.opened
    BY <1>1, <1>2, LimitsAreNumbers DEF Requests
  <2>2. q = [p EXCEPT !.request = spent]
    BY <1>1, <1>2 DEF Refuse, Requests, Profiles
  <2>. HIDE DEF spent
  <2>3. /\ q \in Profiles /\ q.request = spent /\ q.ready = p.ready /\ q.task = p.task
        /\ q.recent = p.recent /\ q.given = p.given /\ q.discarded = p.discarded /\ q.daily = p.daily
    BY <1>1, <2>1, <2>2 DEF Profiles
  <2>. HIDE DEF q
  <2>4. Sound(q) /\ Handed(q) = Handed(p) /\ q.request # None
    BY <1>1, <2>1, <2>3, NoneIsNone, OpenChangesSound
  <2> QED
    BY <1>1, <2>1, <2>3, <2>4 DEF q
<1>3. CASE ~(p.request.attempts + 1 < MaxAttempts)
  <2>1. p.request.attempts + 1 = MaxAttempts
    BY <1>1, <1>3, LimitsAreNumbers DEF Requests
  <2>2. q = CountFailed(closed, now)
    BY <1>3 DEF Refuse
  <2>3. /\ closed \in Profiles /\ closed.request = None /\ closed.ready = p.ready
        /\ closed.task = p.task /\ closed.recent = p.recent /\ closed.given = p.given
        /\ closed.discarded = p.discarded /\ closed.daily = p.daily
    BY <1>1 DEF Profiles
  <2>. HIDE DEF closed
  <2>4. /\ q = [closed EXCEPT !.daily = q.daily] /\ q.daily \in Days
        /\ q.daily = [Today(p.daily, now) EXCEPT !.failed = @ + 1]
    BY <2>2, <2>3, CountsKeep
  <2>. HIDE DEF q
  <2>5. /\ q \in Profiles /\ q.request = None /\ q.ready = None /\ q.task = p.task
        /\ q.recent = p.recent /\ q.given = p.given /\ q.discarded = p.discarded
    BY <1>1, <2>3, <2>4 DEF Profiles
  <2>6. Sound(q) /\ Handed(q) = Handed(p)
    BY <2>5, OpenChangesSound
  <2> QED
    BY <2>1, <2>4, <2>5, <2>6 DEF q
<1> QED
  BY <1>2, <1>3

\* The first answer is recorded, once.
LEMMA ApplyKeeps ==
    ASSUME NEW p, Sound(p), InFlight(p), NEW choice \in AnswerChoices
    PROVE  /\ Sound(Apply(p, choice)) /\ Handed(Apply(p, choice)) = Handed(p)
           /\ Apply(p, choice).request = p.request /\ Apply(p, choice).ready = p.ready
           /\ Apply(p, choice).task.id = p.task.id /\ Apply(p, choice).task # None
           /\ Apply(p, choice).daily = p.daily
<1>. DEFINE q == Apply(p, choice)
            entry == [task |-> p.task.id, choice |-> choice]
            card == [p.task EXCEPT !.answered = choice]
<1>1. p \in Profiles /\ p.task \in CardTasks /\ p.task # None
  BY DEF Sound, Profiles, InFlight
<1>2. card \in CardTasks /\ card.id = p.task.id /\ card.answered = choice
  BY <1>1 DEF CardTasks
<1>3. entry \in Entries /\ entry.task = p.task.id
  BY <1>1 DEF CardTasks, Entries
<1>4. q = [p EXCEPT !.task = card, !.recent = Append(p.recent, entry)]
  BY <1>1 DEF Apply, Profiles, CardTasks
<1>5. p.task.id \notin Behind(p) /\ p.task.id \in Handed(p) /\ EachOnce(p)
  BY <1>1 DEF Sound, InOrder
<1>. HIDE DEF card, entry
<1>6. Append(p.recent, entry) \in Seq(Entries)
  BY <1>1, <1>3, Appending DEF Profiles
<1>7. /\ q \in Profiles /\ q.task = card /\ q.recent = Append(p.recent, entry)
      /\ q.request = p.request /\ q.ready = p.ready /\ q.given = p.given
      /\ q.discarded = p.discarded /\ q.daily = p.daily
  BY <1>1, <1>2, <1>4, <1>6 DEF Profiles
<1>. HIDE DEF q
<1>8. /\ Behind(q) = Behind(p) \cup {p.task.id} /\ Len(q.recent) = Len(p.recent) + 1
      /\ EachOnce(q)
  BY <1>1, <1>3, <1>5, <1>7, BehindGrows
<1>9. Handed(q) = Handed(p) /\ ~InFlight(q) /\ q.task # None
  BY <1>2, <1>7, NoAnswerIsNone, NoneIsNone DEF Handed, InFlight
<1>10. AddsUp(q)
  BY <1>1, <1>7, <1>8, <1>9 DEF Sound, AddsUp, Profiles
<1>11. InOrder(q)
  BY <1>2, <1>5, <1>7, <1>8, <1>9 DEF Sound, InOrder
<1>12. Sound(q)
  BY <1>7, <1>8, <1>10, <1>11 DEF Sound
<1> QED
  BY <1>2, <1>7, <1>9, <1>12 DEF q

\* A task whose seal is lost leaves the card, counted if it had no answer.
LEMMA DiscardKeeps ==
    ASSUME NEW p, Sound(p)
    PROVE  /\ Sound(DiscardTask(p)) /\ Handed(DiscardTask(p)) = Handed(p)
           /\ DiscardTask(p).request = p.request /\ DiscardTask(p).ready = p.ready
           /\ DiscardTask(p).task = None /\ DiscardTask(p).daily = p.daily
<1>. DEFINE q == DiscardTask(p)
<1>1. p \in Profiles
  BY DEF Sound
<1>2. /\ q \in Profiles /\ q.task = None /\ q.recent = p.recent
      /\ q.request = p.request /\ q.ready = p.ready /\ q.given = p.given /\ q.daily = p.daily
      /\ q.discarded = p.discarded + (IF InFlight(p) THEN 1 ELSE 0)
  <2>. DEFINE counted == p.discarded + (IF InFlight(p) THEN 1 ELSE 0)
  <2>1. counted \in Nat
    BY <1>1 DEF Profiles
  <2>2. q = [p EXCEPT !.discarded = counted, !.task = None]
    BY <1>1 DEF DiscardTask, Profiles
  <2>. HIDE DEF counted
  <2>3. /\ q \in Profiles /\ q.task = None /\ q.recent = p.recent
        /\ q.request = p.request /\ q.ready = p.ready /\ q.given = p.given /\ q.daily = p.daily
        /\ q.discarded = counted
    BY <1>1, <2>1, <2>2 DEF Profiles
  <2> QED
    BY <2>3 DEF counted
<1>. HIDE DEF q
<1>3. Handed(q) = Handed(p) /\ Behind(q) = Behind(p) /\ ~InFlight(q)
  BY <1>2 DEF Handed, Behind, InFlight
<1>4. AddsUp(q)
  <2>1. q.discarded \in Nat /\ p.discarded \in Nat /\ Len(p.recent) \in Nat
    BY <1>1, <1>2 DEF Profiles
  <2> QED
    BY <1>2, <1>3, <2>1 DEF Sound, AddsUp
<1>5. EachOnce(q)
  BY <1>2 DEF Sound, EachOnce
<1>6. InOrder(q)
  BY <1>2, <1>3 DEF Sound, InOrder
<1>7. Sound(q)
  BY <1>2, <1>4, <1>5, <1>6 DEF Sound
<1> QED
  BY <1>2, <1>3, <1>7 DEF q

\* What the lessons are kept to is no part of what keeps the profile sound.
LEMMA EditKeeps ==
    ASSUME NEW p, Sound(p), NEW lesson \in Lessons, NEW q, q = [p EXCEPT !.lesson = lesson]
    PROVE  /\ Sound(q) /\ Handed(q) = Handed(p)
           /\ q.request = p.request /\ q.ready = p.ready /\ q.task = p.task /\ q.daily = p.daily
<1>1. p \in Profiles
  BY DEF Sound
<1>2. /\ q \in Profiles /\ q.task = p.task /\ q.recent = p.recent /\ q.given = p.given
      /\ q.discarded = p.discarded /\ q.daily = p.daily
      /\ q.request = p.request /\ q.ready = p.ready
  BY <1>1 DEF Profiles
<1>3. /\ q.ready = None \/ q.request = None
      /\ q.request # None => q.request.id \notin Handed(p)
      /\ q.ready # None => q.ready.id \notin Handed(p)
  BY <1>2 DEF Sound, InOrder
<1>4. Sound(q) /\ Handed(q) = Handed(p)
  BY <1>2, <1>3, OpenChangesSound
<1> QED
  BY <1>2, <1>4

-----------------------------------------------------------------------------
(* The days.                                                               *)

\* A day later is no earlier day.
LEMMA DaysGoOn ==
    ASSUME NEW now \in Nat
    PROVE  /\ now \div DayLength \in Nat /\ (now + 1) \div DayLength \in Nat
           /\ now \div DayLength <= (now + 1) \div DayLength
<1>. DEFINE d == DayLength
            a == now \div d
            b == (now + 1) \div d
<1>1. d \in Nat /\ d > 0
  BY LimitsAreNumbers
<1>2. /\ a \in Nat /\ b \in Nat
      /\ d * a <= now /\ now < d * a + d
      /\ d * b <= now + 1 /\ now + 1 < d * b + d
  BY <1>1
<1>. HIDE DEF a, b, d
<1>3. ASSUME b < a PROVE FALSE
  <2>1. b + 1 <= a
    BY <1>2, <1>3
  <2>2. d * (b + 1) <= d * a
    BY <1>1, <1>2, <2>1
  <2>3. d * (b + 1) = d * b + d
    BY <1>1, <1>2
  <2> QED
    BY <1>1, <1>2, <2>2, <2>3
<1> QED
  BY <1>2, <1>3 DEF a, b, d

\* A day with room for one more keeps within its room when one more is counted.
LEMMA RoomForOne ==
    ASSUME NEW p \in Profiles, NEW now \in Nat, ~DayIsFull(p, now)
    PROVE  /\ \A d \in {[Today(p.daily, now) EXCEPT !.accepted = @ + 1],
                       [Today(p.daily, now) EXCEPT !.failed = @ + 1]} :
                /\ d.date = now \div DayLength
                /\ d.accepted <= DailyTasks /\ d.failed <= DailyFailed
<1>. DEFINE t == Today(p.daily, now)
<1>1. t \in Days /\ t.date = now \div DayLength
  BY TodayIsADay DEF Today, Profiles, Days
<1>2. t.accepted < DailyTasks /\ t.failed < DailyFailed
  <2>1. t.accepted \in Nat /\ t.failed \in Nat
    BY <1>1 DEF Days
  <2>2. ~(t.accepted >= DailyTasks) /\ ~(t.failed >= DailyFailed)
    BY DEF DayIsFull
  <2>. HIDE DEF t
  <2> QED
    BY <2>1, <2>2, LimitsAreNumbers
<1>. HIDE DEF t
<1> QED
  BY <1>1, <1>2, LimitsAreNumbers DEF Days, t

\* A day that had room for a task has it later, or another day does.
LEMMA RoomLater ==
    ASSUME NEW p \in Profiles, NEW now \in Nat, p.daily.date <= now \div DayLength,
           ~DayIsFull(p, now)
    PROVE  ~DayIsFull(p, now + 1)
<1>1. /\ p.daily.date \in Nat /\ p.daily.accepted \in Nat /\ p.daily.failed \in Nat
  BY DEF Profiles, Days
<1>2. 0 < DailyTasks /\ 0 < DailyFailed
  BY <1>1, LimitsAreNumbers DEF DayIsFull, Today
<1>3. CASE p.daily.date = (now + 1) \div DayLength
  <2>1. p.daily.date = now \div DayLength
    <3>. DEFINE a == now \div DayLength
                b == (now + 1) \div DayLength
    <3>1. a \in Nat /\ b \in Nat /\ a <= b /\ p.daily.date = b /\ p.daily.date <= a
      BY <1>3, DaysGoOn
    <3>. HIDE DEF a, b
    <3>2. p.daily.date = a
      BY <3>1
    <3> QED
      BY <3>2 DEF a
  <2> QED
    BY <1>3, <2>1 DEF DayIsFull, Today
<1>4. CASE p.daily.date # (now + 1) \div DayLength
  BY <1>2, <1>4, LimitsAreNumbers DEF DayIsFull, Today
<1> QED
  BY <1>3, <1>4

-----------------------------------------------------------------------------
(* The names and the day.                                                  *)

\* Only names given so far are in the profile.
Known(p, names) ==
    /\ Handed(p) \subseteq names
    /\ p.request # None => p.request.id \in names
    /\ p.ready # None => p.ready.id \in names

\* An open request and a task kept have room in the day, whichever day the
\* task will be handed out in.
Timely(p, now) ==
    /\ p.daily.date <= now \div DayLength
    /\ p.daily.accepted <= DailyTasks /\ p.daily.failed <= DailyFailed
    /\ p.request # None => p.request.opened <= now
    /\ p.request # None \/ p.ready # None => ~DayIsFull(p, now)

\* A profile just made is sound.
LEMMA NewIsSound ==
    ASSUME NEW lesson \in Lessons
    PROVE  /\ Sound(New(lesson, 0)) /\ Handed(New(lesson, 0)) = {}
           /\ New(lesson, 0).request = None /\ New(lesson, 0).ready = None
           /\ New(lesson, 0).task = None /\ New(lesson, 0).recent = <<>>
           /\ New(lesson, 0).daily.date = 0 \div DayLength
           /\ New(lesson, 0).daily.accepted = 0 /\ New(lesson, 0).daily.failed = 0
<1>. DEFINE q == New(lesson, 0)
<1>1. 0 \div DayLength \in Nat
  BY LimitsAreNumbers
<1>2. /\ q \in Profiles /\ q.task = None /\ q.request = None /\ q.ready = None
      /\ q.recent = <<>> /\ q.given = <<>> /\ q.discarded = 0
      /\ q.daily.date = 0 \div DayLength /\ q.daily.accepted = 0 /\ q.daily.failed = 0
  BY <1>1 DEF New, Profiles, Days
<1>. HIDE DEF q
<1>3. Handed(q) = {} /\ Behind(q) = {} /\ ~InFlight(q)
  BY <1>2 DEF Handed, Behind, InFlight
<1>4. AddsUp(q) /\ EachOnce(q) /\ InOrder(q)
  BY <1>2, <1>3 DEF AddsUp, EachOnce, InOrder
<1>5. Sound(q)
  BY <1>2, <1>4 DEF Sound
<1> QED
  BY <1>2, <1>3, <1>5 DEF q

\* A name not given yet was never handed out.
LEMMA FreshIsFresh ==
    ASSUME NEW p, NEW names, Known(p, names), NEW id, id \notin names
    PROVE  id \notin Handed(p)
  BY DEF Known

\* A request that ends in a day with room for it leaves the day in order.
LEMMA CountedIsTimely ==
    ASSUME NEW p \in Profiles, NEW now \in Nat, ~DayIsFull(p, now),
           NEW q, q.request = None, q.ready = None,
           q.daily \in {[Today(p.daily, now) EXCEPT !.accepted = @ + 1],
                        [Today(p.daily, now) EXCEPT !.failed = @ + 1]}
    PROVE  Timely(q, now)
<1>1. /\ q.daily.date = now \div DayLength
      /\ q.daily.accepted <= DailyTasks /\ q.daily.failed <= DailyFailed
  BY RoomForOne
<1>2. now \div DayLength \in Nat
  BY DaysGoOn
<1> QED
  BY <1>1, <1>2 DEF Timely

\* A request opened in a day with room for its task keeps the day in order.
LEMMA OpenedIsTimely ==
    ASSUME NEW p, NEW now \in Nat, Timely(p, now), ~DayIsFull(p, now),
           NEW q, q.daily = p.daily, q.request.opened = now
    PROVE  Timely(q, now)
  BY DEF Timely, DayIsFull

\* A profile in time for its day is in time later.
LEMMA TimelyLater ==
    ASSUME NEW p \in Profiles, NEW now \in Nat, Timely(p, now)
    PROVE  Timely(p, now + 1)
<1>1. /\ p.daily.date \in Nat
      /\ p.request # None => p.request.opened \in Nat
  BY DEF Profiles, Days, Requests
<1>2. p.daily.date <= (now + 1) \div DayLength
  <2>. DEFINE a == now \div DayLength
              b == (now + 1) \div DayLength
  <2>1. a \in Nat /\ b \in Nat /\ a <= b /\ p.daily.date <= a
    BY DaysGoOn DEF Timely
  <2>. HIDE DEF a, b
  <2>2. p.daily.date <= b
    BY <1>1, <2>1
  <2> QED
    BY <2>2 DEF b
<1>3. ASSUME p.request # None \/ p.ready # None
      PROVE  ~DayIsFull(p, now + 1)
  BY <1>3, RoomLater DEF Timely
<1>4. ASSUME p.request # None
      PROVE  p.request.opened <= now + 1
  BY <1>1, <1>4 DEF Timely
<1> QED
  BY <1>2, <1>3, <1>4 DEF Timely

\* What letting go left of a task kept still fits the lesson.
LEMMA LetGoFits ==
    ASSUME NEW p \in Profiles, NEW e \in BOOLEAN, NEW now, LetGo(p, e, now).ready # None
    PROVE  LetGo(p, e, now).ready = p.ready /\ ~Misfit(p.ready.lesson, p.lesson, FALSE)
<1>1. LetGo(p, e, now).ready = p.ready /\ p.ready # None
  BY LetGoTakes
<1>2. ASSUME Misfit(p.ready.lesson, p.lesson, e)
      PROVE  FALSE
  <2>1. LetGo(p, e, now) \in {DropReady(p), CloseRequest(DropReady(p))}
    BY <1>1, <1>2 DEF LetGo
  <2>2. DropReady(p).ready = None /\ CloseRequest(DropReady(p)).ready = None
    BY DEF DropReady, CloseRequest, Profiles
  <2> QED
    BY <1>1, <2>1, <2>2
<1> QED
  BY <1>1, <1>2 DEF Misfit

-----------------------------------------------------------------------------
(* What a profile recalls.                                                 *)

Recalled(p) == {p.recent[n] : n \in DOMAIN p.recent}

\* The answer on the card is recalled.
Recorded(p) ==
    (p.task # None /\ ~InFlight(p)) =>
        [task |-> p.task.id, choice |-> p.task.answered] \in Recalled(p)

\* q recalls what p does, and nothing more but tasks skipped.
Grows(p, q) ==
    /\ Recalled(p) \subseteq Recalled(q)
    /\ \A entry \in Recalled(q) \ Recalled(p) : entry.choice = "skipped"

\* Everything that keeps a profile in order at the moment now, the names given so
\* far being names.
Fine(p, names, now) == Sound(p) /\ Known(p, names) /\ Timely(p, now) /\ Recorded(p)

\* What an entry more does to what is recalled.
LEMMA RecalledGrows ==
    ASSUME NEW p \in Profiles, NEW q, NEW entry \in Entries, q.recent = Append(p.recent, entry)
    PROVE  Recalled(q) = Recalled(p) \cup {entry}
<1>1. p.recent \in Seq(Entries)
  BY DEF Profiles
<1> QED
  BY <1>1, Appending DEF Recalled

\* What recalls a task has it behind the child.
LEMMA RecalledIsBehind ==
    ASSUME NEW p, NEW entry \in Recalled(p)
    PROVE  entry.task \in Behind(p)
  BY DEF Recalled, Behind

\* A task left on the card is recalled as skipped, and nothing else is new.
LEMMA LeavingGrows ==
    ASSUME NEW p \in Profiles, NEW q,
           q.recent = IF InFlight(p)
                      THEN Append(p.recent, [task |-> p.task.id, choice |-> "skipped"])
                      ELSE p.recent
    PROVE  Grows(p, q)
<1>. DEFINE entry == [task |-> p.task.id, choice |-> "skipped"]
<1>1. CASE InFlight(p)
  <2>1. entry \in Entries /\ entry.choice = "skipped"
    BY <1>1 DEF InFlight, Profiles, CardTasks, Entries
  <2>2. q.recent = Append(p.recent, entry)
    BY <1>1
  <2>. HIDE DEF entry
  <2>3. Recalled(q) = Recalled(p) \cup {entry}
    BY <2>1, <2>2, RecalledGrows
  <2> QED
    BY <2>1, <2>3 DEF Grows
<1>2. CASE ~InFlight(p)
  BY <1>2 DEF Grows, Recalled
<1> QED
  BY <1>1, <1>2

\* What only the request, the task kept or the lessons are changed by recalls the
\* same.
LEMMA RecallsTheSame ==
    ASSUME NEW p \in Profiles, NEW id, NEW now, NEW lesson
    PROVE  /\ Ask(p, id, now).recent = p.recent
           /\ AskAhead(p, id, now).recent = p.recent
           /\ Await(p, now).recent = p.recent
           /\ Keep(p).recent = p.recent
           /\ Refuse(p, now).recent = p.recent
           /\ [p EXCEPT !.lesson = lesson].recent = p.recent
           /\ DiscardTask(p).recent = p.recent
<1>1. Ask(p, id, now).recent = p.recent /\ AskAhead(p, id, now).recent = p.recent
  BY DEF Ask, AskAhead, Profiles
<1>2. /\ Await(p, now).recent = p.recent /\ Keep(p).recent = p.recent
      /\ [p EXCEPT !.lesson = lesson].recent = p.recent /\ DiscardTask(p).recent = p.recent
  BY DEF Await, Keep, DiscardTask, Profiles
<1>3. Refuse(p, now).recent = p.recent
  BY DEF Refuse, CountFailed, Profiles
<1> QED
  BY <1>1, <1>2, <1>3

\* A card that stays keeps its answer recalled.
LEMMA CardStaysRecorded ==
    ASSUME NEW p, Recorded(p), NEW q, q.task = p.task, q.recent = p.recent
    PROVE  Recorded(q) /\ Grows(p, q)
  BY DEF Recorded, Grows, Recalled, InFlight

\* What grows twice grows.
LEMMA GrowsOn ==
    ASSUME NEW p, NEW q, NEW r, Grows(p, q), Grows(q, r)
    PROVE  Grows(p, r)
  BY DEF Grows

-----------------------------------------------------------------------------
(* Each operation of a call keeps the profile in order.                    *)

\* Letting go of what no longer fits.
LEMMA LetGoFine ==
    ASSUME NEW p, NEW names, NEW now, Fine(p, names, now), NEW e
    PROVE  /\ Fine(LetGo(p, e, now), names, now)
           /\ DayIsFull(LetGo(p, e, now), now) = DayIsFull(p, now)
           /\ Handed(LetGo(p, e, now)) = Handed(p)
           /\ Grows(p, LetGo(p, e, now))
<1>. DEFINE q == LetGo(p, e, now)
<1>1. p \in Profiles /\ Sound(p)
  BY DEF Fine, Sound
<1>2. /\ q.ready \in {p.ready, None} /\ q.request \in {p.request, None}
      /\ q.given = p.given /\ q.daily = p.daily /\ q.task = p.task /\ q.recent = p.recent
  BY <1>1, LetGoTakes
<1>3. Sound(q)
  BY <1>1, LetGoSound
<1>. HIDE DEF q
<1>4. Handed(q) = Handed(p) /\ DayIsFull(q, now) = DayIsFull(p, now)
  BY <1>2 DEF Handed, DayIsFull
<1>5. Known(q, names)
  BY <1>2, <1>4 DEF Fine, Known
<1>6. Timely(q, now)
  BY <1>2, <1>4 DEF Fine, Timely
<1>7. Recorded(q) /\ Grows(p, q)
  BY <1>2, CardStaysRecorded DEF Fine
<1> QED
  BY <1>3, <1>4, <1>5, <1>6, <1>7 DEF Fine, q

\* Leaving the task on the card, skipped when it has no answer.
LEMMA SkipFine ==
    ASSUME NEW p, NEW names, NEW now, Fine(p, names, now)
    PROVE  /\ Fine(Skip(p), names, now)
           /\ Skip(p).request = p.request
           /\ DayIsFull(Skip(p), now) = DayIsFull(p, now)
           /\ Grows(p, Skip(p))
<1>. DEFINE q == Skip(p)
<1>1. p \in Profiles /\ Sound(p) /\ Known(p, names) /\ Timely(p, now)
  BY DEF Fine, Sound
<1>2. /\ Sound(q) /\ q.request = p.request /\ q.ready = p.ready
      /\ q.given = p.given /\ q.daily = p.daily /\ q.task = None
  BY <1>1, SkipKeeps
<1>3. q.recent = IF InFlight(p)
                 THEN Append(p.recent, [task |-> p.task.id, choice |-> "skipped"])
                 ELSE p.recent
  BY <1>1 DEF Skip, Leave, Profiles
<1>. HIDE DEF q
<1>4. Grows(p, q)
  BY <1>1, <1>3, LeavingGrows
<1>5. Known(q, names) /\ Timely(q, now) /\ Recorded(q)
  BY <1>1, <1>2 DEF Known, Handed, Timely, DayIsFull, Recorded
<1>6. DayIsFull(q, now) = DayIsFull(p, now)
  BY <1>2 DEF DayIsFull
<1> QED
  BY <1>2, <1>4, <1>5, <1>6 DEF Fine, q

\* Waiting for the task written ahead (next_task).
LEMMA AwaitFine ==
    ASSUME NEW p, NEW names, NEW now \in Nat, Fine(p, names, now),
           p.request # None, ~DayIsFull(p, now)
    PROVE  /\ Fine(Await(p, now), names, now)
           /\ Await(p, now).request.id = p.request.id
           /\ Grows(p, Await(p, now))
<1>. DEFINE q == Await(p, now)
<1>1. p \in Profiles /\ Sound(p) /\ Known(p, names) /\ Timely(p, now) /\ Recorded(p)
  BY DEF Fine, Sound
<1>2. /\ Sound(q) /\ Handed(q) = Handed(p) /\ q.request # None
      /\ q.request.id = p.request.id /\ q.request.opened = now
      /\ q.ready = p.ready /\ q.daily = p.daily /\ q.task = p.task
  BY <1>1, AwaitKeeps
<1>3. q.recent = p.recent
  BY <1>1, RecallsTheSame
<1>. HIDE DEF q
<1>4. Known(q, names)
  BY <1>1, <1>2 DEF Known
<1>5. Timely(q, now)
  BY <1>1, <1>2, OpenedIsTimely
<1>6. Recorded(q) /\ Grows(p, q)
  BY <1>1, <1>2, <1>3, CardStaysRecorded
<1> QED
  BY <1>2, <1>4, <1>5, <1>6 DEF Fine, q

\* Opening a request for a task to be written now (next_task).
LEMMA AskFine ==
    ASSUME NEW p, NEW names, NEW now \in Nat, Fine(p, names, now), ~DayIsFull(p, now),
           NEW id \in Ids, id \notin names
    PROVE  /\ Fine(Ask(p, id, now), names \cup {id}, now)
           /\ Ask(p, id, now).request # None /\ Ask(p, id, now).request.id = id
           /\ Grows(p, Ask(p, id, now))
<1>. DEFINE q == Ask(p, id, now)
<1>1. p \in Profiles /\ Sound(p) /\ Known(p, names) /\ Timely(p, now) /\ Recorded(p)
  BY DEF Fine, Sound
<1>2. id \notin Handed(p)
  BY <1>1 DEF Known
<1>3. /\ Sound(q) /\ Handed(q) = Handed(p) /\ q.request # None
      /\ q.request.id = id /\ q.request.opened = now
      /\ q.ready = None /\ q.daily = p.daily /\ q.task = p.task
  BY <1>1, <1>2, AskKeeps
<1>4. q.recent = p.recent
  BY <1>1, RecallsTheSame
<1>. HIDE DEF q
<1>5. Known(q, names \cup {id})
  BY <1>1, <1>3 DEF Known
<1>6. Timely(q, now)
  BY <1>1, <1>3, OpenedIsTimely
<1>7. Recorded(q) /\ Grows(p, q)
  BY <1>1, <1>3, <1>4, CardStaysRecorded
<1> QED
  BY <1>3, <1>5, <1>6, <1>7 DEF Fine, q

\* Opening a request for the task after the one on the card (prepare_task).
LEMMA AskAheadFine ==
    ASSUME NEW p, NEW names, NEW now \in Nat, Fine(p, names, now), ~DayIsFull(p, now),
           NEW id \in Ids, id \notin names
    PROVE  /\ Fine(AskAhead(p, id, now), names \cup {id}, now)
           /\ AskAhead(p, id, now).request # None /\ AskAhead(p, id, now).request.id = id
           /\ Grows(p, AskAhead(p, id, now))
<1>. DEFINE q == AskAhead(p, id, now)
<1>1. p \in Profiles /\ Sound(p) /\ Known(p, names) /\ Timely(p, now) /\ Recorded(p)
  BY DEF Fine, Sound
<1>2. id \notin Handed(p)
  BY <1>1 DEF Known
<1>3. /\ Sound(q) /\ Handed(q) = Handed(p) /\ q.request # None
      /\ q.request.id = id /\ q.request.opened = now
      /\ q.ready = None /\ q.daily = p.daily /\ q.task = p.task
  BY <1>1, <1>2, AskAheadKeeps
<1>4. q.recent = p.recent
  BY <1>1, RecallsTheSame
<1>. HIDE DEF q
<1>5. Known(q, names \cup {id})
  BY <1>1, <1>3 DEF Known
<1>6. Timely(q, now)
  BY <1>1, <1>3, OpenedIsTimely
<1>7. Recorded(q) /\ Grows(p, q)
  BY <1>1, <1>3, <1>4, CardStaysRecorded
<1> QED
  BY <1>3, <1>5, <1>6, <1>7 DEF Fine, q

\* Handing out the task kept (next_task).
LEMMA HandOutReadyFine ==
    ASSUME NEW p, NEW names, NEW now \in Nat, Fine(p, names, now), p.ready # None
    PROVE  /\ Fine(HandOutReady(p, now), names, now)
           /\ HandOutReady(p, now).request = None
           /\ HandOutReady(p, now).task # None /\ HandOutReady(p, now).task.id = p.ready.id
           /\ Grows(p, HandOutReady(p, now))
<1>. DEFINE q == HandOutReady(p, now)
<1>1. p \in Profiles /\ Sound(p) /\ Known(p, names) /\ Timely(p, now) /\ ~DayIsFull(p, now)
  BY DEF Fine, Sound, Timely
<1>2. /\ Sound(q) /\ q.request = None /\ q.ready = None
      /\ q.task = [id |-> p.ready.id, answered |-> NoAnswer]
      /\ Handed(q) = Handed(p) \cup {p.ready.id}
      /\ q.daily = [Today(p.daily, now) EXCEPT !.accepted = @ + 1]
  BY <1>1, HandOutReadyKeeps
<1>3. p.ready.id \in Ids /\ q.task # None /\ InFlight(q)
  BY <1>1, <1>2, NoneIsNone DEF Profiles, KeptTasks, CardTasks, InFlight
<1>4. Grows(p, q)
  <2>. DEFINE h == HandOut(p, p.ready.id, now)
  <2>1. /\ h \in Profiles
        /\ h.recent = IF InFlight(p)
                      THEN Append(p.recent, [task |-> p.task.id, choice |-> "skipped"])
                      ELSE p.recent
    BY <1>1, <1>3, HandOutFields
  <2>2. q = [h EXCEPT !.ready = None]
    BY DEF HandOutReady
  <2>. HIDE DEF h, q
  <2>3. q.recent = h.recent
    BY <2>1, <2>2 DEF Profiles
  <2> QED
    BY <1>1, <2>1, <2>3, LeavingGrows
<1>. HIDE DEF q
<1>5. Known(q, names)
  BY <1>1, <1>2 DEF Known
<1>6. Timely(q, now)
  BY <1>1, <1>2, CountedIsTimely
<1>7. Recorded(q)
  BY <1>3 DEF Recorded
<1> QED
  BY <1>2, <1>3, <1>4, <1>5, <1>6, <1>7 DEF Fine, q

\* Handing out the task handed in (submit_task).
LEMMA IssueFine ==
    ASSUME NEW p, NEW names, NEW now \in Nat, Fine(p, names, now), p.request # None
    PROVE  /\ Fine(Issue(p, now), names, now)
           /\ Issue(p, now).request = None
           /\ Grows(p, Issue(p, now))
<1>. DEFINE q == Issue(p, now)
            r == [p EXCEPT !.request = None]
<1>1. p \in Profiles /\ Sound(p) /\ Known(p, names) /\ Timely(p, now) /\ ~DayIsFull(p, now)
  BY DEF Fine, Sound, Timely
<1>2. /\ Sound(q) /\ q.request = None /\ q.ready = None
      /\ q.task = [id |-> p.request.id, answered |-> NoAnswer]
      /\ Handed(q) = Handed(p) \cup {p.request.id}
      /\ q.daily = [Today(p.daily, now) EXCEPT !.accepted = @ + 1]
  BY <1>1, IssueKeeps
<1>3. p.request.id \in Ids /\ q.task # None /\ InFlight(q)
  BY <1>1, <1>2, NoneIsNone DEF Profiles, Requests, CardTasks, InFlight
<1>4. Grows(p, q)
  <2>1. r \in Profiles /\ r.recent = p.recent /\ r.task = p.task
    BY <1>1 DEF Profiles
  <2>2. q = HandOut(r, p.request.id, now)
    BY DEF Issue
  <2>. HIDE DEF q, r
  <2>3. q.recent = IF InFlight(r)
                   THEN Append(r.recent, [task |-> r.task.id, choice |-> "skipped"])
                   ELSE r.recent
    BY <1>3, <2>1, <2>2, HandOutFields
  <2>4. InFlight(r) = InFlight(p)
    BY <2>1 DEF InFlight
  <2> QED
    BY <1>1, <2>1, <2>3, <2>4, LeavingGrows
<1>. HIDE DEF q
<1>5. Known(q, names)
  BY <1>1, <1>2 DEF Known
<1>6. Timely(q, now)
  BY <1>1, <1>2, CountedIsTimely
<1>7. Recorded(q)
  BY <1>3 DEF Recorded
<1> QED
  BY <1>2, <1>4, <1>5, <1>6, <1>7 DEF Fine, q

\* Keeping the task handed in ahead (submit_task).
LEMMA KeepFine ==
    ASSUME NEW p, NEW names, NEW now, Fine(p, names, now), p.request # None
    PROVE  Fine(Keep(p), names, now) /\ Keep(p).request = None /\ Grows(p, Keep(p))
<1>. DEFINE q == Keep(p)
<1>1. p \in Profiles /\ Sound(p) /\ Known(p, names) /\ Timely(p, now) /\ Recorded(p)
  BY DEF Fine, Sound
<1>2. /\ Sound(q) /\ Handed(q) = Handed(p) /\ q.request = None
      /\ q.ready.id = p.request.id /\ q.daily = p.daily /\ q.task = p.task
  BY <1>1, KeepKeeps
<1>3. q.recent = p.recent
  BY <1>1, RecallsTheSame
<1>. HIDE DEF q
<1>4. Known(q, names) /\ Timely(q, now)
  BY <1>1, <1>2 DEF Known, Timely, DayIsFull
<1>5. Recorded(q) /\ Grows(p, q)
  BY <1>1, <1>2, <1>3, CardStaysRecorded
<1> QED
  BY <1>2, <1>4, <1>5 DEF Fine, q

\* Refusing the task handed in (submit_task).
LEMMA RefuseFine ==
    ASSUME NEW p, NEW names, NEW now \in Nat, Fine(p, names, now), p.request # None
    PROVE  /\ Fine(Refuse(p, now), names, now)
           /\ Refuse(p, now).request # None => Refuse(p, now).request.id = p.request.id
           /\ Grows(p, Refuse(p, now))
<1>. DEFINE q == Refuse(p, now)
<1>1. /\ p \in Profiles /\ Sound(p) /\ Known(p, names) /\ Timely(p, now) /\ Recorded(p)
      /\ ~DayIsFull(p, now)
  BY DEF Fine, Sound, Timely
<1>2. p.request.opened <= now /\ p.request.id \in names
  BY <1>1 DEF Timely, Known
<1>3. /\ Sound(q) /\ Handed(q) = Handed(p) /\ q.ready = None /\ q.task = p.task
      /\ \/ /\ q.request # None /\ q.request.id = p.request.id
            /\ q.request.opened = p.request.opened /\ q.daily = p.daily
         \/ /\ q.request = None
            /\ q.daily = [Today(p.daily, now) EXCEPT !.failed = @ + 1]
  BY <1>1, RefuseKeeps
<1>4. q.recent = p.recent
  BY <1>1, RecallsTheSame
<1>. HIDE DEF q
<1>5. Known(q, names)
  BY <1>1, <1>2, <1>3 DEF Known
<1>6. Timely(q, now)
  <2>1. CASE q.request = None /\ q.daily = [Today(p.daily, now) EXCEPT !.failed = @ + 1]
    BY <1>1, <1>3, <2>1, CountedIsTimely
  <2>2. CASE q.request.opened = p.request.opened /\ q.daily = p.daily
    BY <1>1, <1>2, <1>3, <2>2 DEF Timely, DayIsFull
  <2> QED
    BY <1>3, <2>1, <2>2
<1>7. Recorded(q) /\ Grows(p, q)
  BY <1>1, <1>3, <1>4, CardStaysRecorded
<1> QED
  BY <1>3, <1>5, <1>6, <1>7 DEF Fine, q

\* Recording the first answer (submit_answer): it is recalled, and was not before.
LEMMA ApplyFine ==
    ASSUME NEW p, NEW names, NEW now, Fine(p, names, now), InFlight(p), NEW choice \in AnswerChoices
    PROVE  /\ Fine(Apply(p, choice), names, now)
           /\ Apply(p, choice).request = p.request
           /\ Recalled(Apply(p, choice)) =
                Recalled(p) \cup {[task |-> p.task.id, choice |-> choice]}
           /\ p.task.id \in Ids /\ p.task.id \notin Behind(p)
<1>. DEFINE q == Apply(p, choice)
            entry == [task |-> p.task.id, choice |-> choice]
            card == [p.task EXCEPT !.answered = choice]
<1>1. /\ p \in Profiles /\ Sound(p) /\ Known(p, names) /\ Timely(p, now)
      /\ p.task \in CardTasks /\ p.task.id \notin Behind(p)
  BY DEF Fine, Sound, Profiles, InFlight, InOrder
<1>2. /\ Sound(q) /\ Handed(q) = Handed(p)
      /\ q.request = p.request /\ q.ready = p.ready /\ q.daily = p.daily
  BY <1>1, ApplyKeeps
<1>3. entry \in Entries /\ p.task.id \in Ids /\ card.id = p.task.id /\ card.answered = choice
  BY <1>1 DEF CardTasks, Entries
<1>4. q.recent = Append(p.recent, entry) /\ q.task = card
  BY <1>1 DEF Apply, Profiles, CardTasks
<1>. HIDE DEF q, card
<1>5. Recalled(q) = Recalled(p) \cup {entry}
  <2>. HIDE DEF entry
  <2> QED
    BY <1>1, <1>3, <1>4, RecalledGrows
<1>6. Known(q, names) /\ Timely(q, now)
  BY <1>1, <1>2 DEF Known, Timely, DayIsFull
<1>7. Recorded(q)
  BY <1>3, <1>4, <1>5 DEF Recorded
<1> QED
  BY <1>1, <1>2, <1>3, <1>5, <1>6, <1>7 DEF Fine, q

\* Taking a task off the card whose seal is lost.
LEMMA DiscardFine ==
    ASSUME NEW p, NEW names, NEW now, Fine(p, names, now)
    PROVE  Fine(DiscardTask(p), names, now)
<1>. DEFINE q == DiscardTask(p)
<1>1. Sound(p) /\ Known(p, names) /\ Timely(p, now)
  BY DEF Fine
<1>2. /\ Sound(q) /\ Handed(q) = Handed(p) /\ q.task = None
      /\ q.request = p.request /\ q.ready = p.ready /\ q.daily = p.daily
  BY <1>1, DiscardKeeps
<1>. HIDE DEF q
<1>3. Known(q, names) /\ Timely(q, now) /\ Recorded(q)
  BY <1>1, <1>2 DEF Known, Timely, DayIsFull, Recorded
<1> QED
  BY <1>2, <1>3 DEF Fine, q

\* Keeping the lessons to something else (save_profile).
LEMMA EditFine ==
    ASSUME NEW p, NEW names, NEW now, Fine(p, names, now), NEW lesson \in Lessons
    PROVE  /\ Fine([p EXCEPT !.lesson = lesson], names, now)
           /\ [p EXCEPT !.lesson = lesson].request = p.request
           /\ Grows(p, [p EXCEPT !.lesson = lesson])
<1>. DEFINE q == [p EXCEPT !.lesson = lesson]
<1>1. p \in Profiles /\ Sound(p) /\ Known(p, names) /\ Timely(p, now) /\ Recorded(p)
  BY DEF Fine, Sound
<1>2. /\ Sound(q) /\ Handed(q) = Handed(p)
      /\ q.request = p.request /\ q.ready = p.ready /\ q.task = p.task /\ q.daily = p.daily
  BY <1>1, EditKeeps
<1>3. q.recent = p.recent
  BY <1>1, RecallsTheSame
<1>. HIDE DEF q
<1>4. Known(q, names) /\ Timely(q, now)
  BY <1>1, <1>2 DEF Known, Timely, DayIsFull
<1>5. Recorded(q) /\ Grows(p, q)
  BY <1>1, <1>2, <1>3, CardStaysRecorded
<1> QED
  BY <1>2, <1>4, <1>5 DEF Fine, q
=============================================================================
