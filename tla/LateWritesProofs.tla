-------------------------- MODULE LateWritesProofs --------------------------
(***************************************************************************)
(* The promises of the calls and of the writes after the answer, proved    *)
(* for any number of instances, calls, lessons, outages and stops.         *)
(*                                                                         *)
(* A write is what the call does to the profile it read (Rightly), so one  *)
(* that lands over the very number it was computed from leaves a profile   *)
(* in order and is a step of the lesson.  What was said is told by where   *)
(* each call is, and what is left to be done by the writes its instance    *)
(* has begun.                                                              *)
(***************************************************************************)
EXTENDS LateWrites, ProfileProofs, FiniteSetTheorems

\* Where a call is before it is answered, and while its write is under way.
Unanswered == {"load", "decided", "save"}
Writing == {"late", "again"}

\* Where each call is, by what it was told and what its write came to.
Placed(c) ==
    /\ st[c].pc = "idle" => st[c].base = 0
    /\ st[c].pc \in {"decided", "save"} \cup Writing => st[c].base > 0
    /\ c \notin st[c].after
    /\ st[c].pc \in Unanswered \cup {"idle"} => st[c].told = "none"
    /\ st[c].pc \in Writing => st[c].told = "ok" /\ st[c].lateWrite
    /\ st[c].pc # "done" => st[c].outcome = "none"
    /\ st[c].outcome # "none" => st[c].told = "ok"
    /\ st[c].pc = "save" => ~st[c].lateWrite
    /\ (st[c].pc = "decided" /\ st[c].tool = "submit_answer") => st[c].lateWrite
    /\ st[c].tool = "submit_answer" => st[c].pc # "save"
    /\ (st[c].pc = "done" /\ st[c].tool = "submit_answer" /\ st[c].told = "ok") =>
            st[c].outcome # "none"

\* The writes an instance has begun are those of its calls that are under way.
Pends ==
    \A i \in Instances : pending[i] = {c \in Calls : Home[c] = i /\ st[c].pc \in Writing}

\* A name a call gives is in no file before the call is done.
NamesAreNew == \A c \in Calls : NameOf[c] \in seen => st[c].pc = "done"

\* What a write made again does to p.
Remakes(c, p, q) ==
    IF st[c].tool = "submit_answer"
    THEN InFlight(p) /\ p.task.id = st[c].about /\ q = Apply(p, st[c].choice)
    ELSE p.ready # None /\ q = HandOutReady(p, 0)

\* What a call is about to write is what it does to the profile it read: as long
\* as the file stands at that number, it is that profile.
Rightly(c) ==
    LET p == file.profile
        decided == Decision(c, p)
    IN  \/ decided.writes /\ st[c].put = decided.put /\ st[c].lateWrite = decided.late
        \/ st[c].lateWrite /\ Remakes(c, p, st[c].put)

BasesHold ==
    \A c \in Calls :
        /\ st[c].base <= file.number
        /\ (st[c].pc \in {"decided", "save", "late"} /\ Holds(c)) => Rightly(c)

\* An answer said to be written is recalled.
SaidIsRecalled ==
    \A c \in Calls :
        (st[c].tool = "submit_answer" /\ Kept(c)) =>
            [task |-> st[c].about, choice |-> st[c].choice] \in Recalled(file.profile)

\* A call begun after another was answered on its instance has its write to wait
\* for, or, once it has read the file, has read what the other wrote.
Follows(c) ==
    \A d \in st[c].after :
        /\ Home[d] = Home[c] /\ st[d].told # "none"
        /\ (st[c].pc = "load" /\ st[d].pc \in Writing) => d \in st[c].waits
        /\ st[c].base > 0 => st[d].pc = "done"
        /\ (st[c].base > 0 /\ st[d].tool = "submit_answer" /\ st[d].outcome \in {"written", "remade"}) =>
                st[d].about \in Behind(st[c].read)

\* The calls whose write went unheard, and that have not read the file since.
Unheard == {c \in Calls : st[c].pc = "again" /\ st[c].mayHaveLanded}

\* An answer has left no more lines than the file recalls it and writes of it
\* went unheard, those that may leave theirs yet left out.
LinesAreFew ==
    \A id \in Ids :
        lines[id] + Cardinality(Unheard) <=
            outages + (IF id \in Behind(file.profile) THEN 1 ELSE 0)

\* While Drive answers, every answer recalled has left its lines.
LinesAreLeft ==
    outages = 0 =>
        \A entry \in Recalled(file.profile) :
            entry.choice = "skipped" \/ lines[entry.task] >= 1

IInv ==
    /\ TypeOK
    /\ file.number > 0
    /\ Fine(file.profile, seen, 0)
    /\ \A c \in Calls : Placed(c)
    /\ Pends
    /\ NamesAreNew
    /\ BasesHold
    /\ SaidIsRecalled
    /\ \A c \in Calls : Follows(c)
    /\ LinesAreFew
    /\ LinesAreLeft

-----------------------------------------------------------------------------
(* What a call decides of the profile it read.                             *)

\* The names the file has held once it holds q.
NamesAfter(q) == seen \cup (IF q.request = None THEN {} ELSE {q.request.id})

\* q is what a call may write over the profile the file holds: in order, with
\* no name in it but the call's that is new, none at all of a late write, with
\* the answer recalled or nothing but tasks skipped.
WritesWell(c, q, late) ==
    /\ Fine(q, NamesAfter(q), 0)
    /\ q.request # None => q.request.id \in seen \cup (IF late THEN {} ELSE {NameOf[c]})
    /\ IF st[c].tool = "submit_answer"
       THEN /\ InFlight(file.profile) /\ file.profile.task.id = st[c].about
            /\ q = Apply(file.profile, st[c].choice)
       ELSE Grows(file.profile, q)

\* A profile in order with no new name is well to write.
LEMMA OldNamesWell ==
    ASSUME NEW c, NEW late, NEW q, Fine(q, seen, 0), st[c].tool # "submit_answer",
           Grows(file.profile, q)
    PROVE  WritesWell(c, q, late)
<1>1. q.request # None => q.request.id \in seen
  BY DEF Fine, Known
<1>2. NamesAfter(q) = seen
  BY <1>1 DEF NamesAfter
<1> QED
  BY <1>1, <1>2 DEF WritesWell

\* Nor is one with the call's own name.
LEMMA NewNameWell ==
    ASSUME NEW c, NEW q, Fine(q, seen \cup {NameOf[c]}, 0), st[c].tool # "submit_answer",
           q.request # None, q.request.id = NameOf[c], Grows(file.profile, q)
    PROVE  WritesWell(c, q, FALSE)
<1>1. NamesAfter(q) = seen \cup {NameOf[c]}
  BY DEF NamesAfter
<1> QED
  BY <1>1 DEF WritesWell

\* The first answer is well to write.
LEMMA AnswerWell ==
    ASSUME NEW c, NEW late, Fine(file.profile, seen, 0), st[c].tool = "submit_answer",
           st[c].choice \in AnswerChoices,
           InFlight(file.profile), file.profile.task.id = st[c].about
    PROVE  WritesWell(c, Apply(file.profile, st[c].choice), late)
<1>. DEFINE p == file.profile
            q == Apply(p, st[c].choice)
<1>1. Fine(q, seen, 0) /\ q.request = p.request
  BY ApplyFine
<1>. HIDE DEF q
<1>2. q.request # None => q.request.id \in seen
  BY <1>1 DEF Fine, Known
<1>3. NamesAfter(q) = seen
  BY <1>2 DEF NamesAfter
<1> QED
  BY <1>1, <1>2, <1>3 DEF WritesWell, q

\* The task kept is well to hand out, at whatever time.
LEMMA HandOutWell ==
    ASSUME NEW c, NEW late, NEW p, Fine(p, seen, 0), Grows(file.profile, p), p.ready # None,
           st[c].tool # "submit_answer"
    PROVE  WritesWell(c, HandOutReady(p, 0), late)
<1>1. Fine(HandOutReady(p, 0), seen, 0) /\ Grows(p, HandOutReady(p, 0))
  BY HandOutReadyFine
<1>2. Grows(file.profile, HandOutReady(p, 0))
  BY <1>1, GrowsOn
<1> QED
  BY <1>1, <1>2, OldNamesWell

\* What next_task writes.
LEMMA AskingWell ==
    ASSUME NEW c \in Calls, Fine(file.profile, seen, 0), st[c].tool = "next_task",
           NameOf[c] \notin seen, Asking(c, file.profile).writes
    PROVE  WritesWell(c, Asking(c, file.profile).put, Asking(c, file.profile).late)
<1>. DEFINE p == file.profile
            fitting == LetGo(p, FALSE, 0)
            left == Skip(fitting)
<1>1. Fine(fitting, seen, 0) /\ Grows(p, fitting) /\ DayIsFull(fitting, 0) = DayIsFull(p, 0)
  BY LetGoFine
<1>2. ~DayIsFull(p, 0)
  BY DEF Asking, Nothing
<1>3. /\ Fine(left, seen, 0) /\ left.request = fitting.request /\ ~DayIsFull(left, 0)
      /\ Grows(p, left)
  <2>. HIDE DEF fitting
  <2>1. /\ Fine(left, seen, 0) /\ left.request = fitting.request
        /\ DayIsFull(left, 0) = DayIsFull(fitting, 0) /\ Grows(fitting, left)
    BY <1>1, SkipFine
  <2> QED
    BY <1>1, <1>2, <2>1, GrowsOn
<1>4. Asking(c, p) = IF AheadOpen(fitting, 0) THEN Now(Await(left, 0))
                     ELSE IF fitting.ready # None THEN Late(HandOutReady(fitting, 0))
                     ELSE Now(Ask(left, NameOf[c], 0))
  BY DEF Asking, Nothing
<1>5. /\ \A q : Now(q).put = q /\ Now(q).late = FALSE
      /\ \A q : Late(q).put = q /\ Late(q).late = TRUE
  BY DEF Now, Late
<1>. HIDE DEF fitting, left
<1>6. CASE AheadOpen(fitting, 0)
  <2>1. left.request # None
    BY <1>3, <1>6 DEF AheadOpen
  <2>2. Fine(Await(left, 0), seen, 0) /\ Grows(left, Await(left, 0))
    BY <1>3, <2>1, AwaitFine
  <2>3. Grows(p, Await(left, 0))
    BY <1>3, <2>2, GrowsOn
  <2>4. WritesWell(c, Await(left, 0), FALSE)
    BY <2>2, <2>3, OldNamesWell
  <2> QED
    BY <1>4, <1>5, <1>6, <2>4
<1>7. CASE ~AheadOpen(fitting, 0) /\ fitting.ready # None
  <2>1. WritesWell(c, HandOutReady(fitting, 0), TRUE)
    BY <1>1, <1>7, HandOutWell
  <2> QED
    BY <1>4, <1>5, <1>7, <2>1
<1>8. CASE ~AheadOpen(fitting, 0) /\ ~(fitting.ready # None)
  <2>. DEFINE q == Ask(left, NameOf[c], 0)
  <2>1. NameOf[c] \in Ids
    BY NamesAreApart
  <2>2. /\ Fine(q, seen \cup {NameOf[c]}, 0) /\ q.request # None /\ q.request.id = NameOf[c]
        /\ Grows(left, q)
    BY <1>3, <2>1, AskFine
  <2>. HIDE DEF q
  <2>3. Grows(p, q)
    BY <1>3, <2>2, GrowsOn
  <2>4. WritesWell(c, q, FALSE)
    BY <2>2, <2>3, NewNameWell
  <2> QED
    BY <1>4, <1>5, <1>8, <2>4 DEF q
<1> QED
  BY <1>6, <1>7, <1>8

\* What prepare_task writes.
LEMMA PreparingWell ==
    ASSUME NEW c \in Calls, Fine(file.profile, seen, 0), st[c].tool = "prepare_task",
           NameOf[c] \notin seen, Preparing(c, file.profile).writes
    PROVE  /\ WritesWell(c, Preparing(c, file.profile).put, FALSE)
           /\ Preparing(c, file.profile).late = FALSE
<1>. DEFINE p == file.profile
            fitting == LetGo(p, FALSE, 0)
            q == AskAhead(fitting, NameOf[c], 0)
<1>1. Fine(fitting, seen, 0) /\ Grows(p, fitting)
  BY LetGoFine
<1>2. /\ \A r : Now(r).put = r /\ Now(r).late = FALSE
      /\ \A r : Nothing(r).writes = FALSE
  BY DEF Now, Nothing
<1>3. \/ OpensAhead(fitting, 0) /\ Preparing(c, p) = Now(q)
      \/ Preparing(c, p) = Now(fitting)
  BY <1>2 DEF Preparing
<1>. HIDE DEF fitting
<1>4. CASE OpensAhead(fitting, 0) /\ Preparing(c, p) = Now(q)
  <2>1. NameOf[c] \in Ids /\ ~DayIsFull(fitting, 0)
    BY <1>4, NamesAreApart DEF OpensAhead
  <2>2. /\ Fine(q, seen \cup {NameOf[c]}, 0) /\ q.request # None /\ q.request.id = NameOf[c]
        /\ Grows(fitting, q)
    BY <1>1, <2>1, AskAheadFine
  <2>. HIDE DEF q
  <2>3. Grows(p, q)
    BY <1>1, <2>2, GrowsOn
  <2>4. WritesWell(c, q, FALSE)
    BY <2>2, <2>3, NewNameWell
  <2> QED
    BY <1>2, <1>4, <2>4
<1>5. CASE Preparing(c, p) = Now(fitting)
  BY <1>1, <1>2, <1>5, OldNamesWell
<1> QED
  BY <1>3, <1>4, <1>5

\* What submit_task writes.
LEMMA HandingInWell ==
    ASSUME NEW c \in Calls, Fine(file.profile, seen, 0), st[c].tool = "submit_task",
           HandingIn(c, file.profile).writes
    PROVE  /\ WritesWell(c, HandingIn(c, file.profile).put, FALSE)
           /\ HandingIn(c, file.profile).late = FALSE
<1>. DEFINE p == file.profile
<1>1. /\ \A r : Now(r).put = r /\ Now(r).late = FALSE
      /\ \A r : Nothing(r).writes = FALSE
  BY DEF Now, Nothing
<1>2. /\ p.request # None
      /\ HandingIn(c, p) \in {Now(Refuse(p, 0)), Now(Keep(p)), Now(Issue(p, 0))}
  BY <1>1 DEF HandingIn, HandedIn
<1>3. \A q \in {Refuse(p, 0), Keep(p), Issue(p, 0)} : Fine(q, seen, 0) /\ Grows(p, q)
  BY <1>2, RefuseFine, KeepFine, IssueFine
<1>4. \A q \in {Refuse(p, 0), Keep(p), Issue(p, 0)} : WritesWell(c, q, FALSE)
  BY <1>3, OldNamesWell
<1> QED
  BY <1>1, <1>2, <1>4

\* What save_profile writes.
LEMMA EditingWell ==
    ASSUME NEW c \in Calls, Fine(file.profile, seen, 0), st[c].tool = "save_profile",
           st[c].lesson \in Lessons, Editing(c, file.profile).writes
    PROVE  /\ WritesWell(c, Editing(c, file.profile).put, FALSE)
           /\ Editing(c, file.profile).late = FALSE
<1>. DEFINE p == file.profile
            q == [p EXCEPT !.lesson = st[c].lesson]
<1>1. Editing(c, p) = Now(q)
  BY DEF Editing, Nothing
<1>2. Fine(q, seen, 0) /\ Grows(p, q)
  BY EditFine
<1>. HIDE DEF q
<1>3. WritesWell(c, q, FALSE)
  BY <1>2, OldNamesWell
<1>4. Now(q).put = q /\ Now(q).late = FALSE
  BY DEF Now
<1> QED
  BY <1>1, <1>3, <1>4

\* Whatever a call decides to write is well to write over the profile it read.
LEMMA DecidedWell ==
    ASSUME NEW c \in Calls, st[c] \in CallStates, Fine(file.profile, seen, 0),
           NameOf[c] \notin seen, Decision(c, file.profile).writes
    PROVE  LET decided == Decision(c, file.profile)
           IN  /\ WritesWell(c, decided.put, decided.late)
               /\ decided.late \in BOOLEAN
               /\ st[c].tool = "submit_answer" => decided.late
<1>. DEFINE p == file.profile
<1>1. st[c].tool \in AllTools /\ st[c].choice \in AnswerChoices /\ st[c].lesson \in Lessons
  BY DEF CallStates
<1>2. CASE st[c].tool = "submit_answer"
  <2>1. Decision(c, p) = Answering(c, p)
    BY <1>2 DEF Decision
  <2>2. /\ InFlight(p) /\ p.task.id = st[c].about
        /\ Answering(c, p) = Late(Apply(p, st[c].choice))
    BY <2>1 DEF Answering, Nothing
  <2>3. WritesWell(c, Apply(p, st[c].choice), TRUE)
    BY <1>1, <1>2, <2>2, AnswerWell
  <2>4. \A q : Late(q).put = q /\ Late(q).late = TRUE
    BY DEF Late
  <2> QED
    BY <2>1, <2>2, <2>3, <2>4
<1>3. CASE st[c].tool = "next_task"
  <2>1. Decision(c, p) = Asking(c, p)
    BY <1>3 DEF Decision
  <2>2. Asking(c, p).late \in BOOLEAN
    BY DEF Asking, Nothing, Now, Late
  <2> QED
    BY <1>3, <2>1, <2>2, AskingWell
<1>4. CASE st[c].tool = "prepare_task"
  <2>1. Decision(c, p) = Preparing(c, p)
    BY <1>4 DEF Decision
  <2> QED
    BY <1>4, <2>1, PreparingWell
<1>5. CASE st[c].tool = "submit_task"
  <2>1. Decision(c, p) = HandingIn(c, p)
    BY <1>5 DEF Decision
  <2> QED
    BY <1>5, <2>1, HandingInWell
<1>6. CASE st[c].tool = "save_profile"
  <2>1. Decision(c, p) = Editing(c, p)
    BY <1>6 DEF Decision
  <2> QED
    BY <1>1, <1>6, <2>1, EditingWell
<1> QED
  BY <1>1, <1>2, <1>3, <1>4, <1>5, <1>6 DEF AllTools

\* So is what a call made again on the profile it read afresh.
LEMMA RemadeWell ==
    ASSUME NEW c \in Calls, st[c] \in CallStates, Fine(file.profile, seen, 0),
           NEW q, Remakes(c, file.profile, q), NEW late
    PROVE  WritesWell(c, q, late)
<1>1. st[c].choice \in AnswerChoices
  BY DEF CallStates
<1>2. CASE st[c].tool = "submit_answer"
  BY <1>1, <1>2, AnswerWell DEF Remakes
<1>3. CASE st[c].tool # "submit_answer"
  <2>1. Grows(file.profile, file.profile)
    BY DEF Grows
  <2> QED
    BY <1>3, <2>1, HandOutWell DEF Remakes
<1> QED
  BY <1>2, <1>3

\* And what stands at the number it was computed from.
LEMMA RightIsWell ==
    ASSUME NEW c \in Calls, st[c] \in CallStates, Fine(file.profile, seen, 0),
           NameOf[c] \notin seen, Rightly(c)
    PROVE  WritesWell(c, st[c].put, st[c].lateWrite)
  BY DecidedWell, RemadeWell DEF Rightly

-----------------------------------------------------------------------------
(* A step of one call.                                                     *)

FileType == [profile : Profiles, number : Nat, here : BOOLEAN]

\* The file stays as it is, or moves on to another profile in order.
FileGoesOn ==
    /\ file' \in FileType /\ file'.number >= file.number
    /\ Fine(file'.profile, seen', 0)
    /\ seen \subseteq seen' /\ seen' \subseteq Ids
    /\ Recalled(file.profile) \subseteq Recalled(file'.profile)
    /\ (file'.number = file.number /\ file'.here) =>
            (file.here /\ file'.profile = file.profile)

\* What a call was made for stays, and so does what was answered before it.
CallSame(c) ==
    /\ st'[c].tool = st[c].tool /\ st'[c].about = st[c].about /\ st'[c].choice = st[c].choice
    /\ st'[c].passes = st[c].passes /\ st'[c].lesson = st[c].lesson /\ st'[c].after = st[c].after

OthersStay(c) == \A d \in Calls \ {c} : st'[d] = st[d]

\* What the variables are of.
LEMMA Typed ==
    ASSUME TypeOK
    PROVE  /\ setting \in Settings /\ Home \in [Calls -> Instances]
           /\ file \in FileType /\ file.number \in Nat /\ file.here \in BOOLEAN
           /\ seen \subseteq Ids
           /\ \A c \in Calls : st[c] \in CallStates /\ Home[c] \in Instances
           /\ outages \in Nat /\ lines \in [Ids -> Nat]
<1>1. Home \in [Calls -> Instances] /\ setting.maxOutages \in Nat
  BY SettingsAreKnown DEF TypeOK, Home
<1> QED
  BY <1>1 DEF TypeOK, FileType

\* A call's next state is a state, and the others keep theirs.
LEMMA MovesOne ==
    ASSUME TypeOK, NEW c \in Calls, NEW r \in CallStates, Moves(c, r)
    PROVE  st' \in [Calls -> CallStates] /\ st'[c] = r /\ OthersStay(c)
  BY DEF TypeOK, Moves, OthersStay

\* A file nobody writes goes on as it is.
LEMMA FileStays ==
    ASSUME IInv, file' = file, seen' = seen
    PROVE  FileGoesOn
  BY Typed DEF IInv, FileGoesOn

\* A write that lands leaves a profile in order.
LEMMA Landing ==
    ASSUME IInv, NEW c \in Calls, st[c].pc \in {"save", "late"}, Holds(c), Land(c)
    PROVE  /\ FileGoesOn /\ file'.number = file.number + 1 /\ file'.profile = st[c].put
           /\ file'.here = file.here
           /\ WritesWell(c, st[c].put, st[c].lateWrite)
           /\ seen' \subseteq seen \cup (IF st[c].lateWrite THEN {} ELSE {NameOf[c]})
           /\ seen' = NamesAfter(st[c].put)
<1>1. /\ file \in FileType /\ seen \subseteq Ids /\ Fine(file.profile, seen, 0)
      /\ st[c] \in CallStates /\ file.number \in Nat
  BY Typed DEF IInv
<1>2. NameOf[c] \notin seen /\ Rightly(c) /\ st[c].base = file.number
  BY DEF IInv, NamesAreNew, BasesHold, Holds
<1>3. WritesWell(c, st[c].put, st[c].lateWrite)
  BY <1>1, <1>2, RightIsWell
<1>. DEFINE q == st[c].put
<1>4. /\ seen' = NamesAfter(q) /\ file' = [file EXCEPT !.profile = q, !.number = file.number + 1]
  BY <1>2 DEF Land, NamesAfter
<1>5. q \in Profiles
  BY <1>1 DEF CallStates
<1>6. seen' \subseteq seen \cup (IF st[c].lateWrite THEN {} ELSE {NameOf[c]}) /\ seen \subseteq seen'
  BY <1>3, <1>4 DEF WritesWell, NamesAfter
<1>7. seen' \subseteq Ids
  BY <1>1, <1>6, NamesAreApart
<1>8. Recalled(file.profile) \subseteq Recalled(q)
  <2>1. CASE st[c].tool = "submit_answer"
    <3>1. st[c].choice \in AnswerChoices
      BY <1>1 DEF CallStates
    <3>2. InFlight(file.profile) /\ q = Apply(file.profile, st[c].choice)
      BY <1>3, <2>1 DEF WritesWell
    <3>. HIDE DEF q
    <3> QED
      BY <1>1, <3>1, <3>2, ApplyFine
  <2>2. CASE st[c].tool # "submit_answer"
    BY <1>3, <2>2 DEF WritesWell, Grows
  <2> QED
    BY <2>1, <2>2
<1>. HIDE DEF q
<1>9. /\ file' \in FileType /\ file'.number = file.number + 1 /\ file'.profile = q
      /\ file'.here = file.here
  <2>. DEFINE n == file.number + 1
  <2>1. n \in Nat
    BY <1>1
  <2>. HIDE DEF n
  <2>2. file' = [file EXCEPT !.profile = q, !.number = n]
    BY <1>4 DEF n
  <2>3. /\ file' \in FileType /\ file'.number = n /\ file'.profile = q
        /\ file'.here = file.here
    BY <1>1, <1>5, <2>1, <2>2 DEF FileType
  <2> QED
    BY <2>3 DEF n
<1>10. Fine(file'.profile, seen', 0)
  BY <1>3, <1>4, <1>9 DEF WritesWell, q
<1>11. FileGoesOn
  BY <1>1, <1>6, <1>7, <1>8, <1>9, <1>10 DEF FileGoesOn
<1> QED
  BY <1>3, <1>4, <1>6, <1>9, <1>11 DEF q

\* What is behind the child stays behind them.
LEMMA BehindStays ==
    ASSUME FileGoesOn
    PROVE  Behind(file.profile) \subseteq Behind(file'.profile)
<1>1. \A p : Behind(p) = {entry.task : entry \in Recalled(p)}
  BY DEF Behind, Recalled
<1> QED
  BY <1>1 DEF FileGoesOn

\* The writes begun, after a step of one call.
LEMMA PendsOn ==
    ASSUME TypeOK, Pends, NEW c \in Calls, setting' = setting, OthersStay(c),
           \/ pending' = pending /\ (st'[c].pc \in Writing <=> st[c].pc \in Writing)
           \/ pending' = [pending EXCEPT ![Home[c]] =
                            IF st'[c].pc \in Writing THEN @ \cup {c} ELSE @ \ {c}]
    PROVE  Pends'
<1>1. /\ \A d \in Calls : Home[d] \in Instances
      /\ Home' = Home
      /\ pending \in [Instances -> SUBSET Calls]
  BY Typed DEF TypeOK, Home
<1>2. SUFFICES ASSUME NEW i \in Instances
               PROVE  pending'[i] = {d \in Calls : Home[d] = i /\ st'[d].pc \in Writing}
  BY <1>1 DEF Pends, Home
<1>3. pending[i] = {d \in Calls : Home[d] = i /\ st[d].pc \in Writing}
  BY DEF Pends
<1>4. \A d \in Calls \ {c} : st'[d].pc = st[d].pc
  BY DEF OthersStay
<1>5. CASE pending' = pending /\ (st'[c].pc \in Writing <=> st[c].pc \in Writing)
  BY <1>3, <1>4, <1>5
<1>6. CASE pending' = [pending EXCEPT ![Home[c]] =
                            IF st'[c].pc \in Writing THEN @ \cup {c} ELSE @ \ {c}]
  <2>1. CASE i = Home[c]
    <3>1. pending'[i] = IF st'[c].pc \in Writing THEN pending[i] \cup {c} ELSE pending[i] \ {c}
      BY <1>1, <1>6, <2>1
    <3> QED
      BY <1>3, <1>4, <2>1, <3>1
  <2>2. CASE i # Home[c]
    <3>1. pending'[i] = pending[i]
      BY <1>1, <1>6, <2>2
    <3> QED
      BY <1>3, <1>4, <2>2, <3>1
  <2> QED
    BY <2>1, <2>2
<1> QED
  BY <1>5, <1>6

\* A call under way is the one that the calls begun after it wait for.
LEMMA OthersFollow ==
    ASSUME IInv, NEW c \in Calls, setting' = setting, OthersStay(c),
           st[c].pc # "done", st[c].pc = "idle" \/ CallSame(c),
           st[c].told # "none" => st'[c].told # "none",
           NEW d \in Calls \ {c}
    PROVE  Follows(d)'
<1>1. Follows(d) /\ st'[d] = st[d] /\ Home' = Home /\ st[d].after \subseteq Calls
  BY Typed DEF IInv, OthersStay, Home, CallStates
<1>2. SUFFICES ASSUME NEW e \in st[d].after
               PROVE  /\ Home[e] = Home[d] /\ st'[e].told # "none"
                      /\ (st[d].pc = "load" /\ st'[e].pc \in Writing) => e \in st[d].waits
                      /\ st[d].base > 0 => st'[e].pc = "done"
                      /\ (st[d].base > 0 /\ st'[e].tool = "submit_answer" /\ st'[e].outcome \in {"written", "remade"}) =>
                            st'[e].about \in Behind(st[d].read)
  BY <1>1 DEF Follows, Home
<1>3. /\ Home[e] = Home[d] /\ st[e].told # "none"
      /\ (st[d].pc = "load" /\ st[e].pc \in Writing) => e \in st[d].waits
      /\ st[d].base > 0 => st[e].pc = "done"
      /\ (st[d].base > 0 /\ st[e].tool = "submit_answer" /\ st[e].outcome \in {"written", "remade"}) =>
            st[e].about \in Behind(st[d].read)
  BY <1>1 DEF Follows
<1>4. CASE e # c
  BY <1>1, <1>3, <1>4 DEF OthersStay
<1>5. CASE e = c
  <2>1. st[c].pc \in Writing
    <3>1. st[c].pc \in Places /\ Placed(c)
      BY Typed DEF IInv, CallStates
    <3> QED
      BY <1>3, <1>5, <3>1 DEF Placed, Places, Unanswered, Writing
  <2>2. CallSame(c) /\ st'[c].told # "none" /\ ~(st[d].base > 0)
    BY <1>3, <1>5, <2>1 DEF Writing
  <2> QED
    BY <1>3, <1>5, <2>1, <2>2
<1> QED
  BY <1>4, <1>5

\* A step of one call keeps the invariant if that call is placed as it has to
\* be, and the lines add up.
LEMMA ByOneCall ==
    ASSUME IInv, NEW c \in Calls, TypeOK', setting' = setting, FileGoesOn, OthersStay(c),
           st[c].pc # "done", st[c].pc = "idle" \/ CallSame(c),
           st[c].told # "none" => st'[c].told # "none",
           \/ pending' = pending /\ (st'[c].pc \in Writing <=> st[c].pc \in Writing)
           \/ pending' = [pending EXCEPT ![Home[c]] =
                            IF st'[c].pc \in Writing THEN @ \cup {c} ELSE @ \ {c}],
           Placed(c)',
           seen' \subseteq seen \cup {NameOf[c]}, NameOf[c] \in seen' => st'[c].pc = "done",
           st'[c].base <= file'.number,
           (st'[c].pc \in {"decided", "save", "late"} /\ Holds(c)') => Rightly(c)',
           (st'[c].tool = "submit_answer" /\ Kept(c)') =>
                [task |-> st'[c].about, choice |-> st'[c].choice] \in Recalled(file'.profile),
           Follows(c)', LinesAreFew', LinesAreLeft'
    PROVE  IInv'
<1>1. /\ file \in FileType /\ file' \in FileType /\ file.number \in Nat /\ file'.number \in Nat
      /\ \A d \in Calls : st[d] \in CallStates
  BY Typed DEF IInv, FileGoesOn, FileType
<1>2. file'.number > 0 /\ Fine(file'.profile, seen', 0)
  BY <1>1 DEF IInv, FileGoesOn
<1>3. \A d \in Calls : Placed(d)'
  BY DEF IInv, OthersStay, Placed
<1>4. Pends'
  BY PendsOn DEF IInv
<1>5. NamesAreNew'
  <2>1. \A d \in Calls \ {c} : NameOf[d] # NameOf[c]
    BY NamesAreApart
  <2>2. \A d \in Calls \ {c} : NameOf[d] \in seen' => NameOf[d] \in seen
    BY <2>1
  <2> QED
    BY <2>2 DEF IInv, NamesAreNew, OthersStay
<1>6. BasesHold'
  <2>1. ASSUME NEW d \in Calls \ {c}
        PROVE  /\ st'[d].base <= file'.number
               /\ (st'[d].pc \in {"decided", "save", "late"} /\ Holds(d)') => Rightly(d)'
    <3>1. /\ st'[d] = st[d] /\ st[d].base \in Nat /\ st[d].base <= file.number
          /\ (st[d].pc \in {"decided", "save", "late"} /\ Holds(d)) => Rightly(d)
      BY <1>1 DEF IInv, OthersStay, BasesHold, CallStates
    <3>2. st'[d].base <= file'.number
      BY <1>1, <3>1 DEF FileGoesOn
    <3>3. ASSUME Holds(d)'
          PROVE  Holds(d) /\ file'.profile = file.profile
      BY <1>1, <3>1, <3>3 DEF FileGoesOn, Holds
    <3>4. ASSUME Rightly(d), file'.profile = file.profile
          PROVE  Rightly(d)'
      BY <3>1, <3>4, ZenonT(40) DEF Rightly, Decision, Answering, Asking, Preparing, HandingIn, Editing, Remakes
    <3> QED
      BY <3>1, <3>2, <3>3, <3>4
  <2> QED
    BY <2>1 DEF BasesHold
<1>7. SaidIsRecalled'
  <2>1. ASSUME NEW d \in Calls \ {c}
        PROVE  (st'[d].tool = "submit_answer" /\ Kept(d)') =>
                    [task |-> st'[d].about, choice |-> st'[d].choice] \in Recalled(file'.profile)
    BY DEF IInv, SaidIsRecalled, OthersStay, Kept, FileGoesOn
  <2> QED
    BY <2>1 DEF SaidIsRecalled
<1>8. \A d \in Calls : Follows(d)'
  BY OthersFollow
<1> QED
  BY <1>2, <1>3, <1>4, <1>5, <1>6, <1>7, <1>8 DEF IInv

\* The types, after a step of one call.
LEMMA StepTyped ==
    ASSUME IInv, NEW c \in Calls, NEW r \in CallStates, Moves(c, r), FileGoesOn,
           setting' = setting, stops' = stops,
           lines' \in [Ids -> Nat], outages' \in 0 .. setting.maxOutages,
           \/ pending' = pending
           \/ pending' = [pending EXCEPT ![Home[c]] = @ \cup {c}]
           \/ pending' = [pending EXCEPT ![Home[c]] = @ \ {c}]
    PROVE  TypeOK'
<1>1. TypeOK /\ pending \in [Instances -> SUBSET Calls]
  BY DEF IInv, TypeOK
<1>2. st' \in [Calls -> CallStates]
  BY <1>1, MovesOne
<1>3. pending' \in [Instances -> SUBSET Calls]
  BY <1>1
<1> QED
  BY <1>1, <1>2, <1>3 DEF TypeOK, FileGoesOn, FileType

-----------------------------------------------------------------------------
(* The lines.                                                              *)

\* The writes unheard are finitely many, and what joins or leaves them counts.
LEMMA UnheardCounts ==
    ASSUME NEW c, NEW S, S \subseteq Unheard \cup {c}
    PROVE  /\ Cardinality(Unheard) \in Nat /\ Cardinality(S) \in Nat
           /\ Cardinality(S) <= Cardinality(Unheard) + 1
           /\ c \notin S => Cardinality(S) <= Cardinality(Unheard)
           /\ (c \notin S /\ c \in Unheard) => Cardinality(S) + 1 <= Cardinality(Unheard)
<1>1. IsFiniteSet(Unheard) /\ Cardinality(Unheard) \in Nat
  BY CallsAreFinite, FS_Subset, FS_CardinalityType DEF Unheard
<1>2. /\ IsFiniteSet(Unheard \cup {c})
      /\ Cardinality(Unheard \cup {c}) \in Nat
      /\ Cardinality(Unheard \cup {c}) <= Cardinality(Unheard) + 1
  BY <1>1, FS_AddElement, FS_CardinalityType
<1>3. /\ IsFiniteSet(S) /\ Cardinality(S) \in Nat
      /\ Cardinality(S) <= Cardinality(Unheard \cup {c})
  BY <1>2, FS_Subset, FS_CardinalityType
<1>4. c \notin S => Cardinality(S) <= Cardinality(Unheard)
  BY <1>1, FS_Subset
<1>5. ASSUME c \notin S, c \in Unheard
      PROVE  Cardinality(S) + 1 <= Cardinality(Unheard)
  <2>1. S \subseteq Unheard \ {c}
    BY <1>5
  <2>2. IsFiniteSet(Unheard \ {c}) /\ Cardinality(Unheard \ {c}) = Cardinality(Unheard) - 1
    BY <1>1, <1>5, FS_RemoveElement
  <2>3. Cardinality(S) <= Cardinality(Unheard \ {c})
    BY <2>1, <2>2, FS_Subset
  <2> QED
    BY <1>1, <1>3, <2>2, <2>3
<1> QED
  BY <1>1, <1>2, <1>3, <1>4, <1>5

\* A step of one call leaves the writes of the others unheard, or heard.
LEMMA UnheardMoves ==
    ASSUME NEW c \in Calls, OthersStay(c)
    PROVE  /\ Unheard' \subseteq Unheard \cup {c}
           /\ ~(st'[c].pc = "again" /\ st'[c].mayHaveLanded) => c \notin Unheard'
  BY DEF Unheard, OthersStay

\* No lines are left, and the file recalls no more but tasks skipped.
LEMMA LinesStay ==
    ASSUME IInv, FileGoesOn, NEW c \in Calls, OthersStay(c), lines' = lines, outages' = outages,
           ~(st'[c].pc = "again" /\ st'[c].mayHaveLanded),
           Grows(file.profile, file'.profile)
    PROVE  LinesAreFew' /\ LinesAreLeft'
<1>1. /\ Cardinality(Unheard) \in Nat /\ Cardinality(Unheard') \in Nat
      /\ Cardinality(Unheard') <= Cardinality(Unheard)
  BY UnheardCounts, UnheardMoves
<1>2. outages \in Nat /\ lines \in [Ids -> Nat]
  BY Typed DEF IInv
<1>3. ASSUME NEW id \in Ids
      PROVE  lines'[id] + Cardinality(Unheard') <=
                outages' + (IF id \in Behind(file'.profile) THEN 1 ELSE 0)
  <2>1. lines[id] + Cardinality(Unheard) <=
            outages + (IF id \in Behind(file.profile) THEN 1 ELSE 0)
    BY DEF IInv, LinesAreFew
  <2>2. id \in Behind(file.profile) => id \in Behind(file'.profile)
    BY BehindStays
  <2> QED
    BY <1>1, <1>2, <2>1, <2>2
<1>4. LinesAreLeft'
  BY DEF IInv, LinesAreLeft, Grows
<1> QED
  BY <1>3, <1>4 DEF LinesAreFew

\* A request Drive did not answer makes one write unheard at most.
LEMMA LinesOutage ==
    ASSUME IInv, FileGoesOn, NEW c \in Calls, OthersStay(c), lines' = lines,
           outages' = outages + 1
    PROVE  LinesAreFew' /\ LinesAreLeft'
<1>1. /\ Cardinality(Unheard) \in Nat /\ Cardinality(Unheard') \in Nat
      /\ Cardinality(Unheard') <= Cardinality(Unheard) + 1
  BY UnheardCounts, UnheardMoves
<1>2. outages \in Nat /\ lines \in [Ids -> Nat]
  BY Typed DEF IInv
<1>3. ASSUME NEW id \in Ids
      PROVE  lines'[id] + Cardinality(Unheard') <=
                outages' + (IF id \in Behind(file'.profile) THEN 1 ELSE 0)
  <2>1. lines[id] + Cardinality(Unheard) <=
            outages + (IF id \in Behind(file.profile) THEN 1 ELSE 0)
    BY DEF IInv, LinesAreFew
  <2>2. id \in Behind(file.profile) => id \in Behind(file'.profile)
    BY BehindStays
  <2> QED
    BY <1>1, <1>2, <2>1, <2>2
<1>4. outages' # 0
  BY <1>2
<1> QED
  BY <1>3, <1>4 DEF LinesAreFew, LinesAreLeft

\* An answer that lands leaves its lines as it comes to be recalled.
LEMMA LinesLeft ==
    ASSUME IInv, FileGoesOn, NEW c \in Calls, OthersStay(c), outages' = outages,
           ~(st'[c].pc = "again" /\ st'[c].mayHaveLanded),
           st[c].about \in Ids, lines' = [lines EXCEPT ![st[c].about] = @ + 1],
           NEW choice, Recalled(file'.profile) =
                Recalled(file.profile) \cup {[task |-> st[c].about, choice |-> choice]},
           st[c].about \notin Behind(file.profile)
    PROVE  LinesAreFew' /\ LinesAreLeft'
<1>1. /\ Cardinality(Unheard) \in Nat /\ Cardinality(Unheard') \in Nat
      /\ Cardinality(Unheard') <= Cardinality(Unheard)
  BY UnheardCounts, UnheardMoves
<1>2. outages \in Nat /\ lines \in [Ids -> Nat]
  BY Typed DEF IInv
<1>3. st[c].about \in Behind(file'.profile)
  <2>1. [task |-> st[c].about, choice |-> choice] \in Recalled(file'.profile)
    OBVIOUS
  <2> QED
    BY <2>1, RecalledIsBehind
<1>4. ASSUME NEW id \in Ids
      PROVE  lines'[id] + Cardinality(Unheard') <=
                outages' + (IF id \in Behind(file'.profile) THEN 1 ELSE 0)
  <2>1. lines[id] + Cardinality(Unheard) <=
            outages + (IF id \in Behind(file.profile) THEN 1 ELSE 0)
    BY DEF IInv, LinesAreFew
  <2>2. id \in Behind(file.profile) => id \in Behind(file'.profile)
    BY BehindStays
  <2> QED
    BY <1>1, <1>2, <1>3, <2>1, <2>2
<1>5. LinesAreLeft'
  <2>1. ASSUME outages' = 0, NEW entry \in Recalled(file'.profile)
        PROVE  entry.choice = "skipped" \/ lines'[entry.task] >= 1
    <3>1. CASE entry \in Recalled(file.profile)
      <4>1. entry.task \in Ids /\ (entry.choice = "skipped" \/ lines[entry.task] >= 1)
        <5>1. entry \in Entries
          BY <3>1, Typed DEF IInv, Recalled, FileType, Profiles
        <5> QED
          BY <2>1, <3>1, <5>1 DEF IInv, LinesAreLeft, Entries
      <4> QED
        BY <1>2, <4>1
    <3>2. CASE entry = [task |-> st[c].about, choice |-> choice]
      <4>1. entry.task = st[c].about
        BY <3>2
      <4> QED
        BY <1>2, <4>1
    <3> QED
      BY <2>1, <3>1, <3>2
  <2> QED
    BY <2>1 DEF LinesAreLeft
<1> QED
  BY <1>4, <1>5 DEF LinesAreFew

\* An answer found to have landed unheard leaves its lines then.
LEMMA LinesOwn ==
    ASSUME IInv, file' = file, NEW c \in Calls, OthersStay(c), outages' = outages,
           c \in Unheard, ~(st'[c].pc = "again" /\ st'[c].mayHaveLanded),
           st[c].about \in Ids, lines' = [lines EXCEPT ![st[c].about] = @ + 1]
    PROVE  LinesAreFew' /\ LinesAreLeft'
<1>1. /\ Cardinality(Unheard) \in Nat /\ Cardinality(Unheard') \in Nat
      /\ Cardinality(Unheard') + 1 <= Cardinality(Unheard)
  BY UnheardCounts, UnheardMoves
<1>2. outages \in Nat /\ lines \in [Ids -> Nat]
  BY Typed DEF IInv
<1>3. ASSUME NEW id \in Ids
      PROVE  lines'[id] + Cardinality(Unheard') <=
                outages' + (IF id \in Behind(file'.profile) THEN 1 ELSE 0)
  <2>1. lines[id] + Cardinality(Unheard) <=
            outages + (IF id \in Behind(file.profile) THEN 1 ELSE 0)
    BY DEF IInv, LinesAreFew
  <2> QED
    BY <1>1, <1>2, <2>1
<1>4. LinesAreLeft'
  <2>1. ASSUME outages' = 0, NEW entry \in Recalled(file.profile)
        PROVE  entry.choice = "skipped" \/ lines'[entry.task] >= 1
    <3>1. entry.task \in Ids /\ (entry.choice = "skipped" \/ lines[entry.task] >= 1)
      <4>1. entry \in Entries
        BY Typed DEF IInv, Recalled, FileType, Profiles
      <4> QED
        BY <2>1, <4>1 DEF IInv, LinesAreLeft, Entries
    <3> QED
      BY <1>2, <3>1
  <2> QED
    BY <2>1 DEF LinesAreLeft
<1> QED
  BY <1>3, <1>4 DEF LinesAreFew

-----------------------------------------------------------------------------
(* The actions of a call.                                                  *)

\* A call that has not read the file anew has read what it has to, and waits for
\* every write begun by now when it is to read it.
LEMMA FollowsOn ==
    ASSUME IInv, NEW c \in Calls, setting' = setting, OthersStay(c),
           st'[c].after = st[c].after, st'[c].read = st[c].read,
           st'[c].base > 0 => st[c].base > 0,
           st'[c].pc = "load" => st'[c].waits = Begun(c)
    PROVE  Follows(c)'
<1>1. /\ Follows(c) /\ Placed(c) /\ Pends /\ Home' = Home /\ st[c].after \subseteq Calls
      /\ \A d \in Calls : Home[d] \in Instances
  BY Typed DEF IInv, Home, CallStates
<1>2. SUFFICES ASSUME NEW d \in st[c].after
               PROVE  /\ Home[d] = Home[c] /\ st'[d].told # "none"
                      /\ (st'[c].pc = "load" /\ st'[d].pc \in Writing) => d \in st'[c].waits
                      /\ st'[c].base > 0 => st'[d].pc = "done"
                      /\ (st'[c].base > 0 /\ st'[d].tool = "submit_answer" /\ st'[d].outcome \in {"written", "remade"}) =>
                            st'[d].about \in Behind(st'[c].read)
  BY <1>1 DEF Follows, Home
<1>3. st'[d] = st[d] /\ d \in Calls
  BY <1>1 DEF Placed, OthersStay
<1>4. Home[d] = Home[c] /\ st[d].told # "none"
  BY <1>1 DEF Follows
<1>5. ASSUME st'[c].pc = "load", st[d].pc \in Writing
      PROVE  d \in st'[c].waits
  BY <1>1, <1>3, <1>4, <1>5 DEF Pends, Begun
<1>6. ASSUME st'[c].base > 0
      PROVE  /\ st[d].pc = "done"
             /\ (st[d].tool = "submit_answer" /\ st[d].outcome \in {"written", "remade"}) =>
                    st[d].about \in Behind(st'[c].read)
  BY <1>1, <1>6 DEF Follows
<1> QED
  BY <1>3, <1>4, <1>5, <1>6

\* A call that reads the file once the writes it waits for are settled reads what
\* they wrote.
LEMMA FollowsRead ==
    ASSUME IInv, NEW c \in Calls, setting' = setting, OthersStay(c),
           st[c].pc = "load", Settled(c), st'[c].pc # "load",
           st'[c].after = st[c].after, st'[c].read = file.profile
    PROVE  Follows(c)'
<1>1. /\ Follows(c) /\ Placed(c) /\ Pends /\ Home' = Home /\ st[c].after \subseteq Calls
      /\ \A d \in Calls : Home[d] \in Instances /\ st[d].pc \in Places /\ Placed(d)
  BY Typed DEF IInv, Home, CallStates
<1>2. SUFFICES ASSUME NEW d \in st[c].after
               PROVE  /\ Home[d] = Home[c] /\ st'[d].told # "none"
                      /\ st'[d].pc = "done"
                      /\ (st'[d].tool = "submit_answer" /\ st'[d].outcome \in {"written", "remade"}) =>
                            st'[d].about \in Behind(file.profile)
  BY <1>1 DEF Follows, Home
<1>3. st'[d] = st[d] /\ d \in Calls
  BY <1>1 DEF Placed, OthersStay
<1>4. /\ Home[d] = Home[c] /\ st[d].told # "none"
      /\ st[d].pc \in Writing => d \in st[c].waits
  BY <1>1 DEF Follows
<1>5. st[d].pc \notin Writing
  BY <1>1, <1>3, <1>4 DEF Pends, Settled
<1>6. st[d].pc = "done"
  BY <1>1, <1>3, <1>4, <1>5 DEF Placed, Places, Unanswered, Writing
<1>7. ASSUME st[d].tool = "submit_answer", st[d].outcome \in {"written", "remade"}
      PROVE  st[d].about \in Behind(file.profile)
  <2>1. [task |-> st[d].about, choice |-> st[d].choice] \in Recalled(file.profile)
    BY <1>3, <1>7 DEF IInv, SaidIsRecalled, Kept
  <2> QED
    BY <2>1, RecalledIsBehind
<1> QED
  BY <1>3, <1>4, <1>6, <1>7

\* A step that writes nothing and leaves no lines.
LEMMA QuietStep ==
    ASSUME IInv, NEW c \in Calls, NEW r \in CallStates, Moves(c, r),
           UNCHANGED <<setting, file, seen, lines, outages, stops>>,
           st[c].pc # "done", st[c].pc = "idle" \/ CallSame(c),
           st[c].told # "none" => r.told # "none",
           \/ pending' = pending /\ (r.pc \in Writing <=> st[c].pc \in Writing)
           \/ pending' = [pending EXCEPT ![Home[c]] = @ \cup {c}] /\ r.pc \in Writing
           \/ pending' = [pending EXCEPT ![Home[c]] = @ \ {c}] /\ r.pc \notin Writing,
           Placed(c)', ~(r.pc = "again" /\ r.mayHaveLanded),
           r.base <= file.number,
           (r.pc \in {"decided", "save", "late"} /\ Holds(c)') => Rightly(c)',
           (r.tool = "submit_answer" /\ Kept(c)') =>
                [task |-> r.about, choice |-> r.choice] \in Recalled(file.profile),
           Follows(c)'
    PROVE  IInv'
<1>1. TypeOK /\ st'[c] = r /\ OthersStay(c) /\ FileGoesOn
  BY MovesOne, FileStays DEF IInv
<1>2. lines \in [Ids -> Nat] /\ outages \in 0 .. setting.maxOutages
  BY <1>1 DEF TypeOK
<1>3. TypeOK'
  BY <1>1, <1>2, StepTyped
<1>4. LinesAreFew' /\ LinesAreLeft'
  <2>1. Grows(file.profile, file'.profile)
    BY DEF Grows
  <2> QED
    BY <1>1, <2>1, LinesStay
<1>5. NameOf[c] \notin seen
  BY DEF IInv, NamesAreNew
<1>6. \/ pending' = pending /\ (st'[c].pc \in Writing <=> st[c].pc \in Writing)
      \/ pending' = [pending EXCEPT ![Home[c]] =
                        IF st'[c].pc \in Writing THEN @ \cup {c} ELSE @ \ {c}]
  BY <1>1
<1>7. seen' \subseteq seen \cup {NameOf[c]} /\ (NameOf[c] \in seen' => st'[c].pc = "done")
  BY <1>5
<1>8. /\ st'[c].base <= file'.number
      /\ (st'[c].pc \in {"decided", "save", "late"} /\ Holds(c)') => Rightly(c)'
      /\ (st'[c].tool = "submit_answer" /\ Kept(c)') =>
                [task |-> st'[c].about, choice |-> st'[c].choice] \in Recalled(file'.profile)
      /\ st[c].told # "none" => st'[c].told # "none"
      /\ setting' = setting
  BY <1>1
<1> QED
  BY <1>1, <1>3, <1>4, <1>6, <1>7, <1>8, ByOneCall

\* A call begins.
LEMMA BeginKeeps ==
    ASSUME IInv, NEW c \in Calls, Begin(c)
    PROVE  IInv'
<1>1. /\ st[c] \in CallStates /\ st[c].pc = "idle" /\ Placed(c)
      /\ \A d \in Calls : Home[d] \in Instances /\ st[d] \in CallStates
      /\ pending \in [Instances -> SUBSET Calls] /\ seen \subseteq Ids /\ setting \in Settings
  BY Typed DEF IInv, TypeOK, Begin
<1>2. UNCHANGED <<setting, file, seen, lines, outages, stops>> /\ pending' = pending /\ Home' = Home
  BY DEF Begin, Home
<1>. DEFINE before == {d \in Calls : Home[d] = Home[c] /\ Answered(d)}
<1>3. PICK tool \in setting.tools, about \in seen, choice \in AnswerChoices, passes \in BOOLEAN,
           lesson \in setting.lessons :
        Moves(c, [st[c] EXCEPT !.pc = "load", !.tool = tool, !.about = about,
                               !.choice = choice, !.passes = passes, !.lesson = lesson,
                               !.waits = Begun(c), !.after = before])
  BY ZenonT(40) DEF Begin
<1>. DEFINE r == [st[c] EXCEPT !.pc = "load", !.tool = tool, !.about = about,
                               !.choice = choice, !.passes = passes, !.lesson = lesson,
                               !.waits = Begun(c), !.after = before]
<1>4. tool \in AllTools /\ about \in Ids /\ lesson \in Lessons
  BY <1>1, <1>3, SettingsAreKnown
<1>5. Begun(c) \in SUBSET Calls /\ before \in SUBSET Calls
  BY <1>1 DEF Begun
<1>6. /\ r \in CallStates /\ r.pc = "load" /\ r.base = st[c].base /\ r.told = st[c].told
      /\ r.outcome = st[c].outcome /\ r.waits = Begun(c) /\ r.after = before
  <2>. HIDE DEF before
  <2> QED
    BY <1>1, <1>3, <1>4, <1>5 DEF CallStates, Places
<1>. HIDE DEF r
<1>7. /\ TypeOK /\ st'[c] = r /\ OthersStay(c) /\ Moves(c, r)
  BY <1>3, <1>6, MovesOne DEF IInv, r
<1>8. /\ st[c].told = "none" /\ st[c].outcome = "none" /\ st[c].base = 0
  BY <1>1 DEF Placed, Unanswered
<1>9. c \notin before
  BY <1>8 DEF Answered
<1>10. Placed(c)'
  BY <1>6, <1>7, <1>8, <1>9 DEF Placed, Unanswered, Writing
<1>11. Follows(c)'
  <2>1. SUFFICES ASSUME NEW d \in before
                 PROVE  /\ Home[d] = Home[c] /\ st'[d].told # "none"
                        /\ st'[d].pc \in Writing => d \in Begun(c)
    BY <1>2, <1>6, <1>7, <1>8 DEF Follows, Home
  <2>2. st'[d] = st[d] /\ d \in Calls /\ Home[d] = Home[c] /\ st[d].told # "none"
    BY <1>7, <1>9 DEF OthersStay, Answered
  <2>3. st[d].pc \in Writing => d \in pending[Home[c]]
    BY <1>1, <2>2 DEF IInv, Pends
  <2> QED
    BY <2>2, <2>3 DEF Begun
<1>12. r.base <= file.number /\ ~Kept(c)'
  <2>1. file.number \in Nat
    BY Typed DEF IInv
  <2> QED
    BY <1>6, <1>7, <1>8, <2>1 DEF Kept
<1>13. /\ st[c].pc # "done" /\ (st[c].told # "none" => r.told # "none")
       /\ r.pc \in Writing <=> st[c].pc \in Writing
       /\ ~(r.pc = "again" /\ r.mayHaveLanded)
       /\ r.pc \notin {"decided", "save", "late"}
  BY <1>1, <1>6, <1>8 DEF Writing
<1> QED
  BY <1>1, <1>2, <1>6, <1>7, <1>10, <1>11, <1>12, <1>13, QuietStep

\* A call reads the profile, and decides.
LEMMA LoadKeeps ==
    ASSUME IInv, NEW c \in Calls, Load(c)
    PROVE  IInv'
<1>1. /\ st[c] \in CallStates /\ st[c].pc = "load" /\ Placed(c) /\ Settled(c)
      /\ file \in FileType /\ file.number \in Nat /\ NameOf[c] \notin seen
      /\ Fine(file.profile, seen, 0)
  BY Typed DEF IInv, Load, NamesAreNew
<1>2. /\ UNCHANGED <<setting, file, seen, lines, outages, stops>> /\ pending' = pending
      /\ setting' = setting
  BY DEF Load
<1>3. st[c].told = "none" /\ st[c].outcome = "none"
  BY <1>1 DEF Placed, Unanswered
<1>4. file.profile \in Profiles
  BY <1>1 DEF FileType
<1>5. CASE ~file.here /\ Tell(c, "noProfile")
  <2>. DEFINE r == [st[c] EXCEPT !.pc = "done", !.told = "noProfile"]
  <2>1. /\ r \in CallStates /\ r.pc = "done" /\ r.told = "noProfile" /\ r.outcome = st[c].outcome
        /\ r.base = st[c].base /\ r.read = st[c].read
        /\ r.tool = st[c].tool /\ r.about = st[c].about /\ r.choice = st[c].choice
        /\ r.passes = st[c].passes /\ r.lesson = st[c].lesson /\ r.after = st[c].after
    BY <1>1 DEF CallStates, Places, Tolds
  <2>2. Moves(c, r)
    BY <1>5 DEF Tell
  <2>. HIDE DEF r
  <2>3. st'[c] = r /\ OthersStay(c) /\ CallSame(c)
    BY <2>1, <2>2, MovesOne DEF IInv, CallSame
  <2>4. Follows(c)'
    BY <1>2, <2>1, <2>3, FollowsOn
  <2>5. Placed(c)'
    BY <1>1, <1>3, <2>1, <2>3 DEF Placed, Unanswered, Writing
  <2>6. r.base <= file.number /\ ~Kept(c)'
    BY <1>3, <2>1, <2>3 DEF IInv, BasesHold, Kept
  <2>7. /\ r.pc \in Writing <=> st[c].pc \in Writing
        /\ st[c].pc # "done" /\ r.pc \notin {"again", "decided", "save", "late"}
    BY <1>1, <2>1 DEF Writing
  <2> QED
    BY <1>2, <1>3, <2>1, <2>2, <2>3, <2>4, <2>5, <2>6, <2>7, QuietStep
<1>6. CASE file.here /\ Decision(c, file.profile).writes
  <2>. DEFINE decided == Decision(c, file.profile)
              r == [st[c] EXCEPT !.pc = "decided", !.base = file.number, !.read = file.profile,
                                 !.put = decided.put, !.lateWrite = decided.late]
  <2>1. /\ WritesWell(c, decided.put, decided.late) /\ decided.late \in BOOLEAN
        /\ st[c].tool = "submit_answer" => decided.late
    BY <1>1, <1>6, DecidedWell
  <2>2. Moves(c, r)
    BY <1>6 DEF Load, Read
  <2>3. decided.put \in Profiles
    BY <2>1 DEF WritesWell, Fine, Sound
  <2>4. /\ r \in CallStates /\ r.pc = "decided" /\ r.told = st[c].told /\ r.outcome = st[c].outcome
        /\ r.base = file.number /\ r.read = file.profile
        /\ r.put = decided.put /\ r.lateWrite = decided.late
        /\ r.tool = st[c].tool /\ r.about = st[c].about /\ r.choice = st[c].choice
        /\ r.passes = st[c].passes /\ r.lesson = st[c].lesson /\ r.after = st[c].after
    <3>. HIDE DEF decided
    <3> QED
      BY <1>1, <1>4, <2>1, <2>3 DEF CallStates, Places
  <2>. HIDE DEF r
  <2>5. st'[c] = r /\ OthersStay(c) /\ CallSame(c)
    BY <2>2, <2>4, MovesOne DEF IInv, CallSame
  <2>6. Follows(c)'
    BY <1>1, <1>2, <2>4, <2>5, FollowsRead
  <2>7. Placed(c)'
    BY <1>1, <1>3, <2>1, <2>4, <2>5 DEF IInv, Placed, Unanswered, Writing
  <2>8. Rightly(c)'
    BY <1>2, <1>6, <2>4, <2>5, ZenonT(40) DEF Rightly, Decision, Answering, Asking, Preparing, HandingIn, Editing
  <2>9. r.base <= file.number /\ ~Kept(c)'
    BY <1>1, <1>3, <2>4, <2>5 DEF Kept
  <2>10. /\ r.pc \in Writing <=> st[c].pc \in Writing
         /\ st[c].pc # "done" /\ r.pc # "again"
    BY <1>1, <2>4 DEF Writing
  <2> QED
    BY <1>2, <1>3, <2>2, <2>4, <2>5, <2>6, <2>7, <2>8, <2>9, <2>10, QuietStep
<1>7. CASE file.here /\ ~Decision(c, file.profile).writes
  <2>. DEFINE r == [st[c] EXCEPT !.pc = "done", !.told = "nothing", !.base = file.number,
                                 !.read = file.profile]
  <2>1. /\ r \in CallStates /\ r.pc = "done" /\ r.told = "nothing" /\ r.outcome = st[c].outcome
        /\ r.base = file.number /\ r.read = file.profile
        /\ r.tool = st[c].tool /\ r.about = st[c].about /\ r.choice = st[c].choice
        /\ r.passes = st[c].passes /\ r.lesson = st[c].lesson /\ r.after = st[c].after
    BY <1>1, <1>4 DEF CallStates, Places, Tolds
  <2>2. Moves(c, r)
    BY <1>7 DEF Load, Read
  <2>. HIDE DEF r
  <2>3. st'[c] = r /\ OthersStay(c) /\ CallSame(c)
    BY <2>1, <2>2, MovesOne DEF IInv, CallSame
  <2>4. Follows(c)'
    BY <1>1, <1>2, <2>1, <2>3, FollowsRead
  <2>5. Placed(c)'
    BY <1>1, <1>3, <2>1, <2>3 DEF Placed, Unanswered, Writing
  <2>6. r.base <= file.number /\ ~Kept(c)'
    BY <1>1, <1>3, <2>1, <2>3 DEF Kept
  <2>7. /\ r.pc \in Writing <=> st[c].pc \in Writing
        /\ st[c].pc # "done" /\ r.pc \notin {"again", "decided", "save", "late"}
    BY <1>1, <2>1 DEF Writing
  <2> QED
    BY <1>2, <1>3, <2>1, <2>2, <2>3, <2>4, <2>5, <2>6, <2>7, QuietStep
<1> QED
  BY <1>5, <1>6, <1>7 DEF Load, Read

\* A call goes on to write before it answers.
LEMMA GoOnKeeps ==
    ASSUME IInv, NEW c \in Calls, GoOnToSave(c)
    PROVE  IInv'
<1>1. /\ st[c] \in CallStates /\ st[c].pc = "decided" /\ ~st[c].lateWrite /\ Placed(c)
      /\ pending \in [Instances -> SUBSET Calls] /\ Home[c] \in Instances
      /\ UNCHANGED <<setting, file, seen, lines, outages, stops>> /\ pending' = pending
      /\ setting' = setting
  BY Typed DEF IInv, TypeOK, GoOnToSave
<1>2. st[c].told = "none" /\ st[c].outcome = "none"
  BY <1>1 DEF Placed, Unanswered
<1>. DEFINE r == [st[c] EXCEPT !.pc = "save", !.waits = Begun(c)]
<1>3. Begun(c) \in SUBSET Calls
  BY <1>1 DEF Begun
<1>4. /\ r \in CallStates /\ r.pc = "save" /\ r.told = st[c].told /\ r.outcome = st[c].outcome
      /\ r.base = st[c].base /\ r.read = st[c].read /\ r.put = st[c].put
      /\ r.lateWrite = st[c].lateWrite
      /\ r.tool = st[c].tool /\ r.about = st[c].about /\ r.choice = st[c].choice
      /\ r.passes = st[c].passes /\ r.lesson = st[c].lesson /\ r.after = st[c].after
  BY <1>1, <1>3 DEF CallStates, Places
<1>5. Moves(c, r)
  BY DEF GoOnToSave
<1>. HIDE DEF r
<1>6. st'[c] = r /\ OthersStay(c) /\ CallSame(c)
  BY <1>4, <1>5, MovesOne DEF IInv, CallSame
<1>7. Follows(c)'
  BY <1>1, <1>4, <1>6, FollowsOn
<1>8. Placed(c)'
  BY <1>1, <1>2, <1>4, <1>6 DEF Placed, Unanswered, Writing
<1>9. Holds(c)' => Rightly(c)'
  <2>1. Holds(c) => Rightly(c)
    BY <1>1 DEF IInv, BasesHold
  <2>2. Holds(c)' = Holds(c)
    BY <1>1, <1>4, <1>6 DEF Holds
  <2>3. Rightly(c) => Rightly(c)'
    BY <1>1, <1>4, <1>6
    DEF Rightly, Decision, Answering, Asking, Preparing, HandingIn, Editing, Remakes
  <2> QED
    BY <2>1, <2>2, <2>3
<1>10. r.base <= file.number /\ ~Kept(c)'
  BY <1>2, <1>4, <1>6 DEF IInv, BasesHold, Kept
<1>11. /\ r.pc \in Writing <=> st[c].pc \in Writing
       /\ st[c].pc # "done" /\ r.pc # "again"
  BY <1>1, <1>4 DEF Writing
<1> QED
  BY <1>1, <1>2, <1>4, <1>5, <1>6, <1>7, <1>8, <1>9, <1>10, <1>11, QuietStep

\* A call answers, and begins its write.
LEMMA AnswerFirstKeeps ==
    ASSUME IInv, NEW c \in Calls, AnswerFirst(c)
    PROVE  IInv'
<1>1. /\ st[c] \in CallStates /\ st[c].pc = "decided" /\ st[c].lateWrite /\ Placed(c)
      /\ UNCHANGED <<setting, file, seen, lines, outages, stops>>
      /\ pending' = [pending EXCEPT ![Home[c]] = @ \cup {c}]
      /\ setting' = setting
  BY Typed DEF IInv, AnswerFirst
<1>2. st[c].told = "none" /\ st[c].outcome = "none"
  BY <1>1 DEF Placed, Unanswered
<1>. DEFINE r == [st[c] EXCEPT !.pc = "late", !.told = "ok", !.tries = 0]
<1>3. /\ r \in CallStates /\ r.pc = "late" /\ r.told = "ok" /\ r.outcome = st[c].outcome
      /\ r.base = st[c].base /\ r.read = st[c].read /\ r.put = st[c].put
      /\ r.lateWrite = st[c].lateWrite
      /\ r.tool = st[c].tool /\ r.about = st[c].about /\ r.choice = st[c].choice
      /\ r.passes = st[c].passes /\ r.lesson = st[c].lesson /\ r.after = st[c].after
  BY <1>1 DEF CallStates, Places, Tolds
<1>4. Moves(c, r)
  BY DEF AnswerFirst
<1>. HIDE DEF r
<1>5. st'[c] = r /\ OthersStay(c) /\ CallSame(c)
  BY <1>3, <1>4, MovesOne DEF IInv, CallSame
<1>6. Follows(c)'
  BY <1>1, <1>3, <1>5, FollowsOn
<1>7. Placed(c)'
  BY <1>1, <1>2, <1>3, <1>5 DEF Placed, Unanswered, Writing
<1>8. Holds(c)' => Rightly(c)'
  <2>1. Holds(c) => Rightly(c)
    BY <1>1 DEF IInv, BasesHold
  <2>2. Holds(c)' = Holds(c)
    BY <1>1, <1>3, <1>5 DEF Holds
  <2>3. Rightly(c) => Rightly(c)'
    BY <1>1, <1>3, <1>5, ZenonT(40)
    DEF Rightly, Decision, Answering, Asking, Preparing, HandingIn, Editing, Remakes
  <2> QED
    BY <2>1, <2>2, <2>3
<1>9. r.base <= file.number /\ ~Kept(c)'
  BY <1>2, <1>3, <1>5 DEF IInv, BasesHold, Kept
<1>10. r.pc \in Writing /\ st[c].pc # "done" /\ r.pc # "again" /\ r.told # "none"
  BY <1>1, <1>3 DEF Writing
<1> QED
  BY <1>1, <1>2, <1>3, <1>4, <1>5, <1>6, <1>7, <1>8, <1>9, <1>10, QuietStep

\* A call whose write comes to an end.
LEMMA Ended ==
    ASSUME TypeOK, NEW c \in Calls, NEW outcome \in Outcomes, Ends(c, outcome)
    PROVE  \E r \in CallStates :
             /\ Moves(c, r) /\ r.pc = "done" /\ r.outcome = outcome /\ r.told = st[c].told
             /\ r.base = st[c].base /\ r.read = st[c].read
             /\ r.tool = st[c].tool /\ r.about = st[c].about /\ r.choice = st[c].choice
             /\ r.passes = st[c].passes /\ r.lesson = st[c].lesson /\ r.after = st[c].after
             /\ pending' = [pending EXCEPT ![Home[c]] = @ \ {c}]
<1>. DEFINE r == [st[c] EXCEPT !.pc = "done", !.outcome = outcome]
<1>1. st[c] \in CallStates
  BY DEF TypeOK
<1>2. /\ r \in CallStates /\ r.pc = "done" /\ r.outcome = outcome /\ r.told = st[c].told
      /\ r.base = st[c].base /\ r.read = st[c].read
      /\ r.tool = st[c].tool /\ r.about = st[c].about /\ r.choice = st[c].choice
      /\ r.passes = st[c].passes /\ r.lesson = st[c].lesson /\ r.after = st[c].after
  BY <1>1 DEF CallStates, Places
<1>3. Moves(c, r) /\ pending' = [pending EXCEPT ![Home[c]] = @ \ {c}]
  BY DEF Ends
<1>. HIDE DEF r
<1> QED
  BY <1>2, <1>3

\* A call that tells how it came out.
LEMMA Told ==
    ASSUME TypeOK, NEW c \in Calls, NEW told \in Tolds, Tell(c, told)
    PROVE  \E r \in CallStates :
             /\ Moves(c, r) /\ r.pc = "done" /\ r.told = told /\ r.outcome = st[c].outcome
             /\ r.base = st[c].base /\ r.read = st[c].read
             /\ r.tool = st[c].tool /\ r.about = st[c].about /\ r.choice = st[c].choice
             /\ r.passes = st[c].passes /\ r.lesson = st[c].lesson /\ r.after = st[c].after
<1>. DEFINE r == [st[c] EXCEPT !.pc = "done", !.told = told]
<1>1. st[c] \in CallStates
  BY DEF TypeOK
<1>2. /\ r \in CallStates /\ r.pc = "done" /\ r.told = told /\ r.outcome = st[c].outcome
      /\ r.base = st[c].base /\ r.read = st[c].read
      /\ r.tool = st[c].tool /\ r.about = st[c].about /\ r.choice = st[c].choice
      /\ r.passes = st[c].passes /\ r.lesson = st[c].lesson /\ r.after = st[c].after
  BY <1>1 DEF CallStates, Places
<1>3. Moves(c, r)
  BY DEF Tell
<1>. HIDE DEF r
<1> QED
  BY <1>2, <1>3

\* A write ends, and nothing is written.
LEMMA EndKeeps ==
    ASSUME IInv, NEW c \in Calls, NEW outcome \in Outcomes \ {"none"}, Ends(c, outcome),
           UNCHANGED <<setting, file, seen, lines, outages, stops>>, st[c].pc \in Writing,
           (st[c].tool = "submit_answer" /\ outcome \in {"written", "remade", "already"}) =>
                [task |-> st[c].about, choice |-> st[c].choice] \in Recalled(file.profile)
    PROVE  IInv'
<1>1. /\ TypeOK /\ Placed(c) /\ BasesHold /\ setting' = setting
  BY DEF IInv
<1>2. PICK r \in CallStates :
             /\ Moves(c, r) /\ r.pc = "done" /\ r.outcome = outcome /\ r.told = st[c].told
             /\ r.base = st[c].base /\ r.read = st[c].read
             /\ r.tool = st[c].tool /\ r.about = st[c].about /\ r.choice = st[c].choice
             /\ r.passes = st[c].passes /\ r.lesson = st[c].lesson /\ r.after = st[c].after
             /\ pending' = [pending EXCEPT ![Home[c]] = @ \ {c}]
  BY <1>1, Ended
<1>3. st'[c] = r /\ OthersStay(c) /\ CallSame(c)
  BY <1>1, <1>2, MovesOne DEF CallSame
<1>4. Follows(c)'
  BY <1>1, <1>2, <1>3, FollowsOn
<1>5. Placed(c)'
  BY <1>1, <1>2, <1>3 DEF Placed, Unanswered, Writing
<1>6. /\ r.base <= file.number
      /\ (r.tool = "submit_answer" /\ Kept(c)') =>
            [task |-> r.about, choice |-> r.choice] \in Recalled(file.profile)
  BY <1>1, <1>2, <1>3 DEF BasesHold, Kept
<1>7. /\ r.pc \notin Writing /\ st[c].pc # "done"
      /\ r.pc \notin {"again", "decided", "save", "late"} /\ (st[c].told # "none" => r.told # "none")
  BY <1>2 DEF Writing
<1> QED
  BY <1>2, <1>3, <1>4, <1>5, <1>6, <1>7, QuietStep

\* A call that fails, or tries again, when Drive did not answer: its write, if it
\* made one, has landed or has not.
LEMMA OutageStep ==
    ASSUME IInv, NEW c \in Calls, NEW r \in CallStates, Moves(c, r), Fails,
           UNCHANGED <<setting, lines, stops>>,
           \/ file' = file /\ seen' = seen
           \/ st[c].pc \in {"save", "late"} /\ Holds(c) /\ Land(c),
           st[c].pc # "done", r.pc = "done" \/ (r.pc = "again" /\ st[c].pc = "late"),
           st[c].told # "none" => r.told # "none",
           r.outcome \in {"none", "failed"},
           r.base = st[c].base, r.read = st[c].read,
           r.tool = st[c].tool, r.about = st[c].about, r.choice = st[c].choice,
           r.passes = st[c].passes, r.lesson = st[c].lesson, r.after = st[c].after,
           Placed(c)',
           \/ pending' = pending /\ (r.pc \in Writing <=> st[c].pc \in Writing)
           \/ pending' = [pending EXCEPT ![Home[c]] = @ \ {c}] /\ r.pc = "done"
    PROVE  IInv'
<1>1. /\ TypeOK /\ st'[c] = r /\ OthersStay(c) /\ CallSame(c) /\ setting' = setting
      /\ Placed(c)
  BY MovesOne DEF IInv, CallSame
<1>2. /\ FileGoesOn /\ seen' \subseteq seen \cup {NameOf[c]}
      /\ NameOf[c] \in seen' => r.pc = "done"
  <2>1. NameOf[c] \notin seen
    BY DEF IInv, NamesAreNew
  <2>2. CASE file' = file /\ seen' = seen
    BY <2>1, <2>2, FileStays
  <2>3. CASE st[c].pc \in {"save", "late"} /\ Holds(c) /\ Land(c)
    <3>1. FileGoesOn /\ seen' \subseteq seen \cup (IF st[c].lateWrite THEN {} ELSE {NameOf[c]})
      BY <2>3, Landing
    <3>2. st[c].pc = "late" => st[c].lateWrite
      BY <1>1 DEF Placed, Writing
    <3> QED
      BY <2>1, <3>1, <3>2
  <2> QED
    BY <2>2, <2>3
<1>3. /\ lines' = lines /\ outages' = outages + 1 /\ outages' \in 0 .. setting.maxOutages
      /\ lines' \in [Ids -> Nat]
  <2>1. outages \in Nat /\ setting.maxOutages \in Nat /\ lines \in [Ids -> Nat]
    BY <1>1, Typed, SettingsAreKnown DEF TypeOK
  <2> QED
    BY <2>1 DEF Fails
<1>4. TypeOK'
  BY <1>1, <1>2, <1>3, StepTyped
<1>5. LinesAreFew' /\ LinesAreLeft'
  BY <1>1, <1>2, <1>3, LinesOutage
<1>6. Follows(c)'
  BY <1>1, FollowsOn
<1>7. st'[c].base <= file'.number
  <2>1. /\ st[c].base <= file.number /\ st[c].base \in Nat /\ file.number \in Nat
        /\ file'.number \in Nat
    BY <1>2, Typed DEF IInv, BasesHold, FileGoesOn, FileType, CallStates
  <2> QED
    BY <1>1, <1>2, <2>1 DEF FileGoesOn
<1>8. /\ st'[c].pc \notin {"decided", "save", "late"} /\ ~Kept(c)'
      /\ st[c].told # "none" => st'[c].told # "none"
  BY <1>1 DEF Kept
<1>9. \/ pending' = pending /\ (st'[c].pc \in Writing <=> st[c].pc \in Writing)
      \/ pending' = [pending EXCEPT ![Home[c]] =
                        IF st'[c].pc \in Writing THEN @ \cup {c} ELSE @ \ {c}]
  BY <1>1 DEF Writing
<1> QED
  BY <1>1, <1>2, <1>4, <1>5, <1>6, <1>7, <1>8, <1>9, ByOneCall

\* Drive is out of reach of a read.
LEMMA ReadFailsKeeps ==
    ASSUME IInv, NEW c \in Calls, ReadFails(c)
    PROVE  IInv'
<1>1. /\ TypeOK /\ Placed(c)
      /\ Fails /\ UNCHANGED <<setting, file, seen, lines, stops>>
  BY DEF IInv, ReadFails
<1>2. CASE st[c].pc \in {"load", "save"} /\ Tell(c, "failed") /\ UNCHANGED pending
  <2>1. PICK r \in CallStates :
             /\ Moves(c, r) /\ r.pc = "done" /\ r.told = "failed" /\ r.outcome = st[c].outcome
             /\ r.base = st[c].base /\ r.read = st[c].read
             /\ r.tool = st[c].tool /\ r.about = st[c].about /\ r.choice = st[c].choice
             /\ r.passes = st[c].passes /\ r.lesson = st[c].lesson /\ r.after = st[c].after
    BY <1>1, <1>2, Told DEF Tolds
  <2>2. st'[c] = r
    BY <1>1, <2>1, MovesOne
  <2>3. st[c].outcome = "none" /\ Placed(c)'
    BY <1>1, <1>2, <2>1, <2>2 DEF Placed, Unanswered, Writing
  <2>4. r.pc \in Writing <=> st[c].pc \in Writing
    BY <1>2, <2>1 DEF Writing
  <2> QED
    BY <1>1, <1>2, <2>1, <2>3, <2>4, OutageStep
<1>3. CASE st[c].pc = "again" /\ Ends(c, "failed")
  <2>1. PICK r \in CallStates :
             /\ Moves(c, r) /\ r.pc = "done" /\ r.outcome = "failed" /\ r.told = st[c].told
             /\ r.base = st[c].base /\ r.read = st[c].read
             /\ r.tool = st[c].tool /\ r.about = st[c].about /\ r.choice = st[c].choice
             /\ r.passes = st[c].passes /\ r.lesson = st[c].lesson /\ r.after = st[c].after
             /\ pending' = [pending EXCEPT ![Home[c]] = @ \ {c}]
    BY <1>1, <1>3, Ended DEF Outcomes
  <2>2. st'[c] = r
    BY <1>1, <2>1, MovesOne
  <2>3. Placed(c)'
    BY <1>1, <1>3, <2>1, <2>2 DEF Placed, Unanswered, Writing
  <2> QED
    BY <1>1, <1>3, <2>1, <2>3, OutageStep
<1> QED
  BY <1>2, <1>3 DEF ReadFails

\* Drive does not answer a write.
LEMMA UnavailableKeeps ==
    ASSUME IInv, NEW c \in Calls, Unavailable(c)
    PROVE  IInv'
<1>1. /\ TypeOK /\ Placed(c) /\ st[c] \in CallStates
      /\ Fails /\ UNCHANGED <<setting, lines, stops>>
      /\ (Holds(c) /\ Land(c)) \/ (file' = file /\ seen' = seen)
  BY Typed DEF IInv, Unavailable
<1>2. CASE st[c].pc = "save" /\ Tell(c, "failed") /\ UNCHANGED pending
  <2>1. PICK r \in CallStates :
             /\ Moves(c, r) /\ r.pc = "done" /\ r.told = "failed" /\ r.outcome = st[c].outcome
             /\ r.base = st[c].base /\ r.read = st[c].read
             /\ r.tool = st[c].tool /\ r.about = st[c].about /\ r.choice = st[c].choice
             /\ r.passes = st[c].passes /\ r.lesson = st[c].lesson /\ r.after = st[c].after
    BY <1>1, <1>2, Told DEF Tolds
  <2>2. st'[c] = r
    BY <1>1, <2>1, MovesOne
  <2>3. st[c].outcome = "none" /\ Placed(c)'
    BY <1>1, <1>2, <2>1, <2>2 DEF Placed, Unanswered, Writing
  <2>4. r.pc \in Writing <=> st[c].pc \in Writing
    BY <1>2, <2>1 DEF Writing
  <2> QED
    BY <1>1, <1>2, <2>1, <2>3, <2>4, OutageStep
<1>3. CASE st[c].pc = "late" /\ Ends(c, "failed")
  <2>1. PICK r \in CallStates :
             /\ Moves(c, r) /\ r.pc = "done" /\ r.outcome = "failed" /\ r.told = st[c].told
             /\ r.base = st[c].base /\ r.read = st[c].read
             /\ r.tool = st[c].tool /\ r.about = st[c].about /\ r.choice = st[c].choice
             /\ r.passes = st[c].passes /\ r.lesson = st[c].lesson /\ r.after = st[c].after
             /\ pending' = [pending EXCEPT ![Home[c]] = @ \ {c}]
    BY <1>1, <1>3, Ended DEF Outcomes
  <2>2. st'[c] = r
    BY <1>1, <2>1, MovesOne
  <2>3. Placed(c)'
    BY <1>1, <1>3, <2>1, <2>2 DEF Placed, Unanswered, Writing
  <2> QED
    BY <1>1, <1>3, <2>1, <2>3, OutageStep
<1>4. CASE /\ st[c].pc = "late" /\ UNCHANGED pending
           /\ Moves(c, [st[c] EXCEPT !.pc = "again", !.tries = @ + 1, !.mayHaveLanded = TRUE])
  <2>. DEFINE n == st[c].tries + 1
              r == [st[c] EXCEPT !.pc = "again", !.tries = n, !.mayHaveLanded = TRUE]
  <2>1. n \in Nat
    BY <1>1 DEF CallStates
  <2>2. /\ r \in CallStates /\ r.pc = "again" /\ r.outcome = st[c].outcome /\ r.told = st[c].told
        /\ r.base = st[c].base /\ r.read = st[c].read /\ r.lateWrite = st[c].lateWrite
        /\ r.tool = st[c].tool /\ r.about = st[c].about /\ r.choice = st[c].choice
        /\ r.passes = st[c].passes /\ r.lesson = st[c].lesson /\ r.after = st[c].after
    <3>. HIDE DEF n
    <3> QED
      BY <1>1, <2>1 DEF CallStates, Places
  <2>3. Moves(c, r)
    BY <1>4
  <2>. HIDE DEF r
  <2>4. st'[c] = r
    BY <1>1, <2>2, <2>3, MovesOne
  <2>5. st[c].outcome = "none" /\ Placed(c)'
    BY <1>1, <1>4, <2>2, <2>4 DEF Placed, Unanswered, Writing
  <2>6. r.pc \in Writing <=> st[c].pc \in Writing
    BY <1>4, <2>2 DEF Writing
  <2> QED
    BY <1>1, <1>4, <2>2, <2>3, <2>5, <2>6, OutageStep
<1> QED
  BY <1>2, <1>3, <1>4 DEF Unavailable

\* A write is out of its time.
LEMMA OutOfTimeKeeps ==
    ASSUME IInv, NEW c \in Calls, OutOfTime(c)
    PROVE  IInv'
<1>1. /\ TypeOK /\ Placed(c) /\ st[c].pc = "late" /\ Ends(c, "failed")
      /\ Fails /\ UNCHANGED <<setting, lines, stops>>
      /\ (Holds(c) /\ Land(c)) \/ (file' = file /\ seen' = seen)
  BY DEF IInv, OutOfTime
<1>2. PICK r \in CallStates :
             /\ Moves(c, r) /\ r.pc = "done" /\ r.outcome = "failed" /\ r.told = st[c].told
             /\ r.base = st[c].base /\ r.read = st[c].read
             /\ r.tool = st[c].tool /\ r.about = st[c].about /\ r.choice = st[c].choice
             /\ r.passes = st[c].passes /\ r.lesson = st[c].lesson /\ r.after = st[c].after
             /\ pending' = [pending EXCEPT ![Home[c]] = @ \ {c}]
  BY <1>1, Ended DEF Outcomes
<1>3. st'[c] = r
  BY <1>1, <1>2, MovesOne
<1>4. Placed(c)'
  BY <1>1, <1>2, <1>3 DEF Placed, Unanswered, Writing
<1> QED
  BY <1>1, <1>2, <1>4, OutageStep

\* A write that lands, and ends its call.
LEMMA LandStep ==
    ASSUME IInv, NEW c \in Calls, NEW r \in CallStates, Moves(c, r),
           st[c].pc \in {"save", "late"}, Holds(c), Land(c),
           UNCHANGED <<setting, outages, stops>>, lines' \in [Ids -> Nat],
           r.pc = "done", st[c].told # "none" => r.told # "none",
           r.base = st[c].base, r.read = st[c].read,
           r.tool = st[c].tool, r.about = st[c].about, r.choice = st[c].choice,
           r.passes = st[c].passes, r.lesson = st[c].lesson, r.after = st[c].after,
           \/ pending' = pending /\ st[c].pc \notin Writing
           \/ pending' = [pending EXCEPT ![Home[c]] = @ \ {c}],
           Placed(c)',
           (r.tool = "submit_answer" /\ Kept(c)') =>
                [task |-> r.about, choice |-> r.choice] \in Recalled(file'.profile),
           LinesAreFew', LinesAreLeft'
    PROVE  IInv'
<1>1. /\ TypeOK /\ st'[c] = r /\ OthersStay(c) /\ CallSame(c) /\ setting' = setting
      /\ outages' \in 0 .. setting.maxOutages
  BY MovesOne DEF IInv, CallSame, TypeOK
<1>2. /\ FileGoesOn /\ file'.number = file.number + 1
      /\ seen' \subseteq seen \cup {NameOf[c]}
  BY Landing
<1>3. TypeOK'
  BY <1>1, <1>2, StepTyped
<1>4. Follows(c)'
  BY <1>1, FollowsOn
<1>5. st'[c].base <= file'.number
  <2>1. st[c].base <= file.number /\ st[c].base \in Nat /\ file.number \in Nat
    BY Typed DEF IInv, BasesHold, CallStates
  <2> QED
    BY <1>1, <1>2, <2>1
<1>6. \/ pending' = pending /\ (st'[c].pc \in Writing <=> st[c].pc \in Writing)
      \/ pending' = [pending EXCEPT ![Home[c]] =
                        IF st'[c].pc \in Writing THEN @ \cup {c} ELSE @ \ {c}]
  BY <1>1 DEF Writing
<1>7. /\ st'[c].pc \notin {"decided", "save", "late"} /\ (NameOf[c] \in seen' => st'[c].pc = "done")
      /\ (st'[c].tool = "submit_answer" /\ Kept(c)') =>
            [task |-> st'[c].about, choice |-> st'[c].choice] \in Recalled(file'.profile)
      /\ st[c].told # "none" => st'[c].told # "none"
      /\ st[c].pc # "done"
  BY <1>1
<1> QED
  BY <1>1, <1>2, <1>3, <1>4, <1>5, <1>6, <1>7, ByOneCall

\* A call writes before it answers, or reads once more what moved on.
LEMMA SaveKeeps ==
    ASSUME IInv, NEW c \in Calls, Save(c)
    PROVE  IInv'
<1>1. /\ TypeOK /\ Placed(c) /\ st[c] \in CallStates /\ st[c].pc = "save"
      /\ UNCHANGED <<setting, lines, outages, stops>> /\ pending' = pending /\ setting' = setting
      /\ lines \in [Ids -> Nat] /\ Home[c] \in Instances /\ BasesHold
  BY Typed DEF IInv, Save
<1>2. st[c].told = "none" /\ st[c].outcome = "none" /\ st[c].tool # "submit_answer"
  BY <1>1 DEF Placed, Unanswered
<1>3. CASE Holds(c) /\ Land(c) /\ Tell(c, "ok")
  <2>1. PICK r \in CallStates :
             /\ Moves(c, r) /\ r.pc = "done" /\ r.told = "ok" /\ r.outcome = st[c].outcome
             /\ r.base = st[c].base /\ r.read = st[c].read
             /\ r.tool = st[c].tool /\ r.about = st[c].about /\ r.choice = st[c].choice
             /\ r.passes = st[c].passes /\ r.lesson = st[c].lesson /\ r.after = st[c].after
    BY <1>1, <1>3, Told DEF Tolds
  <2>2. st'[c] = r /\ OthersStay(c)
    BY <1>1, <2>1, MovesOne
  <2>3. Placed(c)'
    BY <1>1, <1>2, <2>1, <2>2 DEF Placed, Unanswered, Writing
  <2>4. FileGoesOn /\ Grows(file.profile, file'.profile)
    BY <1>1, <1>2, <1>3, Landing DEF WritesWell
  <2>5. LinesAreFew' /\ LinesAreLeft'
    BY <1>1, <2>1, <2>2, <2>4, LinesStay
  <2>6. st[c].pc \notin Writing
    BY <1>1 DEF Writing
  <2> QED
    BY <1>1, <1>2, <1>3, <2>1, <2>3, <2>5, <2>6, LandStep
<1>4. CASE /\ UNCHANGED <<file, seen>>
           /\ Moves(c, [st[c] EXCEPT !.pc = "load", !.tries = @ + 1, !.waits = Begun(c)])
  <2>. DEFINE n == st[c].tries + 1
              r == [st[c] EXCEPT !.pc = "load", !.tries = n, !.waits = Begun(c)]
  <2>1. n \in Nat /\ Begun(c) \in SUBSET Calls
    BY <1>1 DEF CallStates, TypeOK, Begun
  <2>2. /\ r \in CallStates /\ r.pc = "load" /\ r.outcome = st[c].outcome /\ r.told = st[c].told
        /\ r.base = st[c].base /\ r.read = st[c].read /\ r.waits = Begun(c)
        /\ r.tool = st[c].tool /\ r.about = st[c].about /\ r.choice = st[c].choice
        /\ r.passes = st[c].passes /\ r.lesson = st[c].lesson /\ r.after = st[c].after
    <3>. HIDE DEF n
    <3> QED
      BY <1>1, <2>1 DEF CallStates, Places
  <2>3. Moves(c, r)
    BY <1>4
  <2>. HIDE DEF r
  <2>4. st'[c] = r /\ OthersStay(c) /\ CallSame(c)
    BY <1>1, <2>2, <2>3, MovesOne DEF CallSame
  <2>5. Placed(c)'
    BY <1>1, <1>2, <2>2, <2>4 DEF Placed, Unanswered, Writing
  <2>6. Follows(c)'
    BY <1>1, <2>2, <2>4, FollowsOn
  <2>7. /\ r.pc \in Writing <=> st[c].pc \in Writing
        /\ r.pc \notin {"decided", "save", "late", "again"} /\ st[c].pc # "done"
        /\ r.base <= file.number /\ r.tool # "submit_answer" /\ st[c].told = "none"
    BY <1>1, <1>2, <2>2 DEF Writing, BasesHold
  <2> QED
    BY <1>1, <1>4, <2>2, <2>3, <2>4, <2>5, <2>6, <2>7, QuietStep
<1>5. CASE Tell(c, "conflict") /\ UNCHANGED <<file, seen>>
  <2>1. PICK r \in CallStates :
             /\ Moves(c, r) /\ r.pc = "done" /\ r.told = "conflict" /\ r.outcome = st[c].outcome
             /\ r.base = st[c].base /\ r.read = st[c].read
             /\ r.tool = st[c].tool /\ r.about = st[c].about /\ r.choice = st[c].choice
             /\ r.passes = st[c].passes /\ r.lesson = st[c].lesson /\ r.after = st[c].after
    BY <1>1, <1>5, Told DEF Tolds
  <2>2. st'[c] = r /\ OthersStay(c) /\ CallSame(c)
    BY <1>1, <2>1, MovesOne DEF CallSame
  <2>3. Placed(c)'
    BY <1>1, <1>2, <2>1, <2>2 DEF Placed, Unanswered, Writing
  <2>4. Follows(c)'
    BY <1>1, <2>1, <2>2, FollowsOn
  <2>5. /\ r.pc \in Writing <=> st[c].pc \in Writing
        /\ r.pc \notin {"decided", "save", "late", "again"} /\ st[c].pc # "done"
        /\ r.base <= file.number /\ r.tool # "submit_answer" /\ st[c].told = "none"
    BY <1>1, <1>2, <2>1 DEF Writing, BasesHold
  <2> QED
    BY <1>1, <1>5, <2>1, <2>2, <2>3, <2>4, <2>5, QuietStep
<1> QED
  BY <1>3, <1>4, <1>5 DEF Save

\* A write after the answer lands, or its profile moved on.
LEMMA LandLateKeeps ==
    ASSUME IInv, NEW c \in Calls, LandLate(c)
    PROVE  IInv'
<1>1. /\ TypeOK /\ Placed(c) /\ st[c] \in CallStates /\ st[c].pc = "late" /\ BasesHold
      /\ UNCHANGED <<setting, outages, stops>> /\ setting' = setting
      /\ lines \in [Ids -> Nat] /\ Home[c] \in Instances
  BY Typed DEF IInv, LandLate
<1>2. st[c].told = "ok" /\ st[c].outcome = "none" /\ st[c].about \in Ids /\ st[c].pc \in Writing
  BY <1>1 DEF Placed, Unanswered, Writing, CallStates
<1>3. CASE Holds(c) /\ Land(c) /\ Leaves(c) /\ Ends(c, ByNow(c))
  <2>1. PICK r \in CallStates :
             /\ Moves(c, r) /\ r.pc = "done" /\ r.outcome = ByNow(c) /\ r.told = st[c].told
             /\ r.base = st[c].base /\ r.read = st[c].read
             /\ r.tool = st[c].tool /\ r.about = st[c].about /\ r.choice = st[c].choice
             /\ r.passes = st[c].passes /\ r.lesson = st[c].lesson /\ r.after = st[c].after
             /\ pending' = [pending EXCEPT ![Home[c]] = @ \ {c}]
    BY <1>1, <1>3, Ended DEF Outcomes, ByNow
  <2>2. st'[c] = r /\ OthersStay(c)
    BY <1>1, <2>1, MovesOne
  <2>3. ByNow(c) # "none" /\ Placed(c)'
    BY <1>1, <1>2, <2>1, <2>2 DEF Placed, Unanswered, Writing, ByNow
  <2>4. /\ FileGoesOn /\ file'.profile = st[c].put
        /\ WritesWell(c, st[c].put, st[c].lateWrite)
    BY <1>1, <1>3, Landing
  <2>5. CASE st[c].tool = "submit_answer"
    <3>1. /\ InFlight(file.profile) /\ file.profile.task.id = st[c].about
          /\ file'.profile = Apply(file.profile, st[c].choice)
          /\ st[c].choice \in AnswerChoices
      BY <1>1, <2>4, <2>5 DEF WritesWell, CallStates
    <3>2. lines' = [lines EXCEPT ![st[c].about] = @ + 1] /\ lines' \in [Ids -> Nat]
      BY <1>1, <1>2, <1>3, <2>5 DEF Leaves
    <3>3. /\ Recalled(file'.profile) =
                Recalled(file.profile) \cup {[task |-> st[c].about, choice |-> st[c].choice]}
          /\ st[c].about \notin Behind(file.profile)
      BY <3>1, ApplyFine DEF IInv
    <3>4. LinesAreFew' /\ LinesAreLeft'
      BY <1>1, <1>2, <2>1, <2>2, <2>4, <3>2, <3>3, LinesLeft
    <3>5. [task |-> r.about, choice |-> r.choice] \in Recalled(file'.profile)
      BY <2>1, <3>3
    <3> QED
      BY <1>1, <1>3, <2>1, <2>3, <3>2, <3>4, <3>5, LandStep
  <2>6. CASE st[c].tool # "submit_answer"
    <3>1. lines' = lines /\ lines' \in [Ids -> Nat]
      BY <1>1, <1>3, <2>6 DEF Leaves
    <3>2. Grows(file.profile, file'.profile)
      BY <2>4, <2>6 DEF WritesWell
    <3>3. LinesAreFew' /\ LinesAreLeft'
      BY <1>1, <2>1, <2>2, <2>4, <3>1, <3>2, LinesStay
    <3> QED
      BY <1>1, <1>3, <2>1, <2>3, <2>6, <3>1, <3>3, LandStep
  <2> QED
    BY <2>5, <2>6
<1>4. CASE Ends(c, "failed") /\ UNCHANGED <<file, seen, lines>>
  BY <1>1, <1>2, <1>4, EndKeeps DEF Outcomes
<1>5. CASE /\ Moves(c, [st[c] EXCEPT !.pc = "again", !.tries = @ + 1, !.mayHaveLanded = FALSE])
           /\ UNCHANGED <<file, seen, pending, lines>>
  <2>. DEFINE n == st[c].tries + 1
              r == [st[c] EXCEPT !.pc = "again", !.tries = n, !.mayHaveLanded = FALSE]
  <2>1. n \in Nat
    BY <1>1 DEF CallStates
  <2>2. /\ r \in CallStates /\ r.pc = "again" /\ r.outcome = st[c].outcome /\ r.told = st[c].told
        /\ r.base = st[c].base /\ r.read = st[c].read /\ r.lateWrite = st[c].lateWrite
        /\ r.tool = st[c].tool /\ r.about = st[c].about /\ r.choice = st[c].choice
        /\ r.passes = st[c].passes /\ r.lesson = st[c].lesson /\ r.after = st[c].after
        /\ ~r.mayHaveLanded
    <3>. HIDE DEF n
    <3> QED
      BY <1>1, <2>1 DEF CallStates, Places
  <2>3. Moves(c, r)
    BY <1>5
  <2>. HIDE DEF r
  <2>4. st'[c] = r /\ OthersStay(c) /\ CallSame(c)
    BY <1>1, <2>2, <2>3, MovesOne DEF CallSame
  <2>5. Placed(c)' /\ ~Kept(c)'
    BY <1>1, <1>2, <2>2, <2>4 DEF Placed, Unanswered, Writing, Kept
  <2>6. Follows(c)'
    BY <1>1, <2>2, <2>4, FollowsOn
  <2>7. /\ r.pc \in Writing <=> st[c].pc \in Writing
        /\ r.pc \notin {"decided", "save", "late"} /\ st[c].pc # "done"
        /\ r.base <= file.number /\ r.told # "none"
    BY <1>1, <1>2, <2>2 DEF Writing, BasesHold
  <2> QED
    BY <1>1, <1>5, <2>2, <2>3, <2>4, <2>5, <2>6, <2>7, QuietStep
<1> QED
  BY <1>3, <1>4, <1>5 DEF LandLate

\* The profile is read again, and the write made again on it.
LEMMA ReadAgainKeeps ==
    ASSUME IInv, NEW c \in Calls, ReadAgain(c)
    PROVE  IInv'
<1>1. /\ TypeOK /\ Placed(c) /\ st[c] \in CallStates /\ st[c].pc = "again" /\ BasesHold
      /\ UNCHANGED <<setting, file, seen, outages, stops>> /\ setting' = setting
      /\ lines \in [Ids -> Nat] /\ Home[c] \in Instances /\ NameOf[c] \notin seen
      /\ Fine(file.profile, seen, 0) /\ FileGoesOn /\ file.number \in Nat
  BY Typed, FileStays DEF IInv, ReadAgain, NamesAreNew
<1>2. /\ st[c].told = "ok" /\ st[c].outcome = "none" /\ st[c].about \in Ids /\ st[c].pc \in Writing
      /\ st[c].lateWrite /\ st[c].base > 0
  BY <1>1 DEF Placed, Unanswered, Writing, CallStates
<1>3. CASE Ends(c, "lost") /\ UNCHANGED lines
  BY <1>1, <1>2, <1>3, EndKeeps DEF Outcomes
<1>4. CASE MadeAgain(c, file.profile) = "already" /\ Ends(c, ByNow(c)) /\ Leaves(c) /\ Own(c)
  <2>1. PICK r \in CallStates :
             /\ Moves(c, r) /\ r.pc = "done" /\ r.outcome = ByNow(c) /\ r.told = st[c].told
             /\ r.base = st[c].base /\ r.read = st[c].read
             /\ r.tool = st[c].tool /\ r.about = st[c].about /\ r.choice = st[c].choice
             /\ r.passes = st[c].passes /\ r.lesson = st[c].lesson /\ r.after = st[c].after
             /\ pending' = [pending EXCEPT ![Home[c]] = @ \ {c}]
    BY <1>1, <1>4, Ended DEF Outcomes, ByNow
  <2>2. st'[c] = r /\ OthersStay(c) /\ CallSame(c)
    BY <1>1, <2>1, MovesOne DEF CallSame
  <2>3. ByNow(c) # "none" /\ Placed(c)'
    BY <1>1, <1>2, <2>1, <2>2 DEF Placed, Unanswered, Writing, ByNow
  <2>4. Follows(c)'
    BY <1>1, <2>1, <2>2, FollowsOn
  <2>5. c \in Unheard
    BY <1>1, <1>4 DEF Unheard, Own
  <2>6. LinesAreFew' /\ LinesAreLeft' /\ lines' \in [Ids -> Nat]
    <3>1. CASE st[c].tool = "submit_answer"
      <4>1. lines' = [lines EXCEPT ![st[c].about] = @ + 1]
        BY <1>4, <3>1 DEF Leaves
      <4>2. ~(st'[c].pc = "again" /\ st'[c].mayHaveLanded) /\ file' = file /\ outages' = outages
        BY <1>1, <2>1, <2>2
      <4>3. lines' \in [Ids -> Nat]
        BY <1>1, <1>2, <4>1
      <4> QED
        BY <1>2, <2>2, <2>5, <4>1, <4>2, <4>3, LinesOwn
    <3>2. CASE st[c].tool # "submit_answer"
      <4>1. lines' = lines /\ Grows(file.profile, file'.profile)
        BY <1>1, <1>4, <3>2 DEF Leaves, Grows
      <4> QED
        BY <1>1, <2>1, <2>2, <4>1, LinesStay
    <3> QED
      BY <3>1, <3>2
  <2>7. TypeOK'
    <3>1. outages' \in 0 .. setting.maxOutages
      BY <1>1 DEF TypeOK
    <3> QED
      BY <1>1, <2>1, <2>6, <3>1, StepTyped
  <2>8. (st'[c].tool = "submit_answer" /\ Kept(c)') =>
            [task |-> st'[c].about, choice |-> st'[c].choice] \in Recalled(file'.profile)
    <3>1. SUFFICES ASSUME st[c].tool = "submit_answer"
                   PROVE  [task |-> st[c].about, choice |-> st[c].choice] \in Recalled(file.profile)
      BY <1>1, <2>1, <2>2
    <3>2. /\ file.profile.task # None /\ file.profile.task.id = st[c].about
          /\ file.profile.task.answered = st[c].choice /\ file.profile.task.answered # NoAnswer
      BY <1>4, <3>1 DEF MadeAgain, RecordAgain
    <3>3. Recorded(file.profile)
      BY <1>1 DEF Fine
    <3> QED
      BY <3>2, <3>3 DEF Recorded, InFlight
  <2>9. /\ st'[c].base <= file'.number
        /\ st'[c].pc \notin {"decided", "save", "late"} /\ st[c].pc # "done"
        /\ st'[c].told # "none" /\ seen' \subseteq seen \cup {NameOf[c]} /\ NameOf[c] \notin seen'
        /\ pending' = [pending EXCEPT ![Home[c]] =
                        IF st'[c].pc \in Writing THEN @ \cup {c} ELSE @ \ {c}]
    BY <1>1, <1>2, <2>1, <2>2 DEF BasesHold, Writing
  <2> QED
    BY <1>1, <2>2, <2>3, <2>4, <2>6, <2>7, <2>8, <2>9, ByOneCall
<1>5. CASE MadeAgain(c, file.profile) = "already" /\ Ends(c, "already") /\ UNCHANGED lines
  <2>1. ASSUME st[c].tool = "submit_answer"
        PROVE  [task |-> st[c].about, choice |-> st[c].choice] \in Recalled(file.profile)
    <3>1. /\ file.profile.task # None /\ file.profile.task.id = st[c].about
          /\ file.profile.task.answered = st[c].choice /\ file.profile.task.answered # NoAnswer
      BY <1>5, <2>1 DEF MadeAgain, RecordAgain
    <3>2. Recorded(file.profile)
      BY <1>1 DEF Fine
    <3> QED
      BY <3>1, <3>2 DEF Recorded, InFlight
  <2> QED
    BY <1>1, <1>2, <1>5, <2>1, EndKeeps DEF Outcomes
<1>6. CASE /\ file.here /\ MadeAgain(c, file.profile) = "changed"
           /\ Moves(c, [st[c] EXCEPT !.pc = "late", !.base = file.number,
                                     !.put = PutAgain(c, file.profile), !.remade = TRUE])
           /\ UNCHANGED <<pending, lines>>
  <2>. DEFINE q == PutAgain(c, file.profile)
              r == [st[c] EXCEPT !.pc = "late", !.base = file.number, !.put = q, !.remade = TRUE]
  <2>1. Remakes(c, file.profile, q)
    BY <1>6 DEF Remakes, MadeAgain, RecordAgain, HandOutAgain, PutAgain, InFlight
  <2>2. q \in Profiles
    <3>1. WritesWell(c, q, TRUE)
      BY <1>1, <2>1, RemadeWell
    <3> QED
      BY <3>1 DEF WritesWell, Fine, Sound
  <2>3. /\ r \in CallStates /\ r.pc = "late" /\ r.outcome = st[c].outcome /\ r.told = st[c].told
        /\ r.base = file.number /\ r.read = st[c].read /\ r.put = q /\ r.lateWrite = st[c].lateWrite
        /\ r.tool = st[c].tool /\ r.about = st[c].about /\ r.choice = st[c].choice
        /\ r.passes = st[c].passes /\ r.lesson = st[c].lesson /\ r.after = st[c].after
    <3>. HIDE DEF q
    <3> QED
      BY <1>1, <2>2 DEF CallStates, Places
  <2>4. Moves(c, r)
    BY <1>6
  <2>. HIDE DEF r, q
  <2>5. st'[c] = r /\ OthersStay(c) /\ CallSame(c)
    BY <1>1, <2>3, <2>4, MovesOne DEF CallSame
  <2>6. Placed(c)' /\ ~Kept(c)'
    BY <1>1, <1>2, <2>3, <2>5 DEF IInv, Placed, Unanswered, Writing, Kept
  <2>7. Follows(c)'
    BY <1>1, <1>2, <2>3, <2>5, FollowsOn
  <2>8. Rightly(c)'
    BY <1>1, <1>2, <2>1, <2>3, <2>5 DEF Rightly, Remakes
  <2>9. /\ r.pc \in Writing <=> st[c].pc \in Writing
        /\ st[c].pc # "done" /\ r.pc # "again"
        /\ r.base <= file.number /\ r.told # "none"
    BY <1>1, <1>2, <2>3 DEF Writing, BasesHold
  <2> QED
    BY <1>1, <1>6, <2>3, <2>4, <2>5, <2>6, <2>7, <2>8, <2>9, QuietStep
<1> QED
  BY <1>3, <1>4, <1>5, <1>6 DEF ReadAgain

\* An instance stops, with the calls on it and their writes.
LEMMA StopKeeps ==
    ASSUME IInv, NEW i \in Instances, Stop(i)
    PROVE  IInv'
<1>. DEFINE Cut(c) == Home[c] = i /\ st[c].pc \notin {"idle", "done"}
            left(c) == [st[c] EXCEPT !.pc = "done",
                                     !.told = IF @ = "none" THEN "failed" ELSE @,
                                     !.outcome = IF st[c].told = "none" THEN "none" ELSE "failed"]
<1>1. /\ TypeOK /\ Pends /\ Home' = Home /\ stops' = stops + 1 /\ stops < setting.maxStops
      /\ UNCHANGED <<setting, file, seen, lines, outages>>
      /\ pending' = [pending EXCEPT ![i] = {}]
      /\ st' = [c \in Calls |-> IF Cut(c) THEN left(c) ELSE st[c]]
  BY DEF IInv, Stop, Home
<1>2. /\ \A c \in Calls : Home[c] \in Instances /\ st[c] \in CallStates /\ Placed(c)
      /\ setting \in Settings /\ setting.maxStops \in Nat
      /\ pending \in [Instances -> SUBSET Calls] /\ FileGoesOn
      /\ file.number \in Nat
  BY <1>1, Typed, SettingsAreKnown, FileStays DEF IInv, TypeOK
<1>3. ASSUME NEW c \in Calls, Cut(c)
      PROVE  /\ left(c) \in CallStates /\ left(c).pc = "done"
             /\ left(c).told = IF st[c].told = "none" THEN "failed" ELSE st[c].told
             /\ left(c).outcome = IF st[c].told = "none" THEN "none" ELSE "failed"
             /\ left(c).base = st[c].base /\ left(c).read = st[c].read
             /\ left(c).tool = st[c].tool /\ left(c).about = st[c].about
             /\ left(c).choice = st[c].choice /\ left(c).after = st[c].after
  <2>1. st[c] \in CallStates
    BY <1>2
  <2>2. left(c) \in CallStates
    <3>. DEFINE told == IF st[c].told = "none" THEN "failed" ELSE st[c].told
                outcome == IF st[c].told = "none" THEN "none" ELSE "failed"
    <3>1. told \in Tolds /\ outcome \in Outcomes
      BY <2>1 DEF CallStates, Tolds, Outcomes
    <3>2. left(c) = [st[c] EXCEPT !.pc = "done", !.told = told, !.outcome = outcome]
      BY <2>1 DEF CallStates
    <3>. HIDE DEF told, outcome
    <3>3. [st[c] EXCEPT !.pc = "done", !.told = told, !.outcome = outcome] \in CallStates
      BY <2>1, <3>1 DEF CallStates, Places
    <3> QED
      BY <3>2, <3>3
  <2> QED
    BY <2>1, <2>2 DEF CallStates
<1>. HIDE DEF left
<1>4. ASSUME NEW c \in Calls
      PROVE  /\ st'[c] \in CallStates
             /\ st'[c] = st[c] \/ (Cut(c) /\ st'[c].pc = "done")
             /\ st'[c].tool = st[c].tool /\ st'[c].about = st[c].about
             /\ st'[c].choice = st[c].choice /\ st'[c].after = st[c].after
             /\ st'[c].base = st[c].base /\ st'[c].read = st[c].read
             /\ st[c].told # "none" => st'[c].told # "none"
             /\ st'[c].outcome # "failed" => st'[c].outcome = st[c].outcome
  <2>1. CASE Cut(c)
    <3>1. st'[c] = left(c)
      BY <1>1, <2>1
    <3>2. st[c].told = "none" => st[c].outcome = "none"
      BY <1>2 DEF Placed
    <3> QED
      BY <1>3, <2>1, <3>1, <3>2
  <2>2. CASE ~Cut(c)
    BY <1>1, <1>2, <2>2
  <2> QED
    BY <2>1, <2>2
<1>5. TypeOK'
  <2>1. pending' \in [Instances -> SUBSET Calls]
    BY <1>1, <1>2
  <2>2. stops' \in 0 .. setting.maxStops
    BY <1>1, <1>2 DEF TypeOK
  <2>3. st' \in [Calls -> CallStates]
    BY <1>1, <1>4
  <2> QED
    BY <1>1, <2>1, <2>2, <2>3 DEF TypeOK
<1>6. \A c \in Calls : Placed(c)'
  <2>1. SUFFICES ASSUME NEW c \in Calls
                 PROVE  Placed(c)'
    OBVIOUS
  <2>2. CASE st'[c] = st[c]
    BY <1>2, <2>2 DEF Placed
  <2>3. CASE Cut(c)
    <3>1. st'[c] = left(c)
      BY <1>1, <2>3
    <3>2. st[c].told # "none" => st[c].told = "ok"
      <4>1. st[c].pc \in Places
        BY <1>2 DEF CallStates
      <4> QED
        BY <1>2, <2>3, <4>1 DEF Placed, Unanswered, Writing, Places
    <3> QED
      BY <1>2, <1>3, <2>3, <3>1, <3>2 DEF Placed, Unanswered, Writing
  <2> QED
    BY <1>4, <2>2, <2>3
<1>7. Pends'
  <2>1. SUFFICES ASSUME NEW j \in Instances
                 PROVE  pending'[j] = {c \in Calls : Home[c] = j /\ st'[c].pc \in Writing}
    BY <1>1 DEF Pends, Home
  <2>2. pending[j] = {c \in Calls : Home[c] = j /\ st[c].pc \in Writing}
    BY <1>1 DEF Pends
  <2>3. CASE j = i
    <3>1. \A c \in Calls : Home[c] = i => st'[c].pc \notin Writing
      <4>1. SUFFICES ASSUME NEW c \in Calls, Home[c] = i
                     PROVE  st'[c].pc \notin Writing
        OBVIOUS
      <4>2. CASE Cut(c)
        BY <1>1, <1>3, <4>2 DEF Writing
      <4>3. CASE ~Cut(c)
        BY <1>1, <4>1, <4>3 DEF Writing
      <4> QED
        BY <4>2, <4>3
    <3>2. pending'[i] = {}
      BY <1>1, <1>2
    <3> QED
      BY <2>3, <3>1, <3>2
  <2>4. CASE j # i
    <3>1. \A c \in Calls : Home[c] = j => st'[c] = st[c]
      BY <1>1, <2>4
    <3>2. pending'[j] = pending[j]
      BY <1>1, <1>2, <2>4
    <3> QED
      BY <2>2, <3>1, <3>2
  <2> QED
    BY <2>3, <2>4
<1>8. NamesAreNew'
  BY <1>1, <1>4 DEF IInv, NamesAreNew
<1>9. BasesHold'
  <2>1. SUFFICES ASSUME NEW c \in Calls
                 PROVE  /\ st'[c].base <= file.number
                        /\ (st'[c].pc \in {"decided", "save", "late"} /\ Holds(c)') => Rightly(c)'
    BY <1>1 DEF BasesHold
  <2>2. st'[c].base <= file.number
    BY <1>4 DEF IInv, BasesHold
  <2>3. ASSUME st'[c].pc \in {"decided", "save", "late"}, Holds(c)'
        PROVE  Rightly(c)'
    <3>1. st'[c] = st[c] /\ file' = file
      BY <1>1, <1>4, <2>3
    <3>2. Holds(c)
      BY <2>3, <3>1 DEF Holds
    <3>3. Rightly(c)
      BY <2>3, <3>1, <3>2 DEF IInv, BasesHold
    <3> QED
      BY <3>1, <3>3
      DEF Rightly, Decision, Answering, Asking, Preparing, HandingIn, Editing, Remakes
  <2> QED
    BY <2>2, <2>3
<1>10. SaidIsRecalled'
  BY <1>1, <1>4 DEF IInv, SaidIsRecalled, Kept
<1>11. \A c \in Calls : Follows(c)'
  <2>1. SUFFICES ASSUME NEW c \in Calls, NEW d \in st[c].after
                 PROVE  /\ Home[d] = Home[c] /\ st'[d].told # "none"
                        /\ (st'[c].pc = "load" /\ st'[d].pc \in Writing) => d \in st'[c].waits
                        /\ st'[c].base > 0 => st'[d].pc = "done"
                        /\ (st'[c].base > 0 /\ st'[d].tool = "submit_answer" /\ st'[d].outcome \in {"written", "remade"}) =>
                                st'[d].about \in Behind(st'[c].read)
    BY <1>1, <1>4 DEF Follows, Home
  <2>2. d \in Calls
    BY <1>2 DEF CallStates
  <2>3. /\ Home[d] = Home[c] /\ st[d].told # "none"
        /\ (st[c].pc = "load" /\ st[d].pc \in Writing) => d \in st[c].waits
        /\ st[c].base > 0 => st[d].pc = "done"
        /\ (st[c].base > 0 /\ st[d].tool = "submit_answer" /\ st[d].outcome \in {"written", "remade"}) =>
                st[d].about \in Behind(st[c].read)
    BY DEF IInv, Follows
  <2>4. ASSUME st'[c].pc = "load", st'[d].pc \in Writing
        PROVE  d \in st'[c].waits
    <3>1. st'[c] = st[c] /\ st'[d] = st[d]
      BY <1>4, <2>2, <2>4 DEF Writing
    <3> QED
      BY <2>3, <2>4, <3>1
  <2>5. st[d].pc = "done" => st'[d] = st[d]
    BY <1>4, <2>2
  <2> QED
    BY <1>4, <2>2, <2>3, <2>4, <2>5
<1>12. LinesAreFew' /\ LinesAreLeft'
  <2>1. Unheard' \subseteq Unheard
    <3>1. \A c \in Calls : st'[c].pc = "again" => st'[c] = st[c]
      BY <1>4
    <3> QED
      BY <3>1 DEF Unheard
  <2>2. /\ Cardinality(Unheard) \in Nat /\ Cardinality(Unheard') \in Nat
        /\ Cardinality(Unheard') <= Cardinality(Unheard)
    <3>1. IsFiniteSet(Unheard)
      BY CallsAreFinite, FS_Subset DEF Unheard
    <3> QED
      BY <2>1, <3>1, FS_Subset, FS_CardinalityType
  <2>3. outages \in Nat /\ lines \in [Ids -> Nat]
    BY Typed DEF IInv
  <2>4. ASSUME NEW id \in Ids
        PROVE  lines[id] + Cardinality(Unheard') <=
                    outages + (IF id \in Behind(file.profile) THEN 1 ELSE 0)
    <3>1. lines[id] + Cardinality(Unheard) <=
                outages + (IF id \in Behind(file.profile) THEN 1 ELSE 0)
      BY DEF IInv, LinesAreFew
    <3> QED
      BY <2>2, <2>3, <3>1
  <2> QED
    BY <1>1, <2>4 DEF IInv, LinesAreFew, LinesAreLeft
<1> QED
  BY <1>1, <1>5, <1>6, <1>7, <1>8, <1>9, <1>10, <1>11, <1>12 DEF IInv

\* The parent deletes the file.
LEMMA EraseKeeps ==
    ASSUME IInv, Erase
    PROVE  IInv'
<1>1. /\ TypeOK /\ file \in FileType /\ Home' = Home
      /\ UNCHANGED <<setting, seen, st, pending, lines, outages, stops>>
      /\ file' = [file EXCEPT !.here = FALSE]
  BY Typed DEF IInv, Erase, Home
<1>2. /\ file' \in FileType /\ file'.profile = file.profile /\ file'.number = file.number
      /\ ~file'.here
  BY <1>1 DEF FileType
<1>3. TypeOK'
  BY <1>1, <1>2 DEF TypeOK, FileType
<1>4. /\ \A c \in Calls : Placed(c)' /\ Follows(c)'
      /\ Pends' /\ NamesAreNew'
  BY <1>1 DEF IInv, Placed, Follows, Pends, NamesAreNew
<1>5. BasesHold'
  BY <1>1, <1>2 DEF IInv, BasesHold, Holds
<1>6. SaidIsRecalled' /\ LinesAreLeft'
  BY <1>1, <1>2 DEF IInv, SaidIsRecalled, LinesAreLeft, Kept
<1>7. LinesAreFew'
  <2>1. Unheard' = Unheard
    BY <1>1 DEF Unheard
  <2> QED
    BY <1>1, <1>2, <2>1 DEF IInv, LinesAreFew
<1> QED
  BY <1>1, <1>2, <1>3, <1>4, <1>5, <1>6, <1>7 DEF IInv

\* Nothing happens.
LEMMA NothingKeeps ==
    ASSUME IInv, UNCHANGED vars
    PROVE  IInv'
<1>1. UNCHANGED <<setting, file, seen, st, pending, lines, outages, stops>>
  BY DEF vars
<1>2. TypeOK' /\ (\A c \in Calls : Placed(c)' /\ Follows(c)') /\ Pends' /\ NamesAreNew'
  BY <1>1 DEF IInv, TypeOK, Placed, Follows, Pends, NamesAreNew, Home
<1>3. BasesHold'
  BY <1>1, ZenonT(40) DEF IInv, BasesHold, Holds, Rightly, Decision, Answering, Asking, Preparing, HandingIn,
              Editing, Remakes
<1>4. SaidIsRecalled' /\ LinesAreLeft'
  BY <1>1 DEF IInv, SaidIsRecalled, LinesAreLeft, Kept
<1>5. LinesAreFew'
  <2>1. Unheard' = Unheard
    BY <1>1 DEF Unheard
  <2> QED
    BY <1>1, <2>1 DEF IInv, LinesAreFew
<1> QED
  BY <1>1, <1>2, <1>3, <1>4, <1>5 DEF IInv

\* The lesson some calls later is in order.
LEMMA StartsFine ==
    ASSUME NEW lesson \in Lessons, NEW p \in Starts(lesson)
    PROVE  /\ Fine(p, {GivenFirst, AskedNext}, 0)
           /\ \A entry \in Recalled(p) : entry.choice = "skipped"
<1>. DEFINE made == New(lesson, 0)
            asked == Ask(made, GivenFirst, 0)
            onTheCard == Issue(asked, 0)
            ahead == AskAhead(onTheCard, AskedNext, 0)
<1>1. GivenFirst \in Ids /\ AskedNext \in Ids /\ AskedNext \notin {GivenFirst}
  BY NamesAreApart
<1>2. Fine(made, {}, 0) /\ ~DayIsFull(made, 0) /\ Recalled(made) = {}
  <2>1. /\ Sound(made) /\ Handed(made) = {} /\ made.request = None /\ made.ready = None
        /\ made.task = None /\ made.recent = <<>>
        /\ made.daily.date = 0 \div DayLength
        /\ made.daily.accepted = 0 /\ made.daily.failed = 0
    BY NewIsSound
  <2>. HIDE DEF made
  <2>2. Today(made.daily, 0) = made.daily
    BY <2>1 DEF Today
  <2>3. ~DayIsFull(made, 0)
    BY <2>1, <2>2, LimitsAreSet, LimitsAreNumbers DEF DayIsFull
  <2>4. 0 \div DayLength \in Nat
    BY LimitsAreNumbers
  <2>5. Known(made, {}) /\ Recorded(made) /\ Recalled(made) = {}
    BY <2>1 DEF Known, Recorded, Recalled
  <2>6. Timely(made, 0)
    BY <2>1, <2>4, LimitsAreNumbers DEF Timely
  <2> QED
    BY <2>1, <2>3, <2>5, <2>6 DEF Fine
<1>. HIDE DEF made
<1>3. Fine(asked, {GivenFirst}, 0) /\ asked.request # None /\ Grows(made, asked)
  <2>1. GivenFirst \notin {}
    OBVIOUS
  <2>2. Fine(asked, {} \cup {GivenFirst}, 0) /\ asked.request # None /\ Grows(made, asked)
    BY <1>1, <1>2, <2>1, AskFine
  <2>3. {} \cup {GivenFirst} = {GivenFirst}
    OBVIOUS
  <2> QED
    BY <2>2, <2>3
<1>. HIDE DEF asked
<1>4. Fine(onTheCard, {GivenFirst}, 0) /\ Grows(asked, onTheCard)
  BY <1>3, IssueFine
<1>. HIDE DEF onTheCard
<1>5. Fine(onTheCard, {GivenFirst, AskedNext}, 0)
  BY <1>4 DEF Fine, Known
<1>6. ASSUME ~DayIsFull(onTheCard, 0)
      PROVE  /\ Fine(ahead, {GivenFirst, AskedNext}, 0) /\ ahead.request # None
             /\ Grows(onTheCard, ahead)
  <2>1. /\ Fine(ahead, {GivenFirst} \cup {AskedNext}, 0) /\ ahead.request # None
        /\ Grows(onTheCard, ahead)
    BY <1>1, <1>4, <1>6, AskAheadFine
  <2>2. {GivenFirst} \cup {AskedNext} = {GivenFirst, AskedNext}
    OBVIOUS
  <2> QED
    BY <2>1, <2>2
<1>. HIDE DEF ahead
<1>7. ASSUME ~DayIsFull(onTheCard, 0)
      PROVE  Fine(Keep(ahead), {GivenFirst, AskedNext}, 0) /\ Grows(ahead, Keep(ahead))
  BY <1>6, <1>7, KeepFine
<1>8. p = onTheCard \/ (~DayIsFull(onTheCard, 0) /\ p \in {ahead, Keep(ahead)})
  BY DEF Starts, made, asked, onTheCard, ahead
<1>9. Grows(made, onTheCard)
  BY <1>3, <1>4, GrowsOn
<1>10. ~DayIsFull(onTheCard, 0) => Grows(made, ahead) /\ Grows(made, Keep(ahead))
  BY <1>6, <1>7, <1>9, GrowsOn
<1>11. Fine(p, {GivenFirst, AskedNext}, 0) /\ Grows(made, p)
  BY <1>5, <1>6, <1>7, <1>8, <1>9, <1>10
<1> QED
  BY <1>2, <1>11 DEF Grows

\* A call before it begins.
LEMMA IdleIsOne ==
    ASSUME NEW p \in Profiles
    PROVE  /\ Idle(p) \in CallStates /\ Idle(p).pc = "idle" /\ Idle(p).base = 0
           /\ Idle(p).told = "none" /\ Idle(p).outcome = "none" /\ Idle(p).after = {}
           /\ Idle(p).tool = "save_profile"
<1>. DEFINE some == CHOOSE choice \in AnswerChoices : TRUE
<1>1. some \in AnswerChoices
  BY SomeChoice
<1>2. Idle(p) = [pc |-> "idle", tool |-> "save_profile", about |-> GivenFirst,
                 choice |-> some, passes |-> FALSE, lesson |-> p.lesson,
                 tries |-> 0, base |-> 0, read |-> p, put |-> p, lateWrite |-> FALSE, waits |-> {},
                 mayHaveLanded |-> FALSE, remade |-> FALSE, told |-> "none", outcome |-> "none", after |-> {}]
  BY DEF Idle
<1>. HIDE DEF some
<1>3. p.lesson \in Lessons /\ GivenFirst \in Ids
  BY NamesAreApart DEF Profiles
<1> QED
  BY <1>1, <1>2, <1>3 DEF CallStates, Places, AllTools, Tolds, Outcomes

LEMMA InitHolds == Init => IInv
<1>. SUFFICES ASSUME Init
              PROVE  IInv
  OBVIOUS
<1>1. PICK lesson \in setting.lessons : \E p \in Starts(lesson) :
        /\ file = [profile |-> p, number |-> 1, here |-> TRUE]
        /\ st = [c \in Calls |-> Idle(p)]
  BY DEF Init
<1>2. PICK p \in Starts(lesson) :
        /\ file = [profile |-> p, number |-> 1, here |-> TRUE]
        /\ st = [c \in Calls |-> Idle(p)]
  BY <1>1
<1>3. /\ setting \in Settings /\ seen = {GivenFirst, AskedNext}
      /\ pending = [i \in Instances |-> {}] /\ lines = [id \in Ids |-> 0]
      /\ outages = 0 /\ stops = 0
  BY DEF Init
<1>4. lesson \in Lessons /\ setting.maxOutages \in Nat /\ setting.maxStops \in Nat
  BY <1>1, <1>3, SettingsAreKnown
<1>5. /\ Fine(p, seen, 0) /\ p \in Profiles
      /\ \A entry \in Recalled(p) : entry.choice = "skipped"
  BY <1>2, <1>3, <1>4, StartsFine DEF Fine, Sound
<1>6. file.profile = p /\ file.number = 1 /\ file \in FileType
  BY <1>2, <1>5 DEF FileType
<1>7. ASSUME NEW c \in Calls
      PROVE  /\ st[c] \in CallStates /\ st[c].pc = "idle" /\ st[c].base = 0
             /\ st[c].told = "none" /\ st[c].outcome = "none" /\ st[c].after = {}
             /\ st[c].tool = "save_profile"
  BY <1>2, <1>5, IdleIsOne
<1>8. TypeOK
  <2>1. st \in [Calls -> CallStates]
    BY <1>2, <1>5, IdleIsOne
  <2>2. seen \subseteq Ids
    BY <1>3, NamesAreApart
  <2> QED
    BY <1>3, <1>4, <1>6, <2>1, <2>2 DEF TypeOK, FileType
<1>9. \A c \in Calls : Placed(c) /\ Follows(c)
  BY <1>7 DEF Placed, Follows, Unanswered, Writing
<1>10. Pends
  BY <1>3, <1>7 DEF Pends, Writing
<1>11. NamesAreNew
  <2>1. \A c \in Calls : NameOf[c] \notin seen
    BY <1>3, NamesAreApart
  <2> QED
    BY <2>1 DEF NamesAreNew
<1>12. BasesHold
  BY <1>6, <1>7 DEF BasesHold
<1>13. SaidIsRecalled
  BY <1>7 DEF SaidIsRecalled
<1>14. LinesAreFew
  <2>1. Unheard = {}
    BY <1>7 DEF Unheard
  <2>2. Cardinality(Unheard) = 0
    BY <2>1, FS_EmptySet
  <2>3. \A id \in Ids : lines[id] = 0
    BY <1>3
  <2>4. SUFFICES ASSUME NEW id \in Ids
                 PROVE  lines[id] + Cardinality(Unheard) <=
                            outages + (IF id \in Behind(file.profile) THEN 1 ELSE 0)
    BY DEF LinesAreFew
  <2>5. lines[id] + Cardinality(Unheard) = 0 /\ outages = 0
    BY <1>3, <2>2, <2>3
  <2> QED
    BY <2>5
<1>15. LinesAreLeft
  BY <1>5, <1>6 DEF LinesAreLeft
<1> QED
  BY <1>5, <1>6, <1>8, <1>9, <1>10, <1>11, <1>12, <1>13, <1>14, <1>15 DEF IInv

LEMMA NextKeeps == IInv /\ [Next]_vars => IInv'
<1>1. ASSUME IInv, NEW c \in Calls, Begin(c) \/ Step(c)
      PROVE  IInv'
  BY <1>1, BeginKeeps, LoadKeeps, GoOnKeeps, AnswerFirstKeeps, SaveKeeps, LandLateKeeps,
     ReadAgainKeeps
  DEF Step
<1>2. ASSUME IInv, NEW c \in Calls, ReadFails(c) \/ Unavailable(c) \/ OutOfTime(c)
      PROVE  IInv'
  BY <1>2, ReadFailsKeeps, UnavailableKeeps, OutOfTimeKeeps
<1>3. ASSUME IInv, NEW i \in Instances, Stop(i)
      PROVE  IInv'
  BY <1>3, StopKeeps
<1>4. ASSUME IInv, Erase \/ AllDone \/ UNCHANGED vars
      PROVE  IInv'
  BY <1>4, EraseKeeps, NothingKeeps DEF AllDone
<1> QED
  BY <1>1, <1>2, <1>3, <1>4 DEF Next

\* The invariant holds in every state.
THEOREM Invariance == Spec => []IInv
  BY InitHolds, NextKeeps, PTL DEF Spec

-----------------------------------------------------------------------------
(* What the calls promise.                                                 *)

\* An entry recalled stands in the profile's answers.
LEMMA RecalledStands ==
    ASSUME NEW p, NEW entry \in Recalled(p)
    PROVE  \E n \in DOMAIN p.recent : p.recent[n] = entry
  BY DEF Recalled

\* A write after the answer that is said to be written, remade or there already
\* is in the file for good, whatever else is written, fails or stops (land,
\* recordAgain).
THEOREM SaidIsKeptForGood == Spec => []SaidIsKept
<1>1. IInv => SaidIsKept
  <2>. SUFFICES ASSUME IInv, NEW c \in Calls, st[c].tool = "submit_answer", Kept(c)
                PROVE  \E n \in DOMAIN file.profile.recent :
                          file.profile.recent[n] = [task |-> st[c].about, choice |-> st[c].choice]
    BY DEF SaidIsKept
  <2>1. [task |-> st[c].about, choice |-> st[c].choice] \in Recalled(file.profile)
    BY DEF IInv, SaidIsRecalled
  <2> QED
    BY <2>1, RecalledStands
<1> QED
  BY <1>1, Invariance, PTL

\* A call begun once another was answered on its instance reads what that one
\* said, however late it was written (settled.Load).
THEOREM ReadsAfterTheAnswer == Spec => []ReadsWhatWasTold
<1>1. IInv => ReadsWhatWasTold
  <2>. SUFFICES ASSUME IInv, NEW c \in Calls, NEW d \in st[c].after,
                       st[c].base > 0, st[d].tool = "submit_answer", st[d].told = "ok",
                       st[d].outcome \in {"none", "written", "remade"}
                PROVE  \E n \in DOMAIN st[c].read.recent : st[c].read.recent[n].task = st[d].about
    BY DEF ReadsWhatWasTold
  <2>1. d \in Calls
    BY Typed DEF IInv, CallStates
  <2>2. Follows(c) /\ Placed(d)
    BY <2>1 DEF IInv
  <2>3. st[d].pc = "done" /\ st[d].outcome # "none"
    BY <2>2 DEF Follows, Placed
  <2>4. st[d].about \in Behind(st[c].read)
    BY <2>2, <2>3 DEF Follows
  <2> QED
    BY <2>4 DEF Behind
<1> QED
  BY <1>1, Invariance, PTL

\* Every answer the file holds is counted once, and oftener only as requests went
\* unheard: the lines are left as the answer lands, and by no other (land).
THEOREM EveryAnswerIsCounted == Spec => []CountedRight
<1>1. IInv => CountedRight
  <2>. SUFFICES ASSUME IInv
                PROVE  CountedRight
    OBVIOUS
  <2>1. TypeOK /\ outages \in Nat /\ lines \in [Ids -> Nat]
    BY Typed DEF IInv
  <2>2. CountedOnce
    <3>. SUFFICES ASSUME NEW id \in Ids
                  PROVE  lines[id] <= 1 + outages
      BY DEF CountedOnce
    <3>1. lines[id] + Cardinality(Unheard) <=
            outages + (IF id \in Behind(file.profile) THEN 1 ELSE 0)
      BY DEF IInv, LinesAreFew
    <3>2. Cardinality(Unheard) \in Nat
      BY CallsAreFinite, FS_Subset, FS_CardinalityType DEF Unheard
    <3> QED
      BY <2>1, <3>1, <3>2
  <2>3. CountedAtAll
    <3>. DEFINE told(id) == {c \in Calls : st[c].tool = "submit_answer" /\ st[c].about = id /\ st[c].told = "ok"}
    <3>. SUFFICES ASSUME NEW id \in Ids, outages = 0, told(id) # {}, \A c \in told(id) : Kept(c)
                  PROVE  lines[id] >= 1
      BY DEF CountedAtAll
    <3>1. PICK c \in Calls : st[c].tool = "submit_answer" /\ st[c].about = id /\ Kept(c)
      OBVIOUS
    <3>. DEFINE entry == [task |-> st[c].about, choice |-> st[c].choice]
    <3>2. entry \in Recalled(file.profile)
      BY <3>1 DEF IInv, SaidIsRecalled
    <3>3. entry.choice \in AnswerChoices /\ entry.task = id
      BY <3>1, Typed DEF IInv, CallStates
    <3>4. entry.choice # "skipped"
      BY <3>3, SkippedIsNoChoice
    <3> QED
      BY <3>2, <3>3, <3>4 DEF IInv, LinesAreLeft
  <2> QED
    BY <2>1, <2>2, <2>3 DEF CountedRight
<1> QED
  BY <1>1, Invariance, PTL

-----------------------------------------------------------------------------
(* The calls, one at a time, are the lesson.                               *)

\* What the lesson reads and does of a profile is what the calls do.
LEMMA SameLesson ==
    ASSUME NEW p, NEW id, NEW choice, NEW now
    PROVE  /\ Lesson!InFlight(p) = InFlight(p)
           /\ Lesson!Skip(p) = Skip(p)
           /\ Lesson!Apply(p, choice) = Apply(p, choice)
           /\ Lesson!DayIsFull(p, now) = DayIsFull(p, now)
           /\ Lesson!Ask(p, id, now) = Ask(p, id, now)
           /\ Lesson!AskAhead(p, id, now) = AskAhead(p, id, now)
           /\ Lesson!Await(p, now) = Await(p, now)
           /\ Lesson!Refuse(p, now) = Refuse(p, now)
           /\ Lesson!Issue(p, now) = Issue(p, now)
           /\ Lesson!Keep(p) = Keep(p)
           /\ Lesson!HandOutReady(p, now) = HandOutReady(p, now)
           /\ Lesson!WaitedOpen(p, now) = WaitedOpen(p, now)
           /\ Lesson!AheadOpen(p, now) = AheadOpen(p, now)
           /\ Lesson!OpensAhead(p, now) = OpensAhead(p, now)
           /\ Lesson!HandedIn(p, now) = HandedIn(p, now)
           /\ Lesson!LetGo(p, FALSE, now) = LetGo(p, FALSE, now)
<1>1. /\ \A q : Lesson!InFlight(q) = InFlight(q) /\ Lesson!Leave(q) = Leave(q)
      /\ \A q, t : Lesson!Awaited(q, t) = Awaited(q, t) /\ Lesson!Today(q, t) = Today(q, t)
      /\ \A q : Lesson!DropReady(q) = DropReady(q) /\ Lesson!CloseRequest(q) = CloseRequest(q)
      /\ \A l, m, e : Lesson!Misfit(l, m, e) = Misfit(l, m, e)
  BY DEF Lesson!InFlight, InFlight, Lesson!Leave, Leave, Lesson!Awaited, Awaited,
         Lesson!Today, Today, Lesson!DropReady, DropReady, Lesson!CloseRequest, CloseRequest,
         Lesson!Misfit, Misfit
<1>2. /\ \A q : Lesson!Skip(q) = Skip(q)
      /\ \A q, t : Lesson!CountAccepted(q, t) = CountAccepted(q, t)
      /\ \A q, t : Lesson!CountFailed(q, t) = CountFailed(q, t)
      /\ \A q, t : Lesson!DayIsFull(q, t) = DayIsFull(q, t)
      /\ \A q, t : Lesson!WaitedOpen(q, t) = WaitedOpen(q, t)
      /\ \A q, t : Lesson!AheadOpen(q, t) = AheadOpen(q, t)
      /\ \A q, t : Lesson!HandedIn(q, t) = HandedIn(q, t)
  BY <1>1 DEF Lesson!Skip, Skip, Lesson!CountAccepted, CountAccepted,
              Lesson!CountFailed, CountFailed, Lesson!DayIsFull, DayIsFull,
              Lesson!WaitedOpen, WaitedOpen, Lesson!AheadOpen, AheadOpen,
              Lesson!HandedIn, HandedIn
<1>3. \A q, i, t : Lesson!HandOut(q, i, t) = HandOut(q, i, t)
  BY <1>1, <1>2 DEF Lesson!HandOut, HandOut
<1>4. Lesson!Issue(p, now) = Issue(p, now) /\ Lesson!HandOutReady(p, now) = HandOutReady(p, now)
  BY <1>3 DEF Lesson!Issue, Issue, Lesson!HandOutReady, HandOutReady
<1>5. \A q, i, t : Lesson!Ask(q, i, t) = Ask(q, i, t)
  BY DEF Lesson!Ask, Ask
<1>6. Lesson!AskAhead(p, id, now) = AskAhead(p, id, now)
  BY <1>5 DEF Lesson!AskAhead, AskAhead
<1>7. /\ Lesson!Apply(p, choice) = Apply(p, choice)
      /\ Lesson!Await(p, now) = Await(p, now) /\ Lesson!Keep(p) = Keep(p)
  BY DEF Lesson!Apply, Apply, Lesson!Await, Await, Lesson!Keep, Keep
<1>8. Lesson!Refuse(p, now) = Refuse(p, now)
  BY <1>2 DEF Lesson!Refuse, Refuse
<1>9. Lesson!OpensAhead(p, now) = OpensAhead(p, now)
  BY <1>2 DEF Lesson!OpensAhead, OpensAhead
<1>10. Lesson!LetGo(p, FALSE, now) = LetGo(p, FALSE, now)
  BY <1>1, <1>2 DEF Lesson!LetGo, LetGo
<1> QED
  BY <1>1, <1>2, <1>4, <1>5, <1>6, <1>7, <1>8, <1>9, <1>10

\* The profile the file holds fits the lessons, as far as a task is kept in it.
Fits == LET p == file.profile IN p.ready # None => ~Misfit(p.ready.lesson, p.lesson, FALSE)

\* A write that lands is a step of the lesson.
LEMMA LandingIsAStep ==
    ASSUME IInv, NEW c \in Calls, st[c].pc \in {"save", "late"}, Holds(c), Land(c), Fits
    PROVE  Lesson!Next
<1>. DEFINE p == file.profile
            q == st[c].put
            fitting == LetGo(p, FALSE, 0)
<1>1. /\ Fine(p, seen, 0) /\ st[c] \in CallStates /\ NameOf[c] \notin seen /\ Rightly(c)
      /\ NameOf[c] \in Ids
  BY Typed, NamesAreApart DEF IInv, NamesAreNew, BasesHold, Holds
<1>1a. NameOf[c] \in Ids /\ NameOf[c] \notin seen /\ 0 \in Nat
  BY <1>1
<1>2. /\ file'.profile = q /\ seen' = NamesAfter(q) /\ WritesWell(c, q, st[c].lateWrite)
  BY Landing
<1>3. /\ st[c].choice \in AnswerChoices /\ st[c].lesson \in Lessons /\ st[c].tool \in AllTools
  BY <1>1 DEF CallStates
<1>4. ASSUME q.request # None => q.request.id \in seen
      PROVE  seen' = seen
  BY <1>2, <1>4 DEF NamesAfter
<1>5. ASSUME NEW r, Fine(r, seen, 0), q = r
      PROVE  seen' = seen
  BY <1>4, <1>5 DEF Fine, Known
<1>6. ASSUME NEW r, r.request # None, r.request.id = NameOf[c], q = r
      PROVE  Lesson!Names(NameOf[c])
  BY <1>1, <1>2, <1>6 DEF Lesson!Names, NamesAfter
<1>7. ASSUME NEW r, q = r
      PROVE  Lesson!Writes(r)
  BY <1>2, <1>7 DEF Lesson!Writes
<1>8. /\ Fine(fitting, seen, 0) /\ DayIsFull(fitting, 0) = DayIsFull(p, 0)
      /\ Lesson!LetGo(p, FALSE, 0) = fitting
  BY <1>1, LetGoFine, SameLesson, ZenonT(40)
<1>. HIDE DEF fitting
<1>9. /\ \A r : Now(r).put = r /\ Now(r).late = FALSE /\ Now(r).writes = TRUE
      /\ \A r : Late(r).put = r /\ Late(r).late = TRUE /\ Late(r).writes = TRUE
      /\ \A r : Nothing(r).writes = FALSE
  BY DEF Now, Late, Nothing
<1>10. ASSUME InFlight(p), q = Apply(p, st[c].choice)
       PROVE  Lesson!Next
  <2>1. Fine(Apply(p, st[c].choice), seen, 0)
    BY <1>1, <1>3, <1>10, ApplyFine
  <2>2. seen' = seen
    BY <1>5, <1>10, <2>1
  <2>3. Lesson!AnswerOnce(st[c].choice)
    BY <1>7, <1>10, <2>2, SameLesson DEF Lesson!AnswerOnce
  <2> QED
    BY <1>3, <2>3 DEF Lesson!Next
<1>11. ASSUME ~WaitedOpen(p, 0), ~DayIsFull(p, 0), ~AheadOpen(fitting, 0), fitting.ready # None,
              q = HandOutReady(fitting, 0)
       PROVE  Lesson!Next
  <2>1. Fine(HandOutReady(fitting, 0), seen, 0)
    BY <1>8, <1>11, HandOutReadyFine
  <2>2. seen' = seen
    BY <1>5, <1>11, <2>1
  <2>3. Lesson!ServeReady(FALSE)
    BY <1>7, <1>8, <1>11, <2>2, SameLesson DEF Lesson!ServeReady, Lesson!Asks
  <2> QED
    BY <2>3 DEF Lesson!Next
<1>12. ASSUME st[c].tool # "submit_answer", Remakes(c, p, q)
       PROVE  Lesson!Next
  <2>1. p.ready # None /\ q = HandOutReady(p, 0)
    BY <1>12 DEF Remakes
  <2>2. p.request = None /\ ~DayIsFull(p, 0)
    BY <1>1, <2>1 DEF Fine, Sound, InOrder, Timely
  <2>3. /\ ~WaitedOpen(p, 0) /\ ~AheadOpen(p, 0) /\ fitting = p
    BY <2>1, <2>2 DEF WaitedOpen, AheadOpen, LetGo, Fits, fitting
  <2> QED
    BY <1>11, <2>1, <2>2, <2>3
<1>13. ASSUME Decision(c, p).writes, q = Decision(c, p).put
       PROVE  Lesson!Next
  <2>1. CASE st[c].tool = "submit_answer"
    <3>1. InFlight(p) /\ q = Apply(p, st[c].choice)
      BY <1>9, <1>13, <2>1 DEF Decision, Answering
    <3> QED
      BY <1>10, <3>1
  <2>2. CASE st[c].tool = "next_task"
    <3>1. Decision(c, p) = Asking(c, p)
      BY <2>2 DEF Decision
    <3>2. /\ ~WaitedOpen(p, 0) /\ ~DayIsFull(p, 0)
          /\ Asking(c, p) = IF AheadOpen(fitting, 0) THEN Now(Await(Skip(fitting), 0))
                            ELSE IF fitting.ready # None THEN Late(HandOutReady(fitting, 0))
                            ELSE Now(Ask(Skip(fitting), NameOf[c], 0))
      BY <1>9, <1>13, <3>1 DEF Asking, fitting
    <3>3. /\ Fine(Skip(fitting), seen, 0) /\ Skip(fitting).request = fitting.request
          /\ ~DayIsFull(Skip(fitting), 0)
      BY <1>8, <3>2, SkipFine
    <3>4. CASE AheadOpen(fitting, 0)
      <4>1. q = Await(Skip(fitting), 0) /\ fitting.request # None
        BY <1>9, <1>13, <3>1, <3>2, <3>4 DEF AheadOpen
      <4>2. Fine(Await(Skip(fitting), 0), seen, 0)
        BY <3>3, <4>1, AwaitFine
      <4>3. seen' = seen
        BY <1>5, <4>1, <4>2
      <4>4. Lesson!AwaitAhead(FALSE)
        BY <1>7, <1>8, <3>2, <3>4, <4>1, <4>3, SameLesson DEF Lesson!AwaitAhead, Lesson!Asks
      <4> QED
        BY <4>4 DEF Lesson!Next
    <3>5. CASE ~AheadOpen(fitting, 0) /\ fitting.ready # None
      <4>1. q = HandOutReady(fitting, 0)
        BY <1>9, <1>13, <3>1, <3>2, <3>5
      <4> QED
        BY <1>11, <3>2, <3>5, <4>1
    <3>6. CASE ~AheadOpen(fitting, 0) /\ fitting.ready = None
      <4>1. q = Ask(Skip(fitting), NameOf[c], 0)
        BY <1>9, <1>13, <3>1, <3>2, <3>6
      <4>2. /\ Fine(Ask(Skip(fitting), NameOf[c], 0), seen \cup {NameOf[c]}, 0)
            /\ Ask(Skip(fitting), NameOf[c], 0).request # None
            /\ Ask(Skip(fitting), NameOf[c], 0).request.id = NameOf[c]
        BY <1>1a, <3>3, AskFine
      <4>3. Lesson!Names(NameOf[c]) /\ Lesson!Writes(Ask(Skip(fitting), NameOf[c], 0))
        BY <1>6, <1>7, <4>1, <4>2
      <4>4. /\ ~Lesson!WaitedOpen(p, 0) /\ ~Lesson!DayIsFull(p, 0) /\ ~Lesson!AheadOpen(fitting, 0)
            /\ Lesson!Skip(fitting) = Skip(fitting)
            /\ Lesson!Ask(Skip(fitting), NameOf[c], 0) = Ask(Skip(fitting), NameOf[c], 0)
        BY <3>2, <3>6, SameLesson
      <4>5. Lesson!AskAnew(FALSE, NameOf[c])
        BY <1>8, <3>6, <4>3, <4>4 DEF Lesson!AskAnew, Lesson!Asks
      <4> QED
        BY <1>1a, <4>5 DEF Lesson!Next
    <3> QED
      BY <3>4, <3>5, <3>6
  <2>3. CASE st[c].tool = "prepare_task"
    <3>1. Decision(c, p) = Preparing(c, p)
      BY <2>3 DEF Decision
    <3>2. /\ ~WaitedOpen(p, 0)
          /\ \/ OpensAhead(fitting, 0) /\ q = AskAhead(fitting, NameOf[c], 0)
             \/ ~OpensAhead(fitting, 0) /\ q = fitting
      BY <1>9, <1>13, <3>1 DEF Preparing, fitting
    <3>3. CASE OpensAhead(fitting, 0) /\ q = AskAhead(fitting, NameOf[c], 0)
      <4>1. ~DayIsFull(fitting, 0)
        BY <3>3 DEF OpensAhead
      <4>2. /\ Fine(AskAhead(fitting, NameOf[c], 0), seen \cup {NameOf[c]}, 0)
            /\ AskAhead(fitting, NameOf[c], 0).request # None
            /\ AskAhead(fitting, NameOf[c], 0).request.id = NameOf[c]
        BY <1>1a, <1>8, <4>1, AskAheadFine
      <4>3. Lesson!Names(NameOf[c]) /\ Lesson!Writes(AskAhead(fitting, NameOf[c], 0))
        BY <1>6, <1>7, <3>3, <4>2
      <4>4. Lesson!PrepareAhead(NameOf[c])
        BY <1>8, <3>2, <3>3, <4>3, SameLesson DEF Lesson!PrepareAhead
      <4> QED
        BY <1>1, <4>4 DEF Lesson!Next
    <3>4. CASE ~OpensAhead(fitting, 0) /\ q = fitting
      <4>1. seen' = seen
        BY <1>5, <1>8, <3>4
      <4>2. Lesson!PrepareNothing
        BY <1>7, <1>8, <3>2, <3>4, <4>1, SameLesson DEF Lesson!PrepareNothing
      <4> QED
        BY <4>2 DEF Lesson!Next
    <3> QED
      BY <3>2, <3>3, <3>4
  <2>4. CASE st[c].tool = "submit_task"
    <3>1. Decision(c, p) = HandingIn(c, p)
      BY <2>4 DEF Decision
    <3>2. /\ HandedIn(p, 0)
          /\ \/ q = Refuse(p, 0)
             \/ p.request.ahead /\ q = Keep(p)
             \/ ~p.request.ahead /\ q = Issue(p, 0)
      BY <1>9, <1>13, <3>1 DEF HandingIn
    <3>3. p.request # None
      BY <3>2 DEF HandedIn
    <3>4. \A r \in {Refuse(p, 0), Keep(p), Issue(p, 0)} : Fine(r, seen, 0)
      BY <1>1, <3>3, RefuseFine, KeepFine, IssueFine
    <3>5. seen' = seen
      BY <1>5, <3>2, <3>4
    <3>6. Lesson!HandInRefused \/ Lesson!HandInKept \/ Lesson!HandInIssued
      BY <1>7, <3>2, <3>5, SameLesson
      DEF Lesson!HandInRefused, Lesson!HandInKept, Lesson!HandInIssued
    <3> QED
      BY <3>6 DEF Lesson!Next
  <2>5. CASE st[c].tool = "save_profile"
    <3>1. Decision(c, p) = Editing(c, p)
      BY <2>5 DEF Decision
    <3>2. p.lesson # st[c].lesson /\ q = [p EXCEPT !.lesson = st[c].lesson]
      BY <1>9, <1>13, <3>1 DEF Editing
    <3>3. Fine([p EXCEPT !.lesson = st[c].lesson], seen, 0)
      BY <1>1, <1>3, EditFine
    <3>4. seen' = seen
      BY <1>5, <3>2, <3>3
    <3>5. Lesson!Edit(st[c].lesson)
      BY <1>7, <3>2, <3>4 DEF Lesson!Edit
    <3> QED
      BY <1>3, <3>5 DEF Lesson!Next, Lesson!Lessons, Lessons
  <2> QED
    BY <1>3, <2>1, <2>2, <2>3, <2>4, <2>5 DEF AllTools
<1>14. CASE Decision(c, p).writes /\ q = Decision(c, p).put
  BY <1>13, <1>14
<1>15. CASE Remakes(c, p, q)
  BY <1>10, <1>12, <1>15 DEF Remakes
<1> QED
  BY <1>1, <1>14, <1>15 DEF Rightly

\* A step leaves the profile as it is, or is one call's write landing.
LEMMA OnlyLandings ==
    ASSUME IInv, [Next]_vars
    PROVE  \/ UNCHANGED <<file.profile, seen>>
           \/ \E c \in Calls : st[c].pc \in {"save", "late"} /\ Holds(c) /\ Land(c)
<1>1. ASSUME NEW c \in Calls, Begin(c) \/ Load(c) \/ GoOnToSave(c) \/ AnswerFirst(c) \/ ReadAgain(c)
      PROVE  UNCHANGED <<file.profile, seen>>
  BY <1>1 DEF Begin, Load, GoOnToSave, AnswerFirst, ReadAgain
<1>2. ASSUME NEW c \in Calls, Save(c) \/ LandLate(c) \/ ReadFails(c) \/ Unavailable(c) \/ OutOfTime(c)
      PROVE  \/ UNCHANGED <<file.profile, seen>>
             \/ st[c].pc \in {"save", "late"} /\ Holds(c) /\ Land(c)
  BY <1>2 DEF Save, LandLate, ReadFails, Unavailable, OutOfTime
<1>3. ASSUME NEW i \in Instances, Stop(i)
      PROVE  UNCHANGED <<file.profile, seen>>
  BY <1>3 DEF Stop
<1>4. ASSUME Erase
      PROVE  UNCHANGED <<file.profile, seen>>
  <2>1. file \in FileType /\ file' = [file EXCEPT !.here = FALSE] /\ seen' = seen
    BY <1>4, Typed DEF IInv, Erase
  <2> QED
    BY <2>1 DEF FileType
<1>5. ASSUME AllDone \/ UNCHANGED vars
      PROVE  UNCHANGED <<file.profile, seen>>
  BY <1>5 DEF AllDone, vars
<1> QED
  BY <1>1, <1>2, <1>3, <1>4, <1>5 DEF Next, Step

\* However the calls and their late writes interleave, fail and are made again,
\* the file changes by one operation of the lesson at a time, as long as a task
\* kept fits the lessons (afresh, land).
THEOREM CallsAreTheLesson == Spec => AsOneAtATime
<1>1. IInv /\ [Next]_vars =>
        [LET p == file.profile
         IN  (p.ready # None => ~Misfit(p.ready.lesson, p.lesson, FALSE)) => Lesson!Next]_<<file.profile, seen>>
  BY OnlyLandings, LandingIsAStep DEF Fits
<1> QED
  BY <1>1, Invariance, PTL DEF Spec, AsOneAtATime

=============================================================================
