------------------------ MODULE DriveContractProofs ------------------------
(***************************************************************************)
(* What no session does to another's profile, proved of the store in the   *)
(* parent's Drive: a new start leaves the account a profile, an upload     *)
(* lands over none of its own instance's, a read is not behind what was    *)
(* written; and served by one instance alone, the store keeps its contract *)
(* (ProfileStore).  DriveStoreProofs says where calls and contents are.    *)
(***************************************************************************)
EXTENDS DriveStoreProofs

-----------------------------------------------------------------------------
(***************************************************************************)
(* A new start.  What it sets aside has been in the bin or unreadable; the *)
(* file it made has never been either.                                     *)
(***************************************************************************)

MayGo(f) == file[f].inBin \/ \E n \in DOMAIN file[f].past : file[f].past[n].kind # "reads"
Serves(f) == IsProfile(f) /\ \A n \in DOMAIN file[f].past : file[f].past[n].kind = "reads"

\* What a call is to set aside, and what it has made in its place.
Leaving(c) == st[c].doomed \in Seq({f \in Files : MayGo(f)})
Replaced(c) == st[c].pc \in {"made", "aside"} => st[c].at \in Files /\ Serves(st[c].at)

LEMMA FilesStay ==
  ASSUME NEW CONSTANT N, Typed(N), NEW c \in Calls, Placed(c), Leaving(c), Acts(c) \/ LandLate(c),
         NEW f \in Files
  PROVE  (MayGo(f) => MayGo(f)') /\ (Serves(f) => Serves(f)')
<1>1. CASE UNCHANGED world BY <1>1 DEF world, MayGo, Serves, IsProfile
<1>2. CASE Writes(c)
  <2>1. st[c].at \in Files /\ st[c].put.kind = "reads" BY <1>2 DEF Writes, Placed, AtAFile
  <2>2. CASE f # st[c].at
    <3>1. file'[f] = file[f] BY <1>2, <2>1, <2>2, PutAppends DEF Writes, Typed
    <3> QED BY <3>1 DEF MayGo, Serves, IsProfile
  <2>3. CASE f = st[c].at
    <3> DEFINE len == Len(file[f].past)
    <3>1. /\ DOMAIN file'[f].past = 1..(len + 1) /\ DOMAIN file[f].past = 1..len /\ len \in Nat
          /\ \A n \in 1..len : file'[f].past[n] = file[f].past[n]
          /\ file'[f].past[len + 1] = st[c].put
          /\ file'[f].mark = file[f].mark /\ file'[f].inBin = file[f].inBin
      BY <1>2, <2>1, <2>3, PutAppends DEF Writes, Typed
    <3> HIDE DEF len
    <3>2. MayGo(f) => MayGo(f)' BY <3>1 DEF MayGo
    <3>3. Serves(f) => Serves(f)'
      <4>1. \A n \in 1..(len + 1) : n \in 1..len \/ n = len + 1 BY <3>1
      <4> QED BY <2>1, <3>1, <4>1 DEF Serves, IsProfile
    <3> QED BY <3>2, <3>3
  <2> QED BY <2>2, <2>3
<1>3. CASE Makes(c)
  <2>1. PICK g \in Files : PutNew(g, st[c].put, c) BY <1>3 DEF Makes
  <2>2. CASE f # g
    <3>1. file'[f] = file[f] BY <2>1, <2>2, PutNewMakes DEF Typed
    <3> QED BY <3>1 DEF MayGo, Serves, IsProfile
  <2>3. CASE f = g
    <3>1. file[f] = NeverMade BY <2>1, <2>3 DEF PutNew
    <3> QED BY <3>1 DEF NeverMade, MayGo, Serves, IsProfile
  <2> QED BY <2>2, <2>3
<1>4. CASE SetsAside(c)
  <2> DEFINE going == {h \in Files : MayGo(h)}
  <2>1. Head(st[c].doomed) \in going
    <3>1. st[c].doomed # <<>> /\ st[c].doomed \in Seq(going) BY <1>4 DEF SetsAside, Placed, Leaving
    <3> HIDE DEF going
    <3> QED BY <3>1, HeadTailProperties
  <2>2. PICK g \in Files : g = Head(st[c].doomed) /\ MayGo(g) BY <2>1
  <2>3. file' = [file EXCEPT ![g].mark = "aside"] /\ file \in [Files -> FilesOf(N)]
    BY <1>4, <2>2 DEF SetsAside, Typed, FilesTyped
  <2>4. file'[f].inBin = file[f].inBin /\ file'[f].past = file[f].past BY <2>3 DEF FilesOf
  <2>5. MayGo(f) => MayGo(f)' BY <2>4 DEF MayGo
  <2>6. Serves(f) => Serves(f)'
    <3>1. Serves(f) => f # g BY <2>2 DEF Serves, MayGo, IsProfile
    <3>2. f # g => file'[f] = file[f] BY <2>3
    <3> QED BY <3>1, <3>2 DEF Serves, IsProfile
  <2> QED BY <2>5, <2>6
<1> QED BY <1>1, <1>2, <1>3, <1>4, FilesMove

\* What is to be set aside is settled as the files are gone through.
LEMMA DoomedStays ==
  ASSUME NEW CONSTANT N, Typed(N), NEW c \in Calls, Acts(c)
  PROVE  Beside(c) \/ ListBin(c) \/ SetAside(c) \/ st'[c].doomed = st[c].doomed
<1>0. st \in [Calls -> CallStatesOf(N)] BY DEF Typed, CallsTyped
<1>a. OnlyMoves(c) => st'[c].doomed = st[c].doomed BY DEF OnlyMoves, Matters
<1>b. ASSUME NEW answer, Finish(c, answer) PROVE st'[c].doomed = st[c].doomed BY <1>a, <1>b, Ends DEF Typed
<1>c. ASSUME NEW place, Go(c, place) PROVE st'[c].doomed = st[c].doomed BY <1>a, <1>c, GoesOn DEF Typed
<1>d. ASSUME NEW content, Loaded(c, content) PROVE st'[c].doomed = st[c].doomed
  BY <1>0, <1>d DEF Loaded, CallStatesOf
<1>1. CASE Begin(c)
  <2>1. PICK op \in ground.ops :
          st' = [st EXCEPT ![c].pc = IF op \in {"write", "restore"} THEN "read" ELSE "turn",
                           ![c].op = op,
                           ![c].put = [kind |-> "reads", rev |-> 1, by |-> c]]
    BY <1>1 DEF Begin
  <2>2. st'[c].doomed = st[c].doomed BY <1>0, <2>1 DEF CallStatesOf
  <2> QED BY <2>2
<1>2. CASE Recall(c) \/ Fetch(c) \/ Judge(c) \/ Mending(c) \/ CatchUp(c)
  <2>1. Recall(c) => st'[c].doomed = st[c].doomed BY <1>0, <1>c DEF Recall, CallStatesOf
  <2>2. Fetch(c) => st'[c].doomed = st[c].doomed BY <1>0, <1>b DEF Fetch, CallStatesOf
  <2>3. Judge(c) => st'[c].doomed = st[c].doomed
    BY <1>0, <1>b, <1>c, <1>d DEF Judge, JudgeReadable, JudgeRemembered, JudgeFound, CallStatesOf
  <2>4. Mending(c) => st'[c].doomed = st[c].doomed
    <3>1. ASSUME NEW content, st' = [st EXCEPT ![c].pc = "judge", ![c].got = content, ![c].known = st[c].early]
          PROVE  st'[c].doomed = st[c].doomed
      BY <1>0, <3>1 DEF CallStatesOf
    <3> QED BY <1>b, <3>1 DEF Mending
  <2>5. CatchUp(c) => st'[c].doomed = st[c].doomed BY <1>b, <1>d DEF CatchUp
  <2> QED BY <1>2, <2>1, <2>2, <2>3, <2>4, <2>5
<1>3. CASE TakeTurn(c) \/ Locate(c) \/ Upload(c) \/ Make(c) \/ List(c) \/ Search(c) \/ Recover(c)
  <2>1. TakeTurn(c) => st'[c].doomed = st[c].doomed BY <1>0 DEF TakeTurn, CallStatesOf
  <2>2. Locate(c) => st'[c].doomed = st[c].doomed BY <1>0 DEF Locate, CallStatesOf
  <2>3. Upload(c) => st'[c].doomed = st[c].doomed BY <1>0, <1>b DEF Upload, CallStatesOf
  <2>4. Make(c) => st'[c].doomed = st[c].doomed BY <1>0 DEF Make, CallStatesOf
  <2>5. List(c) => st'[c].doomed = st[c].doomed
    <3>1. ASSUME NEW todo, NEW g, st' = [st EXCEPT ![c].pc = "beside", ![c].todo = todo, ![c].at = g]
          PROVE  st'[c].doomed = st[c].doomed
      BY <1>0, <3>1 DEF CallStatesOf
    <3> QED BY <3>1 DEF List
  <2>6. Search(c) => st'[c].doomed = st[c].doomed
    <3>1. ASSUME NEW g, st' = [st EXCEPT ![c].pc = "found", ![c].at = g] PROVE st'[c].doomed = st[c].doomed
      BY <1>0, <3>1 DEF CallStatesOf
    <3>2. ASSUME st' = [st EXCEPT ![c].pc = "bin"] PROVE st'[c].doomed = st[c].doomed
      BY <1>0, <3>2 DEF CallStatesOf
    <3> QED BY <3>1, <3>2 DEF Search
  <2>7. Recover(c) => st'[c].doomed = st[c].doomed
    <3>1. ASSUME NEW put, st' = [st EXCEPT ![c].pc = "turn", ![c].from = st[c].at, ![c].base = st[c].got, ![c].put = put]
          PROVE  st'[c].doomed = st[c].doomed
      BY <1>0, <3>1 DEF CallStatesOf
    <3> QED BY <1>b, <3>1 DEF Recover
  <2> QED BY <1>3, <2>1, <2>2, <2>3, <2>4, <2>5, <2>6, <2>7
<1>4. CASE SearchBin(c) \/ Found(c) \/ Check(c) \/ Answered(c) \/ Made(c)
           \/ DriveFails(c) \/ Unanswered(c) \/ Drift(c)
  BY <1>4, <1>a, Goes
<1> QED BY <1>1, <1>2, <1>3, <1>4 DEF Acts, Step

\* It is of the files in the bin, and of those that do not read.
LEMMA DoomedMoves ==
  ASSUME NEW CONSTANT N, Typed(N), NEW c \in Calls, Placed(c), Acts(c),
         NEW going, st[c].doomed \in Seq(going),
         \A f \in Files : file[f].mark = "profile" /\ file[f].inBin = TRUE => f \in going,
         \A f \in Files : Exists(f) /\ (\E content \in Downloads(f) : content.kind # "reads") => f \in going
  PROVE  st'[c].doomed \in Seq(going)
<1>0. st \in [Calls -> CallStatesOf(N)] BY DEF Typed, CallsTyped
<1>a. OnlyMoves(c) => st'[c].doomed = st[c].doomed BY DEF OnlyMoves, Matters
<1>b. ASSUME NEW answer, Finish(c, answer) PROVE st'[c].doomed = st[c].doomed BY <1>a, <1>b, Ends DEF Typed
<1>1. CASE Beside(c)
  <2> DEFINE f == Head(st[c].todo)
             rest == Tail(st[c].todo)
             more == Append(st[c].doomed, f)
  <2>1. f \in Files
    <3>1. st[c].todo \in Seq(Files) /\ st[c].todo # <<>> BY <1>0, <1>1 DEF Beside, CallStatesOf
    <3> QED BY <3>1, HeadTailProperties
  <2>2. \/ \E answer : Finish(c, answer)
        \/ st' = [st EXCEPT ![c].todo = rest]
        \/ /\ st' = [st EXCEPT ![c].todo = rest, ![c].doomed = more]
           /\ Exists(f) /\ \E content \in Downloads(f) : content.kind # "reads"
    BY <1>0, <1>1 DEF Beside, Verdict
  <2>3. CASE \E answer : Finish(c, answer) BY <1>b, <2>3
  <2>4. CASE st' = [st EXCEPT ![c].todo = rest]
    <3> HIDE DEF rest
    <3>1. st'[c].doomed = st[c].doomed BY <1>0, <2>4 DEF CallStatesOf
    <3> QED BY <3>1
  <2>5. CASE /\ st' = [st EXCEPT ![c].todo = rest, ![c].doomed = more]
             /\ Exists(f) /\ \E content \in Downloads(f) : content.kind # "reads"
    <3>1. f \in going BY <2>1, <2>5
    <3>2. more \in Seq(going)
      <4> HIDE DEF f
      <4> QED BY <3>1, AppendProperties
    <3> HIDE DEF rest, more
    <3>3. st'[c].doomed = more BY <1>0, <2>5 DEF CallStatesOf
    <3> QED BY <3>2, <3>3
  <2> QED BY <2>2, <2>3, <2>4, <2>5
<1>2. CASE ListBin(c)
  <2> DEFINE all == st[c].doomed \o Marked(TRUE)
  <2>0. PICK yes \in BOOLEAN : yes = TRUE OBVIOUS
  <2> DEFINE binned == {f \in Files : file[f].mark = "profile" /\ file[f].inBin = yes}
  <2>1. Marked(yes) \in Seq(binned) BY MarkedTyped DEF Typed, FilesTyped
  <2>2. binned \subseteq going BY <2>0
  <2>3. Marked(yes) \in Seq(going)
    <3> HIDE DEF binned
    <3> QED BY <2>1, <2>2, SeqMonotonic
  <2>4. all \in Seq(going)
    <3>1. all = st[c].doomed \o Marked(yes) BY <2>0
    <3> HIDE DEF all
    <3> QED BY <2>3, <3>1, ConcatProperties
  <2>5. st' = [st EXCEPT ![c].pc = "make", ![c].doomed = all] BY <1>0, <1>2 DEF ListBin
  <2> HIDE DEF all
  <2>6. st'[c].doomed = all BY <1>0, <2>5 DEF CallStatesOf
  <2> QED BY <2>4, <2>6
<1>3. CASE SetAside(c)
  <2> DEFINE rest == Tail(st[c].doomed)
  <2>1. st[c].doomed # <<>> BY <1>3 DEF SetAside, Placed
  <2>2. rest \in Seq(going) BY <2>1, HeadTailProperties
  <2>3. \/ \E answer : Finish(c, answer)
        \/ st' = [st EXCEPT ![c].doomed = rest]
    BY <1>0, <1>3 DEF SetAside
  <2>4. CASE \E answer : Finish(c, answer) BY <1>b, <2>4
  <2>5. CASE st' = [st EXCEPT ![c].doomed = rest]
    <3> HIDE DEF rest
    <3>1. st'[c].doomed = rest BY <1>0, <2>5 DEF CallStatesOf
    <3> QED BY <2>2, <3>1
  <2> QED BY <2>3, <2>4, <2>5
<1> QED BY <1>1, <1>2, <1>3, DoomedStays

\* So it stands until the parent's hand touches a file.
Replacing == acts = 0 => \A c \in Calls : Leaving(c) /\ Replaced(c)

LEMMA ReplacedMoves ==
  ASSUME NEW CONSTANT N, Typed(N), NEW c \in Calls, Placed(c), Leaving(c), Replaced(c), Acts(c)
  PROVE  Replaced(c)'
<1> SUFFICES ASSUME st'[c].pc \in {"made", "aside"}
             PROVE  st'[c].at \in Files /\ \A f \in Files : f = st'[c].at => Serves(f)'
  <2> QED BY DEF Replaced, Serves, IsProfile
<1>0. st \in [Calls -> CallStatesOf(N)] BY DEF Typed, CallsTyped
<1>1. Make(c) \/ Made(c) \/ SetAside(c)
  <2>1. ~DriveFails(c) /\ ~Unanswered(c) /\ ~Drift(c) /\ ~Begin(c) BY Goes
  <2> QED BY <2>1, Goes DEF Acts, Step
<1>2. CASE Make(c)
  <2>1. PICK g \in Files : PutNew(g, st[c].put, c) /\ st' = [st EXCEPT ![c].pc = "made", ![c].at = g]
    BY <1>2 DEF Make
  <2>2. st'[c].at = g BY <1>0, <2>1 DEF CallStatesOf
  <2>3. /\ DOMAIN file'[g].past = {1} /\ file'[g].past[1] = st[c].put /\ IsProfile(g)'
    BY <2>1, PutNewMakes DEF Typed
  <2>4. st[c].put.kind = "reads" BY <1>2 DEF Make, Placed
  <2> QED BY <2>2, <2>3, <2>4 DEF Serves
<1>3. CASE Made(c) \/ SetAside(c)
  <2>1. st'[c].at = st[c].at
    <3>1. Made(c) => st'[c].at = st[c].at BY Goes DEF OnlyMoves, Matters
    <3>2. SetAside(c) => st'[c].at = st[c].at
      <4>1. ASSUME NEW answer, Finish(c, answer) PROVE st'[c].at = st[c].at BY <4>1, Ends DEF Typed, OnlyMoves, Matters
      <4>2. ASSUME NEW doomed, st' = [st EXCEPT ![c].doomed = doomed] PROVE st'[c].at = st[c].at
        BY <1>0, <4>2 DEF CallStatesOf
      <4> QED BY <4>1, <4>2 DEF SetAside
    <3> QED BY <1>3, <3>1, <3>2
  <2>2. st[c].pc \in {"made", "aside"} BY <1>3 DEF Made, SetAside
  <2>3. st[c].at \in Files /\ Serves(st[c].at) BY <2>2 DEF Replaced
  <2>4. PICK f \in Files : f = st[c].at /\ Serves(f) BY <2>3
  <2>5. Serves(f)' BY <2>4, FilesStay
  <2> QED BY <2>1, <2>4, <2>5
<1> QED BY <1>1, <1>2, <1>3

LEMMA NextReplacing ==
  ASSUME NEW CONSTANT N, Typed(N), \A d \in Calls : Placed(d), Replacing, [Next]_vars
  PROVE  Replacing'
<1>1. ASSUME NEW c \in Calls, Acts(c) \/ LandLate(c), acts' = 0, NEW d \in Calls
      PROVE  Leaving(d)' /\ Replaced(d)'
  <2>1. acts = 0 BY <1>1, ActsKeepBounds
  <2>2. \A e \in Calls : Leaving(e) /\ Replaced(e) BY <2>1 DEF Replacing
  <2>3. \A f \in Files : (MayGo(f) => MayGo(f)') /\ (Serves(f) => Serves(f)') BY <1>1, <2>2, FilesStay
  <2> DEFINE going == {f \in Files : MayGo(f)}
             left == {f \in Files : MayGo(f)'}
  <2>4. going \subseteq left BY <2>3
  <2>5. ASSUME st'[d].doomed \in Seq(going) PROVE Leaving(d)'
    <3> HIDE DEF going, left
    <3>1. st'[d].doomed \in Seq(left) BY <2>4, <2>5, SeqMonotonic
    <3> QED BY <3>1 DEF Leaving, left
  <2>6. ASSUME st'[d] = st[d] PROVE Leaving(d)' /\ Replaced(d)'
    <3>1. Leaving(d)' BY <2>2, <2>5, <2>6 DEF Leaving
    <3>2. ASSUME st[d].pc \in {"made", "aside"} PROVE st[d].at \in Files /\ \A f \in Files : f = st[d].at => Serves(f)'
      BY <2>2, <2>3, <3>2 DEF Replaced
    <3>3. Replaced(d)' BY <2>6, <3>2 DEF Replaced, Serves, IsProfile
    <3> QED BY <3>1, <3>3
  <2>7. CASE LandLate(c) BY <2>6, <2>7 DEF LandLate
  <2>8. CASE Acts(c) /\ d # c
    <3>1. st'[d] = st[d] BY <2>8, StepPlaced DEF Alone, Acts
    <3> QED BY <2>6, <3>1
  <2>9. CASE Acts(c) /\ d = c
    <3>1. st[c].doomed \in Seq(going) BY <2>2 DEF Leaving
    <3>2. \A f \in Files : file[f].mark = "profile" /\ file[f].inBin = TRUE => f \in going BY DEF MayGo
    <3>3. \A f \in Files : Exists(f) /\ (\E content \in Downloads(f) : content.kind # "reads") => f \in going
      BY DownloadsTyped DEF Typed, MayGo
    <3> HIDE DEF going, left
    <3>4. st'[d].doomed \in Seq(going) BY <2>2, <2>9, <3>1, <3>2, <3>3, DoomedMoves
    <3>5. Leaving(d)' BY <2>5, <3>4
    <3>6. Replaced(d)' BY <2>2, <2>9, ReplacedMoves
    <3> QED BY <3>5, <3>6
  <2> QED BY <1>1, <2>7, <2>8, <2>9
<1>2. CASE Parent
  <2>1. acts' # 0 BY <1>2, GroundIs DEF Parent, Typed, RestTyped
  <2> QED BY <2>1 DEF Replacing
<1>3. CASE UNCHANGED vars BY <1>3 DEF vars, Replacing, Leaving, Replaced, MayGo, Serves, IsProfile
<1>4. CASE \E i \in Instances : Lapse(i)
  <2>1. st' = st /\ acts' = acts /\ file' = file BY <1>4 DEF Lapse, world
  <2> QED BY <2>1 DEF Replacing, Leaving, Replaced, MayGo, Serves, IsProfile
<1>5. CASE \E i \in Instances : Restart(i)
  <2>1. PICK i \in Instances : Restart(i) BY <1>5
  <2>2. acts' = acts /\ file' = file BY <2>1 DEF Restart, world
  <2>3. ASSUME NEW d \in Calls PROVE st'[d].doomed = st[d].doomed /\ (st'[d].pc = "done" \/ st'[d] = st[d])
    <3>1. st[d] \in CallStatesOf(N) BY CallIs DEF Typed
    <3>2. st'[d] = st[d] \/ st'[d] = [st[d] EXCEPT !.pc = "done", !.answer = "unknown"] BY <2>1 DEF Restart
    <3> QED BY <3>1, <3>2 DEF CallStatesOf
  <2>4. ASSUME acts = 0, NEW d \in Calls, Leaving(d), Replaced(d) PROVE Leaving(d)' /\ Replaced(d)'
    <3>1. Leaving(d)' BY <2>2, <2>3, <2>4 DEF Leaving, MayGo
    <3>2. Replaced(d)' BY <2>2, <2>3, <2>4 DEF Replaced, Serves, IsProfile
    <3> QED BY <3>1, <3>2
  <2> QED BY <2>2, <2>4 DEF Replacing
<1>6. ASSUME NEW c \in Calls, Acts(c) \/ LandLate(c) PROVE Replacing' BY <1>1, <1>6 DEF Replacing
<1> QED BY <1>2, <1>3, <1>4, <1>5, <1>6 DEF Next, Acts, AllDone

\* What a step of a call's leaves is still a profile, if there was one.
LEMMA AProfileStays ==
  ASSUME NEW CONSTANT N, Typed(N), NEW c \in Calls, Placed(c), Leaving(c), Replaced(c), Acts(c) \/ LandLate(c),
         NEW f \in Files, IsProfile(f)
  PROVE  \E g \in Files : IsProfile(g)'
<1>1. CASE UNCHANGED world BY <1>1 DEF world, IsProfile
<1>2. CASE Writes(c)
  <2>1. st[c].at \in Files BY <1>2 DEF Writes, Placed, AtAFile
  <2>2. file'[f].mark = file[f].mark /\ file'[f].inBin = file[f].inBin
    <3>1. CASE f = st[c].at BY <1>2, <2>1, <3>1, PutAppends DEF Writes, Typed
    <3>2. CASE f # st[c].at
      <4>1. file'[f] = file[f] BY <1>2, <2>1, <3>2, PutAppends DEF Writes, Typed
      <4> QED BY <4>1
    <3> QED BY <3>1, <3>2
  <2> QED BY <2>2 DEF IsProfile
<1>3. CASE Makes(c) BY <1>3, PutNewMakes DEF Makes, Typed
<1>4. CASE SetsAside(c)
  <2>1. PICK g \in Files : g = st[c].at /\ Serves(g) BY <1>4 DEF SetsAside, Replaced
  <2>2. Serves(g)' BY <2>1, FilesStay
  <2> QED BY <2>2 DEF Serves
<1> QED BY <1>1, <1>2, <1>3, <1>4, FilesMove

\* An account that has a profile keeps having one, however many new starts go at once
\* on however many instances and whatever of them fails (startover.go:20-24).
THEOREM AlwaysAProfile == Spec => NeverWithoutAProfile
<1> DEFINE Inv == Stands /\ Replacing
           HadIsKept == (\E f \in Files : IsProfile(f)) /\ acts' = 0 => \E f \in Files : IsProfile(f)'
<1>1. Init => Inv
  <2> SUFFICES ASSUME Init PROVE Inv OBVIOUS
  <2>1. st = [c \in Calls |-> Idle] BY DEF Init
  <2>2. ASSUME NEW c \in Calls PROVE Leaving(c) /\ Replaced(c)
    <3> DEFINE going == {f \in Files : MayGo(f)}
    <3>1. <<>> \in Seq(going) OBVIOUS
    <3>2. st[c].doomed = <<>> /\ st[c].pc = "idle" BY <2>1 DEF Idle
    <3> QED BY <3>1, <3>2 DEF Leaving, Replaced
  <2> QED BY <2>2, InitStands DEF Replacing
<1>2. Inv /\ [Next]_vars => Inv'
  <2> SUFFICES ASSUME Inv, [Next]_vars PROVE Inv' OBVIOUS
  <2>1. Typed(Numbers) /\ \A d \in Calls : Placed(d) BY StandsTyped DEF Stands
  <2> QED BY <2>1, NextStands, NextReplacing
<1>3. Inv /\ [Next]_vars => [HadIsKept]_vars
  <2> SUFFICES ASSUME Inv, Next, NEW f \in Files, IsProfile(f), acts' = 0
               PROVE  \E g \in Files : IsProfile(g)'
    BY DEF vars, IsProfile
  <2>1. Typed(Numbers) /\ \A d \in Calls : Placed(d) BY StandsTyped DEF Stands
  <2>2. ASSUME NEW c \in Calls, Acts(c) \/ LandLate(c) PROVE \E g \in Files : IsProfile(g)'
    <3>1. acts = 0 BY <2>2, ActsKeepBounds
    <3>2. Leaving(c) /\ Replaced(c) BY <3>1 DEF Replacing
    <3> QED BY <2>1, <2>2, <3>2, AProfileStays
  <2>3. ~Parent BY <2>1, GroundIs DEF Parent, Typed, RestTyped
  <2>4. CASE (\E i \in Instances : Lapse(i) \/ Restart(i)) \/ AllDone
    BY <2>4 DEF Lapse, Restart, AllDone, world, vars, IsProfile
  <2> QED BY <2>2, <2>3, <2>4 DEF Next, Acts
<1> QED BY <1>1, <1>2, <1>3, PTL DEF Spec, NeverWithoutAProfile

-----------------------------------------------------------------------------
(***************************************************************************)
(* Two sessions of one instance.  From the check on, a session holds its   *)
(* turn until its upload is answered, so whoever else puts something in    *)
(* the file is of another instance, or the parent.                         *)
(***************************************************************************)
OnTime == ~ground.staleReads /\ ~ground.lateLandings

Uploading == OnTime =>
    /\ adrift = {}
    /\ \A c \in Calls : st[c].pc = "upload" => LandsOverNoneOfOurs(c)

\* Two sessions of one instance never hold the turn both.
LEMMA OneInTurn ==
  ASSUME NEW c \in Calls, NEW d \in Calls, Placed(c), Placed(d), InTurn(c), InTurn(d), Home[c] = Home[d]
  PROVE  c = d
BY DEF Placed

\* Whoever else changes the file does not serve the same instance.
LEMMA OthersLandElsewhere ==
  ASSUME NEW CONSTANT N, Typed(N), \A e \in Calls : Placed(e), OnTime, Uploading,
         NEW c \in Calls, Acts(c) \/ LandLate(c),
         NEW d \in Calls \ {c}, st[d].pc = "upload", st'[d] = st[d]
  PROVE  LandsOverNoneOfOurs(d)'
<1>1. LandsOverNoneOfOurs(d) /\ adrift = {} BY DEF Uploading
<1>2. Home' = Home BY ActsKeepBounds DEF Home
<1>3. st[d].at \in Files BY DEF Placed, AtAFile
<1> DEFINE f == st[d].at
<1>4. ASSUME file'[f].past = file[f].past, file'[f].hand = file[f].hand PROVE LandsOverNoneOfOurs(d)'
  BY <1>1, <1>2, <1>4 DEF LandsOverNoneOfOurs, Now
<1>5. ASSUME file'[f].hand = c, Home[c] # Home[d] PROVE LandsOverNoneOfOurs(d)'
  BY <1>2, <1>5 DEF LandsOverNoneOfOurs
<1>6. InTurn(d) BY DEF InTurn
<1>7. CASE UNCHANGED world BY <1>4, <1>7 DEF world
<1>8. CASE Writes(c)
  <2>1. st[c].pc = "upload" /\ st[c].at \in Files BY <1>1, <1>8 DEF Writes, Placed, AtAFile
  <2>2. InTurn(c) BY <2>1 DEF InTurn
  <2>3. Home[c] # Home[d] BY <1>6, <2>2, OneInTurn
  <2>4. CASE f = st[c].at
    <3>1. file'[f].hand = c BY <1>8, <2>1, <2>4, PutAppends DEF Writes, Typed
    <3> QED BY <1>5, <2>3, <3>1
  <2>5. CASE f # st[c].at
    <3>1. file'[f] = file[f] BY <1>3, <1>8, <2>1, <2>5, PutAppends DEF Writes, Typed
    <3> QED BY <1>4, <3>1
  <2> QED BY <2>4, <2>5
<1>9. CASE Makes(c)
  <2>1. InTurn(c) BY <1>9 DEF Makes, InTurn
  <2>2. Home[c] # Home[d] BY <1>6, <2>1, OneInTurn
  <2>3. PICK g \in Files : PutNew(g, st[c].put, c) BY <1>9 DEF Makes
  <2>4. CASE f = g
    <3>1. file'[g] = [mark |-> "profile", inBin |-> FALSE, past |-> <<st[c].put>>, hand |-> c]
      BY <2>3, PutNewMakes DEF Typed
    <3>2. file'[f].hand = c BY <2>4, <3>1
    <3> QED BY <1>5, <2>2, <3>2
  <2>5. CASE f # g
    <3>1. file'[f] = file[f] BY ZenonT(40), <1>3, <2>3, <2>5, PutNewMakes DEF Typed
    <3> QED BY <1>4, <3>1
  <2> QED BY <2>4, <2>5
<1>10. CASE SetsAside(c)
  <2>1. file'[f].past = file[f].past /\ file'[f].hand = file[f].hand
    BY <1>3, <1>10 DEF SetsAside, Typed, FilesTyped, FilesOf
  <2> QED BY <1>4, <2>1
<1> QED BY <1>7, <1>8, <1>9, <1>10, FilesMove

LEMMA NextUploading ==
  ASSUME NEW CONSTANT N, N \subseteq Int, Typed(N), \A e \in Calls : Placed(e), Uploading, [Next]_vars
  PROVE  Uploading'
<1>0. st \in [Calls -> CallStatesOf(N)] /\ file \in [Files -> FilesOf(N)] BY DEF Typed, CallsTyped, FilesTyped
<1>1. ground' = ground
  <2>1. ASSUME NEW c \in Calls, Acts(c) \/ LandLate(c) PROVE ground' = ground BY <2>1, ActsKeepBounds
  <2> QED BY <2>1 DEF Next, Acts, Lapse, Restart, Parent, AllDone, vars
<1> SUFFICES ASSUME OnTime
             PROVE  adrift' = {} /\ \A d \in Calls : st'[d].pc = "upload" => LandsOverNoneOfOurs(d)'
  BY <1>1 DEF Uploading, OnTime
<1>2. adrift = {} /\ \A d \in Calls : st[d].pc = "upload" => LandsOverNoneOfOurs(d) BY DEF Uploading
<1>3. ASSUME NEW c \in Calls, Acts(c)
      PROVE  adrift' = {} /\ \A d \in Calls : st'[d].pc = "upload" => LandsOverNoneOfOurs(d)'
  <2>1. ~Drift(c) BY DEF OnTime, Drift
  <2>2. adrift' = {}
    BY <1>2, <1>3, <2>1
       DEF Acts, Step, Begin, DriveFails, Unanswered, Recall, Fetch, Search, SearchBin, Found, Judge, Mending,
           CatchUp, TakeTurn, Locate, Check, Upload, Answered, Make, Made, List, Beside, ListBin, SetAside, Recover
  <2>3. ASSUME NEW d \in Calls, st'[d].pc = "upload" PROVE LandsOverNoneOfOurs(d)'
    <3>1. CASE d # c
      <4>1. st'[d] = st[d] BY <1>3, <3>1, StepPlaced DEF Alone, Acts
      <4> QED BY <1>3, <2>3, <3>1, <4>1, OthersLandElsewhere
    <3>2. CASE d = c
      <4>1. Check(c)
        <5>1. ~DriveFails(c) /\ ~Unanswered(c) /\ ~Drift(c) /\ ~Begin(c) BY <2>3, <3>2, Goes
        <5> QED BY <1>3, <2>3, <3>2, <5>1, Goes DEF Acts, Step
      <4>2. \E content \in Downloads(st[c].at) : Unchanged(c, content)
        <5>1. \A answer : ~Finish(c, answer) BY <2>3, <3>2, Ends DEF Typed
        <5> QED BY <4>1, <5>1 DEF Check
      <4>3. Now(st[c].at) = st[c].base BY <4>2 DEF Downloads, OnTime, Unchanged, Now
      <4>4. st'[c].at = st[c].at /\ st'[c].base = st[c].base BY <4>1, Goes DEF OnlyMoves, Matters
      <4>5. file' = file BY <4>1 DEF Check, world
      <4> QED BY <3>2, <4>3, <4>4, <4>5 DEF LandsOverNoneOfOurs, Now
    <3> QED BY <3>1, <3>2
  <2> QED BY <2>2, <2>3
<1>4. \A c \in Calls : ~LandLate(c) BY <1>2 DEF LandLate
<1>5. CASE Parent
  <2>1. st' = st /\ adrift' = adrift /\ Home' = Home BY <1>1, <1>5 DEF Parent, Home
  <2>2. PICK g \in Files : ParentPuts(g) \/ ParentMoves(g) BY <1>5, ParentIs
  <2>3. ASSUME NEW d \in Calls, st[d].pc = "upload" PROVE LandsOverNoneOfOurs(d)'
    <3> DEFINE f == st[d].at
    <3>1. f \in Files /\ LandsOverNoneOfOurs(d) BY <1>2, <2>3 DEF Placed, AtAFile
    <3>2. ASSUME file'[f].past = file[f].past, file'[f].hand = file[f].hand PROVE LandsOverNoneOfOurs(d)'
      BY <2>1, <3>1, <3>2 DEF LandsOverNoneOfOurs, Now
    <3>3. CASE f # g
      <4>1. file'[f] = file[f]
        <5>1. CASE ParentPuts(g) BY <3>1, <3>3, <5>1, PutAppends DEF ParentPuts, ParentWrites, Typed
        <5>2. CASE ParentMoves(g) BY <1>0, <3>1, <3>3, <5>2 DEF ParentMoves
        <5> QED BY <2>2, <5>1, <5>2
      <4> QED BY <3>2, <4>1
    <3>4. CASE f = g /\ ParentMoves(g)
      <4>1. file'[f].past = file[f].past /\ file'[f].hand = file[f].hand
        BY <1>0, <3>4 DEF ParentMoves, FilesOf
      <4> QED BY <3>2, <4>1
    <3>5. CASE f = g /\ ParentPuts(g)
      <4>1. file'[f].hand = NoCall BY <3>5, PutAppends DEF ParentPuts, ParentWrites, Typed
      <4> QED BY <2>1, <4>1, NoCallIsNone DEF LandsOverNoneOfOurs
    <3> QED BY <2>2, <3>3, <3>4, <3>5
  <2> QED BY <1>2, <2>1, <2>3
<1>6. CASE UNCHANGED vars BY <1>2, <1>6 DEF vars, LandsOverNoneOfOurs, Home, Now
<1>7. CASE \E i \in Instances : Lapse(i) BY <1>2, <1>7 DEF Lapse, world, LandsOverNoneOfOurs, Home, Now
<1>8. CASE \E i \in Instances : Restart(i)
  <2>1. PICK i \in Instances : Restart(i) BY <1>8
  <2>2. file' = file /\ adrift' = adrift /\ Home' = Home BY <1>1, <2>1 DEF Restart, world, Home
  <2>3. ASSUME NEW d \in Calls PROVE st'[d].pc = "done" \/ st'[d] = st[d]
    <3>1. st[d] \in CallStatesOf(N) BY CallIs DEF Typed
    <3>2. st'[d] = st[d] \/ st'[d] = [st[d] EXCEPT !.pc = "done", !.answer = "unknown"] BY <2>1 DEF Restart
    <3> QED BY <3>1, <3>2 DEF CallStatesOf
  <2>4. ASSUME NEW d \in Calls, st'[d].pc = "upload" PROVE LandsOverNoneOfOurs(d)'
    <3>1. st'[d] = st[d] BY <2>3, <2>4
    <3> QED BY <1>2, <2>2, <2>4, <3>1 DEF LandsOverNoneOfOurs, Now
  <2> QED BY <1>2, <2>2, <2>4
<1> QED BY <1>3, <1>4, <1>5, <1>6, <1>7, <1>8 DEF Next, Acts, AllDone

\* Two sessions one instance serves never meet between the read and the upload, as
\* long as Drive answers with what is there and lands an upload while its caller
\* waits (turns.go:11-15, drivestore.go:13-19).
THEOREM NeverLaidOver == Spec => NeverLaidOverOursOnTime
<1> DEFINE Inv == Stands /\ Uploading
           LaidRightly == ~ground.staleReads /\ ~ground.lateLandings =>
                              \A c \in Calls : UploadLands(c) => LandsOverNoneOfOurs(c)
<1>1. Init => Inv
  <2> SUFFICES ASSUME Init PROVE Inv OBVIOUS
  <2>1. st = [c \in Calls |-> Idle] /\ adrift = {} BY DEF Init
  <2> QED BY <2>1, InitStands DEF Uploading, Idle
<1>2. Inv /\ [Next]_vars => Inv'
  <2> SUFFICES ASSUME Inv, [Next]_vars PROVE Inv' OBVIOUS
  <2>1. Typed(Numbers) /\ Numbers \subseteq Int /\ \A d \in Calls : Placed(d) BY StandsTyped DEF Stands
  <2> QED BY <2>1, NextStands, NextUploading
<1>3. Inv => [LaidRightly]_vars BY DEF Uploading, OnTime, UploadLands
<1> QED BY <1>1, <1>2, <1>3, PTL DEF Spec, NeverLaidOverOursOnTime

-----------------------------------------------------------------------------
(***************************************************************************)
(* What an instance wrote.  A read is held to the number the instance      *)
(* remembers having written.  A read that is damaged is held to nothing,   *)
(* and the file is searched for again; but in a file nothing but sessions  *)
(* moved on the second state alone may be damaged, so the number was among *)
(* the first, and any later read has passed it.                            *)
(***************************************************************************)

\* The states of a file nothing but sessions moved on: the first of them reads, one
\* there at first in its place may not, and each that was computed is later than that.
WellMade(f) ==
    LET past == file[f].past IN
    /\ past # <<>> => past[1].kind = "reads" /\ past[1].rev = 1
    /\ \A n \in DOMAIN past : past[n].kind = "reads" => past[n].rev >= 1 /\ (n >= 2 => past[n].rev >= 2)
    /\ \A n \in DOMAIN past : past[n].kind # "reads" => n = 2 /\ past[n].rev = 0
    /\ 3 \in DOMAIN past /\ past[2].kind # "reads" => past[3].rev <= 2

\* What an entry says was written to a file is the number of one of its states.
ReachedAt(entry, files) ==
    entry.file \in Files =>
        LET past == files[entry.file].past IN
        /\ past # <<>>
        /\ entry.written > 0 => \E n \in DOMAIN past : past[n].rev = entry.written
Reaches(c) == \A g \in {"known", "early", "wrote"} : ReachedAt(st[c][g], file)

\* Where a call is, there was a file; what it was answered to have put there is there.
AtAState(c) ==
    /\ st[c].at \in Files => file[st[c].at].past # <<>>
    /\ st[c].pc \in {"answered", "made"} => \E n \in DOMAIN file[st[c].at].past : file[st[c].at].past[n] = st[c].put

\* What a session puts is computed from a state of the file it puts it in.
Computed(c) ==
    /\ st[c].loaded =>
        /\ st[c].from \in Files /\ st[c].base.kind = "reads"
        /\ \E n \in DOMAIN file[st[c].from].past : file[st[c].from].past[n] = st[c].base
        /\ st[c].put.kind = "reads" /\ st[c].put.rev = st[c].base.rev + 1
        /\ st[c].pc \in {"upload", "answered"} \/ c \in adrift => st[c].at = st[c].from
    /\ c \in adrift => st[c].loaded \/ st[c].op = "restore"
    /\ st[c].pc # "idle" /\ st[c].op \in {"create", "startOver"} => st[c].put.rev = 1 /\ st[c].put.kind = "reads"

\* The number a read is held to is among the first states of its file, which any
\* later read has passed.
Low(c) ==
    \/ st[c].wrote.written <= 1
    \/ st[c].wrote.written <= 2 /\ Len(file[st[c].wrote.file].past) >= 3
Gone(f) == ~Exists(f) /\ file[f].past # <<>>

\* What a call knows of its file while it reads.
Recalled(c) ==
    LET s == st[c] IN
    /\ s.known \in {NoEntry, s.wrote} /\ s.early \in {NoEntry, s.wrote}
    /\ s.pc \in {"idle", "read"} => s.early = NoEntry
    /\ ~s.loaded /\ s.known = NoEntry /\ s.wrote.file \in Files /\ OnlyMovedOn(s.wrote.file)
          => Gone(s.wrote.file) \/ Low(c)
    /\ s.pc = "catchUp" => s.known # NoEntry
    /\ s.pc = "judge" /\ s.at = s.wrote.file /\ OnlyMovedOn(s.at) =>
          /\ s.got.kind # "reads" => Low(c)
          /\ s.got.kind = "reads" /\ s.known = NoEntry => s.got.rev >= s.wrote.written
    /\ s.pc = "judge" => \E n \in DOMAIN file[s.at].past : file[s.at].past[n] = s.got


\* What a call goes on with is not behind what it knew was written.
Seen(c) ==
    st[c].loaded /\ st[c].from = st[c].wrote.file /\ OnlyMovedOn(st[c].from)
        => st[c].base.rev >= st[c].wrote.written

Own(c) == Reaches(c) /\ AtAState(c) /\ Computed(c) /\ Recalled(c) /\ Seen(c)
OwnWrites ==
    /\ \A f \in Files : OnlyMovedOn(f) => WellMade(f)
    /\ \A i \in Instances : ReachedAt(mem[i], file)
    /\ \A c \in Calls : Own(c)

\* How the states of a file come: a session's by an upload or with the file, and the
\* parent's.
PastStays(f) == file'[f].past = file[f].past
PutThere(f) ==
    \E c \in Calls : (Acts(c) \/ LandLate(c)) /\ Writes(c) /\ f = st[c].at /\ file'[f].past = Append(file[f].past, st[c].put)
MadeThere(f) ==
    \E c \in Calls : (Acts(c) \/ LandLate(c)) /\ Makes(c) /\ file[f].past = <<>> /\ file'[f].past = <<st[c].put>>
ByTheParent(f) == \E content : content.by = acts + 1 /\ file'[f].past = Append(file[f].past, content)

LEMMA PastMoves ==
  ASSUME NEW CONSTANT N, N \subseteq Int, Typed(N), \A c \in Calls : Placed(c),
         Next \/ UNCHANGED vars, NEW f \in Files
  PROVE  PastStays(f) \/ PutThere(f) \/ MadeThere(f) \/ ByTheParent(f)
<1>0. file \in [Files -> FilesOf(N)] BY DEF Typed, FilesTyped
<1>p. ASSUME NEW g \in Files, NEW content, NEW hand, Put(g, content, hand)
      PROVE  (f # g /\ PastStays(f)) \/ (f = g /\ file'[f].past = Append(file[f].past, content))
  <2>1. CASE f # g
    <3>1. file'[f] = file[f] BY <1>0, <1>p, <2>1 DEF Put
    <3> QED BY <2>1, <3>1 DEF PastStays
  <2>2. CASE f = g
    <3>1. file'[f] = [file[f] EXCEPT !.past = Append(file[f].past, content), !.hand = hand]
      BY <1>0, <1>p, <2>2 DEF Put
    <3>2. file[f] \in FilesOf(N) BY <1>0
    <3> QED BY <2>2, <3>1, <3>2 DEF FilesOf
  <2> QED BY <2>1, <2>2
<1>1. ASSUME NEW c \in Calls, Acts(c) \/ LandLate(c) PROVE PastStays(f) \/ PutThere(f) \/ MadeThere(f)
  <2>1. CASE UNCHANGED world BY <2>1 DEF world, PastStays
  <2>2. CASE Writes(c)
    <3>1. st[c].at \in Files BY <2>2 DEF Writes, Placed, AtAFile
    <3>2. Put(st[c].at, st[c].put, c) BY <2>2 DEF Writes
    <3> QED BY <1>1, <1>p, <2>2, <3>1, <3>2 DEF PutThere
  <2>3. CASE Makes(c)
    <3>1. PICK g \in Files : PutNew(g, st[c].put, c) BY <2>3 DEF Makes
    <3>2. /\ \A h \in Files \ {g} : file'[h] = file[h]
          /\ file[g].past = <<>>
          /\ file'[g] = [mark |-> "profile", inBin |-> FALSE, past |-> <<st[c].put>>, hand |-> c]
      BY <3>1, PutNewMakes DEF Typed
    <3>3. file'[g].past = <<st[c].put>> BY <3>2
    <3> QED BY <1>1, <2>3, <3>2, <3>3 DEF PastStays, MadeThere
  <2>4. CASE SetsAside(c)
    <3>1. file'[f].past = file[f].past BY <1>0, <2>4 DEF SetsAside, FilesOf
    <3> QED BY <3>1 DEF PastStays
  <2> QED BY <1>1, <2>1, <2>2, <2>3, <2>4, FilesMove
<1>2. CASE Parent
  <2>1. PICK g \in Files : ParentPuts(g) \/ ParentMoves(g) BY <1>2, ParentIs
  <2>2. CASE ParentPuts(g)
    <3>1. PICK kind \in Kinds, rev \in Int : ParentWrites(g, kind, rev) BY <2>2 DEF ParentPuts
    <3> DEFINE content == [kind |-> kind, rev |-> rev, by |-> acts + 1]
    <3>2. Put(g, content, NoCall) BY <3>1 DEF ParentWrites
    <3>3. content.by = acts + 1 OBVIOUS
    <3> HIDE DEF content
    <3> QED BY <1>p, <3>2, <3>3 DEF ByTheParent
  <2>3. CASE ParentMoves(g)
    <3>1. file'[f].past = file[f].past
      <4>1. CASE f = g BY <1>0, <2>3, <4>1 DEF ParentMoves, FilesOf
      <4>2. CASE f # g BY <1>0, <2>3, <4>2 DEF ParentMoves
      <4> QED BY <4>1, <4>2
    <3> QED BY <3>1 DEF PastStays
  <2> QED BY <2>1, <2>2, <2>3
<1>3. CASE \E i \in Instances : Lapse(i) \/ Restart(i) BY <1>3 DEF Lapse, Restart, world, PastStays
<1>4. CASE UNCHANGED vars BY <1>4 DEF vars, PastStays
<1> QED BY <1>1, <1>2, <1>3, <1>4 DEF Next, Acts, AllDone

\* A file has as many states as before, or one more.
LEMMA PastIsLonger ==
  ASSUME NEW CONSTANT N, FilesTyped(N), NEW f \in Files,
         PastStays(f) \/ PutThere(f) \/ MadeThere(f) \/ ByTheParent(f)
  PROVE  /\ Len(file[f].past) \in Nat /\ Len(file'[f].past) \in Nat /\ Len(file[f].past) <= Len(file'[f].past)
         /\ DOMAIN file[f].past = 1..Len(file[f].past) /\ DOMAIN file'[f].past = 1..Len(file'[f].past)
         /\ file[f].past # <<>> => file'[f].past # <<>>
         /\ file[f].past # <<>> <=> Len(file[f].past) > 0
<1>1. PICK past \in Seq(ContentsOf(N)) : past = file[f].past BY DEF FilesTyped, FilesOf
<1>2. CASE PastStays(f) BY <1>1, <1>2 DEF PastStays
<1>3. CASE \E content : file'[f].past = Append(file[f].past, content)
  <2>1. PICK content : file'[f].past = Append(past, content) BY <1>1, <1>3
  <2>2. Len(Append(past, content)) = Len(past) + 1 /\ DOMAIN Append(past, content) = 1..(Len(past) + 1)
    BY <1>1
  <2> QED BY <1>1, <2>1, <2>2
<1>4. CASE file[f].past = <<>> /\ \E content : file'[f].past = <<content>>
  <2>1. PICK content : file'[f].past = <<content>> BY <1>4
  <2>2. Len(<<content>>) = 1 /\ DOMAIN <<content>> = 1..1 OBVIOUS
  <2> QED BY <1>1, <1>4, <2>1, <2>2
<1> QED BY <1>2, <1>3, <1>4 DEF PutThere, MadeThere, ByTheParent

\* A file that is gone stays gone.
LEMMA GoneStays ==
  ASSUME NEW CONSTANT N, N \subseteq Int, Typed(N), \A c \in Calls : Placed(c),
         Next \/ UNCHANGED vars, NEW f \in Files, Gone(f)
  PROVE  Gone(f)'
<1>0. file \in [Files -> FilesOf(N)] BY DEF Typed, FilesTyped
<1>1. file'[f].past # <<>> BY PastMoves, PastIsLonger DEF Typed, Gone
<1>2. file[f].mark = "none" BY DEF Gone, Exists
<1>p. ASSUME NEW g \in Files, NEW content, NEW hand, Put(g, content, hand) PROVE file'[f].mark = file[f].mark
  <2>1. CASE f # g
    <3>1. file'[f] = file[f] BY <1>0, <1>p, <2>1 DEF Put
    <3> QED BY <3>1
  <2>2. CASE f = g
    <3>1. file'[f] = [file[f] EXCEPT !.past = Append(file[f].past, content), !.hand = hand]
      BY <1>0, <1>p, <2>2 DEF Put
    <3>2. file[f] \in FilesOf(N) BY <1>0
    <3> QED BY <3>1, <3>2 DEF FilesOf
  <2> QED BY <2>1, <2>2
<1>3. ASSUME NEW c \in Calls, Acts(c) \/ LandLate(c) PROVE file'[f].mark = "none"
  <2>1. CASE UNCHANGED world BY <1>2, <2>1 DEF world
  <2>2. CASE Writes(c)
    <3>1. st[c].at \in Files BY <2>2 DEF Writes, Placed, AtAFile
    <3>2. Put(st[c].at, st[c].put, c) BY <2>2 DEF Writes
    <3> QED BY <1>2, <1>p, <3>1, <3>2
  <2>3. CASE Makes(c)
    <3>1. PICK g \in Files : PutNew(g, st[c].put, c) BY <2>3 DEF Makes
    <3>2. (\A h \in Files \ {g} : file'[h] = file[h]) /\ file[g].past = <<>>
      BY <3>1, PutNewMakes DEF Typed
    <3>3. f # g BY <3>2 DEF Gone
    <3> QED BY <1>2, <3>2, <3>3
  <2>4. CASE SetsAside(c)
    <3> DEFINE g == Head(st[c].doomed)
    <3>1. f # g BY <1>2, <2>4 DEF SetsAside, Exists
    <3>2. file' = [file EXCEPT ![g].mark = "aside"] BY <2>4 DEF SetsAside
    <3> HIDE DEF g
    <3>3. file'[f] = file[f] BY <1>0, <3>1, <3>2
    <3> QED BY <1>2, <3>3
  <2> QED BY <1>3, <2>1, <2>2, <2>3, <2>4, FilesMove
<1>4. ASSUME Parent PROVE file'[f].mark = "none"
  <2>1. PICK g \in Files : ParentPuts(g) \/ ParentMoves(g) BY <1>4, ParentIs
  <2>2. CASE ParentPuts(g)
    <3>1. PICK kind \in Kinds, rev \in Int : ParentWrites(g, kind, rev) BY <2>2 DEF ParentPuts
    <3> DEFINE content == [kind |-> kind, rev |-> rev, by |-> acts + 1]
    <3>2. Put(g, content, NoCall) BY <3>1 DEF ParentWrites
    <3> HIDE DEF content
    <3> QED BY <1>2, <1>p, <3>2
  <2>3. CASE ParentMoves(g)
    <3>1. CASE f = g BY <1>0, <1>2, <2>3, <3>1 DEF ParentMoves, FilesOf
    <3>2. CASE f # g BY <1>0, <1>2, <2>3, <3>2 DEF ParentMoves
    <3> QED BY <3>1, <3>2
  <2> QED BY <2>1, <2>2, <2>3
<1>5. ASSUME \E i \in Instances : Lapse(i) \/ Restart(i) PROVE file'[f].mark = "none" BY <1>2, <1>5 DEF Lapse, Restart, world
<1>6. ASSUME UNCHANGED vars PROVE file'[f].mark = "none" BY <1>2, <1>6 DEF vars
<1>7. file'[f].mark = "none" BY <1>3, <1>4, <1>5, <1>6 DEF Next, Acts, AllDone
<1> QED BY <1>1, <1>7 DEF Gone, Exists

-----------------------------------------------------------------------------
\* What a step changes of what a call has read, and where that takes it.
Read == {"op", "got", "known", "early", "base", "from", "put", "loaded", "wrote"}
KeepsBut(c, changed) == \A g \in Read \ changed : st'[c][g] = st[c][g]
Began(c) ==
    /\ KeepsBut(c, {"op", "put"})
    /\ st[c].pc = "idle" /\ st'[c].pc \in {"read", "turn"} /\ st'[c].at = st[c].at
    /\ st'[c].put = [kind |-> "reads", rev |-> 1, by |-> c]
Recalls(c) ==
    /\ KeepsBut(c, {"known", "wrote"})
    /\ st[c].pc = "read" /\ st'[c].pc = "fetch"
    /\ st'[c].known = mem[Home[c]] /\ st'[c].wrote = mem[Home[c]] /\ mem[Home[c]].file # NoFile
Fetches(c) ==
    /\ KeepsBut(c, {"got"})
    /\ st[c].pc = "fetch" /\ Exists(st[c].at) /\ st'[c].pc = "judge" /\ st'[c].at = st[c].at
    /\ st'[c].got \in Downloads(st[c].at)
FindsItGone(c) ==
    /\ KeepsBut(c, {"known"})
    /\ st[c].pc = "fetch" /\ ~Exists(st[c].at) /\ FromMemory(c) /\ st'[c].pc = "search"
    /\ st'[c].known = NoEntry /\ st'[c].at = st[c].at
Doubts(c) ==
    /\ KeepsBut(c, {"known", "early"})
    /\ st[c].pc = "judge" /\ st[c].got.kind # "reads" /\ FromMemory(c) /\ st'[c].pc = "search"
    /\ st'[c].known = NoEntry /\ st'[c].early = st[c].known /\ st'[c].at = st[c].at
Mends(c) ==
    /\ KeepsBut(c, {"got", "known"})
    /\ st[c].pc = "mending" /\ Exists(st[c].early.file) /\ st'[c].pc = "judge" /\ st'[c].at = st[c].at
    /\ st'[c].known = st[c].early
    /\ st'[c].got \in Downloads(st[c].early.file) /\ st'[c].got.kind = "reads"
LoadsIt(c) ==
    /\ KeepsBut(c, {"base", "from", "put", "loaded"})
    /\ st'[c].pc = "turn" /\ st'[c].loaded /\ st'[c].at = st[c].at /\ st'[c].from = st[c].at
    /\ st'[c].put = [kind |-> "reads", rev |-> MovedOn(st'[c].base.rev), by |-> c]
    /\ st'[c].base.kind = "reads" /\ ~IsBehind(c, st'[c].base)
    /\ \/ st[c].pc = "judge" /\ st'[c].base = st[c].got
       \/ st[c].pc = "catchUp" /\ Exists(st[c].at) /\ st'[c].base \in Downloads(st[c].at)
Recovers(c) ==
    /\ KeepsBut(c, {"base", "from", "put"})
    /\ st[c].pc = "recover" /\ st'[c].pc = "turn" /\ st'[c].at = st[c].at
Passes(c) ==
    /\ KeepsBut(c, {})
    /\ st[c].pc # "idle" /\ st'[c].pc \notin {"idle", "read", "judge"}
    /\ st'[c].pc = "catchUp" => st[c].pc = "judge" /\ IsBehind(c, st[c].got)
    /\ st'[c].pc = "upload" => st[c].at = st[c].from /\ st'[c].at = st[c].at
    /\ st'[c].pc = "answered" => st[c].pc = "upload" /\ st'[c].at = st[c].at /\ Writes(c)
    /\ st'[c].pc = "made" => st[c].pc = "make" /\ PutNew(st'[c].at, st[c].put, c) /\ st'[c].at \in Files

LEMMA ReadMoves ==
  ASSUME NEW CONSTANT N, Typed(N), NEW c \in Calls, Acts(c)
  PROVE  \/ Passes(c) \/ Began(c) \/ Recalls(c) \/ Fetches(c) \/ FindsItGone(c) \/ Doubts(c) \/ Mends(c)
         \/ LoadsIt(c) \/ Recovers(c)
<1>0. st \in [Calls -> CallStatesOf(N)] /\ st[c] \in CallStatesOf(N) BY DEF Typed, CallsTyped
<1>f. Read \subseteq Matters BY DEF Read, Matters
<1>a. OnlyMoves(c) => KeepsBut(c, {}) /\ st'[c].at = st[c].at BY <1>f DEF OnlyMoves, KeepsBut, Matters
<1>b. ASSUME NEW answer, Finish(c, answer), st[c].pc # "idle" PROVE Passes(c)
  <2>1. OnlyMoves(c) /\ st'[c].pc = "done" BY <1>b, Ends DEF Typed
  <2> QED BY <1>a, <1>b, <2>1 DEF Passes
<1>c. ASSUME NEW place, Go(c, place) PROVE KeepsBut(c, {}) /\ st'[c].at = st[c].at /\ st'[c].pc = place
  BY <1>a, <1>c, GoesOn DEF Typed
<1>1. CASE Begin(c)
  <2>1. PICK op \in ground.ops :
          st' = [st EXCEPT ![c].pc = IF op \in {"write", "restore"} THEN "read" ELSE "turn",
                           ![c].op = op,
                           ![c].put = [kind |-> "reads", rev |-> 1, by |-> c]]
    BY <1>1 DEF Begin
  <2> DEFINE p == IF op \in {"write", "restore"} THEN "read" ELSE "turn"
             new == [kind |-> "reads", rev |-> 1, by |-> c]
  <2>2. st' = [st EXCEPT ![c] = [st[c] EXCEPT !.pc = p, !.op = op, !.put = new]] BY <1>0, <2>1
  <2> HIDE DEF p, new
  <2>3. st'[c] = [st[c] EXCEPT !.pc = p, !.op = op, !.put = new] BY <1>0, <2>2
  <2>4. st'[c].put = new /\ st'[c].at = st[c].at /\ \A g \in Read \ {"op", "put"} : st'[c][g] = st[c][g]
    BY <1>0, <2>3 DEF CallStatesOf, Read
  <2>5. st'[c].pc \in {"read", "turn"} BY <1>1, Goes
  <2> QED BY <1>1, <2>4, <2>5 DEF Begin, Began, KeepsBut, new
<1>2. CASE Recall(c)
  <2>1. CASE Known(Home[c])
    <3>1. st'[c] = [st[c] EXCEPT !.pc = "fetch", !.at = mem[Home[c]].file, !.known = mem[Home[c]], !.wrote = mem[Home[c]]]
      BY <1>0, <1>2, <2>1 DEF Recall
    <3>2. /\ st'[c].pc = "fetch" /\ st'[c].known = mem[Home[c]] /\ st'[c].wrote = mem[Home[c]]
          /\ \A g \in Read \ {"known", "wrote"} : st'[c][g] = st[c][g]
      BY <1>0, <3>1 DEF CallStatesOf, Read
    <3> QED BY <1>2, <2>1, <3>2 DEF Recalls, KeepsBut, Recall, Known
  <2>2. CASE ~Known(Home[c])
    <3>1. Go(c, "search") /\ st[c].pc = "read" BY <1>2, <2>2 DEF Recall
    <3> QED BY <1>c, <3>1 DEF Passes
  <2> QED BY <2>1, <2>2
<1>3. CASE Fetch(c)
  <2>1. ASSUME Exists(st[c].at), NEW content \in Downloads(st[c].at),
               st' = [st EXCEPT ![c].pc = "judge", ![c].got = content]
        PROVE  Fetches(c)
    <3>1. st'[c] = [st[c] EXCEPT !.pc = "judge", !.got = content] BY <1>0, <2>1
    <3>2. /\ st'[c].pc = "judge" /\ st'[c].got = content /\ st'[c].at = st[c].at
          /\ \A g \in Read \ {"got"} : st'[c][g] = st[c][g]
      BY <1>0, <3>1 DEF CallStatesOf, Read
    <3> QED BY <1>3, <2>1, <3>2 DEF Fetches, KeepsBut, Fetch
  <2>2. ASSUME ~Exists(st[c].at), FromMemory(c), st' = [st EXCEPT ![c].pc = "search", ![c].known = NoEntry]
        PROVE  FindsItGone(c)
    <3>1. st'[c] = [st[c] EXCEPT !.pc = "search", !.known = NoEntry] BY <1>0, <2>2
    <3>2. /\ st'[c].pc = "search" /\ st'[c].known = NoEntry /\ st'[c].at = st[c].at
          /\ \A g \in Read \ {"known"} : st'[c][g] = st[c][g]
      BY <1>0, <3>1 DEF CallStatesOf, Read
    <3> QED BY <1>3, <2>2, <3>2 DEF FindsItGone, KeepsBut, Fetch
  <2>3. st[c].pc = "fetch" BY <1>3 DEF Fetch
  <2> QED BY <1>3, <1>b, <2>1, <2>2, <2>3 DEF Fetch
<1>l. ASSUME NEW content, Loaded(c, content)
      PROVE  /\ KeepsBut(c, {"base", "from", "put", "loaded"})
             /\ st'[c].pc = "turn" /\ st'[c].loaded /\ st'[c].at = st[c].at /\ st'[c].from = st[c].at
             /\ st'[c].base = content /\ st'[c].put = [kind |-> "reads", rev |-> MovedOn(content.rev), by |-> c]
  <2> DEFINE new == [kind |-> "reads", rev |-> MovedOn(content.rev), by |-> c]
             one == [st[c] EXCEPT !.pc = "turn", !.loaded = TRUE, !.base = content, !.from = st[c].at, !.put = new]
  <2>1. st'[c] = one BY <1>0, <1>l DEF Loaded
  <2> HIDE DEF new
  <2>2. /\ one.pc = "turn" /\ one.loaded /\ one.at = st[c].at /\ one.from = st[c].at
        /\ one.base = content /\ one.put = new
    BY <1>0 DEF CallStatesOf
  <2>3. \A g \in Read \ {"base", "from", "put", "loaded"} : one[g] = st[c][g] BY <1>0 DEF CallStatesOf, Read
  <2> HIDE DEF one
  <2> QED BY <2>1, <2>2, <2>3 DEF KeepsBut, new
<1>4. CASE Judge(c)
  <2>0. st[c].pc = "judge" BY <1>4 DEF Judge
  <2>1. CASE JudgeReadable(c)
    <3>1. ASSUME IsBehind(c, st[c].got), Go(c, "catchUp") PROVE Passes(c)
      BY <1>c, <2>0, <3>1 DEF Passes
    <3>2. ASSUME ~IsBehind(c, st[c].got), Loaded(c, st[c].got) PROVE LoadsIt(c)
      BY <1>l, <2>0, <2>1, <3>2 DEF LoadsIt, JudgeReadable
    <3> QED BY <1>b, <2>0, <2>1, <3>1, <3>2 DEF JudgeReadable
  <2>2. CASE JudgeRemembered(c)
    <3>1. st'[c] = [st[c] EXCEPT !.pc = "search", !.known = NoEntry, !.early = st[c].known]
      BY <1>0, <2>2 DEF JudgeRemembered
    <3>2. /\ st'[c].pc = "search" /\ st'[c].known = NoEntry /\ st'[c].early = st[c].known /\ st'[c].at = st[c].at
          /\ \A g \in Read \ {"known", "early"} : st'[c][g] = st[c][g]
      BY <1>0, <3>1 DEF CallStatesOf, Read
    <3> QED BY <2>0, <2>2, <3>2 DEF Doubts, KeepsBut, JudgeRemembered
  <2>3. CASE JudgeFound(c)
    <3>1. ASSUME NEW place \in {"mending", "recover"}, Go(c, place) PROVE Passes(c)
      BY <1>c, <2>0, <3>1 DEF Passes
    <3> QED BY <1>b, <2>0, <2>3, <3>1 DEF JudgeFound
  <2> QED BY <1>4, <2>1, <2>2, <2>3 DEF Judge
<1>5. CASE Mending(c)
  <2>1. ASSUME Exists(st[c].early.file), NEW content \in Downloads(st[c].early.file), content.kind = "reads",
               st' = [st EXCEPT ![c].pc = "judge", ![c].got = content, ![c].known = st[c].early]
        PROVE  Mends(c)
    <3>1. st'[c] = [st[c] EXCEPT !.pc = "judge", !.got = content, !.known = st[c].early] BY <1>0, <2>1
    <3>2. /\ st'[c].pc = "judge" /\ st'[c].got = content /\ st'[c].known = st[c].early /\ st'[c].at = st[c].at
          /\ \A g \in Read \ {"got", "known"} : st'[c][g] = st[c][g]
      BY <1>0, <3>1 DEF CallStatesOf, Read
    <3> QED BY <1>5, <2>1, <3>2 DEF Mends, KeepsBut, Mending
  <2>3. st[c].pc = "mending" BY <1>5 DEF Mending
  <2> QED BY <1>5, <1>b, <2>1, <2>3 DEF Mending
<1>6. CASE CatchUp(c)
  <2>1. st[c].pc = "catchUp" BY <1>6 DEF CatchUp
  <2>2. ASSUME Exists(st[c].at), NEW content \in Downloads(st[c].at), content.kind = "reads", ~IsBehind(c, content),
               Loaded(c, content)
        PROVE  LoadsIt(c)
    BY <1>l, <2>1, <2>2 DEF LoadsIt
  <2> QED BY <1>6, <1>b, <2>1, <2>2 DEF CatchUp
<1>7. CASE Recover(c)
  <2>1. st[c].pc = "recover" BY <1>7 DEF Recover
  <2>2. ASSUME NEW put, st' = [st EXCEPT ![c].pc = "turn", ![c].from = st[c].at, ![c].base = st[c].got, ![c].put = put]
        PROVE  Recovers(c)
    <3>1. st'[c] = [st[c] EXCEPT !.pc = "turn", !.from = st[c].at, !.base = st[c].got, !.put = put] BY <1>0, <2>2
    <3>2. /\ st'[c].pc = "turn" /\ st'[c].at = st[c].at
          /\ \A g \in Read \ {"base", "from", "put"} : st'[c][g] = st[c][g]
      BY <1>0, <3>1 DEF CallStatesOf, Read
    <3> QED BY <2>1, <3>2 DEF Recovers, KeepsBut
  <2> QED BY <1>7, <1>b, <2>1, <2>2 DEF Recover
<1>8. CASE Check(c)
  <2>1. st[c].pc = "check" BY <1>8 DEF Check
  <2>2. ASSUME st[c].at = st[c].from, Go(c, "upload") PROVE Passes(c) BY <1>c, <2>1, <2>2 DEF Passes
  <2> QED BY <1>8, <1>b, <2>1, <2>2 DEF Check
<1>9. CASE Upload(c)
  <2>1. st[c].pc = "upload" BY <1>9 DEF Upload
  <2>2. ASSUME Exists(st[c].at), Put(st[c].at, st[c].put, c), landed' = landed \cup {c},
               NEW so, st' = [st EXCEPT ![c].pc = "answered", ![c].sound = so]
        PROVE  Passes(c)
    <3>1. st'[c] = [st[c] EXCEPT !.pc = "answered", !.sound = so] BY <1>0, <2>2
    <3>2. st'[c].pc = "answered" /\ st'[c].at = st[c].at /\ \A g \in Read : st'[c][g] = st[c][g]
      BY <1>0, <3>1 DEF CallStatesOf, Read
    <3> QED BY <2>1, <2>2, <3>2 DEF Passes, KeepsBut, Writes
  <2> QED BY <1>9, <1>b, <2>1, <2>2 DEF Upload
<1>10. CASE Make(c)
  <2>1. PICK f \in Files : PutNew(f, st[c].put, c) /\ st' = [st EXCEPT ![c].pc = "made", ![c].at = f]
    BY <1>10 DEF Make
  <2>2. st'[c] = [st[c] EXCEPT !.pc = "made", !.at = f] BY <1>0, <2>1
  <2>3. st'[c].pc = "made" /\ st'[c].at = f /\ \A g \in Read : st'[c][g] = st[c][g]
    BY <1>0, <2>2 DEF CallStatesOf, Read
  <2> QED BY <1>10, <2>1, <2>3 DEF Make, Passes, KeepsBut
<1>11. CASE SearchBin(c) \/ Found(c) \/ Answered(c) \/ Made(c) \/ DriveFails(c) \/ Unanswered(c) \/ Drift(c)
  <2>1. OnlyMoves(c) /\ st'[c].pc \in {"make", "done", "check", "fetch", "aside"} BY <1>11, Goes
  <2>2. st[c].pc # "idle"
    BY <1>11 DEF SearchBin, Found, Answered, Made, DriveFails, Unanswered, Drift, Requests
  <2> QED BY <1>a, <2>1, <2>2 DEF Passes
<1>12. CASE Search(c) \/ Locate(c)
  <2>a. PICK p \in {"found", "bin", "check", "search"} :
          \/ st' = [st EXCEPT ![c].pc = p]
          \/ \E f : st' = [st EXCEPT ![c].pc = p, ![c].at = f]
    BY <1>12 DEF Search, Locate
  <2>1. \E f : \/ st' = [st EXCEPT ![c].pc = p]
              \/ st' = [st EXCEPT ![c].pc = p, ![c].at = f]
    BY <2>a
  <2>2. \E f : st'[c] = [st[c] EXCEPT !.pc = p, !.at = f] \/ st'[c] = [st[c] EXCEPT !.pc = p] BY <1>0, <2>1
  <2>3. st'[c].pc = p /\ \A g \in Read : st'[c][g] = st[c][g] BY <1>0, <2>2 DEF CallStatesOf, Read
  <2>4. st[c].pc # "idle" BY <1>12 DEF Search, Locate
  <2> QED BY <2>3, <2>4 DEF Passes, KeepsBut
<1>13. CASE TakeTurn(c)
  <2>1. \E p : st' = [st EXCEPT ![c].pc = p] BY <1>13 DEF TakeTurn
  <2>2. PICK p : st' = [st EXCEPT ![c].pc = p] BY <2>1
  <2>3. st'[c] = [st[c] EXCEPT !.pc = p] BY <1>0, <2>2
  <2>4. \A g \in Read : st'[c][g] = st[c][g] BY <1>0, <2>3 DEF CallStatesOf, Read
  <2>5. st[c].pc # "idle" BY <1>13 DEF TakeTurn
  <2>6. st'[c].pc \in {"locate", "search", "check", "list"} BY <1>13, Goes
  <2> QED BY <2>4, <2>5, <2>6 DEF Passes, KeepsBut
<1>14. CASE List(c) \/ Beside(c) \/ ListBin(c) \/ SetAside(c)
  <2>1. st[c].pc # "idle" BY <1>14 DEF List, Beside, ListBin, SetAside
  <2>2. st'[c].pc \in {"beside", "done", "make", "aside"} BY <1>14, Goes
  <2>3. KeepsBut(c, {})
    <3>1. CASE \E answer : Finish(c, answer) BY <1>b, <2>1, <3>1 DEF Passes
    <3>2. CASE \E p, f, todo, doomed :
                  \/ st' = [st EXCEPT ![c].pc = p, ![c].todo = todo, ![c].at = f]
                  \/ st' = [st EXCEPT ![c].todo = todo]
                  \/ st' = [st EXCEPT ![c].todo = todo, ![c].doomed = doomed]
                  \/ st' = [st EXCEPT ![c].pc = p, ![c].doomed = doomed]
                  \/ st' = [st EXCEPT ![c].doomed = doomed]
      <4>1. PICK p, f, todo, doomed :
                  \/ st' = [st EXCEPT ![c].pc = p, ![c].todo = todo, ![c].at = f]
                  \/ st' = [st EXCEPT ![c].todo = todo]
                  \/ st' = [st EXCEPT ![c].todo = todo, ![c].doomed = doomed]
                  \/ st' = [st EXCEPT ![c].pc = p, ![c].doomed = doomed]
                  \/ st' = [st EXCEPT ![c].doomed = doomed]
        BY <3>2
      <4>2. \/ st'[c] = [st[c] EXCEPT !.pc = p, !.todo = todo, !.at = f]
            \/ st'[c] = [st[c] EXCEPT !.todo = todo]
            \/ st'[c] = [st[c] EXCEPT !.todo = todo, !.doomed = doomed]
            \/ st'[c] = [st[c] EXCEPT !.pc = p, !.doomed = doomed]
            \/ st'[c] = [st[c] EXCEPT !.doomed = doomed]
        BY <1>0, <4>1
      <4>3. \A g \in Read : st'[c][g] = st[c][g] BY <1>0, <4>2 DEF CallStatesOf, Read
      <4> QED BY <4>3 DEF KeepsBut
    <3>3. CASE List(c) BY <3>2, <3>3 DEF List
    <3>4. CASE Beside(c) BY <3>1, <3>2, <3>4 DEF Beside
    <3>5. CASE ListBin(c) BY <3>2, <3>5 DEF ListBin
    <3>6. CASE SetAside(c) BY <3>1, <3>2, <3>6 DEF SetAside
    <3> QED BY <1>14, <3>3, <3>4, <3>5, <3>6
  <2> QED BY <2>1, <2>2, <2>3 DEF Passes
<1> QED BY <1>1, <1>2, <1>3, <1>4, <1>5, <1>6, <1>7, <1>8, <1>9, <1>10, <1>11, <1>12, <1>13, <1>14 DEF Acts, Step

-----------------------------------------------------------------------------
\* A call that has begun is of one kind; one whose write has landed is at the file it
\* landed in.
LEMMA KindStays ==
  ASSUME NEW CONSTANT N, Typed(N), NEW c \in Calls, Acts(c), st[c].pc # "idle"
  PROVE  st'[c].op = st[c].op
<1>1. \A changed : KeepsBut(c, changed) /\ "op" \notin changed => st'[c].op = st[c].op BY DEF KeepsBut, Read
<1>2. KeepsBut(c, {}) => st'[c].op = st[c].op BY <1>1
<1>3. KeepsBut(c, {"known", "wrote"}) => st'[c].op = st[c].op BY <1>1
<1>4. KeepsBut(c, {"got"}) \/ KeepsBut(c, {"known"}) => st'[c].op = st[c].op BY <1>1
<1>5. KeepsBut(c, {"known", "early"}) \/ KeepsBut(c, {"got", "known"}) => st'[c].op = st[c].op BY <1>1
<1>6. KeepsBut(c, {"base", "from", "put", "loaded"}) \/ KeepsBut(c, {"base", "from", "put"}) => st'[c].op = st[c].op
  BY <1>1
<1> QED BY <1>2, <1>3, <1>4, <1>5, <1>6, ReadMoves
        DEF Passes, Began, Recalls, Fetches, FindsItGone, Doubts, Mends, LoadsIt, Recovers

LEMMA PlaceStays ==
  ASSUME NEW CONSTANT N, Typed(N), NEW c \in Calls, Acts(c),
         st[c].pc \in {"upload", "answered", "made", "aside", "done"}
  PROVE  st'[c].at = st[c].at /\ st'[c].op = st[c].op /\ st[c].pc # "done"
<1>1. ~Recall(c) /\ ~Locate(c) /\ ~Search(c) /\ ~List(c) /\ ~Make(c) BY DEF Recall, Locate, Search, List, Make
<1>2. st'[c].at = st[c].at BY <1>1, AtMoves
<1>3. st'[c].op = st[c].op BY KindStays
<1>4. st[c].pc # "done"
  BY DEF Acts, Step, Begin, DriveFails, Unanswered, Drift, Recall, Fetch, Search, SearchBin, Found,
       Judge, Mending, CatchUp, TakeTurn, Locate, Check, Upload, Answered, Make, Made, List, Beside, ListBin,
       SetAside, Recover, Requests
<1> QED BY <1>2, <1>3, <1>4

LEMMA LandedStays ==
  ASSUME NEW CONSTANT N, Typed(N), \A c \in Calls : Placed(c), Next \/ UNCHANGED vars,
         NEW d \in landed, st[d].pc \in {"answered", "made", "aside", "done"}
  PROVE  d \in landed' /\ st'[d].at = st[d].at /\ st'[d].op = st[d].op
<1>0. d \in Calls BY DEF Typed, RestTyped
<1>1. ASSUME NEW c \in Calls, Acts(c) PROVE st'[d].at = st[d].at /\ st'[d].op = st[d].op
  <2>1. CASE d = c BY <1>1, <2>1, PlaceStays
  <2>2. CASE d # c
    <3>1. Alone(c) BY <1>1, StepPlaced DEF Acts
    <3> QED BY <1>0, <2>2, <3>1 DEF Alone
  <2> QED BY <2>1, <2>2
<1>2. ASSUME NEW c \in Calls, Acts(c) \/ LandLate(c) PROVE landed \subseteq landed'
  BY <1>2, FilesMove DEF world, Writes, Makes, SetsAside
<1>3. ASSUME \/ \E c \in Calls : LandLate(c)
             \/ Parent \/ UNCHANGED vars \/ \E i \in Instances : Lapse(i)
      PROVE  st' = st
  BY <1>3 DEF LandLate, Parent, vars, Lapse
<1>4. ASSUME NEW i \in Instances, Restart(i) PROVE st'[d].at = st[d].at /\ st'[d].op = st[d].op
  <2>1. st[d] \in CallStatesOf(N) BY <1>0, CallIs DEF Typed
  <2>2. st'[d] = st[d] \/ st'[d] = [st[d] EXCEPT !.pc = "done", !.answer = "unknown"] BY <1>0, <1>4 DEF Restart
  <2> QED BY <2>1, <2>2 DEF CallStatesOf
<1>5. ASSUME Parent \/ UNCHANGED vars \/ \E i \in Instances : Lapse(i) \/ Restart(i) PROVE landed' = landed
  BY <1>5 DEF Parent, vars, Lapse, Restart, world
<1>6. \/ \E c \in Calls : Acts(c) \/ LandLate(c)
      \/ Parent \/ UNCHANGED vars \/ \E i \in Instances : Lapse(i) \/ Restart(i)
  BY DEF Next, Acts, AllDone
<1> QED BY <1>1, <1>2, <1>3, <1>4, <1>5, <1>6

\* What a recovery or the parent has put in a file stays in it.
LEMMA MovedOnBefore ==
  ASSUME NEW CONSTANT N, Typed(N), NEW f \in Files, Grows(f),
         \A d \in landed : d \in landed' /\ st'[d].at = st[d].at /\ st'[d].op = st[d].op,
         OnlyMovedOn(f)'
  PROVE  OnlyMovedOn(f)
<1>1. ASSUME NEW n \in DOMAIN file[f].past PROVE file[f].past[n].by \in Calls \cup {0}
  <2>1. n \in DOMAIN file'[f].past /\ file'[f].past[n] = file[f].past[n] BY DEF Grows
  <2> QED BY <2>1 DEF OnlyMovedOn
<1>2. ASSUME NEW d \in landed, st[d].at = f PROVE st[d].op # "restore" BY <1>2 DEF OnlyMovedOn
<1> QED BY <1>1, <1>2 DEF OnlyMovedOn

\* The facts about the states of a file, apart.
LEMMA AppendIs ==
  ASSUME NEW S, NEW past \in Seq(S), NEW content, NEW next, next = Append(past, content)
  PROVE  /\ Len(past) \in Nat /\ DOMAIN past = 1..Len(past)
         /\ DOMAIN next = 1..(Len(past) + 1) /\ Len(next) = Len(past) + 1
         /\ \A n \in 1..Len(past) : next[n] = past[n]
         /\ next[Len(past) + 1] = content /\ next # <<>>
OBVIOUS

LEMMA WellMadeStays ==
  ASSUME NEW CONSTANT N, N \subseteq Int, N \subseteq Nat, Typed(N), \A c \in Calls : Placed(c),
         \A c \in Calls : Computed(c),
         Next \/ UNCHANGED vars, NEW f \in Files, WellMade(f), OnlyMovedOn(f)'
  PROVE  WellMade(f)'
<1>0. PICK past \in Seq(ContentsOf(N)) : past = file[f].past BY DEF Typed, FilesTyped, FilesOf
<1>1. CASE PastStays(f) BY <1>1 DEF PastStays, WellMade
<1>2. CASE PutThere(f)
  <2>1. PICK c \in Calls : (Acts(c) \/ LandLate(c)) /\ Writes(c) /\ f = st[c].at
                           /\ file'[f].past = Append(past, st[c].put)
    BY <1>0, <1>2 DEF PutThere
  <2>2. st'[c].at = st[c].at /\ st'[c].op = st[c].op
    <3>1. CASE LandLate(c) BY <3>1 DEF LandLate
    <3>2. CASE Acts(c) BY <2>1, <3>2, PlaceStays DEF Writes, Placed
    <3> QED BY <2>1, <3>1, <3>2
  <2>3. st[c].op # "restore"
    <3>1. c \in landed' BY <2>1 DEF Writes
    <3> QED BY <2>1, <2>2, <3>1 DEF OnlyMovedOn
  <2>4. st[c].loaded /\ st[c].from = f
    <3>1. st[c].loaded BY <2>1, <2>3 DEF Writes, Placed, Computed
    <3> QED BY <2>1, <3>1 DEF Writes, Computed
  <2>5. PICK m \in DOMAIN past : past[m] = st[c].base BY <1>0, <2>4 DEF Computed
  <2> DEFINE put == st[c].put
             next == file'[f].past
  <2>6. put.kind = "reads" /\ put.rev = past[m].rev + 1 /\ past[m].kind = "reads" BY <2>4, <2>5 DEF Computed
  <2>7. past[m].rev >= 1 BY <1>0, <2>5, <2>6 DEF WellMade
  <2>8. \A n \in DOMAIN past : past[n].rev \in Nat
    <3> TAKE n \in DOMAIN past
    <3>1. past[n] \in ContentsOf(N) BY <1>0
    <3> QED BY <3>1 DEF ContentsOf
  <2>9. put.rev \in Nat /\ put.rev >= 2 BY <2>5, <2>6, <2>7, <2>8
  <2>10. next = Append(past, put) BY <2>1
  <2> HIDE DEF put, next
  <2>11. /\ Len(past) \in Nat /\ DOMAIN past = 1..Len(past)
         /\ DOMAIN next = 1..(Len(past) + 1) /\ \A n \in 1..Len(past) : next[n] = past[n]
         /\ next[Len(past) + 1] = put /\ next # <<>>
    BY <2>10, AppendIs
  <2>12. past # <<>> /\ past[1].kind = "reads" /\ past[1].rev = 1
    <3>1. past # <<>> BY <2>5
    <3> QED BY <1>0, <3>1 DEF WellMade
  <2>13. next[1].kind = "reads" /\ next[1].rev = 1
    <3>1. 1 \in 1..Len(past) BY <2>5, <2>11
    <3> QED BY <2>11, <2>12, <3>1
  <2>14. ASSUME NEW n \in DOMAIN next
         PROVE  /\ next[n].kind = "reads" => next[n].rev >= 1 /\ (n >= 2 => next[n].rev >= 2)
                /\ next[n].kind # "reads" => n = 2 /\ next[n].rev = 0
    <3>1. CASE n \in 1..Len(past)
      <4>1. next[n] = past[n] /\ n \in DOMAIN past BY <2>11, <3>1
      <4> QED BY <1>0, <4>1 DEF WellMade
    <3>2. CASE n = Len(past) + 1
      <4>1. next[n] = put BY <2>11, <3>2
      <4>2. put.rev >= 1 BY <2>9
      <4> QED BY <2>6, <2>9, <4>1, <4>2 DEF put
    <3> QED BY <2>11, <2>14, <3>1, <3>2
  <2>15. ASSUME 3 \in DOMAIN next, next[2].kind # "reads" PROVE next[3].rev <= 2
    <3>1. CASE 3 \in DOMAIN past
      <4>1. next[3] = past[3] /\ next[2] = past[2] BY <2>11, <3>1
      <4> QED BY <1>0, <2>15, <3>1, <4>1 DEF WellMade
    <3>2. CASE 3 \notin DOMAIN past
      <4>1. Len(past) = 2 BY <2>11, <2>15, <3>2
      <4>2. next[3] = put /\ next[2] = past[2] BY <2>11, <4>1
      <4>3. m # 2 BY <2>6, <2>15, <4>2
      <4>4. m = 1 BY <2>5, <2>11, <4>1, <4>3
      <4>5. put.rev = 2 BY <2>6, <2>12, <4>4 DEF put
      <4> QED BY <4>2, <4>5
    <3> QED BY <3>1, <3>2
  <2> QED BY <2>11, <2>13, <2>14, <2>15 DEF WellMade, next
<1>3. CASE MadeThere(f)
  <2>1. PICK c \in Calls : Makes(c) /\ file'[f].past = <<st[c].put>> BY <1>3 DEF MadeThere
  <2>2. st[c].put.kind = "reads" /\ st[c].put.rev = 1
    <3>1. st[c].pc = "make" BY <2>1 DEF Makes
    <3>2. st[c].op \in {"create", "startOver"} BY <3>1 DEF Placed
    <3> QED BY <3>1, <3>2 DEF Computed
  <2> DEFINE put == st[c].put
             next == file'[f].past
  <2>3. next = <<put>> BY <2>1
  <2>4. put.kind = "reads" /\ put.rev = 1 BY <2>2
  <2> HIDE DEF put, next
  <2>5. DOMAIN next = {1} /\ next[1] = put BY <2>3
  <2>6. next[1].kind = "reads" /\ next[1].rev = 1 /\ DOMAIN next = {1} BY <2>4, <2>5
  <2> QED BY <2>6 DEF WellMade, next
<1>4. CASE ByTheParent(f)
  <2>1. PICK content : content.by = acts + 1 /\ file'[f].past = Append(past, content) BY <1>0, <1>4 DEF ByTheParent
  <2> DEFINE next == file'[f].past
  <2>2. next = Append(past, content) BY <2>1
  <2> HIDE DEF next
  <2>3. Len(past) + 1 \in DOMAIN next /\ next[Len(past) + 1] = content BY <2>2, AppendIs
  <2>4. acts + 1 \in Calls \cup {0} BY <2>1, <2>3 DEF OnlyMovedOn, next
  <2>5. acts \in Nat BY GroundIs DEF Typed, RestTyped
  <2> QED BY <2>4, <2>5, CallsAreNoNumbers
<1> QED BY <1>1, <1>2, <1>3, <1>4, PastMoves

-----------------------------------------------------------------------------
\* What a step does to every file.
Onward(f) ==
    /\ Grows(f)
    /\ Len(file[f].past) \in Nat /\ Len(file'[f].past) \in Nat /\ Len(file[f].past) <= Len(file'[f].past)
    /\ file[f].past # <<>> => file'[f].past # <<>>
    /\ Gone(f) => Gone(f)'
    /\ OnlyMovedOn(f)' => OnlyMovedOn(f)

LEMMA NextOnward ==
  ASSUME Refusing, Next \/ UNCHANGED vars, NEW f \in Files
  PROVE  Onward(f)
<1>1. Typed(Numbers) /\ Numbers \subseteq Int /\ \A d \in Calls : Placed(d) BY StandsTyped DEF Refusing, Stands
<1>2. Grows(f) BY <1>1, FilesGrow
<1>3. PastStays(f) \/ PutThere(f) \/ MadeThere(f) \/ ByTheParent(f) BY <1>1, PastMoves
<1>4. /\ Len(file[f].past) \in Nat /\ Len(file'[f].past) \in Nat /\ Len(file[f].past) <= Len(file'[f].past)
      /\ file[f].past # <<>> => file'[f].past # <<>>
  BY <1>1, <1>3, PastIsLonger DEF Typed
<1>5. Gone(f) => Gone(f)' BY <1>1, GoneStays
<1>6. ASSUME NEW d \in landed PROVE d \in landed' /\ st'[d].at = st[d].at /\ st'[d].op = st[d].op
  <2>1. d \in Calls BY <1>1 DEF Typed, RestTyped
  <2>2. st[d].pc \in {"answered", "made", "aside", "done"} BY <2>1 DEF Refusing, Landing
  <2> QED BY <1>1, <2>2, LandedStays
<1>7. OnlyMovedOn(f)' => OnlyMovedOn(f) BY <1>1, <1>2, <1>6, MovedOnBefore
<1> QED BY <1>2, <1>4, <1>5, <1>7 DEF Onward

LEMMA ReachedStays ==
  ASSUME \A f \in Files : Onward(f)
  PROVE  /\ \A entry : ReachedAt(entry, file) => ReachedAt(entry, file')
         /\ ReachedAt(NoEntry, file')
<1>1. ASSUME NEW entry, ReachedAt(entry, file), entry.file \in Files
      PROVE  /\ file'[entry.file].past # <<>>
             /\ entry.written > 0 =>
                  \E n \in DOMAIN file'[entry.file].past : file'[entry.file].past[n].rev = entry.written
  <2>1. PICK f \in Files : f = entry.file BY <1>1
  <2>2. Onward(f) OBVIOUS
  <2>3. file'[f].past # <<>> BY <1>1, <2>1, <2>2 DEF ReachedAt, Onward
  <2>4. ASSUME entry.written > 0 PROVE \E n \in DOMAIN file'[f].past : file'[f].past[n].rev = entry.written
    <3>1. PICK n \in DOMAIN file[f].past : file[f].past[n].rev = entry.written BY <1>1, <2>1, <2>4 DEF ReachedAt
    <3> QED BY <2>2, <3>1 DEF Onward, Grows
  <2> QED BY <2>1, <2>3, <2>4
<1>2. NoEntry.file \notin Files BY NoFileIsNone DEF NoEntry
<1> QED BY <1>1, <1>2 DEF ReachedAt

\* A download is the latest state or the one before it.
LEMMA DownloadsAreLate ==
  ASSUME NEW CONSTANT N, FilesTyped(N), NEW f \in Files, Exists(f), NEW content \in Downloads(f)
  PROVE  \E n \in DOMAIN file[f].past : content = file[f].past[n] /\ n >= Len(file[f].past) - 1
<1> DEFINE past == file[f].past
<1>1. past \in Seq(ContentsOf(N)) /\ Len(past) > 0 BY DEF FilesTyped, FilesOf
<1>2. Last(past) = past[Len(past)] /\ Len(past) \in DOMAIN past BY <1>1 DEF Last
<1>3. Len(past) > 1 => Len(past) - 1 \in DOMAIN past BY <1>1
<1>4. Len(past) \in Nat BY <1>1
<1>5. content = Last(past) \/ (Len(past) > 1 /\ content = past[Len(past) - 1]) BY DEF Downloads
<1> HIDE DEF past
<1>6. CASE content = Last(past) BY <1>2, <1>4, <1>6 DEF past
<1>7. CASE Len(past) > 1 /\ content = past[Len(past) - 1]
  <2>1. Len(past) - 1 \in DOMAIN past /\ Len(past) - 1 >= Len(past) - 1 BY <1>3, <1>4, <1>7
  <2> QED BY <1>7, <2>1 DEF past
<1> QED BY <1>5, <1>6, <1>7

\* What an instance remembers after a step of a call's.
LEMMA MemReaches ==
  ASSUME NEW CONSTANT N, Typed(N), NEW c \in Calls, Placed(c), Acts(c), \A f \in Files : Onward(f),
         NEW i \in Instances, ReachedAt(mem[i], file), Reaches(c), AtAState(c)
  PROVE  ReachedAt(mem'[i], file')
<1>0. mem \in [Instances -> EntriesOf(N)] /\ Home[c] \in Instances BY GroundIs DEF Typed, MemTyped
<1>e. mem[i] \in EntriesOf(N) BY <1>0
<1>1. \A j, f : Forgotten(j, f)[i] \in {mem[i], NoEntry} BY <1>0 DEF Forgotten
<1>f. \A j, f : mem' = Forgotten(j, f) => ReachedAt(mem'[i], file') BY <1>1, ReachedStays
<1>2. ASSUME NEW f \in Files, file[f].past # <<>>, mem' = Remembered(Home[c], f) PROVE ReachedAt(mem'[i], file')
  <2> DEFINE new == [file |-> f, fresh |-> TRUE, written |-> 0, mended |-> FALSE]
  <2>1. mem'[i] \in {mem[i], [mem[i] EXCEPT !.fresh = TRUE], new} BY <1>0, <1>2 DEF Remembered
  <2>2. ReachedAt([mem[i] EXCEPT !.fresh = TRUE], file) BY <1>e DEF ReachedAt, EntriesOf
  <2>3. ReachedAt(new, file) BY <1>2 DEF ReachedAt
  <2> HIDE DEF new
  <2> QED BY <2>1, <2>2, <2>3, ReachedStays
<1>3. ASSUME NEW f \in Files, NEW rev, NEW mends, mem' = Noted(Home[c], f, rev, mends),
             rev > 0 => \E n \in DOMAIN file[f].past : file[f].past[n].rev = rev
      PROVE  ReachedAt(mem'[i], file')
  <2> DEFINE new == [mem[i] EXCEPT !.written = rev, !.mended = mends]
  <2>1. mem'[i] = mem[i] \/ (mem'[i] = new /\ mem[i].file = f) BY <1>0, <1>3 DEF Noted
  <2>2. new.file = mem[i].file /\ new.written = rev BY <1>e DEF EntriesOf
  <2> HIDE DEF new
  <2>3. mem[i].file = f => ReachedAt(new, file) BY <1>3, <2>2 DEF ReachedAt
  <2> QED BY <2>1, <2>3, ReachedStays
<1>4. CASE mem' = mem BY <1>4, ReachedStays
<1>5. CASE Made(c)
  <2>1. st[c].at \in Files /\ st[c].pc = "made" BY <1>5 DEF Made, Placed, AtAFile
  <2>2. PICK n \in DOMAIN file[st[c].at].past : file[st[c].at].past[n] = st[c].put BY <2>1 DEF AtAState
  <2> DEFINE new == [file |-> st[c].at, fresh |-> TRUE, written |-> st[c].put.rev, mended |-> FALSE]
  <2>3. ReachedAt(new, file) BY <2>1, <2>2 DEF ReachedAt, AtAState
  <2>4. mem'[i] = mem[i] \/ mem'[i] = new BY <1>0, <1>5 DEF Made
  <2> HIDE DEF new
  <2> QED BY <2>3, <2>4, ReachedStays
<1>6. CASE Mending(c)
  <2>1. st[c].early.file \in Files BY <1>6 DEF Mending, Placed, AtAFile
  <2>2. ReachedAt(st[c].early, file) BY DEF Reaches
  <2>3. PICK no \in BOOLEAN : no = FALSE OBVIOUS
  <2>4. \/ mem' = mem \/ mem' = Forgotten(Home[c], st[c].early.file)
        \/ mem' = Noted(Home[c], st[c].early.file, st[c].early.written, no)
    BY <1>6, <2>3 DEF Mending
  <2> QED BY <1>3, <1>4, <1>f, <2>1, <2>2, <2>4 DEF ReachedAt
<1>7. CASE CatchUp(c)
  <2>1. st[c].at \in Files BY <1>7 DEF CatchUp, Placed, AtAFile
  <2>2. PICK no \in BOOLEAN : no = FALSE OBVIOUS
  <2>3. PICK zero \in Nat : zero = 0 OBVIOUS
  <2>4. \/ mem' = mem \/ mem' = Forgotten(Home[c], st[c].at) \/ mem' = Noted(Home[c], st[c].at, zero, no)
    BY <1>7, <2>2, <2>3 DEF CatchUp, LetGo
  <2>5. mem' = Noted(Home[c], st[c].at, zero, no) => ReachedAt(mem'[i], file')
    <3>1. ~(zero > 0) BY <2>3
    <3> QED BY <1>3, <2>1, <3>1
  <2> QED BY <1>4, <1>f, <2>4, <2>5
<1>8. CASE Answered(c)
  <2>1. st[c].at \in Files /\ st[c].pc = "answered" BY <1>8 DEF Answered, Placed, AtAFile
  <2>2. PICK n \in DOMAIN file[st[c].at].past : file[st[c].at].past[n] = st[c].put BY <2>1 DEF AtAState
  <2>3. PICK mends \in BOOLEAN : mends = (st[c].op = "restore") OBVIOUS
  <2>4. \/ mem' = Noted(Home[c], st[c].at, st[c].put.rev, mends)
        \/ mem' = Forgotten(Home[c], st[c].at)
    BY <1>8, <2>3 DEF Answered
  <2> QED BY <1>3, <1>f, <2>1, <2>2, <2>4
<1>9. CASE Found(c)
  <2>1. st[c].at \in Files BY <1>9 DEF Found, Placed, AtAFile
  <2>2. file[st[c].at].past # <<>> BY <2>1 DEF AtAState
  <2> QED BY <1>2, <1>9, <2>1, <2>2 DEF Found
<1>10. CASE Fetch(c) \/ Judge(c) \/ Check(c) \/ Upload(c) \/ Beside(c)
  BY <1>f, <1>4, <1>10
     DEF Fetch, Judge, JudgeReadable, JudgeRemembered, JudgeFound, Check, Upload, Beside
<1>11. CASE SetAside(c) \/ Recover(c) \/ DriveFails(c) \/ Unanswered(c)
  BY <1>f, <1>4, <1>11 DEF SetAside, Recover, DriveFails, Unanswered
<1>12. CASE \/ Begin(c) \/ Recall(c) \/ Search(c) \/ SearchBin(c) \/ TakeTurn(c) \/ Locate(c) \/ Make(c)
            \/ List(c) \/ ListBin(c) \/ Drift(c)
  BY <1>4, <1>12 DEF Begin, Recall, Search, SearchBin, TakeTurn, Locate, Make, List, ListBin, Drift
<1> QED BY <1>5, <1>6, <1>7, <1>8, <1>9, <1>10, <1>11, <1>12 DEF Acts, Step

-----------------------------------------------------------------------------
\* What is known of a call that does not act, or is cut short, stays known of it.
LEMMA OwnStays ==
  ASSUME NEW CONSTANT N, Typed(N), NEW d \in Calls, Placed(d), Own(d), \A f \in Files : Onward(f),
         \A g \in Matters : st'[d][g] = st[d][g],
         st'[d].pc = st[d].pc \/ (st[d].pc # "idle" /\ st'[d].pc = "done"),
         d \in adrift' => d \in adrift
  PROVE  Own(d)'
<1>1. /\ st'[d].op = st[d].op /\ st'[d].at = st[d].at /\ st'[d].got = st[d].got
      /\ st'[d].known = st[d].known /\ st'[d].early = st[d].early /\ st'[d].base = st[d].base
      /\ st'[d].from = st[d].from /\ st'[d].put = st[d].put /\ st'[d].loaded = st[d].loaded
      /\ st'[d].wrote = st[d].wrote
  BY DEF Matters
<1>2. st'[d].pc = st[d].pc \/ (st[d].pc # "idle" /\ st'[d].pc = "done") OBVIOUS
<1>3. Reaches(d)'
  <2>1. \A g \in {"known", "early", "wrote"} : st'[d][g] = st[d][g] BY DEF Matters
  <2> QED BY <2>1, ReachedStays DEF Own, Reaches
<1>4. ASSUME NEW f \in Files, NEW n \in DOMAIN file[f].past
      PROVE  n \in DOMAIN file'[f].past /\ file'[f].past[n] = file[f].past[n]
  BY DEF Onward, Grows
<1>5. AtAState(d)'
  <2>1. ASSUME st[d].at \in Files PROVE file'[st[d].at].past # <<>>
    <3>1. PICK f \in Files : f = st[d].at BY <2>1
    <3>2. file[f].past # <<>> BY <3>1 DEF Own, AtAState
    <3> QED BY <3>1, <3>2 DEF Onward
  <2>2. ASSUME st'[d].pc \in {"answered", "made"}
        PROVE  \E n \in DOMAIN file'[st[d].at].past : file'[st[d].at].past[n] = st[d].put
    <3>1. st[d].pc \in {"answered", "made"} BY <1>2, <2>2
    <3>2. PICK n \in DOMAIN file[st[d].at].past : file[st[d].at].past[n] = st[d].put BY <3>1 DEF Own, AtAState
    <3>3. st[d].at \in Files BY <3>1 DEF Placed, AtAFile
    <3> QED BY <1>4, <3>2, <3>3
  <2> QED BY <1>1, <2>1, <2>2 DEF AtAState
<1>6. Computed(d)'
  <2>1. ASSUME st[d].loaded
        PROVE  \E n \in DOMAIN file'[st[d].from].past : file'[st[d].from].past[n] = st[d].base
    <3>1. st[d].from \in Files BY <2>1 DEF Own, Computed
    <3>2. PICK n \in DOMAIN file[st[d].from].past : file[st[d].from].past[n] = st[d].base BY <2>1 DEF Own, Computed
    <3> QED BY <1>4, <3>1, <3>2
  <2> QED BY <1>1, <1>2, <2>1 DEF Own, Computed
<1>7. ASSUME st[d].wrote.file \in Files, Low(d)
      PROVE  st[d].wrote.written <= 1 \/ (st[d].wrote.written <= 2 /\ Len(file'[st[d].wrote.file].past) >= 3)
  <2>1. PICK f \in Files : f = st[d].wrote.file BY <1>7
  <2>2. Onward(f) OBVIOUS
  <2> QED BY <1>7, <2>1, <2>2 DEF Low, Onward
<1>8. Recalled(d)'
  <2>1. ASSUME ~st[d].loaded, st[d].known = NoEntry, NEW f \in Files, f = st[d].wrote.file, OnlyMovedOn(f)'
        PROVE  Gone(f)' \/ Low(d)'
    <3>1. OnlyMovedOn(f) BY <2>1 DEF Onward
    <3>2. Gone(f) \/ Low(d) BY <2>1, <3>1 DEF Own, Recalled
    <3>3. Gone(f) => Gone(f)' BY DEF Onward
    <3>4. Low(d) => Low(d)' BY <1>1, <1>7, <2>1 DEF Low
    <3> QED BY <3>2, <3>3, <3>4
  <2>2. ASSUME st'[d].pc = "judge", NEW f \in Files, f = st[d].at, st[d].at = st[d].wrote.file, OnlyMovedOn(f)'
        PROVE  /\ st[d].got.kind # "reads" => Low(d)'
               /\ st[d].got.kind = "reads" /\ st[d].known = NoEntry => st[d].got.rev >= st[d].wrote.written
    <3>1. OnlyMovedOn(f) BY <2>2 DEF Onward
    <3>2. st[d].pc = "judge" BY <1>2, <2>2
    <3>3. /\ st[d].got.kind # "reads" => Low(d)
          /\ st[d].got.kind = "reads" /\ st[d].known = NoEntry => st[d].got.rev >= st[d].wrote.written
      BY <2>2, <3>1, <3>2 DEF Own, Recalled
    <3>4. Low(d) => Low(d)' BY <1>1, <1>7, <2>2 DEF Low
    <3> QED BY <3>3, <3>4
  <2>3. ASSUME st'[d].pc = "judge" PROVE \E n \in DOMAIN file'[st[d].at].past : file'[st[d].at].past[n] = st[d].got
    <3>1. st[d].pc = "judge" BY <1>2, <2>3
    <3>2. PICK n \in DOMAIN file[st[d].at].past : file[st[d].at].past[n] = st[d].got BY <3>1 DEF Own, Recalled
    <3>3. st[d].at \in Files BY <3>1 DEF Placed, AtAFile
    <3> QED BY <1>4, <3>2, <3>3
  <2>4. ASSUME st'[d].pc = "judge" PROVE st[d].at \in Files
    <3>1. st[d].pc = "judge" BY <1>2, <2>4
    <3> QED BY <3>1 DEF Placed, AtAFile
  <2>5. /\ st[d].known \in {NoEntry, st[d].wrote} /\ st[d].early \in {NoEntry, st[d].wrote}
        /\ st'[d].pc \in {"idle", "read"} => st[d].early = NoEntry
        /\ st'[d].pc = "catchUp" => st[d].known # NoEntry
    BY <1>2 DEF Own, Recalled
  <2>6. ~st'[d].loaded /\ st'[d].known = NoEntry /\ st'[d].wrote.file \in Files /\ OnlyMovedOn(st[d].wrote.file)'
          => Gone(st[d].wrote.file)' \/ Low(d)'
    <3> SUFFICES ASSUME ~st[d].loaded, st[d].known = NoEntry, st[d].wrote.file \in Files, OnlyMovedOn(st[d].wrote.file)'
                 PROVE  Gone(st[d].wrote.file)' \/ Low(d)'
      BY <1>1
    <3>1. PICK f \in Files : f = st'[d].wrote.file BY <1>1
    <3>2. OnlyMovedOn(f)' BY <3>1 DEF OnlyMovedOn
    <3>3. Gone(f)' \/ Low(d)' BY <1>1, <2>1, <3>1, <3>2
    <3> QED BY <3>1, <3>3 DEF Gone, Exists
  <2>7. st'[d].pc = "judge" /\ st'[d].at = st'[d].wrote.file /\ OnlyMovedOn(st[d].at)'
          => /\ st'[d].got.kind # "reads" => Low(d)'
             /\ st'[d].got.kind = "reads" /\ st'[d].known = NoEntry => st'[d].got.rev >= st'[d].wrote.written
    <3> SUFFICES ASSUME st'[d].pc = "judge", st'[d].at = st'[d].wrote.file, OnlyMovedOn(st[d].at)'
                 PROVE  /\ st'[d].got.kind # "reads" => Low(d)'
                        /\ st'[d].got.kind = "reads" /\ st'[d].known = NoEntry => st'[d].got.rev >= st'[d].wrote.written
      OBVIOUS
    <3>1. PICK f \in Files : f = st'[d].at BY <1>1, <2>4
    <3>2. OnlyMovedOn(f)' BY <3>1 DEF OnlyMovedOn
    <3> QED BY <1>1, <2>2, <3>1, <3>2
  <2> QED BY <1>1, <2>3, <2>5, <2>6, <2>7 DEF Recalled
<1>9. Seen(d)'
  <2> SUFFICES ASSUME st'[d].loaded, st'[d].from = st'[d].wrote.file, OnlyMovedOn(st[d].from)'
               PROVE  st'[d].base.rev >= st'[d].wrote.written
    BY DEF Seen
  <2>1. st[d].from \in Files BY <1>1 DEF Own, Computed
  <2>2. PICK f \in Files : f = st[d].from BY <2>1
  <2>3. OnlyMovedOn(f)' BY <1>1, <2>2 DEF OnlyMovedOn
  <2>4. OnlyMovedOn(f) BY <2>3 DEF Onward
  <2> QED BY <1>1, <2>2, <2>4 DEF Own, Seen
<1> QED BY <1>3, <1>5, <1>6, <1>8, <1>9 DEF Own

-----------------------------------------------------------------------------
\* What is known of a call that acts is known of it after.
LEMMA ActsReaches ==
  ASSUME NEW CONSTANT N, Typed(N), NEW c \in Calls, Placed(c), Acts(c), \A f \in Files : Onward(f),
         \A i \in Instances : ReachedAt(mem[i], file), Reaches(c)
  PROVE  Reaches(c)'
<1>1. ReachedAt(mem[Home[c]], file) BY GroundIs DEF Typed
<1>2. \A g \in {"known", "early", "wrote"} : ReachedAt(st[c][g], file) BY DEF Reaches
<1>3. \A g \in {"known", "early", "wrote"} :
        st'[c][g] \in {st[c][g], st[c].known, st[c].early, mem[Home[c]], NoEntry}
  <2>1. {"known", "early", "wrote"} \subseteq Read BY DEF Read
  <2> QED BY <2>1, ReadMoves
          DEF Passes, Began, Recalls, Fetches, FindsItGone, Doubts, Mends, LoadsIt, Recovers, KeepsBut
<1> QED BY <1>1, <1>2, <1>3, ReachedStays DEF Reaches

LEMMA ActsAtAState ==
  ASSUME NEW CONSTANT N, Typed(N), NEW c \in Calls, Placed(c), Acts(c), \A f \in Files : Onward(f),
         \A i \in Instances : ReachedAt(mem[i], file), AtAState(c)
  PROVE  AtAState(c)'
<1>0. mem \in [Instances -> EntriesOf(N)] /\ Home[c] \in Instances BY GroundIs DEF Typed, MemTyped
<1>1. ASSUME NEW f \in Files, f = st'[c].at PROVE file'[f].past # <<>>
  <2>1. CASE st'[c].at = st[c].at
    <3>1. file[f].past # <<>> BY <1>1, <2>1 DEF AtAState
    <3> QED BY <3>1 DEF Onward
  <2>2. CASE st'[c].at = mem[Home[c]].file
    <3>1. file[f].past # <<>> BY <1>0, <1>1, <2>2 DEF ReachedAt
    <3> QED BY <3>1 DEF Onward
  <2>3. CASE IsProfile(f)
    <3>1. Exists(f) BY <2>3 DEF IsProfile, Exists
    <3>2. Len(file[f].past) > 0 BY <3>1 DEF Typed, FilesTyped
    <3>3. file[f].past # <<>> BY <3>2
    <3> QED BY <3>3 DEF Onward
  <2>4. CASE PutNew(f, st[c].put, c)
    <3>1. file'[f].past[1] = st[c].put /\ DOMAIN file'[f].past = {1} BY <2>4, PutNewMakes DEF Typed
    <3> QED BY <3>1
  <2> QED BY <1>1, <2>1, <2>2, <2>3, <2>4, AtMoves, NoFileIsNone
<1>2. ASSUME st'[c].pc \in {"answered", "made"}
      PROVE  \E n \in DOMAIN file'[st'[c].at].past : file'[st'[c].at].past[n] = st'[c].put
  <2>1. Passes(c)
    BY <1>2, ReadMoves DEF Began, Recalls, Fetches, FindsItGone, Doubts, Mends, LoadsIt, Recovers
  <2>2. st'[c].put = st[c].put BY <2>1 DEF Passes, KeepsBut, Read
  <2>3. CASE st'[c].pc = "answered"
    <3>1. Writes(c) /\ st'[c].at = st[c].at /\ st[c].pc = "upload" BY <2>1, <2>3 DEF Passes
    <3>2. st[c].at \in Files BY <3>1 DEF Placed, AtAFile
    <3>3. PICK f \in Files : f = st[c].at BY <3>2
    <3>4. Put(f, st[c].put, c) BY <3>1, <3>3 DEF Writes
    <3>5. /\ Len(file[f].past) \in Nat /\ DOMAIN file'[f].past = 1..(Len(file[f].past) + 1)
          /\ file'[f].past[Len(file[f].past) + 1] = st[c].put
      BY <3>4, PutAppends DEF Typed
    <3>6. Len(file[f].past) + 1 \in DOMAIN file'[f].past BY <3>5
    <3> QED BY <2>2, <3>1, <3>3, <3>5, <3>6
  <2>4. CASE st'[c].pc = "made"
    <3>1. PutNew(st'[c].at, st[c].put, c) /\ st'[c].at \in Files BY <2>1, <2>4 DEF Passes
    <3>2. PICK f \in Files : f = st'[c].at BY <3>1
    <3>3. PutNew(f, st[c].put, c) BY <3>1, <3>2
    <3>4. DOMAIN file'[f].past = {1} /\ file'[f].past[1] = st[c].put BY <3>3, PutNewMakes DEF Typed
    <3> QED BY <2>2, <3>2, <3>4
  <2> QED BY <1>2, <2>3, <2>4
<1> QED BY <1>1, <1>2 DEF AtAState

LEMMA ActsComputed ==
  ASSUME NEW CONSTANT N, N \subseteq Nat, Typed(N), NEW c \in Calls, Placed(c), Acts(c), \A f \in Files : Onward(f),
         Computed(c), Recalled(c)
  PROVE  Computed(c)'
<1>1. c \in adrift' => st[c].pc = "upload" /\ st'[c].pc = "done" /\ st'[c].at = st[c].at
  <2>1. st[c].pc # "done"
    BY DEF Acts, Step, Begin, DriveFails, Unanswered, Drift, Recall, Fetch, Search, SearchBin, Found,
         Judge, Mending, CatchUp, TakeTurn, Locate, Check, Upload, Answered, Make, Made, List, Beside, ListBin,
         SetAside, Recover, Requests
  <2>2. c \notin adrift BY <2>1 DEF Placed
  <2>3. c \in adrift' => Drift(c)
    BY <2>2 DEF Acts, Step, Begin, DriveFails, Unanswered, Drift, Recall, Fetch, Search, SearchBin, Found,
         Judge, Mending, CatchUp, TakeTurn, Locate, Check, Upload, Answered, Make, Made, List, Beside, ListBin,
         SetAside, Recover
  <2>4. Drift(c) => st[c].pc = "upload" /\ st'[c].pc = "done" /\ st'[c].at = st[c].at
    BY Goes DEF Drift, OnlyMoves, Matters
  <2> QED BY <2>3, <2>4
<1>2. ASSUME NEW f \in Files, NEW n \in DOMAIN file[f].past
      PROVE  n \in DOMAIN file'[f].past /\ file'[f].past[n] = file[f].past[n]
  BY DEF Onward, Grows
<1>3. CASE Passes(c)
  <2>1. /\ st'[c].loaded = st[c].loaded /\ st'[c].base = st[c].base /\ st'[c].from = st[c].from
        /\ st'[c].put = st[c].put /\ st'[c].op = st[c].op /\ st[c].pc # "idle"
    BY <1>3 DEF Passes, KeepsBut, Read
  <2>2. ASSUME st[c].loaded
        PROVE  /\ \E n \in DOMAIN file'[st[c].from].past : file'[st[c].from].past[n] = st[c].base
               /\ st'[c].pc \in {"upload", "answered"} \/ c \in adrift' => st'[c].at = st[c].from
    <3>1. st[c].from \in Files BY <2>2 DEF Computed
    <3>2. PICK n \in DOMAIN file[st[c].from].past : file[st[c].from].past[n] = st[c].base BY <2>2 DEF Computed
    <3>3. st'[c].pc = "upload" => st'[c].at = st[c].from BY <1>3 DEF Passes
    <3>4. st[c].pc = "upload" => st[c].at = st[c].from BY <2>2 DEF Computed
    <3>5. st'[c].pc = "answered" => st'[c].at = st[c].from BY <1>3, <3>4 DEF Passes
    <3> QED BY <1>1, <1>2, <3>1, <3>2, <3>3, <3>4, <3>5
  <2>3. c \in adrift' => st[c].loaded \/ st[c].op = "restore" BY <1>1 DEF Placed
  <2> QED BY <2>1, <2>2, <2>3 DEF Computed
<1>4. CASE Began(c)
  <2>1. st[c].loaded = FALSE /\ c \notin adrift' BY <1>1, <1>4 DEF Began, Placed, Idle
  <2>2. st'[c].loaded = st[c].loaded /\ st'[c].put = [kind |-> "reads", rev |-> 1, by |-> c]
    BY <1>4 DEF Began, KeepsBut, Read
  <2>3. st'[c].put.rev = 1 /\ st'[c].put.kind = "reads" BY <2>2
  <2> QED BY <2>1, <2>2, <2>3 DEF Computed
<1>5. CASE Recalls(c) \/ Fetches(c) \/ FindsItGone(c) \/ Doubts(c) \/ Mends(c)
  <2>1. st[c].pc \in Reading BY <1>5 DEF Recalls, Fetches, FindsItGone, Doubts, Mends, Reading
  <2>2. ~st[c].loaded /\ st[c].op \in {"write", "restore"} /\ c \notin adrift' BY <1>1, <2>1 DEF Placed, Reading
  <2>3. st'[c].loaded = st[c].loaded /\ st'[c].op = st[c].op
    BY <1>5 DEF Recalls, Fetches, FindsItGone, Doubts, Mends, KeepsBut, Read
  <2> QED BY <2>2, <2>3 DEF Computed
<1>6. CASE LoadsIt(c)
  <2>1. st[c].pc \in {"judge", "catchUp"} BY <1>6 DEF LoadsIt
  <2>2. st[c].at \in Files /\ st[c].op \in {"write", "restore"} /\ c \notin adrift'
    BY <1>1, <2>1 DEF Placed, AtAFile, Reading
  <2>3. /\ st'[c].op = st[c].op /\ st'[c].pc = "turn" /\ st'[c].loaded
        /\ st'[c].from = st[c].at /\ st'[c].base.kind = "reads"
        /\ st'[c].put.kind = "reads" /\ st'[c].put.rev = st'[c].base.rev + 1
    BY <1>6 DEF LoadsIt, KeepsBut, Read, MovedOn
  <2>4. \E n \in DOMAIN file[st[c].at].past : file[st[c].at].past[n] = st'[c].base
    <3>1. CASE st[c].pc = "judge" /\ st'[c].base = st[c].got BY <3>1 DEF Recalled
    <3>2. CASE Exists(st[c].at) /\ st'[c].base \in Downloads(st[c].at) BY <2>2, <3>2, DownloadsTyped DEF Typed
    <3> QED BY <1>6, <3>1, <3>2 DEF LoadsIt
  <2>5. \E n \in DOMAIN file'[st[c].at].past : file'[st[c].at].past[n] = st'[c].base
    BY <1>2, <2>2, <2>4
  <2> QED BY <2>2, <2>3, <2>5 DEF Computed
<1>7. CASE Recovers(c)
  <2>1. st[c].op = "restore" /\ ~st[c].loaded /\ c \notin adrift' BY <1>1, <1>7 DEF Recovers, Placed
  <2>2. st'[c].loaded = st[c].loaded /\ st'[c].op = st[c].op BY <1>7 DEF Recovers, KeepsBut, Read
  <2> QED BY <2>1, <2>2 DEF Computed
<1> QED BY <1>3, <1>4, <1>5, <1>6, <1>7, ReadMoves

\* A state downloaded of a file that was only moved on, beside the number a call holds
\* it to.
LEMMA ReadOf ==
  ASSUME NEW CONSTANT N, N \subseteq Nat, Typed(N), NEW c \in Calls, NEW f \in Files, f = st[c].wrote.file,
         WellMade(f), ReachedAt(st[c].wrote, file), Exists(f), NEW content \in Downloads(f)
  PROVE  /\ content.kind # "reads" => Low(c)
         /\ content.kind = "reads" /\ Low(c) => content.rev >= st[c].wrote.written
<1> DEFINE past == file[f].past
           w == st[c].wrote.written
<1>1. PICK n \in DOMAIN past : content = past[n] /\ n >= Len(past) - 1 BY DownloadsAreLate DEF Typed
<1>2. past \in Seq(ContentsOf(N)) BY DEF Typed, FilesTyped, FilesOf
<1>3. Len(past) \in Nat /\ DOMAIN past = 1..Len(past) /\ n \in 1..Len(past) BY <1>2
<1>4. \A m \in DOMAIN past : past[m].rev \in Nat
  <2> TAKE m \in DOMAIN past
  <2>1. past[m] \in ContentsOf(N) BY <1>2
  <2> QED BY <2>1 DEF ContentsOf
<1>5. w \in Nat BY CallIs DEF Typed, CallsTyped, CallStatesOf, EntriesOf
<1>6. past # <<>> BY <1>3
<1>7. /\ past[1].kind = "reads" /\ past[1].rev = 1
      /\ \A m \in DOMAIN past : past[m].kind = "reads" => past[m].rev >= 1 /\ (m >= 2 => past[m].rev >= 2)
      /\ \A m \in DOMAIN past : past[m].kind # "reads" => m = 2 /\ past[m].rev = 0
      /\ 3 \in DOMAIN past /\ past[2].kind # "reads" => past[3].rev <= 2
  BY <1>6 DEF WellMade
<1>8. w > 0 => \E m \in DOMAIN past : past[m].rev = w BY DEF ReachedAt
<1>9. Low(c) <=> w <= 1 \/ (w <= 2 /\ Len(past) >= 3) BY DEF Low
<1> HIDE DEF past, w
<1>10. ASSUME content.kind # "reads" PROVE Low(c)
  <2>1. n = 2 /\ past[2].kind # "reads" /\ past[2].rev = 0 BY <1>1, <1>7, <1>10
  <2>2. Len(past) = 2 \/ Len(past) = 3 BY <1>1, <1>3, <2>1
  <2>3. CASE w = 0 BY <1>9, <2>3
  <2>4. CASE w > 0
    <3>1. PICK m \in DOMAIN past : past[m].rev = w BY <1>8, <2>4
    <3>2. m = 1 \/ m = 2 \/ m = 3 BY <1>3, <2>2, <3>1
    <3>3. CASE m = 1 BY <1>7, <1>9, <3>1, <3>3
    <3>4. CASE m = 2 BY <1>9, <2>1, <2>4, <3>1, <3>4
    <3>5. CASE m = 3
      <4>1. Len(past) = 3 BY <1>3, <2>2, <3>5
      <4>2. past[3].rev <= 2 BY <1>7, <2>1, <3>5
      <4> QED BY <1>9, <3>1, <3>5, <4>1, <4>2
    <3> QED BY <3>2, <3>3, <3>4, <3>5
  <2> QED BY <1>5, <2>3, <2>4
<1>11. ASSUME content.kind = "reads", Low(c) PROVE content.rev >= w
  <2>1. content.rev \in Nat /\ content.rev >= 1 BY <1>1, <1>4, <1>7, <1>11
  <2>2. CASE w <= 1 BY <1>5, <2>1, <2>2
  <2>3. CASE w <= 2 /\ Len(past) >= 3
    <3>1. n >= 2 BY <1>1, <1>3, <2>3
    <3>2. content.rev >= 2 BY <1>1, <1>7, <1>11, <3>1
    <3> QED BY <1>5, <2>1, <2>3, <3>2
  <2> QED BY <1>9, <1>11, <2>2, <2>3
<1> QED BY <1>10, <1>11 DEF w

\* What stays low, and who keeps what it knows.
LEMMA LowStays ==
  ASSUME NEW CONSTANT N, Typed(N), NEW c \in Calls, NEW f \in Files, f = st[c].wrote.file, Onward(f),
         st'[c].wrote = st[c].wrote, Low(c)
  PROVE  Low(c)'
BY DEF Low, Onward

LEMMA StillRecalled ==
  ASSUME NEW CONSTANT N, Typed(N), NEW c \in Calls, \A f \in Files : Onward(f), Recalled(c),
         st'[c].loaded = st[c].loaded, st'[c].known = st[c].known, st'[c].wrote = st[c].wrote,
         NEW g \in Files, g = st'[c].wrote.file, OnlyMovedOn(g)', ~st'[c].loaded, st'[c].known = NoEntry
  PROVE  Gone(g)' \/ Low(c)'
<1>1. Onward(g) OBVIOUS
<1>2. OnlyMovedOn(g) BY <1>1 DEF Onward
<1>3. Gone(g) \/ Low(c) BY <1>2 DEF Recalled
<1>4. Gone(g) => Gone(g)' BY <1>1 DEF Onward
<1>5. Low(c) => Low(c)' BY <1>1, LowStays
<1> QED BY <1>3, <1>4, <1>5

LEMMA ActsRecalled ==
  ASSUME NEW CONSTANT N, N \subseteq Nat, Typed(N), NEW c \in Calls, Placed(c), Acts(c), \A f \in Files : Onward(f),
         \A f \in Files : OnlyMovedOn(f) => WellMade(f), Reaches(c), AtAState(c), Recalled(c)
  PROVE  Recalled(c)'
<1>a. st[c].known \in {NoEntry, st[c].wrote} /\ st[c].early \in {NoEntry, st[c].wrote} BY DEF Recalled
<1>b. ReachedAt(st[c].wrote, file) BY DEF Reaches
<1>n. NoEntry.file = NoFile /\ NoEntry.written = 0 /\ NoEntry.mended = FALSE BY DEF NoEntry
\* The parts, each told of a file by a name of its own.
<1> DEFINE Known1 ==
             /\ st'[c].known \in {NoEntry, st'[c].wrote} /\ st'[c].early \in {NoEntry, st'[c].wrote}
             /\ st'[c].pc \in {"idle", "read"} => st'[c].early = NoEntry
             /\ st'[c].pc = "catchUp" => st'[c].known # NoEntry
           Found2 == \A g \in Files : g = st'[c].wrote.file /\ OnlyMovedOn(g)' /\ ~st'[c].loaded /\ st'[c].known = NoEntry
                       => Gone(g)' \/ Low(c)'
           Judged3 == st'[c].pc = "judge" =>
             /\ \E n \in DOMAIN file'[st'[c].at].past : file'[st'[c].at].past[n] = st'[c].got
             /\ \A g \in Files : g = st'[c].at /\ g = st'[c].wrote.file /\ OnlyMovedOn(g)' =>
                  /\ st'[c].got.kind # "reads" => Low(c)'
                  /\ st'[c].got.kind = "reads" /\ st'[c].known = NoEntry => st'[c].got.rev >= st'[c].wrote.written
<1>p. ASSUME Known1, Found2, Judged3, st'[c].pc = "judge" => st'[c].at \in Files PROVE Recalled(c)'
  <2>1. ASSUME ~st'[c].loaded, st'[c].known = NoEntry, st'[c].wrote.file \in Files, OnlyMovedOn(st[c].wrote.file)'
        PROVE  Gone(st[c].wrote.file)' \/ Low(c)'
    <3>1. PICK g \in Files : g = st'[c].wrote.file BY <2>1
    <3>2. OnlyMovedOn(g)' BY <2>1, <3>1 DEF OnlyMovedOn
    <3>3. Gone(g)' \/ Low(c)' BY <1>p, <2>1, <3>1, <3>2
    <3> QED BY <3>1, <3>3 DEF Gone, Exists
  <2>2. ASSUME st'[c].pc = "judge", st'[c].at = st'[c].wrote.file, OnlyMovedOn(st[c].at)'
        PROVE  /\ st'[c].got.kind # "reads" => Low(c)'
               /\ st'[c].got.kind = "reads" /\ st'[c].known = NoEntry => st'[c].got.rev >= st'[c].wrote.written
    <3>1. PICK g \in Files : g = st'[c].at BY <1>p, <2>2
    <3>2. OnlyMovedOn(g)' BY <2>2, <3>1 DEF OnlyMovedOn
    <3> QED BY <1>p, <2>2, <3>1, <3>2
  <2> QED BY <1>p, <2>1, <2>2 DEF Recalled
<1> HIDE DEF Known1, Found2, Judged3
<1>s. ASSUME st'[c].loaded = st[c].loaded, st'[c].known = st[c].known, st'[c].wrote = st[c].wrote PROVE Found2
  <2> SUFFICES ASSUME NEW g \in Files, g = st'[c].wrote.file, OnlyMovedOn(g)', ~st'[c].loaded, st'[c].known = NoEntry
               PROVE  Gone(g)' \/ Low(c)'
    BY DEF Found2
  <2> QED BY <1>s, StillRecalled
<1>1. CASE Passes(c)
  <2>1. /\ st'[c].loaded = st[c].loaded /\ st'[c].known = st[c].known /\ st'[c].wrote = st[c].wrote
        /\ st'[c].early = st[c].early /\ st'[c].got = st[c].got
    BY <1>1 DEF Passes, KeepsBut, Read
  <2>2. st'[c].pc \notin {"idle", "read", "judge"} BY <1>1 DEF Passes
  <2>3. st'[c].pc = "catchUp" => st[c].known # NoEntry
    <3> SUFFICES ASSUME st'[c].pc = "catchUp", st[c].known = NoEntry PROVE FALSE OBVIOUS
    <3>1. IsBehind(c, st[c].got) BY <1>1 DEF Passes
    <3>2. st[c].got.rev \in Nat BY CallIs DEF Typed, ContentsOf
    <3> QED BY <1>n, <3>1, <3>2 DEF IsBehind
  <2>4. Known1 BY <1>a, <2>1, <2>2, <2>3 DEF Known1
  <2>5. Judged3 BY <2>2 DEF Judged3
  <2> QED BY <1>p, <1>s, <2>1, <2>2, <2>4, <2>5
<1>2. CASE Began(c)
  <2>1. st[c] = Idle BY <1>2 DEF Began, Placed
  <2>2. st[c].known = NoEntry /\ st[c].early = NoEntry /\ st[c].wrote = NoEntry BY <2>1 DEF Idle
  <2>3. st'[c].known = NoEntry /\ st'[c].early = NoEntry /\ st'[c].wrote = NoEntry
    BY <1>2, <2>2 DEF Began, KeepsBut, Read
  <2>4. st'[c].pc \in {"read", "turn"} BY <1>2 DEF Began
  <2>5. Found2 BY <1>n, <2>3, NoFileIsNone DEF Found2
  <2>6. Known1 /\ Judged3 BY <2>3, <2>4 DEF Known1, Judged3
  <2> QED BY <1>p, <2>4, <2>5, <2>6
<1>3. CASE Recalls(c)
  <2>1. st'[c].known = mem[Home[c]] /\ st'[c].wrote = mem[Home[c]] /\ mem[Home[c]].file # NoFile /\ st'[c].pc = "fetch"
    BY <1>3 DEF Recalls
  <2>2. st'[c].early = NoEntry
    <3>1. st'[c].early = st[c].early BY <1>3 DEF Recalls, KeepsBut, Read
    <3>2. st[c].early = NoEntry BY <1>3 DEF Recalls, Recalled
    <3> QED BY <3>1, <3>2
  <2>3. st'[c].known # NoEntry BY <1>n, <2>1
  <2>4. Found2 BY <2>3 DEF Found2
  <2>5. Known1 /\ Judged3 BY <2>1, <2>2 DEF Known1, Judged3
  <2> QED BY <1>p, <2>1, <2>4, <2>5
<1>4. CASE Fetches(c)
  <2>1. /\ st'[c].loaded = st[c].loaded /\ st'[c].known = st[c].known /\ st'[c].wrote = st[c].wrote
        /\ st'[c].early = st[c].early
    BY <1>4 DEF Fetches, KeepsBut, Read
  <2>2. /\ st[c].pc = "fetch" /\ st'[c].pc = "judge" /\ st'[c].at = st[c].at /\ Exists(st[c].at)
        /\ st'[c].got \in Downloads(st[c].at)
    BY <1>4 DEF Fetches
  <2>3. PICK f \in Files : f = st[c].at BY <2>2 DEF Placed, AtAFile
  <2>4. ~st[c].loaded BY <2>2 DEF Placed, Reading
  <2>5. \E n \in DOMAIN file'[f].past : file'[f].past[n] = st'[c].got
    <3>1. PICK n \in DOMAIN file[f].past : st'[c].got = file[f].past[n] BY <2>2, <2>3, DownloadsTyped DEF Typed
    <3> QED BY <3>1 DEF Onward, Grows
  <2>6. ASSUME f = st'[c].wrote.file, OnlyMovedOn(f)'
        PROVE  /\ st'[c].got.kind # "reads" => Low(c)'
               /\ st'[c].got.kind = "reads" /\ st'[c].known = NoEntry => st'[c].got.rev >= st'[c].wrote.written
    <3>1. Onward(f) OBVIOUS
    <3>2. OnlyMovedOn(f) /\ WellMade(f) BY <2>6, <3>1 DEF Onward
    <3>3. PICK content \in Downloads(f) : content = st'[c].got BY <2>2, <2>3
    <3>4. /\ content.kind # "reads" => Low(c)
          /\ content.kind = "reads" /\ Low(c) => content.rev >= st[c].wrote.written
      BY <1>b, <2>1, <2>2, <2>3, <2>6, <3>2, ReadOf
    <3>5. Low(c) => Low(c)' BY <2>1, <2>6, <3>1, LowStays
    <3>6. st[c].known = NoEntry => Low(c)
      <4>1. ~Gone(f) BY <2>2, <2>3 DEF Gone
      <4> QED BY <2>1, <2>4, <2>6, <3>2, <4>1 DEF Recalled
    <3> QED BY <2>1, <3>3, <3>4, <3>5, <3>6
  <2>7. Judged3 BY <2>2, <2>3, <2>5, <2>6 DEF Judged3
  <2>8. Known1 BY <1>a, <2>1, <2>2 DEF Known1
  <2> QED BY <1>p, <1>s, <2>1, <2>2, <2>3, <2>7, <2>8
<1>5. ASSUME st[c].at \in Files, FromMemory(c), st[c].known.file = st[c].at
      PROVE  st[c].known = st[c].wrote /\ st[c].wrote.file = st[c].at
  BY <1>a, <1>n, <1>5 DEF FromMemory
<1>6. CASE FindsItGone(c)
  <2>1. /\ st'[c].loaded = st[c].loaded /\ st'[c].wrote = st[c].wrote /\ st'[c].early = st[c].early
        /\ st'[c].known = NoEntry /\ st'[c].pc = "search"
    BY <1>6 DEF FindsItGone, KeepsBut, Read
  <2>2. st[c].pc = "fetch" /\ ~Exists(st[c].at) /\ FromMemory(c) BY <1>6 DEF FindsItGone
  <2>3. PICK f \in Files : f = st[c].at BY <2>2 DEF Placed, AtAFile
  <2>4. st[c].known.file = st[c].at BY <2>2 DEF Placed
  <2>5. f = st'[c].wrote.file BY <1>5, <2>1, <2>2, <2>3, <2>4
  <2>6. Gone(f) BY <2>2, <2>3 DEF Gone, AtAState
  <2>7. Gone(f)' BY <2>6 DEF Onward
  <2>8. Found2 BY <2>5, <2>7 DEF Found2
  <2>9. Known1 /\ Judged3 BY <1>a, <2>1 DEF Known1, Judged3
  <2> QED BY <1>p, <2>1, <2>8, <2>9
<1>7. CASE Doubts(c)
  <2>1. /\ st'[c].loaded = st[c].loaded /\ st'[c].wrote = st[c].wrote /\ st'[c].early = st[c].known
        /\ st'[c].known = NoEntry /\ st'[c].pc = "search"
    BY <1>7 DEF Doubts, KeepsBut, Read
  <2>2. st[c].pc = "judge" /\ st[c].got.kind # "reads" /\ FromMemory(c) BY <1>7 DEF Doubts
  <2>3. PICK f \in Files : f = st[c].at BY <2>2 DEF Placed, AtAFile
  <2>4. st[c].known.file = st[c].at BY <2>2 DEF Placed
  <2>5. f = st[c].wrote.file /\ st[c].known = st[c].wrote BY <1>5, <2>2, <2>3, <2>4
  <2>6. ASSUME OnlyMovedOn(f)' PROVE Low(c)'
    <3>1. Onward(f) OBVIOUS
    <3>2. OnlyMovedOn(f) BY <2>6, <3>1 DEF Onward
    <3>3. Low(c) BY <2>2, <2>3, <2>5, <3>2 DEF Recalled
    <3> QED BY <2>1, <2>5, <3>1, <3>3, LowStays
  <2>7. Found2 BY <2>1, <2>5, <2>6 DEF Found2
  <2>8. Known1 /\ Judged3 BY <2>1, <2>5 DEF Known1, Judged3
  <2> QED BY <1>p, <2>1, <2>7, <2>8
<1>8. CASE Mends(c)
  <2>1. /\ st'[c].loaded = st[c].loaded /\ st'[c].wrote = st[c].wrote /\ st'[c].early = st[c].early
        /\ st'[c].known = st[c].early
    BY <1>8 DEF Mends, KeepsBut, Read
  <2>2. /\ st[c].pc = "mending" /\ Exists(st[c].early.file) /\ st'[c].pc = "judge" /\ st'[c].at = st[c].at
        /\ st'[c].got \in Downloads(st[c].early.file) /\ st'[c].got.kind = "reads"
    BY <1>8 DEF Mends
  <2>3. st[c].early.mended /\ st[c].early.file = st[c].at BY <2>2 DEF Placed
  <2>4. st[c].early = st[c].wrote /\ st[c].early # NoEntry BY <1>a, <1>n, <2>3
  <2>5. PICK f \in Files : f = st[c].at BY <2>2 DEF Placed, AtAFile
  <2>6. \E n \in DOMAIN file'[f].past : file'[f].past[n] = st'[c].got
    <3>1. PICK n \in DOMAIN file[f].past : st'[c].got = file[f].past[n]
      BY <2>2, <2>3, <2>5, DownloadsTyped DEF Typed
    <3> QED BY <3>1 DEF Onward, Grows
  <2>7. Judged3 BY <2>1, <2>2, <2>4, <2>5, <2>6 DEF Judged3
  <2>8. Known1 /\ Found2 BY <2>1, <2>2, <2>4 DEF Known1, Found2
  <2> QED BY <1>p, <2>2, <2>5, <2>7, <2>8
<1>9. CASE LoadsIt(c)
  <2>1. st'[c].known = st[c].known /\ st'[c].wrote = st[c].wrote /\ st'[c].early = st[c].early
    BY <1>9 DEF LoadsIt, KeepsBut, Read
  <2>2. st'[c].loaded /\ st'[c].pc = "turn" BY <1>9 DEF LoadsIt
  <2>3. Known1 /\ Found2 /\ Judged3 BY <1>a, <2>1, <2>2 DEF Known1, Found2, Judged3
  <2> QED BY <1>p, <2>2, <2>3
<1>10. CASE Recovers(c)
  <2>1. /\ st'[c].known = st[c].known /\ st'[c].wrote = st[c].wrote /\ st'[c].early = st[c].early
        /\ st'[c].loaded = st[c].loaded
    BY <1>10 DEF Recovers, KeepsBut, Read
  <2>2. st'[c].pc = "turn" BY <1>10 DEF Recovers
  <2>3. Known1 /\ Judged3 BY <1>a, <2>1, <2>2 DEF Known1, Judged3
  <2> QED BY <1>p, <1>s, <2>1, <2>2, <2>3
<1> QED BY <1>1, <1>2, <1>3, <1>4, <1>6, <1>7, <1>8, <1>9, <1>10, ReadMoves

LEMMA ActsSeen ==
  ASSUME NEW CONSTANT N, N \subseteq Nat, Typed(N), NEW c \in Calls, Placed(c), Acts(c), \A f \in Files : Onward(f),
         Computed(c), Recalled(c), Seen(c)
  PROVE  Seen(c)'
<1>p. ASSUME \A f \in Files : f = st'[c].from /\ f = st'[c].wrote.file /\ st'[c].loaded /\ OnlyMovedOn(f)
                               => st'[c].base.rev >= st'[c].wrote.written,
             st'[c].loaded => st'[c].from \in Files
      PROVE  Seen(c)'
  <2> SUFFICES ASSUME st'[c].loaded, st'[c].from = st'[c].wrote.file, OnlyMovedOn(st[c].from)'
               PROVE  st'[c].base.rev >= st'[c].wrote.written
    BY DEF Seen
  <2>1. PICK f \in Files : f = st'[c].from BY <1>p
  <2>2. OnlyMovedOn(f)' BY <2>1 DEF OnlyMovedOn
  <2>3. OnlyMovedOn(f) BY <2>2 DEF Onward
  <2> QED BY <1>p, <2>1, <2>3
<1>1. CASE Passes(c)
  <2>1. /\ st'[c].loaded = st[c].loaded /\ st'[c].base = st[c].base /\ st'[c].from = st[c].from
        /\ st'[c].wrote = st[c].wrote
    BY <1>1 DEF Passes, KeepsBut, Read
  <2> QED BY <1>p, <2>1 DEF Seen, Computed
<1>2. ASSUME ~st'[c].loaded PROVE Seen(c)' BY <1>2 DEF Seen
<1>3. CASE Began(c)
  <2>1. ~st[c].loaded BY <1>3 DEF Began, Placed, Idle
  <2>2. st'[c].loaded = st[c].loaded BY <1>3 DEF Began, KeepsBut, Read
  <2> QED BY <1>2, <2>1, <2>2
<1>4. CASE Recalls(c) \/ Fetches(c) \/ FindsItGone(c) \/ Doubts(c) \/ Mends(c) \/ Recovers(c)
  <2>1. st[c].pc \in Reading \cup {"recover"} BY <1>4 DEF Recalls, Fetches, FindsItGone, Doubts, Mends, Recovers, Reading
  <2>2. ~st[c].loaded BY <2>1 DEF Placed
  <2>3. st'[c].loaded = st[c].loaded
    BY <1>4 DEF Recalls, Fetches, FindsItGone, Doubts, Mends, Recovers, KeepsBut, Read
  <2> QED BY <1>2, <2>2, <2>3
<1>5. CASE LoadsIt(c)
  <2>1. st'[c].wrote = st[c].wrote BY <1>5 DEF LoadsIt, KeepsBut, Read
  <2>2. /\ st'[c].from = st[c].at /\ st'[c].base.kind = "reads" /\ ~IsBehind(c, st'[c].base)
        /\ (st[c].pc = "judge" /\ st'[c].base = st[c].got)
           \/ (st[c].pc = "catchUp" /\ Exists(st[c].at) /\ st'[c].base \in Downloads(st[c].at))
    BY <1>5 DEF LoadsIt
  <2>3. st[c].at \in Files BY <2>2 DEF Placed, AtAFile
  <2>4. st'[c].base.rev \in Nat
    <3>1. CASE st'[c].base = st[c].got BY <3>1, CallIs DEF Typed, ContentsOf
    <3>2. CASE Exists(st[c].at) /\ st'[c].base \in Downloads(st[c].at)
      <4>1. st'[c].base \in ContentsOf(N) BY <2>3, <3>2, DownloadsTyped DEF Typed
      <4> QED BY <4>1 DEF ContentsOf
    <3> QED BY <2>2, <3>1, <3>2
  <2>5. st[c].wrote.written \in Nat BY CallIs DEF Typed, CallsTyped, CallStatesOf, EntriesOf
  <2>6. ASSUME NEW f \in Files, f = st[c].at, f = st[c].wrote.file, OnlyMovedOn(f)
        PROVE  st'[c].base.rev >= st[c].wrote.written
    <3>1. CASE st[c].known = st[c].wrote BY <2>2, <2>4, <2>5, <3>1 DEF IsBehind
    <3>2. CASE st[c].known = NoEntry
      <4>1. st[c].pc = "judge" /\ st'[c].base = st[c].got BY <2>2, <3>2 DEF Recalled
      <4> QED BY <2>2, <2>6, <3>2, <4>1 DEF Recalled
    <3> QED BY <3>1, <3>2 DEF Recalled
  <2> QED BY <1>p, <2>1, <2>2, <2>3, <2>6
<1> QED BY <1>1, <1>3, <1>4, <1>5, ReadMoves

-----------------------------------------------------------------------------
LEMMA NextOwn == ASSUME Refusing, OwnWrites, [Next]_vars PROVE OwnWrites'
<1>1. Typed(Numbers) /\ Numbers \subseteq Nat /\ Numbers \subseteq Int /\ \A d \in Calls : Placed(d)
  BY StandsTyped DEF Refusing, Stands
<1>2. \A f \in Files : Onward(f) BY NextOnward
<1>3. \A f \in Files : OnlyMovedOn(f)' => WellMade(f)'
  <2> SUFFICES ASSUME NEW f \in Files, OnlyMovedOn(f)' PROVE WellMade(f)' OBVIOUS
  <2>1. WellMade(f) BY <1>2 DEF Onward, OwnWrites
  <2>2. \A c \in Calls : Computed(c) BY DEF OwnWrites, Own
  <2> QED BY <1>1, <2>1, <2>2, WellMadeStays
<1>4. ASSUME NEW c \in Calls, Acts(c)
      PROVE  (\A i \in Instances : ReachedAt(mem'[i], file')) /\ \A d \in Calls : Own(d)'
  <2>1. Own(c) /\ \A i \in Instances : ReachedAt(mem[i], file) BY DEF OwnWrites
  <2>2. \A i \in Instances : ReachedAt(mem'[i], file') BY <1>1, <1>2, <1>4, <2>1, MemReaches DEF Own
  <2>3. Reaches(c)' BY <1>1, <1>2, <1>4, <2>1, ActsReaches DEF Own
  <2>4. AtAState(c)' BY <1>1, <1>2, <1>4, <2>1, ActsAtAState DEF Own
  <2>5. Computed(c)' BY <1>1, <1>2, <1>4, <2>1, ActsComputed DEF Own
  <2>6. Recalled(c)' BY <1>1, <1>2, <1>4, <2>1, ActsRecalled DEF Own, OwnWrites
  <2>7. Seen(c)' BY <1>1, <1>2, <1>4, <2>1, ActsSeen DEF Own
  <2>8. ASSUME NEW d \in Calls \ {c} PROVE Own(d)'
    <3>1. st'[d] = st[d] /\ (d \in adrift' => d \in adrift) BY <1>1, <1>4, StepPlaced DEF Acts, Alone
    <3>2. \A g \in Matters : st'[d][g] = st[d][g] BY <3>1
    <3>3. Own(d) BY DEF OwnWrites
    <3> QED BY <1>1, <1>2, <3>1, <3>2, <3>3, OwnStays
  <2> QED BY <2>2, <2>3, <2>4, <2>5, <2>6, <2>7, <2>8 DEF Own
<1>5. ASSUME (\E c \in Calls : LandLate(c)) \/ Parent \/ (\E i \in Instances : Lapse(i)) \/ UNCHANGED vars
      PROVE  \A d \in Calls : Own(d)'
  <2> SUFFICES ASSUME NEW d \in Calls PROVE Own(d)' OBVIOUS
  <2>1. st' = st /\ adrift' \subseteq adrift BY <1>5 DEF LandLate, Parent, Lapse, vars
  <2>2. \A g \in Matters : st'[d][g] = st[d][g] BY <2>1
  <2>3. Own(d) BY DEF OwnWrites
  <2>4. st'[d].pc = st[d].pc /\ (d \in adrift' => d \in adrift) BY <2>1
  <2> QED BY <1>1, <1>2, <2>2, <2>3, <2>4, OwnStays
<1>6. ASSUME (\E c \in Calls : LandLate(c)) \/ Parent \/ UNCHANGED vars
      PROVE  \A i \in Instances : ReachedAt(mem'[i], file')
  <2>1. mem' = mem BY <1>6 DEF LandLate, Parent, vars
  <2> QED BY <1>2, <2>1, ReachedStays DEF OwnWrites
<1>7. ASSUME NEW j \in Instances, Lapse(j) PROVE \A i \in Instances : ReachedAt(mem'[i], file')
  <2> SUFFICES ASSUME NEW i \in Instances PROVE ReachedAt(mem'[i], file') OBVIOUS
  <2>1. mem \in [Instances -> EntriesOf(Numbers)] BY <1>1 DEF Typed, MemTyped
  <2>2. PICK no \in BOOLEAN : no = FALSE OBVIOUS
  <2>3. mem' = [mem EXCEPT ![j].fresh = no] \/ mem' = [mem EXCEPT ![j] = NoEntry] BY <1>7, <2>2 DEF Lapse
  <2>4. mem'[i] \in {mem[i], [mem[i] EXCEPT !.fresh = no], NoEntry} BY <2>1, <2>3
  <2>5. ReachedAt(mem[i], file) BY DEF OwnWrites
  <2>6. ReachedAt([mem[i] EXCEPT !.fresh = no], file)
    <3>1. mem[i] \in EntriesOf(Numbers) BY <2>1
    <3> QED BY <2>5, <3>1 DEF ReachedAt, EntriesOf
  <2> QED BY <1>2, <2>4, <2>5, <2>6, ReachedStays
<1>8. ASSUME NEW j \in Instances, Restart(j)
      PROVE  (\A i \in Instances : ReachedAt(mem'[i], file')) /\ \A d \in Calls : Own(d)'
  <2>1. ASSUME NEW i \in Instances PROVE ReachedAt(mem'[i], file')
    <3>1. mem \in [Instances -> EntriesOf(Numbers)] BY <1>1 DEF Typed, MemTyped
    <3>2. mem'[i] \in {mem[i], NoEntry} BY <1>8, <3>1 DEF Restart
    <3>3. ReachedAt(mem[i], file) BY DEF OwnWrites
    <3> QED BY <1>2, <3>2, <3>3, ReachedStays
  <2>2. ASSUME NEW d \in Calls PROVE Own(d)'
    <3>1. st[d] \in CallStatesOf(Numbers) BY <1>1, CallIs DEF Typed
    <3>2. \/ st'[d] = st[d]
          \/ st[d].pc # "idle" /\ st'[d] = [st[d] EXCEPT !.pc = "done", !.answer = "unknown"]
      BY <1>8 DEF Restart
    <3>3. /\ st'[d].pc = st[d].pc \/ (st[d].pc # "idle" /\ st'[d].pc = "done")
          /\ \A g \in Matters : st'[d][g] = st[d][g]
      BY <3>1, <3>2 DEF CallStatesOf, Matters
    <3>4. adrift' = adrift BY <1>8 DEF Restart
    <3>5. Own(d) BY DEF OwnWrites
    <3> QED BY <1>1, <1>2, <3>3, <3>4, <3>5, OwnStays
  <2> QED BY <2>1, <2>2
<1>9. \/ \E c \in Calls : Acts(c) \/ LandLate(c)
      \/ Parent \/ \E i \in Instances : Lapse(i) \/ Restart(i)
      \/ UNCHANGED vars
  BY DEF Next, Acts, AllDone
<1>10. (\A i \in Instances : ReachedAt(mem'[i], file')) /\ \A d \in Calls : Own(d)'
  BY <1>4, <1>5, <1>6, <1>7, <1>8, <1>9
<1> QED BY <1>3, <1>10 DEF OwnWrites

LEMMA InitOwn == ASSUME Init PROVE OwnWrites
<1>1. st = [c \in Calls |-> Idle] /\ mem = [i \in Instances |-> NoEntry] /\ adrift = {} /\ landed = {} BY DEF Init
<1>2. NoEntry.file \notin Files /\ NoEntry.written = 0 BY NoFileIsNone DEF NoEntry
<1>3. \A i \in Instances : ReachedAt(mem[i], file) BY <1>1, <1>2 DEF ReachedAt
<1>4. ASSUME NEW c \in Calls PROVE Own(c)
  <2>1. st[c] = Idle BY <1>1
  <2>2. /\ st[c].pc = "idle" /\ st[c].at = NoFile /\ st[c].loaded = FALSE /\ st[c].known = NoEntry
        /\ st[c].early = NoEntry /\ st[c].wrote = NoEntry
    BY <2>1 DEF Idle
  <2>3. Reaches(c) BY <1>2, <2>2 DEF Reaches, ReachedAt
  <2>4. AtAState(c) BY <2>2, NoFileIsNone DEF AtAState
  <2>5. Computed(c) BY <1>1, <2>2 DEF Computed
  <2>6. Recalled(c) BY <1>2, <2>2 DEF Recalled
  <2>7. Seen(c) BY <2>2 DEF Seen
  <2> QED BY <2>3, <2>4, <2>5, <2>6, <2>7 DEF Own
<1>5. ASSUME NEW f \in Files PROVE WellMade(f)
  <2>1. PICK made \in SUBSET Files :
          \E kind \in [made -> ground.firstKinds], inBin \in [made -> BOOLEAN] :
            file = [g \in Files |->
                        IF g \in made
                        THEN [mark |-> "profile", inBin |-> inBin[g],
                              past |-> FirstPast(kind[g]), hand |-> NoCall]
                        ELSE NeverMade]
    BY DEF Init
  <2>2. PICK kind \in [made -> ground.firstKinds], inBin \in [made -> BOOLEAN] :
            file = [g \in Files |->
                        IF g \in made
                        THEN [mark |-> "profile", inBin |-> inBin[g],
                              past |-> FirstPast(kind[g]), hand |-> NoCall]
                        ELSE NeverMade]
    BY <2>1
  <2> DEFINE past == file[f].past
             other == [kind |-> kind[f], rev |-> 0, by |-> 0]
  <2>3. past = <<>> \/ past = <<First>> \/ (past = <<First, other>> /\ kind[f] # "reads")
    <3>1. CASE f \in made
      <4>1. past = FirstPast(kind[f]) BY <2>2, <3>1
      <4> QED BY <4>1 DEF FirstPast
    <3>2. CASE f \notin made BY <2>2, <3>2 DEF NeverMade
    <3> QED BY <3>1, <3>2
  <2>4. First.kind = "reads" /\ First.rev = 1 BY DEF First
  <2>5. other.kind = kind[f] /\ other.rev = 0 OBVIOUS
  <2> HIDE DEF past, other
  <2>6. CASE past = <<>> BY <2>6 DEF WellMade, past
  <2>7. CASE past = <<First>>
    <3>1. DOMAIN past = {1} /\ past[1] = First BY <2>7
    <3> QED BY <2>4, <3>1 DEF WellMade, past
  <2>8. CASE past = <<First, other>> /\ kind[f] # "reads"
    <3>1. DOMAIN past = {1, 2} /\ past[1] = First /\ past[2] = other BY <2>8
    <3> QED BY <2>4, <2>5, <2>8, <3>1 DEF WellMade, past
  <2> QED BY <2>3, <2>6, <2>7, <2>8
<1> QED BY <1>3, <1>4, <1>5 DEF OwnWrites

\* An instance's reads are not answered behind what it wrote itself, however early
\* Drive answers them and whatever else happens to the file, but for what a recovery
\* or the parent puts in it (remembered.go:62-66, read.go:166-171).
THEOREM LoadsSeeOwnWrites == Spec => []LoadSeesOwnWrites
<1> DEFINE Inv == Refusing /\ OwnWrites
<1>1. Init => Inv BY InitRefusing, InitOwn
<1>2. Inv /\ [Next]_vars => Inv' BY NextRefusing, NextOwn
<1>3. Inv => LoadSeesOwnWrites BY DEF OwnWrites, Own, Seen, LoadSeesOwnWrites
<1> QED BY <1>1, <1>2, <1>3, PTL DEF Spec

-----------------------------------------------------------------------------
(***************************************************************************)
(* The file a search finds.  It is the first of those outside the bin, the *)
(* latest changed of them, and the account's profile is what it holds.     *)
(***************************************************************************)

IsHead(f) == Marked(FALSE) # <<>> /\ Head(Marked(FALSE)) = f
Foremost(s, A, f) == \E n \in 1..Len(s) : s[n] = f /\ f \in A /\ \A m \in 1..(n - 1) : s[m] \notin A

LEMMA ForemostIs ==
  ASSUME NEW s \in Seq(Files), NEW A
  PROVE  /\ \A f : Among(s, A) # <<>> /\ Head(Among(s, A)) = f <=> Foremost(s, A, f)
         /\ Among(s, A) # <<>> => \E f \in Files : Foremost(s, A, f)
<1>1. Len(s) \in Nat /\ (\A n \in 1..Len(s) : s[n] \in Files) OBVIOUS
<1>4. ASSUME NEW f, Foremost(s, A, f) PROVE Among(s, A) # <<>> /\ Head(Among(s, A)) = f
  <2>1. PICK n \in 1..Len(s) : s[n] = f /\ f \in A /\ \A m \in 1..(n - 1) : s[m] \notin A
    BY <1>4 DEF Foremost
  <2> QED BY <2>1, AmongFirst
<1>5. Among(s, A) # <<>> => \E f \in Files : Foremost(s, A, f)
  <2> SUFFICES ASSUME Among(s, A) # <<>> PROVE \E f \in Files : Foremost(s, A, f) OBVIOUS
  <2> DEFINE In == {n \in 1..Len(s) : s[n] \in A}
  <2>1. In # {} BY <1>1, AmongFirst
  <2>2. PICK n \in In : \A m \in In : n <= m
    <3>1. In \subseteq Nat BY <1>1
    <3> HIDE DEF In
    <3> QED BY <2>1, <3>1, Least
  <2>3. n \in 1..Len(s) /\ s[n] \in Files /\ s[n] \in A BY <1>1
  <2>4. \A m \in 1..(n - 1) : s[m] \notin A
    <3> SUFFICES ASSUME NEW m \in 1..(n - 1), s[m] \in A PROVE FALSE OBVIOUS
    <3>1. m \in 1..Len(s) /\ ~(n <= m) BY <1>1
    <3>2. m \in In BY <3>1
    <3> QED BY <2>2, <3>1, <3>2
  <2> QED BY <2>3, <2>4 DEF Foremost
<1>6. ASSUME NEW f, Among(s, A) # <<>> /\ Head(Among(s, A)) = f PROVE Foremost(s, A, f)
  <2>1. PICK g \in Files : Foremost(s, A, g) BY <1>5, <1>6
  <2>2. Head(Among(s, A)) = g BY <1>4, <2>1
  <2> QED BY <1>6, <2>1, <2>2
<1> QED BY <1>4, <1>5, <1>6

Unbinned == {f \in Files : file[f].mark = "profile" /\ file[f].inBin = FALSE}

LEMMA HeadIs ==
  ASSUME NEW CONSTANT N, FilesTyped(N)
  PROVE  /\ \A f : IsHead(f) => f \in Files /\ IsProfile(f)
         /\ Marked(FALSE) # <<>> => \E f \in Files : IsHead(f)
<1>1. recent \in Seq(Files) /\ file \in [Files -> FilesOf(N)] BY DEF FilesTyped
<1>2. Marked(FALSE) = Among(recent, Unbinned) BY DEF Marked, Unbinned
<1>3. \A f : IsHead(f) => Foremost(recent, Unbinned, f) BY <1>1, <1>2, ForemostIs DEF IsHead
<1> QED BY <1>1, <1>2, <1>3, ForemostIs DEF IsHead, Foremost, Unbinned, IsProfile

LEMMA OneHead == ASSUME NEW f, NEW g, IsHead(f), IsHead(g) PROVE f = g
BY DEF IsHead

\* A file changed last is the one a search finds.
LEMMA TouchedIsHead ==
  ASSUME NEW CONSTANT N, FilesTyped(N), FilesTyped(N)', NEW f \in Files, recent' = Touched(f), IsProfile(f)'
  PROVE  IsHead(f)'
<1>1. Among(recent, Files \ {f}) \in Seq(Files)
  <2>1. Among(recent, Files \ {f}) \in Seq(Files \cap (Files \ {f})) BY AmongIs DEF FilesTyped
  <2>2. Files \cap (Files \ {f}) \subseteq Files OBVIOUS
  <2> QED BY <2>1, <2>2, SeqMonotonic
<1>2. PICK rest \in Seq(Files) : rest = Among(recent, Files \ {f}) BY <1>1
<1>3. recent' = <<f>> \o rest BY <1>2 DEF Touched
<1>4. recent'[1] = f /\ 1 \in 1..Len(recent') BY <1>3
<1>5. f \in Unbinned'
  <2>1. file'[f] \in FilesOf(N)' BY DEF FilesTyped
  <2> QED BY <2>1 DEF IsProfile, Unbinned, FilesOf
<1>6. Foremost(recent', Unbinned', f) BY <1>4, <1>5 DEF Foremost
<1>7. recent' \in Seq(Files) BY DEF FilesTyped
<1>8. Marked(FALSE)' = Among(recent', Unbinned') BY DEF Marked, Unbinned
<1> QED BY <1>6, <1>7, <1>8, ForemostIs DEF IsHead

\* ... and it stays so when another is set aside.
LEMMA HeadStays ==
  ASSUME NEW CONSTANT N, FilesTyped(N), NEW f \in Files, IsHead(f), recent' = recent,
         f \in Unbinned', Unbinned' \subseteq Unbinned
  PROVE  IsHead(f)'
<1>1. recent \in Seq(Files) /\ Marked(FALSE) = Among(recent, Unbinned) BY DEF FilesTyped, Marked, Unbinned
<1>2. Foremost(recent, Unbinned, f) BY <1>1, ForemostIs DEF IsHead
<1>3. Foremost(recent', Unbinned', f) BY <1>2 DEF Foremost
<1>4. recent' \in Seq(Files) /\ Marked(FALSE)' = Among(recent', Unbinned') BY <1>1 DEF Marked, Unbinned
<1> QED BY <1>3, <1>4, ForemostIs DEF IsHead

-----------------------------------------------------------------------------
(***************************************************************************)
(* An account served alone.  No two of its sessions are in their turn at   *)
(* once and no upload lands late, so what a session in its turn has seen   *)
(* of the files stays so until it changes them itself.                     *)
(***************************************************************************)

\* What a step does to a call: an act of its own, or its instance stops, or nothing.
LEMMA CallMoves ==
  ASSUME NEW CONSTANT N, Typed(N), \A e \in Calls : Placed(e), Next \/ UNCHANGED vars, NEW d \in Calls
  PROVE  \/ Acts(d)
         \/ st'[d] = st[d]
         \/ /\ UNCHANGED world /\ OnlyMoves(d)
            /\ st'[d].pc = "done" /\ st[d].pc # "done" /\ st'[d].answer = "unknown"
<1>1. ASSUME NEW c \in Calls, Acts(c), c # d PROVE st'[d] = st[d]
  <2>1. Alone(c) BY <1>1, StepPlaced DEF Acts
  <2> QED BY <1>1, <2>1 DEF Alone
<1>2. ASSUME NEW c \in Calls, LandLate(c) PROVE st'[d] = st[d] BY <1>2 DEF LandLate
<1>3. ASSUME NEW i \in Instances, Restart(i)
      PROVE  \/ st'[d] = st[d]
             \/ /\ UNCHANGED world /\ OnlyMoves(d)
                /\ st'[d].pc = "done" /\ st[d].pc # "done" /\ st'[d].answer = "unknown"
  <2>1. st[d] \in CallStatesOf(N) BY CallIs DEF Typed
  <2>2. st'[d] = st[d] \/ (st[d].pc # "done" /\ st'[d] = [st[d] EXCEPT !.pc = "done", !.answer = "unknown"])
    BY <1>3 DEF Restart
  <2>3. ASSUME st'[d] = [st[d] EXCEPT !.pc = "done", !.answer = "unknown"]
        PROVE  st'[d].pc = "done" /\ st'[d].answer = "unknown" /\ \A g \in Matters : st'[d][g] = st[d][g]
    BY <2>1, <2>3 DEF CallStatesOf, Matters
  <2> QED BY <1>3, <2>2, <2>3 DEF Restart, OnlyMoves
<1>4. CASE Parent \/ UNCHANGED vars \/ \E i \in Instances : Lapse(i) BY <1>4 DEF Parent, vars, Lapse
<1> QED BY <1>1, <1>2, <1>3, <1>4 DEF Next, Acts, AllDone

\* Nobody changes the files but a session in its turn.
LEMMA WorldMoves ==
  ASSUME NEW CONSTANT N, Typed(N), \A e \in Calls : Placed(e), ServedAlone, adrift = {},
         Next \/ UNCHANGED vars
  PROVE  \/ UNCHANGED world
         \/ \E c \in Calls : Acts(c) /\ InTurn(c) /\ (Writes(c) \/ Makes(c) \/ SetsAside(c))
<1>1. ASSUME NEW c \in Calls, Acts(c) \/ LandLate(c)
      PROVE  UNCHANGED world \/ (Acts(c) /\ InTurn(c) /\ (Writes(c) \/ Makes(c) \/ SetsAside(c)))
  <2>1. ~LandLate(c) BY DEF LandLate
  <2>2. Writes(c) \/ Makes(c) \/ SetsAside(c) => InTurn(c) BY DEF Writes, Makes, SetsAside, InTurn
  <2> QED BY <1>1, <2>1, <2>2, FilesMove
<1>2. ~Parent
  <2>1. acts \in 0..0 BY DEF Typed, RestTyped, ServedAlone
  <2> QED BY <2>1 DEF Parent, ServedAlone
<1>3. CASE UNCHANGED vars \/ \E i \in Instances : Lapse(i) \/ Restart(i) BY <1>3 DEF Lapse, Restart, vars, world
<1> QED BY <1>1, <1>2, <1>3 DEF Next, Acts, AllDone

\* What a session in its turn sees stays, whatever the others do.
LEMMA InTurnSees ==
  ASSUME NEW CONSTANT N, Typed(N), \A e \in Calls : Placed(e), ServedAlone, adrift = {},
         Next \/ UNCHANGED vars, NEW d \in Calls, InTurn(d), ~Acts(d)
  PROVE  UNCHANGED world
<1> SUFFICES ASSUME NEW c \in Calls, Acts(c), InTurn(c) PROVE FALSE BY WorldMoves
<1>1. Home[c] = Home[d] BY DEF ServedAlone
<1>2. c = d BY <1>1, OneInTurn
<1> QED BY <1>2

\* What a session has made sure of before it writes over a file, or sets one aside.
NowReads(f) == file[f].past # <<>> /\ Now(f).kind = "reads"
MayLeave(f) == file[f].past # <<>> /\ (file[f].inBin \/ Now(f).kind # "reads")

Decided(c) ==
    /\ st[c].pc = "recover" => st[c].got.kind = "damaged"
    /\ st[c].op = "restore" /\ st[c].pc \in {"turn", "check", "upload"} => st[c].base.kind = "damaged"
    /\ st[c].doomed # <<>> => st[c].pc \in {"beside", "make", "made", "aside", "done"}
Sure(c) == st[c].pc = "upload" => Now(st[c].at) = st[c].base
Leaves(c) == st[c].pc # "done" => st[c].doomed \in Seq({f \in Files : MayLeave(f)})

LEMMA ActsDecided ==
  ASSUME NEW CONSTANT N, Typed(N), NEW c \in Calls, Placed(c), Decided(c), Acts(c)
  PROVE  Decided(c)'
<1>0. st \in [Calls -> CallStatesOf(N)] BY DEF Typed, CallsTyped
<1>1. ASSUME st'[c].pc = "recover" PROVE st'[c].got.kind = "damaged"
  <2>1. Judge(c)
    <3>1. ~Begin(c) /\ ~DriveFails(c) /\ ~Unanswered(c) /\ ~Drift(c) BY <1>1, Goes
    <3> QED BY <1>1, <3>1, Goes DEF Acts, Step
  <2>2. \A answer : ~Finish(c, answer) BY <1>1, Ends DEF Typed
  <2>3. \A place : Go(c, place) => place = "recover" /\ st'[c].got = st[c].got
    BY <1>1, GoesOn DEF Typed, OnlyMoves, Matters
  <2>4. ~JudgeRemembered(c) BY <1>0, <1>1 DEF JudgeRemembered, CallStatesOf
  <2>5. \A content : ~Loaded(c, content) BY <1>0, <1>1 DEF Loaded, CallStatesOf
  <2>6. JudgeFound(c) BY <2>1, <2>2, <2>3, <2>4, <2>5 DEF Judge, JudgeReadable
  <2> QED BY <2>2, <2>3, <2>6 DEF JudgeFound
<1>2. ASSUME st'[c].op = "restore", st'[c].pc \in {"turn", "check", "upload"} PROVE st'[c].base.kind = "damaged"
  <2>1. Check(c) \/ TakeTurn(c) \/ (Recover(c) /\ st'[c].pc = "turn") BY <1>2, RestoreGoes
  <2>2. CASE Check(c)
    <3>1. OnlyMoves(c) BY <2>2, Goes
    <3> QED BY <1>2, <2>2, <3>1 DEF OnlyMoves, Matters, Check, Decided
  <2>3. CASE TakeTurn(c)
    <3>1. st'[c].op = st[c].op /\ st'[c].base = st[c].base BY <1>0, <2>3 DEF TakeTurn, CallStatesOf
    <3> QED BY <1>2, <2>3, <3>1 DEF TakeTurn, Decided
  <2>4. CASE Recover(c) /\ st'[c].pc = "turn"
    <3>1. \A answer : ~Finish(c, answer) BY <2>4, Ends DEF Typed
    <3>2. ASSUME NEW put, st' = [st EXCEPT ![c].pc = "turn", ![c].from = st[c].at, ![c].base = st[c].got, ![c].put = put]
          PROVE  st'[c].base = st[c].got
      BY <1>0, <3>2 DEF CallStatesOf
    <3>3. st'[c].base = st[c].got BY <2>4, <3>1, <3>2 DEF Recover
    <3> QED BY <2>4, <3>3 DEF Recover, Decided
  <2> QED BY <2>1, <2>2, <2>3, <2>4
<1>3. ASSUME st'[c].doomed # <<>> PROVE st'[c].pc \in {"beside", "make", "made", "aside", "done"}
  <2>1. CASE Beside(c) \/ ListBin(c) \/ SetAside(c) BY <2>1, Goes
  <2>2. CASE st'[c].doomed = st[c].doomed
    <3>1. st[c].pc \in {"beside", "make", "made", "aside", "done"} BY <1>3, <2>2 DEF Decided
    <3>2. Beside(c) \/ ListBin(c) \/ Make(c) \/ Made(c) \/ SetAside(c) \/ DriveFails(c) \/ Unanswered(c)
      BY <3>1 DEF Acts, Step, Begin, Drift, Recall, Fetch, Search, SearchBin, Found, Judge, Mending,
                  CatchUp, TakeTurn, Locate, Check, Upload, Answered, List, Recover, DriveFails, Requests
    <3> QED BY <3>2, Goes
  <2> QED BY <2>1, <2>2, DoomedStays
<1> QED BY <1>1, <1>2, <1>3 DEF Decided

LEMMA ActsSure ==
  ASSUME NEW CONSTANT N, Typed(N), NEW c \in Calls, Acts(c), ServedAlone
  PROVE  Sure(c)'
<1> SUFFICES ASSUME st'[c].pc = "upload" PROVE \A f : f = st'[c].at => Now(f)' = st'[c].base
  <2> QED BY DEF Sure, Now
<1>1. Check(c)
  <2>1. ~DriveFails(c) /\ ~Unanswered(c) /\ ~Drift(c) /\ ~Begin(c) BY Goes
  <2> QED BY <2>1, Goes DEF Acts, Step
<1>2. \E content \in Downloads(st[c].at) : Unchanged(c, content)
  <2>1. \A answer : ~Finish(c, answer) BY Ends DEF Typed
  <2> QED BY <1>1, <2>1 DEF Check
<1>3. Now(st[c].at) = st[c].base BY <1>2 DEF Downloads, ServedAlone, Unchanged, Now
<1>4. st'[c].at = st[c].at /\ st'[c].base = st[c].base BY <1>1, Goes DEF OnlyMoves, Matters
<1>5. file' = file BY <1>1 DEF Check, world
<1> QED BY <1>3, <1>4, <1>5 DEF Now

LEMMA ActsLeaves ==
  ASSUME NEW CONSTANT N, Typed(N), NEW c \in Calls, Placed(c), Acts(c), ServedAlone, adrift = {},
         Decided(c), Leaves(c)
  PROVE  Leaves(c)'
<1> DEFINE going == {f \in Files : MayLeave(f)}
           left == {f \in Files : MayLeave(f)'}
<1>0. file \in [Files -> FilesOf(N)] /\ \A f \in Files : Exists(f) => Len(file[f].past) > 0
  BY DEF Typed, FilesTyped
<1>1. st'[c].doomed \in Seq(going)
  <2>1. st[c].doomed \in Seq(going)
    <3>1. st[c].pc # "done"
      BY DEF Acts, Step, Begin, DriveFails, Unanswered, Drift, Recall, Fetch, Search, SearchBin, Found,
         Judge, Mending, CatchUp, TakeTurn, Locate, Check, Upload, Answered, Make, Made, List, Beside, ListBin,
         SetAside, Recover, Requests
    <3> QED BY <3>1 DEF Leaves
  <2>2. \A f \in Files : Exists(f) => file[f].past # <<>>
    <3> SUFFICES ASSUME NEW f \in Files, Exists(f), file[f].past = <<>> PROVE FALSE OBVIOUS
    <3>1. Len(file[f].past) > 0 BY <1>0
    <3> QED BY <3>1
  <2>3. \A f \in Files : file[f].mark = "profile" /\ file[f].inBin = TRUE => f \in going
    BY <2>2 DEF MayLeave, Exists
  <2>4. \A f \in Files : Exists(f) /\ (\E content \in Downloads(f) : content.kind # "reads") => f \in going
    BY <2>2 DEF MayLeave, Downloads, ServedAlone, Now
  <2> HIDE DEF going
  <2> QED BY <2>1, <2>3, <2>4, DoomedMoves
<1>2. ASSUME going \subseteq left PROVE Leaves(c)'
  <2> HIDE DEF going
  <2>1. st'[c].doomed \in Seq(left)
    <3> HIDE DEF left
    <3> QED BY <1>1, <1>2, SeqMonotonic
  <2> QED BY <2>1 DEF Leaves
<1>3. CASE UNCHANGED world
  <2>1. going \subseteq left BY <1>3 DEF world, MayLeave, Now
  <2> QED BY <1>2, <2>1
<1>4. CASE Writes(c)
  <2>1. st[c].pc = "upload" BY <1>4 DEF Writes
  <2>2. st[c].doomed = <<>> BY <2>1 DEF Decided
  <2>3. st'[c].doomed = <<>> BY <2>1, <2>2, DoomedStays DEF Beside, ListBin, SetAside
  <2> QED BY <2>3 DEF Leaves
<1>5. CASE Makes(c)
  <2>1. PICK g \in Files : PutNew(g, st[c].put, c) BY <1>5 DEF Makes
  <2>2. file[g].past = <<>> /\ \A f \in Files \ {g} : file'[f] = file[f] BY <2>1, PutNewMakes DEF Typed
  <2>3. going \subseteq left BY <2>2 DEF MayLeave, Now
  <2> QED BY <1>2, <2>3
<1>6. CASE SetsAside(c)
  <2>1. \A f \in Files : file'[f].inBin = file[f].inBin /\ file'[f].past = file[f].past
    BY <1>0, <1>6 DEF SetsAside, FilesOf
  <2>2. going \subseteq left BY <2>1 DEF MayLeave, Now
  <2> QED BY <1>2, <2>2
<1> QED BY <1>3, <1>4, <1>5, <1>6, FilesMove

Minded == ServedAlone =>
    /\ adrift = {}
    /\ \A c \in Calls : Decided(c) /\ Sure(c) /\ Leaves(c)

LEMMA GroundStays ==
  ASSUME Next \/ UNCHANGED vars PROVE ground' = ground /\ (ServedAlone' <=> ServedAlone)
<1>1. ground' = ground
  <2>1. ASSUME NEW c \in Calls, Acts(c) \/ LandLate(c) PROVE ground' = ground BY <2>1, ActsKeepBounds
  <2> QED BY <2>1 DEF Next, Acts, Lapse, Restart, Parent, AllDone, vars
<1> QED BY <1>1 DEF ServedAlone, Home

LEMMA InitMinded == ASSUME Init PROVE Minded
<1>1. adrift = {} /\ st = [c \in Calls |-> Idle] BY DEF Init
<1>2. ASSUME NEW c \in Calls PROVE Decided(c) /\ Sure(c) /\ Leaves(c)
  <2> DEFINE going == {f \in Files : MayLeave(f)}
  <2>1. <<>> \in Seq(going) OBVIOUS
  <2>2. st[c].pc = "idle" /\ st[c].doomed = <<>> BY <1>1 DEF Idle
  <2> QED BY <2>1, <2>2 DEF Decided, Sure, Leaves
<1> QED BY <1>1, <1>2 DEF Minded

LEMMA NextMinded ==
  ASSUME NEW CONSTANT N, N \subseteq Int, Typed(N), \A e \in Calls : Placed(e), Uploading, Minded, [Next]_vars
  PROVE  Minded'
<1> SUFFICES ASSUME ServedAlone
             PROVE  adrift' = {} /\ \A d \in Calls : Decided(d)' /\ Sure(d)' /\ Leaves(d)'
  BY GroundStays DEF Minded
<1>1. adrift = {} /\ \A d \in Calls : Decided(d) /\ Sure(d) /\ Leaves(d) BY DEF Minded
<1>2. adrift' = {}
  <2>1. Uploading' BY NextUploading
  <2> QED BY <2>1, GroundStays DEF Uploading, OnTime, ServedAlone
<1>3. ASSUME NEW d \in Calls PROVE Decided(d)' /\ Sure(d)' /\ Leaves(d)'
  <2>1. CASE Acts(d) BY <1>1, <2>1, ActsDecided, ActsSure, ActsLeaves
  <2>2. CASE ~Acts(d) /\ st'[d] = st[d]
    <3>1. Decided(d)' BY <1>1, <2>2 DEF Decided
    <3>2. CASE InTurn(d)
      <4>1. file' = file BY <1>1, <2>2, <3>2, InTurnSees DEF world
      <4>2. Sure(d)' BY <1>1, <2>2, <4>1 DEF Sure, Now
      <4>3. Leaves(d)' BY <1>1, <2>2, <4>1 DEF Leaves, MayLeave, Now
      <4> QED BY <3>1, <4>2, <4>3
    <3>3. CASE ~InTurn(d)
      <4>1. st[d].pc # "upload" /\ (st[d].pc = "done" \/ st[d].doomed = <<>>) BY <1>1, <3>3 DEF InTurn, Decided
      <4> DEFINE left == {f \in Files : MayLeave(f)'}
      <4>2. <<>> \in Seq(left) OBVIOUS
      <4>3. Leaves(d)'
        <5> HIDE DEF left
        <5>1. st'[d].pc # "done" => st'[d].doomed \in Seq(left) BY <2>2, <4>1, <4>2
        <5> QED BY <5>1 DEF Leaves, left
      <4> QED BY <2>2, <3>1, <4>1, <4>3 DEF Sure
    <3> QED BY <3>2, <3>3
  <2>3. CASE st'[d].pc = "done" BY <2>3 DEF Decided, Sure, Leaves
  <2> QED BY <2>1, <2>2, <2>3, CallMoves
<1> QED BY <1>2, <1>3

\* Served alone, no session sets a profile aside that reads, or lays over it anything but
\* the one computed from it: a recovery writes over damage, a new start looks at each
\* file before it sets it aside (startover.go:18-20, 27-28, history.go:57-59).
THEOREM ReadableStays == Spec /\ ServedAlone => ReadableIsKept
<1> DEFINE Inv == Refusing /\ OwnWrites /\ Uploading /\ Minded /\ ServedAlone
           Kept == \A f \in Files :
                      (IsProfile(f) /\ Now(f).kind = "reads") =>
                          /\ file'[f].mark # "aside"
                          /\ Len(file'[f].past) > Len(file[f].past) /\ acts' = acts =>
                                Last(file'[f].past).rev = Now(f).rev + 1
<1>1. Init /\ ServedAlone => Inv
  <2>1. Init => Uploading BY DEF Init, Uploading, Idle
  <2> QED BY <2>1, InitRefusing, InitOwn, InitMinded
<1>t. Refusing => Typed(Numbers) /\ Numbers \subseteq Int /\ \A e \in Calls : Placed(e)
  BY StandsTyped DEF Refusing, Stands
<1>2. Inv /\ [Next]_vars => Inv'
  <2> SUFFICES ASSUME Inv, [Next]_vars PROVE Inv' OBVIOUS
  <2>1. Refusing' /\ OwnWrites' BY NextRefusing, NextOwn
  <2>2. Uploading' /\ Minded' BY <1>t, NextUploading, NextMinded
  <2> QED BY <2>1, <2>2, GroundStays
<1>3. Inv /\ [Next]_vars => [Kept]_vars
  <2> SUFFICES ASSUME Inv, Next, NEW f \in Files, IsProfile(f), Now(f).kind = "reads"
               PROVE  /\ file'[f].mark # "aside"
                      /\ Len(file'[f].past) > Len(file[f].past) => Last(file'[f].past).rev = Now(f).rev + 1
    OBVIOUS
  <2>1. Typed(Numbers) /\ \A e \in Calls : Placed(e) BY <1>t
  <2>2. file \in [Files -> FilesOf(Numbers)] /\ FilesTyped(Numbers) BY <2>1 DEF Typed, FilesTyped
  <2>3. file[f].mark = "profile" /\ Len(file[f].past) \in Nat BY <2>2 DEF IsProfile, FilesOf
  <2>4. ASSUME file'[f].mark = file[f].mark, file'[f].past = file[f].past
        PROVE  file'[f].mark # "aside" /\ ~(Len(file'[f].past) > Len(file[f].past))
    BY <2>3, <2>4
  <2>5. CASE UNCHANGED world BY <2>4, <2>5 DEF world
  <2>6. ASSUME NEW c \in Calls, Writes(c), st[c].pc = "upload"
        PROVE  /\ file'[f].mark # "aside"
               /\ Len(file'[f].past) > Len(file[f].past) => Last(file'[f].past).rev = Now(f).rev + 1
    <3>1. st[c].at \in Files BY <2>1, <2>6 DEF Placed, AtAFile
    <3>2. CASE f # st[c].at
      <4>1. file'[f] = file[f] BY <2>2, <2>6, <3>1, <3>2, PutAppends DEF Writes
      <4> QED BY <2>4, <4>1
    <3>3. CASE f = st[c].at
      <4>1. Now(f) = st[c].base BY <2>6, <3>3 DEF Minded, Sure
      <4>2. st[c].loaded BY <2>1, <2>6, <4>1 DEF Placed, Minded, Decided
      <4>3. st[c].put.rev = st[c].base.rev + 1 BY <4>2 DEF OwnWrites, Own, Computed
      <4>4. file'[f].mark = file[f].mark /\ Now(f)' = st[c].put
        BY <2>2, <2>6, <3>1, <3>3, PutAppends DEF Writes
      <4> QED BY <2>3, <4>1, <4>3, <4>4 DEF Now
    <3> QED BY <3>2, <3>3
  <2>7. ASSUME NEW c \in Calls, Makes(c)
        PROVE  file'[f] = file[f]
    <3>1. PICK g \in Files : PutNew(g, st[c].put, c) BY <2>7 DEF Makes
    <3>2. f # g BY <2>2, <2>3, <3>1, PutNewMakes DEF Exists
    <3> QED BY <2>2, <3>1, <3>2, PutNewMakes
  <2>8. ASSUME NEW c \in Calls, SetsAside(c)
        PROVE  file'[f] = file[f]
    <3> DEFINE going == {g \in Files : MayLeave(g)}
    <3>1. st[c].doomed # <<>> /\ st[c].doomed \in Seq(going)
      BY <2>1, <2>8 DEF SetsAside, Placed, Minded, Leaves
    <3>2. Head(st[c].doomed) \in going
      <4> HIDE DEF going
      <4> QED BY <3>1, HeadTailProperties
    <3>3. Head(st[c].doomed) # f BY <3>2 DEF MayLeave, IsProfile
    <3> QED BY <2>2, <2>8, <3>3 DEF SetsAside
  <2>9. \A c \in Calls : Writes(c) => st[c].pc = "upload" BY DEF Writes, Minded
  <2>10. ASSUME file'[f] = file[f] PROVE file'[f].mark # "aside" /\ ~(Len(file'[f].past) > Len(file[f].past))
    BY <2>4, <2>10
  <2>11. adrift = {} BY DEF Minded
  <2> QED BY <2>1, <2>5, <2>6, <2>7, <2>8, <2>9, <2>10, <2>11, WorldMoves
<1> QED BY <1>1, <1>2, <1>3, PTL DEF Spec, ReadableIsKept

-----------------------------------------------------------------------------
(***************************************************************************)
(* The contract.  The history is that of the file a search finds, so every *)
(* write has to be to that file, and every new file to come in the place   *)
(* of one that does not read.  A recovery looks for the file before it has *)
(* its turn; a new start meanwhile would make another one the first.       *)
(***************************************************************************)

\* What a session in its turn has seen of the file a search finds.
Beholds(c) ==
    /\ st[c].op = "create" /\ st[c].pc \in {"bin", "make"} => Marked(FALSE) = <<>>
    /\ st[c].op = "startOver" /\ st[c].pc \in {"beside", "make"} =>
          \/ Marked(FALSE) = <<>>
          \/ /\ IsHead(st[c].at)
             /\ (st[c].pc = "beside" /\ st[c].at \in ToSet(st[c].todo)) \/ Now(st[c].at).kind # "reads"
    /\ st[c].pc \in {"made", "aside"} => IsHead(st[c].at)

LEMMA SameHeads ==
  ASSUME UNCHANGED world
  PROVE  Marked(FALSE)' = Marked(FALSE) /\ (\A f : IsHead(f)' <=> IsHead(f)) /\ History' = History
<1>1. file' = file /\ recent' = recent BY DEF world
<1>2. Marked(FALSE)' = Marked(FALSE) BY <1>1 DEF Marked
<1>3. (\A f : IsHead(f)' <=> IsHead(f)) BY <1>2 DEF IsHead
<1>4. History' = History BY <1>1, <1>2 DEF History
<1> QED BY <1>2, <1>3, <1>4

\* A file set aside is not the one that was made in its place.
LEMMA AsideStays ==
  ASSUME NEW CONSTANT N, Typed(N), NEW c \in Calls, Placed(c), Leaving(c), Replaced(c), Beholds(c), SetsAside(c)
  PROVE  \E f \in Files : f = st[c].at /\ IsHead(f) /\ IsHead(f)' /\ file'[f] = file[f]
<1> DEFINE going == {f \in Files : MayGo(f)}
<1>0. file \in [Files -> FilesOf(N)] /\ FilesTyped(N) BY DEF Typed, FilesTyped
<1>1. st[c].doomed # <<>> /\ st[c].doomed \in Seq(going) BY DEF SetsAside, Placed, Leaving
<1>2. Head(st[c].doomed) \in going
  <2> HIDE DEF going
  <2> QED BY <1>1, HeadTailProperties
<1>3. PICK g \in Files : g = Head(st[c].doomed) /\ MayGo(g) BY <1>2
<1>4. PICK f \in Files : f = st[c].at /\ Serves(f) /\ IsHead(f) BY DEF SetsAside, Replaced, Beholds
<1>5. f # g BY <1>3, <1>4 DEF Serves, MayGo, IsProfile
<1>6. file' = [file EXCEPT ![g].mark = "aside"] /\ recent' = recent BY <1>3 DEF SetsAside
<1>7. file'[f] = file[f] BY <1>0, <1>5, <1>6
<1>8. \A h \in Files : h # g => file'[h] = file[h] BY <1>0, <1>6
<1>9. file'[g].mark = "aside" BY <1>0, <1>6 DEF FilesOf
<1>10. Unbinned' \subseteq Unbinned BY <1>8, <1>9 DEF Unbinned
<1>11. f \in Unbinned
  <2>1. file[f] \in FilesOf(N) BY <1>0
  <2> QED BY <1>4, <2>1 DEF Serves, IsProfile, Unbinned, FilesOf
<1>12. f \in Unbinned' BY <1>7, <1>11 DEF Unbinned
<1>13. IsHead(f)' BY <1>0, <1>4, <1>6, <1>10, <1>12, HeadStays
<1> QED BY <1>4, <1>7, <1>13

LEMMA ActsBeholds ==
  ASSUME NEW CONSTANT N, Typed(N), Typed(N)', NEW c \in Calls, Placed(c), Leaving(c), Replaced(c), Acts(c),
         ServedAlone, Beholds(c)
  PROVE  Beholds(c)'
<1>0. st \in [Calls -> CallStatesOf(N)] /\ st[c] \in CallStatesOf(N) BY DEF Typed, CallsTyped
<1>a. UNCHANGED world => Marked(FALSE)' = Marked(FALSE) /\ (\A f : IsHead(f)' <=> IsHead(f)) BY SameHeads
<1>1. ASSUME st'[c].op = "create", st'[c].pc \in {"bin", "make"} PROVE Marked(FALSE)' = <<>>
  <2>1. Search(c) \/ SearchBin(c) \/ ListBin(c)
    <3>1. ~Begin(c) /\ ~DriveFails(c) /\ ~Unanswered(c) /\ ~Drift(c) BY <1>1, Goes
    <3> QED BY <1>1, <3>1, Goes DEF Acts, Step
  <2>2. CASE Search(c)
    <3>1. ASSUME Marked(FALSE) # <<>> PROVE FALSE
      <4>1. PICK f : f = Head(Marked(FALSE)) OBVIOUS
      <4>2. st' = [st EXCEPT ![c].pc = "found", ![c].at = f] BY <2>2, <3>1, <4>1 DEF Search
      <4>3. st'[c].pc = "found" BY <1>0, <4>2 DEF CallStatesOf
      <4>4. st'[c].pc \notin {"bin", "make"} BY <4>3
      <4> QED BY <1>1, <4>4
    <3> QED BY <1>a, <2>2, <3>1 DEF Search
  <2>3. CASE SearchBin(c)
    <3>1. st'[c].op = st[c].op BY <2>3, Goes DEF OnlyMoves, Matters
    <3>2. Marked(FALSE) = <<>> BY <1>1, <2>3, <3>1 DEF SearchBin, Beholds
    <3> QED BY <1>a, <2>3, <3>2 DEF SearchBin
  <2>4. CASE ListBin(c)
    <3>1. st[c].op = "startOver" /\ st[c].pc # "idle" BY <2>4 DEF ListBin, Placed
    <3> QED BY <1>1, <3>1, KindStays
  <2> QED BY <2>1, <2>2, <2>3, <2>4
<1>2. ASSUME st'[c].op = "startOver", st'[c].pc \in {"beside", "make"}, Marked(FALSE)' # <<>>
      PROVE  \A f : f = st'[c].at =>
               /\ IsHead(f)'
               /\ (st'[c].pc = "beside" /\ f \in ToSet(st'[c].todo)) \/ Now(f)'.kind # "reads"
  <2>1. SearchBin(c) \/ List(c) \/ Beside(c) \/ ListBin(c)
    <3>1. ~Begin(c) /\ ~DriveFails(c) /\ ~Unanswered(c) /\ ~Drift(c) BY <1>2, Goes
    <3> QED BY <1>2, <3>1, Goes DEF Acts, Step
  <2>2. ~SearchBin(c)
    <3>1. SearchBin(c) => st[c].op # "startOver" BY DEF SearchBin, Placed, InSearch
    <3>2. SearchBin(c) => st'[c].op = st[c].op BY Goes DEF OnlyMoves, Matters
    <3> QED BY <1>2, <3>1, <3>2
  <2>3. UNCHANGED world BY <2>1, <2>2 DEF List, Beside, ListBin
  <2>4. Marked(FALSE) # <<>> BY <1>a, <1>2, <2>3
  <2>5. CASE List(c)
    <3>1. Marked(FALSE) \in Seq(Files)
      <4> DEFINE found == {f \in Files : file[f].mark = "profile" /\ file[f].inBin = FALSE}
      <4>1. Marked(FALSE) \in Seq(found) BY MarkedTyped DEF Typed, FilesTyped
      <4>2. found \subseteq Files OBVIOUS
      <4> HIDE DEF found
      <4> QED BY <4>1, <4>2, SeqMonotonic
    <3>2. PICK found \in Seq(Files) : found = Marked(FALSE) BY <3>1
    <3>3. PICK f : f = Head(found) OBVIOUS
    <3>4. st' = [st EXCEPT ![c].pc = "beside", ![c].todo = found, ![c].at = f]
      BY <2>4, <2>5, <3>2, <3>3 DEF List
    <3>5. st'[c].pc = "beside" /\ st'[c].todo = found /\ st'[c].at = f BY <1>0, <3>4 DEF CallStatesOf
    <3>6. f \in ToSet(found)
      <4>1. found # <<>> BY <2>4, <3>2
      <4>2. 1 \in DOMAIN found /\ found[1] = f BY <3>3, <4>1
      <4> QED BY <4>2 DEF ToSet
    <3>7. IsHead(f)' BY <1>a, <2>3, <2>4, <3>2, <3>3 DEF IsHead
    <3> QED BY <3>5, <3>6, <3>7
  <2>6. CASE Beside(c)
    <3> DEFINE f == Head(st[c].todo)
               rest == Tail(st[c].todo)
               more == Append(st[c].doomed, f)
    <3>1. \A answer : ~Finish(c, answer) BY <1>2, Ends DEF Typed
    <3>2. \/ f # st[c].at /\ ~Exists(f) /\ st' = [st EXCEPT ![c].todo = rest]
          \/ f # st[c].at /\ Exists(f) /\ st' = [st EXCEPT ![c].todo = rest]
          \/ /\ Exists(f) /\ \E content \in Downloads(f) : content.kind # "reads"
             /\ st' = [st EXCEPT ![c].todo = rest, ![c].doomed = more]
      BY <1>0, <2>6, <3>1 DEF Beside, Verdict
    <3>3. st'[c].at = st[c].at /\ st'[c].pc = st[c].pc /\ st'[c].todo = rest
      <4> HIDE DEF f, rest, more
      <4>1. ASSUME st' = [st EXCEPT ![c].todo = rest]
            PROVE  st'[c].at = st[c].at /\ st'[c].pc = st[c].pc /\ st'[c].todo = rest
        BY <1>0, <4>1 DEF CallStatesOf
      <4>2. ASSUME st' = [st EXCEPT ![c].todo = rest, ![c].doomed = more]
            PROVE  st'[c].at = st[c].at /\ st'[c].pc = st[c].pc /\ st'[c].todo = rest
        BY <1>0, <4>2 DEF CallStatesOf
      <4> QED BY <3>2, <4>1, <4>2
    <3>4. st[c].op = "startOver" /\ st[c].pc = "beside" BY <2>6 DEF Beside, Placed
    <3>5. IsHead(st[c].at) /\ (st[c].at \in ToSet(st[c].todo) \/ Now(st[c].at).kind # "reads")
      BY <2>4, <3>4 DEF Beholds
    <3>6. CASE f = st[c].at
      <4>1. \E content \in Downloads(st[c].at) : content.kind # "reads" BY <3>2, <3>6
      <4>2. Now(st[c].at).kind # "reads" BY <4>1 DEF Downloads, ServedAlone, Now
      <4> QED BY <1>a, <2>3, <3>3, <3>5, <4>2 DEF Now, world
    <3>7. CASE f # st[c].at
      <4>1. ASSUME st[c].at \in ToSet(st[c].todo) PROVE st[c].at \in ToSet(rest)
        <5>1. st[c].todo \in Seq(Files) /\ st[c].todo # <<>> BY <1>0, <2>6 DEF CallStatesOf, Beside
        <5>2. PICK todo \in Seq(Files) : todo = st[c].todo /\ todo # <<>> BY <5>1
        <5>3. PICK n \in 1..Len(todo) : todo[n] = st[c].at BY <4>1, <5>2 DEF ToSet
        <5>4. Tail(todo) \in Seq(Files) /\ Len(Tail(todo)) = Len(todo) - 1
              /\ \A i \in 1..Len(Tail(todo)) : Tail(todo)[i] = todo[i + 1]
          BY <5>2, HeadTailProperties
        <5>5. n # 1 BY <3>7, <5>2, <5>3
        <5>6. Len(todo) \in Nat BY <5>2
        <5>7. n - 1 \in 1..Len(Tail(todo)) /\ (n - 1) + 1 = n BY <5>4, <5>5, <5>6
        <5>8. Tail(todo)[n - 1] = st[c].at BY <5>3, <5>4, <5>7
        <5>9. st[c].at \in ToSet(Tail(todo))
          <6>1. n - 1 \in DOMAIN Tail(todo) BY <5>4, <5>7
          <6> QED BY <5>8, <6>1 DEF ToSet
        <5> QED BY <5>2, <5>9
      <4> HIDE DEF rest
      <4> QED BY <1>a, <2>3, <3>3, <3>4, <3>5, <4>1 DEF Now, world
    <3> QED BY <3>6, <3>7
  <2>7. CASE ListBin(c)
    <3>1. st'[c].at = st[c].at
      <4>1. ~Recall(c) /\ ~Locate(c) /\ ~Search(c) /\ ~List(c) /\ ~Make(c)
        BY <2>7 DEF Recall, Locate, Search, List, Make, ListBin
      <4> QED BY <4>1, AtMoves
    <3>2. st[c].op = "startOver" /\ st[c].pc = "beside" /\ st[c].todo = <<>> BY <2>7 DEF ListBin, Placed
    <3>3. ToSet(st[c].todo) = {} BY <3>2 DEF ToSet
    <3>4. IsHead(st[c].at) /\ Now(st[c].at).kind # "reads" BY <2>4, <3>2, <3>3 DEF Beholds
    <3> QED BY <1>a, <2>3, <3>1, <3>4 DEF Now, world
  <2> QED BY <2>1, <2>2, <2>5, <2>6, <2>7
<1>3. ASSUME st'[c].pc \in {"made", "aside"} PROVE \A f : f = st'[c].at => IsHead(f)'
  <2>1. Make(c) \/ Made(c) \/ SetAside(c)
    <3>1. ~DriveFails(c) /\ ~Unanswered(c) /\ ~Drift(c) /\ ~Begin(c) BY <1>3, Goes
    <3> QED BY <1>3, <3>1, Goes DEF Acts, Step
  <2>2. CASE Make(c)
    <3>1. PICK g \in Files : PutNew(g, st[c].put, c) /\ st' = [st EXCEPT ![c].pc = "made", ![c].at = g]
      BY <2>2 DEF Make
    <3>2. st'[c].at = g BY <1>0, <3>1 DEF CallStatesOf
    <3>3. IsProfile(g)' /\ recent' = Touched(g) BY <3>1, PutNewMakes DEF Typed, PutNew
    <3>4. IsHead(g)' BY <3>3, TouchedIsHead DEF Typed
    <3> QED BY <3>2, <3>4
  <2>3. CASE Made(c)
    <3>1. st'[c].at = st[c].at BY <2>3, Goes DEF OnlyMoves, Matters
    <3>2. IsHead(st[c].at) /\ UNCHANGED world BY <2>3 DEF Made, Beholds
    <3> QED BY <1>a, <3>1, <3>2
  <2>4. CASE SetAside(c)
    <3>1. st'[c].at = st[c].at
      <4>1. ~Recall(c) /\ ~Locate(c) /\ ~Search(c) /\ ~List(c) /\ ~Make(c)
        BY <2>4 DEF Recall, Locate, Search, List, Make, SetAside
      <4> QED BY <4>1, AtMoves
    <3>2. CASE file' = file
      <4>1. IsHead(st[c].at) /\ UNCHANGED world BY <2>4, <3>2 DEF SetAside, Beholds, world
      <4> QED BY <1>a, <3>1, <4>1
    <3>3. CASE file' # file
      <4>1. SetsAside(c) BY <2>4, <3>3 DEF SetAside, SetsAside
      <4> QED BY <3>1, <4>1, AsideStays
    <3> QED BY <3>2, <3>3
  <2> QED BY <2>1, <2>2, <2>3, <2>4
<1> QED BY <1>1, <1>2, <1>3 DEF Beholds, IsHead, Now

\* Served alone, a file is damaged once at most, and was read before.
OnceDamaged(f) ==
    /\ file[f].past # <<>> => file[f].past[1].kind = "reads"
    /\ \A n \in DOMAIN file[f].past : file[f].past[n].kind # "reads" => n = 2

LEMMA DamagedOnce ==
  ASSUME NEW CONSTANT N, Typed(N), \A e \in Calls : Placed(e), ServedAlone, adrift = {},
         Next \/ UNCHANGED vars, NEW f \in Files, OnceDamaged(f)
  PROVE  OnceDamaged(f)'
<1>0. file \in [Files -> FilesOf(N)] BY DEF Typed, FilesTyped
<1>1. ASSUME file'[f].past = file[f].past PROVE OnceDamaged(f)' BY <1>1 DEF OnceDamaged
<1>2. ASSUME NEW c \in Calls, Writes(c), st[c].pc = "upload" PROVE OnceDamaged(f)'
  <2>1. st[c].at \in Files /\ st[c].put.kind = "reads" BY <1>2 DEF Placed, AtAFile
  <2>2. CASE f # st[c].at
    <3>1. file'[f] = file[f] BY <1>2, <2>1, <2>2, PutAppends DEF Writes, Typed
    <3> QED BY <1>1, <3>1
  <2>3. CASE f = st[c].at
    <3> DEFINE len == Len(file[f].past)
    <3>1. /\ DOMAIN file'[f].past = 1..(len + 1) /\ DOMAIN file[f].past = 1..len /\ len \in Nat
          /\ \A n \in 1..len : file'[f].past[n] = file[f].past[n]
          /\ file'[f].past[len + 1] = st[c].put
      BY <1>2, <2>1, <2>3, PutAppends DEF Writes, Typed
    <3>2. len > 0 => file[f].past # <<>>
      <4>1. file[f].past = <<>> => len = 0 OBVIOUS
      <4> QED BY <3>1, <4>1
    <3> HIDE DEF len
    <3>3. \A n \in 1..(len + 1) : n \in 1..len \/ n = len + 1 BY <3>1
    <3>4. ASSUME NEW n \in 1..(len + 1), file'[f].past[n].kind # "reads" PROVE n = 2
      BY <2>1, <3>1, <3>3, <3>4 DEF OnceDamaged
    <3>5. file'[f].past[1].kind = "reads"
      <4>1. CASE len = 0 BY <2>1, <3>1, <4>1
      <4>2. CASE len > 0 BY <3>1, <3>2, <4>2 DEF OnceDamaged
      <4> QED BY <3>1, <4>1, <4>2
    <3> QED BY <3>1, <3>4, <3>5 DEF OnceDamaged
  <2> QED BY <2>2, <2>3
<1>3. ASSUME NEW c \in Calls, Makes(c) PROVE OnceDamaged(f)'
  <2>1. PICK g \in Files : PutNew(g, st[c].put, c) BY <1>3 DEF Makes
  <2>2. CASE f # g
    <3>1. \A h \in Files \ {g} : file'[h] = file[h] BY <2>1, PutNewMakes DEF Typed
    <3> QED BY <1>1, <2>2, <3>1
  <2>3. CASE f = g
    <3>1. DOMAIN file'[f].past = {1} /\ file'[f].past[1] = st[c].put BY <2>1, <2>3, PutNewMakes DEF Typed
    <3>2. st[c].put.kind = "reads" BY <1>3 DEF Makes, Placed
    <3> QED BY <3>1, <3>2 DEF OnceDamaged
  <2> QED BY <2>2, <2>3
<1>4. ASSUME NEW c \in Calls, SetsAside(c) PROVE OnceDamaged(f)'
  <2>1. file'[f].past = file[f].past BY <1>0, <1>4 DEF SetsAside, FilesOf
  <2> QED BY <1>1, <2>1
<1>5. CASE UNCHANGED world BY <1>1, <1>5 DEF world
<1> QED BY <1>2, <1>3, <1>4, <1>5, WorldMoves DEF Writes

\* How the file a search finds comes to be another.
Uppermost(c) == st[c].pc = "upload" => IsHead(st[c].at)
WritesFirst(c, f) == Writes(c) /\ f = st[c].at /\ IsHead(f) /\ IsHead(f)' /\ \A g \in Files \ {f} : file'[g] = file[g]
MakesFirst(c, f) == Makes(c) /\ PutNew(f, st[c].put, c) /\ IsHead(f)' /\ \A g \in Files \ {f} : file'[g] = file[g]
LeavesFirst(c, f) ==
    /\ SetsAside(c) /\ f = st[c].at /\ IsHead(f) /\ IsHead(f)' /\ file'[f] = file[f]
    /\ \A g \in Files : file'[g].past = file[g].past

LEMMA HeadsMove ==
  ASSUME NEW CONSTANT N, Typed(N), Typed(N)', NEW c \in Calls, Placed(c), Leaving(c), Replaced(c), Acts(c),
         adrift = {}, Beholds(c), Uppermost(c)
  PROVE  \/ UNCHANGED world
         \/ \E f \in Files : WritesFirst(c, f) \/ MakesFirst(c, f) \/ LeavesFirst(c, f)
<1>0. file \in [Files -> FilesOf(N)] BY DEF Typed, FilesTyped
<1>1. CASE Writes(c)
  <2>1. PICK f \in Files : f = st[c].at BY <1>1 DEF Writes, Placed, AtAFile
  <2>2. IsHead(f) BY <1>1, <2>1 DEF Writes, Uppermost
  <2>3. IsProfile(f) BY <2>2, HeadIs DEF Typed
  <2>4. /\ \A g \in Files \ {f} : file'[g] = file[g]
        /\ file'[f].mark = file[f].mark /\ file'[f].inBin = file[f].inBin
    BY <1>1, <2>1, PutAppends DEF Writes, Typed
  <2>5. IsProfile(f)' BY <2>3, <2>4 DEF IsProfile
  <2>6. IsHead(f)' BY <1>1, <2>1, <2>5, TouchedIsHead DEF Writes, Put, Typed
  <2> QED BY <1>1, <2>1, <2>2, <2>4, <2>6 DEF WritesFirst
<1>2. CASE Makes(c)
  <2>1. PICK f \in Files : PutNew(f, st[c].put, c) BY <1>2 DEF Makes
  <2>2. IsProfile(f)' /\ \A g \in Files \ {f} : file'[g] = file[g] BY <2>1, PutNewMakes DEF Typed
  <2>3. IsHead(f)' BY <2>1, <2>2, TouchedIsHead DEF PutNew, Typed
  <2> QED BY <1>2, <2>1, <2>2, <2>3 DEF MakesFirst
<1>3. CASE SetsAside(c)
  <2>1. \A g \in Files : file'[g].past = file[g].past BY <1>0, <1>3 DEF SetsAside, FilesOf
  <2> QED BY <1>3, <2>1, AsideStays DEF LeavesFirst
<1> QED BY <1>1, <1>2, <1>3, FilesMove

\* A file remembered, or gone to, is the one a search finds, if it reads.
Led(f) == f \in Files /\ NowReads(f) => IsHead(f)

LEMMA LedStays ==
  ASSUME NEW CONSTANT N, Typed(N), NEW c \in Calls, Placed(c), Beholds(c),
         \/ UNCHANGED world
         \/ \E g \in Files : WritesFirst(c, g) \/ MakesFirst(c, g) \/ LeavesFirst(c, g),
         NEW f, Led(f), f \in Files => file[f].past # <<>>
  PROVE  Led(f)'
<1> SUFFICES ASSUME f \in Files, NowReads(f)' PROVE IsHead(f)' BY DEF Led
<1>1. CASE UNCHANGED world
  <2>1. NowReads(f) BY <1>1 DEF world, NowReads, Now
  <2> QED BY <1>1, <2>1, SameHeads DEF Led
<1>2. ASSUME NEW g \in Files, WritesFirst(c, g) PROVE IsHead(f)'
  <2>1. CASE f = g BY <1>2, <2>1 DEF WritesFirst
  <2>2. CASE f # g
    <3>1. file'[f] = file[f] BY <1>2, <2>2 DEF WritesFirst
    <3>2. NowReads(f) BY <3>1 DEF NowReads, Now
    <3>3. IsHead(f) BY <3>2 DEF Led
    <3> QED BY <1>2, <2>2, <3>3, OneHead DEF WritesFirst
  <2> QED BY <2>1, <2>2
<1>3. ASSUME NEW g \in Files, MakesFirst(c, g) PROVE IsHead(f)'
  <2>1. file[g].past = <<>> BY <1>3, PutNewMakes DEF MakesFirst, Typed
  <2>2. f # g BY <2>1
  <2>3. file'[f] = file[f] BY <1>3, <2>2 DEF MakesFirst
  <2>4. NowReads(f) BY <2>3 DEF NowReads, Now
  <2>5. IsHead(f) BY <2>4 DEF Led
  <2>6. st[c].pc = "make" /\ st[c].op \in {"create", "startOver"} BY <1>3 DEF MakesFirst, Makes, Placed
  <2>7. Marked(FALSE) # <<>> BY <2>5 DEF IsHead
  <2>8. IsHead(st[c].at) /\ Now(st[c].at).kind # "reads" BY <2>6, <2>7 DEF Beholds
  <2>9. st[c].at = f BY <2>5, <2>8, OneHead
  <2> QED BY <2>4, <2>8, <2>9 DEF NowReads
<1>4. ASSUME NEW g \in Files, LeavesFirst(c, g) PROVE IsHead(f)'
  <2>1. file'[f].past = file[f].past BY <1>4 DEF LeavesFirst
  <2>2. NowReads(f) BY <2>1 DEF NowReads, Now
  <2>3. IsHead(f) BY <2>2 DEF Led
  <2>4. f = g BY <1>4, <2>3, OneHead DEF LeavesFirst
  <2> QED BY <1>4, <2>4 DEF LeavesFirst
<1> QED BY <1>1, <1>2, <1>3, <1>4

\* Until its damage is put back, a recovery is at the file a search finds.
ToMend(c) ==
    /\ st[c].op = "restore"
    /\ \/ st[c].pc \in {"found", "recover", "turn", "check", "upload"}
       \/ st[c].pc \in {"fetch", "judge", "mending"} /\ ~FromMemory(c)
Mendable(c) == ToMend(c) => IsHead(st[c].at)

LEMMA FindsHead ==
  ASSUME NEW CONSTANT N, Typed(N), NEW c \in Calls, Search(c) \/ List(c)
  PROVE  \/ Search(c) /\ st'[c].at = st[c].at /\ st'[c].pc = "bin"
         \/ List(c) /\ st'[c].at = NoFile
         \/ IsHead(st'[c].at)
<1>0. st \in [Calls -> CallStatesOf(N)] BY DEF Typed, CallsTyped
<1>1. PICK found : found = Marked(FALSE) OBVIOUS
<1>2. PICK f : f = Head(found) OBVIOUS
<1>3. CASE Search(c) /\ found # <<>>
  <2>1. st' = [st EXCEPT ![c].pc = "found", ![c].at = f] BY <1>1, <1>2, <1>3 DEF Search
  <2>2. st'[c].at = f BY <1>0, <2>1 DEF CallStatesOf
  <2> QED BY <1>1, <1>2, <1>3, <2>2 DEF IsHead
<1>4. CASE Search(c) /\ found = <<>>
  <2>1. st' = [st EXCEPT ![c].pc = "bin"] BY <1>1, <1>4 DEF Search
  <2>2. st'[c].at = st[c].at /\ st'[c].pc = "bin" BY <1>0, <2>1 DEF CallStatesOf
  <2> QED BY <1>4, <2>2
<1>5. CASE List(c)
  <2>1. PICK at : at = IF found = <<>> THEN NoFile ELSE f OBVIOUS
  <2>2. st' = [st EXCEPT ![c].pc = "beside", ![c].todo = found, ![c].at = at] BY <1>1, <1>2, <1>5, <2>1 DEF List
  <2>3. st'[c].at = at BY <1>0, <2>2 DEF CallStatesOf
  <2> QED BY <1>1, <1>2, <1>5, <2>1, <2>3 DEF IsHead
<1> QED BY <1>3, <1>4, <1>5

LEMMA ComesToMend ==
  ASSUME NEW CONSTANT N, Typed(N), NEW c \in Calls, Placed(c), Acts(c), ToMend(c)'
  PROVE  UNCHANGED world /\ (Search(c) \/ (ToMend(c) /\ st'[c].at = st[c].at))
<1>0. st \in [Calls -> CallStatesOf(N)] BY DEF Typed, CallsTyped
<1>1. st'[c].op = "restore" /\ st'[c].pc \in {"found", "recover", "turn", "check", "upload", "fetch", "judge", "mending"}
  BY DEF ToMend
<1>2. /\ ~DriveFails(c) /\ ~Unanswered(c) /\ ~Drift(c) /\ ~SearchBin(c) /\ ~Upload(c) /\ ~Answered(c) /\ ~Make(c)
      /\ ~Made(c) /\ ~List(c) /\ ~Beside(c) /\ ~ListBin(c) /\ ~SetAside(c)
  BY <1>1, Goes
<1>3. UNCHANGED world
  BY <1>2 DEF Acts, Step, Begin, Recall, Fetch, Search, Found, Judge, Mending, CatchUp, TakeTurn, Locate, Check,
              Recover
<1>4. CASE st'[c].pc \in {"turn", "check", "upload"}
  <2>1. Check(c) \/ TakeTurn(c) \/ Recover(c) BY <1>1, <1>4, RestoreGoes
  <2>2. st[c].op = "restore" /\ st'[c].at = st[c].at
    <3>1. st[c].pc # "idle" BY <2>1 DEF Check, TakeTurn, Recover
    <3>2. ~Recall(c) /\ ~Locate(c) /\ ~Search(c) BY <2>1 DEF Check, TakeTurn, Recover, Recall, Locate, Search
    <3> QED BY <1>1, <1>2, <3>1, <3>2, KindStays, AtMoves
  <2> QED BY <1>3, <2>1, <2>2 DEF ToMend, Check, TakeTurn, Recover
<1>5. CASE st'[c].pc \in {"recover", "mending"}
  <2>1. Judge(c) BY <1>2, <1>5, Goes DEF Acts, Step
  <2>2. \A answer : ~Finish(c, answer) BY <1>5, Ends DEF Typed
  <2>3. \A content : ~Loaded(c, content) BY <1>0, <1>5 DEF Loaded, CallStatesOf
  <2>4. ~JudgeRemembered(c) BY <1>0, <1>5 DEF JudgeRemembered, CallStatesOf
  <2>5. ~Go(c, "catchUp") BY <1>5, GoesOn DEF Typed
  <2>6. ~FromMemory(c) BY <2>1, <2>2, <2>3, <2>4, <2>5 DEF Judge, JudgeReadable, JudgeFound
  <2>7. st[c].op = "restore" /\ st'[c].at = st[c].at
    <3>1. st[c].pc # "idle" BY <2>1 DEF Judge
    <3>2. ~Recall(c) /\ ~Locate(c) /\ ~Search(c) BY <2>1 DEF Judge, Recall, Locate, Search
    <3> QED BY <1>1, <1>2, <3>1, <3>2, KindStays, AtMoves
  <2> QED BY <1>3, <2>1, <2>6, <2>7 DEF ToMend, Judge
<1>6. CASE st'[c].pc = "found" BY <1>2, <1>3, <1>6, Goes DEF Acts, Step
<1>7. CASE st'[c].pc \in {"fetch", "judge"}
  <2>1. Recall(c) \/ Found(c) \/ Fetch(c) \/ Mending(c) BY <1>2, <1>7, Goes DEF Acts, Step
  <2>2. st'[c].known.file = NoFile BY <1>7 DEF ToMend, FromMemory
  <2>3. ~Recall(c)
    <3> SUFFICES ASSUME Recall(c) PROVE FALSE OBVIOUS
    <3>1. CASE Known(Home[c])
      <4>1. st'[c].known = mem[Home[c]] BY <1>0, <3>1 DEF Recall, CallStatesOf
      <4> QED BY <2>2, <3>1, <4>1 DEF Known
    <3>2. CASE ~Known(Home[c])
      <4>1. st'[c].pc = "search" BY <3>2, GoesOn DEF Recall, Typed
      <4> QED BY <1>7, <4>1
    <3> QED BY <3>1, <3>2
  <2>4. ~Mending(c)
    <3> SUFFICES ASSUME Mending(c) PROVE FALSE OBVIOUS
    <3>1. \A answer : ~Finish(c, answer) BY <1>7, Ends DEF Typed
    <3>2. ASSUME NEW content, st' = [st EXCEPT ![c].pc = "judge", ![c].got = content, ![c].known = st[c].early]
          PROVE  st'[c].known = st[c].early
      BY <1>0, <3>2 DEF CallStatesOf
    <3>3. st'[c].known = st[c].early BY <3>1, <3>2 DEF Mending
    <3>4. st[c].early.file = st[c].at /\ st[c].at \in Files BY DEF Mending, Placed, AtAFile
    <3> QED BY <2>2, <3>3, <3>4, NoFileIsNone
  <2>5. st[c].op = "restore" /\ st'[c].at = st[c].at
    <3>1. st[c].pc # "idle" BY <2>1, <2>3, <2>4 DEF Found, Fetch
    <3>2. ~Recall(c) /\ ~Locate(c) /\ ~Search(c) BY <2>1, <2>3, <2>4 DEF Found, Fetch, Locate, Search
    <3> QED BY <1>1, <1>2, <3>1, <3>2, KindStays, AtMoves
  <2>6. CASE Found(c) BY <1>3, <2>5, <2>6 DEF ToMend, Found
  <2>7. CASE Fetch(c)
    <3>1. \A answer : ~Finish(c, answer) BY <1>7, Ends DEF Typed
    <3>2. ASSUME st' = [st EXCEPT ![c].pc = "search", ![c].known = NoEntry] PROVE FALSE
      BY <1>0, <1>7, <3>2 DEF CallStatesOf
    <3>3. \E content : st' = [st EXCEPT ![c].pc = "judge", ![c].got = content] BY <2>7, <3>1, <3>2 DEF Fetch
    <3>4. st'[c].known = st[c].known BY <1>0, <3>3 DEF CallStatesOf
    <3> QED BY <1>3, <2>2, <2>5, <2>7, <3>4 DEF ToMend, Fetch, FromMemory
  <2> QED BY <2>1, <2>3, <2>4, <2>6, <2>7
<1> QED BY <1>1, <1>4, <1>5, <1>6, <1>7

\* Nothing but a new start makes another file the first, and it does not meet a recovery.
LEMMA MendableStays ==
  ASSUME NEW CONSTANT N, Typed(N), OneWayToMend, NEW c \in Calls, Placed(c), Beholds(c),
         \/ UNCHANGED world
         \/ \E g \in Files : WritesFirst(c, g) \/ MakesFirst(c, g) \/ LeavesFirst(c, g),
         NEW d \in Calls, Mendable(d), st'[d] = st[d]
  PROVE  Mendable(d)'
<1> SUFFICES ASSUME ToMend(d)' PROVE \A f : f = st[d].at => IsHead(f)' BY DEF Mendable, IsHead
<1>1. ToMend(d) BY DEF ToMend, FromMemory
<1>2. PICK f : f = st[d].at /\ IsHead(f) BY <1>1 DEF Mendable
<1>3. CASE UNCHANGED world BY <1>2, <1>3, SameHeads
<1>4. ASSUME NEW g \in Files, WritesFirst(c, g) \/ LeavesFirst(c, g) PROVE IsHead(f)'
  <2>1. IsHead(g) /\ IsHead(g)' BY <1>4 DEF WritesFirst, LeavesFirst
  <2>2. f = g BY <1>2, <2>1, OneHead
  <2> QED BY <2>1, <2>2
<1>5. ASSUME NEW g \in Files, MakesFirst(c, g) PROVE FALSE
  <2>1. st[c].pc = "make" /\ st[c].op \in {"create", "startOver"} BY <1>5 DEF MakesFirst, Makes, Placed
  <2>2. Marked(FALSE) # <<>> BY <1>2 DEF IsHead
  <2>3. st[c].op = "startOver" BY <2>1, <2>2 DEF Beholds
  <2>4. Running(c) /\ Running(d) /\ st[d].op = "restore" BY <1>1, <2>1 DEF Running, ToMend
  <2> QED BY <2>3, <2>4 DEF OneWayToMend
<1> QED BY <1>2, <1>3, <1>4, <1>5

\* What has landed when a session is told of it.
Told(c) ==
    /\ st[c].pc \in {"answered", "made", "aside"} => c \in landed
    /\ st[c].pc = "answered" => st[c].sound

LEMMA ActsTold ==
  ASSUME NEW CONSTANT N, Typed(N), NEW c \in Calls, Placed(c), Acts(c), Told(c), Uppermost(c)
  PROVE  Told(c)'
<1>0. st \in [Calls -> CallStatesOf(N)] BY DEF Typed, CallsTyped
<1>1. ASSUME st'[c].pc \in {"answered", "made", "aside"}
      PROVE  Upload(c) \/ Make(c) \/ Made(c) \/ SetAside(c)
  <2>1. ~DriveFails(c) /\ ~Unanswered(c) /\ ~Drift(c) /\ ~Begin(c) BY <1>1, Goes
  <2> QED BY <1>1, <2>1, Goes DEF Acts, Step
<1>2. ASSUME Upload(c), st'[c].pc = "answered" PROVE c \in landed' /\ st'[c].sound
  <2>1. \A answer : ~Finish(c, answer) BY <1>2, Ends DEF Typed
  <2>2. PICK yes \in BOOLEAN : yes = IsProfile(st[c].at) BY DEF IsProfile
  <2>3. landed' = landed \cup {c} /\ st' = [st EXCEPT ![c].pc = "answered", ![c].sound = yes]
    BY <1>2, <2>1, <2>2 DEF Upload
  <2>4. st'[c].sound = yes BY <1>0, <2>3 DEF CallStatesOf
  <2>5. IsHead(st[c].at) BY <1>2 DEF Upload, Uppermost
  <2>6. IsProfile(st[c].at) BY <2>5, HeadIs DEF Typed
  <2> QED BY <2>2, <2>3, <2>4, <2>6
<1>3. Upload(c) => st'[c].pc \notin {"made", "aside"} BY Goes
<1>4. Make(c) => c \in landed' BY DEF Make
<1>5. Made(c) \/ SetAside(c) => c \in landed' BY DEF Made, SetAside, world, Told
<1>6. Make(c) \/ Made(c) \/ SetAside(c) => st'[c].pc # "answered" BY Goes
<1> QED BY <1>1, <1>2, <1>3, <1>4, <1>5, <1>6 DEF Told

\* What all of this rests on: what is proved of the store, and of one served alone.
Settled == Refusing /\ OwnWrites /\ Uploading /\ Replacing /\ Minded

LEMMA SettledIs ==
  ASSUME Settled, ServedAlone
  PROVE  /\ Typed(Numbers) /\ Numbers \subseteq Int /\ adrift = {}
         /\ \A c \in Calls :
               /\ Placed(c) /\ Leaving(c) /\ Replaced(c) /\ Decided(c) /\ Sure(c)
               /\ Computed(c) /\ Landing(c) /\ RestoresAState(c)
               /\ st[c].at \in Files => file[st[c].at].past # <<>>
         /\ \A i \in Instances : mem[i].file \in Files => file[mem[i].file].past # <<>>
<1>1. Typed(Numbers) /\ Numbers \subseteq Int /\ \A c \in Calls : Placed(c)
  BY StandsTyped DEF Settled, Refusing, Stands
<1>2. acts = 0 BY <1>1 DEF Typed, RestTyped, ServedAlone
<1>3. \A c \in Calls : Leaving(c) /\ Replaced(c) BY <1>2 DEF Settled, Replacing
<1>4. adrift = {} /\ \A c \in Calls : Decided(c) /\ Sure(c) BY DEF Settled, Minded
<1>5. \A c \in Calls : Computed(c) /\ (st[c].at \in Files => file[st[c].at].past # <<>>)
  BY DEF Settled, OwnWrites, Own, AtAState
<1>6. \A i \in Instances : mem[i].file \in Files => file[mem[i].file].past # <<>>
  BY DEF Settled, OwnWrites, ReachedAt
<1>7. \A c \in Calls : Landing(c) /\ RestoresAState(c) BY DEF Settled, Refusing
<1> QED BY <1>1, <1>3, <1>4, <1>5, <1>6, <1>7

LEMMA SettledNext == Settled' => Typed(Numbers)'
<1>1. Settled => Typed(Numbers) BY StandsTyped DEF Settled, Refusing
<1> QED BY <1>1, PTL

LEMMA InitSettled == ASSUME Init PROVE Settled
<1>1. Uploading BY DEF Init, Uploading, Idle
<1>2. ASSUME NEW c \in Calls PROVE Leaving(c) /\ Replaced(c)
  <2> DEFINE going == {f \in Files : MayGo(f)}
  <2>1. <<>> \in Seq(going) OBVIOUS
  <2>2. st[c].doomed = <<>> /\ st[c].pc = "idle" BY DEF Init, Idle
  <2> QED BY <2>1, <2>2 DEF Leaving, Replaced
<1> QED BY <1>1, <1>2, InitRefusing, InitOwn, InitMinded DEF Settled, Replacing

LEMMA NextSettled == ASSUME Settled, [Next]_vars PROVE Settled'
<1>1. Typed(Numbers) /\ Numbers \subseteq Int /\ \A e \in Calls : Placed(e)
  BY StandsTyped DEF Settled, Refusing, Stands
<1>2. Refusing' /\ OwnWrites' BY NextRefusing, NextOwn DEF Settled
<1>3. Uploading' /\ Minded' /\ Replacing' BY <1>1, NextUploading, NextMinded, NextReplacing DEF Settled
<1> QED BY <1>2, <1>3 DEF Settled

\* So it is, once a recovery and a new start do not meet.
Heading ==
    /\ \A f \in Files : OnceDamaged(f)
    /\ \A c \in Calls : Beholds(c) /\ Mendable(c) /\ Told(c) /\ Led(st[c].at)
    /\ \A i \in Instances : Led(mem[i].file)

\* The file written over is the one a search finds.
LEMMA WritesToHead == ASSUME Settled, ServedAlone, Heading, NEW c \in Calls PROVE Uppermost(c)
<1> SUFFICES ASSUME st[c].pc = "upload" PROVE IsHead(st[c].at) BY DEF Uppermost
<1>1. st[c].at \in Files /\ (st[c].loaded \/ st[c].op = "restore") /\ Now(st[c].at) = st[c].base
  BY SettledIs DEF Placed, AtAFile, Sure
<1>2. CASE st[c].op = "restore" BY <1>2 DEF Heading, Mendable, ToMend
<1>3. CASE st[c].loaded
  <2>1. st[c].base.kind = "reads" /\ file[st[c].at].past # <<>> BY <1>1, <1>3, SettledIs DEF Computed
  <2>2. NowReads(st[c].at) BY <1>1, <2>1 DEF NowReads
  <2> QED BY <1>1, <2>2 DEF Heading, Led
<1> QED BY <1>1, <1>2, <1>3

LEMMA ActsHeading ==
  ASSUME Settled, Settled', ServedAlone, OneWayToMend, Heading, NEW c \in Calls, Acts(c), Next \/ UNCHANGED vars
  PROVE  Heading'
<1>0. /\ Typed(Numbers) /\ Typed(Numbers)' /\ Numbers \subseteq Int /\ adrift = {}
      /\ \A e \in Calls : Placed(e) /\ Leaving(e) /\ Replaced(e)
      /\ \A e \in Calls : st[e].at \in Files => file[st[e].at].past # <<>>
      /\ \A i \in Instances : mem[i].file \in Files => file[mem[i].file].past # <<>>
  BY SettledIs, SettledNext
<1>1. Uppermost(c) BY WritesToHead
<1>2. \A e \in Calls : Beholds(e) /\ Mendable(e) /\ Told(e) /\ Led(st[e].at) BY DEF Heading
<1>3. \/ UNCHANGED world
      \/ \E g \in Files : WritesFirst(c, g) \/ MakesFirst(c, g) \/ LeavesFirst(c, g)
  BY <1>0, <1>1, <1>2, HeadsMove
<1>4. ASSUME NEW f, Led(f), f \in Files => file[f].past # <<>> PROVE Led(f)' BY <1>0, <1>2, <1>3, <1>4, LedStays
<1>5. \A f \in Files : OnceDamaged(f)' BY <1>0, DamagedOnce DEF Heading
<1>6. NoFile \notin Files BY NoFileIsNone
<1>7. ASSUME NEW i \in Instances PROVE Led(mem[i].file)'
  <2>1. PICK f : f = mem'[i].file OBVIOUS
  <2>2. f \in {mem[i].file, NoFile, st[c].at} BY <1>0, <2>1, MemMoves
  <2>3. Led(f) /\ (f \in Files => file[f].past # <<>>) BY <1>0, <1>2, <1>6, <2>2 DEF Heading, Led
  <2>4. Led(f)' BY <1>4, <2>3
  <2> QED BY <2>1, <2>4 DEF Led, NowReads, Now, IsHead
<1>8. Beholds(c)' /\ Told(c)' BY <1>0, <1>1, <1>2, ActsBeholds, ActsTold
<1>9. Mendable(c)'
  <2> SUFFICES ASSUME ToMend(c)' PROVE \A f : f = st'[c].at => IsHead(f)' BY DEF Mendable, IsHead
  <2>1. UNCHANGED world /\ (Search(c) \/ (ToMend(c) /\ st'[c].at = st[c].at)) BY <1>0, ComesToMend
  <2>2. IsHead(st'[c].at)
    <3>1. CASE Search(c)
      <4>1. st'[c].pc # "bin" BY DEF ToMend
      <4>2. ~List(c) BY <3>1 DEF Search, List
      <4> QED BY <1>0, <3>1, <4>1, <4>2, FindsHead
    <3>2. CASE ToMend(c) /\ st'[c].at = st[c].at BY <1>2, <3>2 DEF Mendable
    <3> QED BY <2>1, <3>1, <3>2
  <2> QED BY <2>1, <2>2, SameHeads
<1>10. Led(st[c].at)'
  <2>1. PICK f : f = st'[c].at OBVIOUS
  <2>2. Led(f)'
    <3>1. CASE f = st[c].at BY <1>0, <1>2, <1>4, <3>1
    <3>2. CASE f = mem[Home[c]].file
      <4>1. Home[c] \in Instances BY <1>0, GroundIs DEF Typed
      <4> QED BY <1>0, <1>4, <3>2, <4>1 DEF Heading
    <3>3. CASE Search(c) \/ List(c)
      <4>1. UNCHANGED world BY <3>3 DEF Search, List
      <4>2. f = st[c].at \/ f = NoFile \/ IsHead(f) BY <1>0, <2>1, <3>3, FindsHead
      <4>3. CASE f = NoFile BY <1>6, <4>3 DEF Led
      <4>4. CASE IsHead(f) BY <4>1, <4>4, SameHeads DEF Led
      <4> QED BY <3>1, <4>2, <4>3, <4>4
    <3>4. CASE f \in Files /\ PutNew(f, st[c].put, c)
      <4>1. IsProfile(f)' /\ recent' = Touched(f) BY <1>0, <3>4, PutNewMakes DEF Typed, PutNew
      <4>2. IsHead(f)' BY <1>0, <3>4, <4>1, TouchedIsHead DEF Typed
      <4> QED BY <4>2 DEF Led
    <3> QED BY <1>0, <2>1, <3>1, <3>2, <3>3, <3>4, AtMoves
  <2> QED BY <2>1, <2>2 DEF Led, NowReads, Now, IsHead
<1>11. ASSUME NEW d \in Calls, d # c
       PROVE  Beholds(d)' /\ Mendable(d)' /\ Told(d)' /\ Led(st[d].at)'
  <2>1. st'[d] = st[d]
    <3>1. Alone(c) BY <1>0, StepPlaced DEF Acts
    <3> QED BY <1>11, <3>1 DEF Alone
  <2>2. Mendable(d)' BY <1>0, <1>2, <1>3, <2>1, MendableStays
  <2>3. Led(st[d].at)'
    <3>1. PICK f : f = st[d].at OBVIOUS
    <3>2. Led(f)' BY <1>0, <1>2, <1>4, <3>1
    <3> QED BY <2>1, <3>1, <3>2 DEF Led, NowReads, Now, IsHead
  <2>4. Told(d)'
    <3>1. landed \subseteq landed' BY <1>3 DEF world, WritesFirst, MakesFirst, LeavesFirst, Writes, Makes, SetsAside
    <3> QED BY <1>2, <2>1, <3>1 DEF Told
  <2>5. CASE UNCHANGED world
    <3>1. PICK f : f = st[d].at OBVIOUS
    <3>2. (IsHead(f)' <=> IsHead(f)) /\ Now(f)' = Now(f) /\ (Marked(FALSE)' = <<>> <=> Marked(FALSE) = <<>>)
      BY <2>5, SameHeads DEF Now, world
    <3>3. \A g : g = st'[d].at => (IsHead(g)' <=> IsHead(f)) /\ Now(g)' = Now(f) BY <2>1, <3>1, <3>2
    <3>4. Beholds(d)' BY <1>2, <2>1, <3>1, <3>2, <3>3 DEF Beholds, IsHead, Now
    <3> QED BY <2>2, <2>3, <2>4, <3>4
  <2>6. CASE ~UNCHANGED world
    <3>1. InTurn(c) BY <1>0, <1>3, <2>6 DEF WritesFirst, MakesFirst, LeavesFirst, Writes, Makes, SetsAside, InTurn
    <3>2. Home[c] = Home[d] BY DEF ServedAlone
    <3>3. ~InTurn(d) BY <1>0, <1>11, <3>1, <3>2, OneInTurn
    <3>4. Beholds(d)' BY <2>1, <3>3 DEF Beholds, InTurn, InSearch
    <3> QED BY <2>2, <2>3, <2>4, <3>4
  <2> QED BY <2>2, <2>3, <2>4, <2>5, <2>6
<1> QED BY <1>5, <1>7, <1>8, <1>9, <1>10, <1>11 DEF Heading

LEMMA NextHeading ==
  ASSUME Settled, Settled', ServedAlone, OneWayToMend, Heading, [Next]_vars
  PROVE  Heading'
<1>1. CASE \E c \in Calls : Acts(c) BY <1>1, ActsHeading
<1>2. CASE \A c \in Calls : ~Acts(c)
  <2>0. Typed(Numbers) /\ Numbers \subseteq Int /\ adrift = {} /\ \A e \in Calls : Placed(e) BY SettledIs
  <2>1. UNCHANGED world BY <1>2, <2>0, WorldMoves
  <2>2. \A f : Led(f) => Led(f)' BY <2>1, SameHeads DEF Led, NowReads, Now, world
  <2>3. \A f \in Files : OnceDamaged(f)' BY <2>1 DEF Heading, OnceDamaged, world
  <2>4. ASSUME NEW i \in Instances PROVE Led(mem[i].file)'
    <3>1. mem'[i].file \in {mem[i].file, NoFile}
      <4>1. mem \in [Instances -> EntriesOf(Numbers)] BY <2>0 DEF Typed, MemTyped
      <4>2. CASE mem' = mem BY <4>2
      <4>3. ASSUME NEW j \in Instances, Lapse(j) \/ Restart(j) PROVE mem'[i].file \in {mem[i].file, NoFile}
        <5>1. mem' = [mem EXCEPT ![j].fresh = FALSE] \/ mem' = [mem EXCEPT ![j] = NoEntry]
          BY <4>3 DEF Lapse, Restart
        <5>2. CASE mem' = [mem EXCEPT ![j].fresh = FALSE] BY <4>1, <5>2 DEF EntriesOf
        <5>3. CASE mem' = [mem EXCEPT ![j] = NoEntry] BY <4>1, <5>3 DEF NoEntry
        <5> QED BY <5>1, <5>2, <5>3
      <4>4. \/ \E j \in Instances : Lapse(j) \/ Restart(j)
            \/ mem' = mem
        BY <1>2 DEF Next, Acts, LandLate, Parent, AllDone, vars
      <4> QED BY <4>2, <4>3, <4>4
    <3>2. PICK f : f = mem'[i].file OBVIOUS
    <3>3. Led(f) BY <3>1, <3>2, NoFileIsNone DEF Heading, Led
    <3> QED BY <2>2, <3>2, <3>3 DEF Led, NowReads, Now, IsHead
  <2>5. ASSUME NEW d \in Calls PROVE Beholds(d)' /\ Mendable(d)' /\ Told(d)' /\ Led(st[d].at)'
    <3>1. PICK f : f = st[d].at OBVIOUS
    <3>2. (IsHead(f)' <=> IsHead(f)) /\ Now(f)' = Now(f) /\ (Marked(FALSE)' = <<>> <=> Marked(FALSE) = <<>>)
      BY <2>1, SameHeads DEF Now, world
    <3>3. Beholds(d) /\ Mendable(d) /\ Told(d) /\ Led(f) BY <3>1 DEF Heading
    <3>4. ASSUME st'[d].at = f PROVE Led(st[d].at)'
      <4>1. Led(f)' BY <2>2, <3>3
      <4> QED BY <3>4, <4>1 DEF Led, NowReads, Now, IsHead
    <3>5. CASE st'[d] = st[d]
      <4>1. \A g : g = st'[d].at => (IsHead(g)' <=> IsHead(f)) /\ Now(g)' = Now(f) BY <3>1, <3>2, <3>5
      <4>2. Beholds(d)' BY <3>1, <3>2, <3>3, <3>5, <4>1 DEF Beholds, IsHead, Now
      <4>3. Mendable(d)' BY <3>1, <3>3, <3>5, <4>1 DEF Mendable, ToMend, FromMemory, IsHead
      <4>4. Told(d)' BY <2>1, <3>3, <3>5 DEF Told, world
      <4> QED BY <3>1, <3>4, <3>5, <4>2, <4>3, <4>4
    <3>6. CASE OnlyMoves(d) /\ st'[d].pc = "done"
      <4>1. st'[d].at = f BY <3>1, <3>6 DEF OnlyMoves, Matters
      <4>2. Beholds(d)' /\ Mendable(d)' /\ Told(d)' BY <3>6 DEF Beholds, Mendable, ToMend, Told
      <4> QED BY <3>4, <4>1, <4>2
    <3> QED BY <1>2, <2>0, <3>5, <3>6, CallMoves
  <2> QED BY <2>3, <2>4, <2>5 DEF Heading
<1> QED BY <1>1, <1>2

LEMMA InitHeading == ASSUME Init PROVE Heading
<1>1. st = [c \in Calls |-> Idle] /\ mem = [i \in Instances |-> NoEntry] BY DEF Init
<1>2. ASSUME NEW c \in Calls PROVE Beholds(c) /\ Mendable(c) /\ Told(c) /\ Led(st[c].at)
  <2>1. st[c].pc = "idle" /\ st[c].at = NoFile BY <1>1 DEF Idle
  <2> QED BY <2>1, NoFileIsNone DEF Beholds, Mendable, ToMend, Told, Led
<1>3. ASSUME NEW i \in Instances PROVE Led(mem[i].file) BY <1>1, NoFileIsNone DEF NoEntry, Led
<1>4. ASSUME NEW f \in Files PROVE OnceDamaged(f)
  <2>1. file[f].past = <<>> \/ \E kind : file[f].past = FirstPast(kind)
    <3>1. PICK made \in SUBSET Files :
            \E kind \in [made -> ground.firstKinds], inBin \in [made -> BOOLEAN] :
              file = [g \in Files |->
                        IF g \in made
                        THEN [mark |-> "profile", inBin |-> inBin[g],
                              past |-> FirstPast(kind[g]), hand |-> NoCall]
                        ELSE NeverMade]
      BY DEF Init
    <3>4. PICK kind \in [made -> ground.firstKinds], inBin \in [made -> BOOLEAN] :
            file = [g \in Files |->
                        IF g \in made
                        THEN [mark |-> "profile", inBin |-> inBin[g],
                              past |-> FirstPast(kind[g]), hand |-> NoCall]
                        ELSE NeverMade]
      BY <3>1
    <3>2. CASE f \in made BY <3>4, <3>2
    <3>3. CASE f \notin made BY <3>4, <3>3 DEF NeverMade
    <3> QED BY <3>2, <3>3
  <2>2. ASSUME NEW kind, file[f].past = FirstPast(kind) PROVE OnceDamaged(f)
    <3>1. CASE kind = "reads" BY <2>2, <3>1 DEF FirstPast, First, OnceDamaged
    <3>2. CASE kind # "reads" BY <2>2, <3>2 DEF FirstPast, First, OnceDamaged
    <3> QED BY <3>1, <3>2
  <2>3. CASE file[f].past = <<>> BY <2>3 DEF OnceDamaged
  <2> QED BY <2>1, <2>2, <2>3
<1> QED BY <1>2, <1>3, <1>4 DEF Heading

-----------------------------------------------------------------------------
\* What a session is told, and at what point of its way.
LEMMA AnswerMoves ==
  ASSUME NEW CONSTANT N, Typed(N), NEW c \in Calls, Placed(c), Acts(c)
  PROVE  \/ st'[c].answer = st[c].answer
         \/ /\ st[c].answer = "none" /\ st[c].pc # "done"
            /\ st'[c].answer = "ok" => st[c].pc \in {"answered", "made", "aside"}
            /\ st'[c].answer \notin {"ok", "failed", "unknown"} =>
                  st[c].pc \notin {"made", "aside"} /\ (st[c].pc = "answered" => ~st[c].sound)
<1>0. st \in [Calls -> CallStatesOf(N)] BY DEF Typed, CallsTyped
<1>a. ASSUME NEW answer, Finish(c, answer) PROVE st'[c].answer = answer BY <1>a, Ends DEF Typed
<1>b. ASSUME NEW place, Go(c, place) PROVE st'[c].answer = st[c].answer BY <1>b, GoesOn DEF Typed
<1>c. ASSUME NEW content, Loaded(c, content) PROVE st'[c].answer = st[c].answer
  BY <1>0, <1>c DEF Loaded, CallStatesOf
<1>1. CASE Begin(c)
  <2>1. PICK op \in ground.ops :
          st' = [st EXCEPT ![c].pc = IF op \in {"write", "restore"} THEN "read" ELSE "turn",
                           ![c].op = op,
                           ![c].put = [kind |-> "reads", rev |-> 1, by |-> c]]
    BY <1>1 DEF Begin
  <2>2. st'[c].answer = st[c].answer BY <1>0, <2>1 DEF CallStatesOf
  <2> QED BY <2>2
<1>2. CASE Recall(c) \/ TakeTurn(c) \/ Locate(c) \/ Make(c) \/ ListBin(c)
  <2>1. Recall(c) => st'[c].answer = st[c].answer BY <1>0, <1>b DEF Recall, CallStatesOf
  <2>2. TakeTurn(c) => st'[c].answer = st[c].answer BY <1>0 DEF TakeTurn, CallStatesOf
  <2>3. Locate(c) => st'[c].answer = st[c].answer BY <1>0 DEF Locate, CallStatesOf
  <2>4. Make(c) => st'[c].answer = st[c].answer BY <1>0 DEF Make, CallStatesOf
  <2>5. ASSUME ListBin(c) PROVE st'[c].answer = st[c].answer
    <3>1. PICK all : all = st[c].doomed \o Marked(TRUE) OBVIOUS
    <3>2. st' = [st EXCEPT ![c].pc = "make", ![c].doomed = all] BY <1>0, <2>5, <3>1 DEF ListBin
    <3> QED BY <1>0, <3>2 DEF CallStatesOf
  <2> QED BY <1>2, <2>1, <2>2, <2>3, <2>4, <2>5
<1>3. CASE Search(c) \/ List(c)
  <2>1. ASSUME NEW f, st' = [st EXCEPT ![c].pc = "found", ![c].at = f] PROVE st'[c].answer = st[c].answer
    BY <1>0, <2>1 DEF CallStatesOf
  <2>2. ASSUME st' = [st EXCEPT ![c].pc = "bin"] PROVE st'[c].answer = st[c].answer BY <1>0, <2>2 DEF CallStatesOf
  <2>3. ASSUME NEW todo, NEW f, st' = [st EXCEPT ![c].pc = "beside", ![c].todo = todo, ![c].at = f]
        PROVE  st'[c].answer = st[c].answer
    BY <1>0, <2>3 DEF CallStatesOf
  <2> QED BY <1>3, <2>1, <2>2, <2>3 DEF Search, List
<1>4. ASSUME NEW answer, Finish(c, answer),
             \/ answer \in {"failed", "unknown"} /\ st[c].pc # "idle"
             \/ answer = "ok" /\ st[c].pc \in {"answered", "made", "aside"}
             \/ answer # "ok" /\ st[c].pc \notin {"idle", "answered", "made", "aside"}
             \/ answer # "ok" /\ st[c].pc = "answered" /\ ~st[c].sound,
             st[c].pc # "done"
      PROVE  /\ st[c].answer = "none" /\ st[c].pc # "done"
             /\ st'[c].answer = "ok" => st[c].pc \in {"answered", "made", "aside"}
             /\ st'[c].answer \notin {"ok", "failed", "unknown"} =>
                  st[c].pc \notin {"made", "aside"} /\ (st[c].pc = "answered" => ~st[c].sound)
  <2>1. st[c].answer = "none" BY <1>4 DEF Placed
  <2>2. st'[c].answer = answer BY <1>4, <1>a
  <2> QED BY <1>4, <2>1, <2>2
<1>5. CASE Fetch(c)
  <2>1. \/ Finish(c, "notFound")
        \/ st' = [st EXCEPT ![c].pc = "search", ![c].known = NoEntry]
        \/ \E content : st' = [st EXCEPT ![c].pc = "judge", ![c].got = content]
    BY <1>5 DEF Fetch
  <2>2. ASSUME st' = [st EXCEPT ![c].pc = "search", ![c].known = NoEntry] PROVE st'[c].answer = st[c].answer
    BY <1>0, <2>2 DEF CallStatesOf
  <2>3. ASSUME NEW content, st' = [st EXCEPT ![c].pc = "judge", ![c].got = content]
        PROVE  st'[c].answer = st[c].answer
    BY <1>0, <2>3 DEF CallStatesOf
  <2> QED BY <1>4, <1>5, <2>1, <2>2, <2>3 DEF Fetch
<1>6. CASE SearchBin(c) BY <1>4, <1>6, <1>b DEF SearchBin
<1>7. CASE Found(c) BY <1>4, <1>7, <1>b DEF Found
<1>8. CASE Judge(c)
  <2>1. JudgeRemembered(c) => st'[c].answer = st[c].answer BY <1>0 DEF JudgeRemembered, CallStatesOf
  <2>2. st[c].got.kind \in Kinds BY <1>0 DEF CallStatesOf, ContentsOf
  <2>3. st[c].got.kind # "ok" BY <2>2 DEF Kinds
  <2>4. JudgeReadable(c) => Finish(c, "conflict") \/ st'[c].answer = st[c].answer BY <1>b, <1>c DEF JudgeReadable
  <2>5. JudgeFound(c) => Finish(c, st[c].got.kind) \/ st'[c].answer = st[c].answer BY <1>b DEF JudgeFound
  <2>6. st[c].pc = "judge" BY <1>8 DEF Judge
  <2> QED BY <1>4, <1>8, <2>1, <2>3, <2>4, <2>5, <2>6 DEF Judge
<1>9. CASE Mending(c)
  <2>1. ASSUME NEW content, st' = [st EXCEPT ![c].pc = "judge", ![c].got = content, ![c].known = st[c].early]
        PROVE  st'[c].answer = st[c].answer
    BY <1>0, <2>1 DEF CallStatesOf
  <2>2. (\E answer : answer # "ok" /\ Finish(c, answer)) \/ st'[c].answer = st[c].answer
    BY <1>9, <2>1 DEF Mending
  <2>3. st[c].pc = "mending" BY <1>9 DEF Mending
  <2> QED BY <1>4, <2>2, <2>3
<1>10. CASE CatchUp(c)
  <2>1. (\E answer : answer # "ok" /\ Finish(c, answer)) \/ st'[c].answer = st[c].answer
    <3>1. CASE ~Exists(st[c].at) BY <1>10, <3>1 DEF CatchUp
    <3>2. CASE Exists(st[c].at)
      <4>1. PICK content \in Downloads(st[c].at) :
              Finish(c, content.kind) \/ Finish(c, "behind") \/ Loaded(c, content)
        BY <1>10, <3>2 DEF CatchUp
      <4>2. content.kind # "ok"
        <5>1. st[c].at \in Files BY <1>10 DEF CatchUp, Placed, AtAFile
        <5>2. content \in ContentsOf(N) BY <3>2, <5>1, DownloadsTyped DEF Typed
        <5> QED BY <5>2 DEF ContentsOf, Kinds
      <4> QED BY <1>c, <4>1, <4>2
    <3> QED BY <3>1, <3>2
  <2>2. st[c].pc = "catchUp" BY <1>10 DEF CatchUp
  <2> QED BY <1>4, <2>1, <2>2
<1>11. CASE Check(c) BY <1>4, <1>11, <1>b DEF Check
<1>12. CASE Upload(c)
  <2>1. PICK yes : yes = IsProfile(st[c].at) OBVIOUS
  <2>2. Finish(c, "notFound") \/ st' = [st EXCEPT ![c].pc = "answered", ![c].sound = yes]
    BY <1>12, <2>1 DEF Upload
  <2>3. ASSUME st' = [st EXCEPT ![c].pc = "answered", ![c].sound = yes] PROVE st'[c].answer = st[c].answer
    BY <1>0, <2>3 DEF CallStatesOf
  <2>4. st[c].pc = "upload" BY <1>12 DEF Upload
  <2> QED BY <1>4, <2>2, <2>3, <2>4
<1>13. CASE Answered(c) BY <1>4, <1>13 DEF Answered
<1>14. CASE Made(c)
  <2>1. Finish(c, "ok") \/ Go(c, "aside") BY <1>14 DEF Made
  <2>2. st[c].pc = "made" BY <1>14 DEF Made
  <2> QED BY <1>4, <1>b, <2>1, <2>2
<1>15. CASE Beside(c)
  <2>1. PICK f : f = Head(st[c].todo) OBVIOUS
  <2>2. PICK rest : rest = Tail(st[c].todo) OBVIOUS
  <2>3. PICK more : more = Append(st[c].doomed, f) OBVIOUS
  <2>4. \/ Finish(c, "conflict")
        \/ st' = [st EXCEPT ![c].todo = rest]
        \/ st' = [st EXCEPT ![c].todo = rest, ![c].doomed = more]
    BY <1>0, <1>15, <2>1, <2>2, <2>3 DEF Beside
  <2>5. ASSUME st' = [st EXCEPT ![c].todo = rest] PROVE st'[c].answer = st[c].answer BY <1>0, <2>5 DEF CallStatesOf
  <2>6. ASSUME st' = [st EXCEPT ![c].todo = rest, ![c].doomed = more] PROVE st'[c].answer = st[c].answer
    BY <1>0, <2>6 DEF CallStatesOf
  <2>7. st[c].pc = "beside" BY <1>15 DEF Beside
  <2> QED BY <1>4, <2>4, <2>5, <2>6, <2>7
<1>16. CASE SetAside(c)
  <2>1. PICK rest : rest = Tail(st[c].doomed) OBVIOUS
  <2>2. Finish(c, "ok") \/ st' = [st EXCEPT ![c].doomed = rest] BY <1>0, <1>16, <2>1 DEF SetAside
  <2>3. ASSUME st' = [st EXCEPT ![c].doomed = rest] PROVE st'[c].answer = st[c].answer
    BY <1>0, <2>3 DEF CallStatesOf
  <2>4. st[c].pc = "aside" BY <1>16 DEF SetAside
  <2> QED BY <1>4, <2>2, <2>3, <2>4
<1>17. CASE Recover(c)
  <2>1. \/ Finish(c, "notFound") \/ Finish(c, "nothingReads")
        \/ \E put : st' = [st EXCEPT ![c].pc = "turn", ![c].from = st[c].at, ![c].base = st[c].got, ![c].put = put]
    BY <1>17 DEF Recover
  <2>2. ASSUME NEW put, st' = [st EXCEPT ![c].pc = "turn", ![c].from = st[c].at, ![c].base = st[c].got, ![c].put = put]
        PROVE  st'[c].answer = st[c].answer
    BY <1>0, <2>2 DEF CallStatesOf
  <2>3. st[c].pc = "recover" BY <1>17 DEF Recover
  <2> QED BY <1>4, <2>1, <2>2, <2>3
<1>18. CASE DriveFails(c) \/ Unanswered(c) \/ Drift(c)
  <2>1. Finish(c, "failed") \/ Finish(c, "unknown") BY <1>18 DEF DriveFails, Unanswered, Drift
  <2>2. st[c].pc \notin {"idle", "done"} BY <1>18 DEF DriveFails, Unanswered, Drift, Requests
  <2> QED BY <1>4, <2>1, <2>2
<1> QED BY <1>1, <1>2, <1>3, <1>5, <1>6, <1>7, <1>8, <1>9, <1>10, <1>11, <1>12, <1>13, <1>14, <1>15, <1>16,
           <1>17, <1>18 DEF Acts, Step

\* What lands is told later, or never for certain.
LEMMA LandsUntold ==
  ASSUME NEW CONSTANT N, Typed(N), NEW c \in Calls, Placed(c), Acts(c), st[c].pc \in {"upload", "make"}
  PROVE  \/ UNCHANGED world
         \/ st[c].answer = "none" /\ st'[c].answer \in {"none", "unknown"}
<1>0. st \in [Calls -> CallStatesOf(N)] /\ st[c].answer = "none" BY DEF Typed, CallsTyped, Placed
<1>1. CASE Upload(c)
  <2>1. PICK yes : yes = IsProfile(st[c].at) OBVIOUS
  <2>2. UNCHANGED world \/ st' = [st EXCEPT ![c].pc = "answered", ![c].sound = yes]
    BY <1>1, <2>1 DEF Upload
  <2>3. ASSUME st' = [st EXCEPT ![c].pc = "answered", ![c].sound = yes] PROVE st'[c].answer = st[c].answer
    BY <1>0, <2>3 DEF CallStatesOf
  <2> QED BY <1>0, <2>2, <2>3
<1>2. CASE Make(c)
  <2>1. PICK f : st' = [st EXCEPT ![c].pc = "made", ![c].at = f] BY <1>2 DEF Make
  <2>2. st'[c].answer = st[c].answer BY <1>0, <2>1 DEF CallStatesOf
  <2> QED BY <1>0, <2>2
<1>3. CASE Unanswered(c)
  <2>1. Finish(c, "unknown") BY <1>3 DEF Unanswered
  <2> QED BY <1>0, <2>1, Ends DEF Typed
<1>4. CASE DriveFails(c) \/ Drift(c) BY <1>4 DEF DriveFails, Drift
<1> QED BY <1>1, <1>2, <1>3, <1>4 DEF Acts, Step, Begin, Recall, Fetch, Search, SearchBin, Found, Judge, Mending,
        CatchUp, TakeTurn, Locate, Check, Answered, Made, List, Beside, ListBin, SetAside, Recover

LEMMA ToTheContract ==
  ASSUME NEW c \in Calls, \A d \in Calls \ {c} : st'[d] = st[d],
         st[c].answer = "none", st'[c].answer \in {"none", "unknown"}, c \notin landed, landed' = landed \cup {c}
  PROVE  Store!Lands(c)
<1> DEFINE before == [d \in Calls |-> st[d].answer]
           after == [d \in Calls |-> st'[d].answer]
<1>1. CASE st'[c].answer = "none"
  <2>1. after = before BY <1>1
  <2> QED BY <2>1 DEF Store!Lands
<1>2. CASE st'[c].answer = "unknown"
  <2>1. after = [before EXCEPT ![c] = "unknown"] BY <1>2
  <2>2. before[c] = "none" OBVIOUS
  <2> QED BY <2>1, <2>2 DEF Store!Lands
<1> QED BY <1>1, <1>2

LEMMA HistoryIs == ASSUME NEW f, IsHead(f) PROVE History = file[f].past
BY DEF IsHead, History

\* An upload is a step of the contract's: the next state of the profile, or an earlier
\* one put back over damage.
LEMMA WritesAsPromised ==
  ASSUME Settled, ServedAlone, Heading, NEW c \in Calls, NEW f \in Files, WritesFirst(c, f), Store!Lands(c)
  PROVE  Store!Save(c) \/ Store!Restore(c)
<1>0. /\ Typed(Numbers) /\ Placed(c) /\ Sure(c) /\ Decided(c) /\ Computed(c) /\ RestoresAState(c)
      /\ f = st[c].at /\ file[f].past # <<>> /\ st[c].pc = "upload"
  BY SettledIs DEF WritesFirst, Writes
<1>1. PICK past \in Seq(ContentsOf(Numbers)) : past = file[f].past BY <1>0 DEF Typed, FilesTyped, FilesOf
<1>2. PICK put \in ContentsOf(Numbers) : put = st[c].put BY <1>0, CallIs DEF Typed, CallStatesOf
<1>3. PICK last : last = Last(past) /\ last = past[Len(past)] BY DEF Last
<1>4. History = past BY <1>1, HistoryIs DEF WritesFirst
<1>5. History' = Append(past, put)
  <2>1. file'[f].past = Append(past, put)
    <3>1. file[f] \in FilesOf(Numbers) /\ file \in [Files -> FilesOf(Numbers)] BY <1>0 DEF Typed, FilesTyped
    <3>2. file' = [file EXCEPT ![f].past = Append(@, put), ![f].hand = c] BY <1>0, <1>2 DEF WritesFirst, Writes, Put
    <3>3. PICK more : more = Append(past, put) OBVIOUS
    <3>4. file' = [file EXCEPT ![f].past = more, ![f].hand = c] BY <1>1, <3>1, <3>2, <3>3
    <3>5. file'[f].past = more BY <3>1, <3>4 DEF FilesOf
    <3> QED BY <3>3, <3>5
  <2> QED BY <2>1 DEF WritesFirst, IsHead, History
<1>6. last = st[c].base BY <1>0, <1>1, <1>3 DEF Sure, Now
<1>7. past # <<>> BY <1>0, <1>1
<1>8. CASE st[c].loaded
  <2>1. last.kind = "reads" /\ put.rev = last.rev + 1 /\ put.kind = "reads" BY <1>0, <1>2, <1>6, <1>8 DEF Computed
  <2>2. put.by = c BY <1>0, <1>2, <1>8 DEF Placed
  <2>3. put = [kind |-> "reads", rev |-> last.rev + 1, by |-> c] BY <2>1, <2>2 DEF ContentsOf
  <2> QED BY <1>3, <1>4, <1>5, <1>7, <2>1, <2>3 DEF Store!Save, Store!Kept, Store!Readable, Store!Last
<1>9. CASE ~st[c].loaded
  <2>1. st[c].op = "restore" BY <1>0, <1>9 DEF Placed
  <2>2. last.kind = "damaged" BY <1>0, <1>6, <2>1 DEF Decided
  <2>3. OnceDamaged(f) BY DEF Heading
  <2>4. Len(past) \in Nat /\ DOMAIN past = 1..Len(past) OBVIOUS
  <2>5. Len(past) > 0
    <3>1. Len(past) = 0 => past = <<>> OBVIOUS
    <3> QED BY <1>7, <2>4, <3>1
  <2>6. Len(past) = 2
    <3>1. Len(past) \in DOMAIN past BY <2>4, <2>5
    <3> QED BY <1>1, <1>3, <2>2, <2>3, <3>1 DEF OnceDamaged
  <2>7. past[2].kind = "damaged" /\ past[1].kind = "reads" BY <1>1, <1>3, <1>7, <2>2, <2>3, <2>6 DEF OnceDamaged
  <2>8. PICK n \in DOMAIN past : past[n] = put BY <1>0, <1>1, <1>2, <2>1 DEF RestoresAState
  <2>9. put.kind = "reads" BY <1>0, <1>2 DEF Placed
  <2>10. n = 1
    <3>1. n \in 1..2 BY <2>4, <2>6, <2>8
    <3>2. n # 2 BY <2>7, <2>8, <2>9
    <3> QED BY <3>1, <3>2
  <2>11. /\ 1 \in DOMAIN past /\ past[1].kind = "reads"
         /\ \A m \in DOMAIN past : m > 1 => past[m].kind # "reads"
         /\ History' = Append(past, past[1])
    <3>1. \A m \in DOMAIN past : m > 1 => m = 2 BY <2>4, <2>6
    <3>2. History' = Append(past, past[1]) BY <1>5, <2>8, <2>10
    <3> QED BY <2>4, <2>6, <2>7, <3>1, <3>2
  <2> QED BY <1>3, <1>4, <1>7, <2>2, <2>11 DEF Store!Restore, Store!Kept, Store!Readable, Store!Last
<1> QED BY <1>8, <1>9

\* A new file is a step of the contract's: a first profile, or one in the place of what
\* does not read.
LEMMA MakesAsPromised ==
  ASSUME Settled, ServedAlone, Heading, NEW c \in Calls, NEW f \in Files, MakesFirst(c, f), Store!Lands(c)
  PROVE  Store!Create(c) \/ Store!StartOver(c)
<1>0. Typed(Numbers) /\ Placed(c) /\ Computed(c) /\ Beholds(c) /\ st[c].pc = "make"
  BY SettledIs DEF MakesFirst, Makes, Heading
<1>1. PICK put \in ContentsOf(Numbers) : put = st[c].put BY <1>0, CallIs DEF Typed, CallStatesOf
<1>2. History' = <<put>>
  <2>1. file'[f].past = <<put>>
    <3>1. FilesTyped(Numbers) /\ PutNew(f, put, c) BY <1>0, <1>1 DEF MakesFirst, Typed
    <3>2. file'[f] = [mark |-> "profile", inBin |-> FALSE, past |-> <<put>>, hand |-> c] BY <3>1, PutNewMakes
    <3> QED BY <3>2
  <2> QED BY <2>1 DEF MakesFirst, IsHead, History
<1>3. st[c].op \in {"create", "startOver"} BY <1>0 DEF Placed
<1>4. put = [kind |-> "reads", rev |-> 1, by |-> c]
  <2>1. put.kind = "reads" /\ put.rev = 1 BY <1>0, <1>1, <1>3 DEF Computed
  <2>2. put.by = c BY <1>0, <1>1, <1>3 DEF Placed
  <2> QED BY <2>1, <2>2 DEF ContentsOf
<1>5. CASE Marked(FALSE) = <<>>
  <2>1. History = <<>> BY <1>5 DEF History
  <2> QED BY <1>2, <1>4, <2>1 DEF Store!Create
<1>6. CASE Marked(FALSE) # <<>>
  <2>1. PICK g : g = st[c].at OBVIOUS
  <2>2. st[c].op = "startOver" /\ IsHead(g) /\ Now(g).kind # "reads" BY <1>0, <1>3, <1>6, <2>1 DEF Beholds
  <2>3. Last(History).kind # "reads" BY <2>2, HistoryIs DEF Now
  <2> QED BY <1>2, <1>4, <2>3 DEF Store!StartOver, Store!Kept, Store!Readable, Store!Last, Last
<1> QED BY <1>5, <1>6

\* What a session is told is true of what landed.
LEMMA ToldAsPromised ==
  ASSUME Settled, ServedAlone, Heading, [Next]_vars, UNCHANGED <<History, landed>>
  PROVE  Store!Answer
<1>0. Typed(Numbers) /\ \A e \in Calls : Placed(e) /\ Landing(e) /\ Told(e) BY SettledIs DEF Heading
<1>1. ASSUME NEW c \in Calls, st'[c].answer # st[c].answer
      PROVE  /\ st[c].answer = "none"
             /\ st'[c].answer = "ok" => c \in landed
             /\ st'[c].answer \notin {"ok", "failed", "unknown"} => c \notin landed
  <2>1. CASE Acts(c)
    <3>1. /\ st[c].answer = "none" /\ st[c].pc # "done"
          /\ st'[c].answer = "ok" => st[c].pc \in {"answered", "made", "aside"}
          /\ st'[c].answer \notin {"ok", "failed", "unknown"} =>
               st[c].pc \notin {"made", "aside"} /\ (st[c].pc = "answered" => ~st[c].sound)
      BY <1>0, <1>1, <2>1, AnswerMoves
    <3> QED BY <1>0, <3>1 DEF Landing, Told
  <2>2. CASE st[c].pc # "done" /\ st'[c].answer = "unknown" BY <1>0, <2>2 DEF Placed
  <2> QED BY <1>0, <1>1, <2>1, <2>2, CallMoves
<1> DEFINE before == [d \in Calls |-> st[d].answer]
           after == [d \in Calls |-> st'[d].answer]
<1>2. ASSUME NEW c \in Calls, after[c] # before[c]
      PROVE  /\ before[c] = "none"
             /\ after[c] = "ok" => c \in landed
             /\ after[c] \notin {"ok", "failed", "unknown"} => c \notin landed
  BY <1>1, <1>2
<1> QED BY <1>2 DEF Store!Answer

\* Each step of the store is one of the contract's, or none.
LEMMA StepAsPromised ==
  ASSUME Settled, Settled', ServedAlone, Heading, [Next]_vars
  PROVE  Store!AbstractNext
<1>0. /\ Typed(Numbers) /\ Typed(Numbers)' /\ adrift = {}
      /\ \A e \in Calls : Placed(e) /\ Leaving(e) /\ Replaced(e) /\ Landing(e) /\ Beholds(e)
  BY SettledIs, SettledNext DEF Heading
<1>1. CASE UNCHANGED <<History, landed>> BY <1>1, ToldAsPromised DEF Store!AbstractNext
<1>2. CASE UNCHANGED world
  <2>1. UNCHANGED <<History, landed>> BY <1>2, SameHeads DEF world
  <2> QED BY <1>1, <2>1
<1>3. CASE ~UNCHANGED world
  <2>1. PICK c \in Calls : Acts(c) BY <1>0, <1>3, WorldMoves
  <2>2. PICK f \in Files : WritesFirst(c, f) \/ MakesFirst(c, f) \/ LeavesFirst(c, f)
    BY <1>0, <1>3, <2>1, HeadsMove, WritesToHead
  <2>3. CASE LeavesFirst(c, f)
    <3>1. History = file[f].past /\ History' = file'[f].past /\ UNCHANGED landed
      BY <2>3 DEF LeavesFirst, SetsAside, IsHead, History
    <3>2. UNCHANGED <<History, landed>> BY <2>3, <3>1 DEF LeavesFirst
    <3> QED BY <1>1, <3>2
  <2>4. CASE WritesFirst(c, f) \/ MakesFirst(c, f)
    <3>1. st[c].pc \in {"upload", "make"} /\ landed' = landed \cup {c}
      BY <1>0, <2>4 DEF WritesFirst, MakesFirst, Writes, Makes
    <3>2. st[c].answer = "none" /\ st'[c].answer \in {"none", "unknown"} BY <1>0, <1>3, <2>1, <3>1, LandsUntold
    <3>3. c \notin landed BY <1>0, <3>1 DEF Landing
    <3>4. \A d \in Calls \ {c} : st'[d] = st[d]
      <4>1. Alone(c) BY <1>0, <2>1, StepPlaced DEF Acts
      <4> QED BY <4>1 DEF Alone
    <3>5. Store!Lands(c) BY <3>1, <3>2, <3>3, <3>4, ToTheContract
    <3> QED BY <2>4, <3>5, WritesAsPromised, MakesAsPromised DEF Store!AbstractNext
  <2> QED BY <2>2, <2>3, <2>4
<1> QED BY <1>2, <1>3

LEMMA InitAsPromised == ASSUME Init PROVE Store!AbstractInit
<1>1. st = [c \in Calls |-> Idle] /\ landed = {} BY DEF Init
<1>2. [c \in Calls |-> st[c].answer] = [c \in Calls |-> "none"] BY <1>1 DEF Idle
<1> QED BY <1>1, <1>2 DEF Store!AbstractInit

\* Served alone, and mended one way at a time, the store in the parent's Drive is the one
\* its contract describes: every write is one step from the state it was computed from,
\* and what a session is told of its write is true (store.go:20-62).
THEOREM ContractIsKept == Spec /\ ServedAlone /\ []OneWayToMend => ImplementsContract
<1> DEFINE Inv == Settled /\ Heading /\ ServedAlone
<1>1. Init /\ ServedAlone => Inv /\ Store!AbstractInit BY InitSettled, InitHeading, InitAsPromised
<1>2. Inv /\ OneWayToMend /\ [Next]_vars => Inv'
  <2> SUFFICES ASSUME Inv, OneWayToMend, [Next]_vars PROVE Inv' OBVIOUS
  <2>1. Settled' BY NextSettled
  <2>2. Heading' BY <2>1, NextHeading
  <2> QED BY <2>1, <2>2, GroundStays, SettledIs
<1>3. Inv /\ Inv' /\ [Next]_vars => [Store!AbstractNext]_(Store!abstractVars)
  BY StepAsPromised
<1> QED BY <1>1, <1>2, <1>3, PTL DEF Spec, ImplementsContract, Store!Contract
=============================================================================
