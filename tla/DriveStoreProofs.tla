-------------------------- MODULE DriveStoreProofs --------------------------
(***************************************************************************)
(* What the store in the parent's Drive keeps, proved for any instances,   *)
(* calls, files and settings: whichever reads come early, whichever        *)
(* answers are lost, whenever an upload lands and whatever the parent does.*)
(***************************************************************************)
EXTENDS DriveStore, FiniteSetTheorems, SequenceTheorems, TLAPS

(***************************************************************************)
(* Among, which filters a sequence.  A recursive function is reasoned about*)
(* by the least number at which it goes wrong.                             *)
(***************************************************************************)

\* A set of numbers has a least one.
LEMMA Least == ASSUME NEW T, T \subseteq Nat, T # {} PROVE \E n \in T : \A m \in T : n <= m
<1> DEFINE U == {0..n : n \in T}
<1>1. U \subseteq FiniteSubsetsOf(Nat)
  <2>1. ASSUME NEW n \in T PROVE 0..n \in FiniteSubsetsOf(Nat)
    <3>1. IsFiniteSet(0..n) BY FS_Interval
    <3>2. 0..n \in SUBSET Nat OBVIOUS
    <3> QED BY <3>1, <3>2 DEF FiniteSubsetsOf
  <2>2. QED BY <2>1
<1>2. U # {} OBVIOUS
<1>3. \E x \in U : \A y \in U : ~ (<<y, x>> \in StrictSubsetOrdering(Nat))
  <2> HIDE DEF U
  <2> QED BY <1>1, <1>2, FS_StrictSubsetOrderingWellFounded, WFMin
<1>4. PICK n \in T : \A m \in T : ~ (<<0..m, 0..n>> \in StrictSubsetOrdering(Nat)) BY <1>3
<1>5. ASSUME NEW m \in T, m < n PROVE FALSE
  <2>1. 0..m \in SUBSET Nat /\ 0..n \in SUBSET Nat BY SMTT(30)
  <2>2. 0..m \subseteq 0..n /\ 0..m # 0..n
    <3>1. n \in 0..n /\ n \notin 0..m BY <1>5
    <3> QED BY <3>1, <1>5
  <2>3. <<0..m, 0..n>> \in StrictSubsetOrdering(Nat) BY <2>1, <2>2 DEF StrictSubsetOrdering
  <2> QED BY <2>3, <1>4
<1> QED BY <1>4, <1>5

\* Among takes the members of a set one after the other.
Taking(s, A, taken) ==
    /\ Among(s, A) = taken[Len(s)]
    /\ \A n \in 0..Len(s) : taken[n] = IF n = 0 THEN <<>>
                                      ELSE IF s[n] \in A THEN Append(taken[n - 1], s[n]) ELSE taken[n - 1]

LEMMA AmongTakes ==
  ASSUME NEW S, NEW s \in Seq(S), NEW A PROVE \E taken \in [0..Len(s) -> Seq(S \cap A)] : Taking(s, A, taken)
<1> DEFINE Takes(g, n) == IF n = 0 THEN <<>>
                          ELSE IF s[n] \in A THEN Append(g[n - 1], s[n]) ELSE g[n - 1]
           Built(m) == \E g \in [0..m -> Seq(S \cap A)] : \A n \in 0..m : g[n] = Takes(g, n)
           Not == {m \in 0..Len(s) : ~Built(m)}
<1>l. Len(s) \in Nat OBVIOUS
<1>s. \A n \in 1..Len(s) : s[n] \in S OBVIOUS
<1>t. ASSUME NEW m \in 1..Len(s), NEW g, g[m - 1] \in Seq(S \cap A)
      PROVE  Takes(g, m) \in Seq(S \cap A)
  <2>1. CASE s[m] \in A
    <3>1. s[m] \in S \cap A BY <2>1, <1>s
    <3>2. Append(g[m - 1], s[m]) \in Seq(S \cap A) BY <3>1, <1>t, AppendProperties
    <3> QED BY <3>2, <2>1
  <2>2. CASE s[m] \notin A BY <2>2, <1>t
  <2> QED BY <2>1, <2>2
<1>1. ASSUME Not # {} PROVE FALSE
  <2>1. PICK m \in Not : \A k \in Not : m <= k
    <3>1. Not \subseteq Nat BY <1>l
    <3> HIDE DEF Not
    <3> QED BY <1>1, <3>1, Least
  <2>2. CASE m = 0
    <3> DEFINE g == [n \in 0..0 |-> <<>>]
    <3>1. g \in [0..0 -> Seq(S \cap A)] OBVIOUS
    <3>2. \A n \in 0..0 : g[n] = Takes(g, n) OBVIOUS
    <3> HIDE DEF g
    <3>3. Built(0) BY <3>1, <3>2
    <3> QED BY <3>3, <2>2
  <2>3. CASE m # 0
    <3>1. m \in Nat /\ m - 1 \in 0..Len(s) /\ m \in 1..Len(s) BY <2>3, <1>l
    <3>2. Built(m - 1)
      <4>1. m - 1 \notin Not
        <5> HIDE DEF Not
        <5> QED BY <2>1, <3>1
      <4> HIDE DEF Built
      <4> QED BY <4>1, <3>1
    <3>3. PICK g \in [0..(m - 1) -> Seq(S \cap A)] : \A n \in 0..(m - 1) : g[n] = Takes(g, n) BY <3>2
    <3> DEFINE h == [n \in 0..m |-> IF n = m THEN Takes(g, m) ELSE g[n]]
    <3>4. g[m - 1] \in Seq(S \cap A) BY <3>1
    <3>5. Takes(g, m) \in Seq(S \cap A)
      <4> HIDE DEF Takes
      <4> QED BY <3>1, <3>4, <1>t
    <3>6. h \in [0..m -> Seq(S \cap A)]
      <4> HIDE DEF Takes
      <4>1. \A n \in 0..m : n # m => n \in 0..(m - 1) BY <3>1
      <4> QED BY <3>5, <4>1
    <3>7. \A n \in 0..m : h[n] = Takes(h, n)
      <4> TAKE n \in 0..m
      <4>1. CASE n = m
        <5>1. h[m - 1] = g[m - 1] BY <3>1
        <5>2. h[m] = Takes(g, m) BY <3>1
        <5> HIDE DEF h
        <5> QED BY <4>1, <5>1, <5>2
      <4>2. CASE n # m
        <5>1. n \in 0..(m - 1) BY <4>2, <3>1
        <5>2. h[n] = g[n] BY <4>2
        <5>3. n # 0 => h[n - 1] = g[n - 1] BY <5>1, <3>1
        <5>4. g[n] = Takes(g, n) BY <5>1, <3>3
        <5> HIDE DEF h
        <5> QED BY <5>2, <5>3, <5>4
      <4> QED BY <4>1, <4>2
    <3> HIDE DEF h, Takes
    <3>8. Built(m) BY <3>6, <3>7
    <3> QED BY <3>8
  <2> QED BY <2>2, <2>3
<1>2. Built(Len(s))
  <2> HIDE DEF Built
  <2> QED BY <1>1, <1>l
<1> DEFINE upTo == CHOOSE f : f = [n \in 0..Len(s) |-> Takes(f, n)]
<1>3. PICK g \in [0..Len(s) -> Seq(S \cap A)] : \A n \in 0..Len(s) : g[n] = Takes(g, n) BY <1>2
<1>4. upTo = [n \in 0..Len(s) |-> Takes(upTo, n)]
  <2>1. g = [n \in 0..Len(s) |-> Takes(g, n)]
    <3> HIDE DEF Takes
    <3> QED BY <1>3
  <2> QED BY <2>1
<1>5. Among(s, A) = upTo[Len(s)] BY DEF Among
<1>6. ASSUME NEW n \in 0..Len(s) PROVE upTo[n] = Takes(upTo, n)
  <2> HIDE DEF upTo, Takes
  <2> QED BY <1>4
<1>7. ASSUME {n \in 0..Len(s) : upTo[n] \notin Seq(S \cap A)} # {} PROVE FALSE
  <2> DEFINE Off == {n \in 0..Len(s) : upTo[n] \notin Seq(S \cap A)}
  <2> HIDE DEF upTo
  <2>1. PICK m \in Off : \A k \in Off : m <= k
    <3>1. Off \subseteq Nat /\ Off # {} BY SMTT(30), <1>l, <1>7
    <3> HIDE DEF Off
    <3> QED BY <3>1, Least
  <2>2. m # 0
    <3>1. upTo[0] = <<>> BY <1>6, <1>l
    <3>2. upTo[0] \in Seq(S \cap A) BY <3>1
    <3> QED BY <3>2
  <2>3. m - 1 \in 0..Len(s) /\ m \in 1..Len(s) BY <2>2, <1>l
  <2>4. upTo[m - 1] \in Seq(S \cap A) BY <2>1, <2>3
  <2> HIDE DEF Takes
  <2>5. upTo[m] = Takes(upTo, m) BY <1>6
  <2>6. Takes(upTo, m) \in Seq(S \cap A) BY <2>3, <2>4, <1>t
  <2> QED BY <2>5, <2>6
<1>8. \A n \in 0..Len(s) : upTo[n] \in Seq(S \cap A) BY <1>7
<1>9. upTo \in [0..Len(s) -> Seq(S \cap A)]
  <2> HIDE DEF Takes
  <2>1. upTo = [n \in 0..Len(s) |-> upTo[n]] BY <1>4
  <2> HIDE DEF upTo
  <2> QED BY <1>8, <2>1
<1>10. Taking(s, A, upTo)
  <2> HIDE DEF upTo
  <2> QED BY <1>5, <1>6 DEF Taking
<1> QED BY <1>9, <1>10

\* What is Among the members of a set are members of it, and of the sequence.
LEMMA AmongIs ==
  ASSUME NEW S, NEW s \in Seq(S), NEW A PROVE Among(s, A) \in Seq(S \cap A)
<1>1. PICK taken \in [0..Len(s) -> Seq(S \cap A)] : Taking(s, A, taken) BY AmongTakes
<1>2. Len(s) \in 0..Len(s) OBVIOUS
<1> QED BY <1>1, <1>2 DEF Taking

\* What comes first of it is the first of the sequence that is a member.
LEMMA AmongFirst ==
  ASSUME NEW S, NEW s \in Seq(S), NEW A
  PROVE  /\ (\A n \in 1..Len(s) : s[n] \notin A) => Among(s, A) = <<>>
         /\ \A n \in 1..Len(s) :
               s[n] \in A /\ (\A m \in 1..(n - 1) : s[m] \notin A)
                   => Among(s, A) # <<>> /\ Head(Among(s, A)) = s[n]
<1>1. PICK taken \in [0..Len(s) -> Seq(S \cap A)] : Taking(s, A, taken) BY AmongTakes
<1>2. Len(s) \in Nat OBVIOUS
<1>3. ASSUME NEW n \in 1..(Len(s) + 1), \A m \in 1..(n - 1) : s[m] \notin A
      PROVE  \A m \in 0..(n - 1) : taken[m] = <<>>
  <2> DEFINE Off == {m \in 0..(n - 1) : taken[m] # <<>>}
  <2>1. ASSUME Off # {} PROVE FALSE
    <3>1. PICK m \in Off : \A k \in Off : m <= k
      <4>1. Off \subseteq Nat BY <1>2
      <4> HIDE DEF Off
      <4> QED BY <2>1, <4>1, Least
    <3>2. m \in 0..Len(s) /\ taken[m] # <<>> BY <1>2
    <3>3. m # 0 BY <1>1, <3>2 DEF Taking
    <3>4. m - 1 \in 0..(n - 1) /\ m \in 1..(n - 1) /\ ~(m <= m - 1) BY <1>2, <3>3
    <3>5. taken[m - 1] = <<>> BY <3>1, <3>4
    <3> QED BY <1>1, <1>3, <3>2, <3>3, <3>4, <3>5 DEF Taking
  <2> QED BY <2>1
<1>4. (\A n \in 1..Len(s) : s[n] \notin A) => Among(s, A) = <<>>
  <2>1. Len(s) + 1 \in 1..(Len(s) + 1) /\ (Len(s) + 1) - 1 = Len(s) /\ Len(s) \in 0..Len(s) BY <1>2
  <2> QED BY <1>1, <1>3, <2>1 DEF Taking
<1>5. ASSUME NEW n \in 1..Len(s), s[n] \in A, \A m \in 1..(n - 1) : s[m] \notin A
      PROVE  Among(s, A) # <<>> /\ Head(Among(s, A)) = s[n]
  <2> DEFINE Off == {m \in n..Len(s) : ~(taken[m] # <<>> /\ Head(taken[m]) = s[n])}
  <2>0. n \in Nat /\ n >= 1 /\ n <= Len(s) BY <1>2
  <2>1. ASSUME Off # {} PROVE FALSE
    <3>1. PICK m \in Off : \A k \in Off : m <= k
      <4>1. Off \subseteq Nat BY <1>2, <2>0
      <4> HIDE DEF Off
      <4> QED BY <2>1, <4>1, Least
    <3>2. m \in 0..Len(s) /\ m # 0 /\ m >= n /\ ~(taken[m] # <<>> /\ Head(taken[m]) = s[n]) BY <1>2, <2>0
    <3>3. taken[m] = IF s[m] \in A THEN Append(taken[m - 1], s[m]) ELSE taken[m - 1] BY <1>1, <3>2 DEF Taking
    <3>4. taken[m - 1] \in Seq(S \cap A)
      <4>1. m - 1 \in 0..Len(s) BY <1>2, <3>2
      <4> QED BY <4>1
    <3>5. CASE m = n
      <4>1. taken[n - 1] = <<>>
        <5>1. n \in 1..(Len(s) + 1) /\ n - 1 \in 0..(n - 1) BY <1>2, <2>0
        <5> QED BY <1>3, <1>5, <5>1
      <4>2. taken[m] = Append(<<>>, s[n]) BY <1>5, <3>3, <3>5, <4>1
      <4>3. Append(<<>>, s[n]) # <<>> /\ Head(Append(<<>>, s[n])) = s[n] OBVIOUS
      <4> QED BY <3>2, <4>2, <4>3
    <3>6. CASE m # n
      <4>1. m - 1 \in n..Len(s) /\ ~(m <= m - 1) BY <1>2, <2>0, <3>2, <3>6
      <4>2. taken[m - 1] # <<>> /\ Head(taken[m - 1]) = s[n] BY <3>1, <4>1
      <4>3. CASE s[m] \notin A BY <3>2, <3>3, <4>2, <4>3
      <4>4. CASE s[m] \in A
        <5>1. /\ Append(taken[m - 1], s[m]) # <<>>
              /\ Head(Append(taken[m - 1], s[m])) = Head(taken[m - 1])
          BY <3>4, <4>2
        <5> QED BY <3>2, <3>3, <4>2, <4>4, <5>1
      <4> QED BY <4>3, <4>4
    <3> QED BY <3>5, <3>6
  <2>2. Len(s) \in n..Len(s) /\ Len(s) \in 0..Len(s) BY <1>2, <2>0
  <2>3. taken[Len(s)] # <<>> /\ Head(taken[Len(s)]) = s[n] BY <2>1, <2>2
  <2> QED BY <1>1, <2>3 DEF Taking
<1> QED BY <1>4, <1>5

-----------------------------------------------------------------------------
(***************************************************************************)
(* Types.  A number of the profile is raised by a session that reads it,   *)
(* and by nothing else, so there are as many numbers as sessions, and one. *)
(***************************************************************************)

ContentsOf(N) == [kind : Kinds, rev : N, by : Authors]
EntriesOf(N) == [file : Files \cup {NoFile}, fresh : BOOLEAN, written : N, mended : BOOLEAN]
CallStatesOf(N) ==
    [pc : Places, op : AllOps, at : Files \cup {NoFile}, got : ContentsOf(N),
     known : EntriesOf(N), early : EntriesOf(N), base : ContentsOf(N), from : Files \cup {NoFile},
     put : ContentsOf(N), loaded : BOOLEAN, sound : BOOLEAN, todo : Seq(Files), doomed : Seq(Files),
     wrote : EntriesOf(N), answer : Answers]
FilesOf(N) == [mark : Marks, inBin : BOOLEAN, past : Seq(ContentsOf(N)), hand : Calls \cup {NoCall}]

\* A file that exists has a state.
FilesTyped(N) ==
    /\ file \in [Files -> FilesOf(N)]
    /\ recent \in Seq(Files)
    /\ \A f \in Files : Exists(f) => Len(file[f].past) > 0
MemTyped(N) == mem \in [Instances -> EntriesOf(N)]
CallsTyped(N) == st \in [Calls -> CallStatesOf(N)]
HoldersTyped == holder \in [Instances -> Calls \cup {NoCall}]
RestTyped ==
    /\ ground \in Grounds
    /\ adrift \subseteq Calls
    /\ acts \in 0..ground.maxParentActs
    /\ lapses \in 0..ground.maxLapses
    /\ behind \subseteq Instances \X Files
    /\ told \subseteq Calls \X Files
    /\ landed \subseteq Calls

\* TypeOK with the numbers of N.
Typed(N) == FilesTyped(N) /\ MemTyped(N) /\ CallsTyped(N) /\ HoldersTyped /\ RestTyped

\* The sessions that have read the profile.
Loads == {c \in Calls : st[c].loaded}

LEMMA GroundIs ==
  ASSUME RestTyped
  PROVE  /\ Home \in [Calls -> Instances]
         /\ ground.maxParentActs \in Nat /\ ground.maxLapses \in Nat /\ ground.maxAtFirst \in Nat
         /\ ground.ops \subseteq AllOps
         /\ 0 \in Authors /\ Calls \subseteq Authors
BY GroundsAreKnown DEF RestTyped, Home, Authors

\* A type holds of more numbers.
LEMMA Widens ==
  ASSUME NEW CONSTANT N, NEW M, N \subseteq M, Typed(N)
  PROVE  Typed(M)
<1>1. ContentsOf(N) \subseteq ContentsOf(M) BY DEF ContentsOf
<1>2. EntriesOf(N) \subseteq EntriesOf(M) BY DEF EntriesOf
<1>3. CallStatesOf(N) \subseteq CallStatesOf(M) BY <1>1, <1>2 DEF CallStatesOf
<1>4. FilesOf(N) \subseteq FilesOf(M) BY <1>1 DEF FilesOf
<1>5. FilesTyped(M) BY <1>4 DEF Typed, FilesTyped
<1>6. MemTyped(M) BY <1>2 DEF Typed, MemTyped
<1>7. CallsTyped(M) BY <1>3 DEF Typed, CallsTyped
<1> QED BY <1>5, <1>6, <1>7 DEF Typed

-----------------------------------------------------------------------------
(* The parts steps are made of keep the types.                              *)

\* The types are of the setting, which is one for good.
LEMMA SameTypes ==
  ASSUME NEW CONSTANT N, ground' = ground
  PROVE  /\ FilesOf(N)' = FilesOf(N) /\ CallStatesOf(N)' = CallStatesOf(N)
         /\ EntriesOf(N)' = EntriesOf(N)
<1>1. Authors' = Authors BY DEF Authors
<1>2. ContentsOf(N)' = ContentsOf(N) BY <1>1 DEF ContentsOf
<1> QED BY <1>2 DEF FilesOf, CallStatesOf, EntriesOf

LEMMA MovesTyped ==
  ASSUME NEW CONSTANT N, NEW c \in Calls, CallsTyped(N), NEW one \in CallStatesOf(N)
  PROVE  [st EXCEPT ![c] = one] \in [Calls -> CallStatesOf(N)]
BY DEF CallsTyped

LEMMA FinishTyped ==
  ASSUME NEW CONSTANT N, NEW c \in Calls, NEW answer \in Answers, CallsTyped(N), HoldersTyped, Finish(c, answer)
  PROVE  st' \in [Calls -> CallStatesOf(N)] /\ HoldersTyped'
<1>1. "done" \in Places BY DEF Places
<1>2. [st[c] EXCEPT !.pc = "done", !.answer = answer] \in CallStatesOf(N)
  BY ZenonT(40), <1>1 DEF CallsTyped, CallStatesOf
<1>3. st' \in [Calls -> CallStatesOf(N)] BY <1>2 DEF CallsTyped, Finish
<1>4. HoldersTyped' BY DEF HoldersTyped, Finish, GivenBack
<1> QED BY <1>3, <1>4

LEMMA GoTyped ==
  ASSUME NEW CONSTANT N, NEW c \in Calls, NEW place \in Places, CallsTyped(N), HoldersTyped, Go(c, place)
  PROVE  st' \in [Calls -> CallStatesOf(N)] /\ HoldersTyped'
<1>1. [st[c] EXCEPT !.pc = place] \in CallStatesOf(N) BY ZenonT(40) DEF CallsTyped, CallStatesOf
<1>2. st' \in [Calls -> CallStatesOf(N)] BY <1>1 DEF CallsTyped, Go
<1> QED BY <1>2 DEF HoldersTyped, Go

LEMMA MemoryTyped ==
  ASSUME NEW CONSTANT N, 0 \in N, MemTyped(N), NEW i \in Instances, NEW f \in Files \cup {NoFile}
  PROVE  /\ Remembered(i, f) \in [Instances -> EntriesOf(N)]
         /\ Forgotten(i, f) \in [Instances -> EntriesOf(N)]
         /\ \A rev \in N, mends \in BOOLEAN : Noted(i, f, rev, mends) \in [Instances -> EntriesOf(N)]
         /\ NoEntry \in EntriesOf(N)
<1>1. NoEntry \in EntriesOf(N) BY DEF NoEntry, EntriesOf
<1>2. Remembered(i, f) \in [Instances -> EntriesOf(N)] BY DEF Remembered, MemTyped, EntriesOf
<1>3. Forgotten(i, f) \in [Instances -> EntriesOf(N)] BY <1>1 DEF Forgotten, MemTyped
<1>4. ASSUME NEW rev \in N, NEW mends \in BOOLEAN
      PROVE  Noted(i, f, rev, mends) \in [Instances -> EntriesOf(N)]
  BY DEF Noted, MemTyped, EntriesOf
<1> QED BY <1>1, <1>2, <1>3, <1>4

LEMMA MarkedTyped ==
  ASSUME recent \in Seq(Files), NEW inBin
  PROVE  /\ Marked(inBin) \in Seq(Files)
         /\ Marked(inBin) \in Seq({f \in Files : file[f].mark = "profile" /\ file[f].inBin = inBin})
<1> DEFINE A == {f \in Files : file[f].mark = "profile" /\ file[f].inBin = inBin}
<1>1. Marked(inBin) \in Seq(Files \cap A)
  <2> HIDE DEF A
  <2>1. Among(recent, A) \in Seq(Files \cap A) BY AmongIs
  <2> USE DEF A
  <2> QED BY <2>1 DEF Marked
<1>2. Files \cap A = A OBVIOUS
<1>3. Seq(A) \subseteq Seq(Files) BY SMTT(30), SeqMonotonic
<1> QED BY <1>1, <1>2, <1>3

LEMMA TouchedTyped ==
  ASSUME recent \in Seq(Files), NEW f \in Files
  PROVE  Touched(f) \in Seq(Files)
<1>1. Among(recent, Files \ {f}) \in Seq(Files \cap (Files \ {f})) BY AmongIs
<1>2. Among(recent, Files \ {f}) \in Seq(Files)
  <2>1. Files \cap (Files \ {f}) \subseteq Files OBVIOUS
  <2> QED BY <1>1, <2>1, SeqMonotonic
<1>3. <<f>> \in Seq(Files) OBVIOUS
<1> QED BY <1>2, <1>3, ConcatProperties DEF Touched

LEMMA PutTyped ==
  ASSUME NEW CONSTANT N, FilesTyped(N), NEW f \in Files, NEW content \in ContentsOf(N),
         NEW hand \in Calls \cup {NoCall}, Put(f, content, hand), ground' = ground
  PROVE  FilesTyped(N)'
<1>1. file[f].past \in Seq(ContentsOf(N)) BY DEF FilesTyped, FilesOf
<1>2. /\ Append(file[f].past, content) \in Seq(ContentsOf(N))
      /\ Len(Append(file[f].past, content)) > 0
  BY <1>1, AppendProperties
<1>3. file' \in [Files -> FilesOf(N)] BY <1>2 DEF Put, FilesTyped, FilesOf
<1>s. FilesOf(N)' = FilesOf(N) BY SameTypes
<1>4. recent' \in Seq(Files) BY TouchedTyped DEF Put, FilesTyped
<1>5. ASSUME NEW g \in Files, Exists(g)' PROVE Len(file'[g].past) > 0
  <2>1. CASE g = f BY <2>1, <1>2 DEF Put, FilesTyped, FilesOf
  <2>2. CASE g # f BY <2>2, <1>5 DEF Put, FilesTyped, Exists
  <2> QED BY <2>1, <2>2
<1> QED BY <1>s, <1>3, <1>4, <1>5 DEF FilesTyped

LEMMA PutNewTyped ==
  ASSUME NEW CONSTANT N, FilesTyped(N), NEW f \in Files, NEW content \in ContentsOf(N),
         NEW hand \in Calls \cup {NoCall}, PutNew(f, content, hand), ground' = ground
  PROVE  FilesTyped(N)'
<1>1. <<content>> \in Seq(ContentsOf(N)) /\ Len(<<content>>) = 1 OBVIOUS
<1>2. file' \in [Files -> FilesOf(N)] BY <1>1 DEF PutNew, FilesTyped, FilesOf, Marks
<1>3. recent' \in Seq(Files) BY TouchedTyped DEF PutNew, FilesTyped
<1>4. ASSUME NEW g \in Files, Exists(g)' PROVE Len(file'[g].past) > 0
  <2>1. CASE g = f BY <2>1, <1>1 DEF PutNew, FilesTyped
  <2>2. CASE g # f BY <2>2, <1>4 DEF PutNew, FilesTyped, Exists
  <2> QED BY <2>1, <2>2
<1>s. FilesOf(N)' = FilesOf(N) BY SameTypes
<1> QED BY <1>s, <1>2, <1>3, <1>4 DEF FilesTyped

\* What a download answers is a state of the file.
LEMMA DownloadsTyped ==
  ASSUME NEW CONSTANT N, FilesTyped(N), NEW f \in Files, Exists(f)
  PROVE  /\ Downloads(f) \subseteq ContentsOf(N)
         /\ \A content \in Downloads(f) : \E n \in DOMAIN file[f].past : content = file[f].past[n]
         /\ Now(f) \in Downloads(f)
         /\ ~ground.staleReads => Downloads(f) = {Now(f)}
<1> DEFINE past == file[f].past
<1>1. past \in Seq(ContentsOf(N)) /\ Len(past) > 0 BY DEF FilesTyped, FilesOf
<1>2. Last(past) = past[Len(past)] /\ Len(past) \in DOMAIN past BY <1>1 DEF Last
<1>3. Len(past) > 1 => Len(past) - 1 \in DOMAIN past BY <1>1
<1>4. \A n \in DOMAIN past : past[n] \in ContentsOf(N) BY <1>1
<1> HIDE DEF past
<1>5. Downloads(f) = {Last(past)} \cup
        (IF ground.staleReads /\ Len(past) > 1 THEN {past[Len(past) - 1]} ELSE {})
  BY DEF past, Downloads
<1>6. Now(f) = Last(past) BY DEF Now, past
<1>7. \A content \in Downloads(f) : \E n \in DOMAIN past : content = past[n] BY <1>2, <1>3, <1>5
<1>8. Downloads(f) \subseteq ContentsOf(N) BY <1>4, <1>7
<1> QED BY <1>5, <1>6, <1>7, <1>8 DEF past

LEMMA Together ==
  ASSUME NEW CONSTANT N, ground' = ground, FilesTyped(N)', mem' \in [Instances -> EntriesOf(N)],
         st' \in [Calls -> CallStatesOf(N)], HoldersTyped', RestTyped'
  PROVE  Typed(N)'
BY SameTypes DEF Typed, MemTyped, CallsTyped

LEMMA SameFiles ==
  ASSUME NEW CONSTANT N, FilesTyped(N), ground' = ground, file' = file, recent' = recent
  PROVE  FilesTyped(N)'
BY SameTypes DEF FilesTyped, Exists

\* A step that moves one call alone, and says nothing of a refused read.
LEMMA MovesAlone ==
  ASSUME NEW CONSTANT N, Typed(N), UNCHANGED <<world, mem, holder, adrift, bounds, refusals>>,
         NEW c \in Calls, NEW one \in CallStatesOf(N), st' = [st EXCEPT ![c] = one]
  PROVE  Typed(N)'
<1>1. ground' = ground BY DEF bounds
<1>2. FilesTyped(N)' BY <1>1, SameFiles DEF world, Typed
<1>3. st' \in [Calls -> CallStatesOf(N)] BY MovesTyped DEF Typed
<1>4. mem' \in [Instances -> EntriesOf(N)] BY DEF Typed, MemTyped
<1>5. HoldersTyped' BY DEF Typed, HoldersTyped
<1>6. RestTyped' BY DEF Typed, RestTyped, bounds, refusals, world
<1> QED BY <1>1, <1>2, <1>3, <1>4, <1>5, <1>6, Together

\* A step of a call that leaves the files alone.
LEMMA LeavesFiles ==
  ASSUME NEW CONSTANT N, Typed(N), UNCHANGED <<world, adrift, bounds, refusals>>,
         mem' \in [Instances -> EntriesOf(N)], st' \in [Calls -> CallStatesOf(N)], HoldersTyped'
  PROVE  Typed(N)'
<1>1. ground' = ground BY DEF bounds
<1>2. FilesTyped(N)' BY <1>1, SameFiles DEF world, Typed
<1>6. RestTyped' BY DEF Typed, RestTyped, bounds, refusals, world
<1> QED BY <1>1, <1>2, <1>6, Together

LEMMA SameMem ==
  ASSUME NEW CONSTANT N, MemTyped(N), mem' = mem PROVE mem' \in [Instances -> EntriesOf(N)]
BY DEF MemTyped

LEMMA SameHolders == ASSUME HoldersTyped, holder' = holder PROVE HoldersTyped'
BY DEF HoldersTyped

\* What a field of a call holds.
LEMMA CallIs ==
  ASSUME NEW CONSTANT N, CallsTyped(N), NEW c \in Calls
  PROVE  /\ st[c] \in CallStatesOf(N) /\ st[c].pc \in Places /\ st[c].op \in AllOps
         /\ st[c].at \in Files \cup {NoFile} /\ st[c].from \in Files \cup {NoFile}
         /\ st[c].got \in ContentsOf(N) /\ st[c].base \in ContentsOf(N) /\ st[c].put \in ContentsOf(N)
         /\ st[c].known \in EntriesOf(N) /\ st[c].early \in EntriesOf(N)
         /\ st[c].todo \in Seq(Files) /\ st[c].doomed \in Seq(Files)
         /\ st[c].loaded \in BOOLEAN
BY DEF CallsTyped, CallStatesOf

\* Only a file there is exists: a call that is at one it finds is at a file.
LEMMA NoFileIsNotThere ==
  ASSUME NEW CONSTANT N, Typed(N), NEW c \in Calls, st[c].at # NoFile
  PROVE  st[c].at \in Files
BY CallIs DEF Typed

LEMMA NothingTyped ==
  ASSUME NEW CONSTANT N, {0, 1} \subseteq N, RestTyped
  PROVE  /\ Nothing \in ContentsOf(N)
         /\ NoEntry \in EntriesOf(N)
         /\ \A c \in Calls : [kind |-> "reads", rev |-> 1, by |-> c] \in ContentsOf(N)
BY GroundIs DEF Nothing, NoEntry, ContentsOf, EntriesOf, Kinds

LEMMA BeginTyped ==
  ASSUME NEW CONSTANT N, {0, 1} \subseteq N, Typed(N), NEW c \in Calls, Begin(c)
  PROVE  Typed(N)'
<1>1. PICK op \in ground.ops :
        st' = [st EXCEPT ![c].pc = IF op \in {"write", "restore"} THEN "read" ELSE "turn",
                         ![c].op = op,
                         ![c].put = [kind |-> "reads", rev |-> 1, by |-> c]]
  BY DEF Begin
<1>2. op \in AllOps BY GroundIs DEF Typed
<1>3. {"read", "turn"} \subseteq Places BY DEF Places
<1>4. [kind |-> "reads", rev |-> 1, by |-> c] \in ContentsOf(N) BY NothingTyped DEF Typed
<1>5. PICK p \in Places : p = IF op \in {"write", "restore"} THEN "read" ELSE "turn" BY <1>3
<1>6. PICK new \in ContentsOf(N) : new = [kind |-> "reads", rev |-> 1, by |-> c] BY <1>4
<1>7. st[c] \in CallStatesOf(N) BY CallIs DEF Typed
<1>8. [st[c] EXCEPT !.pc = p, !.op = op, !.put = new] \in CallStatesOf(N)
  BY <1>2, <1>7 DEF CallStatesOf
<1>9. st' = [st EXCEPT ![c] = [st[c] EXCEPT !.pc = p, !.op = op, !.put = new]]
  BY <1>1, <1>5, <1>6 DEF Typed, CallsTyped
<1>10. st' \in [Calls -> CallStatesOf(N)] BY <1>8, <1>9, MovesTyped DEF Typed
<1>11. ground' = ground BY DEF Begin, bounds
<1>12. FilesTyped(N)' BY <1>11, SameFiles DEF Begin, world, Typed
<1>13. RestTyped' BY DEF Typed, RestTyped, bounds, world, Begin
<1>14. mem' \in [Instances -> EntriesOf(N)] /\ HoldersTyped' BY SameMem, SameHolders DEF Begin, Typed
<1> QED BY <1>10, <1>11, <1>12, <1>13, <1>14, Together

LEMMA RecallTyped ==
  ASSUME NEW CONSTANT N, {0, 1} \subseteq N, Typed(N), NEW c \in Calls, Recall(c)
  PROVE  Typed(N)'
<1> DEFINE entry == mem[Home[c]]
<1>1. entry \in EntriesOf(N) /\ entry.file \in Files \cup {NoFile}
  BY GroundIs DEF Typed, MemTyped, EntriesOf
<1>2. {"search", "fetch"} \subseteq Places BY DEF Places
<1>3. st' \in [Calls -> CallStatesOf(N)] /\ HoldersTyped'
  <2>1. CASE Known(Home[c])
    <3>1. [st[c] EXCEPT !.pc = "fetch", !.at = entry.file, !.known = entry, !.wrote = entry] \in CallStatesOf(N)
      <4> HIDE DEF entry
      <4>1. st[c] \in CallStatesOf(N) BY CallIs DEF Typed
      <4> QED BY <1>1, <1>2, <4>1 DEF CallStatesOf
    <3>2. st' = [st EXCEPT ![c] = [st[c] EXCEPT !.pc = "fetch", !.at = entry.file, !.known = entry, !.wrote = entry]]
      BY <2>1 DEF Recall, Typed, CallsTyped
    <3> QED BY <2>1, <3>1, <3>2, MovesTyped, SameHolders DEF Recall, Typed
  <2>2. CASE ~Known(Home[c]) BY <2>2, <1>2, GoTyped DEF Recall, Typed
  <2> QED BY <2>1, <2>2
<1> QED BY <1>3, LeavesFiles, SameMem DEF Recall, Typed

-----------------------------------------------------------------------------
(***************************************************************************)
(* Where a call is tells what it is about, and whether it has its turn.    *)
(***************************************************************************)

\* The places of a read, and the ones a call at a file is at.
Reading == {"read", "fetch", "judge", "mending", "catchUp"}
AtAFile == {"fetch", "judge", "mending", "catchUp", "found", "recover", "check", "upload",
            "answered", "made"}
InSearch == {"search", "bin", "found"}

\* A call has its turn from the moment it takes it until it is answered.
InTurn(c) ==
    \/ st[c].pc \in {"locate", "check", "upload", "answered", "list", "beside", "make", "made", "aside"}
    \/ st[c].pc \in InSearch /\ (st[c].loaded \/ st[c].op = "create")

Placed(c) ==
    LET s == st[c] IN
    /\ s.pc = "idle" => s = Idle
    /\ s.pc \in AtAFile \/ (s.pc = "turn" /\ s.op = "restore") => s.at \in Files
    /\ s.pc = "mending" => s.early.file = s.at /\ s.early.mended
    /\ s.pc \in {"fetch", "judge", "catchUp"} /\ FromMemory(c) => s.known.file = s.at
    /\ FromMemory(c) \/ s.known = NoEntry
    /\ s.pc \in InSearch \cup {"read"} \/ s.op = "create" => s.loaded \/ s.known = NoEntry
    /\ s.pc = "aside" => s.doomed # <<>>
    /\ c \in adrift => s.pc = "done" /\ s.answer = "unknown" /\ s.at \in Files
    /\ s.loaded => s.op = "write"
    /\ s.pc \in Reading => s.op \in {"write", "restore"} /\ ~s.loaded
    /\ s.pc = "recover" => s.op = "restore"
    /\ s.pc = "catchUp" => s.op = "write"
    /\ s.pc \in InSearch => s.op # "startOver"
    /\ s.pc = "locate" \/ (s.pc = "turn" /\ s.op = "write") => s.loaded
    /\ s.pc \in {"check", "upload", "answered"} => s.loaded \/ s.op = "restore"
    /\ s.pc \in {"list", "beside"} => s.op = "startOver"
    /\ s.pc \in {"make", "made"} => s.op \in {"create", "startOver"}
    /\ s.pc # "done" => s.answer = "none"
    /\ s.pc # "idle" => s.put.kind = "reads"
    /\ s.pc \notin {"idle", "turn", "check", "upload", "answered", "done"} \/ (s.pc # "idle" /\ s.op # "restore")
        => s.put.by = c
    /\ InTurn(c) => holder[Home[c]] = c

LEMMA FetchTyped ==
  ASSUME NEW CONSTANT N, {0, 1} \subseteq N, Typed(N), NEW c \in Calls, Placed(c), Fetch(c)
  PROVE  Typed(N)'
<1>1. st[c].at \in Files /\ Home[c] \in Instances /\ st[c] \in CallStatesOf(N)
  BY GroundIs, CallIs DEF Fetch, Placed, AtAFile, Typed
<1>2. {"judge", "search"} \subseteq Places /\ "notFound" \in Answers BY DEF Places, Answers
<1>3. CASE Exists(st[c].at)
  <2>1. PICK content \in Downloads(st[c].at) :
          st' = [st EXCEPT ![c].pc = "judge", ![c].got = content]
    BY <1>3 DEF Fetch
  <2>2. content \in ContentsOf(N) BY <1>1, <1>3, DownloadsTyped DEF Typed
  <2>3. [st[c] EXCEPT !.pc = "judge", !.got = content] \in CallStatesOf(N)
    BY <1>1, <1>2, <2>2 DEF CallStatesOf
  <2>4. st' = [st EXCEPT ![c] = [st[c] EXCEPT !.pc = "judge", !.got = content]]
    BY <2>1 DEF Typed, CallsTyped
  <2>5. UNCHANGED <<mem, holder>> BY <1>3 DEF Fetch
  <2> QED BY <2>3, <2>4, <2>5, MovesTyped, LeavesFiles, SameMem, SameHolders DEF Fetch, Typed
<1>4. CASE ~Exists(st[c].at)
  <2>1. mem' \in [Instances -> EntriesOf(N)] BY <1>1, <1>4, MemoryTyped DEF Fetch, Typed
  <2>2. CASE st' = [st EXCEPT ![c].pc = "search", ![c].known = NoEntry] /\ UNCHANGED holder
    <3>1. [st[c] EXCEPT !.pc = "search", !.known = NoEntry] \in CallStatesOf(N)
      BY <1>1, <1>2, NothingTyped DEF CallStatesOf, Typed
    <3>2. st' = [st EXCEPT ![c] = [st[c] EXCEPT !.pc = "search", !.known = NoEntry]]
      BY <2>2 DEF Typed, CallsTyped
    <3> QED BY <2>1, <2>2, <3>1, <3>2, MovesTyped, LeavesFiles, SameHolders DEF Fetch, Typed
  <2>3. CASE Finish(c, "notFound")
    BY <1>2, <2>1, <2>3, FinishTyped, LeavesFiles DEF Fetch, Typed
  <2> QED BY <1>4, <2>2, <2>3 DEF Fetch
<1> QED BY <1>3, <1>4

LEMMA SearchTyped ==
  ASSUME NEW CONSTANT N, {0, 1} \subseteq N, Typed(N), NEW c \in Calls, Search(c)
  PROVE  Typed(N)'
<1>1. {"found", "bin"} \subseteq Places BY DEF Places
<1>2. st[c] \in CallStatesOf(N) BY CallIs DEF Typed
<1>3. CASE Marked(FALSE) # <<>>
  <2>1. Head(Marked(FALSE)) \in Files BY <1>3, MarkedTyped, HeadTailProperties DEF Typed, FilesTyped
  <2>2. [st[c] EXCEPT !.pc = "found", !.at = Head(Marked(FALSE))] \in CallStatesOf(N)
    BY <1>1, <1>2, <2>1 DEF CallStatesOf
  <2>3. st' = [st EXCEPT ![c] = [st[c] EXCEPT !.pc = "found", !.at = Head(Marked(FALSE))]]
    BY <1>3 DEF Search, Typed, CallsTyped
  <2> QED BY <2>2, <2>3, MovesAlone DEF Search
<1>4. CASE Marked(FALSE) = <<>>
  <2>1. [st[c] EXCEPT !.pc = "bin"] \in CallStatesOf(N) BY <1>1, <1>2 DEF CallStatesOf
  <2>2. st' = [st EXCEPT ![c] = [st[c] EXCEPT !.pc = "bin"]] BY <1>4 DEF Search, Typed, CallsTyped
  <2> QED BY <2>1, <2>2, MovesAlone DEF Search
<1> QED BY <1>3, <1>4

LEMMA SearchBinTyped ==
  ASSUME NEW CONSTANT N, {0, 1} \subseteq N, Typed(N), NEW c \in Calls, SearchBin(c)
  PROVE  Typed(N)'
<1>1. "make" \in Places /\ {"inBin", "notFound"} \subseteq Answers BY DEF Places, Answers
<1>2. st' \in [Calls -> CallStatesOf(N)] /\ HoldersTyped'
  BY <1>1, GoTyped, FinishTyped DEF SearchBin, Typed
<1> QED BY <1>2, LeavesFiles, SameMem DEF SearchBin, Typed

LEMMA FoundTyped ==
  ASSUME NEW CONSTANT N, {0, 1} \subseteq N, Typed(N), NEW c \in Calls, Found(c)
  PROVE  Typed(N)'
<1>1. {"check", "fetch"} \subseteq Places /\ "conflict" \in Answers BY DEF Places, Answers
<1>2. Home[c] \in Instances /\ st[c].at \in Files \cup {NoFile} BY GroundIs, CallIs DEF Typed
<1>3. st' \in [Calls -> CallStatesOf(N)] /\ HoldersTyped'
  BY <1>1, GoTyped, FinishTyped DEF Found, Typed
<1>4. mem' \in [Instances -> EntriesOf(N)] BY <1>2, MemoryTyped DEF Found, Typed
<1> QED BY <1>3, <1>4, LeavesFiles DEF Found, Typed

LEMMA LoadedTyped ==
  ASSUME NEW CONSTANT N, Typed(N), NEW c \in Calls, NEW content \in ContentsOf(N),
         MovedOn(content.rev) \in N, Loaded(c, content)
  PROVE  st' \in [Calls -> CallStatesOf(N)] /\ HoldersTyped'
<1> DEFINE next == [kind |-> "reads", rev |-> MovedOn(content.rev), by |-> c]
<1>1. next \in ContentsOf(N)
  <2>1. "reads" \in Kinds /\ c \in Authors BY GroundIs DEF Kinds, Typed
  <2> QED BY <2>1 DEF ContentsOf
<1>2. "turn" \in Places BY DEF Places
<1>3. st[c] \in CallStatesOf(N) /\ st[c].at \in Files \cup {NoFile} BY CallIs DEF Typed
<1>4. st' = [st EXCEPT ![c] = [st[c] EXCEPT !.pc = "turn", !.loaded = TRUE, !.base = content,
                                             !.from = st[c].at, !.put = next]]
  BY DEF Loaded, Typed, CallsTyped
<1> HIDE DEF next
<1>5. [st[c] EXCEPT !.pc = "turn", !.loaded = TRUE, !.base = content,
                    !.from = st[c].at, !.put = next] \in CallStatesOf(N)
  BY <1>1, <1>2, <1>3 DEF CallStatesOf
<1>6. st' \in [Calls -> CallStatesOf(N)] BY <1>4, <1>5, MovesTyped DEF Typed
<1>7. HoldersTyped' BY SameHolders DEF Typed, Loaded
<1> QED BY <1>6, <1>7

\* A session that reads the profile raises its number by one.
LEMMA JudgeTyped ==
  ASSUME NEW CONSTANT N, {0, 1} \subseteq N, Typed(N), NEW c \in Calls, Placed(c), Judge(c),
         st'[c].loaded => MovedOn(st[c].got.rev) \in N
  PROVE  Typed(N)'
<1>1. /\ Home[c] \in Instances /\ st[c] \in CallStatesOf(N) /\ st[c].at \in Files
      /\ st[c].got \in ContentsOf(N) /\ st[c].known \in EntriesOf(N)
  BY GroundIs, CallIs DEF Judge, Placed, AtAFile, Typed
<1>2. {"catchUp", "search", "mending", "recover"} \subseteq Places /\ {"conflict"} \cup (Kinds \ {"reads"}) \subseteq Answers
  BY DEF Places, Answers, Kinds
<1>3. CASE JudgeReadable(c)
  <2>1. CASE Finish(c, "conflict")
    BY <1>2, <1>3, <2>1, FinishTyped, LeavesFiles, SameMem DEF Judge, JudgeReadable, Typed
  <2>2. CASE Go(c, "catchUp")
    BY <1>2, <1>3, <2>2, GoTyped, LeavesFiles, SameMem DEF Judge, JudgeReadable, Typed
  <2>3. CASE Loaded(c, st[c].got)
    <3>1. st'[c].loaded BY <2>3 DEF Loaded, Typed, CallsTyped, CallStatesOf
    <3>2. st' \in [Calls -> CallStatesOf(N)] /\ HoldersTyped' BY <1>1, <2>3, <3>1, LoadedTyped
    <3> QED BY <1>3, <3>2, LeavesFiles, SameMem DEF Judge, JudgeReadable, Typed
  <2> QED BY <1>3, <2>1, <2>2, <2>3 DEF JudgeReadable
<1>4. CASE JudgeRemembered(c)
  <2>1. mem' \in [Instances -> EntriesOf(N)] BY <1>1, <1>4, MemoryTyped DEF JudgeRemembered, Typed
  <2>2. [st[c] EXCEPT !.pc = "search", !.known = NoEntry, !.early = st[c].known] \in CallStatesOf(N)
    BY <1>1, <1>2, NothingTyped DEF CallStatesOf, Typed
  <2>3. st' = [st EXCEPT ![c] = [st[c] EXCEPT !.pc = "search", !.known = NoEntry, !.early = st[c].known]]
    BY <1>4 DEF JudgeRemembered, Typed, CallsTyped
  <2> QED BY <1>4, <2>1, <2>2, <2>3, MovesTyped, LeavesFiles, SameHolders DEF Judge, JudgeRemembered, Typed
<1>5. CASE JudgeFound(c)
  <2>1. st[c].got.kind \in Answers BY <1>1, <1>2, <1>5 DEF JudgeFound, ContentsOf
  <2>2. Go(c, "mending") \/ Go(c, "recover") \/ Finish(c, st[c].got.kind) BY <1>5 DEF JudgeFound
  <2>3. st' \in [Calls -> CallStatesOf(N)] /\ HoldersTyped'
    BY <1>2, <2>1, <2>2, GoTyped, FinishTyped DEF Typed
  <2> QED BY <1>5, <2>3, LeavesFiles, SameMem DEF Judge, JudgeFound, Typed
<1> QED BY <1>3, <1>4, <1>5 DEF Judge

\* What is said of refused reads is of instances, calls and files.
LEMMA RefusalsTyped ==
  ASSUME RestTyped, NEW i \in Instances, NEW f \in Files, HeldAgain(i, f) \/ RefusedAsBehind(i, f) \/ UNCHANGED refusals
  PROVE  behind' \subseteq Instances \X Files /\ told' \subseteq Calls \X Files
BY DEF RestTyped, HeldAgain, RefusedAsBehind, refusals

\* A step of a call that leaves the files alone, and says something of refused reads.
LEMMA SaysOfReads ==
  ASSUME NEW CONSTANT N, Typed(N), UNCHANGED <<world, adrift, bounds>>,
         NEW i \in Instances, NEW f \in Files,
         HeldAgain(i, f) \/ RefusedAsBehind(i, f) \/ UNCHANGED refusals,
         mem' \in [Instances -> EntriesOf(N)], st' \in [Calls -> CallStatesOf(N)], HoldersTyped'
  PROVE  Typed(N)'
<1>1. ground' = ground BY DEF bounds
<1>2. FilesTyped(N)' BY <1>1, SameFiles DEF world, Typed
<1>3. behind' \subseteq Instances \X Files /\ told' \subseteq Calls \X Files
  BY RefusalsTyped DEF Typed
<1>4. RestTyped' BY <1>3 DEF Typed, RestTyped, bounds, world
<1> QED BY <1>1, <1>2, <1>4, Together

LEMMA MendingTyped ==
  ASSUME NEW CONSTANT N, {0, 1} \subseteq N, Typed(N), NEW c \in Calls, Placed(c), Mending(c)
  PROVE  Typed(N)'
<1> DEFINE i == Home[c]
           early == st[c].early
<1>1. /\ i \in Instances /\ st[c] \in CallStatesOf(N) /\ early \in EntriesOf(N)
      /\ early.file \in Files /\ early.written \in N
  <2>1. early.file = st[c].at /\ st[c].at \in Files BY DEF Placed, AtAFile, Mending
  <2> QED BY <2>1, GroundIs, CallIs DEF Typed, EntriesOf
<1>2. "judge" \in Places /\ {"notFound", "behind", "newer", "broken"} \subseteq Answers
  BY DEF Places, Answers
<1>3. UNCHANGED <<world, adrift, bounds>> BY DEF Mending
<1> HIDE DEF i, early
<1>4. CASE /\ ~Exists(early.file)
           /\ mem' = Forgotten(i, early.file)
           /\ Finish(c, "notFound")
           /\ UNCHANGED refusals
  BY <1>1, <1>2, <1>3, <1>4, FinishTyped, MemoryTyped, LeavesFiles DEF Typed
<1>5. ASSUME Exists(early.file), NEW content \in Downloads(early.file),
             /\ mem' = Noted(i, early.file, early.written, FALSE)
             /\ st' = [st EXCEPT ![c].pc = "judge", ![c].got = content, ![c].known = early]
             /\ HeldAgain(i, early.file)
             /\ UNCHANGED holder
      PROVE  Typed(N)'
  <2>1. content \in ContentsOf(N) BY <1>1, <1>5, DownloadsTyped DEF Typed
  <2>2. [st[c] EXCEPT !.pc = "judge", !.got = content, !.known = early] \in CallStatesOf(N)
    BY <1>1, <1>2, <2>1 DEF CallStatesOf
  <2>3. st' = [st EXCEPT ![c] = [st[c] EXCEPT !.pc = "judge", !.got = content, !.known = early]]
    BY <1>5 DEF Typed, CallsTyped
  <2>4. st' \in [Calls -> CallStatesOf(N)] BY <2>2, <2>3, MovesTyped DEF Typed
  <2>5. mem' \in [Instances -> EntriesOf(N)] BY <1>1, <1>5, MemoryTyped DEF Typed
  <2>6. HoldersTyped' BY <1>5, SameHolders DEF Typed
  <2> QED BY <1>1, <1>3, <1>5, <2>4, <2>5, <2>6, SaysOfReads
<1>6. CASE /\ Finish(c, "behind")
           /\ UNCHANGED refusals \/ RefusedAsBehind(i, early.file)
           /\ UNCHANGED mem
  <2>1. st' \in [Calls -> CallStatesOf(N)] /\ HoldersTyped' BY <1>2, <1>6, FinishTyped DEF Typed
  <2> QED BY <1>1, <1>3, <1>6, <2>1, SaysOfReads, SameMem DEF Typed
<1>7. CASE \E kind \in {"newer", "broken"} : Finish(c, kind) /\ UNCHANGED <<mem, refusals>>
  BY <1>2, <1>3, <1>7, FinishTyped, SameMem, LeavesFiles DEF Typed
<1> QED
  <2>1. \/ /\ ~Exists(early.file)
           /\ mem' = Forgotten(i, early.file)
           /\ Finish(c, "notFound")
           /\ UNCHANGED refusals
        \/ /\ Exists(early.file)
           /\ \E content \in Downloads(early.file) :
                \/ /\ mem' = Noted(i, early.file, early.written, FALSE)
                   /\ st' = [st EXCEPT ![c].pc = "judge", ![c].got = content, ![c].known = early]
                   /\ HeldAgain(i, early.file)
                   /\ UNCHANGED holder
                \/ /\ Finish(c, "behind")
                   /\ UNCHANGED refusals \/ RefusedAsBehind(i, early.file)
                   /\ UNCHANGED mem
                \/ \E kind \in {"newer", "broken"} : Finish(c, kind) /\ UNCHANGED <<mem, refusals>>
    BY DEF Mending, i, early
  <2> QED BY <1>4, <1>5, <1>6, <1>7, <2>1

LEMMA CatchUpTyped ==
  ASSUME NEW CONSTANT N, {0, 1} \subseteq N, Typed(N), NEW c \in Calls, Placed(c), CatchUp(c),
         st'[c].loaded => MovedOn(st'[c].base.rev) \in N
  PROVE  Typed(N)'
<1> DEFINE i == Home[c]
           f == st[c].at
<1>1. i \in Instances /\ st[c] \in CallStatesOf(N) /\ f \in Files
  BY GroundIs, CallIs DEF Typed, Placed, AtAFile, CatchUp
<1>2. {"notFound", "behind", "newer", "broken", "damaged"} \subseteq Answers BY DEF Answers
<1>3. UNCHANGED <<world, adrift, bounds>> BY DEF CatchUp
<1>4. CASE mem' = Forgotten(i, f) /\ Finish(c, "notFound") /\ UNCHANGED refusals
  BY <1>1, <1>2, <1>3, <1>4, FinishTyped, MemoryTyped, LeavesFiles DEF Typed
<1>5. ASSUME Exists(f), NEW content \in Downloads(f), content.kind # "reads",
             Finish(c, content.kind), UNCHANGED <<mem, refusals>>
      PROVE  Typed(N)'
  <2>1. content \in ContentsOf(N) BY <1>1, <1>5, DownloadsTyped DEF Typed
  <2>2. content.kind \in Answers BY <1>2, <1>5, <2>1 DEF ContentsOf, Kinds
  <2> QED BY <1>3, <1>5, <2>2, FinishTyped, SameMem, LeavesFiles DEF Typed
<1>6. CASE mem' = LetGo(i, f) /\ RefusedAsBehind(i, f) /\ Finish(c, "behind")
  <2>1. mem' \in [Instances -> EntriesOf(N)] BY <1>1, <1>6, MemoryTyped DEF LetGo, Typed
  <2>2. st' \in [Calls -> CallStatesOf(N)] /\ HoldersTyped' BY <1>2, <1>6, FinishTyped DEF Typed
  <2> QED BY <1>1, <1>3, <1>6, <2>1, <2>2, SaysOfReads
<1>7. ASSUME Exists(f), NEW content \in Downloads(f), Loaded(c, content), UNCHANGED <<mem, refusals>>
      PROVE  Typed(N)'
  <2>1. content \in ContentsOf(N) BY <1>1, <1>7, DownloadsTyped DEF Typed
  <2>2. st'[c].loaded /\ st'[c].base = content BY <1>7 DEF Loaded, Typed, CallsTyped, CallStatesOf
  <2>3. st' \in [Calls -> CallStatesOf(N)] /\ HoldersTyped' BY <1>7, <2>1, <2>2, LoadedTyped
  <2> QED BY <1>3, <1>7, <2>3, SameMem, LeavesFiles DEF Typed
<1> QED
  <2>1. \/ mem' = Forgotten(i, f) /\ Finish(c, "notFound") /\ UNCHANGED refusals
        \/ /\ Exists(f)
           /\ \E content \in Downloads(f) :
              \/ content.kind # "reads" /\ Finish(c, content.kind) /\ UNCHANGED <<mem, refusals>>
              \/ mem' = LetGo(i, f) /\ RefusedAsBehind(i, f) /\ Finish(c, "behind")
              \/ Loaded(c, content) /\ UNCHANGED <<mem, refusals>>
    BY DEF CatchUp
  <2> HIDE DEF i, f
  <2> QED BY <1>4, <1>5, <1>6, <1>7, <2>1

LEMMA TakeTurnTyped ==
  ASSUME NEW CONSTANT N, {0, 1} \subseteq N, Typed(N), NEW c \in Calls, TakeTurn(c)
  PROVE  Typed(N)'
<1>1. {"locate", "search", "check", "list"} \subseteq Places BY DEF Places
<1>2. PICK p \in Places : st' = [st EXCEPT ![c].pc = p]
  <2>1. st[c].op \in AllOps BY CallIs DEF Typed
  <2> QED BY <1>1, <2>1 DEF TakeTurn, AllOps
<1>3. [st[c] EXCEPT !.pc = p] \in CallStatesOf(N)
  <2>1. st[c] \in CallStatesOf(N) BY CallIs DEF Typed
  <2> QED BY <2>1 DEF CallStatesOf
<1>4. st' = [st EXCEPT ![c] = [st[c] EXCEPT !.pc = p]] BY <1>2 DEF Typed, CallsTyped
<1>5. st' \in [Calls -> CallStatesOf(N)] BY <1>3, <1>4, MovesTyped DEF Typed
<1>6. HoldersTyped' BY DEF TakeTurn, Typed, HoldersTyped
<1> QED BY <1>5, <1>6, LeavesFiles, SameMem DEF TakeTurn, Typed

LEMMA LocateTyped ==
  ASSUME NEW CONSTANT N, {0, 1} \subseteq N, Typed(N), NEW c \in Calls, Locate(c)
  PROVE  Typed(N)'
<1> DEFINE f == mem[Home[c]].file
<1>1. f \in Files \cup {NoFile} BY GroundIs DEF Typed, MemTyped, EntriesOf
<1>2. {"check", "search"} \subseteq Places BY DEF Places
<1>3. st[c] \in CallStatesOf(N) BY CallIs DEF Typed
<1>4. [st[c] EXCEPT !.pc = "check", !.at = f] \in CallStatesOf(N)
  <2> HIDE DEF f
  <2> QED BY <1>1, <1>2, <1>3 DEF CallStatesOf
<1>5. [st[c] EXCEPT !.pc = "search"] \in CallStatesOf(N) BY <1>2, <1>3 DEF CallStatesOf
<1>6. \/ st' = [st EXCEPT ![c] = [st[c] EXCEPT !.pc = "check", !.at = f]]
      \/ st' = [st EXCEPT ![c] = [st[c] EXCEPT !.pc = "search"]]
  BY DEF Locate, Typed, CallsTyped
<1> HIDE DEF f
<1> QED BY <1>4, <1>5, <1>6, MovesAlone DEF Locate

LEMMA CheckTyped ==
  ASSUME NEW CONSTANT N, {0, 1} \subseteq N, Typed(N), NEW c \in Calls, Check(c)
  PROVE  Typed(N)'
<1>1. "upload" \in Places /\ {"conflict", "notFound"} \subseteq Answers BY DEF Places, Answers
<1>2. Home[c] \in Instances /\ st[c].at \in Files \cup {NoFile} BY GroundIs, CallIs DEF Typed
<1>3. Go(c, "upload") \/ Finish(c, "conflict") \/ Finish(c, "notFound") BY DEF Check
<1>4. st' \in [Calls -> CallStatesOf(N)] /\ HoldersTyped' BY <1>1, <1>3, GoTyped, FinishTyped DEF Typed
<1>5. mem' = mem \/ mem' = Forgotten(Home[c], st[c].at) BY DEF Check
<1>6. mem' \in [Instances -> EntriesOf(N)] BY <1>2, <1>5, SameMem, MemoryTyped DEF Typed
<1> QED BY <1>4, <1>6, LeavesFiles DEF Check

\* A step of a call that changes files.
LEMMA ChangesFiles ==
  ASSUME NEW CONSTANT N, Typed(N), UNCHANGED <<bounds, refusals>>, FilesTyped(N)',
         landed' \subseteq Calls, adrift' \subseteq Calls,
         mem' \in [Instances -> EntriesOf(N)], st' \in [Calls -> CallStatesOf(N)], HoldersTyped'
  PROVE  Typed(N)'
<1>1. ground' = ground BY DEF bounds
<1>2. RestTyped' BY DEF Typed, RestTyped, bounds, refusals
<1> QED BY <1>1, <1>2, Together

\* A file set aside is one still.
LEMMA AsideTyped ==
  ASSUME NEW CONSTANT N, FilesTyped(N), ground' = ground, recent' = recent, NEW f \in Files, Exists(f),
         file' = [file EXCEPT ![f].mark = "aside"]
  PROVE  FilesTyped(N)'
<1>1. file' \in [Files -> FilesOf(N)] BY DEF FilesTyped, FilesOf, Marks
<1>2. \A g \in Files : Exists(g)' => Exists(g) /\ file'[g].past = file[g].past
  BY DEF Exists, FilesTyped, FilesOf
<1> QED BY <1>1, <1>2, SameTypes DEF FilesTyped

LEMMA UploadTyped ==
  ASSUME NEW CONSTANT N, {0, 1} \subseteq N, Typed(N), NEW c \in Calls, Placed(c), Upload(c)
  PROVE  Typed(N)'
<1> DEFINE f == st[c].at
<1>1. Home[c] \in Instances /\ f \in Files /\ st[c] \in CallStatesOf(N) /\ st[c].put \in ContentsOf(N)
  BY GroundIs, CallIs DEF Typed, Upload, Placed, AtAFile
<1>2. "answered" \in Places /\ "notFound" \in Answers BY DEF Places, Answers
<1>3. ground' = ground BY DEF Upload, bounds
<1>4. landed \subseteq Calls /\ adrift \subseteq Calls BY DEF Typed, RestTyped
<1>5. CASE Exists(f)
  <2>1. Put(f, st[c].put, c) BY <1>5 DEF Upload
  <2>2. FilesTyped(N)' BY <1>1, <1>3, <2>1, PutTyped DEF Typed
  <2>3. PICK sound \in BOOLEAN : st' = [st EXCEPT ![c].pc = "answered", ![c].sound = sound]
    BY <1>5 DEF Upload, IsProfile
  <2>4. [st[c] EXCEPT !.pc = "answered", !.sound = sound] \in CallStatesOf(N)
    BY <1>1, <1>2 DEF CallStatesOf
  <2>5. st' = [st EXCEPT ![c] = [st[c] EXCEPT !.pc = "answered", !.sound = sound]]
    BY <2>3 DEF Typed, CallsTyped
  <2>6. st' \in [Calls -> CallStatesOf(N)] BY <2>4, <2>5, MovesTyped DEF Typed
  <2>7. landed' \subseteq Calls /\ adrift' \subseteq Calls /\ UNCHANGED <<mem, holder>>
    BY <1>4, <1>5 DEF Upload
  <2> QED BY <2>2, <2>6, <2>7, ChangesFiles, SameMem, SameHolders DEF Upload, Typed
<1>6. CASE ~Exists(f)
  BY <1>1, <1>2, <1>6, FinishTyped, MemoryTyped, LeavesFiles DEF Upload, Typed
<1> QED BY <1>5, <1>6

LEMMA AnsweredTyped ==
  ASSUME NEW CONSTANT N, {0, 1} \subseteq N, Typed(N), NEW c \in Calls, Placed(c), Answered(c)
  PROVE  Typed(N)'
<1> DEFINE f == st[c].at
<1>1. /\ Home[c] \in Instances /\ f \in Files /\ st[c].put.rev \in N
      /\ (st[c].op = "restore") \in BOOLEAN
  BY GroundIs, CallIs DEF Typed, Answered, Placed, AtAFile, ContentsOf
<1>2. {"ok", "conflict"} \subseteq Answers BY DEF Answers
<1>3. Finish(c, "ok") \/ Finish(c, "conflict") BY DEF Answered
<1>4. st' \in [Calls -> CallStatesOf(N)] /\ HoldersTyped' BY <1>2, <1>3, FinishTyped DEF Typed
<1>5. mem' \in [Instances -> EntriesOf(N)]
  <2>1. PICK mends \in BOOLEAN : mends = (st[c].op = "restore") BY <1>1
  <2>2. mem' = Noted(Home[c], f, st[c].put.rev, mends) \/ mem' = Forgotten(Home[c], f)
    BY <2>1 DEF Answered
  <2> HIDE DEF f
  <2> QED BY <1>1, <2>2, MemoryTyped DEF Typed
<1>6. HeldAgain(Home[c], f) \/ UNCHANGED refusals BY DEF Answered
<1> QED BY <1>1, <1>4, <1>5, <1>6, SaysOfReads DEF Answered

LEMMA MakeTyped ==
  ASSUME NEW CONSTANT N, {0, 1} \subseteq N, Typed(N), NEW c \in Calls, Make(c)
  PROVE  Typed(N)'
<1>1. st[c] \in CallStatesOf(N) /\ st[c].put \in ContentsOf(N) BY CallIs DEF Typed
<1>2. PICK f \in Files : PutNew(f, st[c].put, c) /\ st' = [st EXCEPT ![c].pc = "made", ![c].at = f]
  BY DEF Make
<1>3. ground' = ground BY DEF Make, bounds
<1>4. FilesTyped(N)' BY <1>1, <1>2, <1>3, PutNewTyped DEF Typed
<1>5. "made" \in Places BY DEF Places
<1>6. [st[c] EXCEPT !.pc = "made", !.at = f] \in CallStatesOf(N) BY <1>1, <1>5 DEF CallStatesOf
<1>7. st' = [st EXCEPT ![c] = [st[c] EXCEPT !.pc = "made", !.at = f]] BY <1>2 DEF Typed, CallsTyped
<1>8. st' \in [Calls -> CallStatesOf(N)] BY <1>6, <1>7, MovesTyped DEF Typed
<1>9. landed' \subseteq Calls /\ adrift' \subseteq Calls BY DEF Make, Typed, RestTyped
<1> QED BY <1>4, <1>8, <1>9, ChangesFiles, SameMem, SameHolders DEF Make, Typed

LEMMA MadeTyped ==
  ASSUME NEW CONSTANT N, {0, 1} \subseteq N, Typed(N), NEW c \in Calls, Placed(c), Made(c)
  PROVE  Typed(N)'
<1> DEFINE new == [file |-> st[c].at, fresh |-> TRUE, written |-> st[c].put.rev, mended |-> FALSE]
<1>1. Home[c] \in Instances /\ st[c].at \in Files /\ st[c].put.rev \in N
  BY GroundIs, CallIs DEF Typed, Made, Placed, AtAFile, ContentsOf
<1>2. new \in EntriesOf(N) BY <1>1 DEF EntriesOf
<1>3. mem' = [mem EXCEPT ![Home[c]] = new] BY DEF Made
<1> HIDE DEF new
<1>4. mem' \in [Instances -> EntriesOf(N)] BY <1>2, <1>3 DEF Typed, MemTyped
<1>5. "ok" \in Answers /\ "aside" \in Places BY DEF Answers, Places
<1>6. Finish(c, "ok") \/ Go(c, "aside") BY DEF Made
<1>7. st' \in [Calls -> CallStatesOf(N)] /\ HoldersTyped' BY <1>5, <1>6, FinishTyped, GoTyped DEF Typed
<1>8. HeldAgain(Home[c], st[c].at) BY DEF Made
<1> QED BY <1>1, <1>4, <1>7, <1>8, SaysOfReads DEF Made

LEMMA ListTyped ==
  ASSUME NEW CONSTANT N, {0, 1} \subseteq N, Typed(N), NEW c \in Calls, List(c)
  PROVE  Typed(N)'
<1> DEFINE todo == Marked(FALSE)
           at == IF Marked(FALSE) = <<>> THEN NoFile ELSE Head(Marked(FALSE))
<1>1. todo \in Seq(Files) /\ at \in Files \cup {NoFile}
  BY MarkedTyped, HeadTailProperties DEF Typed, FilesTyped
<1>2. "beside" \in Places /\ st[c] \in CallStatesOf(N) BY CallIs DEF Places, Typed
<1>3. st' = [st EXCEPT ![c] = [st[c] EXCEPT !.pc = "beside", !.todo = todo, !.at = at]]
  BY DEF List, Typed, CallsTyped
<1> HIDE DEF todo, at
<1>4. [st[c] EXCEPT !.pc = "beside", !.todo = todo, !.at = at] \in CallStatesOf(N)
  BY <1>1, <1>2 DEF CallStatesOf
<1> QED BY <1>3, <1>4, MovesAlone DEF List

LEMMA BesideTyped ==
  ASSUME NEW CONSTANT N, {0, 1} \subseteq N, Typed(N), NEW c \in Calls, Beside(c)
  PROVE  Typed(N)'
<1> DEFINE f == Head(st[c].todo)
           rest == Tail(st[c].todo)
           more == Append(st[c].doomed, f)
<1>1. /\ Home[c] \in Instances /\ st[c] \in CallStatesOf(N)
      /\ st[c].todo \in Seq(Files) /\ st[c].doomed \in Seq(Files)
  BY GroundIs, CallIs DEF Typed
<1>2. f \in Files /\ rest \in Seq(Files) BY <1>1, HeadTailProperties DEF Beside
<1>3. more \in Seq(Files) BY <1>1, <1>2, AppendProperties
<1>4. "conflict" \in Answers BY DEF Answers
<1>5. \/ Finish(c, "conflict")
      \/ st' = [st EXCEPT ![c].todo = rest] /\ UNCHANGED holder
      \/ st' = [st EXCEPT ![c].todo = rest, ![c].doomed = more] /\ UNCHANGED holder
  <2>1. st \in [Calls -> CallStatesOf(N)] BY DEF Typed, CallsTyped
  <2> QED BY <2>1 DEF Beside
<1>6. mem' = mem \/ mem' = Forgotten(Home[c], f) BY DEF Beside
<1>7. mem' \in [Instances -> EntriesOf(N)] BY <1>1, <1>2, <1>6, SameMem, MemoryTyped DEF Typed
<1> HIDE DEF f, rest, more
<1>8. [st[c] EXCEPT !.todo = rest] \in CallStatesOf(N) BY <1>1, <1>2 DEF CallStatesOf
<1>9. [st[c] EXCEPT !.todo = rest, !.doomed = more] \in CallStatesOf(N) BY <1>1, <1>2, <1>3 DEF CallStatesOf
<1>10. \/ Finish(c, "conflict")
       \/ st' = [st EXCEPT ![c] = [st[c] EXCEPT !.todo = rest]] /\ UNCHANGED holder
       \/ st' = [st EXCEPT ![c] = [st[c] EXCEPT !.todo = rest, !.doomed = more]] /\ UNCHANGED holder
  BY <1>5 DEF Typed, CallsTyped
<1>11. st' \in [Calls -> CallStatesOf(N)] /\ HoldersTyped'
  BY <1>4, <1>8, <1>9, <1>10, FinishTyped, MovesTyped, SameHolders DEF Typed
<1> QED BY <1>7, <1>11, LeavesFiles DEF Beside

LEMMA ListBinTyped ==
  ASSUME NEW CONSTANT N, {0, 1} \subseteq N, Typed(N), NEW c \in Calls, ListBin(c)
  PROVE  Typed(N)'
<1> DEFINE all == st[c].doomed \o Marked(TRUE)
<1>1. all \in Seq(Files) BY CallIs, MarkedTyped, ConcatProperties DEF Typed, FilesTyped
<1>2. "make" \in Places /\ st[c] \in CallStatesOf(N) BY CallIs DEF Places, Typed
<1>3. st' = [st EXCEPT ![c] = [st[c] EXCEPT !.pc = "make", !.doomed = all]]
  BY DEF ListBin, Typed, CallsTyped
<1> HIDE DEF all
<1>4. [st[c] EXCEPT !.pc = "make", !.doomed = all] \in CallStatesOf(N) BY <1>1, <1>2 DEF CallStatesOf
<1> QED BY <1>3, <1>4, MovesAlone DEF ListBin

\* Forgetting a file that is set aside, by name or none.
LEMMA SetAsideTyped ==
  ASSUME NEW CONSTANT N, {0, 1} \subseteq N, Typed(N), NEW c \in Calls, Placed(c), SetAside(c)
  PROVE  Typed(N)'
<1> DEFINE f == Head(st[c].doomed)
           rest == Tail(st[c].doomed)
<1>1. Home[c] \in Instances /\ st[c] \in CallStatesOf(N) /\ st[c].doomed \in Seq(Files)
  BY GroundIs, CallIs DEF Typed
<1>2. f \in Files /\ rest \in Seq(Files) BY <1>1, HeadTailProperties DEF SetAside, Placed
<1>3. ground' = ground /\ recent' = recent BY DEF SetAside, bounds
<1>4. file' = file \/ (Exists(f) /\ file' = [file EXCEPT ![f].mark = "aside"]) BY DEF SetAside
<1>5. mem' \in [Instances -> EntriesOf(N)] BY <1>1, <1>2, MemoryTyped DEF SetAside, Typed
<1>6. Finish(c, "ok") \/ (st' = [st EXCEPT ![c] = [st[c] EXCEPT !.doomed = rest]] /\ UNCHANGED holder)
  BY DEF SetAside, Typed, CallsTyped
<1>7. landed' \subseteq Calls /\ adrift' \subseteq Calls BY DEF SetAside, Typed, RestTyped
<1> HIDE DEF f, rest
<1>8. FilesTyped(N)' BY <1>2, <1>3, <1>4, AsideTyped, SameFiles DEF Typed
<1>9. [st[c] EXCEPT !.doomed = rest] \in CallStatesOf(N) BY <1>1, <1>2 DEF CallStatesOf
<1>10. "ok" \in Answers BY DEF Answers
<1>11. st' \in [Calls -> CallStatesOf(N)] /\ HoldersTyped'
  BY <1>6, <1>9, <1>10, FinishTyped, MovesTyped, SameHolders DEF Typed
<1> QED BY <1>5, <1>7, <1>8, <1>11, ChangesFiles DEF SetAside

\* What a recovery puts back is a state of the file, and a profile.
LEMMA EarlierTyped ==
  ASSUME NEW CONSTANT N, FilesTyped(N), NEW f \in Files, Exists(f),
         NEW first \in 1..Len(file[f].past), NEW kinds,
         Among(SubSeq(file[f].past, first, Len(file[f].past) - 1), kinds) # <<>>
  PROVE  \E n \in DOMAIN file[f].past :
            Last(Among(SubSeq(file[f].past, first, Len(file[f].past) - 1), kinds)) = file[f].past[n]
<1> DEFINE past == file[f].past
           some == SubSeq(past, first, Len(past) - 1)
           earlier == Among(some, kinds)
           States == {past[n] : n \in DOMAIN past}
<1>1. past \in Seq(ContentsOf(N)) BY DEF FilesTyped, FilesOf
<1>2. some \in Seq(States)
  <2>1. past \in Seq(States) BY <1>1
  <2>2. Len(past) \in Nat BY <1>1
  <2> HIDE DEF past, States
  <2> QED BY <2>1, <2>2, SubSeqProperties DEF past
<1>3. earlier \in Seq(States \cap kinds)
  <2> HIDE DEF States, some
  <2> QED BY <1>2, AmongIs
<1>4. earlier # <<>> OBVIOUS
<1> HIDE DEF earlier
<1>5. Last(earlier) \in States BY <1>3, <1>4 DEF Last
<1> QED BY <1>5 DEF earlier

LEMMA RecoverTyped ==
  ASSUME NEW CONSTANT N, {0, 1} \subseteq N, Typed(N), NEW c \in Calls, Placed(c), Recover(c)
  PROVE  Typed(N)'
<1> DEFINE f == st[c].at
           past == file[f].past
           first == IF Len(past) > Tried + 1 THEN Len(past) - Tried ELSE 1
           earlier == Among(SubSeq(past, first, Len(past) - 1),
                            {content \in Contents : content.kind = "reads"})
<1>1. /\ Home[c] \in Instances /\ st[c] \in CallStatesOf(N) /\ f \in Files
      /\ st[c].got \in ContentsOf(N)
  BY GroundIs, CallIs DEF Typed, Recover, Placed, AtAFile
<1>2. "turn" \in Places /\ {"notFound", "nothingReads"} \subseteq Answers BY DEF Places, Answers
<1>3. CASE mem' = Forgotten(Home[c], f) /\ Finish(c, "notFound")
  BY <1>1, <1>2, <1>3, FinishTyped, MemoryTyped, LeavesFiles DEF Recover, Typed
<1>4. CASE Finish(c, "nothingReads") /\ UNCHANGED mem
  BY <1>1, <1>2, <1>4, FinishTyped, SameMem, LeavesFiles DEF Recover, Typed
<1>5. CASE /\ Exists(f) /\ earlier # <<>>
           /\ st' = [st EXCEPT ![c].pc = "turn", ![c].from = f, ![c].base = st[c].got,
                               ![c].put = Last(earlier)]
           /\ UNCHANGED <<mem, holder>>
  <2>1. past \in Seq(ContentsOf(N)) /\ Len(past) > 0 BY <1>1, <1>5 DEF Typed, FilesTyped, FilesOf
  <2>2. first \in 1..Len(past) BY <2>1 DEF Tried
  <2>3. \E n \in DOMAIN past : Last(earlier) = past[n]
    <3> DEFINE kinds == {content \in Contents : content.kind = "reads"}
    <3> HIDE DEF first, kinds
    <3>1. Among(SubSeq(past, first, Len(past) - 1), kinds) # <<>> BY <1>5 DEF kinds
    <3>2. \E n \in DOMAIN past : Last(Among(SubSeq(past, first, Len(past) - 1), kinds)) = past[n]
      BY <1>1, <1>5, <2>2, <3>1, EarlierTyped DEF Typed
    <3> QED BY <3>2 DEF kinds
  <2>4. PICK put \in ContentsOf(N) : put = Last(earlier)
    <3> HIDE DEF past, earlier
    <3> QED BY <2>1, <2>3
  <2>5. st' = [st EXCEPT ![c] = [st[c] EXCEPT !.pc = "turn", !.from = f, !.base = st[c].got, !.put = put]]
    BY <1>5, <2>4 DEF Typed, CallsTyped
  <2>6. [st[c] EXCEPT !.pc = "turn", !.from = f, !.base = st[c].got, !.put = put] \in CallStatesOf(N)
    BY <1>1, <1>2 DEF CallStatesOf
  <2>7. st' \in [Calls -> CallStatesOf(N)] BY <2>5, <2>6, MovesTyped DEF Typed
  <2> QED BY <1>5, <2>7, SameMem, SameHolders, LeavesFiles DEF Recover, Typed
<1> QED BY <1>3, <1>4, <1>5 DEF Recover

LEMMA DriveFailsTyped ==
  ASSUME NEW CONSTANT N, {0, 1} \subseteq N, Typed(N), NEW c \in Calls, Placed(c), DriveFails(c)
  PROVE  Typed(N)'
<1>1. "failed" \in Answers BY DEF Answers
<1>2. st' \in [Calls -> CallStatesOf(N)] /\ HoldersTyped' BY <1>1, FinishTyped DEF DriveFails, Typed
<1>3. mem' \in [Instances -> EntriesOf(N)]
  <2>1. CASE st[c].pc = "aside"
    <3>1. Home[c] \in Instances /\ Head(st[c].doomed) \in Files
      BY <2>1, GroundIs, CallIs, HeadTailProperties DEF Typed, Placed
    <3> QED BY <2>1, <3>1, MemoryTyped DEF DriveFails, Typed
  <2>2. CASE st[c].pc # "aside" BY <2>2, SameMem DEF DriveFails, Typed
  <2> QED BY <2>1, <2>2
<1> QED BY <1>2, <1>3, LeavesFiles DEF DriveFails

LEMMA UnansweredTyped ==
  ASSUME NEW CONSTANT N, {0, 1} \subseteq N, Typed(N), NEW c \in Calls, Placed(c), Unanswered(c)
  PROVE  Typed(N)'
<1>1. Home[c] \in Instances /\ st[c].put \in ContentsOf(N) BY GroundIs, CallIs DEF Typed
<1>2. "unknown" \in Answers BY DEF Answers
<1>3. st' \in [Calls -> CallStatesOf(N)] /\ HoldersTyped' BY <1>2, FinishTyped DEF Unanswered, Typed
<1>4. ground' = ground BY DEF Unanswered, bounds
<1>5. landed' \subseteq Calls /\ adrift' \subseteq Calls BY DEF Unanswered, Typed, RestTyped
<1>6. CASE st[c].pc = "upload" /\ Put(st[c].at, st[c].put, c) /\ UNCHANGED mem
  <2>1. st[c].at \in Files BY <1>6 DEF Placed, AtAFile
  <2>2. FilesTyped(N)' BY <1>1, <1>4, <1>6, <2>1, PutTyped DEF Typed
  <2> QED BY <1>3, <1>5, <1>6, <2>2, ChangesFiles, SameMem DEF Unanswered, Typed
<1>7. CASE (\E f \in Files : PutNew(f, st[c].put, c)) /\ UNCHANGED mem
  <2>1. FilesTyped(N)' BY <1>1, <1>4, <1>7, PutNewTyped DEF Typed
  <2> QED BY <1>3, <1>5, <1>7, <2>1, ChangesFiles, SameMem DEF Unanswered, Typed
<1>8. CASE /\ st[c].pc = "aside"
           /\ Exists(Head(st[c].doomed))
           /\ file' = [file EXCEPT ![Head(st[c].doomed)].mark = "aside"]
           /\ mem' = Forgotten(Home[c], Head(st[c].doomed))
           /\ recent' = recent
  <2>1. Head(st[c].doomed) \in Files BY <1>8, CallIs, HeadTailProperties DEF Typed, Placed
  <2>2. mem' \in [Instances -> EntriesOf(N)] BY <1>1, <1>8, <2>1, MemoryTyped DEF Typed
  <2>3. FilesTyped(N)' BY <1>4, <1>8, <2>1, AsideTyped DEF Typed
  <2> QED BY <1>3, <1>5, <2>2, <2>3, ChangesFiles DEF Unanswered, Typed
<1> QED BY <1>6, <1>7, <1>8 DEF Unanswered

LEMMA DriftTyped ==
  ASSUME NEW CONSTANT N, {0, 1} \subseteq N, Typed(N), NEW c \in Calls, Drift(c)
  PROVE  Typed(N)'
<1>1. "unknown" \in Answers BY DEF Answers
<1>2. st' \in [Calls -> CallStatesOf(N)] /\ HoldersTyped' BY <1>1, FinishTyped DEF Drift, Typed
<1>3. FilesTyped(N)' BY SameFiles DEF Drift, world, bounds, Typed
<1>4. landed' \subseteq Calls /\ adrift' \subseteq Calls BY DEF Drift, Typed, RestTyped, world
<1> QED BY <1>2, <1>3, <1>4, ChangesFiles, SameMem DEF Drift, Typed

LEMMA LandLateTyped ==
  ASSUME NEW CONSTANT N, {0, 1} \subseteq N, Typed(N), NEW c \in Calls, Placed(c), LandLate(c)
  PROVE  Typed(N)'
<1>1. st[c].put \in ContentsOf(N) /\ st[c].at \in Files BY CallIs DEF Typed, Placed, LandLate
<1>2. FilesTyped(N)' BY <1>1, PutTyped DEF LandLate, bounds, Typed
<1>3. landed' \subseteq Calls /\ adrift' \subseteq Calls BY DEF LandLate, Typed, RestTyped
<1>4. st' \in [Calls -> CallStatesOf(N)] BY DEF LandLate, Typed, CallsTyped
<1> QED BY <1>2, <1>3, <1>4, ChangesFiles, SameMem, SameHolders DEF LandLate, Typed

\* A step that is no call's, and leaves what the bounds count to itself.
LEMMA OthersTyped ==
  ASSUME NEW CONSTANT N, Typed(N), ground' = ground, FilesTyped(N)',
         mem' \in [Instances -> EntriesOf(N)], st' \in [Calls -> CallStatesOf(N)], HoldersTyped',
         landed' = landed, adrift' = adrift,
         acts' \in 0..ground.maxParentActs, lapses' \in 0..ground.maxLapses,
         behind' \subseteq behind, told' \subseteq told
  PROVE  Typed(N)'
<1>1. RestTyped' BY DEF Typed, RestTyped
<1> QED BY <1>1, Together

LEMMA LapseTyped ==
  ASSUME NEW CONSTANT N, {0, 1} \subseteq N, Typed(N), NEW i \in Instances, Lapse(i)
  PROVE  Typed(N)'
<1>1. [mem[i] EXCEPT !.fresh = FALSE] \in EntriesOf(N) /\ NoEntry \in EntriesOf(N)
  BY NothingTyped DEF Typed, MemTyped, EntriesOf
<1>2. mem' \in [Instances -> EntriesOf(N)] BY <1>1 DEF Lapse, Typed, MemTyped
<1>3. FilesTyped(N)' BY SameFiles DEF Lapse, world, Typed
<1>4. st' \in [Calls -> CallStatesOf(N)] /\ HoldersTyped' BY SameHolders DEF Lapse, Typed, CallsTyped
<1>5. acts' \in 0..ground.maxParentActs /\ lapses' \in 0..ground.maxLapses
  BY GroundIs DEF Lapse, Typed, RestTyped
<1> QED BY <1>2, <1>3, <1>4, <1>5, OthersTyped DEF Lapse, world, refusals

LEMMA RestartTyped ==
  ASSUME NEW CONSTANT N, {0, 1} \subseteq N, Typed(N), NEW i \in Instances, Restart(i)
  PROVE  Typed(N)'
<1>1. mem' \in [Instances -> EntriesOf(N)] BY NothingTyped DEF Restart, Typed, MemTyped
<1>2. ASSUME NEW c \in Calls
      PROVE  [st[c] EXCEPT !.pc = "done", !.answer = "unknown"] \in CallStatesOf(N) /\ st[c] \in CallStatesOf(N)
  <2>1. "done" \in Places /\ "unknown" \in Answers /\ st[c] \in CallStatesOf(N)
    BY CallIs DEF Places, Answers, Typed
  <2> QED BY <2>1 DEF CallStatesOf
<1>3. st' \in [Calls -> CallStatesOf(N)] BY <1>2 DEF Restart
<1>4. HoldersTyped' BY DEF Restart, Typed, HoldersTyped
<1>5. FilesTyped(N)' BY SameFiles DEF Restart, world, Typed
<1>6. acts' \in 0..ground.maxParentActs /\ lapses' \in 0..ground.maxLapses
  <2>1. lapses < ground.maxLapses /\ lapses' = lapses + 1 /\ acts' = acts BY DEF Restart
  <2> QED BY <2>1, GroundIs DEF Typed, RestTyped
<1>7. behind' \subseteq behind /\ told' \subseteq told BY DEF Restart
<1> QED BY <1>1, <1>3, <1>4, <1>5, <1>6, <1>7, OthersTyped DEF Restart, world

LEMMA ParentTyped ==
  ASSUME NEW CONSTANT N, {0, 1} \subseteq N, Typed(N), Parent
  PROVE  Typed(N)'
<1>1. ground' = ground BY DEF Parent
<1>2. acts + 1 \in Authors /\ acts' \in 0..ground.maxParentActs /\ lapses' \in 0..ground.maxLapses
  BY GroundIs DEF Parent, Typed, RestTyped, Authors
<1>3. FilesTyped(N)'
  <2>1. PICK f \in Files :
          \/ \E kind \in Kinds, rev \in N : ParentWrites(f, kind, rev)
          \/ /\ Exists(f) \/ IsProfile(f)
             /\ recent' = recent
             /\ \/ file' = [file EXCEPT ![f].inBin = TRUE]
                \/ file' = [file EXCEPT ![f].inBin = FALSE]
                \/ file' = [file EXCEPT ![f].mark = "none"]
    <3>1. Kinds = {"reads", "newer", "damaged", "broken"} BY DEF Kinds
    <3>2. \A f \in Files : \A n \in DOMAIN file[f].past : file[f].past[n].rev \in N
      <4> TAKE f \in Files
      <4>1. file[f].past \in Seq(ContentsOf(N)) BY DEF Typed, FilesTyped, FilesOf
      <4> TAKE n \in DOMAIN file[f].past
      <4>2. file[f].past[n] \in ContentsOf(N) BY <4>1, ElementOfSeq
      <4> QED BY <4>2 DEF ContentsOf
    <3> QED BY <3>1, <3>2 DEF Parent
  <2>2. CASE \E kind \in Kinds, rev \in N : ParentWrites(f, kind, rev)
    <3>1. PICK kind \in Kinds, rev \in N : ParentWrites(f, kind, rev) BY <2>2
    <3>2. [kind |-> kind, rev |-> rev, by |-> acts + 1] \in ContentsOf(N) BY <1>2 DEF ContentsOf
    <3> QED BY <1>1, <3>1, <3>2, PutTyped DEF ParentWrites, Typed
  <2>3. CASE /\ Exists(f) \/ IsProfile(f)
             /\ recent' = recent
             /\ \/ file' = [file EXCEPT ![f].inBin = TRUE]
                \/ file' = [file EXCEPT ![f].inBin = FALSE]
                \/ file' = [file EXCEPT ![f].mark = "none"]
    <3>1. file' \in [Files -> FilesOf(N)] BY ZenonT(40), <2>3 DEF Typed, FilesTyped, FilesOf, Marks
    <3>2. ASSUME NEW g \in Files, Exists(g)' PROVE Exists(g) /\ file'[g].past = file[g].past
      <4>1. file \in [Files -> FilesOf(N)] BY DEF Typed, FilesTyped
      <4>2. CASE g = f
        <5>1. file[g].mark # "none" /\ file'[g].past = file[g].past
          <6>1. file'[f].mark # "none" BY <3>2, <4>2 DEF Exists
          <6> QED BY <4>1, <4>2, <6>1, <2>1, <2>3 DEF FilesOf, Exists, IsProfile
        <5> QED BY <5>1 DEF Exists
      <4>3. CASE g # f BY <2>3, <3>2, <4>1, <4>3 DEF Exists
      <4> QED BY <4>2, <4>3
    <3> QED BY <1>1, <2>3, <3>1, <3>2, SameTypes DEF Typed, FilesTyped
  <2> QED BY <2>1, <2>2, <2>3
<1>4. st' \in [Calls -> CallStatesOf(N)] /\ mem' \in [Instances -> EntriesOf(N)] /\ HoldersTyped'
  BY SameHolders, SameMem DEF Parent, Typed, CallsTyped
<1> QED BY <1>1, <1>2, <1>3, <1>4, OthersTyped DEF Parent, refusals

-----------------------------------------------------------------------------
(* Every step leaves each call where it is placed right.                    *)

\* A call another one's step leaves alone is placed as it was.
LEMMA StaysPlaced ==
  ASSUME NEW d, Placed(d), st'[d] = st[d], d \in adrift' => d \in adrift,
         ground' = ground, holder[Home[d]] = d => holder'[Home[d]] = d
  PROVE  Placed(d)'
BY DEF Placed, FromMemory, InTurn, Home

\* A call that is done, or at a place of its own, is placed right.
LEMMA FinishPlaced ==
  ASSUME NEW CONSTANT N, CallsTyped(N), NEW c \in Calls, Placed(c), NEW answer, Finish(c, answer),
         adrift' = adrift, st[c].pc \notin {"done", "idle"}
  PROVE  Placed(c)'
<1>1. st'[c] = [st[c] EXCEPT !.pc = "done", !.answer = answer]
  BY DEF Finish, CallsTyped
<1>2. st[c] \in CallStatesOf(N) BY CallIs
<1> QED BY <1>1, <1>2 DEF Placed, FromMemory, AtAFile, Reading, InSearch, InTurn, CallStatesOf

LEMMA GoPlaced ==
  ASSUME NEW CONSTANT N, CallsTyped(N), NEW c \in Calls, Placed(c), NEW place, Go(c, place),
         adrift' = adrift, ground' = ground, st[c].pc \notin {"done", "idle"}, place # "idle",
         place \in AtAFile => st[c].at \in Files,
         place \notin {"turn", "mending", "locate", "aside", "done", "catchUp"},
         place \in {"fetch", "judge"} /\ FromMemory(c) => st[c].known.file = st[c].at,
         place \in Reading => st[c].op \in {"write", "restore"} /\ ~st[c].loaded,
         place = "recover" => st[c].op = "restore",
         place \in InSearch => st[c].op # "startOver",
         place \in InSearch \cup {"read"} => st[c].loaded \/ st[c].known = NoEntry,
         place \in {"check", "upload", "answered"} => st[c].loaded \/ st[c].op = "restore",
         place \in {"list", "beside"} => st[c].op = "startOver",
         place \in {"make", "made"} => st[c].op \in {"create", "startOver"},
         place \in {"check", "upload", "answered"} \/ st[c].put.by = c,
         InTurn(c)' => InTurn(c)
  PROVE  Placed(c)'
<1>1. st'[c] = [st[c] EXCEPT !.pc = place] BY DEF Go, CallsTyped
<1>2. st[c] \in CallStatesOf(N) BY CallIs
<1>3. InTurn(c)' => holder'[Home'[c]] = c BY DEF Placed, Go, Home
<1>4. /\ st'[c].pc = place /\ \A g \in {"op", "at", "known", "early", "loaded", "put", "doomed", "answer"} : st'[c][g] = st[c][g]
  BY <1>1, <1>2 DEF CallStatesOf
<1> QED BY <1>3, <1>4 DEF Placed, FromMemory, AtAFile, Reading, InSearch

\* A step of c leaves the rest of the calls, their turns and their uploads as they are.
Alone(c) ==
    /\ \A d \in Calls \ {c} :
          /\ st'[d] = st[d]
          /\ holder[Home[d]] = d => holder'[Home[d]] = d
          /\ d \in adrift' => d \in adrift
    /\ ground' = ground

\* A step that finishes a call, or takes it elsewhere, moves it alone.
LEMMA MovesOne ==
  ASSUME NEW CONSTANT N, CallsTyped(N), HoldersTyped, RestTyped, NEW c \in Calls, adrift' = adrift, ground' = ground,
         \/ \E answer : Finish(c, answer)
         \/ \E place : Go(c, place)
         \/ (\E one : st' = [st EXCEPT ![c] = one]) /\ holder' = holder
         \/ (\E one : st' = [st EXCEPT ![c] = one]) /\ TurnFree(c) /\ holder' = [holder EXCEPT ![Home[c]] = c]
  PROVE  Alone(c)
<1>1. \A d \in Calls \ {c} : st'[d] = st[d] BY DEF Finish, Go, CallsTyped
<1>2. ASSUME NEW d \in Calls \ {c}, holder[Home[d]] = d PROVE holder'[Home[d]] = d
  <2>1. CASE holder' = holder BY <1>2, <2>1
  <2>2. CASE holder' = GivenBack(c)
    <3>1. Home[d] \in Instances BY GroundIs
    <3> QED BY <1>2, <2>2, <3>1 DEF GivenBack
  <2>3. CASE TurnFree(c) /\ holder' = [holder EXCEPT ![Home[c]] = c]
    <3>1. Home[d] # Home[c] BY <1>2, <2>3, NoCallIsNone DEF TurnFree
    <3> QED BY <1>2, <2>3, <3>1
  <2> QED BY <2>1, <2>2, <2>3 DEF Finish, Go
<1> QED BY <1>1, <1>2 DEF Alone

LEMMA BeginPlaced ==
  ASSUME NEW CONSTANT N, Typed(N), NEW c \in Calls, Placed(c), Begin(c)
  PROVE  Placed(c)' /\ Alone(c)
<1>1. st[c] = Idle /\ st \in [Calls -> CallStatesOf(N)] BY DEF Begin, Placed, Typed, CallsTyped
<1>2. PICK op \in ground.ops :
        st' = [st EXCEPT ![c].pc = IF op \in {"write", "restore"} THEN "read" ELSE "turn",
                         ![c].op = op,
                         ![c].put = [kind |-> "reads", rev |-> 1, by |-> c]]
  BY DEF Begin
<1>3. op \in AllOps BY GroundIs DEF Typed
<1>4. adrift' = adrift /\ c \notin adrift /\ holder' = holder /\ ground' = ground
  BY DEF Begin, Placed, bounds
<1>5. Alone(c) BY <1>1, <1>2, <1>4 DEF Alone
<1>6. /\ st'[c].pc \in {"read", "turn"} /\ st'[c].op = op /\ ~st'[c].loaded
      /\ st'[c].pc = "read" <=> op \in {"write", "restore"}
      /\ st'[c].known = NoEntry /\ st'[c].answer = "none"
      /\ st'[c].put.kind = "reads" /\ st'[c].put.by = c
  BY <1>1, <1>2 DEF Idle, CallStatesOf
<1>7. Placed(c)'
  BY <1>3, <1>4, <1>6 DEF Placed, FromMemory, AtAFile, Reading, InSearch, InTurn, AllOps, NoEntry
<1> QED BY <1>5, <1>7

LEMMA RecallPlaced ==
  ASSUME NEW CONSTANT N, Typed(N), NEW c \in Calls, Placed(c), Recall(c)
  PROVE  Placed(c)' /\ Alone(c)
<1>1. st \in [Calls -> CallStatesOf(N)] BY DEF Typed, CallsTyped
<1>2. adrift' = adrift /\ holder' = holder /\ ground' = ground /\ st[c].pc = "read"
  BY DEF Recall, Go, bounds
<1>3. CASE Known(Home[c])
  <2>1. mem[Home[c]].file \in Files /\ mem[Home[c]] \in EntriesOf(N)
    BY <1>3, GroundIs DEF Typed, MemTyped, EntriesOf, Known
  <2>2. st' = [st EXCEPT ![c].pc = "fetch", ![c].at = mem[Home[c]].file,
                         ![c].known = mem[Home[c]], ![c].wrote = mem[Home[c]]]
    BY <1>1, <1>3 DEF Recall
  <2>3. /\ st'[c].pc = "fetch" /\ st'[c].at = mem[Home[c]].file /\ st'[c].known = mem[Home[c]]
        /\ \A g \in {"op", "loaded", "put", "answer"} : st'[c][g] = st[c][g]
    BY <1>1, <2>2 DEF CallStatesOf
  <2>4. st'[c].known.file # NoFile BY <2>1, <2>3, NoFileIsNone
  <2>5. Alone(c) BY <1>1, <1>2, <2>2 DEF Alone
  <2> QED BY <1>2, <2>1, <2>3, <2>4, <2>5
          DEF Placed, FromMemory, AtAFile, Reading, InSearch, InTurn
<1>4. CASE ~Known(Home[c])
  <2>1. Go(c, "search") BY <1>4 DEF Recall
  <2>2. st[c].put.by = c /\ st[c].known = NoEntry /\ st[c].op # "startOver" /\ st[c].op # "create" /\ ~st[c].loaded
    BY <1>2 DEF Placed, Reading
  <2>3. ~InTurn(c)'
    <3>1. st'[c].pc = "search" /\ st'[c].op = st[c].op /\ st'[c].loaded = st[c].loaded
      BY <1>1, <2>1 DEF Go, CallStatesOf
    <3> QED BY <2>2, <3>1 DEF InTurn
  <2>4. Placed(c)' BY <1>2, <2>1, <2>2, <2>3, GoPlaced DEF Typed, AtAFile, Reading, InSearch
  <2>5. Alone(c) BY <1>2, <2>1, MovesOne DEF Typed
  <2> QED BY <2>4, <2>5
<1> QED BY <1>3, <1>4

LEMMA FetchPlaced ==
  ASSUME NEW CONSTANT N, Typed(N), NEW c \in Calls, Placed(c), Fetch(c)
  PROVE  Placed(c)' /\ Alone(c)
<1>1. st \in [Calls -> CallStatesOf(N)] BY DEF Typed, CallsTyped
<1>2. adrift' = adrift /\ ground' = ground /\ st[c].pc = "fetch" BY DEF Fetch, bounds
<1>3. \/ (\E content : st' = [st EXCEPT ![c].pc = "judge", ![c].got = content]) /\ holder' = holder
      \/ st' = [st EXCEPT ![c].pc = "search", ![c].known = NoEntry] /\ holder' = holder
      \/ Finish(c, "notFound")
  BY DEF Fetch
<1>4. Alone(c) BY <1>2, <1>3, MovesOne DEF Typed
<1>5. ASSUME NEW content, st' = [st EXCEPT ![c].pc = "judge", ![c].got = content]
      PROVE  Placed(c)'
  <2>1. /\ st'[c].pc = "judge"
        /\ \A g \in {"at", "known", "op", "loaded", "put", "answer"} : st'[c][g] = st[c][g]
    BY <1>1, <1>5 DEF CallStatesOf
  <2> QED BY <1>2, <2>1 DEF Placed, FromMemory, AtAFile, Reading, InSearch, InTurn
<1>6. ASSUME st' = [st EXCEPT ![c].pc = "search", ![c].known = NoEntry]
      PROVE  Placed(c)'
  <2>1. /\ st'[c].pc = "search" /\ st'[c].known = NoEntry
        /\ \A g \in {"op", "loaded", "put", "answer"} : st'[c][g] = st[c][g]
    BY <1>1, <1>6 DEF CallStatesOf
  <2>2. NoEntry.file = NoFile BY DEF NoEntry
  <2>3. st[c].op \in {"write", "restore"} /\ ~st[c].loaded BY <1>2 DEF Placed, Reading
  <2> QED BY <1>2, <2>1, <2>2, <2>3 DEF Placed, FromMemory, AtAFile, Reading, InSearch, InTurn
<1> QED BY <1>2, <1>3, <1>4, <1>5, <1>6, FinishPlaced DEF Typed

LEMMA SearchPlaced ==
  ASSUME NEW CONSTANT N, Typed(N), NEW c \in Calls, Placed(c), Search(c)
  PROVE  Placed(c)' /\ Alone(c)
<1>1. st \in [Calls -> CallStatesOf(N)] BY DEF Typed, CallsTyped
<1>2. adrift' = adrift /\ holder' = holder /\ ground' = ground /\ st[c].pc = "search"
  BY DEF Search, bounds
<1>3. Marked(FALSE) # <<>> => Head(Marked(FALSE)) \in Files
  BY MarkedTyped, HeadTailProperties DEF Typed, FilesTyped
<1>4. \/ \E f \in Files : st' = [st EXCEPT ![c].pc = "found", ![c].at = f]
      \/ st' = [st EXCEPT ![c].pc = "bin"]
  BY <1>3 DEF Search
<1>5. /\ st'[c].pc \in {"found", "bin"}
      /\ st'[c].pc = "found" => st'[c].at \in Files
      /\ \A g \in {"known", "op", "loaded", "put", "answer"} : st'[c][g] = st[c][g]
  BY <1>1, <1>4 DEF CallStatesOf
<1>6. Alone(c) BY <1>2, <1>4, MovesOne DEF Typed
<1>7. InTurn(c)' => InTurn(c) BY <1>2, <1>5 DEF InTurn, InSearch
<1> QED BY <1>2, <1>5, <1>6, <1>7 DEF Placed, FromMemory, AtAFile, Reading, InSearch, Home

LEMMA SearchBinPlaced ==
  ASSUME NEW CONSTANT N, Typed(N), NEW c \in Calls, Placed(c), SearchBin(c)
  PROVE  Placed(c)' /\ Alone(c)
<1>1. adrift' = adrift /\ ground' = ground /\ st[c].pc = "bin" BY DEF SearchBin, bounds
<1>2. \/ st[c].op = "create" /\ Go(c, "make")
      \/ Finish(c, "inBin") \/ Finish(c, "notFound")
  BY DEF SearchBin
<1>3. Alone(c) BY <1>1, <1>2, MovesOne DEF Typed
<1>4. ASSUME st[c].op = "create", Go(c, "make") PROVE Placed(c)'
  <2>1. InTurn(c) BY <1>1, <1>4 DEF InTurn, InSearch
  <2>2. st[c].put.by = c BY <1>1 DEF Placed
  <2> QED BY <1>1, <1>4, <2>1, <2>2, GoPlaced DEF Typed, AtAFile, Reading, InSearch
<1> QED BY <1>1, <1>2, <1>3, <1>4, FinishPlaced DEF Typed

LEMMA FoundPlaced ==
  ASSUME NEW CONSTANT N, Typed(N), NEW c \in Calls, Placed(c), Found(c)
  PROVE  Placed(c)' /\ Alone(c)
<1>1. adrift' = adrift /\ ground' = ground /\ st[c].pc = "found" BY DEF Found, bounds
<1>2. \/ Finish(c, "conflict")
      \/ st[c].loaded /\ Go(c, "check")
      \/ st[c].op # "create" /\ ~st[c].loaded /\ Go(c, "fetch")
  BY DEF Found
<1>3. Alone(c) BY <1>1, <1>2, MovesOne DEF Typed
<1>4. /\ st[c].at \in Files /\ st[c].op # "startOver" /\ st[c].op \in AllOps /\ st[c].put.by = c
      /\ st[c].loaded => InTurn(c)
  BY <1>1, CallIs DEF Placed, AtAFile, InSearch, Typed, InTurn
<1>5. ASSUME st[c].loaded, Go(c, "check") PROVE Placed(c)'
  BY <1>1, <1>4, <1>5, GoPlaced DEF Typed, AtAFile, Reading, InSearch
<1>6. ASSUME st[c].op # "create", ~st[c].loaded, Go(c, "fetch") PROVE Placed(c)'
  <2>1. ~FromMemory(c)
    BY <1>1, <1>6 DEF Placed, InSearch, FromMemory, NoEntry
  <2>2. ~InTurn(c)'
    <3>1. st \in [Calls -> CallStatesOf(N)] BY DEF Typed, CallsTyped
    <3> QED BY <1>6, <3>1 DEF Go, InTurn, InSearch, CallStatesOf
  <2> QED BY <1>1, <1>4, <1>6, <2>1, <2>2, GoPlaced DEF Typed, AtAFile, Reading, InSearch, AllOps
<1> QED BY <1>1, <1>2, <1>3, <1>5, <1>6, FinishPlaced DEF Typed

LEMMA LoadedPlaced ==
  ASSUME NEW CONSTANT N, Typed(N), NEW c \in Calls, Placed(c), NEW content, Loaded(c, content),
         adrift' = adrift, ground' = ground, st[c].pc \in {"judge", "catchUp"}, st[c].op = "write"
  PROVE  Placed(c)' /\ Alone(c)
<1>1. st \in [Calls -> CallStatesOf(N)] BY DEF Typed, CallsTyped
<1>2. /\ st'[c].pc = "turn" /\ st'[c].loaded /\ st'[c].put.kind = "reads" /\ st'[c].put.by = c
      /\ \A g \in {"known", "op", "answer"} : st'[c][g] = st[c][g]
  BY <1>1 DEF Loaded, CallStatesOf
<1>3. Placed(c)' BY <1>2 DEF Placed, FromMemory, AtAFile, Reading, InSearch, InTurn
<1>4. Alone(c)
  <2>1. (\E one : st' = [st EXCEPT ![c] = one]) /\ holder' = holder BY DEF Loaded
  <2> QED BY <2>1, MovesOne DEF Typed
<1> QED BY <1>3, <1>4

LEMMA JudgePlaced ==
  ASSUME NEW CONSTANT N, Typed(N), NEW c \in Calls, Placed(c), Judge(c)
  PROVE  Placed(c)' /\ Alone(c)
<1>1. st \in [Calls -> CallStatesOf(N)] BY DEF Typed, CallsTyped
<1>2. adrift' = adrift /\ ground' = ground /\ st[c].pc = "judge" BY DEF Judge, bounds
<1>3. /\ st[c].at \in Files /\ st[c].op \in {"write", "restore"} /\ ~st[c].loaded /\ st[c].put.by = c
      /\ FromMemory(c) => st[c].known.file = st[c].at
  BY <1>2 DEF Placed, AtAFile, Reading
<1>4. \/ \E answer : Finish(c, answer)
      \/ Go(c, "catchUp") /\ st[c].op = "write"
      \/ Loaded(c, st[c].got) /\ st[c].op = "write"
      \/ /\ st' = [st EXCEPT ![c].pc = "search", ![c].known = NoEntry, ![c].early = st[c].known]
         /\ holder' = holder
      \/ Go(c, "mending") /\ st[c].early.mended /\ st[c].early.file = st[c].at
      \/ Go(c, "recover") /\ st[c].op = "restore"
  BY DEF Judge, JudgeReadable, JudgeRemembered, JudgeFound
<1>5. CASE \E answer : Finish(c, answer) BY <1>2, <1>5, FinishPlaced, MovesOne DEF Typed
<1>6. CASE Loaded(c, st[c].got) /\ st[c].op = "write" BY <1>2, <1>6, LoadedPlaced
<1>7. CASE /\ st' = [st EXCEPT ![c].pc = "search", ![c].known = NoEntry, ![c].early = st[c].known]
           /\ holder' = holder
  <2>1. Alone(c) BY <1>2, <1>7, MovesOne DEF Typed
  <2>2. /\ st'[c].pc = "search" /\ st'[c].known = NoEntry
        /\ \A g \in {"op", "loaded", "put", "answer"} : st'[c][g] = st[c][g]
    BY <1>1, <1>7 DEF CallStatesOf
  <2>3. NoEntry.file = NoFile BY DEF NoEntry
  <2> QED BY <1>2, <1>3, <2>1, <2>2, <2>3 DEF Placed, FromMemory, AtAFile, Reading, InSearch, InTurn
<1>8. CASE \E place \in {"catchUp", "mending", "recover"} :
             /\ Go(c, place)
             /\ place = "mending" => st[c].early.mended /\ st[c].early.file = st[c].at
             /\ place = "recover" => st[c].op = "restore"
             /\ place = "catchUp" => st[c].op = "write"
  <2>1. PICK place \in {"catchUp", "mending", "recover"} :
             /\ Go(c, place)
             /\ place = "mending" => st[c].early.mended /\ st[c].early.file = st[c].at
             /\ place = "recover" => st[c].op = "restore"
             /\ place = "catchUp" => st[c].op = "write"
    BY <1>8
  <2>2. Alone(c) BY <1>2, <2>1, MovesOne DEF Typed
  <2>3. /\ st'[c].pc = place
        /\ \A g \in {"at", "known", "early", "op", "loaded", "put", "answer"} : st'[c][g] = st[c][g]
    BY <1>1, <2>1 DEF Go, CallStatesOf
  <2> QED BY <1>2, <1>3, <2>1, <2>2, <2>3 DEF Placed, FromMemory, AtAFile, Reading, InSearch, InTurn
<1> QED BY <1>4, <1>5, <1>6, <1>7, <1>8

LEMMA MendingPlaced ==
  ASSUME NEW CONSTANT N, Typed(N), NEW c \in Calls, Placed(c), Mending(c)
  PROVE  Placed(c)' /\ Alone(c)
<1>1. st \in [Calls -> CallStatesOf(N)] BY DEF Typed, CallsTyped
<1>2. adrift' = adrift /\ ground' = ground /\ st[c].pc = "mending" BY DEF Mending, bounds
<1>3. \/ \E answer : Finish(c, answer)
      \/ \E content : /\ st' = [st EXCEPT ![c].pc = "judge", ![c].got = content, ![c].known = st[c].early]
                      /\ holder' = holder
  BY DEF Mending
<1>4. Alone(c) BY <1>2, <1>3, MovesOne DEF Typed
<1>5. ASSUME NEW content, st' = [st EXCEPT ![c].pc = "judge", ![c].got = content, ![c].known = st[c].early]
      PROVE  Placed(c)'
  <2>1. /\ st'[c].pc = "judge" /\ st'[c].known = st[c].early
        /\ \A g \in {"at", "op", "loaded", "put", "answer"} : st'[c][g] = st[c][g]
    BY <1>1, <1>5 DEF CallStatesOf
  <2>2. st[c].early.file = st[c].at /\ st[c].at # NoFile /\ st[c].op # "create"
    BY <1>2, NoFileIsNone DEF Placed, AtAFile, Reading
  <2> QED BY <1>2, <2>1, <2>2 DEF Placed, FromMemory, AtAFile, Reading, InSearch, InTurn
<1> QED BY <1>2, <1>3, <1>4, <1>5, FinishPlaced DEF Typed

\* What a read is held to came from memory: a file just found is held to nothing.
LEMMA CatchUpPlaced ==
  ASSUME NEW CONSTANT N, Typed(N), NEW c \in Calls, Placed(c), CatchUp(c)
  PROVE  Placed(c)' /\ Alone(c)
<1>2. adrift' = adrift /\ ground' = ground /\ st[c].pc = "catchUp" BY DEF CatchUp, bounds
<1>3. \/ \E answer : Finish(c, answer)
      \/ \E content : Loaded(c, content)
  BY DEF CatchUp
<1>4. st[c].op = "write" BY <1>2 DEF Placed
<1> QED BY <1>2, <1>3, <1>4, FinishPlaced, MovesOne, LoadedPlaced DEF Typed

LEMMA TakeTurnPlaced ==
  ASSUME NEW CONSTANT N, Typed(N), NEW c \in Calls, Placed(c), TakeTurn(c)
  PROVE  Placed(c)' /\ Alone(c)
<1>1. st \in [Calls -> CallStatesOf(N)] BY DEF Typed, CallsTyped
<1>2. adrift' = adrift /\ ground' = ground /\ st[c].pc = "turn" BY DEF TakeTurn, bounds
<1>3. st[c].op \in AllOps BY CallIs DEF Typed
<1>4. /\ st[c].op = "write" => st' = [st EXCEPT ![c].pc = "locate"]
      /\ st[c].op = "create" => st' = [st EXCEPT ![c].pc = "search"]
      /\ st[c].op = "restore" => st' = [st EXCEPT ![c].pc = "check"]
      /\ st[c].op = "startOver" => st' = [st EXCEPT ![c].pc = "list"]
  BY <1>3 DEF TakeTurn
<1>5. /\ st[c].op = "write" => st'[c].pc = "locate"
      /\ st[c].op = "create" => st'[c].pc = "search"
      /\ st[c].op = "restore" => st'[c].pc = "check"
      /\ st[c].op = "startOver" => st'[c].pc = "list"
      /\ \A g \in {"at", "known", "op", "loaded", "put", "answer"} : st'[c][g] = st[c][g]
  BY <1>1, <1>3, <1>4 DEF CallStatesOf, AllOps
<1>6. holder'[Home'[c]] = c
  <2>1. Home[c] \in Instances /\ Home' = Home BY <1>2, GroundIs DEF Typed, Home
  <2> QED BY <2>1 DEF TakeTurn, Typed, HoldersTyped
<1>7. Alone(c)
  <2>1. \E one : st' = [st EXCEPT ![c] = one] BY DEF TakeTurn
  <2> QED BY <1>2, <2>1, MovesOne DEF Typed, TakeTurn
<1>8. Placed(c)'
  BY <1>2, <1>3, <1>5, <1>6 DEF Placed, FromMemory, AtAFile, Reading, InSearch, InTurn, AllOps
<1> QED BY <1>7, <1>8

LEMMA LocatePlaced ==
  ASSUME NEW CONSTANT N, Typed(N), NEW c \in Calls, Placed(c), Locate(c)
  PROVE  Placed(c)' /\ Alone(c)
<1>1. st \in [Calls -> CallStatesOf(N)] BY DEF Typed, CallsTyped
<1>2. adrift' = adrift /\ ground' = ground /\ holder' = holder /\ st[c].pc = "locate" BY DEF Locate, bounds
<1>3. Known(Home[c]) => mem[Home[c]].file \in Files BY GroundIs DEF Typed, MemTyped, EntriesOf, Known
<1>4. \/ \E f \in Files : st' = [st EXCEPT ![c].pc = "check", ![c].at = f]
      \/ st' = [st EXCEPT ![c].pc = "search"]
  BY <1>3 DEF Locate
<1>5. /\ st'[c].pc \in {"check", "search"}
      /\ st'[c].pc = "check" => st'[c].at \in Files
      /\ \A g \in {"known", "op", "loaded", "put", "answer"} : st'[c][g] = st[c][g]
  BY <1>1, <1>4 DEF CallStatesOf
<1>6. Alone(c) BY <1>2, <1>4, MovesOne DEF Typed
<1>7. holder'[Home'[c]] = c BY <1>2 DEF Placed, InTurn, Home
<1>8. st[c].loaded /\ st[c].op = "write" /\ st[c].put.by = c BY <1>2 DEF Placed
<1> QED BY <1>2, <1>5, <1>6, <1>7, <1>8 DEF Placed, FromMemory, AtAFile, Reading, InSearch

LEMMA CheckPlaced ==
  ASSUME NEW CONSTANT N, Typed(N), NEW c \in Calls, Placed(c), Check(c)
  PROVE  Placed(c)' /\ Alone(c)
<1>2. adrift' = adrift /\ ground' = ground /\ st[c].pc = "check" BY DEF Check, bounds
<1>3. Go(c, "upload") \/ \E answer : Finish(c, answer) BY DEF Check
<1>4. Alone(c) BY <1>2, <1>3, MovesOne DEF Typed
<1>5. ASSUME Go(c, "upload") PROVE Placed(c)'
  <2>1. InTurn(c) /\ st[c].at \in Files /\ (st[c].loaded \/ st[c].op = "restore")
    BY <1>2 DEF Placed, AtAFile, InTurn
  <2> QED BY <1>2, <1>5, <2>1, GoPlaced DEF Typed, AtAFile, Reading, InSearch
<1> QED BY <1>2, <1>3, <1>4, <1>5, FinishPlaced DEF Typed

LEMMA UploadPlaced ==
  ASSUME NEW CONSTANT N, Typed(N), NEW c \in Calls, Placed(c), Upload(c)
  PROVE  Placed(c)' /\ Alone(c)
<1>1. st \in [Calls -> CallStatesOf(N)] BY DEF Typed, CallsTyped
<1>2. adrift' = adrift /\ ground' = ground /\ st[c].pc = "upload" BY DEF Upload, bounds
<1>3. \/ /\ st' = [st EXCEPT ![c].pc = "answered", ![c].sound = IsProfile(st[c].at)]
         /\ holder' = holder
      \/ Finish(c, "notFound")
  BY DEF Upload
<1>4. Alone(c) BY <1>2, <1>3, MovesOne DEF Typed
<1>5. ASSUME st' = [st EXCEPT ![c].pc = "answered", ![c].sound = IsProfile(st[c].at)], holder' = holder
      PROVE  Placed(c)'
  <2>1. /\ st'[c].pc = "answered"
        /\ \A g \in {"at", "known", "op", "loaded", "put", "answer"} : st'[c][g] = st[c][g]
    BY <1>1, <1>5 DEF CallStatesOf
  <2>2. holder'[Home'[c]] = c BY <1>2, <1>5 DEF Placed, InTurn, Home
  <2> QED BY <1>2, <2>1, <2>2 DEF Placed, FromMemory, AtAFile, Reading, InSearch
<1> QED BY <1>2, <1>3, <1>4, <1>5, FinishPlaced DEF Typed

LEMMA AnsweredPlaced ==
  ASSUME NEW CONSTANT N, Typed(N), NEW c \in Calls, Placed(c), Answered(c)
  PROVE  Placed(c)' /\ Alone(c)
<1>2. adrift' = adrift /\ ground' = ground /\ st[c].pc = "answered" BY DEF Answered, bounds
<1>3. \E answer : Finish(c, answer) BY DEF Answered
<1> QED BY <1>2, <1>3, FinishPlaced, MovesOne DEF Typed

LEMMA MakePlaced ==
  ASSUME NEW CONSTANT N, Typed(N), NEW c \in Calls, Placed(c), Make(c)
  PROVE  Placed(c)' /\ Alone(c)
<1>1. st \in [Calls -> CallStatesOf(N)] BY DEF Typed, CallsTyped
<1>2. adrift' = adrift /\ ground' = ground /\ holder' = holder /\ st[c].pc = "make" BY DEF Make, bounds
<1>3. PICK f \in Files : st' = [st EXCEPT ![c].pc = "made", ![c].at = f] BY DEF Make
<1>4. /\ st'[c].pc = "made" /\ st'[c].at = f
      /\ \A g \in {"known", "op", "loaded", "put", "answer"} : st'[c][g] = st[c][g]
  BY <1>1, <1>3 DEF CallStatesOf
<1>5. Alone(c) BY <1>2, <1>3, MovesOne DEF Typed
<1>6. holder'[Home'[c]] = c BY <1>2 DEF Placed, InTurn, Home
<1> QED BY <1>2, <1>4, <1>5, <1>6 DEF Placed, FromMemory, AtAFile, Reading, InSearch

LEMMA MadePlaced ==
  ASSUME NEW CONSTANT N, Typed(N), NEW c \in Calls, Placed(c), Made(c)
  PROVE  Placed(c)' /\ Alone(c)
<1>1. st \in [Calls -> CallStatesOf(N)] BY DEF Typed, CallsTyped
<1>2. adrift' = adrift /\ ground' = ground /\ st[c].pc = "made" BY DEF Made, bounds
<1>3. (st[c].doomed # <<>> /\ Go(c, "aside")) \/ \E answer : Finish(c, answer) BY DEF Made
<1>4. Alone(c) BY <1>2, <1>3, MovesOne DEF Typed
<1>5. ASSUME st[c].doomed # <<>>, Go(c, "aside") PROVE Placed(c)'
  <2>1. /\ st'[c].pc = "aside" /\ holder' = holder
        /\ \A g \in {"known", "op", "loaded", "put", "answer", "doomed"} : st'[c][g] = st[c][g]
    BY <1>1, <1>5 DEF CallStatesOf, Go
  <2>2. holder'[Home'[c]] = c BY <1>2, <2>1 DEF Placed, InTurn, Home
  <2> QED BY <1>2, <1>5, <2>1, <2>2 DEF Placed, FromMemory, AtAFile, Reading, InSearch
<1> QED BY <1>2, <1>3, <1>4, <1>5, FinishPlaced DEF Typed

LEMMA ListPlaced ==
  ASSUME NEW CONSTANT N, Typed(N), NEW c \in Calls, Placed(c), List(c) \/ ListBin(c)
  PROVE  Placed(c)' /\ Alone(c)
<1>1. st \in [Calls -> CallStatesOf(N)] BY DEF Typed, CallsTyped
<1>2. adrift' = adrift /\ ground' = ground /\ holder' = holder /\ st[c].pc \in {"list", "beside"}
  BY DEF List, ListBin, bounds
<1>3. \/ \E todo, at : st' = [st EXCEPT ![c].pc = "beside", ![c].todo = todo, ![c].at = at]
      \/ \E doomed : st' = [st EXCEPT ![c].pc = "make", ![c].doomed = doomed]
  BY <1>1 DEF List, ListBin
<1>4. /\ st'[c].pc \in {"beside", "make"}
      /\ \A g \in {"known", "op", "loaded", "put", "answer"} : st'[c][g] = st[c][g]
  <2>1. ASSUME NEW todo, NEW at, st' = [st EXCEPT ![c].pc = "beside", ![c].todo = todo, ![c].at = at]
        PROVE  /\ st'[c].pc = "beside"
               /\ \A g \in {"known", "op", "loaded", "put", "answer"} : st'[c][g] = st[c][g]
    BY <1>1, <2>1 DEF CallStatesOf
  <2>2. ASSUME NEW doomed, st' = [st EXCEPT ![c].pc = "make", ![c].doomed = doomed]
        PROVE  /\ st'[c].pc = "make"
               /\ \A g \in {"known", "op", "loaded", "put", "answer"} : st'[c][g] = st[c][g]
    BY <1>1, <2>2 DEF CallStatesOf
  <2> QED BY <1>3, <2>1, <2>2
<1>5. Alone(c) BY <1>2, <1>3, MovesOne DEF Typed
<1>6. holder'[Home'[c]] = c BY <1>2 DEF Placed, InTurn, Home
<1> QED BY <1>2, <1>4, <1>5, <1>6 DEF Placed, FromMemory, AtAFile, Reading, InSearch

LEMMA BesidePlaced ==
  ASSUME NEW CONSTANT N, Typed(N), NEW c \in Calls, Placed(c), Beside(c)
  PROVE  Placed(c)' /\ Alone(c)
<1>1. st \in [Calls -> CallStatesOf(N)] BY DEF Typed, CallsTyped
<1>2. adrift' = adrift /\ ground' = ground /\ st[c].pc = "beside" BY DEF Beside, bounds
<1>3. \/ \E answer : Finish(c, answer)
      \/ /\ \E todo, doomed : st' = [st EXCEPT ![c].todo = todo, ![c].doomed = doomed]
         /\ holder' = holder
  <2>1. ASSUME st' = [st EXCEPT ![c].todo = Tail(@)]
        PROVE  st' = [st EXCEPT ![c].todo = Tail(st[c].todo), ![c].doomed = st[c].doomed]
    BY <1>1, <2>1 DEF CallStatesOf
  <2> QED BY <1>1, <2>1 DEF Beside
<1>4. Alone(c) BY <1>2, <1>3, MovesOne DEF Typed
<1>5. ASSUME NEW todo, NEW doomed, st' = [st EXCEPT ![c].todo = todo, ![c].doomed = doomed], holder' = holder
      PROVE  Placed(c)'
  <2>1. \A g \in {"pc", "known", "op", "loaded", "put", "answer"} : st'[c][g] = st[c][g]
    BY ZenonT(40), <1>1, <1>5 DEF CallStatesOf
  <2>2. holder'[Home'[c]] = c BY <1>2, <1>5 DEF Placed, InTurn, Home
  <2> QED BY <1>2, <2>1, <2>2 DEF Placed, FromMemory, AtAFile, Reading, InSearch
<1> QED BY <1>2, <1>3, <1>4, <1>5, FinishPlaced DEF Typed

LEMMA SetAsidePlaced ==
  ASSUME NEW CONSTANT N, Typed(N), NEW c \in Calls, Placed(c), SetAside(c)
  PROVE  Placed(c)' /\ Alone(c)
<1>1. st \in [Calls -> CallStatesOf(N)] BY DEF Typed, CallsTyped
<1>2. adrift' = adrift /\ ground' = ground /\ st[c].pc = "aside" BY DEF SetAside, bounds
<1>3. \/ \E answer : Finish(c, answer)
      \/ \E rest : rest # <<>> /\ st' = [st EXCEPT ![c].doomed = rest] /\ holder' = holder
  BY <1>1 DEF SetAside
<1>4. Alone(c) BY <1>2, <1>3, MovesOne DEF Typed
<1>5. ASSUME NEW rest, rest # <<>>, st' = [st EXCEPT ![c].doomed = rest], holder' = holder
      PROVE  Placed(c)'
  <2>1. /\ st'[c].doomed # <<>>
        /\ \A g \in {"pc", "known", "op", "loaded", "put", "answer"} : st'[c][g] = st[c][g]
    BY <1>1, <1>5 DEF CallStatesOf
  <2>2. holder'[Home'[c]] = c BY <1>2, <1>5 DEF Placed, InTurn, Home
  <2> QED BY <1>2, <2>1, <2>2 DEF Placed, FromMemory, AtAFile, Reading, InSearch
<1> QED BY <1>2, <1>3, <1>4, <1>5, FinishPlaced DEF Typed

LEMMA RecoverPlaced ==
  ASSUME NEW CONSTANT N, Typed(N), NEW c \in Calls, Placed(c), Recover(c)
  PROVE  Placed(c)' /\ Alone(c)
<1>1. st \in [Calls -> CallStatesOf(N)] BY DEF Typed, CallsTyped
<1>2. adrift' = adrift /\ ground' = ground /\ st[c].pc = "recover" BY DEF Recover, bounds
<1>3. \/ \E answer : Finish(c, answer)
      \/ \E put : /\ st' = [st EXCEPT ![c].pc = "turn", ![c].from = st[c].at, ![c].base = st[c].got, ![c].put = put]
                  /\ holder' = holder
                  /\ put.kind = "reads"
  <2> DEFINE past == file[st[c].at].past
             first == IF Len(past) > Tried + 1 THEN Len(past) - Tried ELSE 1
             reading == {content \in Contents : content.kind = "reads"}
             some == SubSeq(past, first, Len(past) - 1)
             earlier == Among(some, reading)
  <2>1. ASSUME Exists(st[c].at), earlier # <<>> PROVE Last(earlier).kind = "reads"
    <3>1. past \in Seq(ContentsOf(N)) /\ Len(past) > 0
      <4>1. st[c].at \in Files BY <1>2 DEF Placed, AtAFile
      <4> QED BY <2>1, <4>1 DEF Typed, FilesTyped, FilesOf
    <3>2. some \in Seq(ContentsOf(N))
      <4>1. Len(past) \in Nat /\ first \in 1..(Len(past) + 1) BY <3>1 DEF Tried
      <4> HIDE DEF past, first
      <4> QED BY <3>1, <4>1, SubSeqProperties
    <3>3. earlier \in Seq(ContentsOf(N) \cap reading)
      <4> HIDE DEF some, reading
      <4> QED BY <3>2, AmongIs
    <3> HIDE DEF earlier
    <3>4. Last(earlier) \in ContentsOf(N) \cap reading BY <2>1, <3>3 DEF Last
    <3> QED BY <3>4
  <2> QED BY <2>1 DEF Recover
<1>4. Alone(c) BY <1>2, <1>3, MovesOne DEF Typed
<1>5. ASSUME NEW put, put.kind = "reads",
             st' = [st EXCEPT ![c].pc = "turn", ![c].from = st[c].at, ![c].base = st[c].got, ![c].put = put]
      PROVE  Placed(c)'
  <2>1. /\ st'[c].pc = "turn" /\ st'[c].put = put
        /\ \A g \in {"at", "known", "op", "loaded", "answer"} : st'[c][g] = st[c][g]
    BY <1>1, <1>5 DEF CallStatesOf
  <2>2. st[c].op = "restore" /\ st[c].at \in Files BY <1>2 DEF Placed, AtAFile
  <2> QED BY <1>2, <1>5, <2>1, <2>2 DEF Placed, FromMemory, AtAFile, Reading, InSearch, InTurn
<1> QED BY <1>2, <1>3, <1>4, <1>5, FinishPlaced DEF Typed

LEMMA FailsPlaced ==
  ASSUME NEW CONSTANT N, Typed(N), NEW c \in Calls, Placed(c), DriveFails(c) \/ Unanswered(c)
  PROVE  Placed(c)' /\ Alone(c)
<1>1. adrift' = adrift /\ ground' = ground BY DEF DriveFails, Unanswered, bounds
<1>2. st[c].pc \notin {"idle", "done"} BY DEF DriveFails, Unanswered, Requests
<1>3. \E answer : Finish(c, answer) BY DEF DriveFails, Unanswered
<1> QED BY <1>1, <1>2, <1>3, FinishPlaced, MovesOne DEF Typed

LEMMA DriftPlaced ==
  ASSUME NEW CONSTANT N, Typed(N), NEW c \in Calls, Placed(c), Drift(c)
  PROVE  Placed(c)' /\ Alone(c)
<1>1. st \in [Calls -> CallStatesOf(N)] BY DEF Typed, CallsTyped
<1>2. adrift' = adrift \cup {c} /\ ground' = ground /\ st[c].pc = "upload" BY DEF Drift, bounds
<1>3. Finish(c, "unknown") BY DEF Drift
<1>4. /\ st'[c].pc = "done" /\ st'[c].answer = "unknown"
      /\ \A g \in {"at", "known", "op", "loaded", "put"} : st'[c][g] = st[c][g]
  BY <1>1, <1>3 DEF Finish, CallStatesOf
<1>5. st[c].at \in Files BY <1>2 DEF Placed, AtAFile
<1>6. Placed(c)' BY <1>2, <1>4, <1>5 DEF Placed, FromMemory, AtAFile, Reading, InSearch, InTurn
<1>7. ASSUME NEW d \in Calls \ {c}
      PROVE  /\ st'[d] = st[d] /\ (d \in adrift' => d \in adrift)
             /\ holder[Home[d]] = d => holder'[Home[d]] = d
  <2>1. Home[d] \in Instances BY GroundIs DEF Typed
  <2> QED BY <1>1, <1>2, <1>3, <2>1 DEF Finish, GivenBack
<1> QED BY <1>2, <1>6, <1>7 DEF Alone

\* What is no step of a call's, and what ends calls at once.
LEMMA OthersPlaced ==
  ASSUME NEW CONSTANT N, Typed(N), \A d \in Calls : Placed(d),
         \/ \E c \in Calls : LandLate(c)
         \/ \E i \in Instances : Lapse(i)
         \/ Parent \/ UNCHANGED vars
  PROVE  \A d \in Calls : Placed(d)'
<1>1. ground' = ground /\ holder' = holder /\ st' = st /\ adrift' \subseteq adrift
  BY DEF LandLate, Lapse, Parent, vars, bounds
<1> QED BY <1>1, StaysPlaced

LEMMA RestartPlaced ==
  ASSUME NEW CONSTANT N, Typed(N), \A d \in Calls : Placed(d), NEW i \in Instances, Restart(i)
  PROVE  \A d \in Calls : Placed(d)'
<1> SUFFICES ASSUME NEW d \in Calls PROVE Placed(d)' OBVIOUS
<1>1. ground' = ground /\ adrift' = adrift /\ holder' = [holder EXCEPT ![i] = NoCall] BY DEF Restart
<1>2. st'[d] = IF Home[d] = i /\ st[d].pc \notin {"idle", "done"}
               THEN [st[d] EXCEPT !.pc = "done", !.answer = "unknown"] ELSE st[d]
  BY DEF Restart
<1>3. st[d] \in CallStatesOf(N) /\ Placed(d) BY CallIs DEF Typed
<1>4. CASE Home[d] = i /\ st[d].pc \notin {"idle", "done"}
  <2>1. /\ st'[d].pc = "done" /\ st'[d].answer = "unknown"
        /\ \A g \in {"at", "known", "op", "loaded", "put"} : st'[d][g] = st[d][g]
    BY <1>2, <1>3, <1>4 DEF CallStatesOf
  <2> QED BY <1>1, <1>3, <1>4, <2>1 DEF Placed, FromMemory, AtAFile, Reading, InSearch, InTurn
<1>5. CASE st[d].pc = "idle" \/ st[d].pc = "done"
  <2>1. st'[d] = st[d] /\ ~InTurn(d) BY <1>2, <1>5 DEF InTurn, InSearch
  <2> QED BY <1>1, <1>3, <2>1 DEF Placed, FromMemory, InTurn
<1>6. CASE Home[d] # i /\ st[d].pc \notin {"idle", "done"}
  <2>1. st'[d] = st[d] BY <1>2, <1>6
  <2>2. holder'[Home[d]] = holder[Home[d]] BY <1>1, <1>6, GroundIs DEF Typed, HoldersTyped
  <2> QED BY <1>1, <1>3, <2>1, <2>2, StaysPlaced
<1> QED BY <1>4, <1>5, <1>6

LEMMA StepPlaced ==
  ASSUME NEW CONSTANT N, Typed(N), NEW c \in Calls, Placed(c),
         Begin(c) \/ Step(c) \/ DriveFails(c) \/ Unanswered(c) \/ Drift(c)
  PROVE  Placed(c)' /\ Alone(c)
BY BeginPlaced, RecallPlaced, FetchPlaced, SearchPlaced, SearchBinPlaced, FoundPlaced, JudgePlaced,
   MendingPlaced, CatchUpPlaced, TakeTurnPlaced, LocatePlaced, CheckPlaced, UploadPlaced, AnsweredPlaced,
   MakePlaced, MadePlaced, ListPlaced, BesidePlaced, SetAsidePlaced, RecoverPlaced, FailsPlaced, DriftPlaced
   DEF Step

LEMMA NextPlaced ==
  ASSUME NEW CONSTANT N, Typed(N), \A d \in Calls : Placed(d), Next
  PROVE  \A d \in Calls : Placed(d)'
<1>1. ASSUME NEW c \in Calls, Begin(c) \/ Step(c) \/ DriveFails(c) \/ Unanswered(c) \/ Drift(c)
      PROVE  \A d \in Calls : Placed(d)'
  <2>1. Placed(c)' /\ Alone(c) BY <1>1, StepPlaced
  <2>2. \A d \in Calls \ {c} : Placed(d)' BY <2>1, StaysPlaced DEF Alone
  <2> QED BY <2>1, <2>2
<1> QED BY <1>1, OthersPlaced, RestartPlaced DEF Next, AllDone

-----------------------------------------------------------------------------
(* A session that reads the profile raises its number by one.               *)

\* A step of a call's that does not judge what it read reads no profile.
LEMMA OnlyReadsLoad ==
  ASSUME NEW CONSTANT N, Typed(N), NEW c \in Calls, Placed(c),
         Begin(c) \/ Step(c) \/ DriveFails(c) \/ Unanswered(c) \/ Drift(c)
  PROVE  \/ st'[c].loaded = st[c].loaded
         \/ /\ Judge(c) \/ CatchUp(c)
            /\ ~st[c].loaded /\ st'[c].loaded /\ st'[c].base.rev \in N
            /\ Judge(c) => st'[c].base = st[c].got
<1> USE DEF Typed, CallsTyped, CallStatesOf
<1>1. CASE Begin(c)
  <2>1. PICK op \in ground.ops :
          st' = [st EXCEPT ![c].pc = IF op \in {"write", "restore"} THEN "read" ELSE "turn",
                           ![c].op = op,
                           ![c].put = [kind |-> "reads", rev |-> 1, by |-> c]]
    BY <1>1 DEF Begin
  <2>2. st'[c].loaded = st[c].loaded BY <2>1
  <2> QED BY <2>2
<1>2. CASE \E place : Go(c, place) BY <1>2 DEF Go
<1>3. CASE \E answer : Finish(c, answer) BY <1>3 DEF Finish
<1>4. CASE Recall(c) BY <1>4 DEF Recall, Go
<1>5. CASE Fetch(c) BY <1>5 DEF Fetch, Finish
<1>6. CASE Search(c) BY ZenonT(40), <1>6 DEF Search
<1>7. CASE SearchBin(c) \/ Found(c) \/ Check(c) \/ Answered(c) \/ DriveFails(c) \/ Unanswered(c) \/ Drift(c)
  BY <1>2, <1>3, <1>7 DEF SearchBin, Found, Check, Answered, DriveFails, Unanswered, Drift
<1>8. CASE Judge(c)
  <2>1. ~st[c].loaded /\ st[c].got.rev \in N
    BY <1>8 DEF Placed, Reading, Judge, ContentsOf
  <2>2. CASE Loaded(c, st[c].got) BY <1>8, <2>1, <2>2 DEF Loaded
  <2>3. CASE ~Loaded(c, st[c].got)
    BY <1>2, <1>3, <1>8, <2>3 DEF Judge, JudgeReadable, JudgeRemembered, JudgeFound
  <2> QED BY <2>2, <2>3
<1>9. CASE Mending(c)
  <2>1. \/ \E answer : Finish(c, answer)
        \/ \E content : st' = [st EXCEPT ![c].pc = "judge", ![c].got = content, ![c].known = st[c].early]
    BY <1>9 DEF Mending
  <2>2. ASSUME NEW content, st' = [st EXCEPT ![c].pc = "judge", ![c].got = content, ![c].known = st[c].early]
        PROVE  st'[c].loaded = st[c].loaded
    BY <2>2
  <2> QED BY <1>3, <2>1, <2>2
<1>10. CASE CatchUp(c)
  <2>1. ~st[c].loaded /\ st[c].at \in Files /\ st[c].pc = "catchUp"
    BY <1>10 DEF Placed, Reading, CatchUp, AtAFile
  <2>2. ASSUME NEW content \in Downloads(st[c].at), Exists(st[c].at), Loaded(c, content)
        PROVE  st'[c].loaded /\ st'[c].base.rev \in N
    <3>1. content \in ContentsOf(N) BY <2>1, <2>2, DownloadsTyped
    <3>2. st'[c].loaded /\ st'[c].base = content BY <2>2 DEF Loaded
    <3> QED BY <3>1, <3>2 DEF ContentsOf
  <2>3. CASE \E answer : Finish(c, answer) BY <1>3, <2>3
  <2>4. ~Judge(c) BY <2>1 DEF Judge
  <2> QED BY <1>10, <2>1, <2>2, <2>3, <2>4 DEF CatchUp
<1>11. CASE TakeTurn(c) BY <1>11 DEF TakeTurn
<1>12. CASE Locate(c) BY <1>12 DEF Locate
<1>13. CASE Upload(c) BY <1>3, <1>13 DEF Upload
<1>14. CASE Make(c) BY <1>14 DEF Make
<1>15. CASE Made(c) BY <1>2, <1>3, <1>15 DEF Made
<1>16. CASE List(c) BY <1>16 DEF List
<1>17. CASE Beside(c) BY <1>3, <1>17 DEF Beside
<1>18. CASE ListBin(c) BY <1>18 DEF ListBin
<1>19. CASE SetAside(c) BY <1>3, <1>19 DEF SetAside
<1>20. CASE Recover(c) BY <1>3, <1>20 DEF Recover
<1> QED BY <1>1, <1>4, <1>5, <1>6, <1>7, <1>8, <1>9, <1>10, <1>11, <1>12, <1>13, <1>14, <1>15, <1>16,
           <1>17, <1>18, <1>19, <1>20 DEF Step

\* Every step keeps the types, of numbers that hold what a new reading raises.
LEMMA StepTyped ==
  ASSUME NEW CONSTANT N, {0, 1} \subseteq N, Typed(N), NEW c \in Calls, Placed(c),
         Begin(c) \/ Step(c) \/ DriveFails(c) \/ Unanswered(c) \/ Drift(c),
         st'[c].loaded /\ ~st[c].loaded => MovedOn(st'[c].base.rev) \in N
  PROVE  Typed(N)'
<1>1. CASE Judge(c)
  <2>1. ~st[c].loaded BY <1>1 DEF Judge, Placed, Reading
  <2>2. st'[c].loaded => MovedOn(st[c].got.rev) \in N BY <1>1, <2>1, OnlyReadsLoad DEF Step
  <2> QED BY <1>1, <2>2, JudgeTyped
<1>2. CASE CatchUp(c)
  <2>1. ~st[c].loaded BY <1>2 DEF CatchUp, Placed, Reading
  <2> QED BY <1>2, <2>1, CatchUpTyped
<1> QED
  BY <1>1, <1>2, BeginTyped, RecallTyped, FetchTyped, SearchTyped, SearchBinTyped, FoundTyped,
     MendingTyped, TakeTurnTyped, LocateTyped, CheckTyped, UploadTyped, AnsweredTyped,
     MakeTyped, MadeTyped, ListTyped, BesideTyped, ListBinTyped, SetAsideTyped, RecoverTyped,
     DriveFailsTyped, UnansweredTyped, DriftTyped
     DEF Step

\* What no session's step does.
Others ==
    \/ \E c \in Calls : LandLate(c)
    \/ \E i \in Instances : Lapse(i) \/ Restart(i)
    \/ Parent
    \/ UNCHANGED vars

LEMMA OthersKeepTypes ==
  ASSUME NEW CONSTANT N, {0, 1} \subseteq N, Typed(N), \A c \in Calls : Placed(c), Others
  PROVE  Typed(N)' /\ \A c \in Calls : st'[c].loaded = st[c].loaded
<1>1. CASE \E c \in Calls : LandLate(c) BY <1>1, LandLateTyped DEF LandLate
<1>2. CASE \E i \in Instances : Lapse(i) BY <1>2, LapseTyped DEF Lapse
<1>3. CASE \E i \in Instances : Restart(i)
  <2>1. \A c \in Calls : st[c] \in CallStatesOf(N) BY CallIs DEF Typed
  <2>2. ASSUME NEW c \in Calls PROVE st'[c].loaded = st[c].loaded
    <3>1. st'[c] = st[c] \/ st'[c] = [st[c] EXCEPT !.pc = "done", !.answer = "unknown"]
      BY <1>3 DEF Restart
    <3> QED BY <2>1, <3>1 DEF CallStatesOf
  <2> QED BY <1>3, <2>2, RestartTyped
<1>4. CASE Parent BY <1>4, ParentTyped DEF Parent
<1>5. CASE UNCHANGED vars
  <2>1. ground' = ground /\ FilesTyped(N)' BY <1>5, SameFiles DEF vars, Typed
  <2>2. mem' \in [Instances -> EntriesOf(N)] /\ st' \in [Calls -> CallStatesOf(N)] /\ HoldersTyped'
    BY <1>5, SameMem, SameHolders DEF vars, Typed, CallsTyped
  <2>3. RestTyped' BY <1>5 DEF vars, Typed, RestTyped
  <2> QED BY <1>5, <2>1, <2>2, <2>3, Together DEF vars
<1> QED BY <1>1, <1>2, <1>3, <1>4, <1>5 DEF Others

\* The numbers there may be grow with the sessions that have read the profile.
LEMMA LoadsCount ==
  ASSUME NEW A, NEW B, A \subseteq B, B \subseteq Calls
  PROVE  /\ IsFiniteSet(A) /\ Cardinality(A) \in Nat /\ Cardinality(B) \in Nat
         /\ Cardinality(A) <= Cardinality(B)
         /\ Cardinality(B) <= Cardinality(Calls)
         /\ \A c \in B \ A : Cardinality(A) + 1 <= Cardinality(B)
<1>1. IsFiniteSet(B) /\ IsFiniteSet(A) BY CallsAreFinite, FS_Subset
<1>2. Cardinality(A) \in Nat /\ Cardinality(B) \in Nat /\ Cardinality(Calls) \in Nat
  BY <1>1, CallsAreFinite, FS_CardinalityType
<1>3. Cardinality(A) <= Cardinality(B) BY <1>1, FS_Subset
<1>4. Cardinality(B) <= Cardinality(Calls) BY CallsAreFinite, FS_Subset
<1>5. ASSUME NEW c \in B \ A PROVE Cardinality(A) + 1 <= Cardinality(B)
  <2>1. Cardinality(A \cup {c}) = Cardinality(A) + 1 BY <1>1, FS_AddElement
  <2>2. A \cup {c} \subseteq B OBVIOUS
  <2>3. Cardinality(A \cup {c}) <= Cardinality(B) BY <1>1, <2>2, FS_Subset
  <2> QED BY <2>1, <2>3
<1> QED BY <1>1, <1>2, <1>3, <1>4, <1>5

\* The store's state is typed, with numbers the sessions account for, and each call
\* is placed right.
Stands ==
    /\ \E n \in Nat : n = Cardinality(Loads) /\ Typed(0..(n + 1))
    /\ \A c \in Calls : Placed(c)

LEMMA InitStands == ASSUME Init PROVE Stands
<1>1. Cardinality(Loads) = 0
  <2>1. Loads = {} BY DEF Init, Loads, Idle
  <2> QED BY <2>1, FS_EmptySet
<1>3. RestTyped BY GroundsAreKnown DEF Init, RestTyped
<1>4. Nothing \in ContentsOf({0, 1}) /\ NoEntry \in EntriesOf({0, 1}) BY <1>3, NothingTyped
<1>5. Idle \in CallStatesOf({0, 1})
  <2>1. "idle" \in Places /\ "write" \in AllOps /\ "none" \in Answers BY DEF Places, AllOps, Answers
  <2> QED BY <1>4, <2>1 DEF Idle, CallStatesOf
<1>6. CallsTyped({0, 1}) BY <1>5 DEF Init, CallsTyped
<1>7. MemTyped({0, 1}) /\ HoldersTyped BY <1>4 DEF Init, MemTyped, HoldersTyped
<1>8. FilesTyped({0, 1})
  <2>1. ASSUME NEW kind \in Kinds
        PROVE  FirstPast(kind) \in Seq(ContentsOf({0, 1})) /\ Len(FirstPast(kind)) > 0
    <3>1. First \in ContentsOf({0, 1}) /\ [kind |-> kind, rev |-> 0, by |-> 0] \in ContentsOf({0, 1})
      BY <1>3, GroundIs DEF First, ContentsOf, Kinds
    <3>2. PICK x \in ContentsOf({0, 1}) : x = [kind |-> kind, rev |-> 0, by |-> 0] BY <3>1
    <3>3. /\ <<First>> \in Seq(ContentsOf({0, 1})) /\ Len(<<First>>) = 1
          /\ <<First, x>> \in Seq(ContentsOf({0, 1})) /\ Len(<<First, x>>) = 2
      BY <3>1
    <3>4. FirstPast(kind) = <<First>> \/ FirstPast(kind) = <<First, x>> BY <3>2 DEF FirstPast
    <3>5. CASE FirstPast(kind) = <<First>> BY <3>3, <3>5
    <3>6. CASE FirstPast(kind) = <<First, x>> BY <3>3, <3>6
    <3> QED BY <3>4, <3>5, <3>6
  <2>2. PICK made \in {fs \in SUBSET Files : IsFiniteSet(fs) /\ Cardinality(fs) <= ground.maxAtFirst} :
          /\ \E kind \in [made -> ground.firstKinds], inBin \in [made -> BOOLEAN] :
                file = [f \in Files |->
                          IF f \in made
                          THEN [mark |-> "profile", inBin |-> inBin[f],
                                past |-> FirstPast(kind[f]), hand |-> NoCall]
                          ELSE NeverMade]
          /\ recent \in SetToSeqs(made)
    BY DEF Init
  <2>3. PICK kind \in [made -> ground.firstKinds], inBin \in [made -> BOOLEAN] :
          file = [f \in Files |->
                    IF f \in made
                    THEN [mark |-> "profile", inBin |-> inBin[f],
                          past |-> FirstPast(kind[f]), hand |-> NoCall]
                    ELSE NeverMade]
    BY <2>2
  <2>4. ASSUME NEW f \in Files
        PROVE  file[f] \in FilesOf({0, 1}) /\ (file[f].mark # "none" => Len(file[f].past) > 0)
    <3>1. CASE f \in made
      <4>1. kind[f] \in Kinds BY <1>3, <3>1, GroundsAreKnown DEF RestTyped
      <4>2. FirstPast(kind[f]) \in Seq(ContentsOf({0, 1})) /\ Len(FirstPast(kind[f])) > 0 BY <2>1, <4>1
      <4>3. file[f] = [mark |-> "profile", inBin |-> inBin[f], past |-> FirstPast(kind[f]), hand |-> NoCall]
        BY <2>3, <3>1
      <4>4. inBin[f] \in BOOLEAN BY <3>1
      <4> QED BY <4>2, <4>3, <4>4 DEF FilesOf, Marks
    <3>2. CASE f \notin made
      <4>1. file[f] = NeverMade BY <2>3, <3>2
      <4>2. <<>> \in Seq(ContentsOf({0, 1})) OBVIOUS
      <4> QED BY <4>1, <4>2 DEF FilesOf, NeverMade, Marks
    <3> QED BY <3>1, <3>2
  <2>5. file \in [Files -> FilesOf({0, 1})]
    <3>1. file = [f \in Files |-> file[f]] BY <2>3
    <3> QED BY <2>4, <3>1
  <2>6. recent \in Seq(Files)
    <3>1. Cardinality(made) \in Nat BY FS_CardinalityType
    <3> QED BY <2>2, <3>1 DEF SetToSeqs
  <2> QED BY <2>4, <2>5, <2>6 DEF FilesTyped, Exists
<1>9. \A c \in Calls : Placed(c)
  BY DEF Init, Placed, Idle, FromMemory, InTurn, InSearch, AtAFile, Reading
<1>10. Typed({0, 1}) BY <1>3, <1>6, <1>7, <1>8 DEF Typed
<1>11. Typed(0..(0 + 1)) BY <1>10, Widens
<1>12. \E n \in Nat : n = Cardinality(Loads) /\ Typed(0..(n + 1))
  <2> WITNESS 0 \in Nat
  <2> QED BY <1>1, <1>11
<1> QED BY <1>9, <1>12 DEF Stands

LEMMA NextStands == ASSUME Stands, [Next]_vars PROVE Stands'
<1>1. PICK n \in Nat : n = Cardinality(Loads) /\ Typed(0..(n + 1)) BY DEF Stands
<1> DEFINE N == 0..(n + 1)
<1>2. {0, 1} \subseteq N /\ Typed(N) /\ \A c \in Calls : Placed(c) BY <1>1 DEF Stands
<1> HIDE DEF N
<1>3. \A c \in Calls : Placed(c)'
  <2>1. CASE Next BY <1>2, <2>1, NextPlaced
  <2>2. CASE UNCHANGED vars BY <1>2, <2>2, OthersPlaced
  <2> QED BY <2>1, <2>2
<1>4. CASE Others
  <2>1. Typed(N)' /\ \A c \in Calls : st'[c].loaded = st[c].loaded BY <1>2, <1>4, OthersKeepTypes
  <2>2. Loads' = Loads BY <2>1 DEF Loads
  <2>3. n = Cardinality(Loads)' BY <1>1, <2>2
  <2> QED BY <1>3, <2>1, <2>3 DEF Stands, N
<1>5. ASSUME NEW c \in Calls, Begin(c) \/ Step(c) \/ DriveFails(c) \/ Unanswered(c) \/ Drift(c)
      PROVE  Stands'
  <2>1. \/ st'[c].loaded = st[c].loaded
        \/ ~st[c].loaded /\ st'[c].loaded /\ st'[c].base.rev \in N
    BY <1>2, <1>5, OnlyReadsLoad
  <2>2. \A d \in Calls \ {c} : st'[d] = st[d] BY <1>2, <1>5, StepPlaced DEF Alone
  <2>3. Loads \subseteq Loads' /\ Loads' \subseteq Calls BY <2>1, <2>2 DEF Loads
  <2>4. PICK m \in Nat : m = Cardinality(Loads)' BY <2>3, LoadsCount
  <2>5. n <= m BY <1>1, <2>3, <2>4, LoadsCount
  <2> DEFINE M == 0..(m + 1)
  <2>6. N \subseteq M /\ {0, 1} \subseteq M BY <2>5 DEF N
  <2>7. st'[c].loaded /\ ~st[c].loaded => MovedOn(st'[c].base.rev) \in M
    <3> SUFFICES ASSUME st'[c].loaded, ~st[c].loaded PROVE MovedOn(st'[c].base.rev) \in M OBVIOUS
    <3>1. c \in Loads' \ Loads BY DEF Loads
    <3>2. n + 1 <= m BY <1>1, <2>3, <2>4, <3>1, LoadsCount
    <3>3. st'[c].base.rev \in 0..(n + 1) BY <2>1 DEF N
    <3> QED BY <3>2, <3>3 DEF MovedOn
  <2> HIDE DEF M
  <2>8. Typed(M) BY <1>2, <2>6, Widens
  <2>9. Typed(M)' BY <1>2, <1>5, <2>6, <2>7, <2>8, StepTyped
  <2> QED BY <1>3, <2>4, <2>9 DEF Stands, M
<1> QED BY <1>4, <1>5 DEF Next, AllDone, Others

\* The store's state is of its types whatever happens: no number is ever higher than
\* the sessions that have read the profile can have raised it (profile.go:182-186).
THEOREM TypesHold == Spec => []TypeOK
<1>1. Init => Stands BY InitStands
<1>2. Stands /\ [Next]_vars => Stands' BY NextStands
<1>3. Stands => TypeOK
  <2> SUFFICES ASSUME Stands PROVE TypeOK OBVIOUS
  <2>1. PICK n \in Nat : n = Cardinality(Loads) /\ Typed(0..(n + 1)) BY DEF Stands
  <2>2. 0..(n + 1) \subseteq Numbers
    <3>1. Loads \subseteq Calls BY DEF Loads
    <3>2. n <= Cardinality(Calls) /\ Cardinality(Calls) \in Nat BY <2>1, <3>1, LoadsCount
    <3> QED BY <3>2 DEF Numbers
  <2>3. Typed(Numbers) BY <2>1, <2>2, Widens
  <2>4. Contents = ContentsOf(Numbers) /\ Entries = EntriesOf(Numbers) BY DEF Contents, ContentsOf, Entries, EntriesOf
  <2>5. CallStates = CallStatesOf(Numbers) BY <2>4 DEF CallStates, CallStatesOf
  <2> QED BY <2>3, <2>4, <2>5
          DEF Typed, FilesTyped, FilesOf, MemTyped, CallsTyped, HoldersTyped, RestTyped, TypeOK
<1> QED BY <1>1, <1>2, <1>3, PTL DEF Spec

-----------------------------------------------------------------------------
(* What a step does to the files.                                           *)

\* An upload lands, a new file is made, a file is set aside: the ways in which a
\* session changes the parent's Drive.
Writes(c) ==
    /\ st[c].pc = "upload" \/ c \in adrift
    /\ Exists(st[c].at)
    /\ Put(st[c].at, st[c].put, c)
    /\ landed' = landed \cup {c}
Makes(c) ==
    /\ st[c].pc = "make"
    /\ \E f \in Files : PutNew(f, st[c].put, c)
    /\ landed' = landed \cup {c}
SetsAside(c) ==
    /\ st[c].pc = "aside"
    /\ Exists(Head(st[c].doomed))
    /\ file' = [file EXCEPT ![Head(st[c].doomed)].mark = "aside"]
    /\ UNCHANGED <<recent, landed>>

\* A step of a call's.
Acts(c) == Begin(c) \/ Step(c) \/ DriveFails(c) \/ Unanswered(c) \/ Drift(c)

LEMMA FilesMove ==
  ASSUME NEW c \in Calls, Acts(c) \/ LandLate(c)
  PROVE  UNCHANGED world \/ Writes(c) \/ Makes(c) \/ SetsAside(c)
<1>1. CASE Upload(c) BY <1>1 DEF Upload, Writes
<1>2. CASE Make(c)
  <2>1. \E f \in Files : PutNew(f, st[c].put, c) BY <1>2 DEF Make
  <2> QED BY <1>2, <2>1 DEF Make, Makes
<1>3. CASE SetAside(c)
  <2>1. Exists(Head(st[c].doomed)) \/ file' = file BY <1>3 DEF SetAside
  <2> QED BY <1>3, <2>1 DEF SetAside, SetsAside, world
<1>4. CASE Unanswered(c) BY <1>4 DEF Unanswered, Writes, Makes, SetsAside
<1>5. CASE LandLate(c) BY <1>5 DEF LandLate, Writes
<1>6. CASE Begin(c) \/ DriveFails(c) \/ Drift(c) BY <1>6 DEF Begin, DriveFails, Drift
<1>7. CASE Recall(c) \/ Fetch(c) \/ Search(c) \/ SearchBin(c) \/ Found(c) BY <1>7 DEF Recall, Fetch, Search, SearchBin, Found
<1>8. CASE Judge(c) \/ Mending(c) \/ CatchUp(c) \/ TakeTurn(c) \/ Locate(c) BY <1>8 DEF Judge, Mending, CatchUp, TakeTurn, Locate
<1>9. CASE Check(c) \/ Answered(c) \/ Made(c) \/ List(c) \/ Beside(c) BY <1>9 DEF Check, Answered, Made, List, Beside
<1>10. CASE ListBin(c) \/ Recover(c) BY <1>10 DEF ListBin, Recover
<1> QED BY <1>1, <1>2, <1>3, <1>4, <1>5, <1>6, <1>7, <1>8, <1>9, <1>10 DEF Step, Acts

LEMMA ActsKeepBounds ==
  ASSUME NEW c \in Calls, Acts(c) \/ LandLate(c)
  PROVE  acts' = acts /\ ground' = ground
BY DEF Acts, Step, Begin, DriveFails, Unanswered, Drift, LandLate, Recall, Fetch, Search, SearchBin, Found,
       Judge, Mending, CatchUp, TakeTurn, Locate, Check, Upload, Answered, Make, Made, List, Beside, ListBin,
       SetAside, Recover, bounds

\* What the parent does to a file.
ParentPuts(f) == \E kind \in Kinds, rev \in Int : ParentWrites(f, kind, rev)
ParentMoves(f) ==
    \/ file' = [file EXCEPT ![f].inBin = TRUE]
    \/ /\ file[f].inBin /\ "unbin" \in ground.parentActs
       /\ file' = [file EXCEPT ![f].inBin = FALSE]
    \/ file' = [file EXCEPT ![f].mark = "none"]

LEMMA ParentIs ==
  ASSUME NEW CONSTANT N, N \subseteq Int, Typed(N), Parent
  PROVE  \E f \in Files : ParentPuts(f) \/ ParentMoves(f)
<1>1. Kinds = {"reads", "newer", "damaged", "broken"} BY DEF Kinds
<1>2. \A f \in Files : \A n \in DOMAIN file[f].past : file[f].past[n].rev \in Int
  <2> TAKE f \in Files
  <2>1. file[f].past \in Seq(ContentsOf(N)) BY DEF Typed, FilesTyped, FilesOf
  <2> TAKE n \in DOMAIN file[f].past
  <2>2. file[f].past[n] \in ContentsOf(N) BY <2>1, ElementOfSeq
  <2> QED BY <2>2 DEF ContentsOf
<1> QED BY <1>1, <1>2 DEF Parent, ParentPuts, ParentMoves

-----------------------------------------------------------------------------
(* Where contents are.                                                      *)

\* A content a call wrote is among the states of a file.
ByIn(c, f) == \E n \in DOMAIN file[f].past : file[f].past[n].by = c

\* A step of the store's adds to what a file was, and takes nothing away.
Grows(f) == \A n \in DOMAIN file[f].past : n \in DOMAIN file'[f].past /\ file'[f].past[n] = file[f].past[n]

\* A content put in a file is its latest state, and the rest stay what they are.
LEMMA PutAppends ==
  ASSUME NEW CONSTANT N, FilesTyped(N), NEW f \in Files, NEW content, NEW hand,
         Put(f, content, hand)
  PROVE  /\ \A g \in Files \ {f} : file'[g] = file[g]
         /\ file'[f].mark = file[f].mark /\ file'[f].inBin = file[f].inBin /\ file'[f].hand = hand
         /\ Len(file[f].past) \in Nat
         /\ DOMAIN file[f].past = 1..Len(file[f].past)
         /\ DOMAIN file'[f].past = 1..(Len(file[f].past) + 1)
         /\ \A n \in 1..Len(file[f].past) : file'[f].past[n] = file[f].past[n]
         /\ file'[f].past[Len(file[f].past) + 1] = content
         /\ Now(f)' = content /\ file'[f].past # <<>>
         /\ \A g \in Files : Grows(g)
<1>1. file[f] \in FilesOf(N) BY DEF FilesTyped
<1>2. PICK past \in Seq(ContentsOf(N)) : past = file[f].past BY <1>1 DEF FilesOf
<1>3. file'[f] = [file[f] EXCEPT !.past = Append(past, content), !.hand = hand] BY <1>2 DEF Put, FilesTyped
<1>4. file'[f].past = Append(past, content) BY <1>1, <1>3 DEF FilesOf
<1>5. /\ Len(Append(past, content)) = Len(past) + 1
      /\ DOMAIN Append(past, content) = 1..(Len(past) + 1)
      /\ \A n \in 1..Len(past) : Append(past, content)[n] = past[n]
      /\ Append(past, content)[Len(past) + 1] = content
      /\ Append(past, content) # <<>>
      /\ Len(past) \in Nat /\ DOMAIN past = 1..Len(past)
  BY <1>2
<1>6. Now(f)' = content BY <1>4, <1>5 DEF Now, Last
<1>7. \A g \in Files \ {f} : file'[g] = file[g] BY DEF Put, FilesTyped
<1>8. file'[f].mark = file[f].mark /\ file'[f].inBin = file[f].inBin /\ file'[f].hand = hand
  BY <1>1, <1>3 DEF FilesOf
<1>9. ASSUME NEW g \in Files PROVE Grows(g)
  <2>1. CASE g = f BY SMTT(30), <1>2, <1>4, <1>5, <2>1 DEF Grows
  <2>2. CASE g # f BY <1>7, <2>2 DEF Grows
  <2> QED BY <2>1, <2>2
<1> QED BY <1>2, <1>4, <1>5, <1>6, <1>7, <1>8, <1>9

LEMMA PutNewMakes ==
  ASSUME NEW CONSTANT N, FilesTyped(N), NEW f \in Files, NEW content, NEW hand,
         PutNew(f, content, hand)
  PROVE  /\ \A g \in Files \ {f} : file'[g] = file[g]
         /\ file[f].past = <<>> /\ ~Exists(f)
         /\ file'[f] = [mark |-> "profile", inBin |-> FALSE, past |-> <<content>>, hand |-> hand]
         /\ DOMAIN file'[f].past = {1} /\ file'[f].past[1] = content
         /\ IsProfile(f)'
         /\ \A g \in Files : Grows(g)
<1>1. file'[f] = [mark |-> "profile", inBin |-> FALSE, past |-> <<content>>, hand |-> hand]
  BY DEF PutNew, FilesTyped
<1>2. \A g \in Files \ {f} : file'[g] = file[g] BY DEF PutNew, FilesTyped
<1>3. file[f].past = <<>> BY DEF PutNew, NeverMade
<1>4. \A g \in Files : Grows(g) BY <1>2, <1>3 DEF Grows
<1> QED BY <1>1, <1>2, <1>3, <1>4 DEF PutNew, NeverMade, Exists, IsProfile

-----------------------------------------------------------------------------
(* Where a step takes a call, and what it changes of it.                    *)

\* All of a call but its place and its answer.
Matters == {"op", "at", "got", "known", "early", "base", "from", "put", "loaded", "sound", "todo", "doomed", "wrote"}
OnlyMoves(c) == \A g \in Matters : st'[c][g] = st[c][g]

LEMMA GoesOn ==
  ASSUME NEW CONSTANT N, CallsTyped(N), NEW c \in Calls, NEW place, Go(c, place)
  PROVE  OnlyMoves(c) /\ st'[c].pc = place /\ st'[c].answer = st[c].answer
<1>1. st[c] \in CallStatesOf(N) BY CallIs
<1>2. st'[c] = [st[c] EXCEPT !.pc = place] BY DEF Go, CallsTyped
<1>3. st'[c].pc = place /\ \A g \in Matters \cup {"answer"} : st'[c][g] = st[c][g]
  BY <1>1, <1>2 DEF CallStatesOf, Matters
<1> QED BY <1>3 DEF OnlyMoves

LEMMA Ends ==
  ASSUME NEW CONSTANT N, CallsTyped(N), NEW c \in Calls, NEW answer, Finish(c, answer)
  PROVE  OnlyMoves(c) /\ st'[c].pc = "done" /\ st'[c].answer = answer
<1>1. st[c] \in CallStatesOf(N) BY CallIs
<1>2. st'[c] = [st[c] EXCEPT !.pc = "done", !.answer = answer] BY DEF Finish, CallsTyped
<1>3. st'[c].pc = "done" /\ st'[c].answer = answer /\ \A g \in Matters : st'[c][g] = st[c][g]
  BY <1>1, <1>2 DEF CallStatesOf, Matters
<1> QED BY <1>3 DEF OnlyMoves

LEMMA Goes ==
  ASSUME NEW CONSTANT N, Typed(N), NEW c \in Calls
  PROVE  /\ Begin(c) => st'[c].pc \in {"read", "turn"}
         /\ Recall(c) => st'[c].pc \in {"fetch", "search"}
         /\ Fetch(c) => st'[c].pc \in {"judge", "search", "done"}
         /\ Search(c) => st'[c].pc \in {"found", "bin"}
         /\ SearchBin(c) => st'[c].pc \in {"make", "done"} /\ OnlyMoves(c)
         /\ Found(c) => st'[c].pc \in {"check", "fetch", "done"} /\ OnlyMoves(c)
         /\ Judge(c) => st'[c].pc \in {"catchUp", "turn", "search", "mending", "recover", "done"}
         /\ Mending(c) => st'[c].pc \in {"judge", "done"}
         /\ CatchUp(c) => st'[c].pc \in {"turn", "done"}
         /\ TakeTurn(c) => st'[c].pc \in {"locate", "search", "check", "list"}
         /\ Locate(c) => st'[c].pc \in {"check", "search"}
         /\ Check(c) => st'[c].pc \in {"upload", "done"} /\ OnlyMoves(c)
         /\ Upload(c) => st'[c].pc \in {"answered", "done"}
         /\ Answered(c) => st'[c].pc = "done" /\ OnlyMoves(c)
         /\ Make(c) => st'[c].pc = "made"
         /\ Made(c) => st'[c].pc \in {"aside", "done"} /\ OnlyMoves(c)
         /\ List(c) => st'[c].pc = "beside"
         /\ Beside(c) => st'[c].pc \in {"beside", "done"}
         /\ ListBin(c) => st'[c].pc = "make"
         /\ SetAside(c) => st'[c].pc \in {"aside", "done"}
         /\ Recover(c) => st'[c].pc \in {"turn", "done"}
         /\ DriveFails(c) \/ Unanswered(c) \/ Drift(c) => st'[c].pc = "done" /\ OnlyMoves(c)
<1>0. st \in [Calls -> CallStatesOf(N)] BY DEF Typed, CallsTyped
<1>a. ASSUME NEW place, Go(c, place) PROVE OnlyMoves(c) /\ st'[c].pc = place BY <1>a, GoesOn DEF Typed
<1>b. ASSUME NEW answer, Finish(c, answer) PROVE OnlyMoves(c) /\ st'[c].pc = "done" BY <1>b, Ends DEF Typed
<1>1. ASSUME Begin(c) PROVE st'[c].pc \in {"read", "turn"}
  <2>1. PICK op \in ground.ops :
          st' = [st EXCEPT ![c].pc = IF op \in {"write", "restore"} THEN "read" ELSE "turn",
                           ![c].op = op,
                           ![c].put = [kind |-> "reads", rev |-> 1, by |-> c]]
    BY <1>1 DEF Begin
  <2> QED BY <1>0, <2>1 DEF CallStatesOf
<1>2. Recall(c) => st'[c].pc \in {"fetch", "search"} BY <1>0, <1>a DEF Recall, CallStatesOf
<1>3. Fetch(c) => st'[c].pc \in {"judge", "search", "done"} BY <1>0, <1>b DEF Fetch, CallStatesOf
<1>4. Search(c) => st'[c].pc \in {"found", "bin"}
  <2>1. Search(c) => \/ \E f : st' = [st EXCEPT ![c].pc = "found", ![c].at = f]
                     \/ st' = [st EXCEPT ![c].pc = "bin"]
    BY DEF Search
  <2>2. ASSUME NEW f, st' = [st EXCEPT ![c].pc = "found", ![c].at = f] PROVE st'[c].pc = "found"
    BY <1>0, <2>2 DEF CallStatesOf
  <2>3. ASSUME st' = [st EXCEPT ![c].pc = "bin"] PROVE st'[c].pc = "bin" BY <1>0, <2>3 DEF CallStatesOf
  <2> QED BY <2>1, <2>2, <2>3
<1>5. SearchBin(c) => st'[c].pc \in {"make", "done"} /\ OnlyMoves(c) BY <1>a, <1>b DEF SearchBin
<1>6. Found(c) => st'[c].pc \in {"check", "fetch", "done"} /\ OnlyMoves(c) BY <1>a, <1>b DEF Found
<1>7. \A content : Loaded(c, content) => st'[c].pc = "turn" BY <1>0 DEF Loaded, CallStatesOf
<1>8. Judge(c) => st'[c].pc \in {"catchUp", "turn", "search", "mending", "recover", "done"}
  BY <1>0, <1>a, <1>b, <1>7 DEF Judge, JudgeReadable, JudgeRemembered, JudgeFound, CallStatesOf
<1>9. Mending(c) => st'[c].pc \in {"judge", "done"}
  <2>1. ASSUME NEW content, st' = [st EXCEPT ![c].pc = "judge", ![c].got = content, ![c].known = st[c].early]
        PROVE  st'[c].pc = "judge"
    BY <1>0, <2>1 DEF CallStatesOf
  <2> QED BY <1>b, <2>1 DEF Mending
<1>10. CatchUp(c) => st'[c].pc \in {"turn", "done"} BY <1>b, <1>7 DEF CatchUp
<1>11. TakeTurn(c) => st'[c].pc \in {"locate", "search", "check", "list"}
  <2>1. st[c].op \in AllOps BY CallIs DEF Typed
  <2> QED BY <1>0, <2>1 DEF TakeTurn, CallStatesOf, AllOps
<1>12. Locate(c) => st'[c].pc \in {"check", "search"} BY <1>0 DEF Locate, CallStatesOf
<1>13. Check(c) => st'[c].pc \in {"upload", "done"} /\ OnlyMoves(c) BY <1>a, <1>b DEF Check
<1>14. Upload(c) => st'[c].pc \in {"answered", "done"} BY <1>0, <1>b DEF Upload, CallStatesOf
<1>15. Answered(c) => st'[c].pc = "done" /\ OnlyMoves(c) BY <1>b DEF Answered
<1>16. Make(c) => st'[c].pc = "made" BY <1>0 DEF Make, CallStatesOf
<1>17. Made(c) => st'[c].pc \in {"aside", "done"} /\ OnlyMoves(c) BY <1>a, <1>b DEF Made
<1>18. List(c) => st'[c].pc = "beside" BY <1>0 DEF List, CallStatesOf
<1>19. Beside(c) => st'[c].pc \in {"beside", "done"} BY <1>0, <1>b DEF Beside, CallStatesOf
<1>20. ListBin(c) => st'[c].pc = "make" BY <1>0 DEF ListBin, CallStatesOf
<1>21. SetAside(c) => st'[c].pc \in {"aside", "done"} BY <1>0, <1>b DEF SetAside, CallStatesOf
<1>22. Recover(c) => st'[c].pc \in {"turn", "done"} BY <1>0, <1>b DEF Recover, CallStatesOf
<1>23. DriveFails(c) \/ Unanswered(c) \/ Drift(c) => st'[c].pc = "done" /\ OnlyMoves(c)
  BY <1>b DEF DriveFails, Unanswered, Drift
<1> QED BY <1>1, <1>2, <1>3, <1>4, <1>5, <1>6, <1>8, <1>9, <1>10, <1>11, <1>12, <1>13, <1>14, <1>15,
           <1>16, <1>17, <1>18, <1>19, <1>20, <1>21, <1>22, <1>23

\* The file a call is at is one remembered, one found, or one it makes.
LEMMA AtMoves ==
  ASSUME NEW CONSTANT N, Typed(N), NEW c \in Calls, Acts(c)
  PROVE  \/ st'[c].at = st[c].at
         \/ Recall(c) /\ Known(Home[c]) /\ st'[c].at = mem[Home[c]].file
         \/ Locate(c) /\ Known(Home[c]) /\ st'[c].at = mem[Home[c]].file
         \/ Search(c) /\ st'[c].at \in Files /\ IsProfile(st'[c].at)
         \/ List(c) /\ (st'[c].at = NoFile \/ (st'[c].at \in Files /\ IsProfile(st'[c].at)))
         \/ Make(c) /\ st'[c].at \in Files /\ PutNew(st'[c].at, st[c].put, c)
<1>0. st \in [Calls -> CallStatesOf(N)] BY DEF Typed, CallsTyped
<1>a. OnlyMoves(c) => st'[c].at = st[c].at BY DEF OnlyMoves, Matters
<1>b. ASSUME NEW answer, Finish(c, answer) PROVE st'[c].at = st[c].at BY <1>a, <1>b, Ends DEF Typed
<1>c. ASSUME NEW place, Go(c, place) PROVE st'[c].at = st[c].at BY <1>a, <1>c, GoesOn DEF Typed
<1>d. Marked(FALSE) # <<>> => Head(Marked(FALSE)) \in Files /\ IsProfile(Head(Marked(FALSE)))
  <2> DEFINE found == {f \in Files : file[f].mark = "profile" /\ file[f].inBin = FALSE}
  <2>1. Marked(FALSE) \in Seq(found) BY MarkedTyped DEF Typed, FilesTyped
  <2>2. \A f \in found : f \in Files /\ IsProfile(f) BY DEF IsProfile
  <2> HIDE DEF found
  <2> QED BY <2>1, <2>2, HeadTailProperties
<1>1. CASE Begin(c)
  <2>1. PICK op \in ground.ops :
          st' = [st EXCEPT ![c].pc = IF op \in {"write", "restore"} THEN "read" ELSE "turn",
                           ![c].op = op,
                           ![c].put = [kind |-> "reads", rev |-> 1, by |-> c]]
    BY <1>1 DEF Begin
  <2> QED BY <1>0, <2>1 DEF CallStatesOf
<1>2. CASE Recall(c)
  <2>1. CASE Known(Home[c]) BY <1>0, <1>2, <2>1 DEF Recall, CallStatesOf
  <2>2. CASE ~Known(Home[c]) BY <1>2, <1>c, <2>2 DEF Recall
  <2> QED BY <2>1, <2>2
<1>3. CASE Fetch(c) BY <1>0, <1>3, <1>b DEF Fetch, CallStatesOf
<1>4. CASE Search(c)
  <2>1. CASE Marked(FALSE) # <<>>
    <3>1. st' = [st EXCEPT ![c].pc = "found", ![c].at = Head(Marked(FALSE))] BY <1>4, <2>1 DEF Search
    <3>2. st'[c].at = Head(Marked(FALSE)) BY <1>0, <3>1 DEF CallStatesOf
    <3> QED BY <1>4, <1>d, <2>1, <3>2
  <2>2. CASE Marked(FALSE) = <<>>
    <3>1. st' = [st EXCEPT ![c].pc = "bin"] BY <1>4, <2>2 DEF Search
    <3> QED BY <1>0, <3>1 DEF CallStatesOf
  <2> QED BY <2>1, <2>2
<1>5. CASE \/ SearchBin(c) \/ Found(c) \/ Check(c) \/ Answered(c) \/ Made(c)
           \/ DriveFails(c) \/ Unanswered(c) \/ Drift(c)
  BY <1>5, <1>a, Goes
<1>6. CASE Judge(c)
  BY <1>0, <1>6, <1>b, <1>c DEF Judge, JudgeReadable, JudgeRemembered, JudgeFound, Loaded, CallStatesOf
<1>7. CASE Mending(c)
  <2>1. ASSUME NEW content, st' = [st EXCEPT ![c].pc = "judge", ![c].got = content, ![c].known = st[c].early]
        PROVE  st'[c].at = st[c].at
    BY <1>0, <2>1 DEF CallStatesOf
  <2> QED BY <1>7, <1>b, <2>1 DEF Mending
<1>8. CASE CatchUp(c)
  <2>1. ASSUME NEW content, Loaded(c, content) PROVE st'[c].at = st[c].at
    BY <1>0, <2>1 DEF Loaded, CallStatesOf
  <2> QED BY <1>8, <1>b, <2>1 DEF CatchUp
<1>9. CASE TakeTurn(c) BY <1>0, <1>9 DEF TakeTurn, CallStatesOf
<1>10. CASE Locate(c) BY <1>0, <1>10 DEF Locate, CallStatesOf
<1>11. CASE Upload(c) BY <1>0, <1>11, <1>b DEF Upload, CallStatesOf
<1>12. CASE Make(c)
  <2>1. PICK f \in Files : PutNew(f, st[c].put, c) /\ st' = [st EXCEPT ![c].pc = "made", ![c].at = f]
    BY <1>12 DEF Make
  <2>2. st'[c].at = f BY <1>0, <2>1 DEF CallStatesOf
  <2> QED BY <1>12, <2>1, <2>2
<1>13. CASE List(c)
  <2>1. st'[c].at = IF Marked(FALSE) = <<>> THEN NoFile ELSE Head(Marked(FALSE))
    BY <1>0, <1>13 DEF List, CallStatesOf
  <2> QED BY <1>13, <1>d, <2>1
<1>14. CASE Beside(c) BY <1>0, <1>14, <1>b DEF Beside, CallStatesOf
<1>15. CASE ListBin(c) \/ SetAside(c) BY ZenonT(40), <1>0, <1>15, <1>b DEF ListBin, SetAside, CallStatesOf
<1>16. CASE Recover(c) BY <1>0, <1>16, <1>b DEF Recover, CallStatesOf
<1> QED BY <1>1, <1>2, <1>3, <1>4, <1>5, <1>6, <1>7, <1>8, <1>9, <1>10, <1>11, <1>12, <1>13, <1>14, <1>15,
           <1>16 DEF Acts, Step

\* An instance remembers nothing but files its calls are at.
LEMMA MemMoves ==
  ASSUME NEW CONSTANT N, Typed(N), NEW c \in Calls, Acts(c), NEW i \in Instances
  PROVE  mem'[i].file \in {mem[i].file, NoFile, st[c].at}
<1> DEFINE Kept(m) == m[i].file \in {mem[i].file, NoFile, st[c].at}
<1>0. mem \in [Instances -> EntriesOf(N)] BY DEF Typed, MemTyped
<1>1. \A j, f : Kept(Forgotten(j, f)) BY <1>0 DEF Forgotten, NoEntry
<1>2. \A j, f, rev, mends : Kept(Noted(j, f, rev, mends)) BY <1>0 DEF Noted, EntriesOf
<1>3. \A j : Kept(Remembered(j, st[c].at)) BY <1>0 DEF Remembered, EntriesOf
<1>4. CASE mem' = mem BY <1>4
<1>5. CASE Made(c) BY <1>0, <1>5 DEF Made
<1>6. CASE Mending(c) \/ CatchUp(c) \/ Answered(c)
  <2>1. CASE Mending(c)
    <3>1. \/ mem' = mem \/ (\E j, f : mem' = Forgotten(j, f))
          \/ \E rev : mem' = Noted(Home[c], st[c].early.file, rev, FALSE)
      BY <2>1 DEF Mending
    <3> QED BY ZenonT(40), <1>1, <1>2, <1>4, <3>1
  <2>2. CASE CatchUp(c)
    <3>1. PICK no \in BOOLEAN : no = FALSE OBVIOUS
    <3>2. \/ mem' = mem \/ mem' = Forgotten(Home[c], st[c].at)
          \/ mem' = Noted(Home[c], st[c].at, 0, no)
      BY <2>2, <3>1 DEF CatchUp, LetGo
    <3> HIDE DEF Kept
    <3>3. Kept(Noted(Home[c], st[c].at, 0, no)) /\ Kept(Forgotten(Home[c], st[c].at)) BY <1>1, <1>2
    <3>4. mem' = mem => Kept(mem') BY <1>4 DEF Kept
    <3>5. Kept(mem') BY <3>2, <3>3, <3>4
    <3> QED BY <3>5 DEF Kept
  <2>3. CASE Answered(c)
    <3>1. PICK mends \in BOOLEAN : mends = (st[c].op = "restore") OBVIOUS
    <3>2. \/ mem' = Noted(Home[c], st[c].at, st[c].put.rev, mends)
          \/ mem' = Forgotten(Home[c], st[c].at)
      BY <2>3, <3>1 DEF Answered
    <3> QED BY <1>1, <1>2, <3>2
  <2> QED BY <1>6, <2>1, <2>2, <2>3
<1>7. CASE Found(c) BY <1>3, <1>7 DEF Found
<1>8. CASE Fetch(c) \/ Judge(c) \/ Check(c) \/ Upload(c) \/ Beside(c)
  BY <1>1, <1>4, <1>8
     DEF Fetch, Judge, JudgeReadable, JudgeRemembered, JudgeFound, Check, Upload, Beside
<1>9. CASE SetAside(c) \/ Recover(c) \/ DriveFails(c) \/ Unanswered(c)
  BY <1>1, <1>4, <1>9 DEF SetAside, Recover, DriveFails, Unanswered
<1>10. CASE \/ Begin(c) \/ Recall(c) \/ Search(c) \/ SearchBin(c) \/ TakeTurn(c) \/ Locate(c) \/ Make(c)
            \/ List(c) \/ ListBin(c) \/ Drift(c)
  BY <1>4, <1>10 DEF Begin, Recall, Search, SearchBin, TakeTurn, Locate, Make, List, ListBin, Drift
<1> QED BY <1>5, <1>6, <1>7, <1>8, <1>9, <1>10 DEF Acts, Step

-----------------------------------------------------------------------------
(***************************************************************************)
(* What a session refused left behind.  A content is where its session's   *)
(* upload landed and nowhere else: a recovery puts a content back into the *)
(* very file it was in.                                                    *)
(***************************************************************************)

\* What a recovery is to put back is a state of the file it is at.
RestoresAState(c) ==
    st[c].op = "restore" /\ (st[c].pc \in {"turn", "check", "upload"} \/ c \in adrift)
        => \E n \in DOMAIN file[st[c].at].past : file[st[c].at].past[n] = st[c].put

LEMMA FilesGrow ==
  ASSUME NEW CONSTANT N, N \subseteq Int, Typed(N), \A c \in Calls : Placed(c),
         Next \/ UNCHANGED vars, NEW f \in Files
  PROVE  Grows(f)
<1>1. ASSUME NEW c \in Calls, Acts(c) \/ LandLate(c) PROVE Grows(f)
  <2>1. CASE UNCHANGED world BY <2>1 DEF world, Grows
  <2>2. CASE Writes(c)
    <3>1. st[c].at \in Files BY <2>2 DEF Writes, Placed, AtAFile
    <3> QED BY <2>2, <3>1, PutAppends DEF Writes, Grows, Typed
  <2>3. CASE Makes(c) BY <2>3, PutNewMakes DEF Makes, Grows, Typed
  <2>4. CASE SetsAside(c) BY <2>4 DEF SetsAside, Grows, Typed, FilesTyped, FilesOf
  <2> QED BY <1>1, <2>1, <2>2, <2>3, <2>4, FilesMove
<1>2. CASE Parent
  <2>1. PICK g \in Files : ParentPuts(g) \/ ParentMoves(g) BY <1>2, ParentIs
  <2>2. CASE ParentPuts(g) BY <2>2, PutAppends DEF ParentPuts, ParentWrites, Grows, Typed
  <2>3. CASE ParentMoves(g)
    <3>0. file \in [Files -> FilesOf(N)] BY DEF Typed, FilesTyped
    <3>1. file'[f].past = file[f].past
      <4>1. CASE f = g BY <2>3, <3>0, <4>1 DEF ParentMoves, FilesOf
      <4>2. CASE f # g BY <2>3, <3>0, <4>2 DEF ParentMoves
      <4> QED BY <4>1, <4>2
    <3> QED BY <3>1 DEF Grows
  <2> QED BY <2>1, <2>2, <2>3
<1>3. CASE \E i \in Instances : Lapse(i) \/ Restart(i) BY <1>3 DEF Lapse, Restart, world, Grows
<1>4. CASE UNCHANGED vars BY <1>4 DEF vars, Grows
<1> QED BY <1>1, <1>2, <1>3, <1>4 DEF Next, Acts, AllDone

LEMMA RecoverPicks ==
  ASSUME NEW CONSTANT N, Typed(N), NEW c \in Calls, Placed(c), Recover(c), st'[c].pc = "turn"
  PROVE  st'[c].at = st[c].at /\ \E n \in DOMAIN file[st[c].at].past : file[st[c].at].past[n] = st'[c].put
<1> DEFINE past == file[st[c].at].past
           first == IF Len(past) > Tried + 1 THEN Len(past) - Tried ELSE 1
           reading == {content \in Contents : content.kind = "reads"}
           earlier == Among(SubSeq(past, first, Len(past) - 1), reading)
<1>0. st \in [Calls -> CallStatesOf(N)] /\ st[c].at \in Files
  BY DEF Typed, CallsTyped, Recover, Placed, AtAFile
<1>1. /\ Exists(st[c].at) /\ earlier # <<>>
      /\ st' = [st EXCEPT ![c].pc = "turn", ![c].from = st[c].at, ![c].base = st[c].got, ![c].put = Last(earlier)]
  <2>1. \A answer : ~Finish(c, answer) BY Ends DEF Typed
  <2> QED BY <2>1 DEF Recover
<1>2. past \in Seq(ContentsOf(N)) /\ Len(past) > 0 BY <1>0, <1>1 DEF Typed, FilesTyped, FilesOf
<1>3. first \in 1..Len(past) BY <1>2 DEF Tried
<1>4. \E n \in DOMAIN past : Last(earlier) = past[n]
  <2> HIDE DEF first, reading
  <2>1. Exists(st[c].at) /\ Among(SubSeq(past, first, Len(past) - 1), reading) # <<>> BY <1>1
  <2>2. \E n \in DOMAIN past : Last(Among(SubSeq(past, first, Len(past) - 1), reading)) = past[n]
    BY <1>0, <1>3, <2>1, EarlierTyped DEF Typed
  <2> QED BY <2>2
<1>5. st'[c].at = st[c].at /\ st'[c].put = Last(earlier)
  <2> HIDE DEF earlier
  <2> QED BY <1>0, <1>1 DEF CallStatesOf
<1> QED BY <1>4, <1>5

\* Where a recovery comes to its turn from, and goes from there.
LEMMA RestoreGoes ==
  ASSUME NEW CONSTANT N, Typed(N), NEW c \in Calls, Placed(c), Acts(c),
         st'[c].op = "restore", st'[c].pc \in {"turn", "check", "upload"}
  PROVE  \/ Check(c) \/ TakeTurn(c)
         \/ Recover(c) /\ st'[c].pc = "turn"
<1>0. st \in [Calls -> CallStatesOf(N)] BY DEF Typed, CallsTyped
<1>1. Placed(c)' BY StepPlaced DEF Acts
<1>2. ~st'[c].loaded BY <1>1 DEF Placed
<1>3. ~Found(c) \/ st'[c].pc \notin {"turn", "check", "upload"}
  <2> SUFFICES ASSUME Found(c), st'[c].pc = "check" PROVE FALSE BY Goes
  <2>1. st[c].loaded
    <3>1. \A answer : ~Finish(c, answer) BY Ends DEF Typed
    <3>2. ~Go(c, "fetch") BY GoesOn DEF Typed
    <3> QED BY <3>1, <3>2 DEF Found
  <2> QED BY <1>2, <2>1, Goes DEF OnlyMoves, Matters
<1>4. ~Locate(c)
  <2> SUFFICES ASSUME Locate(c) PROVE FALSE OBVIOUS
  <2>1. st[c].loaded BY DEF Locate, Placed
  <2>2. st'[c].loaded = st[c].loaded BY <1>0 DEF Locate, CallStatesOf
  <2> QED BY <1>2, <2>1, <2>2
<1>5. ~Begin(c) \/ st'[c].pc \notin {"turn", "check", "upload"}
  <2> SUFFICES ASSUME Begin(c) PROVE st'[c].pc = "read" BY Goes
  <2>1. PICK op \in ground.ops :
          st' = [st EXCEPT ![c].pc = IF op \in {"write", "restore"} THEN "read" ELSE "turn",
                           ![c].op = op,
                           ![c].put = [kind |-> "reads", rev |-> 1, by |-> c]]
    BY DEF Begin
  <2>2. st'[c].op = op /\ st'[c].pc = IF op \in {"write", "restore"} THEN "read" ELSE "turn"
    BY <1>0, <2>1 DEF CallStatesOf
  <2> QED BY <2>2
<1>6. ~(Judge(c) \/ CatchUp(c)) \/ st'[c].pc \notin {"turn", "check", "upload"}
  <2> SUFFICES ASSUME Judge(c) \/ CatchUp(c), st'[c].pc = "turn" PROVE FALSE BY Goes
  <2>1. \E content : Loaded(c, content)
    <3>1. \A answer : ~Finish(c, answer) BY Ends DEF Typed
    <3>2. \A place : Go(c, place) => place = "turn" BY GoesOn DEF Typed
    <3>3. ~JudgeRemembered(c) BY <1>0 DEF JudgeRemembered, CallStatesOf
    <3> QED BY <3>1, <3>2, <3>3 DEF Judge, JudgeReadable, JudgeFound, CatchUp
  <2>2. st'[c].loaded BY <1>0, <2>1 DEF Loaded, CallStatesOf
  <2> QED BY <1>2, <2>2
<1> QED BY <1>3, <1>4, <1>5, <1>6, Goes DEF Acts, Step

LEMMA StepRestores ==
  ASSUME NEW CONSTANT N, Typed(N), NEW c \in Calls, Placed(c), RestoresAState(c), Acts(c),
         \A f \in Files : Grows(f)
  PROVE  RestoresAState(c)'
<1> SUFFICES ASSUME st'[c].op = "restore", st'[c].pc \in {"turn", "check", "upload"} \/ c \in adrift'
             PROVE  \E n \in DOMAIN file'[st'[c].at].past : file'[st'[c].at].past[n] = st'[c].put
  BY DEF RestoresAState
<1>0. st \in [Calls -> CallStatesOf(N)] BY DEF Typed, CallsTyped
<1>1. st[c].pc # "done"
  BY DEF Acts, Step, Begin, DriveFails, Unanswered, Drift, Recall, Fetch, Search, SearchBin, Found,
       Judge, Mending, CatchUp, TakeTurn, Locate, Check, Upload, Answered, Make, Made, List, Beside, ListBin,
       SetAside, Recover, Requests
<1>2. c \in adrift' => Drift(c)
  <2>1. c \notin adrift BY <1>1 DEF Placed
  <2> QED BY <2>1 DEF Acts, Step, Begin, DriveFails, Unanswered, Drift, Recall, Fetch, Search, SearchBin, Found,
       Judge, Mending, CatchUp, TakeTurn, Locate, Check, Upload, Answered, Make, Made, List, Beside, ListBin,
       SetAside, Recover
<1>5. \/ Drift(c) \/ Check(c) \/ TakeTurn(c)
      \/ Recover(c) /\ st'[c].pc = "turn"
  BY <1>2, RestoreGoes
<1>6. CASE Drift(c) \/ Check(c) \/ TakeTurn(c)
  <2>1. /\ st'[c].op = st[c].op /\ st'[c].at = st[c].at /\ st'[c].put = st[c].put
        /\ st[c].pc \in {"turn", "check", "upload"}
    <3>1. CASE Drift(c) \/ Check(c) BY <3>1, Goes DEF OnlyMoves, Matters, Drift, Check
    <3>2. CASE TakeTurn(c) BY <1>0, <3>2 DEF TakeTurn, CallStatesOf
    <3> QED BY <1>6, <3>1, <3>2
  <2>2. st[c].at \in Files BY <2>1 DEF Placed, AtAFile
  <2>3. PICK n \in DOMAIN file[st[c].at].past : file[st[c].at].past[n] = st[c].put BY <2>1 DEF RestoresAState
  <2> QED BY <2>1, <2>2, <2>3 DEF Grows
<1>7. CASE Recover(c) /\ st'[c].pc = "turn"
  <2>1. st[c].at \in Files BY <1>7 DEF Placed, AtAFile, Recover
  <2> QED BY <1>7, <2>1, RecoverPicks DEF Grows
<1> QED BY <1>5, <1>6, <1>7

\* Until the parent's hand touches a file, none in the bin is remembered or gone to.
OutOfBin ==
    acts = 0 =>
        /\ \A i \in Instances : mem[i].file \in Files => ~file[mem[i].file].inBin
        /\ \A c \in Calls : st[c].at \in Files => ~file[st[c].at].inBin

\* The parent has not put a file in the bin and taken it out again.
HeldBack == acts <= 1 \/ "unbin" \notin ground.parentActs

\* What a call's write left in Drive, and when.
Landing(c) ==
    /\ c \notin landed => \A f \in Files : ~ByIn(c, f)
    /\ c \in landed => st[c].pc \in {"answered", "made", "aside", "done"}
    /\ c \in landed /\ ((st[c].pc = "answered" /\ ~st[c].sound) \/ st[c].answer = "conflict") =>
          /\ \A f \in Files : ByIn(c, f) => f = st[c].at
          /\ st[c].at \in Files /\ file[st[c].at].past # <<>>
          /\ HeldBack => ~IsProfile(st[c].at)

LEMMA BinStays ==
  ASSUME NEW CONSTANT N, Typed(N), NEW c \in Calls, Placed(c), Acts(c) \/ LandLate(c)
  PROVE  \A f \in Files : file'[f].inBin = file[f].inBin \/ ~file'[f].inBin
<1> SUFFICES ASSUME NEW f \in Files PROVE file'[f].inBin = file[f].inBin \/ ~file'[f].inBin OBVIOUS
<1>1. CASE UNCHANGED world BY <1>1 DEF world
<1>2. CASE Writes(c)
  <2>1. st[c].at \in Files BY <1>2 DEF Writes, Placed, AtAFile
  <2>2. file'[f].inBin = file[f].inBin
    <3>1. CASE f = st[c].at BY <1>2, <2>1, <3>1, PutAppends DEF Writes, Typed
    <3>2. CASE f # st[c].at
      <4>1. file'[f] = file[f] BY <1>2, <2>1, <3>2, PutAppends DEF Writes, Typed
      <4> QED BY <4>1
    <3> QED BY <3>1, <3>2
  <2> QED BY <2>2
<1>3. CASE Makes(c)
  <2>1. PICK g \in Files : PutNew(g, st[c].put, c) BY <1>3 DEF Makes
  <2>2. CASE f = g
    <3>1. file'[f] = [mark |-> "profile", inBin |-> FALSE, past |-> <<st[c].put>>, hand |-> c]
      BY <2>1, <2>2, PutNewMakes DEF Typed
    <3> QED BY <3>1
  <2>3. CASE f # g
    <3>1. file'[f] = file[f] BY <2>1, <2>3, PutNewMakes DEF Typed
    <3> QED BY <3>1
  <2> QED BY <2>2, <2>3
<1>4. CASE SetsAside(c) BY <1>4 DEF SetsAside, Typed, FilesTyped, FilesOf
<1> QED BY <1>1, <1>2, <1>3, <1>4, FilesMove

LEMMA StepKeepsOutOfBin ==
  ASSUME NEW CONSTANT N, Typed(N), NEW c \in Calls, \A d \in Calls : Placed(d), OutOfBin, Acts(c)
  PROVE  OutOfBin'
<1> SUFFICES ASSUME acts' = 0
             PROVE  /\ \A i \in Instances : mem'[i].file \in Files => ~file'[mem'[i].file].inBin
                    /\ \A d \in Calls : st'[d].at \in Files => ~file'[st'[d].at].inBin
  BY DEF OutOfBin
<1>1. acts = 0 BY ActsKeepBounds
<1>2. \A f \in Files : ~file[f].inBin => ~file'[f].inBin BY BinStays
<1>3. NoFile \notin Files BY NoFileIsNone
<1>4. ASSUME NEW i \in Instances, mem'[i].file \in Files PROVE ~file'[mem'[i].file].inBin
  <2>1. mem'[i].file \in {mem[i].file, NoFile, st[c].at} BY MemMoves
  <2> QED BY <1>1, <1>2, <1>3, <1>4, <2>1 DEF OutOfBin
<1>5. ASSUME NEW d \in Calls, st'[d].at \in Files PROVE ~file'[st'[d].at].inBin
  <2>1. CASE d # c
    <3>1. st'[d] = st[d] BY <2>1, StepPlaced DEF Alone, Acts
    <3> QED BY <1>1, <1>2, <1>5, <3>1 DEF OutOfBin
  <2>2. CASE d = c
    <3>1. CASE st'[c].at = st[c].at BY <1>1, <1>2, <1>5, <2>2, <3>1 DEF OutOfBin
    <3>2. CASE st'[c].at = mem[Home[c]].file
      <4>1. Home[c] \in Instances BY GroundIs DEF Typed
      <4> QED BY <1>1, <1>2, <1>5, <2>2, <3>2, <4>1 DEF OutOfBin
    <3>3. CASE st'[c].at \in Files /\ IsProfile(st'[c].at)
      BY <1>2, <2>2, <3>3 DEF IsProfile
    <3>4. CASE st'[c].at \in Files /\ PutNew(st'[c].at, st[c].put, c)
      <4>1. PICK f \in Files : f = st'[c].at /\ PutNew(f, st[c].put, c) BY <3>4
      <4>2. file'[f] = [mark |-> "profile", inBin |-> FALSE, past |-> <<st[c].put>>, hand |-> c]
        BY <4>1, PutNewMakes DEF Typed
      <4> QED BY <2>2, <4>1, <4>2
    <3> QED BY <1>3, <1>5, <2>2, <3>1, <3>2, <3>3, <3>4, AtMoves
  <2> QED BY <2>1, <2>2
<1> QED BY <1>4, <1>5

LEMMA NextKeepsOutOfBin ==
  ASSUME NEW CONSTANT N, Typed(N), \A d \in Calls : Placed(d), OutOfBin, Next \/ UNCHANGED vars
  PROVE  OutOfBin'
<1>1. ASSUME NEW c \in Calls, Acts(c) PROVE OutOfBin' BY <1>1, StepKeepsOutOfBin
<1>2. ASSUME NEW c \in Calls, LandLate(c) PROVE OutOfBin'
  <2>1. mem' = mem /\ st' = st /\ acts' = acts BY <1>2 DEF LandLate, bounds
  <2>2. \A f \in Files : ~file[f].inBin => ~file'[f].inBin BY <1>2, BinStays
  <2> QED BY <2>1, <2>2 DEF OutOfBin
<1>3. CASE Parent
  <2>1. acts' # 0 BY <1>3, GroundIs DEF Parent, Typed, RestTyped
  <2> QED BY <2>1 DEF OutOfBin
<1>4. CASE \E i \in Instances : Lapse(i)
  <2>1. PICK i \in Instances : Lapse(i) BY <1>4
  <2>2. st' = st /\ acts' = acts /\ file' = file BY <2>1 DEF Lapse, world
  <2>3. \A j \in Instances : mem'[j].file \in {mem[j].file, NoFile}
    <3>1. mem \in [Instances -> EntriesOf(N)] BY DEF Typed, MemTyped
    <3> QED BY <2>1, <3>1 DEF Lapse, NoEntry, EntriesOf
  <2> QED BY <2>2, <2>3, NoFileIsNone DEF OutOfBin
<1>5. CASE \E i \in Instances : Restart(i)
  <2>1. PICK i \in Instances : Restart(i) BY <1>5
  <2>2. acts' = acts /\ file' = file BY <2>1 DEF Restart, world
  <2>3. \A j \in Instances : mem'[j].file \in {mem[j].file, NoFile}
    <3>1. mem \in [Instances -> EntriesOf(N)] BY DEF Typed, MemTyped
    <3> QED BY <2>1, <3>1 DEF Restart, NoEntry
  <2>4. ASSUME NEW d \in Calls PROVE st'[d].at = st[d].at
    <3>1. st[d] \in CallStatesOf(N) BY CallIs DEF Typed
    <3>2. st'[d] = st[d] \/ st'[d] = [st[d] EXCEPT !.pc = "done", !.answer = "unknown"]
      BY <2>1 DEF Restart
    <3> QED BY <3>1, <3>2 DEF CallStatesOf
  <2> QED BY <2>2, <2>3, <2>4, NoFileIsNone DEF OutOfBin
<1>6. CASE UNCHANGED vars BY <1>6 DEF vars, OutOfBin
<1> QED BY <1>1, <1>2, <1>3, <1>4, <1>5, <1>6 DEF Next, Acts, AllDone

-----------------------------------------------------------------------------
\* A content of d's comes to a file by d's own write, or is in that file already.
LEMMA ByMoves ==
  ASSUME NEW CONSTANT N, Typed(N), NEW c \in Calls, Placed(c), RestoresAState(c), Acts(c) \/ LandLate(c),
         NEW d \in Calls, NEW f \in Files, ByIn(d, f)'
  PROVE  \/ ByIn(d, f)
         \/ d = c /\ Writes(c) /\ f = st[c].at
         \/ d = c /\ Makes(c)
<1> USE DEF ByIn
<1>1. CASE UNCHANGED world BY <1>1 DEF world
<1>2. CASE Writes(c)
  <2>1. st[c].at \in Files BY <1>2 DEF Writes, Placed, AtAFile
  <2>2. CASE f # st[c].at
    <3>1. file'[f] = file[f] BY <1>2, <2>1, <2>2, PutAppends DEF Writes, Typed
    <3> QED BY <3>1
  <2>3. CASE f = st[c].at
    <3> DEFINE len == Len(file[f].past)
    <3>0. /\ DOMAIN file'[f].past = 1..(len + 1) /\ DOMAIN file[f].past = 1..len /\ len \in Nat
          /\ \A n \in 1..len : file'[f].past[n] = file[f].past[n]
          /\ file'[f].past[len + 1] = st[c].put
      BY <1>2, <2>1, <2>3, PutAppends DEF Writes, Typed
    <3> HIDE DEF len
    <3>1. CASE st[c].put.by = c
      <4>1. PICK n \in DOMAIN file'[f].past : file'[f].past[n].by = d OBVIOUS
      <4>2. CASE d = c BY <1>2, <2>3, <4>2
      <4>3. CASE d # c
        <5>1. n # len + 1 BY <3>0, <3>1, <4>1, <4>3
        <5>2. n \in DOMAIN file[f].past /\ file'[f].past[n] = file[f].past[n] BY <3>0, <4>1, <5>1
        <5> QED BY <4>1, <5>2
      <4> QED BY <4>2, <4>3
    <3>2. CASE st[c].put.by # c
      <4>1. st[c].op = "restore" /\ (st[c].pc = "upload" \/ c \in adrift)
        BY <1>2, <3>2 DEF Writes, Placed, AllOps
      <4>2. PICK m \in DOMAIN file[f].past : file[f].past[m] = st[c].put BY <2>3, <4>1 DEF RestoresAState
      <4>3. PICK n \in DOMAIN file'[f].past : file'[f].past[n].by = d OBVIOUS
      <4>4. CASE n = len + 1
        <5>1. file'[f].past[n] = st[c].put BY <3>0, <4>4
        <5> QED BY <4>2, <4>3, <5>1
      <4>5. CASE n # len + 1
        <5>1. n \in DOMAIN file[f].past /\ file'[f].past[n] = file[f].past[n] BY <3>0, <4>3, <4>5
        <5> QED BY <4>3, <5>1
      <4> QED BY <4>4, <4>5
    <3> QED BY <3>1, <3>2
  <2> QED BY <2>2, <2>3
<1>3. CASE Makes(c)
  <2>1. PICK g \in Files : PutNew(g, st[c].put, c) BY <1>3 DEF Makes
  <2>2. CASE f # g
    <3>1. file'[f] = file[f] BY <2>1, <2>2, PutNewMakes DEF Typed
    <3> QED BY <3>1
  <2>3. CASE f = g
    <3>1. DOMAIN file'[f].past = {1} /\ file'[f].past[1] = st[c].put BY <2>1, <2>3, PutNewMakes DEF Typed
    <3>2. st[c].put.by = c BY <1>3 DEF Makes, Placed
    <3> QED BY <1>3, <3>1, <3>2
  <2> QED BY <2>2, <2>3
<1>4. CASE SetsAside(c)
  <2>1. file'[f].past = file[f].past BY <1>4 DEF SetsAside, Typed, FilesTyped, FilesOf
  <2> QED BY <2>1
<1> QED BY <1>1, <1>2, <1>3, <1>4, FilesMove

\* A file becomes the profile only as a session makes it.
LEMMA ProfileComes ==
  ASSUME NEW CONSTANT N, Typed(N), NEW c \in Calls, Placed(c), Acts(c) \/ LandLate(c),
         NEW f \in Files, file[f].past # <<>>, ~IsProfile(f)
  PROVE  ~IsProfile(f)'
<1>1. CASE UNCHANGED world BY <1>1 DEF world, IsProfile
<1>2. CASE Writes(c)
  <2>1. st[c].at \in Files BY <1>2 DEF Writes, Placed, AtAFile
  <2>2. file'[f].mark = file[f].mark /\ file'[f].inBin = file[f].inBin
    <3>1. CASE f = st[c].at BY <1>2, <2>1, <3>1, PutAppends DEF Writes, Typed
    <3>2. CASE f # st[c].at
      <4>1. file'[f] = file[f] BY <1>2, <2>1, <3>2, PutAppends DEF Writes, Typed
      <4> QED BY <4>1
    <3> QED BY <3>1, <3>2
  <2> QED BY <2>2 DEF IsProfile
<1>3. CASE Makes(c)
  <2>1. PICK g \in Files : PutNew(g, st[c].put, c) BY <1>3 DEF Makes
  <2>2. f # g BY <2>1, PutNewMakes DEF Typed
  <2>3. file'[f] = file[f] BY <2>1, <2>2, PutNewMakes DEF Typed
  <2> QED BY <2>3 DEF IsProfile
<1>4. CASE SetsAside(c) BY <1>4 DEF SetsAside, Typed, FilesTyped, FilesOf, IsProfile
<1> QED BY <1>1, <1>2, <1>3, <1>4, FilesMove

LEMMA LandingStays ==
  ASSUME NEW CONSTANT N, Typed(N), NEW d \in Calls, Landing(d),
         st'[d] = st[d], d \in landed' => d \in landed, d \in landed => d \in landed',
         \A f \in Files : ByIn(d, f)' => ByIn(d, f),
         \A f \in Files : Grows(f),
         HeldBack' => HeldBack,
         \A f \in Files : HeldBack' /\ f = st[d].at /\ file[f].past # <<>> /\ ~IsProfile(f) => ~IsProfile(f)'
  PROVE  Landing(d)'
<1>1. ASSUME NEW f \in Files, file[f].past # <<>> PROVE file'[f].past # <<>>
  <2>1. file[f].past \in Seq(ContentsOf(N)) BY DEF Typed, FilesTyped, FilesOf
  <2>2. 1 \in DOMAIN file[f].past BY <1>1, <2>1
  <2>3. 1 \in DOMAIN file'[f].past BY <2>2 DEF Grows
  <2> QED BY <2>3
<1>2. d \notin landed' => \A f \in Files : ~ByIn(d, f)' BY DEF Landing
<1>3. d \in landed' => st'[d].pc \in {"answered", "made", "aside", "done"} BY DEF Landing
<1>4. ASSUME d \in landed', (st'[d].pc = "answered" /\ ~st'[d].sound) \/ st'[d].answer = "conflict"
      PROVE  /\ \A f \in Files : ByIn(d, f)' => f = st'[d].at
             /\ st'[d].at \in Files /\ file'[st'[d].at].past # <<>>
             /\ HeldBack' => ~IsProfile(st[d].at)'
  <2>1. /\ \A f \in Files : ByIn(d, f) => f = st[d].at
        /\ st[d].at \in Files /\ file[st[d].at].past # <<>>
        /\ HeldBack => ~IsProfile(st[d].at)
    BY <1>4 DEF Landing
  <2> DEFINE g == st[d].at
  <2>2. HeldBack' => ~IsProfile(g)'
    <3>1. PICK h \in Files : h = g BY <2>1
    <3> QED BY <2>1, <3>1
  <2> QED BY <1>1, <2>1, <2>2
<1> QED BY <1>2, <1>3, <1>4 DEF Landing

\* A session whose write has landed is refused by what Drive said of it, and by
\* nothing else.
LEMMA RefusedByDrive ==
  ASSUME NEW CONSTANT N, Typed(N), NEW c \in Calls, Placed(c), Acts(c),
         st[c].pc \in {"answered", "made", "aside"}, st'[c].answer = "conflict"
  PROVE  Answered(c) /\ ~st[c].sound
<1>1. st[c].answer = "none" BY DEF Placed
<1>2. \A answer : Finish(c, answer) => answer = "conflict" BY Ends DEF Typed
<1>3. \A place : ~Go(c, place) BY <1>1, GoesOn DEF Typed
<1>4. CASE Answered(c) BY <1>2, <1>4 DEF Answered
<1>5. ~Made(c) BY <1>2, <1>3 DEF Made
<1>6. ~DriveFails(c) /\ ~Unanswered(c) BY <1>2 DEF DriveFails, Unanswered
<1>7. ~SetAside(c)
  <2>1. SetAside(c) /\ ~Finish(c, "ok") => st'[c].answer = st[c].answer
    BY DEF SetAside, Typed, CallsTyped, CallStatesOf
  <2> QED BY <1>1, <1>2, <2>1
<1> QED
  BY <1>4, <1>5, <1>6, <1>7
     DEF Acts, Step, Begin, Drift, Recall, Fetch, Search, SearchBin, Found, Judge, Mending, CatchUp,
         TakeTurn, Locate, Check, Upload, Make, List, Beside, ListBin, Recover

LEMMA StepLands ==
  ASSUME NEW CONSTANT N, Typed(N), NEW c \in Calls, Placed(c), RestoresAState(c), Landing(c), Acts(c),
         \A f \in Files : Grows(f)
  PROVE  Landing(c)'
<1>0. st \in [Calls -> CallStatesOf(N)] BY DEF Typed, CallsTyped
<1>1. HeldBack' => HeldBack BY ActsKeepBounds DEF HeldBack
<1>2. st[c].pc # "done"
  BY DEF Acts, Step, Begin, DriveFails, Unanswered, Drift, Recall, Fetch, Search, SearchBin, Found,
       Judge, Mending, CatchUp, TakeTurn, Locate, Check, Upload, Answered, Make, Made, List, Beside, ListBin,
       SetAside, Recover, Requests
<1>3. c \notin adrift BY <1>2 DEF Placed
<1>4. CASE Writes(c)
  <2>1. st[c].pc = "upload" /\ st[c].at \in Files BY <1>3, <1>4 DEF Writes, Placed, AtAFile
  <2>2. c \notin landed /\ c \in landed' BY <1>4, <2>1 DEF Writes, Landing
  <2>3. ASSUME NEW f \in Files, ByIn(c, f)' PROVE f = st[c].at
    <3>1. ~Makes(c) BY <2>1 DEF Makes
    <3> QED BY <2>2, <2>3, <3>1, ByMoves DEF Landing
  <2>4. \/ /\ st'[c].pc = "answered" /\ st'[c].at = st[c].at
           /\ st'[c].sound = IsProfile(st[c].at) /\ st'[c].answer = "none"
        \/ st'[c].pc = "done" /\ st'[c].answer = "unknown"
    <3>1. CASE Upload(c)
      <4>1. st' = [st EXCEPT ![c].pc = "answered", ![c].sound = IsProfile(st[c].at)]
        BY <1>4, <3>1 DEF Upload, Writes
      <4>2. st[c].answer = "none" BY <2>1 DEF Placed
      <4> QED BY <1>0, <4>1, <4>2 DEF CallStatesOf
    <3>2. CASE Unanswered(c) BY <3>2, Ends DEF Unanswered, Typed
    <3>3. CASE DriveFails(c) \/ Drift(c)
      <4>1. landed' = landed BY <3>3 DEF DriveFails, Drift, world
      <4> QED BY <2>2, <4>1
    <3> QED BY <2>1, <3>1, <3>2, <3>3
            DEF Acts, Step, Begin, Recall, Fetch, Search, SearchBin, Found, Judge, Mending, CatchUp,
                TakeTurn, Locate, Check, Answered, Make, Made, List, Beside, ListBin, SetAside, Recover
  <2>5. CASE /\ st'[c].pc = "answered" /\ st'[c].at = st[c].at
             /\ st'[c].sound = IsProfile(st[c].at) /\ st'[c].answer = "none"
    <3> DEFINE f == st[c].at
    <3>1. file'[f].past # <<>> /\ file'[f].mark = file[f].mark /\ file'[f].inBin = file[f].inBin
      BY <1>4, <2>1, PutAppends DEF Writes, Typed
    <3>2. ~st'[c].sound => ~IsProfile(st[c].at)' BY <2>5, <3>1 DEF IsProfile
    <3> QED BY <2>1, <2>2, <2>3, <2>5, <3>1, <3>2 DEF Landing
  <2>6. CASE st'[c].pc = "done" /\ st'[c].answer = "unknown" BY <2>2, <2>6 DEF Landing
  <2> QED BY <2>4, <2>5, <2>6
<1>5. CASE Makes(c)
  <2>1. st[c].pc = "make" /\ c \in landed' BY <1>5 DEF Makes
  <2>2. c \notin landed BY <2>1 DEF Landing
  <2>3. \/ st'[c].pc = "made" /\ st'[c].answer = "none"
        \/ st'[c].pc = "done" /\ st'[c].answer = "unknown"
    <3>1. CASE Make(c)
      <4>1. st[c].answer = "none" BY <2>1 DEF Placed
      <4> QED BY <1>0, <3>1, <4>1 DEF Make, CallStatesOf
    <3>2. CASE Unanswered(c) BY <3>2, Ends DEF Unanswered, Typed
    <3>3. CASE DriveFails(c)
      <4>1. landed' = landed BY <3>3 DEF DriveFails, world
      <4> QED BY <2>1, <2>2, <4>1
    <3> QED BY <2>1, <3>1, <3>2, <3>3
            DEF Acts, Step, Begin, Drift, Recall, Fetch, Search, SearchBin, Found, Judge, Mending, CatchUp,
                TakeTurn, Locate, Check, Upload, Answered, Made, List, Beside, ListBin, SetAside, Recover
  <2> QED BY <2>1, <2>3 DEF Landing
<1>6. CASE ~Writes(c) /\ ~Makes(c)
  <2>1. landed' = landed BY <1>6, FilesMove DEF world, SetsAside
  <2>2. ASSUME NEW f \in Files, ByIn(c, f)' PROVE ByIn(c, f) BY <1>6, <2>2, ByMoves
  <2>3. CASE c \notin landed BY <2>1, <2>2, <2>3 DEF Landing
  <2>4. CASE c \in landed
    <3>1. st[c].pc \in {"answered", "made", "aside"} BY <1>2, <2>4 DEF Landing
    <3>2. st'[c].pc \in {"made", "aside", "done"}
      BY <3>1, Goes DEF Acts, Step, Begin, Drift, Recall, Fetch, Search, SearchBin, Found, Judge, Mending,
                        CatchUp, TakeTurn, Locate, Check, Upload, Make, List, Beside, ListBin, Recover
    <3>3. ASSUME st'[c].answer = "conflict"
          PROVE  /\ \A f \in Files : ByIn(c, f)' => f = st'[c].at
                 /\ st'[c].at \in Files /\ file'[st'[c].at].past # <<>>
                 /\ HeldBack' => ~IsProfile(st[c].at)'
      <4>1. Answered(c) /\ ~st[c].sound BY <3>1, <3>3, RefusedByDrive
      <4>2. st'[c].at = st[c].at BY <4>1, Goes DEF OnlyMoves, Matters
      <4>3. file' = file BY <4>1 DEF Answered, world
      <4>4. st[c].pc = "answered" BY <4>1 DEF Answered
      <4>5. /\ \A f \in Files : ByIn(c, f) => f = st[c].at
            /\ st[c].at \in Files /\ file[st[c].at].past # <<>>
            /\ HeldBack => ~IsProfile(st[c].at)
        BY <2>4, <4>1, <4>4 DEF Landing
      <4> QED BY <1>1, <2>2, <4>2, <4>3, <4>5 DEF IsProfile
    <3> QED BY <2>1, <2>4, <3>2, <3>3 DEF Landing
  <2> QED BY <2>3, <2>4
<1> QED BY <1>4, <1>5, <1>6

LEMMA StandsTyped ==
  ASSUME Stands
  PROVE  Typed(Numbers) /\ Numbers \subseteq Nat /\ Numbers \subseteq Int /\ {0, 1} \subseteq Numbers
<1>1. PICK n \in Nat : n = Cardinality(Loads) /\ Typed(0..(n + 1)) BY DEF Stands
<1>2. Loads \subseteq Calls BY DEF Loads
<1>3. n <= Cardinality(Calls) /\ Cardinality(Calls) \in Nat BY <1>1, <1>2, LoadsCount
<1>4. 0..(n + 1) \subseteq Numbers BY <1>3 DEF Numbers
<1>5. Numbers \subseteq Nat /\ {0, 1} \subseteq Numbers BY <1>3 DEF Numbers
<1> QED BY <1>1, <1>4, <1>5, Widens

\* All that the truth of a refusal rests on.
Refusing ==
    /\ Stands
    /\ OutOfBin
    /\ \A c \in Calls : Landing(c) /\ RestoresAState(c)

LEMMA InitRefusing == ASSUME Init PROVE Refusing
<1>1. Stands BY InitStands
<1>2. mem = [i \in Instances |-> NoEntry] /\ st = [c \in Calls |-> Idle] BY DEF Init
<1>3. OutOfBin BY <1>2, NoFileIsNone DEF OutOfBin, NoEntry, Idle
<1>4. ASSUME NEW c \in Calls PROVE Landing(c) /\ RestoresAState(c)
  <2>1. \A f \in Files : \A n \in DOMAIN file[f].past : file[f].past[n].by = 0
    <3>1. PICK made \in SUBSET Files : \E kind \in [made -> ground.firstKinds], inBin \in [made -> BOOLEAN] :
            file = [f \in Files |->
                        IF f \in made
                        THEN [mark |-> "profile", inBin |-> inBin[f],
                              past |-> FirstPast(kind[f]), hand |-> NoCall]
                        ELSE NeverMade]
      BY DEF Init
    <3>2. PICK kind \in [made -> ground.firstKinds], inBin \in [made -> BOOLEAN] :
            file = [f \in Files |->
                        IF f \in made
                        THEN [mark |-> "profile", inBin |-> inBin[f],
                              past |-> FirstPast(kind[f]), hand |-> NoCall]
                        ELSE NeverMade]
      BY <3>1
    <3> TAKE f \in Files
    <3>3. CASE f \in made
      <4>1. file[f].past = FirstPast(kind[f]) BY <3>2, <3>3
      <4> QED BY <4>1 DEF FirstPast, First
    <3>4. CASE f \notin made
      <4>1. file[f].past = <<>> BY <3>2, <3>4 DEF NeverMade
      <4> QED BY <4>1
    <3> QED BY <3>3, <3>4
  <2>2. c # 0 BY CallsAreNoNumbers
  <2>3. \A f \in Files : ~ByIn(c, f) BY <2>1, <2>2 DEF ByIn
  <2>4. c \notin landed /\ c \notin adrift BY DEF Init
  <2> QED BY <1>2, <2>3, <2>4 DEF Landing, RestoresAState, Idle
<1> QED BY <1>1, <1>3, <1>4 DEF Refusing

\* What is to be put back for a call stays there while others act.
LEMMA RestoresStays ==
  ASSUME NEW d \in Calls, Placed(d), RestoresAState(d), st'[d] = st[d], d \in adrift' => d \in adrift,
         \A f \in Files : Grows(f)
  PROVE  RestoresAState(d)'
<1> SUFFICES ASSUME st[d].op = "restore", st[d].pc \in {"turn", "check", "upload"} \/ d \in adrift
             PROVE  \E n \in DOMAIN file'[st[d].at].past : file'[st[d].at].past[n] = st[d].put
  BY DEF RestoresAState
<1>1. st[d].at \in Files BY DEF Placed, AtAFile
<1> QED BY <1>1 DEF RestoresAState, Grows

LEMMA ActsRefusing ==
  ASSUME Refusing, NEW c \in Calls, Acts(c), \A f \in Files : Grows(f)
  PROVE  \A d \in Calls : Landing(d)' /\ RestoresAState(d)'
<1>1. Typed(Numbers) /\ \A d \in Calls : Placed(d) BY StandsTyped DEF Refusing, Stands
<1>2. Landing(c)' /\ RestoresAState(c)' BY <1>1, StepLands, StepRestores DEF Refusing
<1>3. Alone(c) BY <1>1, StepPlaced DEF Acts
<1>4. HeldBack' => HeldBack BY ActsKeepBounds DEF HeldBack
<1>5. landed' \subseteq landed \cup {c} /\ landed \subseteq landed'
  BY FilesMove DEF world, Writes, Makes, SetsAside
<1>6. ASSUME NEW d \in Calls \ {c} PROVE Landing(d)' /\ RestoresAState(d)'
  <2>1. st'[d] = st[d] /\ (d \in adrift' => d \in adrift) BY <1>3 DEF Alone
  <2>2. RestoresAState(d)' BY <1>1, <2>1, RestoresStays DEF Refusing
  <2>3. \A f \in Files : ByIn(d, f)' => ByIn(d, f) BY <1>1, ByMoves DEF Refusing
  <2>4. \A f \in Files : HeldBack' /\ f = st[d].at /\ file[f].past # <<>> /\ ~IsProfile(f) => ~IsProfile(f)'
    BY <1>1, ProfileComes
  <2>5. Landing(d)' BY <1>1, <1>4, <1>5, <2>1, <2>3, <2>4, LandingStays DEF Refusing
  <2> QED BY <2>2, <2>5
<1> QED BY <1>2, <1>6

LEMMA LandLateRefusing ==
  ASSUME Refusing, NEW c \in Calls, LandLate(c), \A f \in Files : Grows(f)
  PROVE  \A d \in Calls : Landing(d)' /\ RestoresAState(d)'
<1>1. Typed(Numbers) /\ \A d \in Calls : Placed(d) BY StandsTyped DEF Refusing, Stands
<1>2. st' = st /\ adrift' \subseteq adrift /\ landed' = landed \cup {c} /\ c \in adrift BY DEF LandLate
<1>3. HeldBack' => HeldBack BY ActsKeepBounds DEF HeldBack
<1>4. ASSUME NEW d \in Calls PROVE RestoresAState(d)'
  BY <1>1, <1>2, RestoresStays DEF Refusing
<1>5. ASSUME NEW d \in Calls \ {c} PROVE Landing(d)'
  <2>1. \A f \in Files : ByIn(d, f)' => ByIn(d, f)
    <3>1. ~Makes(c) BY <1>1, <1>2 DEF Makes, Placed
    <3> QED BY <1>1, <3>1, ByMoves DEF Refusing
  <2>2. \A f \in Files : HeldBack' /\ f = st[d].at /\ file[f].past # <<>> /\ ~IsProfile(f) => ~IsProfile(f)'
    BY <1>1, ProfileComes
  <2> QED BY <1>1, <1>2, <1>3, <2>1, <2>2, LandingStays DEF Refusing
<1>6. Landing(c)'
  <2>1. c \in landed' BY <1>2
  <2>2. st'[c].pc = "done" /\ st'[c].answer = "unknown" BY <1>1, <1>2 DEF Placed
  <2> QED BY <2>1, <2>2 DEF Landing
<1> QED BY <1>4, <1>5, <1>6

LEMMA ParentRefusing ==
  ASSUME Refusing, Parent, \A f \in Files : Grows(f)
  PROVE  \A d \in Calls : Landing(d)' /\ RestoresAState(d)'
<1> SUFFICES ASSUME NEW d \in Calls PROVE Landing(d)' /\ RestoresAState(d)' OBVIOUS
<1>1. Typed(Numbers) /\ \A e \in Calls : Placed(e) BY StandsTyped DEF Refusing, Stands
<1>0. file \in [Files -> FilesOf(Numbers)] BY <1>1 DEF Typed, FilesTyped
<1>2. st' = st /\ adrift' = adrift /\ landed' = landed /\ acts' = acts + 1 /\ acts \in Nat /\ ground' = ground
  BY <1>1, GroundIs DEF Parent, Typed, RestTyped
<1>3. RestoresAState(d)' BY <1>1, <1>2, RestoresStays DEF Refusing
<1>4. HeldBack' => HeldBack BY <1>2 DEF HeldBack
<1>5. PICK g \in Files : ParentPuts(g) \/ ParentMoves(g) BY <1>1, StandsTyped, ParentIs DEF Refusing
<1>6. d # acts + 1 BY <1>2, CallsAreNoNumbers
<1>7. \A f \in Files : ByIn(d, f)' => ByIn(d, f)
  <2> SUFFICES ASSUME NEW f \in Files, ByIn(d, f)' PROVE ByIn(d, f) OBVIOUS
  <2>1. CASE ParentPuts(g)
    <3>1. PICK kind \in Kinds, rev \in Int : ParentWrites(g, kind, rev) BY <2>1 DEF ParentPuts
    <3> DEFINE content == [kind |-> kind, rev |-> rev, by |-> acts + 1]
    <3>2. Put(g, content, NoCall) BY <3>1 DEF ParentWrites
    <3>3. content.by # d BY <1>6
    <3> HIDE DEF content
    <3>4. CASE f # g
      <4>1. file'[f] = file[f] BY <1>1, <3>2, <3>4, PutAppends DEF Typed
      <4> QED BY <4>1 DEF ByIn
    <3>5. CASE f = g
      <4> DEFINE len == Len(file[f].past)
      <4>0. /\ DOMAIN file'[f].past = 1..(len + 1) /\ DOMAIN file[f].past = 1..len /\ len \in Nat
            /\ \A n \in 1..len : file'[f].past[n] = file[f].past[n]
            /\ file'[f].past[len + 1] = content
        BY <1>1, <3>2, <3>5, PutAppends DEF Typed
      <4> HIDE DEF len
      <4>1. PICK n \in DOMAIN file'[f].past : file'[f].past[n].by = d BY DEF ByIn
      <4>2. n # len + 1 BY <3>3, <4>0, <4>1
      <4>3. n \in DOMAIN file[f].past /\ file'[f].past[n] = file[f].past[n] BY <4>0, <4>1, <4>2
      <4> QED BY <4>1, <4>3 DEF ByIn
    <3> QED BY <3>4, <3>5
  <2>2. CASE ParentMoves(g)
    <3>1. file'[f].past = file[f].past
      <4>1. CASE f = g BY <1>0, <2>2, <4>1 DEF ParentMoves, FilesOf
      <4>2. CASE f # g BY <1>0, <2>2, <4>2 DEF ParentMoves
      <4> QED BY <4>1, <4>2
    <3> QED BY <3>1 DEF ByIn
  <2> QED BY <1>5, <2>1, <2>2
<1>8. ASSUME NEW f \in Files, HeldBack', f = st[d].at, file[f].past # <<>>, ~IsProfile(f)
      PROVE  ~IsProfile(f)'
  <2>1. CASE ParentPuts(g)
    <3>1. PICK kind \in Kinds, rev \in Int : ParentWrites(g, kind, rev) BY <2>1 DEF ParentPuts
    <3>2. f # g BY <1>8, <3>1 DEF ParentWrites
    <3>3. file'[f] = file[f] BY <1>1, <3>1, <3>2, PutAppends DEF Typed, ParentWrites
    <3> QED BY <1>8, <3>3 DEF IsProfile
  <2>2. CASE ParentMoves(g)
    <3>1. CASE f # g
      <4>1. file'[f] = file[f] BY <1>0, <2>2, <3>1 DEF ParentMoves
      <4> QED BY <1>8, <4>1 DEF IsProfile
    <3>2. CASE f = g
      <4>1. CASE file' = [file EXCEPT ![g].inBin = TRUE]
        BY <1>0, <3>2, <4>1 DEF IsProfile, FilesOf
      <4>2. CASE file' = [file EXCEPT ![g].mark = "none"]
        BY <1>0, <3>2, <4>2 DEF IsProfile, FilesOf
      <4>3. CASE file[g].inBin /\ "unbin" \in ground.parentActs
        <5>1. acts = 0 BY <1>2, <1>8, <4>3 DEF HeldBack
        <5>2. ~file[f].inBin BY <1>8, <5>1 DEF Refusing, OutOfBin
        <5> QED BY <3>2, <4>3, <5>2
      <4> QED BY <2>2, <4>1, <4>2, <4>3 DEF ParentMoves
    <3> QED BY <3>1, <3>2
  <2> QED BY <1>5, <2>1, <2>2
<1>9. Landing(d)' BY <1>1, <1>2, <1>4, <1>7, <1>8, LandingStays DEF Refusing
<1> QED BY <1>3, <1>9

LEMMA NextRefusing == ASSUME Refusing, [Next]_vars PROVE Refusing'
<1>1. Typed(Numbers) /\ Numbers \subseteq Int /\ \A d \in Calls : Placed(d) BY StandsTyped DEF Refusing, Stands
<1>2. Stands' BY NextStands DEF Refusing
<1>3. OutOfBin' BY <1>1, NextKeepsOutOfBin DEF Refusing
<1>4. \A f \in Files : Grows(f) BY <1>1, FilesGrow
<1>5. ASSUME NEW c \in Calls, Acts(c) \/ LandLate(c) PROVE \A d \in Calls : Landing(d)' /\ RestoresAState(d)'
  BY <1>4, <1>5, ActsRefusing, LandLateRefusing
<1>6. CASE Parent BY <1>2, <1>3, <1>4, <1>6, ParentRefusing DEF Refusing
<1>7. ASSUME NEW i \in Instances, Restart(i) PROVE \A d \in Calls : Landing(d)' /\ RestoresAState(d)'
  <2> SUFFICES ASSUME NEW d \in Calls PROVE Landing(d)' /\ RestoresAState(d)' OBVIOUS
  <2>1. file' = file /\ landed' = landed /\ adrift' = adrift /\ acts' = acts /\ ground' = ground
    BY <1>7 DEF Restart, world
  <2>2. st'[d] = st[d] \/ st'[d] = [st[d] EXCEPT !.pc = "done", !.answer = "unknown"] BY <1>7 DEF Restart
  <2>3. CASE st'[d] = st[d]
    BY <2>1, <2>3 DEF Refusing, Landing, RestoresAState, ByIn, HeldBack, IsProfile
  <2>4. CASE st'[d] = [st[d] EXCEPT !.pc = "done", !.answer = "unknown"]
    <3>1. st[d] \in CallStatesOf(Numbers) BY <1>1, CallIs DEF Typed
    <3>2. /\ st'[d].pc = "done" /\ st'[d].answer = "unknown" /\ st'[d].op = st[d].op
          /\ st'[d].at = st[d].at /\ st'[d].put = st[d].put
      BY <2>4, <3>1 DEF CallStatesOf
    <3>3. Landing(d)' BY <2>1, <3>2 DEF Refusing, Landing, ByIn
    <3>4. RestoresAState(d)' BY <2>1, <3>2 DEF Refusing, RestoresAState
    <3> QED BY <3>3, <3>4
  <2> QED BY <2>2, <2>3, <2>4
<1>8. CASE \E i \in Instances : Lapse(i)
  <2>1. file' = file /\ landed' = landed /\ adrift' = adrift /\ acts' = acts /\ ground' = ground /\ st' = st
    BY <1>8 DEF Lapse, world
  <2>2. \A d \in Calls : Landing(d)' /\ RestoresAState(d)'
    BY <2>1 DEF Refusing, Landing, RestoresAState, ByIn, HeldBack, IsProfile
  <2> QED BY <1>2, <1>3, <2>2 DEF Refusing
<1>9. CASE UNCHANGED vars
  <2>1. file' = file /\ landed' = landed /\ adrift' = adrift /\ acts' = acts /\ ground' = ground /\ st' = st
    BY <1>9 DEF vars
  <2>2. \A d \in Calls : Landing(d)' /\ RestoresAState(d)'
    BY <2>1 DEF Refusing, Landing, RestoresAState, ByIn, HeldBack, IsProfile
  <2> QED BY <1>2, <1>3, <2>2 DEF Refusing
<1>10. \/ \E c \in Calls : Acts(c) \/ LandLate(c)
       \/ Parent \/ \E i \in Instances : Lapse(i) \/ Restart(i)
       \/ UNCHANGED vars
  BY DEF Next, Acts, AllDone
<1> QED BY <1>2, <1>3, <1>5, <1>6, <1>7, <1>8, <1>9, <1>10 DEF Refusing

LEMMA RefusalIsTrue == ASSUME Refusing PROVE RefusedIsNotTheProfile
<1> SUFFICES ASSUME NEW c \in Calls, st[c].answer = "conflict", HeldBack, NEW f \in Files, IsProfile(f), ByIn(c, f)
             PROVE  FALSE
  BY DEF RefusedIsNotTheProfile, HeldBack, ByIn
<1>1. Landing(c) BY DEF Refusing
<1>2. c \in landed BY <1>1 DEF Landing
<1>3. f = st[c].at /\ ~IsProfile(st[c].at) BY <1>1, <1>2 DEF Landing
<1> QED BY <1>3

-----------------------------------------------------------------------------
(***************************************************************************)
(* A refusal as behind.  An instance refuses a read of a file for what it  *)
(* has written there, and lets go of that as it refuses; so what was       *)
(* refused before a call began is nothing the call's reads are held to.    *)
(***************************************************************************)

\* An entry holds the reads of a file to what was written there.
Holds(entry, f) == entry.file = f /\ (entry.written > 0 \/ entry.mended)

LetGoOf ==
    /\ \A i \in Instances : \A f \in Files : <<i, f>> \in behind => ~Holds(mem[i], f)
    /\ \A c \in Calls : \A f \in Files : <<c, f>> \in told =>
          <<Home[c], f>> \in behind /\ ~Holds(st[c].known, f) /\ ~Holds(st[c].early, f)

LEMMA EntriesMove ==
  ASSUME NEW CONSTANT N, N \subseteq Int, MemTyped(N), NEW i \in Instances, NEW f \in Files, NEW j, NEW g
  PROVE  /\ Holds(Forgotten(j, g)[i], f) => Holds(mem[i], f)
         /\ Holds(Remembered(j, g)[i], f) => Holds(mem[i], f)
         /\ \A rev, mends : Holds(Noted(j, g, rev, mends)[i], f) => Holds(mem[i], f) \/ (i = j /\ f = g)
<1>0. mem \in [Instances -> EntriesOf(N)] BY DEF MemTyped
<1>1. ~Holds(NoEntry, f) BY NoFileIsNone DEF Holds, NoEntry
<1>2. Holds(Forgotten(j, g)[i], f) => Holds(mem[i], f)
  <2>1. Forgotten(j, g)[i] \in {mem[i], NoEntry} BY <1>0 DEF Forgotten
  <2> QED BY <1>1, <2>1
<1>3. Holds(Remembered(j, g)[i], f) => Holds(mem[i], f)
  <2>1. Remembered(j, g)[i] \in {mem[i], [mem[i] EXCEPT !.fresh = TRUE],
                                 [file |-> g, fresh |-> TRUE, written |-> 0, mended |-> FALSE]}
    BY <1>0 DEF Remembered
  <2>2. Holds([mem[i] EXCEPT !.fresh = TRUE], f) => Holds(mem[i], f) BY <1>0 DEF Holds, EntriesOf
  <2>3. ~Holds([file |-> g, fresh |-> TRUE, written |-> 0, mended |-> FALSE], f) BY DEF Holds
  <2> QED BY <2>1, <2>2, <2>3
<1>4. ASSUME NEW rev, NEW mends, Holds(Noted(j, g, rev, mends)[i], f)
      PROVE  Holds(mem[i], f) \/ (i = j /\ f = g)
  <2>1. CASE mem[j].file = g /\ i = j
    <3>1. mem[i] \in EntriesOf(N) BY <1>0
    <3>2. Noted(j, g, rev, mends)[i] = [mem[i] EXCEPT !.written = rev, !.mended = mends]
      BY <1>0, <2>1 DEF Noted
    <3>3. Noted(j, g, rev, mends)[i].file = mem[i].file BY <3>1, <3>2 DEF EntriesOf
    <3> QED BY <1>4, <2>1, <3>3 DEF Holds
  <2>2. CASE mem[j].file # g \/ i # j
    <3>1. Noted(j, g, rev, mends)[i] = mem[i] BY <1>0, <2>2 DEF Noted
    <3> QED BY <1>4, <3>1
  <2> QED BY <2>1, <2>2
<1> QED BY <1>2, <1>3, <1>4

\* Letting go: what was noted holds nothing.
LEMMA LetGoHolds ==
  ASSUME NEW CONSTANT N, N \subseteq Int, MemTyped(N), NEW i \in Instances, NEW f
  PROVE  ~Holds(LetGo(i, f)[i], f)
<1>0. mem \in [Instances -> EntriesOf(N)] BY DEF MemTyped
<1>1. PICK no \in BOOLEAN : no = FALSE OBVIOUS
<1>2. LetGo(i, f) = Noted(i, f, 0, no) BY <1>1 DEF LetGo
<1>3. CASE mem[i].file = f
  <2>1. mem[i] \in EntriesOf(N) BY <1>0
  <2>2. Noted(i, f, 0, no)[i] = [mem[i] EXCEPT !.written = 0, !.mended = no] BY <1>0, <1>3 DEF Noted
  <2>3. Noted(i, f, 0, no)[i].written = 0 /\ Noted(i, f, 0, no)[i].mended = no BY <2>1, <2>2 DEF EntriesOf
  <2> QED BY <1>1, <1>2, <2>3 DEF Holds
<1>4. CASE mem[i].file # f
  <2>1. Noted(i, f, 0, no)[i] = mem[i] BY <1>4 DEF Noted
  <2> QED BY <1>2, <1>4, <2>1 DEF Holds
<1> QED BY <1>3, <1>4

LEMMA BehindMoves ==
  ASSUME NEW CONSTANT N, N \subseteq Int, Typed(N), NEW c \in Calls, Placed(c), Acts(c),
         NEW i \in Instances, NEW f \in Files, Holds(mem'[i], f), <<i, f>> \in behind'
  PROVE  Holds(mem[i], f) /\ <<i, f>> \in behind
<1>0. mem \in [Instances -> EntriesOf(N)] /\ Home[c] \in Instances BY GroundIs DEF Typed, MemTyped
<1>1. \A j, g : Holds(Forgotten(j, g)[i], f) => Holds(mem[i], f) BY EntriesMove DEF Typed
<1>2. \A j, g : Holds(Remembered(j, g)[i], f) => Holds(mem[i], f) BY EntriesMove DEF Typed
<1>3. \A j, g, rev, mends : Holds(Noted(j, g, rev, mends)[i], f) => Holds(mem[i], f) \/ (i = j /\ f = g)
  BY EntriesMove DEF Typed
<1>4. \A j, g : HeldAgain(j, g) => ~(i = j /\ f = g) /\ <<i, f>> \in behind BY DEF HeldAgain
<1>5. CASE mem' = mem /\ behind' = behind BY <1>5
<1>6. CASE Made(c)
  <2>1. CASE i = Home[c]
    <3>1. mem'[i].file = st[c].at BY <1>0, <1>6, <2>1 DEF Made
    <3>2. f = st[c].at BY <3>1 DEF Holds
    <3> QED BY <1>4, <1>6, <2>1, <3>2 DEF Made
  <2>2. CASE i # Home[c]
    <3>1. mem'[i] = mem[i] BY <1>6, <2>2 DEF Made
    <3> QED BY <1>4, <1>6, <3>1 DEF Made
  <2> QED BY <2>1, <2>2
<1>7. CASE Mending(c)
  <2>1. CASE mem' = Forgotten(Home[c], st[c].early.file) /\ behind' = behind BY <1>1, <2>1
  <2>2. CASE \E no \in BOOLEAN : /\ mem' = Noted(Home[c], st[c].early.file, st[c].early.written, no)
                                 /\ HeldAgain(Home[c], st[c].early.file)
    <3>1. PICK no \in BOOLEAN : /\ mem' = Noted(Home[c], st[c].early.file, st[c].early.written, no)
                                /\ HeldAgain(Home[c], st[c].early.file)
      BY <2>2
    <3>2. \/ Holds(mem[i], f)
          \/ i = Home[c] /\ f = st[c].early.file
      BY <1>3, <3>1
    <3> QED BY <1>4, <3>1, <3>2
  <2>3. CASE /\ mem' = mem /\ ~WrittenTo(Home[c], st[c].early.file)
             /\ RefusedAsBehind(Home[c], st[c].early.file)
    <3>1. <<i, f>> \in behind \/ (i = Home[c] /\ f = st[c].early.file) BY <2>3 DEF RefusedAsBehind
    <3>2. ~(i = Home[c] /\ f = st[c].early.file) BY <2>3 DEF Holds, WrittenTo
    <3> QED BY <2>3, <3>1, <3>2
  <2>4. PICK no \in BOOLEAN : no = FALSE OBVIOUS
  <2>5. \/ mem' = mem /\ behind' = behind
        \/ mem' = Forgotten(Home[c], st[c].early.file) /\ behind' = behind
        \/ /\ mem' = Noted(Home[c], st[c].early.file, st[c].early.written, no)
           /\ HeldAgain(Home[c], st[c].early.file)
        \/ /\ mem' = mem /\ ~WrittenTo(Home[c], st[c].early.file)
           /\ RefusedAsBehind(Home[c], st[c].early.file)
    BY <1>7, <2>4 DEF Mending, refusals
  <2> QED BY <1>5, <2>1, <2>2, <2>3, <2>5
<1>8. CASE CatchUp(c)
  <2>1. CASE mem' = Forgotten(Home[c], st[c].at) /\ behind' = behind BY <1>1, <2>1
  <2>2. CASE mem' = LetGo(Home[c], st[c].at) /\ RefusedAsBehind(Home[c], st[c].at)
    <3>1. <<i, f>> \in behind \/ (i = Home[c] /\ f = st[c].at) BY <2>2 DEF RefusedAsBehind
    <3>2. ~(i = Home[c] /\ f = st[c].at) BY <2>2, LetGoHolds DEF Typed
    <3>3. PICK no \in BOOLEAN : no = FALSE OBVIOUS
    <3>4. mem' = Noted(Home[c], st[c].at, 0, no) BY <2>2, <3>3 DEF LetGo
    <3> QED BY <1>3, <3>1, <3>2, <3>4
  <2>3. \/ mem' = mem /\ behind' = behind
        \/ mem' = Forgotten(Home[c], st[c].at) /\ behind' = behind
        \/ mem' = LetGo(Home[c], st[c].at) /\ RefusedAsBehind(Home[c], st[c].at)
    BY <1>8 DEF CatchUp, refusals
  <2> QED BY <1>5, <2>1, <2>2, <2>3
<1>9. CASE Answered(c)
  <2>1. PICK mends \in BOOLEAN : mends = (st[c].op = "restore") OBVIOUS
  <2>2. CASE mem' = Noted(Home[c], st[c].at, st[c].put.rev, mends) /\ HeldAgain(Home[c], st[c].at)
    BY <1>3, <1>4, <2>2
  <2>3. CASE mem' = Forgotten(Home[c], st[c].at) /\ behind' = behind BY <1>1, <2>3
  <2>4. \/ mem' = Noted(Home[c], st[c].at, st[c].put.rev, mends) /\ HeldAgain(Home[c], st[c].at)
        \/ mem' = Forgotten(Home[c], st[c].at) /\ behind' = behind
    BY <1>9, <2>1 DEF Answered, refusals
  <2> QED BY <2>2, <2>3, <2>4
<1>10. CASE Found(c) BY <1>2, <1>10 DEF Found, refusals
<1>11. CASE Fetch(c) \/ Judge(c) \/ Check(c) \/ Upload(c) \/ Beside(c)
  BY <1>1, <1>5, <1>11
     DEF Fetch, Judge, JudgeReadable, JudgeRemembered, JudgeFound, Check, Upload, Beside, refusals
<1>12. CASE SetAside(c) \/ Recover(c) \/ DriveFails(c) \/ Unanswered(c)
  BY <1>1, <1>5, <1>12 DEF SetAside, Recover, DriveFails, Unanswered, refusals
<1>13. CASE \/ Begin(c) \/ Recall(c) \/ Search(c) \/ SearchBin(c) \/ TakeTurn(c) \/ Locate(c) \/ Make(c)
            \/ List(c) \/ ListBin(c) \/ Drift(c)
  BY <1>5, <1>13 DEF Begin, Recall, Search, SearchBin, TakeTurn, Locate, Make, List, ListBin, Drift, refusals
<1> QED BY <1>6, <1>7, <1>8, <1>9, <1>10, <1>11, <1>12, <1>13 DEF Acts, Step

LEMMA ToldMoves ==
  ASSUME NEW c \in Calls, Acts(c), NEW d \in Calls, NEW f \in Files, <<d, f>> \in told'
  PROVE  /\ <<d, f>> \in told \/ (Begin(c) /\ d = c /\ <<Home[c], f>> \in behind)
         /\ <<Home[d], f>> \in behind => <<Home[d], f>> \in behind'
<1>1. ASSUME NEW j, NEW g, HeldAgain(j, g)
      PROVE  <<d, f>> \in told /\ (<<Home[d], f>> \in behind => <<Home[d], f>> \in behind')
  BY <1>1 DEF HeldAgain, Served
<1>2. ASSUME NEW j, NEW g, RefusedAsBehind(j, g)
      PROVE  <<d, f>> \in told /\ (<<Home[d], f>> \in behind => <<Home[d], f>> \in behind')
  BY <1>2 DEF RefusedAsBehind
<1>3. CASE Begin(c) BY <1>3 DEF Begin
<1>4. CASE Made(c) BY <1>1, <1>4 DEF Made
<1>5. CASE Mending(c) BY <1>1, <1>2, <1>5 DEF Mending, refusals
<1>6. CASE CatchUp(c) BY <1>2, <1>6 DEF CatchUp, refusals
<1>7. CASE Answered(c) BY <1>1, <1>7 DEF Answered, refusals
<1>8. CASE told' = told /\ behind' = behind BY <1>8
<1> QED BY <1>3, <1>4, <1>5, <1>6, <1>7, <1>8
        DEF Acts, Step, DriveFails, Unanswered, Drift, Recall, Fetch, Search, SearchBin, Found, Judge,
            TakeTurn, Locate, Check, Upload, Make, List, Beside, ListBin, SetAside, Recover, refusals

\* What a call takes to be remembered is what its instance remembers as it
\* looks, or what it took to be remembered before.
LEMMA KnownMoves ==
  ASSUME NEW CONSTANT N, Typed(N), NEW c \in Calls, Acts(c)
  PROVE  /\ \/ st'[c].known \in {st[c].known, NoEntry, st[c].early}
            \/ Recall(c) /\ st'[c].known = mem[Home[c]]
         /\ st'[c].early \in {st[c].early, st[c].known}
<1> DEFINE Taken ==
      /\ \/ st'[c].known \in {st[c].known, NoEntry, st[c].early}
         \/ Recall(c) /\ st'[c].known = mem[Home[c]]
      /\ st'[c].early \in {st[c].early, st[c].known}
<1> SUFFICES Taken OBVIOUS
<1>0. st \in [Calls -> CallStatesOf(N)] BY DEF Typed, CallsTyped
<1>a. OnlyMoves(c) => Taken BY DEF OnlyMoves, Matters
<1>b. ASSUME NEW answer, Finish(c, answer) PROVE Taken BY <1>a, <1>b, Ends DEF Typed
<1>c. ASSUME NEW place, Go(c, place) PROVE Taken BY <1>a, <1>c, GoesOn DEF Typed
<1>d. ASSUME NEW content, Loaded(c, content) PROVE Taken
  <2>1. \A g \in {"known", "early"} : st'[c][g] = st[c][g] BY ZenonT(40), <1>0, <1>d DEF Loaded, CallStatesOf
  <2> QED BY <2>1
<1>1. CASE Begin(c)
  <2>1. PICK op \in ground.ops :
          st' = [st EXCEPT ![c].pc = IF op \in {"write", "restore"} THEN "read" ELSE "turn",
                           ![c].op = op,
                           ![c].put = [kind |-> "reads", rev |-> 1, by |-> c]]
    BY <1>1 DEF Begin
  <2>2. \A g \in {"known", "early"} : st'[c][g] = st[c][g] BY ZenonT(40), <1>0, <2>1 DEF CallStatesOf
  <2> QED BY <2>2
<1>2. CASE Recall(c)
  <2>1. ASSUME st' = [st EXCEPT ![c].pc = "fetch",
                             ![c].at = mem[Home[c]].file,
                             ![c].known = mem[Home[c]],
                             ![c].wrote = mem[Home[c]]]
        PROVE Taken
    <3>1. st'[c].known = mem[Home[c]] /\ st'[c].early = st[c].early BY <1>0, <2>1 DEF CallStatesOf
    <3> QED BY <1>2, <3>1
  <2> HIDE DEF Taken
  <2> QED BY <1>2, <1>c, <2>1 DEF Recall
<1>3. CASE Fetch(c)
  <2>1. ASSUME NEW content, st' = [st EXCEPT ![c].pc = "judge", ![c].got = content] PROVE Taken
    <3>1. \A g \in {"known", "early"} : st'[c][g] = st[c][g] BY <1>0, <2>1 DEF CallStatesOf
    <3> QED BY <3>1
  <2>2. ASSUME st' = [st EXCEPT ![c].pc = "search", ![c].known = NoEntry] PROVE Taken
    <3>1. st'[c].known = NoEntry /\ st'[c].early = st[c].early BY <1>0, <2>2 DEF CallStatesOf
    <3> QED BY <3>1
  <2> HIDE DEF Taken
  <2> QED BY <1>3, <1>b, <2>1, <2>2 DEF Fetch
<1>4. CASE Search(c)
  <2>1. \A g \in {"known", "early"} : st'[c][g] = st[c][g]
    <3>1. Search(c) => \/ \E f : st' = [st EXCEPT ![c].pc = "found", ![c].at = f]
                       \/ st' = [st EXCEPT ![c].pc = "bin"]
      BY DEF Search
    <3>2. ASSUME NEW f, st' = [st EXCEPT ![c].pc = "found", ![c].at = f]
          PROVE  \A g \in {"known", "early"} : st'[c][g] = st[c][g]
      BY <1>0, <3>2 DEF CallStatesOf
    <3>3. ASSUME st' = [st EXCEPT ![c].pc = "bin"] PROVE \A g \in {"known", "early"} : st'[c][g] = st[c][g]
      BY <1>0, <3>3 DEF CallStatesOf
    <3> QED BY <1>4, <3>1, <3>2, <3>3
  <2> QED BY <2>1
<1>5. CASE Judge(c)
  <2>1. JudgeRemembered(c) => Taken
    <3>1. JudgeRemembered(c) => st'[c].known = NoEntry /\ st'[c].early = st[c].known
      BY <1>0 DEF JudgeRemembered, CallStatesOf
    <3> QED BY <3>1
  <2> HIDE DEF Taken
  <2> QED BY <1>5, <1>b, <1>c, <1>d, <2>1 DEF Judge, JudgeReadable, JudgeFound
<1>6. CASE Mending(c)
  <2>1. ASSUME NEW content, st' = [st EXCEPT ![c].pc = "judge", ![c].got = content, ![c].known = st[c].early]
        PROVE  Taken
    <3>1. st'[c].known = st[c].early /\ st'[c].early = st[c].early BY <1>0, <2>1 DEF CallStatesOf
    <3> QED BY <3>1
  <2> HIDE DEF Taken
  <2> QED BY <1>6, <1>b, <2>1 DEF Mending
<1>7. CASE CatchUp(c)
  <2> HIDE DEF Taken
  <2> QED BY <1>7, <1>b, <1>d DEF CatchUp
<1>8. CASE TakeTurn(c) \/ Locate(c) \/ Upload(c) \/ Make(c) \/ List(c)
  <2>1. TakeTurn(c) => \A g \in {"known", "early"} : st'[c][g] = st[c][g] BY <1>0 DEF TakeTurn, CallStatesOf
  <2>2. Locate(c) => \A g \in {"known", "early"} : st'[c][g] = st[c][g] BY <1>0 DEF Locate, CallStatesOf
  <2>3. Upload(c) => Taken
    <3>1. ASSUME NEW so, st' = [st EXCEPT ![c].pc = "answered", ![c].sound = so] PROVE Taken
      <4>1. \A g \in {"known", "early"} : st'[c][g] = st[c][g] BY <1>0, <3>1 DEF CallStatesOf
      <4> QED BY <4>1
    <3> HIDE DEF Taken
    <3> QED BY <1>b, <3>1 DEF Upload
  <2>4. Make(c) => \A g \in {"known", "early"} : st'[c][g] = st[c][g]
    <3>1. ASSUME NEW f, st' = [st EXCEPT ![c].pc = "made", ![c].at = f]
          PROVE  \A g \in {"known", "early"} : st'[c][g] = st[c][g]
      BY <1>0, <3>1 DEF CallStatesOf
    <3> QED BY <3>1 DEF Make
  <2>5. List(c) => \A g \in {"known", "early"} : st'[c][g] = st[c][g]
    <3>1. ASSUME NEW todo, NEW f, st' = [st EXCEPT ![c].pc = "beside", ![c].todo = todo, ![c].at = f]
          PROVE  \A g \in {"known", "early"} : st'[c][g] = st[c][g]
      BY ZenonT(40), <1>0, <3>1 DEF CallStatesOf
    <3>2. List(c) => \E todo, f : st' = [st EXCEPT ![c].pc = "beside", ![c].todo = todo, ![c].at = f]
      BY DEF List
    <3> QED BY <3>1, <3>2
  <2> QED BY <1>8, <2>1, <2>2, <2>3, <2>4, <2>5
<1>9. CASE Beside(c) \/ ListBin(c) \/ SetAside(c) \/ Recover(c)
  <2>1. ASSUME NEW todo, st' = [st EXCEPT ![c].todo = todo]
        PROVE  \A g \in {"known", "early"} : st'[c][g] = st[c][g]
    BY <1>0, <2>1 DEF CallStatesOf
  <2>2. ASSUME NEW todo, NEW doomed, st' = [st EXCEPT ![c].todo = todo, ![c].doomed = doomed]
        PROVE  \A g \in {"known", "early"} : st'[c][g] = st[c][g]
    BY <1>0, <2>2 DEF CallStatesOf
  <2>3. ASSUME NEW doomed, st' = [st EXCEPT ![c].doomed = doomed]
        PROVE  \A g \in {"known", "early"} : st'[c][g] = st[c][g]
    BY <1>0, <2>3 DEF CallStatesOf
  <2>4. Beside(c) => \/ \E answer : Finish(c, answer)
                     \/ \E todo : st' = [st EXCEPT ![c].todo = todo]
                     \/ \E todo, doomed : st' = [st EXCEPT ![c].todo = todo, ![c].doomed = doomed]
    BY DEF Beside
  <2>5. SetAside(c) => \/ \E answer : Finish(c, answer)
                       \/ \E doomed : st' = [st EXCEPT ![c].doomed = doomed]
    BY DEF SetAside
  <2>6. ListBin(c) => \A g \in {"known", "early"} : st'[c][g] = st[c][g]
    <3>1. ASSUME NEW doomed, st' = [st EXCEPT ![c].pc = "make", ![c].doomed = doomed]
          PROVE  \A g \in {"known", "early"} : st'[c][g] = st[c][g]
      BY <1>0, <3>1 DEF CallStatesOf
    <3>2. ListBin(c) => st' = [st EXCEPT ![c].pc = "make", ![c].doomed = st[c].doomed \o Marked(TRUE)]
      BY <1>0 DEF ListBin
    <3> QED BY <3>1, <3>2
  <2>7. ASSUME NEW put, st' = [st EXCEPT ![c].pc = "turn", ![c].from = st[c].at, ![c].base = st[c].got, ![c].put = put]
        PROVE  \A g \in {"known", "early"} : st'[c][g] = st[c][g]
    BY ZenonT(40), <1>0, <2>7 DEF CallStatesOf
  <2>8. Recover(c) =>
          \/ \E answer : Finish(c, answer)
          \/ \E put : st' = [st EXCEPT ![c].pc = "turn", ![c].from = st[c].at, ![c].base = st[c].got, ![c].put = put]
    BY DEF Recover
  <2>9. (\A g \in {"known", "early"} : st'[c][g] = st[c][g]) => Taken OBVIOUS
  <2> HIDE DEF Taken
  <2> QED BY <1>9, <1>b, <2>1, <2>2, <2>3, <2>4, <2>5, <2>6, <2>7, <2>8, <2>9
<1>10. CASE SearchBin(c) \/ Found(c) \/ Check(c) \/ Answered(c) \/ Made(c)
            \/ DriveFails(c) \/ Unanswered(c) \/ Drift(c)
  <2> HIDE DEF Taken
  <2> QED BY <1>10, <1>a, Goes
<1> QED BY <1>1, <1>2, <1>3, <1>4, <1>5, <1>6, <1>7, <1>8, <1>9, <1>10 DEF Acts, Step

LEMMA BehindIsHeld ==
  ASSUME NEW CONSTANT N, N \subseteq Nat, Typed(N), NEW c \in Calls, Placed(c), Acts(c),
         st[c].answer # "behind", st'[c].answer = "behind"
  PROVE  /\ st'[c].at = st[c].at /\ st[c].at \in Files /\ told' = told
         /\ Holds(st[c].known, st[c].at) \/ Holds(st[c].early, st[c].at)
<1>0. st[c] \in CallStatesOf(N) BY CallIs DEF Typed
<1>1. \A answer : Finish(c, answer) => answer = "behind" /\ st'[c].at = st[c].at
  BY Ends DEF Typed, OnlyMoves, Matters
<1>2. \A place : ~Go(c, place) BY GoesOn DEF Typed
<1>3. \A content : ~Loaded(c, content)
  <2> SUFFICES ASSUME NEW content, Loaded(c, content) PROVE st'[c].answer = st[c].answer OBVIOUS
  <2> QED BY DEF Loaded, Typed, CallsTyped, CallStatesOf
<1>4. Mending(c) \/ CatchUp(c)
  <2>1. ~DriveFails(c) /\ ~Unanswered(c) /\ ~Drift(c) BY <1>1 DEF DriveFails, Unanswered, Drift
  <2>2. ~Begin(c)
    <3> SUFFICES ASSUME Begin(c) PROVE st'[c].answer = st[c].answer OBVIOUS
    <3>1. PICK op \in ground.ops :
            st' = [st EXCEPT ![c].pc = IF op \in {"write", "restore"} THEN "read" ELSE "turn",
                             ![c].op = op,
                             ![c].put = [kind |-> "reads", rev |-> 1, by |-> c]]
      BY DEF Begin
    <3> QED BY <3>1 DEF Typed, CallsTyped, CallStatesOf
  <2>3. st'[c].pc = "done" => Mending(c) \/ CatchUp(c) \/ Fetch(c) \/ SearchBin(c) \/ Found(c) \/ Judge(c)
                              \/ Check(c) \/ Upload(c) \/ Answered(c) \/ Made(c) \/ Beside(c)
                              \/ SetAside(c) \/ Recover(c)
    BY <2>1, <2>2, Goes DEF Acts, Step
  <2>4. Placed(c)' BY StepPlaced DEF Acts
  <2>5. st'[c].pc = "done" BY <2>4 DEF Placed
  <2>6. st'[c].pc # st[c].pc
    <3>1. st[c].pc # "done"
      BY DEF Acts, Step, Begin, DriveFails, Unanswered, Drift, Recall, Fetch, Search, SearchBin, Found,
       Judge, Mending, CatchUp, TakeTurn, Locate, Check, Upload, Answered, Make, Made, List, Beside, ListBin,
       SetAside, Recover, Requests
    <3> QED BY <2>5, <3>1
  <2>7. ~Fetch(c)
    <3>1. Fetch(c) => Finish(c, "notFound")
      <4>1. ASSUME NEW content, st' = [st EXCEPT ![c].pc = "judge", ![c].got = content] PROVE FALSE
        BY <2>5, <4>1 DEF Typed, CallsTyped, CallStatesOf
      <4>2. ASSUME st' = [st EXCEPT ![c].pc = "search", ![c].known = NoEntry] PROVE FALSE
        BY <2>5, <4>2 DEF Typed, CallsTyped, CallStatesOf
      <4> QED BY <4>1, <4>2 DEF Fetch
    <3> QED BY <1>1, <3>1
  <2>a. \A answer : answer # "behind" => ~Finish(c, answer) BY <1>1
  <2>8. ~SearchBin(c) /\ ~Found(c) /\ ~Check(c) /\ ~Answered(c) /\ ~Made(c)
    <3>1. /\ ~Finish(c, "ok") /\ ~Finish(c, "conflict") /\ ~Finish(c, "notFound") /\ ~Finish(c, "inBin")
      BY <2>a
    <3>2. Answered(c) => Finish(c, "ok") \/ Finish(c, "conflict") BY Zenon DEF Answered
    <3>3. Made(c) => Finish(c, "ok") \/ Go(c, "aside") BY DEF Made
    <3>4. ~SearchBin(c) /\ ~Found(c) /\ ~Check(c) BY <1>2, <3>1 DEF SearchBin, Found, Check
    <3> QED BY <1>2, <3>1, <3>2, <3>3, <3>4
  <2>9. ~Judge(c)
    <3>1. ~JudgeRemembered(c) BY <2>5 DEF JudgeRemembered, Typed, CallsTyped, CallStatesOf
    <3>2. st[c].got.kind # "behind" BY <1>0 DEF CallStatesOf, ContentsOf, Kinds
    <3> QED BY <1>1, <1>2, <1>3, <3>1, <3>2 DEF Judge, JudgeReadable, JudgeFound
  <2>10. ~Upload(c)
    <3>1. ASSUME NEW so, st' = [st EXCEPT ![c].pc = "answered", ![c].sound = so] PROVE FALSE
      BY <2>5, <3>1 DEF Typed, CallsTyped, CallStatesOf
    <3> QED BY <1>1, <3>1 DEF Upload
  <2>11. ~Beside(c) /\ ~SetAside(c)
    <3>1. ASSUME NEW todo, st' = [st EXCEPT ![c].todo = todo] PROVE st'[c].pc = st[c].pc
      BY <3>1 DEF Typed, CallsTyped, CallStatesOf
    <3>2. ASSUME NEW todo, NEW doomed, st' = [st EXCEPT ![c].todo = todo, ![c].doomed = doomed]
          PROVE  st'[c].pc = st[c].pc
      BY <3>2 DEF Typed, CallsTyped, CallStatesOf
    <3>3. ASSUME NEW doomed, st' = [st EXCEPT ![c].doomed = doomed] PROVE st'[c].pc = st[c].pc
      BY <3>3 DEF Typed, CallsTyped, CallStatesOf
    <3>4. Beside(c) => \/ Finish(c, "conflict")
                       \/ \E todo : st' = [st EXCEPT ![c].todo = todo]
                       \/ \E todo, doomed : st' = [st EXCEPT ![c].todo = todo, ![c].doomed = doomed]
      BY DEF Beside
    <3>5. SetAside(c) => \/ Finish(c, "ok")
                         \/ \E doomed : st' = [st EXCEPT ![c].doomed = doomed]
      BY DEF SetAside
    <3>6. ~Finish(c, "ok") /\ ~Finish(c, "conflict") BY <2>a
    <3>7. ~Beside(c) BY <2>6, <3>1, <3>2, <3>4, <3>6
    <3>8. ~SetAside(c) BY <2>6, <3>3, <3>5, <3>6
    <3> QED BY <3>7, <3>8
  <2>12. ~Recover(c)
    <3>1. ASSUME NEW put, st' = [st EXCEPT ![c].pc = "turn", ![c].from = st[c].at, ![c].base = st[c].got, ![c].put = put]
          PROVE  FALSE
      BY <2>5, <3>1 DEF Typed, CallsTyped, CallStatesOf
    <3>2. ~Finish(c, "notFound") /\ ~Finish(c, "nothingReads") BY <2>a
    <3> QED BY <3>1, <3>2 DEF Recover
  <2> QED BY <2>3, <2>5, <2>7, <2>8, <2>9, <2>10, <2>11, <2>12
<1>5. CASE Mending(c)
  <2>1. st[c].early.file = st[c].at /\ st[c].early.mended /\ st[c].at \in Files
    BY <1>5 DEF Mending, Placed, AtAFile
  <2>2. ASSUME NEW content, st' = [st EXCEPT ![c].pc = "judge", ![c].got = content, ![c].known = st[c].early]
        PROVE  FALSE
    <3>1. st'[c].answer = st[c].answer BY <2>2 DEF Typed, CallsTyped, CallStatesOf
    <3> QED BY <3>1
  <2>3. told' = told /\ st'[c].at = st[c].at
    BY <1>1, <1>5, <2>2 DEF Mending, refusals, RefusedAsBehind
  <2> QED BY <2>1, <2>3 DEF Holds
<1>6. CASE CatchUp(c)
  <2>1. \E content \in Downloads(st[c].at) : IsBehind(c, content) /\ Exists(st[c].at) /\ RefusedAsBehind(Home[c], st[c].at)
    <3>1. ASSUME NEW content, Finish(c, content.kind), content \in Downloads(st[c].at), Exists(st[c].at) PROVE FALSE
      <4>1. st[c].at \in Files BY <1>6 DEF CatchUp, Placed, AtAFile
      <4>2. content \in ContentsOf(N) BY <3>1, <4>1, DownloadsTyped DEF Typed
      <4>3. content.kind # "behind" BY <4>2 DEF ContentsOf, Kinds
      <4> QED BY <1>1, <3>1, <4>3
    <3> QED BY <1>1, <1>3, <1>6, <3>1 DEF CatchUp
  <2>2. PICK content \in Downloads(st[c].at) : IsBehind(c, content) /\ Exists(st[c].at) /\ RefusedAsBehind(Home[c], st[c].at)
    BY <2>1
  <2>3. st[c].at \in Files BY <1>6 DEF CatchUp, Placed, AtAFile
  <2>4. content \in ContentsOf(N) BY <2>2, <2>3, DownloadsTyped DEF Typed
  <2>5. content.rev \in Nat /\ st[c].known.written \in Nat
    BY <1>0, <2>4 DEF ContentsOf, CallStatesOf, EntriesOf
  <2>6. st[c].known.written > 0 BY <2>2, <2>5 DEF IsBehind
  <2>7. st[c].known # NoEntry BY <2>6 DEF NoEntry
  <2>8. st[c].known.file = st[c].at BY <1>6, <2>7 DEF CatchUp, Placed
  <2>9. st'[c].at = st[c].at
    <3>1. \E answer : Finish(c, answer) BY <1>3, <1>6 DEF CatchUp
    <3> QED BY <1>1, <3>1
  <2> QED BY <2>2, <2>3, <2>6, <2>8, <2>9 DEF Holds, RefusedAsBehind
<1> QED BY <1>4, <1>5, <1>6

LEMMA ActsLetGo ==
  ASSUME NEW CONSTANT N, N \subseteq Nat, Typed(N), \A d \in Calls : Placed(d),
         LetGoOf, RefusedAsBehindOnce, NEW c \in Calls, Acts(c)
  PROVE  LetGoOf' /\ RefusedAsBehindOnce'
<1>0. N \subseteq Int OBVIOUS
<1>1. Alone(c) BY StepPlaced DEF Acts
<1>2. \A i \in Instances : \A f \in Files : <<i, f>> \in behind' => ~Holds(mem'[i], f)
  BY <1>0, BehindMoves DEF LetGoOf
<1>3. Home' = Home BY <1>1 DEF Alone, Home
<1>4. ASSUME NEW d \in Calls, NEW f \in Files, <<d, f>> \in told'
      PROVE  <<Home[d], f>> \in behind' /\ ~Holds(st'[d].known, f) /\ ~Holds(st'[d].early, f)
  <2>1. <<d, f>> \in told \/ (Begin(c) /\ d = c /\ <<Home[c], f>> \in behind) BY <1>4, ToldMoves
  <2>2. <<Home[d], f>> \in behind BY <2>1 DEF LetGoOf
  <2>3. <<Home[d], f>> \in behind' BY <1>4, <2>2, ToldMoves
  <2>4. ~Holds(st[d].known, f) /\ ~Holds(st[d].early, f)
    <3>1. CASE <<d, f>> \in told BY <3>1 DEF LetGoOf
    <3>2. CASE Begin(c) /\ d = c
      <4>1. st[c] = Idle BY <3>2 DEF Begin, Placed
      <4> QED BY <3>2, <4>1, NoFileIsNone DEF Idle, NoEntry, Holds
    <3> QED BY <2>1, <3>1, <3>2
  <2>5. CASE d # c
    <3>1. st'[d] = st[d] BY <1>1, <2>5 DEF Alone
    <3> QED BY <2>3, <2>4, <3>1
  <2>6. CASE d = c
    <3>1. ~Holds(NoEntry, f) BY NoFileIsNone DEF NoEntry, Holds
    <3>2. ~Holds(mem[Home[c]], f)
      <4>1. Home[c] \in Instances BY GroundIs DEF Typed
      <4> QED BY <2>2, <2>6, <4>1 DEF LetGoOf
    <3> QED BY <2>3, <2>4, <2>6, <3>1, <3>2, KnownMoves
  <2> QED BY <2>5, <2>6
<1>5. LetGoOf' BY <1>2, <1>3, <1>4 DEF LetGoOf
<1>6. ASSUME NEW d \in Calls, st'[d].answer = "behind" PROVE <<d, st'[d].at>> \notin told'
  <2>1. CASE d # c
    <3>1. st'[d] = st[d] BY <1>1, <2>1 DEF Alone
    <3>2. <<d, st[d].at>> \notin told BY <1>6, <3>1 DEF RefusedAsBehindOnce
    <3>3. told' \subseteq Calls \X Files
      <4>1. Typed(N) => told \subseteq Calls \X Files BY DEF Typed, RestTyped
      <4>2. ASSUME NEW p \in told' PROVE p \in told \/ p \in Calls \X Files
        <5>1. \A j, g : HeldAgain(j, g) => told' \subseteq told BY DEF HeldAgain
        <5>2. \A j, g : RefusedAsBehind(j, g) => told' \subseteq told BY DEF RefusedAsBehind
        <5>3. CASE Begin(c) BY <5>3 DEF Begin
        <5>4. CASE Made(c) BY <5>1, <5>4 DEF Made
        <5>5. CASE Mending(c) BY <5>1, <5>2, <5>5 DEF Mending, refusals
        <5>6. CASE CatchUp(c) BY <5>2, <5>6 DEF CatchUp, refusals
        <5>7. CASE Answered(c) BY <5>1, <5>7 DEF Answered, refusals
        <5>8. CASE told' = told BY <5>8
        <5> QED BY <5>3, <5>4, <5>5, <5>6, <5>7, <5>8
              DEF Acts, Step, DriveFails, Unanswered, Drift, Recall, Fetch, Search, SearchBin, Found, Judge,
                  TakeTurn, Locate, Check, Upload, Make, List, Beside, ListBin, SetAside, Recover, refusals
      <4> QED BY <4>1, <4>2
    <3>4. CASE st[d].at \in Files BY <2>1, <3>1, <3>2, <3>4, ToldMoves
    <3>5. CASE st[d].at \notin Files BY <3>1, <3>3, <3>5
    <3> QED BY <3>4, <3>5
  <2>2. CASE d = c
    <3>1. st[c].answer # "behind"
      <4>1. st[c].pc # "done"
        BY DEF Acts, Step, Begin, DriveFails, Unanswered, Drift, Recall, Fetch, Search, SearchBin, Found,
         Judge, Mending, CatchUp, TakeTurn, Locate, Check, Upload, Answered, Make, Made, List, Beside, ListBin,
         SetAside, Recover, Requests
      <4> QED BY <4>1 DEF Placed
    <3>2. /\ st'[c].at = st[c].at /\ st[c].at \in Files /\ told' = told
          /\ Holds(st[c].known, st[c].at) \/ Holds(st[c].early, st[c].at)
      BY <1>6, <2>2, <3>1, BehindIsHeld
    <3> QED BY <2>2, <3>2 DEF LetGoOf
  <2> QED BY <2>1, <2>2
<1>7. RefusedAsBehindOnce' BY <1>6 DEF RefusedAsBehindOnce
<1> QED BY <1>5, <1>7

LEMMA NextLetGo ==
  ASSUME NEW CONSTANT N, N \subseteq Nat, Typed(N), \A d \in Calls : Placed(d),
         LetGoOf, RefusedAsBehindOnce, [Next]_vars
  PROVE  LetGoOf' /\ RefusedAsBehindOnce'
<1>1. ASSUME NEW c \in Calls, Acts(c) PROVE LetGoOf' /\ RefusedAsBehindOnce' BY <1>1, ActsLetGo
<1>2. CASE (\E c \in Calls : LandLate(c)) \/ Parent \/ UNCHANGED vars
  <2>1. st' = st /\ mem' = mem /\ behind' = behind /\ told' = told /\ ground' = ground
    BY <1>2 DEF LandLate, Parent, vars, bounds, refusals
  <2> QED BY <2>1 DEF LetGoOf, RefusedAsBehindOnce, Home
<1>3. ASSUME NEW i \in Instances, Lapse(i) PROVE LetGoOf' /\ RefusedAsBehindOnce'
  <2>1. st' = st /\ behind' = behind /\ told' = told /\ ground' = ground BY <1>3 DEF Lapse, refusals
  <2>2. ASSUME NEW j \in Instances, NEW f \in Files, Holds(mem'[j], f) PROVE Holds(mem[j], f)
    <3>0. mem \in [Instances -> EntriesOf(N)] BY DEF Typed, MemTyped
    <3>1. PICK no \in BOOLEAN : no = FALSE OBVIOUS
    <3>2. mem' = [mem EXCEPT ![i].fresh = no] \/ mem' = [mem EXCEPT ![i] = NoEntry] BY <1>3, <3>1 DEF Lapse
    <3>3. mem'[j] \in {mem[j], [mem[j] EXCEPT !.fresh = no], NoEntry} BY <3>0, <3>2
    <3>4. ~Holds(NoEntry, f) BY NoFileIsNone DEF NoEntry, Holds
    <3>5. mem[j] \in EntriesOf(N) BY <3>0
    <3>6. \A g \in {"file", "written", "mended"} : [mem[j] EXCEPT !.fresh = no][g] = mem[j][g]
      BY <3>5 DEF EntriesOf
    <3>7. Holds([mem[j] EXCEPT !.fresh = no], f) => Holds(mem[j], f) BY <3>6 DEF Holds
    <3> QED BY <2>2, <3>3, <3>4, <3>7
  <2> QED BY <2>1, <2>2 DEF LetGoOf, RefusedAsBehindOnce, Home
<1>4. ASSUME NEW i \in Instances, Restart(i) PROVE LetGoOf' /\ RefusedAsBehindOnce'
  <2>0. mem \in [Instances -> EntriesOf(N)] BY DEF Typed, MemTyped
  <2>1. /\ mem' = [mem EXCEPT ![i] = NoEntry]
        /\ behind' = behind \ ({i} \X Files) /\ told' = told \ (Served(i) \X Files) /\ Home' = Home
    BY <1>4 DEF Restart, Home
  <2>2. ASSUME NEW j \in Instances, NEW f \in Files, <<j, f>> \in behind' PROVE ~Holds(mem'[j], f)
    <3>1. j # i /\ <<j, f>> \in behind BY <2>1, <2>2
    <3>2. mem'[j] = mem[j] BY <2>0, <2>1, <3>1
    <3> QED BY <3>1, <3>2 DEF LetGoOf
  <2>3. ASSUME NEW d \in Calls
        PROVE  /\ \A g \in {"known", "early", "at"} : st'[d][g] = st[d][g]
               /\ st'[d].answer = "behind" => st[d].answer = "behind"
    <3>1. st[d] \in CallStatesOf(N) BY CallIs DEF Typed
    <3>2. st'[d] = st[d] \/ st'[d] = [st[d] EXCEPT !.pc = "done", !.answer = "unknown"] BY <1>4 DEF Restart
    <3> QED BY <3>1, <3>2 DEF CallStatesOf
  <2>4. ASSUME NEW d \in Calls, NEW f \in Files, <<d, f>> \in told'
        PROVE  <<Home[d], f>> \in behind' /\ ~Holds(st'[d].known, f) /\ ~Holds(st'[d].early, f)
    <3>1. Home[d] # i /\ <<d, f>> \in told BY <2>1, <2>4 DEF Served
    <3>2. <<Home[d], f>> \in behind' BY <2>1, <3>1 DEF LetGoOf
    <3> QED BY <2>3, <3>1, <3>2 DEF LetGoOf
  <2>5. LetGoOf' BY <2>1, <2>2, <2>4 DEF LetGoOf
  <2>6. RefusedAsBehindOnce'
    <3> SUFFICES ASSUME NEW d \in Calls, st'[d].answer = "behind" PROVE <<d, st'[d].at>> \notin told'
      BY DEF RefusedAsBehindOnce
    <3>1. <<d, st'[d].at>> \notin told BY <2>3 DEF RefusedAsBehindOnce
    <3> QED BY <2>1, <3>1
  <2> QED BY <2>5, <2>6
<1> QED BY <1>1, <1>2, <1>3, <1>4 DEF Next, Acts, AllDone

\* What a refusal says of a session is true, whatever the sessions, the instances and
\* the parent do: a session refused left nothing of its own in the profile, and a file
\* refused as behind once is read as it is from then on (store.go:32-35, read.go:186-188).
THEOREM RefusalsTrue == Spec => []RefusalsAreTrue
<1> DEFINE Inv == Refusing /\ LetGoOf /\ RefusedAsBehindOnce
<1>1. Init => Inv
  <2> SUFFICES ASSUME Init PROVE Inv OBVIOUS
  <2>1. behind = {} /\ told = {} BY DEF Init
  <2> QED BY <2>1, InitRefusing DEF LetGoOf, RefusedAsBehindOnce
<1>2. Inv /\ [Next]_vars => Inv'
  <2> SUFFICES ASSUME Inv, [Next]_vars PROVE Inv' OBVIOUS
  <2>1. Typed(Numbers) /\ Numbers \subseteq Nat /\ \A d \in Calls : Placed(d)
    BY StandsTyped DEF Refusing, Stands
  <2> QED BY <2>1, NextRefusing, NextLetGo
<1>3. Inv => RefusalsAreTrue BY RefusalIsTrue DEF RefusalsAreTrue
<1> QED BY <1>1, <1>2, <1>3, PTL DEF Spec
=============================================================================
