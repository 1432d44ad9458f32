---------------------------- MODULE WaitsProofs ----------------------------
(***************************************************************************)
(* Proofs about what waits on one instance: that the writes of one account *)
(* go one at a time and the table of turns is exact (Turns), for any       *)
(* number of accounts, calls and turn objects; and that news reaches every *)
(* question and holds nobody up (News), for any number of questions,       *)
(* instances and writes.                                                   *)
(***************************************************************************)
EXTENDS Turns, News, FiniteSetTheorems, SequenceTheorems, TLAPS

(***************************************************************************)
(* The turns of the writes (Turns)                                         *)
(***************************************************************************)

\* A call goes by a turn object exactly while it is in its turn.
MineWhileInside ==
    \A c \in Calls : pc[c] \in Inside <=> mine[c] # NoTurn

\* Every call in a turn goes by the turn the table has for its account.
InsideIsHeld ==
    \A c \in Calls : pc[c] \in Inside => held[account[c]] = mine[c]

\* No turn object serves two accounts.
HeldApart ==
    \A a, b \in Accounts : held[a] = held[b] /\ held[a] # NoTurn => a = b

\* The place of a turn is with the call that holds it.
PlaceIsHolders ==
    \A c \in Calls : pc[c] = "holding" => taken[mine[c]] = c

\* The count of a turn in the table is the number of calls in it, and is not
\* none: what makes dropping the turn at zero right.
CountIsExact ==
    \A a \in Accounts : held[a] # NoTurn =>
        /\ waiting[held[a]] = Cardinality(In(held[a]))
        /\ In(held[a]) # {}

IInv ==
    /\ TypeOK
    /\ MineWhileInside
    /\ InsideIsHeld
    /\ HeldApart
    /\ PlaceIsHolders
    /\ CountIsExact

-----------------------------------------------------------------------------

\* The calls in a turn are finitely many.
LEMMA InFinite == \A t : IsFiniteSet(In(t))
  BY CallsFinite, FS_Subset DEF In

\* Initially nobody is in a turn.
LEMMA InitIInv == Init => IInv
  BY NoTurnIsNone DEF Init, IInv, TypeOK, MineWhileInside, InsideIsHeld,
     HeldApart, PlaceIsHolders, CountIsExact, Inside

\* A call that is counted into a turn keeps the invariant.
LEMMA ArriveIInv ==
  ASSUME IInv, NEW c \in Calls, Arrive(c)
  PROVE  IInv'
  <1>1. PICK a \in Accounts : /\ account' = [account EXCEPT ![c] = a]
                              /\ Join(c, a) \/ Open(c, a)
    BY DEF Arrive
  <1>2. CASE Join(c, a)
    <2>1. TypeOK'
      BY <1>1, <1>2 DEF IInv, TypeOK, Arrive, Join, Inside
    <2>2. In(held[a])' = In(held[a]) \cup {c} /\ c \notin In(held[a])
      BY <1>1, <1>2 DEF IInv, TypeOK, Arrive, Join, Inside, In
    <2>3. \A t : t # held[a] => In(t)' = In(t)
      BY <1>1, <1>2 DEF IInv, TypeOK, Arrive, Join, Inside, In, MineWhileInside
    <2>4. Cardinality(In(held[a])') = Cardinality(In(held[a])) + 1
      BY <2>2, InFinite, FS_AddElement
    <2>5. CountIsExact'
      <3> SUFFICES ASSUME NEW b \in Accounts, held'[b] # NoTurn
                   PROVE  /\ waiting'[held'[b]] = Cardinality(In(held[b])')
                          /\ In(held[b])' # {}
                          /\ held'[b] = held[b]
        BY <1>2 DEF CountIsExact, Join
      <3>1. held' = held
        BY <1>2 DEF Join
      <3>2. CASE held[b] = held[a]
        BY <1>2, <2>2, <2>4, <3>1, <3>2 DEF IInv, TypeOK, CountIsExact, Join
      <3>3. CASE held[b] # held[a]
        BY <1>2, <2>3, <3>1, <3>3 DEF IInv, TypeOK, CountIsExact, Join
      <3> QED BY <3>1, <3>2, <3>3
    <2>6. MineWhileInside' /\ InsideIsHeld' /\ HeldApart' /\ PlaceIsHolders'
      BY <1>1, <1>2, NoTurnIsNone
      DEF IInv, TypeOK, Arrive, Join, Inside, MineWhileInside, InsideIsHeld,
          HeldApart, PlaceIsHolders
    <2> QED BY <2>1, <2>5, <2>6 DEF IInv
  <1>3. CASE Open(c, a)
    <2>1. PICK t \in TurnIds :
            /\ Unused(t)
            /\ held' = [held EXCEPT ![a] = t]
            /\ mine' = [mine EXCEPT ![c] = t]
            /\ waiting' = [waiting EXCEPT ![t] = 1]
            /\ taken' = [taken EXCEPT ![t] = NoCall]
      BY <1>3 DEF Open
    <2>2. TypeOK'
      BY <1>1, <2>1 DEF IInv, TypeOK, Arrive, Inside
    <2>3. In(t)' = {c} /\ \A u : u # t => In(u)' = In(u)
      BY <1>1, <2>1, NoTurnIsNone
      DEF IInv, TypeOK, Arrive, Inside, In, MineWhileInside, Unused
    <2>4. Cardinality(In(t)') = 1
      BY <2>3, FS_Singleton
    <2>5. held[a] = NoTurn /\ \A b \in Accounts : b # a => held'[b] = held[b] /\ held[b] # t
      BY <1>3, <2>1 DEF Open, Unused, IInv, TypeOK
    <2>6. CountIsExact'
      <3> SUFFICES ASSUME NEW b \in Accounts, held'[b] # NoTurn
                   PROVE  /\ waiting'[held'[b]] = Cardinality(In(held[b])')
                          /\ In(held[b])' # {}
        BY DEF CountIsExact
      <3>1. CASE b = a
        <4>1. held'[b] = t
          BY <2>1, <3>1 DEF IInv, TypeOK
        <4>2. In(held[b])' = In(t)'
          BY <4>1 DEF In
        <4> QED BY <2>1, <2>3, <2>4, <4>1, <4>2 DEF IInv, TypeOK
      <3>2. CASE b # a
        <4>1. held'[b] = held[b] /\ held[b] # t /\ held[b] # NoTurn
          BY <2>5, <3>2
        <4>2. In(held[b])' = In(held[b])
          BY <2>3, <4>1 DEF In
        <4> QED BY <2>1, <4>1, <4>2 DEF IInv, TypeOK, CountIsExact
      <3> QED BY <3>1, <3>2
    <2>7. \A d \in Calls : pc[d] \in Inside => mine[d] # t /\ account[d] # a
      BY <2>1, <2>5, NoTurnIsNone
      DEF IInv, TypeOK, Unused, In, InsideIsHeld, MineWhileInside
    <2>8. MineWhileInside' /\ InsideIsHeld' /\ PlaceIsHolders'
      BY <1>1, <2>1, <2>5, <2>7, NoTurnIsNone
      DEF IInv, TypeOK, Arrive, Inside, MineWhileInside, InsideIsHeld, PlaceIsHolders
    <2>9. HeldApart'
      BY <2>1, <2>5 DEF IInv, TypeOK, HeldApart
    <2> QED BY <2>2, <2>6, <2>8, <2>9 DEF IInv
  <1> QED BY <1>1, <1>2, <1>3

\* A call that stays in its turn as it takes the place, gives it back or gives
\* up keeps the invariant: nobody comes or goes.
LEMMA StayIInv ==
  ASSUME IInv, NEW c \in Calls,
         Take(c) \/ GiveUp(c) \/ GiveBack(c) \/ CallerGone(c)
  PROVE  IInv'
  <1>1. TypeOK'
    <2>1. CASE Take(c) \/ GiveBack(c)
      <3>1. mine[c] \in TurnIds
        BY <2>1 DEF IInv, TypeOK, Take, GiveBack, Inside, MineWhileInside
      <3> QED BY <2>1, <3>1 DEF IInv, TypeOK, Take, GiveBack, Inside
    <2>2. CASE GiveUp(c) \/ CallerGone(c)
      BY <2>2 DEF IInv, TypeOK, GiveUp, CallerGone, Inside
    <2> QED BY <2>1, <2>2
  <1>2. \A t : In(t)' = In(t)
    BY DEF IInv, TypeOK, Take, GiveUp, GiveBack, CallerGone, Inside, In
  <1>3. held' = held /\ waiting' = waiting /\ mine' = mine /\ account' = account
    BY DEF Take, GiveUp, GiveBack, CallerGone
  <1>4. \A d \in Calls : pc'[d] \in Inside <=> pc[d] \in Inside
    BY DEF IInv, TypeOK, Take, GiveUp, GiveBack, CallerGone, Inside
  <1>5. MineWhileInside' /\ InsideIsHeld' /\ HeldApart'
    BY <1>3, <1>4 DEF IInv, MineWhileInside, InsideIsHeld, HeldApart
  <1>6. CountIsExact'
    BY <1>2, <1>3 DEF IInv, CountIsExact
  <1>7. PlaceIsHolders'
    BY NoCallIsNone
    DEF IInv, TypeOK, PlaceIsHolders, MineWhileInside, Inside, Take, GiveUp,
        GiveBack, CallerGone
  <1> QED BY <1>1, <1>5, <1>6, <1>7 DEF IInv

\* A call that is counted out keeps the invariant: the turn is dropped exactly
\* when nobody else is in it.
LEMMA LeaveIInv ==
  ASSUME IInv, NEW c \in Calls, Leave(c)
  PROVE  IInv'
  <1>1. PICK t \in TurnIds, a \in Accounts :
          t = mine[c] /\ a = account[c] /\ held[a] = t /\ t # NoTurn
    BY NoTurnIsNone DEF IInv, TypeOK, Leave, Inside, InsideIsHeld, MineWhileInside
  <1>2. /\ c \in In(t)
        /\ In(t)' = In(t) \ {c}
        /\ \A u : u # t /\ u # NoTurn => In(u)' = In(u)
    BY <1>1 DEF IInv, TypeOK, Leave, Inside, In
  <1>3. Cardinality(In(t)') = Cardinality(In(t)) - 1
    BY <1>2, InFinite, FS_RemoveElement
  <1>4. waiting'[t] = Cardinality(In(t)')
    BY <1>1, <1>3, InFinite, FS_CardinalityType DEF IInv, TypeOK, Leave, CountIsExact
  <1>5. waiting'[t] = 0 <=> In(t)' = {}
    <2>1. IsFiniteSet(In(t)')
      BY <1>2, InFinite, FS_Subset
    <2> QED BY <1>4, <2>1, FS_EmptySet
  <1>6. TypeOK'
    <2>1. IsFiniteSet(In(t)')
      BY <1>2, InFinite, FS_Subset
    <2>2. waiting'[t] \in Nat
      BY <1>4, <2>1, FS_CardinalityType
    <2> QED BY <1>1, <2>2 DEF IInv, TypeOK, Leave, Inside
  <1>7. \A b \in Accounts : b # a => held'[b] = held[b] /\ (held[b] # NoTurn => held[b] # t)
    BY <1>1 DEF IInv, TypeOK, Leave, HeldApart
  <1>8. held'[a] = IF In(t)' = {} THEN NoTurn ELSE t
    BY <1>1, <1>5 DEF IInv, TypeOK, Leave
  <1>9. \A d \in Calls : pc'[d] \in Inside =>
          /\ pc[d] \in Inside /\ d # c
          /\ mine'[d] = mine[d] /\ account'[d] = account[d]
          /\ mine[d] = t => In(t)' # {}
    BY <1>1 DEF IInv, TypeOK, Leave, Inside, In
  <1>10. MineWhileInside'
    BY DEF IInv, TypeOK, Leave, Inside, MineWhileInside
  <1>11. InsideIsHeld'
    <2> SUFFICES ASSUME NEW d \in Calls, pc'[d] \in Inside
                 PROVE  held'[account'[d]] = mine'[d]
      BY DEF InsideIsHeld
    <2>1. held[account[d]] = mine[d] /\ account[d] \in Accounts /\ mine[d] # NoTurn
      BY <1>9 DEF IInv, TypeOK, InsideIsHeld, MineWhileInside
    <2> QED BY <1>1, <1>7, <1>8, <1>9, <2>1
  <1>12. HeldApart'
    BY <1>1, <1>7, <1>8 DEF IInv, TypeOK, HeldApart
  <1>13. PlaceIsHolders'
    BY <1>9 DEF IInv, TypeOK, Leave, Inside, PlaceIsHolders
  <1>14. CountIsExact'
    <2> SUFFICES ASSUME NEW b \in Accounts, held'[b] # NoTurn
                 PROVE  /\ waiting'[held'[b]] = Cardinality(In(held[b])')
                        /\ In(held[b])' # {}
      BY DEF CountIsExact
    <2>1. CASE b = a
      <3>1. held'[b] = t
        BY <1>8, <2>1
      <3>2. In(held[b])' = In(t)'
        BY <3>1 DEF In
      <3> QED BY <1>4, <1>8, <2>1, <3>1, <3>2
    <2>2. CASE b # a
      <3>1. held'[b] = held[b] /\ held[b] # t /\ held[b] # NoTurn
        BY <1>7, <2>2
      <3>2. In(held[b])' = In(held[b])
        BY <1>2, <3>1 DEF In
      <3> QED BY <1>1, <3>1, <3>2 DEF IInv, TypeOK, Leave, CountIsExact
    <2> QED BY <2>1, <2>2
  <1> QED BY <1>6, <1>10, <1>11, <1>12, <1>13, <1>14 DEF IInv

\* A step that changes nothing keeps the invariant.
LEMMA StutterIInv == IInv /\ UNCHANGED vars => IInv'
  <1> SUFFICES ASSUME IInv, UNCHANGED vars
               PROVE  IInv'
    OBVIOUS
  <1>1. \A t : In(t)' = In(t)
    BY DEF In, vars
  <1>2. TypeOK'
    BY DEF IInv, TypeOK, vars
  <1>3. MineWhileInside' /\ InsideIsHeld' /\ HeldApart' /\ PlaceIsHolders'
    BY DEF IInv, MineWhileInside, InsideIsHeld, HeldApart, PlaceIsHolders, vars
  <1>4. CountIsExact'
    BY <1>1 DEF IInv, CountIsExact, vars
  <1> QED BY <1>2, <1>3, <1>4 DEF IInv

\* The inductive invariant: everybody in a turn is counted in the one turn the
\* table has for their account.
THEOREM Invariance == Spec => []IInv
  <1>1. Init => IInv
    BY InitIInv
  <1>2. IInv /\ [Next]_vars => IInv'
    BY ArriveIInv, StayIInv, LeaveIInv, StutterIInv DEF Next
  <1> QED BY <1>1, <1>2, PTL DEF Spec

\* The writes of one account go one at a time (turns.go, the comment on
\* turns): whoever the calls are, and however turns come and go in the table.
THEOREM WritesGoOneAtATime == Spec => []OneAtATime
  <1>1. IInv => OneAtATime
    BY DEF IInv, InsideIsHeld, PlaceIsHolders, OneAtATime, Holders, Inside
  <1> QED BY <1>1, Invariance, PTL

\* The table has a turn for exactly the accounts somebody writes for (turns.go,
\* the comment on turn): no turn leaks, and none is dropped early.
THEOREM TheTableIsExact == Spec => []TableIsExact
  <1>1. IInv => TableIsExact
    <2> SUFFICES ASSUME IInv PROVE TableIsExact
      OBVIOUS
    <2>1. \A c \in Calls : pc[c] \in Inside => held[account[c]] = mine[c]
      BY DEF IInv, InsideIsHeld
    <2>2. ASSUME NEW a \in Accounts, held[a] # NoTurn
          PROVE  \E c \in Calls : pc[c] \in Inside /\ account[c] = a
      <3>1. PICK c \in Calls : pc[c] \in Inside /\ mine[c] = held[a]
        BY <2>2 DEF IInv, CountIsExact, In
      <3>2. account[c] = a
        BY <2>2, <3>1 DEF IInv, TypeOK, InsideIsHeld, HeldApart
      <3> QED BY <3>1, <3>2
    <2> QED BY <2>1, <2>2 DEF TableIsExact
  <1> QED BY <1>1, Invariance, PTL

\* The type invariant, for every number of accounts and calls.
THEOREM TypeCorrect == Spec => []TypeOK
  BY Invariance, PTL DEF IInv

\* However many calls give up while they wait, the writes of an account go one at a
\* time, and no turn is leaked or dropped while somebody goes by it.
THEOREM TurnsAreHeld == Spec => []TurnsHold
  BY TypeCorrect, WritesGoOneAtATime, TheTableIsExact, PTL DEF TurnsHold

-----------------------------------------------------------------------------
(***************************************************************************)
(* The card's questions (News): each ear is in one place, and each ear but *)
(* a question's first is for a write that was told.                        *)
(***************************************************************************)

Listening == {"read", "wait", "woken"}
On(q) == question[q].on
HasEar(q) == EarOf(q) \in ears[On(q)]

\* The task only goes on, and an instance tells what it wrote, once.
WritesGoOn ==
    /\ Newest \in 0..MaxWrites
    /\ \A v \in 0..Newest : \A w \in 0..Newest : v <= w => After(v) <= After(w)
    /\ \A i \in Servers :
        /\ own[i] <= Newest
        /\ untold[i] \subseteq 1..own[i] /\ told[i] \subseteq 1..own[i]
        /\ untold[i] \cap told[i] = {}

\* An ear of q is with the others of its instance, or being handed a write, or
\* was handed one; and only the latest of a question's ears is with the others.
InOnePlace(q, m) ==
    LET e == <<q, m>> IN
    /\ \A i \in Servers : e \in ears[i] =>
          /\ i = On(q) /\ m = question[q].n /\ question[q].pc \in Listening
          /\ ear[e] = <<>> /\ \A h \in handing[i] : e \notin h.ears
    /\ \A i \in Servers : \A h \in handing[i] : e \in h.ears =>
          /\ i = On(q) /\ m <= question[q].n /\ question[q].pc # "idle"
          /\ ear[e] = <<>> /\ \A g \in handing[i] : e \in g.ears => g = h
    /\ ear[e] # <<>> => Len(ear[e]) = 1 /\ m <= question[q].n /\ question[q].pc # "idle"

\* Each time a question listened again, and once more if its ear was taken, a
\* write of its instance was told.
Counted(q) ==
    /\ question[q].pc = "idle" => question[q].n = 0
    /\ question[q].pc = "woken" => ~HasEar(q)
    /\ question[q].pc \in Listening =>
          question[q].n + (IF HasEar(q) THEN 0 ELSE 1) <= Cardinality(told[On(q)])

NotDeaf(q) ==
    question[q].pc \in {"read", "wait"} =>
        \/ HasEar(q)
        \/ \E h \in handing[On(q)] : EarOf(q) \in h.ears
        \/ ear[EarOf(q)] # <<>>

\* Write w is on its way to the question.
Coming(q, w) ==
    /\ question[q].pc \in {"read", "wait"}
    /\ \/ \E h \in handing[On(q)] : EarOf(q) \in h.ears /\ h.write = w
       \/ ear[EarOf(q)] # <<>> /\ Head(ear[EarOf(q)]) \in {w, Nil}

\* A write told since the question was asked is on its way to it while it reads;
\* and after, so is every write that is not known to it.
Known(q, w) == question[q].pc # "read" /\ After(w) <= question[q].known

HeardOf(q) ==
    question[q].pc \in Listening =>
        \A w \in told[On(q)] \ question[q].gap : Known(q, w) \/ Coming(q, w)

NewsInv ==
    /\ NewsTypeOK
    /\ WritesGoOn
    /\ \A q \in Questions : \A m \in 0..MaxWrites : InOnePlace(q, m)
    /\ \A q \in Questions : Counted(q) /\ NotDeaf(q) /\ HeardOf(q)

LEMMA NewsInitInv == ASSUME NewsInit PROVE NewsInv
<1>1. Newest = 0 /\ After(0) = 0 BY DEF NewsInit, Newest, After
<1>2. NewsTypeOK
  <2>1. Over \in Nat /\ MaxWrites \in Nat BY BoundsAreNumbers
  <2>2. left \in Seq(0..Over) BY <2>1 DEF NewsInit
  <2>3. \A S : <<>> \in Seq(S) OBVIOUS
  <2>4. question \in [Questions -> QuestionStates]
    <3>1. ASSUME NEW r \in [pc : {"idle"}, on : Servers, known : {0}, heard : {0}, n : {0}, gap : {{}}]
          PROVE  r \in QuestionStates
      <4>1. r.gap \in SUBSET (0..MaxWrites) OBVIOUS
      <4> QED BY <2>1, <4>1 DEF QuestionStates
    <3> QED BY <3>1 DEF NewsInit
  <2> QED BY <2>1, <2>2, <2>3, <2>4 DEF NewsInit, NewsTypeOK
<1>3. WritesGoOn
  <2>1. MaxWrites \in Nat BY BoundsAreNumbers
  <2> QED BY <1>1, <2>1 DEF WritesGoOn, NewsInit
<1>4. \A q \in Questions : \A m \in 0..MaxWrites : InOnePlace(q, m)
  BY DEF NewsInit, InOnePlace, Ears
<1>5. \A q \in Questions : question[q].pc = "idle" /\ question[q].n = 0 BY DEF NewsInit
<1>6. \A q \in Questions : Counted(q) /\ NotDeaf(q) /\ HeardOf(q)
  BY <1>5 DEF Counted, NotDeaf, HeardOf, Listening
<1> QED BY <1>2, <1>3, <1>4, <1>6 DEF NewsInv

-----------------------------------------------------------------------------

\* What is typed, in one place.
LEMMA NewsTyped ==
  ASSUME NewsInv
  PROVE  /\ Over \in Nat /\ MaxWrites \in Nat
         /\ left \in Seq(0..Over) /\ Newest \in Nat /\ Newest <= MaxWrites /\ Len(left) = Newest + 1
         /\ \A w \in 0..Newest : After(w) \in 0..Over
         /\ \A q \in Questions :
              /\ question[q] \in QuestionStates /\ On(q) \in Servers
              /\ question[q].n \in 0..MaxWrites /\ EarOf(q) \in Ears
         /\ \A i \in Servers : IsFiniteSet(told[i]) /\ Cardinality(told[i]) \in 0..own[i] /\ own[i] \in 0..Newest
<1>1. Over \in Nat /\ MaxWrites \in Nat BY BoundsAreNumbers
<1>2. left \in Seq(0..Over) /\ Newest \in Nat /\ Newest <= MaxWrites /\ Len(left) = Newest + 1
  BY <1>1 DEF NewsInv, NewsTypeOK, WritesGoOn, Newest
<1>3. ASSUME NEW w \in 0..Newest PROVE After(w) \in 0..Over
  <2>1. w + 1 \in 1..Len(left) BY <1>2
  <2> QED BY <2>1, <1>2, ElementOfSeq DEF After
<1>4. ASSUME NEW q \in Questions
      PROVE  /\ question[q] \in QuestionStates /\ On(q) \in Servers
             /\ question[q].n \in 0..MaxWrites /\ EarOf(q) \in Ears
  <2>1. question[q] \in QuestionStates BY DEF NewsInv, NewsTypeOK
  <2> QED BY <2>1 DEF QuestionStates, On, EarOf, Ears
<1>5. ASSUME NEW i \in Servers
      PROVE  IsFiniteSet(told[i]) /\ Cardinality(told[i]) \in 0..own[i] /\ own[i] \in 0..Newest
  <2>1. own[i] \in Nat /\ own[i] <= Newest BY <1>1 DEF NewsInv, NewsTypeOK, WritesGoOn
  <2>2. IsFiniteSet(1..own[i]) /\ Cardinality(1..own[i]) = own[i]
    <3>1. PICK n \in Nat : n = own[i] BY <2>1
    <3>2. IsFiniteSet(1..n) /\ Cardinality(1..n) = n BY FS_Interval
    <3> QED BY <3>1, <3>2
  <2>3. told[i] \subseteq 1..own[i] BY DEF NewsInv, WritesGoOn
  <2>4. IsFiniteSet(told[i]) /\ Cardinality(told[i]) <= own[i] BY <2>2, <2>3, FS_Subset
  <2>5. Cardinality(told[i]) \in Nat BY <2>4, FS_CardinalityType
  <2> QED BY <2>1, <2>4, <2>5
<1> QED BY <1>1, <1>2, <1>3, <1>4, <1>5

LEMMA LandInv == ASSUME NewsInv, NEW i \in Servers, Land(i) PROVE NewsInv'
<1>0. /\ Over \in Nat /\ MaxWrites \in Nat
      /\ left \in Seq(0..Over) /\ Newest \in Nat /\ Newest <= MaxWrites /\ Len(left) = Newest + 1
      /\ \A w \in 0..Newest : After(w) \in 0..Over
  BY NewsTyped
<1>1. PICK stands \in After(Newest)..Over : left' = Append(left, stands) BY DEF Land
<1>2. Newest < MaxWrites /\ After(Newest) \in 0..Over BY <1>0 DEF Land
<1>3. stands \in 0..Over BY <1>0, <1>1, <1>2
<1>4. /\ left' \in Seq(0..Over) /\ Newest' = Newest + 1
      /\ \A w \in 0..Newest : left'[w + 1] = left[w + 1]
      /\ left'[Newest + 2] = stands
  <2>1. /\ Append(left, stands) \in Seq(0..Over) /\ Len(Append(left, stands)) = Len(left) + 1
        /\ \A n \in 1..Len(left) : Append(left, stands)[n] = left[n]
        /\ Append(left, stands)[Len(left) + 1] = stands
    BY <1>0, <1>3, AppendProperties
  <2>2. \A w \in 0..Newest : w + 1 \in 1..Len(left) BY <1>0
  <2> QED BY <1>0, <1>1, <2>1, <2>2 DEF Newest
<1>a. \A w \in 0..Newest : After(w)' = After(w) BY <1>4 DEF After
<1>5. \A w \in 0..Newest : After(w) <= stands
  BY <1>0, <1>1, <1>2, <1>3 DEF NewsInv, WritesGoOn
<1>6. /\ own' \in [Servers -> 0..MaxWrites] /\ untold' \in [Servers -> SUBSET (0..MaxWrites)]
      /\ \A j \in Servers : own'[j] = (IF j = i THEN Newest + 1 ELSE own[j])
      /\ \A j \in Servers : untold'[j] = (IF j = i THEN untold[i] \cup {Newest + 1} ELSE untold[j])
  BY <1>0, <1>2 DEF Land, NewsInv, NewsTypeOK
<1>7. UNCHANGED <<handing, ears, ear, question, told>> BY DEF Land
<1>8. NewsTypeOK' BY <1>4, <1>6, <1>7 DEF NewsInv, NewsTypeOK
<1>9. WritesGoOn'
  <2>1. ASSUME NEW v \in 0..Newest', NEW w \in 0..Newest', v <= w PROVE After(v)' <= After(w)'
    <3>1. CASE w = Newest + 1
      <4>1. CASE v = Newest + 1 BY <1>0, <4>1, <3>1, <1>3, <1>4 DEF After
      <4>2. CASE v # Newest + 1
        <5>1. v \in 0..Newest BY <1>0, <4>2, <1>4
        <5>2. After(v)' = After(v) BY <5>1, <1>a
        <5>3. After(w)' = stands BY <1>0, <3>1, <1>4 DEF After
        <5> QED BY <5>1, <5>2, <5>3, <1>5
      <4> QED BY <4>1, <4>2
    <3>2. CASE w # Newest + 1
      <4>1. v \in 0..Newest /\ w \in 0..Newest BY <1>0, <3>2, <2>1, <1>4
      <4>2. After(v)' = After(v) /\ After(w)' = After(w) BY <4>1, <1>a
      <4> QED BY <4>1, <4>2, <2>1 DEF NewsInv, WritesGoOn
    <3> QED BY <3>1, <3>2
  <2>2. Newest' \in 0..MaxWrites BY <1>0, <1>2, <1>4
  <2>3. ASSUME NEW j \in Servers
        PROVE  /\ own'[j] <= Newest' /\ untold'[j] \subseteq 1..own'[j] /\ told'[j] \subseteq 1..own'[j]
               /\ untold'[j] \cap told'[j] = {}
    <3>1. /\ untold[j] \subseteq 1..own[j] /\ told[j] \subseteq 1..own[j] /\ untold[j] \cap told[j] = {}
          /\ own[j] \in 0..Newest
      BY NewsTyped DEF NewsInv, WritesGoOn
    <3>2. CASE j = i
      <4>1. own'[j] = Newest + 1 /\ untold'[j] = untold[j] \cup {Newest + 1} /\ told'[j] = told[j]
        BY <3>2, <1>6, <1>7
      <4>2. Newest + 1 \notin told[j] BY <1>0, <3>1
      <4>3. 1..own[j] \subseteq 1..own'[j] /\ Newest + 1 \in 1..own'[j] BY <1>0, <3>1, <4>1
      <4>4. own'[j] <= Newest' BY <1>0, <1>4, <4>1
      <4>5. untold'[j] \subseteq 1..own'[j] /\ told'[j] \subseteq 1..own'[j] BY <3>1, <4>1, <4>3
      <4>6. untold'[j] \cap told'[j] = {} BY <3>1, <4>1, <4>2
      <4> QED BY <4>4, <4>5, <4>6
    <3>3. CASE j # i
      <4>1. own'[j] = own[j] /\ untold'[j] = untold[j] /\ told'[j] = told[j] BY <3>3, <1>6, <1>7
      <4>2. own'[j] <= Newest' BY <1>0, <3>1, <4>1, <1>4
      <4> QED BY <3>1, <4>1, <4>2
    <3> QED BY <3>2, <3>3
  <2> QED BY <2>1, <2>2, <2>3 DEF WritesGoOn
<1>10. \A q \in Questions : On(q)' = On(q) /\ EarOf(q)' = EarOf(q) /\ HasEar(q)' = HasEar(q)
  BY <1>7 DEF On, EarOf, HasEar
<1>11. ASSUME NEW q \in Questions, NEW m \in 0..MaxWrites PROVE InOnePlace(q, m)'
  <2>1. InOnePlace(q, m) BY DEF NewsInv
  <2> QED BY <2>1, <1>7, <1>10 DEF InOnePlace
<1>12. ASSUME NEW q \in Questions PROVE Counted(q)' /\ NotDeaf(q)' /\ HeardOf(q)'
  <2>1. Counted(q) /\ NotDeaf(q) /\ HeardOf(q) BY DEF NewsInv
  <2>2. Counted(q)' /\ NotDeaf(q)' BY <2>1, <1>7, <1>10 DEF Counted, NotDeaf
  <2>3. HeardOf(q)'
    <3> SUFFICES ASSUME question[q].pc \in Listening,
                        NEW w \in told[On(q)] \ question[q].gap
                 PROVE  Known(q, w)' \/ Coming(q, w)'
      BY <1>7, <1>10 DEF HeardOf
    <3>1. Known(q, w) \/ Coming(q, w) BY <2>1 DEF HeardOf
    <3>2. w \in 0..Newest
      <4>1. On(q) \in Servers /\ own[On(q)] \in 0..Newest BY NewsTyped
      <4>2. told[On(q)] \subseteq 1..own[On(q)] BY <4>1 DEF NewsInv, WritesGoOn
      <4> QED BY <1>0, <4>1, <4>2
    <3>3. After(w)' = After(w) BY <3>2, <1>a
    <3> QED BY <3>1, <3>3, <1>7, <1>10 DEF Coming, Known
  <2> QED BY <2>1, <2>2, <2>3
<1> QED BY <1>8, <1>9, <1>11, <1>12 DEF NewsInv


LEMMA TellInv == ASSUME NewsInv, NEW i \in Servers, Tell(i) PROVE NewsInv'
<1>1. PICK w \in untold[i] :
        /\ untold' = [untold EXCEPT ![i] = @ \ {w}]
        /\ handing' = [handing EXCEPT ![i] = @ \cup {[ears |-> ears[i], write |-> w]}]
        /\ ears' = [ears EXCEPT ![i] = {}]
        /\ told' = [told EXCEPT ![i] = @ \cup {w}]
        /\ question' = [q \in Questions |->
                            IF question[q].on = i /\ question[q].pc \in {"read", "wait", "woken"}
                                /\ \A n \in 0..MaxWrites : <<q, n>> \notin ears[i]
                            THEN [question[q] EXCEPT !.gap = @ \cup {w}] ELSE question[q]]
        /\ UNCHANGED <<left, own, ear>>
  BY DEF Tell
<1> DEFINE h == [ears |-> ears[i], write |-> w]
<1>2. /\ Newest \in Nat /\ Newest <= MaxWrites /\ MaxWrites \in Nat
      /\ \A q \in Questions : question[q] \in QuestionStates /\ EarOf(q) \in Ears /\ question[q].n \in 0..MaxWrites
      /\ \A j \in Servers : IsFiniteSet(told[j]) /\ own[j] \in 0..Newest
  BY NewsTyped
<1>3. w \in 1..own[i] /\ w \notin told[i] /\ w \in 0..MaxWrites
  <2>1. untold[i] \subseteq 1..own[i] /\ untold[i] \cap told[i] = {} BY DEF NewsInv, WritesGoOn
  <2> QED BY <1>1, <1>2, <2>1
<1>4. /\ \A j \in Servers : untold'[j] = (IF j = i THEN untold[i] \ {w} ELSE untold[j])
      /\ \A j \in Servers : handing'[j] = (IF j = i THEN handing[i] \cup {h} ELSE handing[j])
      /\ \A j \in Servers : ears'[j] = (IF j = i THEN {} ELSE ears[j])
      /\ \A j \in Servers : told'[j] = (IF j = i THEN told[i] \cup {w} ELSE told[j])
      /\ left' = left /\ own' = own /\ ear' = ear
  BY <1>1 DEF NewsInv, NewsTypeOK
<1>5. ASSUME NEW q \in Questions
      PROVE  /\ question'[q] \in QuestionStates
             /\ \A g \in {"pc", "on", "known", "heard", "n"} : question'[q][g] = question[q][g]
             /\ question'[q].gap \in {question[q].gap, question[q].gap \cup {w}}
             /\ (On(q) = i /\ question[q].pc \in Listening /\ ~HasEar(q)) =>
                    question'[q].gap = question[q].gap \cup {w}
  <2>1. question[q] \in QuestionStates BY <1>2
  <2>2. [question[q] EXCEPT !.gap = @ \cup {w}] \in QuestionStates BY <2>1, <1>3 DEF QuestionStates
  <2>3. question'[q] \in {question[q], [question[q] EXCEPT !.gap = @ \cup {w}]} BY <1>1
  <2>4. (On(q) = i /\ question[q].pc \in Listening /\ ~HasEar(q)) =>
            \A n \in 0..MaxWrites : <<q, n>> \notin ears[i]
    <3> SUFFICES ASSUME On(q) = i, ~HasEar(q), NEW n \in 0..MaxWrites, <<q, n>> \in ears[i] PROVE FALSE
      OBVIOUS
    <3>1. InOnePlace(q, n) BY DEF NewsInv
    <3>2. n = question[q].n BY <3>1 DEF InOnePlace
    <3> QED BY <3>2 DEF HasEar, EarOf
  <2>5. (On(q) = i /\ question[q].pc \in Listening /\ ~HasEar(q)) =>
            question'[q] = [question[q] EXCEPT !.gap = @ \cup {w}]
    BY <2>4, <1>1 DEF On, Listening
  <2> QED BY <2>1, <2>2, <2>3, <2>5 DEF QuestionStates
<1>6. ASSUME NEW q \in Questions
      PROVE  On(q)' = On(q) /\ EarOf(q)' = EarOf(q) /\ On(q) \in Servers
  BY <1>2, <1>5 DEF On, EarOf, QuestionStates
<1>7. NewsTypeOK'
  <2>1. h \in [ears : SUBSET Ears, write : 0..MaxWrites] BY <1>3 DEF NewsInv, NewsTypeOK
  <2>2. question' \in [Questions -> QuestionStates] BY <1>1, <1>5
  <2>3. told' \in [Servers -> SUBSET (0..MaxWrites)] /\ untold' \in [Servers -> SUBSET (0..MaxWrites)]
    BY <1>1, <1>3 DEF NewsInv, NewsTypeOK
  <2>4. handing' \in [Servers -> SUBSET [ears : SUBSET Ears, write : 0..MaxWrites]]
    <3> HIDE DEF h
    <3> QED BY <1>1, <2>1 DEF NewsInv, NewsTypeOK, h
  <2> QED BY <1>1, <2>2, <2>3, <2>4 DEF NewsInv, NewsTypeOK
<1>8. WritesGoOn'
  <2>1. Newest' = Newest /\ \A v : After(v)' = After(v) BY <1>4 DEF Newest, After
  <2>2. ASSUME NEW j \in Servers
        PROVE  /\ own'[j] <= Newest' /\ untold'[j] \subseteq 1..own'[j] /\ told'[j] \subseteq 1..own'[j]
               /\ untold'[j] \cap told'[j] = {}
    <3>1. /\ untold[j] \subseteq 1..own[j] /\ told[j] \subseteq 1..own[j] /\ untold[j] \cap told[j] = {}
          /\ own[j] <= Newest
      BY DEF NewsInv, WritesGoOn
    <3>2. CASE j = i
      <4>1. own'[j] = own[j] /\ untold'[j] = untold[j] \ {w} /\ told'[j] = told[j] \cup {w} BY <3>2, <1>4
      <4> QED BY <3>1, <4>1, <3>2, <1>3, <2>1
    <3>3. CASE j # i
      <4>1. own'[j] = own[j] /\ untold'[j] = untold[j] /\ told'[j] = told[j] BY <3>3, <1>4
      <4> QED BY <3>1, <4>1, <2>1
    <3> QED BY <3>2, <3>3
  <2> QED BY <2>1, <2>2 DEF NewsInv, WritesGoOn
<1>9. ASSUME NEW q \in Questions, NEW m \in 0..MaxWrites PROVE InOnePlace(q, m)'
  <2> DEFINE e == <<q, m>>
  <2>1. InOnePlace(q, m) BY DEF NewsInv
  <2>2. ASSUME NEW j \in Servers, e \in ears'[j]
        PROVE  /\ j = On(q) /\ m = question[q].n /\ question[q].pc \in Listening
               /\ ear[e] = <<>> /\ \A k \in handing'[j] : e \notin k.ears
    <3>1. j # i /\ ears'[j] = ears[j] /\ handing'[j] = handing[j] BY <2>2, <1>4
    <3> QED BY <3>1, <2>1, <2>2 DEF InOnePlace
  <2>3. ASSUME NEW j \in Servers, NEW k \in handing'[j], e \in k.ears
        PROVE  /\ j = On(q) /\ m <= question[q].n /\ question[q].pc # "idle"
               /\ ear[e] = <<>> /\ \A g \in handing'[j] : e \in g.ears => g = k
    <3>1. CASE j = i /\ k = h
      <4>1. e \in ears[i] BY <3>1, <2>3
      <4>2. /\ i = On(q) /\ m = question[q].n /\ question[q].pc \in Listening
            /\ ear[e] = <<>> /\ \A g \in handing[i] : e \notin g.ears
        BY <4>1, <2>1 DEF InOnePlace
      <4>3. handing'[j] = handing[i] \cup {h} BY <3>1, <1>4
      <4>4. m <= question[q].n BY <4>2
      <4>5. question[q].pc # "idle" BY <4>2 DEF Listening
      <4> HIDE DEF h
      <4> QED BY <3>1, <4>2, <4>3, <4>4, <4>5
    <3>2. CASE ~(j = i /\ k = h)
      <4>1. k \in handing[j] BY <3>2, <1>4
      <4>2. /\ j = On(q) /\ m <= question[q].n /\ question[q].pc # "idle"
            /\ ear[e] = <<>> /\ \A g \in handing[j] : e \in g.ears => g = k
        BY <4>1, <2>1, <2>3 DEF InOnePlace
      <4>3. ASSUME NEW g \in handing'[j], e \in g.ears PROVE g = k
        <5>1. CASE g \in handing[j] BY <5>1, <4>2, <4>3
        <5>2. CASE g \notin handing[j]
          <6>1. j = i /\ g = h BY <5>2, <1>4, <4>3
          <6>2. e \in ears[i] BY <6>1, <4>3
          <6>3. e \notin k.ears BY <6>1, <6>2, <4>1, <2>1 DEF InOnePlace
          <6> QED BY <6>3, <2>3
        <5> QED BY <5>1, <5>2
      <4> QED BY <4>2, <4>3
    <3> QED BY <3>1, <3>2
  <2>4. ear[e] # <<>> => Len(ear[e]) = 1 /\ m <= question[q].n /\ question[q].pc # "idle"
    BY <2>1 DEF InOnePlace
  <2>5. question'[q].pc = question[q].pc /\ question'[q].n = question[q].n BY <1>5
  <2> QED BY <2>2, <2>3, <2>4, <2>5, <1>6, <1>4 DEF InOnePlace
<1>10. ASSUME NEW q \in Questions PROVE Counted(q)' /\ NotDeaf(q)' /\ HeardOf(q)'
  <2>1. Counted(q) /\ NotDeaf(q) /\ HeardOf(q) BY DEF NewsInv
  <2>2. question'[q].pc = question[q].pc /\ question'[q].n = question[q].n
        /\ question'[q].known = question[q].known
    BY <1>5
  <2>3. CASE On(q) # i
    <3>1. /\ HasEar(q)' = HasEar(q) /\ told'[On(q)] = told[On(q)] /\ handing'[On(q)] = handing[On(q)]
      BY <2>3, <1>6, <1>4 DEF HasEar
    <3>2. Counted(q)' BY <2>1, <2>2, <3>1, <1>6 DEF Counted
    <3>3. NotDeaf(q)' BY <2>1, <2>2, <3>1, <1>6, <1>4 DEF NotDeaf
    <3>4. HeardOf(q)'
      <4> SUFFICES ASSUME question[q].pc \in Listening,
                          NEW v \in told[On(q)] \ question'[q].gap
                   PROVE  Known(q, v)' \/ Coming(q, v)'
        BY <2>2, <3>1, <1>6 DEF HeardOf
      <4>1. v \notin question[q].gap BY <1>5
      <4>2. Known(q, v) \/ Coming(q, v) BY <2>1, <4>1 DEF HeardOf
      <4>3. Known(q, v) => Known(q, v)' BY <2>2, <1>4 DEF After, Known
      <4>4. Coming(q, v) => Coming(q, v)' BY <2>2, <3>1, <1>6, <1>4 DEF Coming
      <4> QED BY <4>2, <4>3, <4>4
    <3> QED BY <3>2, <3>3, <3>4
  <2>4. CASE On(q) = i
    <3>1. ~HasEar(q)' BY <2>4, <1>6, <1>4 DEF HasEar
    <3>2. told'[i] = told[i] \cup {w} /\ handing'[i] = handing[i] \cup {h} /\ told[i] \subseteq told'[i]
      BY <1>4
    <3>3. Cardinality(told'[i]) = Cardinality(told[i]) + 1
      BY <3>2, <1>2, <1>3, FS_AddElement
    <3>4. Counted(q)'
      <4>1. question[q].n \in Nat /\ Cardinality(told[i]) \in Nat
        BY <1>2, FS_CardinalityType
      <4>2. question[q].pc \in Listening => question[q].n <= Cardinality(told[i])
        BY <2>1, <2>4, <4>1 DEF Counted
      <4>3. question[q].pc \in Listening => question[q].n + 1 <= Cardinality(told'[i])
        BY <4>1, <4>2, <3>3
      <4> QED BY <2>1, <2>2, <2>4, <3>1, <4>3, <1>6 DEF Counted
    <3>5. HasEar(q) => \E k \in handing'[i] : EarOf(q) \in k.ears /\ k.write = w
      <4>1. h \in handing'[i] /\ h.ears = ears[i] /\ h.write = w BY <3>2
      <4> HIDE DEF h
      <4> QED BY <4>1, <2>4 DEF HasEar
    <3>6. NotDeaf(q)' BY <2>1, <2>2, <2>4, <3>2, <3>5, <1>6, <1>4 DEF NotDeaf
    <3>7. HeardOf(q)'
      <4> SUFFICES ASSUME question[q].pc \in Listening,
                          NEW v \in told'[i] \ question'[q].gap
                   PROVE  Known(q, v)' \/ Coming(q, v)'
        BY <2>2, <2>4, <1>6 DEF HeardOf
      <4>1. v \notin question[q].gap BY <1>5
      <4>2. Known(q, v) => Known(q, v)' BY <2>2, <1>4 DEF After, Known
      <4>3. CASE v \in told[i]
        <5>1. Known(q, v) \/ Coming(q, v) BY <2>1, <2>4, <4>1, <4>3 DEF HeardOf
        <5>2. Coming(q, v) => Coming(q, v)' BY <2>2, <2>4, <3>2, <1>6, <1>4 DEF Coming
        <5> QED BY <4>2, <5>1, <5>2
      <4>4. CASE v \notin told[i]
        <5>1. v = w BY <4>4, <3>2
        <5>2. HasEar(q) BY <5>1, <1>5, <2>4
        <5>3. question[q].pc \in {"read", "wait"}
          BY <5>2, <2>1 DEF Counted, Listening
        <5> QED BY <5>1, <5>2, <5>3, <3>5, <2>2, <2>4, <1>6 DEF Coming
      <4> QED BY <4>3, <4>4
    <3> QED BY <3>4, <3>6, <3>7
  <2> QED BY <2>3, <2>4
<1> QED BY <1>7, <1>8, <1>9, <1>10 DEF NewsInv

LEMMA HandInv == ASSUME NewsInv, NEW i \in Servers, Hand(i) PROVE NewsInv'
<1>0. PICK h \in handing[i] :
        /\ \E bytes \in {h.write, Nil} :
            ear' = [e \in Ears |-> IF e \in h.ears THEN Append(ear[e], bytes) ELSE ear[e]]
        /\ handing' = [handing EXCEPT ![i] = @ \ {h}]
        /\ UNCHANGED <<writes, ears, question, told>>
  BY DEF Hand
<1>1. PICK bytes \in {h.write, Nil} :
        /\ ear' = [e \in Ears |-> IF e \in h.ears THEN Append(ear[e], bytes) ELSE ear[e]]
        /\ handing' = [handing EXCEPT ![i] = @ \ {h}]
        /\ UNCHANGED <<writes, ears, question, told>>
  BY <1>0
<1>2. /\ MaxWrites \in Nat
      /\ \A q \in Questions : EarOf(q) \in Ears /\ question[q].n \in 0..MaxWrites /\ On(q) \in Servers
  BY NewsTyped
<1>3. h \in [ears : SUBSET Ears, write : 0..MaxWrites] BY DEF NewsInv, NewsTypeOK
<1>4. bytes \in Nil..MaxWrites BY <1>2, <1>3 DEF Nil
<1>5. /\ \A j \in Servers : handing'[j] = (IF j = i THEN handing[i] \ {h} ELSE handing[j])
      /\ \A e \in Ears : ear'[e] = (IF e \in h.ears THEN Append(ear[e], bytes) ELSE ear[e])
      /\ left' = left /\ own' = own /\ untold' = untold /\ ears' = ears /\ question' = question /\ told' = told
  BY <1>1 DEF NewsInv, NewsTypeOK, writes
<1>6. NewsTypeOK'
  <2>1. ASSUME NEW e \in Ears PROVE Append(ear[e], bytes) \in Seq(Nil..MaxWrites)
    BY <1>4, AppendProperties DEF NewsInv, NewsTypeOK
  <2>2. ear' \in [Ears -> Seq(Nil..MaxWrites)] BY <2>1, <1>1 DEF NewsInv, NewsTypeOK
  <2>3. handing' \in [Servers -> SUBSET [ears : SUBSET Ears, write : 0..MaxWrites]]
    BY <1>1 DEF NewsInv, NewsTypeOK
  <2> QED BY <2>2, <2>3, <1>5 DEF NewsInv, NewsTypeOK
<1>7. WritesGoOn' BY <1>5 DEF NewsInv, WritesGoOn, Newest, After
<1>8. \A q \in Questions : On(q)' = On(q) /\ EarOf(q)' = EarOf(q) /\ HasEar(q)' = HasEar(q)
  BY <1>5 DEF On, EarOf, HasEar
\* An ear that is handed the write is in no other place, and was empty.
<1>9. ASSUME NEW q \in Questions, NEW m \in 0..MaxWrites, <<q, m>> \in h.ears
      PROVE  /\ i = On(q) /\ m <= question[q].n /\ question[q].pc # "idle" /\ ear[<<q, m>>] = <<>>
             /\ \A g \in handing[i] : <<q, m>> \in g.ears => g = h
             /\ ear'[<<q, m>>] = <<bytes>> /\ Len(ear'[<<q, m>>]) = 1 /\ Head(ear'[<<q, m>>]) = bytes
  <2>1. InOnePlace(q, m) BY DEF NewsInv
  <2>2. /\ i = On(q) /\ m <= question[q].n /\ question[q].pc # "idle" /\ ear[<<q, m>>] = <<>>
        /\ \A g \in handing[i] : <<q, m>> \in g.ears => g = h
    BY <2>1, <1>9 DEF InOnePlace
  <2>3. <<q, m>> \in Ears BY <1>9, <1>3
  <2>4. ear'[<<q, m>>] = Append(<<>>, bytes) BY <1>5, <2>3, <2>2, <1>9
  <2>5. Append(<<>>, bytes) = <<bytes>> /\ Len(<<bytes>>) = 1 /\ Head(<<bytes>>) = bytes OBVIOUS
  <2> QED BY <2>2, <2>4, <2>5
<1>10. ASSUME NEW q \in Questions, NEW m \in 0..MaxWrites, <<q, m>> \notin h.ears
       PROVE  ear'[<<q, m>>] = ear[<<q, m>>]
  BY <1>5, <1>10, <1>2 DEF Ears
<1>11. ASSUME NEW q \in Questions, NEW m \in 0..MaxWrites PROVE InOnePlace(q, m)'
  <2>1. InOnePlace(q, m) BY DEF NewsInv
  <2>2. \A j \in Servers : handing'[j] \subseteq handing[j] BY <1>5
  <2>3. CASE <<q, m>> \in h.ears
    <3>1. /\ i = On(q) /\ m <= question[q].n /\ question[q].pc # "idle"
          /\ \A g \in handing[i] : <<q, m>> \in g.ears => g = h
          /\ Len(ear'[<<q, m>>]) = 1
      BY <2>3, <1>9
    <3>2. \A j \in Servers : \A g \in handing'[j] : <<q, m>> \notin g.ears
      <4> SUFFICES ASSUME NEW j \in Servers, NEW g \in handing'[j], <<q, m>> \in g.ears PROVE FALSE
        OBVIOUS
      <4>1. j = On(q) BY <2>1, <2>2 DEF InOnePlace
      <4>2. g \in handing[i] /\ g # h BY <4>1, <3>1, <1>5
      <4> QED BY <4>2, <3>1
    <3>3. \A j \in Servers : <<q, m>> \notin ears[j]
      <4> SUFFICES ASSUME NEW j \in Servers, <<q, m>> \in ears[j] PROVE FALSE OBVIOUS
      <4>1. j = On(q) /\ \A g \in handing[j] : <<q, m>> \notin g.ears BY <2>1 DEF InOnePlace
      <4> QED BY <4>1, <3>1, <2>3
    <3> QED BY <3>1, <3>2, <3>3, <1>5, <1>8 DEF InOnePlace
  <2>4. CASE <<q, m>> \notin h.ears
    <3>1. ear'[<<q, m>>] = ear[<<q, m>>] BY <2>4, <1>10
    <3> QED BY <3>1, <2>1, <2>2, <1>5, <1>8 DEF InOnePlace
  <2> QED BY <2>3, <2>4
<1>12. ASSUME NEW q \in Questions PROVE Counted(q)' /\ NotDeaf(q)' /\ HeardOf(q)'
  <2>1. Counted(q) /\ NotDeaf(q) /\ HeardOf(q) BY DEF NewsInv
  <2>2. EarOf(q) = <<q, question[q].n>> /\ question[q].n \in 0..MaxWrites /\ On(q) \in Servers
    BY <1>2 DEF EarOf
  <2>3. Counted(q)' BY <2>1, <1>5, <1>8 DEF Counted
  <2>4. CASE EarOf(q) \in h.ears
    <3>1. /\ i = On(q) /\ ear'[EarOf(q)] # <<>> /\ Head(ear'[EarOf(q)]) = bytes
          /\ \A g \in handing[i] : EarOf(q) \in g.ears => g = h
          /\ ear[EarOf(q)] = <<>>
      BY <2>2, <2>4, <1>9
    <3>2. NotDeaf(q)' BY <3>1, <1>8 DEF NotDeaf
    <3>3. \A v : Coming(q, v) => Coming(q, v)'
      BY <3>1, <1>8, <1>5 DEF Coming
    <3>4. HeardOf(q)' BY <2>1, <3>3, <1>5, <1>8 DEF HeardOf, Known, After
    <3> QED BY <2>3, <3>2, <3>4
  <2>5. CASE EarOf(q) \notin h.ears
    <3>1. ear'[EarOf(q)] = ear[EarOf(q)] BY <2>2, <2>5, <1>10
    <3>2. \A g \in handing[On(q)] : EarOf(q) \in g.ears => g \in handing'[On(q)]
      BY <2>2, <2>5, <1>5
    <3>3. NotDeaf(q)' BY <2>1, <3>1, <3>2, <1>8, <1>5 DEF NotDeaf
    <3>4. \A v : Coming(q, v) => Coming(q, v)' BY <3>1, <3>2, <1>8, <1>5 DEF Coming
    <3>5. HeardOf(q)' BY <2>1, <3>4, <1>5, <1>8 DEF HeardOf, Known, After
    <3> QED BY <2>3, <3>3, <3>5
  <2> QED BY <2>4, <2>5
<1> QED BY <1>6, <1>7, <1>11, <1>12 DEF NewsInv

-----------------------------------------------------------------------------

\* What one question does is nothing to the others: it takes away and adds ears
\* of its own alone.
LEMMA OthersKeep ==
  ASSUME NewsInv, NEW q \in Questions,
         UNCHANGED <<writes, handing, told>>,
         question' = [question EXCEPT ![q] = question'[q]],
         question'[q] \in QuestionStates, question'[q].on = On(q),
         ears' \in [Servers -> SUBSET Ears], ear' \in [Ears -> Seq(Nil..MaxWrites)],
         \A r \in Questions \ {q} : \A m \in 0..MaxWrites :
            /\ ear'[<<r, m>>] = ear[<<r, m>>]
            /\ \A j \in Servers : <<r, m>> \in ears'[j] <=> <<r, m>> \in ears[j],
         \A m \in 0..MaxWrites : InOnePlace(q, m)',
         Counted(q)' /\ NotDeaf(q)' /\ HeardOf(q)'
  PROVE  NewsInv'
<1>1. /\ left' = left /\ own' = own /\ untold' = untold /\ handing' = handing /\ told' = told
  BY DEF writes
<1>2. question' \in [Questions -> QuestionStates] BY DEF NewsInv, NewsTypeOK
<1>3. NewsTypeOK' BY <1>1, <1>2 DEF NewsInv, NewsTypeOK
<1>4. WritesGoOn' BY <1>1 DEF NewsInv, WritesGoOn, Newest, After
<1>5. ASSUME NEW r \in Questions \ {q}
      PROVE  /\ \A m \in 0..MaxWrites : InOnePlace(r, m)'
             /\ Counted(r)' /\ NotDeaf(r)' /\ HeardOf(r)'
  <2>1. question'[r] = question[r] BY DEF NewsInv, NewsTypeOK
  <2>2. /\ On(r)' = On(r) /\ EarOf(r)' = EarOf(r) /\ On(r) \in Servers
        /\ EarOf(r) = <<r, question[r].n>> /\ question[r].n \in 0..MaxWrites
    BY <2>1, NewsTyped DEF On, EarOf
  <2>3. ear'[EarOf(r)] = ear[EarOf(r)] /\ HasEar(r)' = HasEar(r)
    BY <2>2 DEF HasEar
  <2>4. ASSUME NEW m \in 0..MaxWrites PROVE InOnePlace(r, m)'
    <3>1. InOnePlace(r, m) BY DEF NewsInv
    <3>2. /\ ear'[<<r, m>>] = ear[<<r, m>>]
          /\ \A j \in Servers : <<r, m>> \in ears'[j] <=> <<r, m>> \in ears[j]
      OBVIOUS
    <3>3. /\ question'[r] = question[r] /\ On(r)' = On(r)
          /\ \A j \in Servers : handing'[j] = handing[j]
      BY <2>1, <2>2, <1>1
    <3>4. ASSUME NEW j \in Servers, <<r, m>> \in ears'[j]
          PROVE  /\ j = On(r)' /\ m = question'[r].n /\ question'[r].pc \in Listening
                 /\ ear'[<<r, m>>] = <<>> /\ \A h \in handing'[j] : <<r, m>> \notin h.ears
      <4>1. <<r, m>> \in ears[j] BY <3>2, <3>4
      <4> QED BY <3>1, <3>2, <3>3, <4>1 DEF InOnePlace
    <3>5. ASSUME NEW j \in Servers, NEW h \in handing'[j], <<r, m>> \in h.ears
          PROVE  /\ j = On(r)' /\ m <= question'[r].n /\ question'[r].pc # "idle"
                 /\ ear'[<<r, m>>] = <<>> /\ \A g \in handing'[j] : <<r, m>> \in g.ears => g = h
      <4>1. h \in handing[j] BY <3>3
      <4>2. /\ j = On(r) /\ m <= question[r].n /\ question[r].pc # "idle" /\ ear[<<r, m>>] = <<>>
            /\ \A g \in handing[j] : <<r, m>> \in g.ears => g = h
        BY <3>1, <3>5, <4>1, ZenonT(40) DEF InOnePlace
      <4> QED BY <3>2, <3>3, <4>2, Zenon
    <3>6. ear'[<<r, m>>] # <<>> =>
            Len(ear'[<<r, m>>]) = 1 /\ m <= question'[r].n /\ question'[r].pc # "idle"
      BY <3>1, <3>2, <3>3 DEF InOnePlace
    <3> QED BY <3>4, <3>5, <3>6, Zenon DEF InOnePlace
  <2>5. Counted(r) /\ NotDeaf(r) /\ HeardOf(r) BY DEF NewsInv
  <2>6. Counted(r)' /\ NotDeaf(r)' BY <2>1, <2>2, <2>3, <2>5, <1>1 DEF Counted, NotDeaf
  <2>7. \A v : Coming(r, v)' <=> Coming(r, v) BY <2>1, <2>2, <2>3, <1>1 DEF Coming
  <2>8. HeardOf(r)' BY <2>1, <2>2, <2>5, <2>7, <1>1 DEF HeardOf, Known, After
  <2> QED BY <2>4, <2>6, <2>8
<1> QED BY <1>3, <1>4, <1>5 DEF NewsInv

\* An answer, from a write that has landed.
LEMMA ReplyInv ==
  ASSUME NewsInv, NEW q \in Questions, NEW w \in 0..MaxWrites, Reply(q, w),
         UNCHANGED <<writes, handing, told>>,
         ear' \in [Ears -> Seq(Nil..MaxWrites)],
         \A r \in Questions \ {q} : \A m \in 0..MaxWrites : ear'[<<r, m>>] = ear[<<r, m>>],
         \A m \in 0..MaxWrites : ear'[<<q, m>>] # <<>> => ear'[<<q, m>>] = ear[<<q, m>>]
  PROVE  NewsInv'
<1>0. 0 \in 0..Over /\ {} \in SUBSET (0..MaxWrites) BY BoundsAreNumbers
<1>1. /\ question[q] \in QuestionStates /\ On(q) \in Servers /\ EarOf(q) = <<q, question[q].n>>
      /\ question[q].n \in 0..MaxWrites /\ EarOf(q) \in Ears
  BY NewsTyped DEF EarOf
<1>2. /\ question'[q] = [question[q] EXCEPT !.pc = "done", !.heard = w, !.known = 0, !.gap = {}]
      /\ question' = [question EXCEPT ![q] = question'[q]]
  BY DEF Reply, NewsInv, NewsTypeOK
<1>3. question'[q] \in QuestionStates /\ question'[q].on = On(q) /\ question'[q].pc = "done"
      /\ question'[q].n = question[q].n
  BY <1>1, <1>2, <1>0 DEF QuestionStates, On
<1>4. ears' = [ears EXCEPT ![On(q)] = @ \ {EarOf(q)}] BY DEF Reply, Stop, On
<1>5. ears' \in [Servers -> SUBSET Ears] BY <1>4 DEF NewsInv, NewsTypeOK
<1>6. \A j \in Servers : ears'[j] = (IF j = On(q) THEN ears[j] \ {EarOf(q)} ELSE ears[j])
  BY <1>4 DEF NewsInv, NewsTypeOK
<1>7. ASSUME NEW r \in Questions \ {q}, NEW m \in 0..MaxWrites, NEW j \in Servers
      PROVE  <<r, m>> \in ears'[j] <=> <<r, m>> \in ears[j]
  <2>1. <<r, m>> # EarOf(q) BY <1>1
  <2> QED BY <2>1, <1>6
<1>8. ASSUME NEW m \in 0..MaxWrites PROVE InOnePlace(q, m)'
  <2>1. InOnePlace(q, m) BY DEF NewsInv
  <2>2. ASSUME NEW j \in Servers, <<q, m>> \in ears'[j] PROVE FALSE
    <3>1. j = On(q) /\ m = question[q].n BY <2>1, <2>2, <1>6 DEF InOnePlace
    <3> QED BY <3>1, <2>2, <1>1, <1>6
  <2>3. ear'[<<q, m>>] # <<>> => ear'[<<q, m>>] = ear[<<q, m>>] OBVIOUS
  <2>4. handing' = handing /\ On(q)' = On(q) BY <1>3 DEF On
  <2> QED BY <2>1, <2>2, <2>3, <2>4, <1>3 DEF InOnePlace
<1>9. Counted(q)' /\ NotDeaf(q)' /\ HeardOf(q)'
  BY <1>3 DEF Counted, NotDeaf, HeardOf, Listening
<1> QED BY <1>2, <1>3, <1>5, <1>7, <1>8, <1>9, OthersKeep

LEMMA ListenInv == ASSUME NewsInv, NEW q \in Questions, Listen(q) PROVE NewsInv'
<1>1. PICK k \in 0..(Over - 1) :
        question' = [question EXCEPT ![q].pc = "read", ![q].known = k, ![q].gap = told[On(q)]]
  BY DEF Listen, Ask, On
<1>2. /\ question[q] \in QuestionStates /\ On(q) \in Servers /\ EarOf(q) = <<q, question[q].n>>
      /\ question[q].n \in 0..MaxWrites /\ EarOf(q) \in Ears /\ question[q].pc = "idle" /\ Over \in Nat
  BY NewsTyped DEF EarOf, Listen, Ask
<1>3. /\ question'[q] = [question[q] EXCEPT !.pc = "read", !.known = k, !.gap = told[On(q)]]
      /\ question' = [question EXCEPT ![q] = question'[q]]
  BY <1>1 DEF NewsInv, NewsTypeOK
<1>4. question'[q] \in QuestionStates /\ question'[q].on = On(q) /\ question'[q].pc = "read"
      /\ question'[q].n = question[q].n /\ question'[q].gap = told[On(q)]
  <2>1. k \in 0..Over /\ told[On(q)] \in SUBSET (0..MaxWrites) BY <1>2 DEF NewsInv, NewsTypeOK
  <2> QED BY <2>1, <1>2, <1>3 DEF QuestionStates, On
<1>5. ears' = [ears EXCEPT ![On(q)] = @ \cup {EarOf(q)}] /\ UNCHANGED <<writes, handing, ear, told>>
  BY DEF Listen, On
<1>6. ears' \in [Servers -> SUBSET Ears] /\ ear' \in [Ears -> Seq(Nil..MaxWrites)]
  BY <1>2, <1>5 DEF NewsInv, NewsTypeOK
<1>7. \A j \in Servers : ears'[j] = (IF j = On(q) THEN ears[j] \cup {EarOf(q)} ELSE ears[j])
  BY <1>5 DEF NewsInv, NewsTypeOK
<1>8. \A r \in Questions \ {q} : \A m \in 0..MaxWrites :
         /\ ear'[<<r, m>>] = ear[<<r, m>>]
         /\ \A j \in Servers : <<r, m>> \in ears'[j] <=> <<r, m>> \in ears[j]
  BY <1>2, <1>5, <1>7
<1>9. ASSUME NEW m \in 0..MaxWrites
      PROVE  /\ ear[<<q, m>>] = <<>>
             /\ \A j \in Servers : <<q, m>> \notin ears[j] /\ \A h \in handing[j] : <<q, m>> \notin h.ears
  <2>1. InOnePlace(q, m) BY DEF NewsInv
  <2> QED BY <2>1, <1>2 DEF InOnePlace, Listening
<1>a. On(q)' = On(q) /\ EarOf(q)' = EarOf(q) BY <1>4 DEF On, EarOf
<1>10. ASSUME NEW m \in 0..MaxWrites PROVE InOnePlace(q, m)'
  <2>1. ASSUME NEW j \in Servers, <<q, m>> \in ears'[j] PROVE j = On(q) /\ m = question[q].n
    <3>1. <<q, m>> \notin ears[j] BY <1>9
    <3>2. j = On(q) /\ <<q, m>> \in ears[j] \cup {EarOf(q)} BY <3>1, <2>1, <1>7
    <3>3. <<q, m>> = <<q, question[q].n>> BY <3>1, <3>2, <1>2
    <3> QED BY <3>2, <3>3
  <2> QED BY <2>1, <1>4, <1>5, <1>9, <1>a DEF InOnePlace, Listening
<1>11. HasEar(q)' BY <1>2, <1>7, <1>a DEF HasEar
<1>12. Counted(q)'
  <2>1. question[q].n = 0 BY <1>2 DEF NewsInv, Counted
  <2>2. Cardinality(told[On(q)]) \in Nat BY <1>2, NewsTyped, FS_CardinalityType
  <2> QED BY <2>1, <2>2, <1>4, <1>5, <1>11, <1>a DEF Counted
<1>13. NotDeaf(q)' BY <1>11 DEF NotDeaf
<1>14. HeardOf(q)' BY <1>4, <1>5, <1>a DEF HeardOf
<1> QED BY <1>3, <1>4, <1>5, <1>6, <1>8, <1>10, <1>12, <1>13, <1>14, OthersKeep

LEMMA ReadInv == ASSUME NewsInv, NEW q \in Questions, Read(q) PROVE NewsInv'
<1>1. /\ question[q] \in QuestionStates /\ On(q) \in Servers
      /\ question[q].n \in 0..MaxWrites /\ question[q].pc = "read"
      /\ Newest \in Nat /\ Newest <= MaxWrites /\ MaxWrites \in Nat /\ own[On(q)] \in 0..Newest
      /\ Over \in Nat
  BY NewsTyped DEF Read
<1>2. UNCHANGED <<writes, handing, ear, told>> /\ ear' \in [Ears -> Seq(Nil..MaxWrites)]
  BY DEF Read, NewsInv, NewsTypeOK
<1>3. CASE Reply(q, question[q].heard)
  <2>1. question[q].heard \in 0..MaxWrites BY <1>1 DEF QuestionStates
  <2> QED BY <1>2, <1>3, <2>1, ReplyInv
<1>4. ASSUME NEW floor \in 0..own[On(q)], NEW w \in floor..Newest, ReadAs(q, w, floor)
      PROVE  NewsInv'
  <2>1. w \in 0..Newest /\ w \in 0..MaxWrites /\ floor \in 0..Newest /\ floor <= w BY <1>1, <1>4
  <2>2. CASE Reply(q, w) BY <1>2, <2>1, <2>2, ReplyInv
  <2>3. CASE /\ HeardAlready(q, w)
             /\ question' = [question EXCEPT ![q].pc = "wait", ![q].heard = w,
                                              ![q].gap = {v \in @ : v > floor}]
             /\ UNCHANGED ears
    <3> DEFINE gap == {v \in question[q].gap : v > floor}
    <3>1. /\ question'[q] = [question[q] EXCEPT !.pc = "wait", !.heard = w, !.gap = gap]
          /\ question' = [question EXCEPT ![q] = question'[q]]
      BY <2>3 DEF NewsInv, NewsTypeOK
    <3>2. gap \in SUBSET (0..MaxWrites) BY <1>1 DEF QuestionStates
    <3>3. /\ question'[q] \in QuestionStates /\ question'[q].on = On(q) /\ question'[q].pc = "wait"
          /\ question'[q].n = question[q].n /\ question'[q].known = question[q].known
          /\ question'[q].gap = gap
      <4> HIDE DEF gap
      <4> QED BY <1>1, <2>1, <3>1, <3>2 DEF QuestionStates, On
    <3>4. /\ On(q)' = On(q) /\ EarOf(q)' = EarOf(q) /\ HasEar(q)' = HasEar(q)
          /\ handing' = handing /\ ear' = ear /\ told' = told
      BY <1>2, <2>3, <3>3 DEF On, EarOf, HasEar
    <3>5. ASSUME NEW m \in 0..MaxWrites PROVE InOnePlace(q, m)'
      <4>1. InOnePlace(q, m) BY DEF NewsInv
      <4> QED BY <4>1, <1>1, <2>3, <3>3, <3>4 DEF InOnePlace, Listening
    <3>6. Counted(q) /\ NotDeaf(q) /\ HeardOf(q) BY DEF NewsInv
    <3>7. Counted(q)' /\ NotDeaf(q)'
      BY <3>6, <3>3, <3>4, <1>1 DEF Counted, NotDeaf, Listening
\* What the read was held to is known from it; what was told since the question
\* was asked is on its way.
    <3>8. HeardOf(q)'
      <4> SUFFICES ASSUME NEW v \in told[On(q)] \ gap PROVE Known(q, v)' \/ Coming(q, v)'
        BY <3>3, <3>4 DEF HeardOf
      <4>1. CASE v \notin question[q].gap
        <5>1. Coming(q, v) BY <4>1, <3>6, <1>1 DEF HeardOf, Known, Listening
        <5> QED BY <5>1, <3>3, <3>4 DEF Coming
      <4>2. CASE v \in question[q].gap
        <5>1. told[On(q)] \subseteq 1..own[On(q)] BY <1>1 DEF NewsInv, WritesGoOn
        <5>2. v \in 0..Newest /\ v <= w BY <4>2, <5>1, <1>1, <2>1
        <5>3. After(v) <= After(w) BY <5>2, <2>1 DEF NewsInv, WritesGoOn
        <5>4. After(w) = question[q].known BY <2>3 DEF HeardAlready
        <5>5. After(v)' = After(v) BY <1>2 DEF After, writes
        <5> QED BY <5>3, <5>4, <5>5, <3>3 DEF Known
      <4> QED BY <4>1, <4>2
    <3>9. ears' \in [Servers -> SUBSET Ears] BY <2>3 DEF NewsInv, NewsTypeOK
    <3> QED BY <1>2, <2>3, <3>1, <3>3, <3>5, <3>7, <3>8, <3>9, OthersKeep
  <2> QED BY <1>4, <2>2, <2>3 DEF ReadAs
<1>5. \/ \E floor \in 0..own[On(q)] : \E w \in floor..Newest : ReadAs(q, w, floor)
      \/ Reply(q, question[q].heard)
  BY DEF Read, On
<1> QED BY <1>3, <1>4, <1>5

LEMMA HoldEndsInv == ASSUME NewsInv, NEW q \in Questions, HoldEnds(q) PROVE NewsInv'
<1>1. question[q].heard \in 0..MaxWrites BY NewsTyped DEF QuestionStates
<1>2. ear' \in [Ears -> Seq(Nil..MaxWrites)] BY DEF HoldEnds, NewsInv, NewsTypeOK
<1> QED BY <1>1, <1>2, ReplyInv DEF HoldEnds

\* Of a sequence of one element the tail is empty.
LEMMA OneOnly ==
  ASSUME NEW S, NEW s \in Seq(S), Len(s) = 1
  PROVE  Tail(s) \in Seq(S) /\ Len(Tail(s)) = 0
<1>1. s # <<>> OBVIOUS
<1> QED BY <1>1, HeadTailProperties

LEMMA HearInv == ASSUME NewsInv, NEW q \in Questions, Hear(q) PROVE NewsInv'
<1> DEFINE w == Head(ear[EarOf(q)])
<1>1. /\ question[q] \in QuestionStates /\ On(q) \in Servers /\ EarOf(q) = <<q, question[q].n>>
      /\ question[q].n \in 0..MaxWrites /\ EarOf(q) \in Ears /\ MaxWrites \in Nat
      /\ question[q].heard \in 0..MaxWrites
  BY NewsTyped DEF EarOf, QuestionStates
<1>2. question[q].pc = "wait" /\ ear[EarOf(q)] # <<>> /\ ear' = [ear EXCEPT ![EarOf(q)] = Tail(@)]
  BY DEF Hear
<1>3. UNCHANGED <<writes, handing, told>> BY DEF Hear
<1>4. \/ w = Nil /\ Reply(q, question[q].heard)
      \/ w # Nil /\ ~HeardAlready(q, w) /\ Reply(q, w)
      \/ /\ w # Nil /\ HeardAlready(q, w)
         /\ question' = [question EXCEPT ![q].pc = "woken", ![q].heard = w]
         /\ UNCHANGED ears
  BY DEF Hear
<1>5. ear[EarOf(q)] \in Seq(Nil..MaxWrites) BY <1>1 DEF NewsInv, NewsTypeOK
\* The ear held one thing handed, and no more is on its way to it.
<1>6. /\ Len(ear[EarOf(q)]) = 1
      /\ EarOf(q) \notin ears[On(q)] /\ \A h \in handing[On(q)] : EarOf(q) \notin h.ears
  <2>1. InOnePlace(q, question[q].n) BY <1>1 DEF NewsInv
  <2> QED BY <2>1, <1>1, <1>2 DEF InOnePlace
<1>7. w \in Nil..MaxWrites /\ Tail(ear[EarOf(q)]) = <<>>
  <2>1. w = ear[EarOf(q)][1] /\ 1 \in 1..Len(ear[EarOf(q)]) BY <1>2, <1>5, <1>6
  <2>2. w \in Nil..MaxWrites BY <2>1, <1>5, ElementOfSeq
  <2>3. Tail(ear[EarOf(q)]) \in Seq(Nil..MaxWrites) /\ Len(Tail(ear[EarOf(q)])) = 0
    BY <1>5, <1>6, OneOnly
  <2> QED BY <2>2, <2>3, EmptySeq
<1>8. ear'[EarOf(q)] = <<>> /\ ear' \in [Ears -> Seq(Nil..MaxWrites)]
  <2>1. <<>> \in Seq(Nil..MaxWrites) OBVIOUS
  <2>2. ear' = [ear EXCEPT ![EarOf(q)] = <<>>] BY <1>2, <1>7
  <2> QED BY <2>1, <2>2, <1>1 DEF NewsInv, NewsTypeOK
<1>9. ASSUME NEW e \in Ears, e # EarOf(q) PROVE ear'[e] = ear[e]
  BY <1>2, <1>9 DEF NewsInv, NewsTypeOK
<1>10. ASSUME NEW r \in Questions \ {q}, NEW m \in 0..MaxWrites PROVE ear'[<<r, m>>] = ear[<<r, m>>]
  <2>1. <<r, m>> # EarOf(q) /\ <<r, m>> \in Ears BY <1>1 DEF Ears
  <2> QED BY <2>1, <1>9
<1>11. ASSUME NEW m \in 0..MaxWrites, ear'[<<q, m>>] # <<>> PROVE ear'[<<q, m>>] = ear[<<q, m>>]
  <2>1. <<q, m>> \in Ears BY DEF Ears
  <2>2. <<q, m>> # EarOf(q) BY <1>11, <1>8
  <2> QED BY <2>1, <2>2, <1>9
<1> HIDE DEF w
<1>12. CASE w = Nil /\ Reply(q, question[q].heard)
  BY <1>12, <1>1, <1>3, <1>8, <1>10, <1>11, ReplyInv
<1>13. CASE w # Nil /\ ~HeardAlready(q, w) /\ Reply(q, w)
  <2>1. w \in 0..MaxWrites BY <1>1, <1>7, <1>13 DEF Nil
  <2> QED BY <2>1, <1>13, <1>3, <1>8, <1>10, <1>11, ReplyInv
<1>14. CASE /\ w # Nil /\ HeardAlready(q, w)
            /\ question' = [question EXCEPT ![q].pc = "woken", ![q].heard = w]
            /\ UNCHANGED ears
  <2>0. w \in 0..MaxWrites BY <1>1, <1>7, <1>14 DEF Nil
  <2>1. /\ question'[q] = [question[q] EXCEPT !.pc = "woken", !.heard = w]
        /\ question' = [question EXCEPT ![q] = question'[q]]
    BY <1>14 DEF NewsInv, NewsTypeOK
  <2>2. /\ question'[q] \in QuestionStates /\ question'[q].on = On(q) /\ question'[q].pc = "woken"
        /\ question'[q].n = question[q].n /\ question'[q].known = question[q].known
        /\ question'[q].gap = question[q].gap
    BY <1>1, <2>0, <2>1 DEF QuestionStates, On
  <2>3. On(q)' = On(q) /\ EarOf(q)' = EarOf(q) /\ HasEar(q)' = HasEar(q) /\ handing' = handing
        /\ told' = told /\ ears' = ears
    BY <1>3, <1>14, <2>2 DEF On, EarOf, HasEar
  <2>4. ASSUME NEW m \in 0..MaxWrites PROVE InOnePlace(q, m)'
    <3>1. InOnePlace(q, m) BY DEF NewsInv
    <3>2. CASE m = question[q].n
      <4>1. <<q, m>> = EarOf(q) BY <3>2, <1>1
      <4>2. /\ ear'[<<q, m>>] = <<>>
            /\ \A j \in Servers : <<q, m>> \notin ears[j] /\ \A h \in handing[j] : <<q, m>> \notin h.ears
        <5>1. ear'[<<q, m>>] = <<>> BY <4>1, <1>8
        <5>2. ASSUME NEW j \in Servers PROVE <<q, m>> \notin ears[j] BY <3>1, <4>1, <1>6 DEF InOnePlace
        <5>3. ASSUME NEW j \in Servers, NEW h \in handing[j] PROVE <<q, m>> \notin h.ears
          BY <3>1, <4>1, <1>6 DEF InOnePlace
        <5> QED BY <5>1, <5>2, <5>3
      <4> QED BY <4>2, <2>3 DEF InOnePlace
    <3>3. CASE m # question[q].n
      <4>1. <<q, m>> \in Ears BY DEF Ears
      <4>2. <<q, m>> # EarOf(q) BY <3>3, <1>1
      <4>3. ear'[<<q, m>>] = ear[<<q, m>>] BY <4>1, <4>2, <1>9
      <4> QED BY <3>1, <3>3, <4>3, <2>2, <2>3, <1>2 DEF InOnePlace, Listening
    <3> QED BY <3>2, <3>3
  <2>5. Counted(q) /\ HeardOf(q) BY DEF NewsInv
  <2>6. ~HasEar(q) BY <1>6 DEF HasEar
  <2>7. Counted(q)' BY <2>5, <2>6, <2>2, <2>3, <1>2 DEF Counted, Listening
  <2>8. NotDeaf(q)' BY <2>2 DEF NotDeaf
  <2>9. HeardOf(q)'
    <3> SUFFICES ASSUME NEW v \in told[On(q)] \ question[q].gap PROVE After(v)' <= question[q].known
      BY <2>2, <2>3 DEF HeardOf, Known
    <3>1. After(v) <= question[q].known \/ Coming(q, v) BY <2>5, <1>2 DEF HeardOf, Known, Listening
    <3>2. After(v)' = After(v) BY <1>3 DEF After, writes
    <3>3. CASE Coming(q, v)
      <4>1. w \in {v, Nil} BY <3>3, <1>6 DEF Coming, w
      <4>2. w = v BY <4>1, <1>14
      <4>3. After(v) = question[q].known BY <4>2, <1>14 DEF HeardAlready
      <4>4. question[q].known \in 0..Over /\ Over \in Nat BY <1>1, NewsTyped DEF QuestionStates
      <4> QED BY <4>3, <4>4, <3>2
    <3> QED BY <3>1, <3>2, <3>3
  <2>10. ears' \in [Servers -> SUBSET Ears] BY <1>14 DEF NewsInv, NewsTypeOK
  <2> QED BY <1>3, <1>8, <1>10, <1>14, <2>1, <2>2, <2>4, <2>7, <2>8, <2>9, <2>10, OthersKeep
<1> QED BY <1>4, <1>12, <1>13, <1>14

LEMMA ListenAgainInv == ASSUME NewsInv, NEW q \in Questions, ListenAgain(q) PROVE NewsInv'
<1> DEFINE n == question[q].n
<1>1. /\ question[q] \in QuestionStates /\ On(q) \in Servers /\ EarOf(q) = <<q, n>>
      /\ n \in 0..MaxWrites /\ EarOf(q) \in Ears /\ MaxWrites \in Nat /\ question[q].pc = "woken"
  BY NewsTyped DEF EarOf, ListenAgain
\* As often as it listened, a write was told: the bound is not passed.
<1>2. /\ ~HasEar(q) /\ n + 1 <= Cardinality(told[On(q)])
      /\ Cardinality(told[On(q)]) \in Nat /\ n + 1 \in 0..MaxWrites
  <2>1. Counted(q) BY DEF NewsInv
  <2>2. ~HasEar(q) /\ n + 1 <= Cardinality(told[On(q)]) BY <2>1, <1>1 DEF Counted, Listening
  <2>3. /\ Cardinality(told[On(q)]) \in 0..own[On(q)] /\ own[On(q)] \in 0..Newest
        /\ Newest \in Nat /\ Newest <= MaxWrites
    BY <1>1, NewsTyped
  <2> QED BY <2>2, <2>3, <1>1
<1>3. /\ question' = [question EXCEPT ![q].pc = "wait", ![q].n = @ + 1]
      /\ ears' = [ears EXCEPT ![On(q)] = (@ \ {EarOf(q)}) \cup {<<q, n + 1>>}]
      /\ UNCHANGED <<writes, handing, ear, told>>
  BY DEF ListenAgain, On
<1>4. /\ question'[q] = [question[q] EXCEPT !.pc = "wait", !.n = n + 1]
      /\ question' = [question EXCEPT ![q] = question'[q]]
  BY <1>3 DEF NewsInv, NewsTypeOK
<1>5. /\ question'[q] \in QuestionStates /\ question'[q].on = On(q) /\ question'[q].pc = "wait"
      /\ question'[q].n = n + 1 /\ question'[q].known = question[q].known
      /\ question'[q].gap = question[q].gap
  BY <1>1, <1>2, <1>4 DEF QuestionStates, On
<1>6. handing' = handing /\ ear' = ear /\ told' = told /\ left' = left BY <1>3 DEF writes
<1>7. On(q)' = On(q) /\ EarOf(q)' = <<q, n + 1>> BY <1>5 DEF On, EarOf
<1>8. \A j \in Servers : ears'[j] = (IF j = On(q) THEN (ears[j] \ {EarOf(q)}) \cup {<<q, n + 1>>} ELSE ears[j])
  BY <1>3 DEF NewsInv, NewsTypeOK
<1>9. ears' \in [Servers -> SUBSET Ears] /\ ear' \in [Ears -> Seq(Nil..MaxWrites)]
  <2>1. <<q, n + 1>> \in Ears BY <1>2 DEF Ears
  <2> QED BY <2>1, <1>3 DEF NewsInv, NewsTypeOK
<1>10. ASSUME NEW r \in Questions \ {q}, NEW m \in 0..MaxWrites
       PROVE  /\ ear'[<<r, m>>] = ear[<<r, m>>]
              /\ \A j \in Servers : <<r, m>> \in ears'[j] <=> <<r, m>> \in ears[j]
  <2>1. <<r, m>> # EarOf(q) /\ <<r, m>> # <<q, n + 1>> BY <1>1
  <2> QED BY <2>1, <1>6, <1>8
<1>11. ASSUME NEW m \in 0..MaxWrites PROVE InOnePlace(q, m)'
  <2>1. InOnePlace(q, m) BY DEF NewsInv
  <2>2. CASE m = n + 1
    <3>1. ~(m <= n) /\ m # n BY <2>2, <1>1
    <3>2. ear[<<q, m>>] = <<>> BY <2>1, <3>1 DEF InOnePlace
    <3>3. \A j \in Servers : \A h \in handing[j] : <<q, m>> \notin h.ears BY <2>1, <3>1 DEF InOnePlace
    <3>4. \A j \in Servers : <<q, m>> \in ears'[j] => j = On(q)
      <4> SUFFICES ASSUME NEW j \in Servers, j # On(q), <<q, m>> \in ears'[j] PROVE FALSE OBVIOUS
      <4>1. <<q, m>> \in ears[j] BY <1>8
      <4> QED BY <4>1, <2>1 DEF InOnePlace
    <3> QED BY <2>2, <3>2, <3>3, <3>4, <1>5, <1>6, <1>7 DEF InOnePlace, Listening
  <2>3. CASE m # n + 1
    <3>1. ASSUME NEW j \in Servers, <<q, m>> \in ears'[j] PROVE FALSE
      <4>1. <<q, m>> # <<q, n + 1>> BY <2>3
      <4>2. <<q, m>> \in ears[j] /\ (j = On(q) => <<q, m>> # EarOf(q)) BY <3>1, <4>1, <1>8
      <4>3. j = On(q) /\ m = n BY <4>2, <2>1 DEF InOnePlace
      <4> QED BY <4>2, <4>3, <1>1
    <3>2. m <= n => m <= n + 1 BY <1>1
    <3> QED BY <2>1, <3>1, <3>2, <1>1, <1>5, <1>6, <1>7 DEF InOnePlace
  <2> QED BY <2>2, <2>3
<1>12. HasEar(q)' BY <1>1, <1>7, <1>8 DEF HasEar
<1>13. Counted(q)' BY <1>2, <1>5, <1>6, <1>7, <1>12 DEF Counted
<1>14. NotDeaf(q)' BY <1>12 DEF NotDeaf
<1>15. HeardOf(q)'
  <2> SUFFICES ASSUME NEW v \in told[On(q)] \ question[q].gap PROVE After(v)' <= question[q].known
    BY <1>5, <1>6, <1>7 DEF HeardOf, Known
  <2>1. HeardOf(q) BY DEF NewsInv
  <2>2. After(v) <= question[q].known \/ Coming(q, v) BY <2>1, <1>1 DEF HeardOf, Known, Listening
  <2>3. ~Coming(q, v) BY <1>1 DEF Coming
  <2> QED BY <2>2, <2>3, <1>6 DEF After
<1> QED BY <1>3, <1>4, <1>5, <1>9, <1>10, <1>11, <1>13, <1>14, <1>15, OthersKeep

-----------------------------------------------------------------------------

LEMMA NewsNextInv == ASSUME NewsInv, [NewsNext]_news_vars PROVE NewsInv'
<1>1. ASSUME NEW i \in Servers, Land(i) \/ Tell(i) \/ Hand(i) PROVE NewsInv'
  BY <1>1, LandInv, TellInv, HandInv
<1>2. ASSUME NEW q \in Questions, NewsStep(q) PROVE NewsInv'
  <2>1. CASE Listen(q) BY <2>1, ListenInv
  <2>2. CASE Read(q) BY <2>2, ReadInv
  <2>3. CASE Hear(q) BY <2>3, HearInv
  <2>4. CASE ListenAgain(q) BY <2>4, ListenAgainInv
  <2>5. CASE HoldEnds(q) BY <2>5, HoldEndsInv
  <2> QED BY <1>2, <2>1, <2>2, <2>3, <2>4, <2>5 DEF NewsStep
<1>3. CASE UNCHANGED news_vars
  <2>1. /\ left' = left /\ own' = own /\ untold' = untold /\ handing' = handing /\ ears' = ears
        /\ ear' = ear /\ question' = question /\ told' = told
    BY <1>3 DEF news_vars
  <2>2. NewsTypeOK' BY <2>1 DEF NewsInv, NewsTypeOK
  <2>3. WritesGoOn' BY <2>1 DEF NewsInv, WritesGoOn, Newest, After
  <2>4. ASSUME NEW q \in Questions
        PROVE  /\ \A m \in 0..MaxWrites : InOnePlace(q, m)'
               /\ Counted(q)' /\ NotDeaf(q)' /\ HeardOf(q)'
    <3>1. On(q)' = On(q) /\ EarOf(q)' = EarOf(q) /\ HasEar(q)' = HasEar(q)
      BY <2>1 DEF On, EarOf, HasEar
    <3>2. \A v : Coming(q, v)' = Coming(q, v) BY <2>1, <3>1 DEF Coming
    <3>3. ASSUME NEW m \in 0..MaxWrites PROVE InOnePlace(q, m)'
      <4>1. InOnePlace(q, m) BY DEF NewsInv
      <4> QED BY <4>1, <2>1, <3>1 DEF InOnePlace
    <3>4. Counted(q)' /\ NotDeaf(q)' BY <2>1, <3>1 DEF NewsInv, Counted, NotDeaf
    <3>5. HeardOf(q)'
      <4>1. HeardOf(q) BY DEF NewsInv
      <4> QED BY <4>1, <2>1, <3>1, <3>2 DEF HeardOf, Known, After
    <3> QED BY <3>3, <3>4, <3>5
  <2> QED BY <2>2, <2>3, <2>4 DEF NewsInv
<1> QED BY <1>1, <1>2, <1>3 DEF NewsNext

\* What is handed, of any instance, to an ear is at most one write, and none
\* once the ear was handed one.
LEMMA HandedOnce == ASSUME NewsInv PROVE NoWriteWaits
<1> DEFINE Handed(e) == {h \in UNION {handing[i] : i \in Servers} : e \in h.ears}
<1> SUFFICES ASSUME NEW q \in Questions, NEW m \in 0..MaxWrites
             PROVE  Len(ear[<<q, m>>]) + Cardinality(Handed(<<q, m>>)) <= 1
  BY DEF NoWriteWaits, Ears
<1>1. InOnePlace(q, m) BY DEF NewsInv
<1>2. ASSUME NEW g \in Handed(<<q, m>>), NEW h \in Handed(<<q, m>>) PROVE g = h /\ ear[<<q, m>>] = <<>>
  <2>1. g \in handing[On(q)] BY <1>1 DEF InOnePlace
  <2>2. h \in handing[On(q)] BY <1>1 DEF InOnePlace
  <2>3. On(q) \in Servers BY NewsTyped
  <2> QED BY <2>1, <2>2, <2>3, <1>1 DEF InOnePlace
<1>4. CASE Handed(<<q, m>>) = {}
  <2>1. Cardinality(Handed(<<q, m>>)) = 0 BY <1>4, FS_EmptySet
  <2>2. CASE ear[<<q, m>>] = <<>>
    <3>1. Len(ear[<<q, m>>]) = 0 BY <2>2
    <3> QED BY <2>1, <3>1
  <2>3. CASE ear[<<q, m>>] # <<>>
    <3>1. Len(ear[<<q, m>>]) = 1 BY <2>3, <1>1 DEF InOnePlace
    <3> QED BY <2>1, <3>1
  <2> QED BY <2>2, <2>3
<1>5. CASE Handed(<<q, m>>) # {}
  <2>1. PICK h \in Handed(<<q, m>>) : TRUE BY <1>5
  <2>2. Handed(<<q, m>>) = {h} /\ ear[<<q, m>>] = <<>> BY <1>2, <2>1
  <2>3. Cardinality(Handed(<<q, m>>)) = 1 BY <2>2, FS_Singleton
  <2>4. Len(ear[<<q, m>>]) = 0 BY <2>2
  <2> QED BY <2>3, <2>4
<1> QED BY <1>4, <1>5

\* What is written reaches every question that waits for it, and holds nobody
\* up, however many questions wait on however many instances (news.go,
\* readtask.go).
THEOREM NewsReaches == NewsSpec => []NewsReachesAll
<1>1. NewsInit => NewsInv BY NewsInitInv
<1>2. NewsInv /\ [NewsNext]_news_vars => NewsInv' BY NewsNextInv
<1>3. NewsInv => NewsReachesAll
  <2> SUFFICES ASSUME NewsInv PROVE NewsReachesAll OBVIOUS
  <2>1. NeverDeaf
    <3> SUFFICES ASSUME NEW q \in Questions, question[q].pc = "wait"
                 PROVE  \/ EarOf(q) \in ears[On(q)]
                        \/ \E h \in handing[On(q)] : EarOf(q) \in h.ears
                        \/ ear[EarOf(q)] # <<>>
      BY DEF NeverDeaf, On
    <3> QED BY DEF NewsInv, NotDeaf, HasEar
  <2>2. EarsAreInUse
    <3> SUFFICES ASSUME NEW i \in Servers, NEW e \in ears[i]
                 PROVE  \E q \in Questions : /\ e = EarOf(q) /\ question[q].on = i
                                            /\ question[q].pc \in {"read", "wait", "woken"}
      BY DEF EarsAreInUse
    <3>1. e \in Ears BY DEF NewsInv, NewsTypeOK
    <3>2. PICK q \in Questions, m \in 0..MaxWrites : e = <<q, m>> BY <3>1 DEF Ears
    <3>3. InOnePlace(q, m) BY DEF NewsInv
    <3> QED BY <3>2, <3>3 DEF InOnePlace, On, EarOf, Listening
  <2>3. NoNewsMissed
    <3> SUFFICES ASSUME NEW q \in Questions, question[q].pc = "wait", EarOf(q) \in ears[On(q)],
                        NEW w \in told[On(q)] \ question[q].gap
                 PROVE  After(w) <= question[q].known
      BY DEF NoNewsMissed, On
    <3>1. question[q].n \in 0..MaxWrites /\ EarOf(q) = <<q, question[q].n>> /\ On(q) \in Servers
      BY NewsTyped DEF EarOf
    <3>2. InOnePlace(q, question[q].n) BY <3>1 DEF NewsInv
    <3>3. ~Coming(q, w) BY <3>1, <3>2 DEF InOnePlace, Coming
    <3>4. HeardOf(q) BY DEF NewsInv
    <3> QED BY <3>3, <3>4 DEF HeardOf, Known, Listening
  <2>4. NoWriteWaits BY HandedOnce
  <2> QED BY <2>1, <2>2, <2>3, <2>4 DEF NewsReachesAll, NewsInv
<1> QED BY <1>1, <1>2, <1>3, PTL DEF NewsSpec
=============================================================================
