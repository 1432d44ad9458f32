-------------------------------- MODULE News --------------------------------
(***************************************************************************)
(* The questions of a card that waits for its task, each held until there  *)
(* is news of the account on its instance (internal/transport/mcp:         *)
(* readtask.go, news.go).  One account; its profile is known by what each  *)
(* write left of the task the card waits for.                              *)
(***************************************************************************)
EXTENDS Integers, Sequences, FiniteSets, FiniteSetsExt

CONSTANTS
    Servers,    \* instances of the service
    Questions,  \* the questions of read_task, each asked once
    Over,       \* how a task stands that is written no more; less than Over,
                \* the number of its tries that were turned down
    MaxWrites   \* bound: how often the profile is written

ASSUME BoundsAreNumbers == Over \in Nat /\ MaxWrites \in Nat

VARIABLES
    left,       \* the file: how the task stood after each write, the first
                \* element after none
    own,        \* the latest write of each instance
    untold,     \* on each instance: writes that landed and are not told yet
    handing,    \* on each instance: what is being handed to which ears
    ears,       \* on each instance: the ears for the account's next write
    ear,        \* what each ear was handed and its question has not taken
    question,   \* where each question is
    told        \* history: the writes told on each instance

news_vars == <<left, own, untold, handing, ears, ear, question, told>>
writes == <<left, own, untold>>

\* A question has one ear at first, and a new one each time news wakes it.
Ears == Questions \X (0..MaxWrites)

\* known is what the card has heard, heard is the write answered from if there
\* is no news, gap the writes that were told while the question had no ear and
\* that its read need not have seen.
QuestionStates ==
    [pc : {"idle", "read", "wait", "woken", "done"}, on : Servers,
     known : 0..Over, heard : 0..MaxWrites, n : 0..MaxWrites, gap : SUBSET (0..MaxWrites)]

\* What is handed when a profile could not be written down.
Nil == -1

NewsTypeOK ==
    /\ left \in Seq(0..Over)
    /\ own \in [Servers -> 0..MaxWrites]
    /\ untold \in [Servers -> SUBSET (0..MaxWrites)]
    /\ handing \in [Servers -> SUBSET [ears : SUBSET Ears, write : 0..MaxWrites]]
    /\ ears \in [Servers -> SUBSET Ears]
    /\ ear \in [Ears -> Seq(Nil..MaxWrites)]
    /\ question \in [Questions -> QuestionStates]
    /\ told \in [Servers -> SUBSET (0..MaxWrites)]

NewsInit ==
    /\ left = <<0>>
    /\ own = [i \in Servers |-> 0]
    /\ untold = [i \in Servers |-> {}]
    /\ handing = [i \in Servers |-> {}]
    /\ ears = [i \in Servers |-> {}]
    /\ ear = [e \in Ears |-> <<>>]
    /\ question \in
        [Questions -> [pc : {"idle"}, on : Servers, known : {0}, heard : {0}, n : {0}, gap : {{}}]]
    /\ told = [i \in Servers |-> {}]

-----------------------------------------------------------------------------
(* The writes                                                              *)

\* The latest write, and how the task stood after one.
Newest == Len(left) - 1
After(w) == left[w + 1]

\* telling.Save: a write lands; it turns a try down, ends the wait for the
\* task, or leaves the task as it was.
Land(i) ==
    /\ Newest < MaxWrites
    /\ \E stands \in After(Newest)..Over : left' = Append(left, stands)
    /\ own' = [own EXCEPT ![i] = Newest + 1]
    /\ untold' = [untold EXCEPT ![i] = @ \cup {Newest + 1}]
    /\ UNCHANGED <<handing, ears, ear, question, told>>

\* Mutant: the ears are handed the profile, and taken away by their questions.
TellAndLeave(i) ==
    \E w \in untold[i] :
        /\ untold' = [untold EXCEPT ![i] = @ \ {w}]
        /\ handing' = [handing EXCEPT ![i] = @ \cup {[ears |-> ears[i], write |-> w]}]
        /\ told' = [told EXCEPT ![i] = @ \cup {w}]
        /\ UNCHANGED <<left, own, ears, ear, question>>

\* tell, under the mutex: the ears there are taken away.  Writes of an instance
\* that returned from the store one after the other may tell in any order.
Tell(i) ==
    \E w \in untold[i] :
        /\ untold' = [untold EXCEPT ![i] = @ \ {w}]
        /\ handing' = [handing EXCEPT ![i] = @ \cup {[ears |-> ears[i], write |-> w]}]
        /\ ears' = [ears EXCEPT ![i] = {}]
        /\ told' = [told EXCEPT ![i] = @ \cup {w}]
        /\ question' = [q \in Questions |->
                            IF question[q].on = i /\ question[q].pc \in {"read", "wait", "woken"}
                                /\ \A n \in 0..MaxWrites : <<q, n>> \notin ears[i]
                            THEN [question[q] EXCEPT !.gap = @ \cup {w}] ELSE question[q]]
        /\ UNCHANGED <<left, own, ear>>

\* tell, after it: each ear taken is handed the profile written, or nothing.
Hand(i) ==
    \E h \in handing[i] :
        /\ \E bytes \in {h.write, Nil} :
            ear' = [e \in Ears |-> IF e \in h.ears THEN Append(ear[e], bytes) ELSE ear[e]]
        /\ handing' = [handing EXCEPT ![i] = @ \ {h}]
        /\ UNCHANGED <<writes, ears, question, told>>

-----------------------------------------------------------------------------
(* The questions                                                           *)

EarOf(q) == <<q, question[q].n>>

\* heardAlready.
HeardAlready(q, w) == After(w) = question[q].known /\ After(w) < Over

\* The card says how many tries it has heard were turned down.
Ask(q) ==
    /\ question[q].pc = "idle"
    /\ \E k \in 0..(Over - 1) :
        /\ k <= After(Newest)
        /\ question' = [question EXCEPT ![q].pc = "read", ![q].known = k,
                                         ![q].gap = told[question[q].on]]

\* Mutant: the question listens only once news is late.
ListenLate(q) == Ask(q) /\ UNCHANGED <<writes, handing, ears, ear, told>>

\* readTask listens before it reads.
Listen(q) ==
    /\ Ask(q)
    /\ ears' = [ears EXCEPT ![question[q].on] = @ \cup {EarOf(q)}]
    /\ UNCHANGED <<writes, handing, ear, told>>

\* Mutant: an ear is taken away only by the news.
StopNot(q) == UNCHANGED ears

\* stop: the question's latest ear is taken away, if it is still there.
Stop(q) == ears' = [ears EXCEPT ![question[q].on] = @ \ {EarOf(q)}]

\* The question is answered from a write; what the card had heard goes with it.
Reply(q, w) ==
    /\ question' = [question EXCEPT ![q].pc = "done", ![q].heard = w,
                                     ![q].known = 0, ![q].gap = {}]
    /\ Stop(q)

\* What is done with a read that came back with write w, and was held to writes
\* up to this one.
ReadAs(q, w, floor) ==
    \/ ~HeardAlready(q, w) /\ Reply(q, w)
    \/ /\ HeardAlready(q, w)
       /\ question' = [question EXCEPT ![q].pc = "wait", ![q].heard = w,
                                        ![q].gap = {v \in @ : v > floor}]
       /\ UNCHANGED ears

\* Mutant: a read that stays behind the write it is held to is taken as it is.
ReadBehind(q) ==
    /\ question[q].pc = "read"
    /\ \E floor \in 0..own[question[q].on], w \in 0..Newest : ReadAs(q, w, floor)
    /\ UNCHANGED <<writes, handing, ear, told>>

\* The first read of the file, which may be early: the store holds it to what
\* this instance had last written when it began, and to nothing where it has let
\* that number go, after a read that stayed behind it, or has forgotten the file,
\* or found it anew (read.go, remembered.go).  What the card has not heard is
\* answered at once, as is a read that fails or stays behind.
Read(q) ==
    /\ question[q].pc = "read"
    /\ \/ \E floor \in 0..own[question[q].on] : \E w \in floor..Newest : ReadAs(q, w, floor)
       \/ Reply(q, question[q].heard)
    /\ UNCHANGED <<writes, handing, ear, told>>

\* newsBefore: the news.
Hear(q) ==
    /\ question[q].pc = "wait"
    /\ ear[EarOf(q)] # <<>>
    /\ ear' = [ear EXCEPT ![EarOf(q)] = Tail(@)]
    /\ LET w == Head(ear[EarOf(q)]) IN
        \/ w = Nil /\ Reply(q, question[q].heard)
        \/ w # Nil /\ ~HeardAlready(q, w) /\ Reply(q, w)
        \/ /\ w # Nil /\ HeardAlready(q, w)
           /\ question' = [question EXCEPT ![q].pc = "woken", ![q].heard = w]
           /\ UNCHANGED ears
    /\ UNCHANGED <<writes, handing, told>>

\* A write that leaves the task as the card knows it: the question listens
\* again, with an ear of its own.
ListenAgain(q) ==
    /\ question[q].pc = "woken"
    /\ question' = [question EXCEPT ![q].pc = "wait", ![q].n = @ + 1]
    /\ ears' = [ears EXCEPT ![question[q].on] =
                        (@ \ {EarOf(q)}) \cup {<<q, question[q].n + 1>>}]
    /\ UNCHANGED <<writes, handing, ear, told>>

\* Mutant: the end of the hold is looked at only when news wakes the question.
HoldEndsUnseen(q) ==
    /\ question[q].pc = "wait"
    /\ ear[EarOf(q)] # <<>>
    /\ Reply(q, question[q].heard)
    /\ UNCHANGED <<writes, handing, ear, told>>

\* newsBefore: the hold, or the call, ends first, or is found to have ended at
\* the same time as the news came, and is answered to.
HoldEnds(q) ==
    /\ question[q].pc = "wait"
    /\ Reply(q, question[q].heard)
    /\ UNCHANGED <<writes, handing, ear, told>>

-----------------------------------------------------------------------------

NewsStep(q) == Listen(q) \/ Read(q) \/ Hear(q) \/ ListenAgain(q) \/ HoldEnds(q)

NewsNext ==
    \/ \E i \in Servers : Land(i) \/ Tell(i) \/ Hand(i)
    \/ \E q \in Questions : NewsStep(q)

\* A question that has begun runs on; its hold ends, and a select that finds it
\* ended again and again takes it at last.
NewsFairness ==
    \A q \in Questions :
        /\ WF_news_vars(Read(q))
        /\ WF_news_vars(ListenAgain(q))
        /\ SF_news_vars(HoldEnds(q))

NewsSpec == NewsInit /\ [][NewsNext]_news_vars /\ NewsFairness

-----------------------------------------------------------------------------

\* A question that waits is never deaf: its ear is there for the next write, or
\* a write that took it has handed it the profile or is about to (news.go:31-33,
\* readtask.go:76-77).
NeverDeaf ==
    \A q \in Questions : question[q].pc = "wait" =>
        \/ EarOf(q) \in ears[question[q].on]
        \/ \E h \in handing[question[q].on] : EarOf(q) \in h.ears
        \/ ear[EarOf(q)] # <<>>

\* An instance keeps no ear of a question that was answered, or that listens
\* with another by now, however the news and the end of the hold meet.
EarsAreInUse ==
    \A i \in Servers : ears[i] \subseteq
        {EarOf(q) : q \in {q \in Questions :
            question[q].on = i /\ question[q].pc \in {"read", "wait", "woken"}}}

\* Each ear is handed one profile, and has room for it, so a write never waits
\* for a question (news.go:51-56).
NoWriteWaits ==
    \A e \in Ears :
        Len(ear[e]) + Cardinality({h \in UNION {handing[i] : i \in Servers} : e \in h.ears}) <= 1

\* A question that goes on listening has missed no write of its instance that
\* changed the task, of those its read was held to and those told since it was
\* asked: one that landed while the file was read is heard (readtask.go:76-77).
\* The gaps are two.  Of what was told before it was asked the read may be too
\* early to tell, once the store holds it to no number (readtask.go:78-81); and
\* between the news that woke it and its next ear a question hears nothing.
NoNewsMissed ==
    \A q \in Questions :
        LET i == question[q].on IN
        question[q].pc = "wait" /\ EarOf(q) \in ears[i] =>
            \A w \in told[i] \ question[q].gap : After(w) <= question[q].known

\* Every question is answered, whatever is written meanwhile.
EveryQuestionEnds ==
    \A q \in Questions : question[q].pc = "read" ~> question[q].pc = "done"


\* What is written reaches every question that waits for it, and holds nobody up:
\* no ear is missing, none is left behind and none is handed more than it takes.
NewsReachesAll == NewsTypeOK /\ NeverDeaf /\ EarsAreInUse /\ NoWriteWaits /\ NoNewsMissed
=============================================================================
