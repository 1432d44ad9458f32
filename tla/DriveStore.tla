----------------------------- MODULE DriveStore -----------------------------
(***************************************************************************)
(* The store that keeps one account's profile as a file in the parent's    *)
(* Google Drive (internal/store/drive), served by several instances that   *)
(* share nothing but that Drive.                                           *)
(*                                                                         *)
(* Every request to Drive is a step of its own, and so is what the         *)
(* instance does with the answer: between the two, other calls, other      *)
(* instances and the parent act.  Each call is one session of a tool:      *)
(* Load and then Save, or Create, Restore or StartOver.                    *)
(*                                                                         *)
(* A file's content is known by what the store can tell apart: whether     *)
(* this build reads it, the profile's own number, and who wrote it, which  *)
(* stands for the digest of the bytes.                                     *)
(***************************************************************************)
EXTENDS Integers, Sequences, FiniteSets, SequencesExt

CONSTANTS
    Instances,      \* instances of the service
    Calls,          \* sessions of the tools, each made at most once
    Files,          \* identities of files in the parent's Drive
    NoFile,         \* no file at all
    NoCall,         \* nobody
    Grounds         \* the settings the sessions may be made in

AllOps == {"write", "create", "restore", "startOver"}
AllParentActs == {"damage", "newer", "break", "edit", "bin", "unbin", "erase"}

\* A file this build reads; one of a newer build; one that is no profile at
\* all; and a profile that breaks a rule.
Kinds == {"reads", "newer", "damaged", "broken"}

\* A setting, one for good in each behaviour:
\*   home           the instance each call runs on
\*   made           the calls made
\*   maxAtFirst     bound: how many files carry the marker at first
\*   firstKinds     what those hold: a subset of Kinds
\*   ops            the sessions made: a subset of AllOps
\*   parentActs     what the parent does to files by hand
\*   maxParentActs  bound: how often the parent acts
\*   maxLapses      bound: how often an instance's memory lapses
\*   staleReads     Drive may answer a read with the state before the last
\*   lostAnswers    a write may land without its answer being heard
\*   lateLandings   ... and land after its caller stopped waiting
ASSUME GroundsAreKnown ==
    \A g \in Grounds :
        /\ g.home \in [Calls -> Instances]
        /\ g.made \subseteq Calls
        /\ g.ops \subseteq AllOps /\ g.parentActs \subseteq AllParentActs
        /\ g.firstKinds \subseteq Kinds
        /\ g.maxParentActs \in Nat /\ g.maxLapses \in Nat /\ g.maxAtFirst \in Nat
        /\ g.staleReads \in BOOLEAN /\ g.lostAnswers \in BOOLEAN /\ g.lateLandings \in BOOLEAN
        /\ Cardinality(Files) >= g.maxAtFirst + Cardinality(g.made)
ASSUME NoFileIsNone == NoFile \notin Files
ASSUME NoCallIsNone == NoCall \notin Calls
ASSUME CallsAreFinite == IsFiniteSet(Calls)
\* A call is told from the number of an act of the parent's.
ASSUME CallsAreNoNumbers == Calls \cap Nat = {}

VARIABLES
    ground,     \* the setting, one of Grounds
    file,       \* the files: their marker, whether in the bin, their history
    recent,     \* the files ever made, the most recently changed first
    mem,        \* what each instance remembers of the account's file
    holder,     \* whose turn it is on each instance
    st,         \* the state of each call
    adrift,     \* the calls whose upload is still on its way to Drive
    acts,       \* how often the parent acted
    lapses,     \* how often a memory lapsed
    behind,     \* history: the files an instance refused a read of as behind,
                \* and has written nothing to since
    told,       \* history: ... of those, the ones refused before a call began
    landed      \* history: the calls whose write Drive has made

vars == <<ground, file, recent, mem, holder, st, adrift, acts, lapses, behind, told, landed>>
world == <<file, recent, landed>>
bounds == <<ground, acts, lapses>>
refusals == <<behind, told>>

Home == ground.home

-----------------------------------------------------------------------------
(* Contents, files and what Drive answers                                  *)

\* Who wrote a content: a call, or the parent by the number of the act; 0 is
\* whoever wrote the profile there was at first.
Authors == Calls \cup 0..ground.maxParentActs
\* Each call touches the profile once at most.
Numbers == 0..(Cardinality(Calls) + 1)
Contents == [kind : Kinds, rev : Numbers, by : Authors]

Nothing == [kind |-> "damaged", rev |-> 0, by |-> 0]
First == [kind |-> "reads", rev |-> 1, by |-> 0]

Marks == {"none", "profile", "aside"}
NeverMade == [mark |-> "none", inBin |-> FALSE, past |-> <<>>, hand |-> NoCall]

\* The members of A in s, in their order.
Among(s, A) ==
    LET upTo[n \in 0..Len(s)] ==
            IF n = 0 THEN <<>>
            ELSE IF s[n] \in A THEN Append(upTo[n - 1], s[n]) ELSE upTo[n - 1]
    IN  upTo[Len(s)]

Exists(f) == file[f].mark # "none"
Now(f) == Last(file[f].past)
IsProfile(f) == file[f].mark = "profile" /\ ~file[f].inBin

\* A file is the profile's by its marker, and not by its name or place.
Marked(inBin) ==
    Among(recent, {f \in Files : file[f].mark = "profile" /\ file[f].inBin = inBin})

\* What a download of a file may answer: its state, or the one before while
\* Drive has not caught up.
Downloads(f) ==
    LET past == file[f].past
    IN  {Last(past)} \cup
        (IF ground.staleReads /\ Len(past) > 1 THEN {past[Len(past) - 1]} ELSE {})

Touched(f) == <<f>> \o Among(recent, Files \ {f})

\* A new content in a file: its latest state, and the file the latest changed.
\* The hand it came from serves the properties alone.
Put(f, content, hand) ==
    /\ file' = [file EXCEPT ![f].past = Append(@, content), ![f].hand = hand]
    /\ recent' = Touched(f)

\* A new file that holds a new profile, marked as the profile.
PutNew(f, content, hand) ==
    /\ file[f] = NeverMade
    /\ file' = [file EXCEPT ![f] = [mark |-> "profile", inBin |-> FALSE,
                                   past |-> <<content>>, hand |-> hand]]
    /\ recent' = Touched(f)

-----------------------------------------------------------------------------
(* The memory of an instance: which file holds the profile                 *)

NoEntry == [file |-> NoFile, fresh |-> FALSE, written |-> 0, mended |-> FALSE]
Entries == [file : Files \cup {NoFile}, fresh : BOOLEAN, written : Numbers,
            mended : BOOLEAN]

\* recall: what is remembered, unless it is older than a file is trusted.
Known(i) == mem[i].file # NoFile /\ mem[i].fresh

\* remember: the number written stays with the file it was written to.
Remembered(i, f) ==
    IF mem[i].file = f
    THEN [mem EXCEPT ![i].fresh = TRUE]
    ELSE [mem EXCEPT ![i] = [file |-> f, fresh |-> TRUE, written |-> 0, mended |-> FALSE]]

\* An instance holds its reads of a file to what it wrote there.
WrittenTo(i, f) == mem[i].file = f /\ (mem[i].written > 0 \/ mem[i].mended)

\* note: a write of this instance to the file it remembers.
Noted(i, f, rev, mends) ==
    IF mem[i].file = f
    THEN [mem EXCEPT ![i].written = rev, ![i].mended = mends]
    ELSE mem

\* forget: only while it is still the file found wrong.
Forgotten(i, f) ==
    IF mem[i].file = f THEN [mem EXCEPT ![i] = NoEntry] ELSE mem

-----------------------------------------------------------------------------
(* The state of a call                                                     *)

Places == {"idle", "read", "fetch", "search", "bin", "found", "judge", "mending",
           "catchUp", "turn", "locate", "check", "upload", "answered", "list",
           "beside", "listBin", "make", "made", "aside", "recover", "done"}

Answers == {"none", "ok", "conflict", "notFound", "inBin", "newer", "damaged",
            "broken", "nothingReads", "behind", "failed", "unknown"}

CallStates ==
    [pc : Places, op : AllOps, at : Files \cup {NoFile}, got : Contents,
     known : Entries, early : Entries, base : Contents, from : Files \cup {NoFile},
     put : Contents, loaded : BOOLEAN, sound : BOOLEAN, todo : Seq(Files), doomed : Seq(Files),
     wrote : Entries, answer : Answers]

\* wrote serves the properties alone: what the call's instance remembered, and
\* trusted, when the call read.
Idle ==
    [pc |-> "idle", op |-> "write", at |-> NoFile, got |-> Nothing,
     known |-> NoEntry, early |-> NoEntry, base |-> Nothing, from |-> NoFile,
     put |-> Nothing, loaded |-> FALSE, sound |-> FALSE, todo |-> <<>>, doomed |-> <<>>,
     wrote |-> NoEntry, answer |-> "none"]

TypeOK ==
    /\ ground \in Grounds
    /\ file \in [Files -> [mark : Marks, inBin : BOOLEAN, past : Seq(Contents),
                       hand : Calls \cup {NoCall}]]
    /\ recent \in Seq(Files)
    /\ mem \in [Instances -> Entries]
    /\ holder \in [Instances -> Calls \cup {NoCall}]
    /\ st \in [Calls -> CallStates]
    /\ adrift \subseteq Calls
    /\ acts \in 0..ground.maxParentActs
    /\ lapses \in 0..ground.maxLapses
    /\ behind \subseteq Instances \X Files
    /\ told \subseteq Calls \X Files
    /\ landed \subseteq Calls

\* What a file may hold at first, after a first profile.
FirstPast(kind) ==
    IF kind = "reads" THEN <<First>>
    ELSE <<First, [kind |-> kind, rev |-> 0, by |-> 0]>>

\* Some files carry the marker, in the bin or outside it; no instance has
\* looked yet.
Init ==
    /\ ground \in Grounds
    /\ \E made \in {fs \in SUBSET Files : IsFiniteSet(fs) /\ Cardinality(fs) <= ground.maxAtFirst} :
        /\ \E kind \in [made -> ground.firstKinds], inBin \in [made -> BOOLEAN] :
            file = [f \in Files |->
                        IF f \in made
                        THEN [mark |-> "profile", inBin |-> inBin[f],
                              past |-> FirstPast(kind[f]), hand |-> NoCall]
                        ELSE NeverMade]
        /\ recent \in SetToSeqs(made)
    /\ mem = [i \in Instances |-> NoEntry]
    /\ holder = [i \in Instances |-> NoCall]
    /\ st = [c \in Calls |-> Idle]
    /\ adrift = {}
    /\ landed = {}
    /\ acts = 0
    /\ lapses = 0
    /\ behind = {}
    /\ told = {}

-----------------------------------------------------------------------------
(* Steps every session is made of                                          *)

GivenBack(c) == [i \in Instances |-> IF holder[i] = c THEN NoCall ELSE holder[i]]

\* Mutant: a turn is given back only by a write that went through.
FinishHoldingOn(c, answer) ==
    /\ st' = [st EXCEPT ![c].pc = "done", ![c].answer = answer]
    /\ holder' = IF answer = "ok" THEN GivenBack(c) ELSE holder

\* The call is told its answer, and its turn, if it has it, is given back.
Finish(c, answer) ==
    /\ st' = [st EXCEPT ![c].pc = "done", ![c].answer = answer]
    /\ holder' = GivenBack(c)

Go(c, place) ==
    /\ st' = [st EXCEPT ![c].pc = place]
    /\ UNCHANGED holder

Begin(c) ==
    /\ st[c].pc = "idle"
    /\ c \in ground.made
    /\ \E op \in ground.ops :
        st' = [st EXCEPT ![c].pc = IF op \in {"write", "restore"} THEN "read" ELSE "turn",
                         ![c].op = op,
                         ![c].put = [kind |-> "reads", rev |-> 1, by |-> c]]
    /\ told' = told \cup ({c} \X {f \in Files : <<Home[c], f>> \in behind})
    /\ UNCHANGED <<world, mem, holder, adrift, bounds, behind>>

\* read, its first half: the file remembered, or a search.
Recall(c) ==
    /\ st[c].pc = "read"
    /\ IF Known(Home[c])
       THEN st' = [st EXCEPT ![c].pc = "fetch",
                             ![c].at = mem[Home[c]].file,
                             ![c].known = mem[Home[c]],
                             ![c].wrote = mem[Home[c]]]
            /\ UNCHANGED holder
       ELSE Go(c, "search")
    /\ UNCHANGED <<world, mem, adrift, bounds, refusals>>

\* Whether what was read came from the file remembered, and so is held to what
\* was written there, or from one just found.
FromMemory(c) == st[c].known.file # NoFile

\* The download of a read.  A file remembered that is gone is searched for; one
\* just found that is gone is no profile.
Fetch(c) ==
    /\ st[c].pc = "fetch"
    /\ \/ /\ Exists(st[c].at)
          /\ \E content \in Downloads(st[c].at) :
                st' = [st EXCEPT ![c].pc = "judge", ![c].got = content]
          /\ UNCHANGED <<mem, holder>>
       \/ /\ ~Exists(st[c].at)
          /\ mem' = Forgotten(Home[c], st[c].at)
          /\ \/ /\ FromMemory(c)
                /\ st' = [st EXCEPT ![c].pc = "search", ![c].known = NoEntry]
                /\ UNCHANGED holder
             \/ /\ ~FromMemory(c)
                /\ Finish(c, "notFound")
    /\ UNCHANGED <<world, adrift, bounds, refusals>>

\* search, its first request: the files that carry the marker outside the bin,
\* the most recently changed of them the profile.
Search(c) ==
    /\ st[c].pc = "search"
    /\ IF Marked(FALSE) # <<>>
       THEN st' = [st EXCEPT ![c].pc = "found", ![c].at = Head(Marked(FALSE))]
       ELSE st' = [st EXCEPT ![c].pc = "bin"]
    /\ UNCHANGED <<world, mem, holder, adrift, bounds, refusals>>

\* search, its second request: the bin, when nothing was found outside it.
\* What a missing profile means is the session's: a first one may be made, and
\* nothing else goes on.
SearchBin(c) ==
    /\ st[c].pc = "bin"
    /\ \/ Marked(TRUE) # <<>> /\ Finish(c, "inBin")
       \/ Marked(TRUE) = <<>> /\ st[c].op = "create" /\ Go(c, "make")
       \/ Marked(TRUE) = <<>> /\ st[c].op # "create" /\ Finish(c, "notFound")
    /\ UNCHANGED <<world, mem, adrift, bounds, refusals>>

\* search, once answered: the file found is remembered, and the session goes
\* on to read it, to hold a save to it, or to refuse to make a second one.
Found(c) ==
    /\ st[c].pc = "found"
    /\ mem' = Remembered(Home[c], st[c].at)
    /\ \/ st[c].op = "create" /\ Finish(c, "conflict")
       \/ st[c].loaded /\ Go(c, "check")
       \/ st[c].op # "create" /\ ~st[c].loaded /\ Go(c, "fetch")
    /\ UNCHANGED <<world, adrift, bounds, refusals>>

-----------------------------------------------------------------------------
(* Load and the read of Restore (current, caughtUp, damagedAfterMending)    *)

\* Mutant: the profile is touched twice between two saves.
TouchedTwice(rev) == rev + 2

\* A write moves the profile's number on by exactly one.
MovedOn(rev) == rev + 1

\* Load answers a profile it was not told to doubt: the session computes the
\* one that comes next, touched once, and waits for its turn to save it.
Loaded(c, content) ==
    /\ st' = [st EXCEPT ![c].pc = "turn",
                        ![c].loaded = TRUE,
                        ![c].base = content,
                        ![c].from = st[c].at,
                        ![c].put = [kind |-> "reads", rev |-> MovedOn(content.rev), by |-> c]]
    /\ UNCHANGED holder

\* Mutant: a read one behind passes.
WellBehind(c, content) == content.rev + 1 < st[c].known.written

\* A read earlier than what this instance wrote to the file it remembers.
IsBehind(c, content) == content.rev < st[c].known.written

\* A profile that reads is what a session of Load goes on with, unless it is
\* earlier than what this instance wrote, and what Restore never puts back over.
JudgeReadable(c) ==
    /\ st[c].got.kind = "reads"
    /\ \/ st[c].op = "restore" /\ Finish(c, "conflict")
       \/ st[c].op = "write" /\ IsBehind(c, st[c].got) /\ Go(c, "catchUp")
       \/ st[c].op = "write" /\ ~IsBehind(c, st[c].got) /\ Loaded(c, st[c].got)
    /\ UNCHANGED mem

\* A file remembered that does not read may have been set aside by another
\* instance, so it is forgotten and searched for once more before anything is
\* said about it.
JudgeRemembered(c) ==
    /\ st[c].got.kind # "reads"
    /\ FromMemory(c)
    /\ mem' = Forgotten(Home[c], st[c].at)
    /\ st' = [st EXCEPT ![c].pc = "search", ![c].known = NoEntry, ![c].early = st[c].known]
    /\ UNCHANGED holder

\* A file found that does not read is told as it is, unless it is damage this
\* instance has put back, which may be read early; Restore goes on to mend
\* damage, and nothing else.
JudgeFound(c) ==
    LET got == st[c].got
        putBack == st[c].early.mended /\ st[c].early.file = st[c].at
    IN
    /\ got.kind # "reads"
    /\ ~FromMemory(c)
    /\ IF got.kind = "damaged" /\ putBack THEN Go(c, "mending")
       ELSE IF got.kind = "damaged" /\ st[c].op = "restore" THEN Go(c, "recover")
       ELSE Finish(c, got.kind)
    /\ UNCHANGED mem

\* current, once the bytes are there.
Judge(c) ==
    /\ st[c].pc = "judge"
    /\ JudgeReadable(c) \/ JudgeRemembered(c) \/ JudgeFound(c)
    /\ UNCHANGED <<world, adrift, bounds, refusals>>

\* The calls an instance serves.
Served(i) == {c \in Calls : Home[c] = i}

\* An instance that writes to a file holds its reads to that again.
HeldAgain(i, f) ==
    /\ behind' = behind \ {<<i, f>>}
    /\ told' = told \ (Served(i) \X {f})

\* A read of a file was refused as behind, with nothing written there since it
\* began.
RefusedAsBehind(i, f) ==
    /\ behind' = behind \cup {<<i, f>>}
    /\ UNCHANGED told

\* damagedAfterMending: a file this instance put back that still reads as
\* damage is read once more; one that has caught up is remembered with the
\* write again, and one that has not is refused as behind.
Mending(c) ==
    LET i == Home[c]
        early == st[c].early
    IN
    /\ st[c].pc = "mending"
    /\ \/ /\ ~Exists(early.file)
          /\ mem' = Forgotten(i, early.file)
          /\ Finish(c, "notFound")
          /\ UNCHANGED refusals
       \/ /\ Exists(early.file)
          /\ \E content \in Downloads(early.file) :
                \/ /\ content.kind = "reads"
                   /\ mem' = Noted(i, early.file, early.written, FALSE)
                   /\ st' = [st EXCEPT ![c].pc = "judge", ![c].got = content, ![c].known = early]
                   /\ HeldAgain(i, early.file)
                   /\ UNCHANGED holder
                \/ /\ content.kind = "damaged"
                   /\ Finish(c, "behind")
                   /\ IF WrittenTo(i, early.file)
                      THEN UNCHANGED refusals
                      ELSE RefusedAsBehind(i, early.file)
                   /\ UNCHANGED mem
                \/ /\ content.kind \in {"newer", "broken"}
                   /\ Finish(c, content.kind)
                   /\ UNCHANGED <<mem, refusals>>
    /\ UNCHANGED <<world, adrift, bounds>>

\* Mutant: a read is held to the number for as long as the instance runs.
StillHeld(i, f) == mem

\* The number written is let go of: the next read is not held to it.
LetGo(i, f) == Noted(i, f, 0, FALSE)

\* caughtUp: a read that came back earlier than what this instance wrote is
\* made once more; still earlier, it is refused as behind, and the number is
\* let go of so that the next call takes the file as it is.
CatchUp(c) ==
    LET i == Home[c] IN
    /\ st[c].pc = "catchUp"
    /\ \/ /\ ~Exists(st[c].at)
          /\ mem' = Forgotten(i, st[c].at)
          /\ Finish(c, "notFound")
          /\ UNCHANGED refusals
       \/ /\ Exists(st[c].at)
          /\ \E content \in Downloads(st[c].at) :
                \/ /\ content.kind # "reads"
                   /\ Finish(c, content.kind)
                   /\ UNCHANGED <<mem, refusals>>
                \/ /\ content.kind = "reads"
                   /\ IsBehind(c, content)
                   /\ mem' = LetGo(i, st[c].at)
                   /\ RefusedAsBehind(i, st[c].at)
                   /\ Finish(c, "behind")
                \/ /\ content.kind = "reads"
                   /\ ~IsBehind(c, content)
                   /\ Loaded(c, content)
                   /\ UNCHANGED <<mem, refusals>>
    /\ UNCHANGED <<world, adrift, bounds>>

-----------------------------------------------------------------------------
(* The turn, and what each session does in it                              *)

\* Mutant: nobody waits for anybody.
TurnUnminded(c) == TRUE

TurnFree(c) == holder[Home[c]] = NoCall

\* The writes of the account go one at a time within the instance (Turns).
TakeTurn(c) ==
    /\ st[c].pc = "turn"
    /\ TurnFree(c)
    /\ holder' = [holder EXCEPT ![Home[c]] = c]
    /\ st' = [st EXCEPT ![c].pc = CASE st[c].op = "write" -> "locate"
                                    [] st[c].op = "create" -> "search"
                                    [] st[c].op = "restore" -> "check"
                                    [] st[c].op = "startOver" -> "list"]
    /\ UNCHANGED <<world, mem, adrift, bounds, refusals>>

\* locate: the file a save goes to is the one remembered, or a search's.
Locate(c) ==
    /\ st[c].pc = "locate"
    /\ IF Known(Home[c])
       THEN st' = [st EXCEPT ![c].pc = "check", ![c].at = mem[Home[c]].file]
       ELSE st' = [st EXCEPT ![c].pc = "search"]
    /\ UNCHANGED <<world, mem, holder, adrift, bounds, refusals>>

\* Mutant: a file that still reads is taken to be unchanged.
StillReads(c, content) == content.kind = st[c].base.kind

\* The file holds the bytes the write was computed from.
Unchanged(c, content) == content = st[c].base

\* Save holds the file to the one the profile was read from, and reads it once
\* more; so does Restore, once it has found what to put back.  The write goes
\* on only when the file still holds what it was computed from.
Check(c) ==
    /\ st[c].pc = "check"
    /\ \/ /\ st[c].at # st[c].from
          /\ Finish(c, "conflict")
          /\ UNCHANGED mem
       \/ /\ st[c].at = st[c].from
          /\ ~Exists(st[c].at)
          /\ mem' = Forgotten(Home[c], st[c].at)
          /\ Finish(c, "notFound")
       \/ /\ st[c].at = st[c].from
          /\ Exists(st[c].at)
          /\ \E content \in Downloads(st[c].at) :
                IF Unchanged(c, content) THEN Go(c, "upload") ELSE Finish(c, "conflict")
          /\ UNCHANGED mem
    /\ UNCHANGED <<world, adrift, bounds, refusals>>

\* update, as Drive makes it: whatever is uploaded last is kept, in the bin or
\* set aside as anywhere.  A file gone is forgotten.
Upload(c) ==
    /\ st[c].pc = "upload"
    /\ \/ /\ Exists(st[c].at)
          /\ Put(st[c].at, st[c].put, c)
          /\ landed' = landed \cup {c}
          /\ st' = [st EXCEPT ![c].pc = "answered", ![c].sound = IsProfile(st[c].at)]
          /\ UNCHANGED <<mem, holder>>
       \/ /\ ~Exists(st[c].at)
          /\ mem' = Forgotten(Home[c], st[c].at)
          /\ Finish(c, "notFound")
          /\ UNCHANGED world
    /\ UNCHANGED <<adrift, bounds, refusals>>

\* upload, once answered: what Drive says of the file tells whether the write
\* landed in the profile; one that did not is refused, and the file forgotten.
Answered(c) ==
    LET i == Home[c] IN
    /\ st[c].pc = "answered"
    /\ \/ /\ st[c].sound
          /\ mem' = Noted(i, st[c].at, st[c].put.rev, st[c].op = "restore")
          /\ HeldAgain(i, st[c].at)
          /\ Finish(c, "ok")
       \/ /\ ~st[c].sound
          /\ mem' = Forgotten(i, st[c].at)
          /\ Finish(c, "conflict")
          /\ UNCHANGED refusals
    /\ UNCHANGED <<world, adrift, bounds>>

\* make: a new file holds the new profile, marked as the profile.
Make(c) ==
    /\ st[c].pc = "make"
    /\ \E f \in Files :
        /\ PutNew(f, st[c].put, c)
        /\ st' = [st EXCEPT ![c].pc = "made", ![c].at = f]
    /\ landed' = landed \cup {c}
    /\ UNCHANGED <<mem, holder, adrift, bounds, refusals>>

\* make, once answered: the new file is remembered, and what was written to it.
\* A new start then sets aside what it replaces.
Made(c) ==
    LET i == Home[c] IN
    /\ st[c].pc = "made"
    /\ mem' = [mem EXCEPT ![i] = [file |-> st[c].at, fresh |-> TRUE,
                                  written |-> st[c].put.rev, mended |-> FALSE]]
    /\ HeldAgain(i, st[c].at)
    /\ IF st[c].doomed = <<>> THEN Finish(c, "ok") ELSE Go(c, "aside")
    /\ UNCHANGED <<world, adrift, bounds>>

-----------------------------------------------------------------------------
(* StartOver and Restore                                                   *)

\* toSetAside, its first request: the files outside the bin, the profile first.
List(c) ==
    /\ st[c].pc = "list"
    /\ st' = [st EXCEPT ![c].pc = "beside",
                        ![c].todo = Marked(FALSE),
                        ![c].at = IF Marked(FALSE) = <<>> THEN NoFile ELSE Head(Marked(FALSE))]
    /\ UNCHANGED <<world, mem, holder, adrift, bounds, refusals>>

\* Mutant: the profile is not read once more before it is set aside.
VerdictUnread(c, f, kind) ==
    IF f # st[c].at /\ kind \in {"reads", "newer"} THEN "stays" ELSE "setAside"

\* The file that is the profile has to be there, and one this build cannot
\* read; another is set aside only when no build reads it.
Verdict(c, f, kind) ==
    IF f = st[c].at
    THEN IF kind = "reads" THEN "refuse" ELSE "setAside"
    ELSE IF kind \in {"reads", "newer"} THEN "stays" ELSE "setAside"

\* toSetAside, each file outside the bin in turn.
Beside(c) ==
    LET f == Head(st[c].todo) IN
    /\ st[c].pc = "beside"
    /\ st[c].todo # <<>>
    /\ \/ /\ ~Exists(f)
          /\ mem' = Forgotten(Home[c], f)
          /\ IF f = st[c].at
             THEN Finish(c, "conflict")
             ELSE st' = [st EXCEPT ![c].todo = Tail(@)] /\ UNCHANGED holder
       \/ /\ Exists(f)
          /\ \E content \in Downloads(f) :
                \/ /\ Verdict(c, f, content.kind) = "refuse"
                   /\ Finish(c, "conflict")
                \/ /\ Verdict(c, f, content.kind) = "stays"
                   /\ st' = [st EXCEPT ![c].todo = Tail(@)]
                   /\ UNCHANGED holder
                \/ /\ Verdict(c, f, content.kind) = "setAside"
                   /\ st' = [st EXCEPT ![c].todo = Tail(@), ![c].doomed = Append(@, f)]
                   /\ UNCHANGED holder
          /\ UNCHANGED mem
    /\ UNCHANGED <<world, adrift, bounds, refusals>>

\* Mutant: the old files are set aside before the new one is made.
ListBinFirst(c) ==
    /\ st[c].pc = "beside"
    /\ st[c].todo = <<>>
    /\ st' = [st EXCEPT ![c].pc = "make"]
    /\ file' = [f \in Files |->
                   IF f \in ToSet(st[c].doomed \o Marked(TRUE))
                   THEN [file[f] EXCEPT !.mark = "aside"] ELSE file[f]]
    /\ UNCHANGED <<recent, landed, mem, holder, adrift, bounds, refusals>>

\* toSetAside, its last request: whatever is in the bin.
ListBin(c) ==
    /\ st[c].pc = "beside"
    /\ st[c].todo = <<>>
    /\ st' = [st EXCEPT ![c].pc = "make", ![c].doomed = @ \o Marked(TRUE)]
    /\ UNCHANGED <<world, mem, holder, adrift, bounds, refusals>>

\* Mutant: a file gone by the time it is set aside is told as a conflict.
SetAsideOrConflict(c) ==
    LET f == Head(st[c].doomed) IN
    /\ st[c].pc = "aside"
    /\ file' = IF Exists(f) THEN [file EXCEPT ![f].mark = "aside"] ELSE file
    /\ mem' = Forgotten(Home[c], f)
    /\ IF Exists(f) /\ Tail(st[c].doomed) # <<>>
       THEN st' = [st EXCEPT ![c].doomed = Tail(@)] /\ UNCHANGED holder
       ELSE Finish(c, IF Exists(f) THEN "ok" ELSE "conflict")
    /\ UNCHANGED <<recent, landed, adrift, bounds, refusals>>

\* setAside, one file after another; one gone has nothing left to set aside.
SetAside(c) ==
    LET f == Head(st[c].doomed) IN
    /\ st[c].pc = "aside"
    /\ file' = IF Exists(f) THEN [file EXCEPT ![f].mark = "aside"] ELSE file
    /\ mem' = Forgotten(Home[c], f)
    /\ IF Tail(st[c].doomed) = <<>>
       THEN Finish(c, "ok")
       ELSE st' = [st EXCEPT ![c].doomed = Tail(@)] /\ UNCHANGED holder
    /\ UNCHANGED <<recent, landed, adrift, bounds, refusals>>

\* How many of the latest states before the damage a recovery tries.
Tried == 4

\* recover: the latest of the states tried that reads is what is put back, by
\* the same bytes it was; the damage is what the file was read in.  Which
\* states are tried beside the four latest is the history's to say.
Recover(c) ==
    LET past == file[st[c].at].past
        first == IF Len(past) > Tried + 1 THEN Len(past) - Tried ELSE 1
        earlier == Among(SubSeq(past, first, Len(past) - 1),
                         {content \in Contents : content.kind = "reads"})
    IN
    /\ st[c].pc = "recover"
    /\ \/ /\ ~Exists(st[c].at)
          /\ mem' = Forgotten(Home[c], st[c].at)
          /\ Finish(c, "notFound")
       \/ /\ Exists(st[c].at)
          /\ earlier = <<>>
          /\ Finish(c, "nothingReads")
          /\ UNCHANGED mem
       \/ /\ Exists(st[c].at)
          /\ earlier # <<>>
          /\ st' = [st EXCEPT ![c].pc = "turn",
                              ![c].from = st[c].at,
                              ![c].base = st[c].got,
                              ![c].put = Last(earlier)]
          /\ UNCHANGED <<mem, holder>>
    /\ UNCHANGED <<world, adrift, bounds, refusals>>

-----------------------------------------------------------------------------
(* What goes wrong                                                         *)

Requests == {"fetch", "search", "bin", "mending", "catchUp", "check", "upload",
             "list", "beside", "make", "aside", "recover"}

\* A request Drive did not do: refused, out of reach, out of time.  A call that
\* fails as it sets a file aside lets the memory of it go all the same.
DriveFails(c) ==
    /\ st[c].pc \in Requests
    /\ Finish(c, "failed")
    /\ mem' = IF st[c].pc = "aside" THEN Forgotten(Home[c], Head(st[c].doomed)) ELSE mem
    /\ UNCHANGED <<world, adrift, bounds, refusals>>

\* A write that lands without its answer being heard: the caller cannot know.
Unanswered(c) ==
    /\ ground.lostAnswers
    /\ \/ /\ st[c].pc = "upload"
          /\ Exists(st[c].at)
          /\ Put(st[c].at, st[c].put, c)
          /\ landed' = landed \cup {c}
          /\ UNCHANGED mem
       \/ /\ st[c].pc = "make"
          /\ \E f \in Files : PutNew(f, st[c].put, c)
          /\ landed' = landed \cup {c}
          /\ UNCHANGED mem
       \/ /\ st[c].pc = "aside"
          /\ Exists(Head(st[c].doomed))
          /\ file' = [file EXCEPT ![Head(st[c].doomed)].mark = "aside"]
          /\ mem' = Forgotten(Home[c], Head(st[c].doomed))
          /\ UNCHANGED <<recent, landed>>
    /\ Finish(c, "unknown")
    /\ UNCHANGED <<adrift, bounds, refusals>>

\* An upload whose caller ran out of time while it was on its way ...
Drift(c) ==
    /\ ground.lateLandings
    /\ st[c].pc = "upload"
    /\ Finish(c, "unknown")
    /\ adrift' = adrift \cup {c}
    /\ UNCHANGED <<world, mem, bounds, refusals>>

\* ... lands, or never does.
LandLate(c) ==
    /\ c \in adrift
    /\ Exists(st[c].at)
    /\ Put(st[c].at, st[c].put, c)
    /\ landed' = landed \cup {c}
    /\ adrift' = adrift \ {c}
    /\ UNCHANGED <<mem, holder, st, bounds, refusals>>

\* A file found by a search is trusted for so long; and an entry is dropped to
\* make room for another account's.
Lapse(i) ==
    /\ lapses < ground.maxLapses
    /\ mem[i].file # NoFile
    /\ \/ mem[i].fresh /\ mem' = [mem EXCEPT ![i].fresh = FALSE]
       \/ mem' = [mem EXCEPT ![i] = NoEntry]
    /\ lapses' = lapses + 1
    /\ UNCHANGED <<world, holder, st, adrift, ground, acts, refusals>>

\* An instance stops, and another starts in its place with nothing remembered:
\* the calls it was answering are lost where they stand.
Restart(i) ==
    /\ lapses < ground.maxLapses
    /\ \E c \in Calls : Home[c] = i /\ st[c].pc \notin {"idle", "done"}
    /\ mem' = [mem EXCEPT ![i] = NoEntry]
    /\ st' = [c \in Calls |->
                IF Home[c] = i /\ st[c].pc \notin {"idle", "done"}
                THEN [st[c] EXCEPT !.pc = "done", !.answer = "unknown"]
                ELSE st[c]]
    /\ holder' = [holder EXCEPT ![i] = NoCall]
    /\ behind' = behind \ ({i} \X Files)
    /\ told' = told \ (Served(i) \X Files)
    /\ lapses' = lapses + 1
    /\ UNCHANGED <<world, adrift, ground, acts>>

\* The parent's own hand, in Drive: a content of the parent's, the bin, or
\* deleting the file for good.
ParentWrites(f, kind, rev) ==
    /\ IsProfile(f)
    /\ Put(f, [kind |-> kind, rev |-> rev, by |-> acts + 1], NoCall)

Parent ==
    /\ acts < ground.maxParentActs
    /\ \E f \in Files :
        \/ "damage" \in ground.parentActs /\ ParentWrites(f, "damaged", 0)
        \/ "newer" \in ground.parentActs /\ ParentWrites(f, "newer", 0)
        \/ "break" \in ground.parentActs /\ ParentWrites(f, "broken", 0)
        \/ /\ "edit" \in ground.parentActs
           /\ \E n \in DOMAIN file[f].past :
                /\ file[f].past[n].kind = "reads"
                /\ ParentWrites(f, "reads", file[f].past[n].rev)
        \/ /\ "bin" \in ground.parentActs
           /\ IsProfile(f)
           /\ file' = [file EXCEPT ![f].inBin = TRUE]
           /\ UNCHANGED recent
        \/ /\ "unbin" \in ground.parentActs
           /\ Exists(f) /\ file[f].inBin
           /\ file' = [file EXCEPT ![f].inBin = FALSE]
           /\ UNCHANGED recent
        \/ /\ "erase" \in ground.parentActs
           /\ Exists(f)
           /\ file' = [file EXCEPT ![f].mark = "none"]
           /\ UNCHANGED recent
    /\ acts' = acts + 1
    /\ UNCHANGED <<landed, mem, holder, st, adrift, ground, lapses, refusals>>

-----------------------------------------------------------------------------

\* What the instance itself does for a call once it has begun.
Step(c) ==
    \/ Recall(c) \/ Fetch(c) \/ Search(c) \/ SearchBin(c) \/ Found(c)
    \/ Judge(c) \/ Mending(c) \/ CatchUp(c)
    \/ TakeTurn(c) \/ Locate(c) \/ Check(c) \/ Upload(c) \/ Answered(c)
    \/ Make(c) \/ Made(c)
    \/ List(c) \/ Beside(c) \/ ListBin(c) \/ SetAside(c)
    \/ Recover(c)

AllDone ==
    /\ \A c \in ground.made : st[c].pc = "done"
    /\ UNCHANGED vars

Next ==
    \/ \E c \in Calls :
        \/ Begin(c) \/ Step(c)
        \/ DriveFails(c) \/ Unanswered(c) \/ Drift(c) \/ LandLate(c)
    \/ \E i \in Instances : Lapse(i) \/ Restart(i)
    \/ Parent
    \/ AllDone

\* A call that has begun runs on, by the process's own scheduling: nothing it
\* waits for is withheld but the turn, and every holder of it runs on as well.
Fairness == \A c \in Calls : WF_vars(Step(c))

Spec == Init /\ [][Next]_vars /\ Fairness
-----------------------------------------------------------------------------
(* What makes the store correct                                            *)

\* A call's upload lands in this step.
UploadLands(c) ==
    \/ st[c].pc = "upload" /\ st'[c].pc # "upload" /\ file' # file
    \/ c \in adrift \ adrift'

\* What an upload lands over is what its profile was computed from, or else
\* another instance or the parent put it there.
LandsOverNoneOfOurs(c) ==
    \/ Now(st[c].at) = st[c].base
    \/ file[st[c].at].hand \notin {d \in Calls : Home[d] = Home[c]}

\* Two sessions served by one instance never meet between the read and the
\* upload: the second is refused rather than laid over the first (turns.go:11-15,
\* drivestore.go:13-19).
NeverLaidOverOurs ==
    [][\A c \in Calls : UploadLands(c) => LandsOverNoneOfOurs(c)]_vars

\* So it is as long as Drive answers a read with what is there, and lands an
\* upload while its caller waits (read.go:166-168, calls.go:235-238).
NeverLaidOverOursOnTime ==
    [][~ground.staleReads /\ ~ground.lateLandings =>
        \A c \in Calls : UploadLands(c) => LandsOverNoneOfOurs(c)]_vars

\* A session refused left no write of its own in what the parent's Drive shows
\* as the profile (store.go:32-35, "Nothing was written"), unless the parent put
\* the file in the bin under the upload and then took it out again.
RefusedIsNotTheProfile ==
    \A c \in Calls : st[c].answer = "conflict" /\ (acts <= 1 \/ "unbin" \notin ground.parentActs) =>
        \A f \in Files : IsProfile(f) => \A n \in DOMAIN file[f].past : file[f].past[n].by # c

\* An account that has a profile keeps having one, whatever of a new start
\* fails and in whatever order two of them go: the new file is there before the
\* old one is set aside (startover.go:20-24).  The parent's own hand may put the
\* new file in the bin or delete it before the old one is set aside.
NeverWithoutAProfile ==
    [][(\E f \in Files : IsProfile(f)) /\ acts' = 0 => \E f \in Files : IsProfile(f)']_vars

\* A new start sets aside no profile this build reads (startover.go:18-20, 27-28), and
\* Restore writes over none (history.go:57-59).
ReadableIsKept ==
    [][\A f \in Files :
        (IsProfile(f) /\ Now(f).kind = "reads") =>
            /\ file'[f].mark # "aside"
            /\ Len(file'[f].past) > Len(file[f].past) /\ acts' = acts =>
                  Last(file'[f].past).rev = Now(f).rev + 1]_vars

\* A file put back on purpose is read as it is by the next call: an instance
\* that has refused a read of a file as behind does not refuse another one begun
\* after it, until it writes there again (read.go:186-188).
RefusedAsBehindOnce ==
    \A c \in Calls : st[c].answer = "behind" => <<c, st[c].at>> \notin told

\* What a refusal says of a session is true.
RefusalsAreTrue == RefusedIsNotTheProfile /\ RefusedAsBehindOnce

\* Nothing was put into a file but what sessions computed from a state of it: no
\* recovery wrote there, nor the parent.
OnlyMovedOn(f) ==
    /\ \A n \in DOMAIN file[f].past : file[f].past[n].by \in Calls \cup {0}
    /\ \A d \in landed : st[d].at = f => st[d].op # "restore"

\* A read is not answered behind what the instance had written, when the read
\* began, to the very file it answers from and trusted, unless a recovery or the
\* parent has put another state there (remembered.go:62-66, read.go:166-171).
LoadSeesOwnWrites ==
    \A c \in Calls :
        st[c].loaded /\ st[c].from = st[c].wrote.file /\ OnlyMovedOn(st[c].from)
            => st[c].base.rev >= st[c].wrote.written

\* Every call that is made is answered, whoever else waits for the same turn.
EveryCallEnds ==
    \A c \in Calls : st[c].pc # "idle" ~> st[c].pc = "done"

\* The store as its contract has it: the profile is the latest state of the
\* file a search finds.
History ==
    IF Marked(FALSE) = <<>> THEN <<>> ELSE file[Head(Marked(FALSE))].past

Store == INSTANCE ProfileStore WITH
    history <- History,
    answer <- [c \in Calls |-> st[c].answer]

\* One instance serves the account, with nobody else's hand in the parent's Drive,
\* which answers a read with what is there and lands an upload while its caller
\* waits.
ServedAlone ==
    /\ \A c, d \in Calls : Home[c] = Home[d]
    /\ ~ground.staleReads /\ ~ground.lateLandings /\ ground.maxParentActs = 0

Running(c) == st[c].pc \notin {"idle", "done"}
\* A recovery and a new start do not meet: one may follow the other.  A recovery
\* finds its file before it has its turn, and a new start meanwhile would make
\* another one the first.
OneWayToMend ==
    \A c, d \in Calls :
        Running(c) /\ Running(d) => {st[c].op, st[d].op} # {"restore", "startOver"}

\* Served so, and mended one way at a time, the account's store is the one the
\* contract describes (store.go:20-62).
ImplementsContract == Store!Contract
=============================================================================
