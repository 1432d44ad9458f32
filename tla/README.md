# MathTrail in TLA+

This directory models, checks and proves properties of MathTrail
(`mathtrail-standalone`): a stateless Go service, reached as tools by the model
of a parent's own chat, that carries a child's maths lesson on. All the service
keeps of a child is one JSON file in the parent's Google Drive. Several
instances run at once and share nothing but that file; Drive has no conditional
write, and does not promise that a read sees the write before it. Nearly
everything that is hard about the program follows from those two sentences, and
that is what is modelled here.

Every definition is translated from the Go source, and `PROJECT.json` maps each
one to its lines. Comments name the function behind an action where its name
does not say it.

## The system

### Components, their state and what makes them correct

| Component | State it keeps | Operations | Hard behaviour | Correct when | Here |
|---|---|---|---|---|---|
| Turns of the writes (`store/drive/turns.go`) | a table account -> turn, each turn a channel of one place and a count | `take`, `giveBack`, `leave` | a turn is dropped by its last call while another may be joining; callers give up while waiting | one write per account at a time, no turn leaked, every wait ends | `Turns`, `WaitsProofs` |
| Profile in Drive (`store/drive`) | Drive's files and their histories; per instance, which file holds the profile and what was last written to it | `Load`, `Save`, `Create`, `StartOver`, `Restore`, `Export` | early reads, lost answers, late landings, several instances, the parent's own hand, restarts | the contract of a store; an account keeps its profile; nothing readable is written over unread | `DriveStore`, `DriveStoreProofs`, `DriveContractProofs` |
| Recovery from the history (`history.go`) | the file's revisions, those kept forever | `recover`, `makeRoom`, `earlier`, `restore` | two recoveries that keep and delete beside each other, a failure anywhere, purges | nothing is said to be lost that was not looked at; what is to be tried is not deleted | `Recovery`, `MemoryProofs` |
| One request to Drive (`calls.go`, `infra/drive`) | attempts, pauses, the token's end | `call`, `watch.attempt` | a repetition of what may have landed; an attempt that outlives the token | a write is done once | `Calls`, `ServicesProofs` |
| Contract of a store (`store/store.go`, `store/memory`) | the profile and its past states | the same | none: it holds a lock | it is the abstract specification | `ProfileStore` |
| Profile (`domain/profile`) | the request open, the task kept, the task on the card, recent answers, topics, the day's counters | `Ask`, `AskAhead`, `Await`, `Refuse`, `Issue`, `Keep`, `HandOutReady`, `Record`, `Skip`, `DiscardTask`, `SetClock`, `startTheDay`, `remember`, `master` | long legal sequences; passing of time; a device's clock; builds that keep less | fields agree with each other; each task ends once; days and weeks are whole | `Profile`, `ProfileProofs`, `History`, `Days`, `Mastery`, `MemoryProofs` |
| Lesson tools (`transport/mcp`: `next_task`, `prepare_task`, `submit_task`, `submit_answer`, `save_profile`) | none but the profile | one read and one write each | any order of calls; a decision taken on one day and counted on another | limits hold, what is promised to the child is kept | `Lesson`, `LessonProofs` |
| Writes after the answer (`later.go`, `afresh.go`) | per instance, the writes begun and not ended, by account | `afresh`, `settled`, `writeAfterAnswer`, `land` | a write begun after the answer, made again on a fresh read, lost, or taken for another's | the file moves by whole operations; what is said is kept; every answer is counted once | `LateWrites`, `LateWritesProofs` |
| `read_task` and the news (`readtask.go`, `news.go`) | per instance, the ears of an account | `listen`, `tell`, `readTask` | a write that lands between a read and a wait; news and the end of a hold that meet | a card is told of every change in time, nobody is held up | `News`, `WaitsProofs` |
| Tutor (`domain/tutor`) | none: it reads the profile | whose turn it is, which idea, when a topic on pause is probed | what is read is a bounded window, with tasks in flight, written ahead and let go of | no topic starves, no idea comes twice in a row, probes keep their distance | `Rotation`, `Ideas`, `Probes`, `MemoryProofs` |
| Sign-in (`transport/oauth`, `infra/googleauth`) | none on the server: sealed codes and tokens, Google's grants | callback, redeem, renew, let in, revoke | instances whose clocks disagree, Google waited for in the middle, tokens used again | what was given is good as long as was said, and ends | `Tokens`, `ServicesProofs` |
| Limits of requests (`ratelimit`) | the allowances of the keys used latest and of the instance | `Take`, `Refund`, `Admit` | requests pass one another between two ceilings, keys are forgotten | a key goes ahead at its pace; what was turned away costs nothing | `Ceilings`, `ServicesProofs` |
| Clients' documents (`infra/cimd`) | a bounded cache | `Fetch`, `get`, `put`, `makeRoom` | slow fetches of one document that meet, clients that change theirs | the cache has room, and answers with what was lately there | `Documents`, `ServicesProofs` |
| Solver programs (`domain/solver`, `infra/starlark`) | the slots taken | `Verdict`, `Run`, `take` | runs that share slots and processors under a wall clock | a verdict is about the program alone | `Solvers`, `ServicesProofs` |
| Other tools (profile, package, progress, review, batch, ...) | none | read the profile; the first profile, a new start, a recovery | -- | -- | their writes are `DriveStore`'s sessions and `Lesson`'s `Edit`; the rest is words |
| Rating, progress, checks, pictures | none: pure | estimates, summaries, judging and drawing | arithmetic on real numbers, text | -- | seen by the models as "may clear a level", "passes" or "refused" |
| The process (`cmd/server`, `internal/app`, `internal/telemetry`) | where it is on its way, the requests in flight, what was measured and not delivered | build, listen, serve, drain, close; hold a request open; deliver | a stop beside requests held for their late writes and deliveries that pass one another, under budgets that share one deadline | it leaves in time, loses no write it had time for, delivers what it measured once | `Process`, `ServicesProofs` |
| HTTP routing, report, logging | none of the system's own | wiring | -- | -- | not modelled: I/O |
| Content, card and site, infrastructure, docs | data, what a browser shows | -- | -- | -- | not modelled |

`PROJECT.json` has the same list with every source file, and the reason beside
each part that is left out.

### How they interact

A request to the service passes two ceilings (`Ceilings`), is let in by an
access token (`Tokens`), whose client was known by its document (`Documents`),
and calls a tool. A tool goes to the store through `settled`, which first waits
for the writes after the answer begun earlier on this instance; then `Load`
finds the file and reads it, the tool computes the next profile by the methods
of `domain/profile`, and `Save` takes the account's turn on this instance, reads
the file again, and uploads only when it is still the one the profile was
computed from, each request to Drive made as `Calls` has it. A conflict sends
the tool round again (`afresh`, three times). Two writes are made after the tool
has answered, an answer recorded and a kept task handed out; the HTTP request is
held open for them. They too are made again on a fresh read (`land`, three
times), with their effect decided anew on what is there. Every write that landed
is told to the questions of a card that waits on the same instance (`News`). A
task handed in is judged by two runs of its solver program (`Solvers`); the next
one is chosen by what the profile remembers (`Rotation`, `Ideas`, `Probes`).

The models cut this stack where the code's own interfaces do:

    LateWrites   calls on several instances over a store that keeps its contract
      |  uses the operators of Profile, is held to the actions of Lesson
    Lesson       one call at a time, over days          Profile   one method at a time
      |  the parts of the profile the tools' guards do not read have their own:
      |    History (window, week)  Days (the family's clock)  Mastery
      |    Rotation, Ideas, Probes (what the tutor reads of them)
    DriveStore   the requests to Drive, step by step    -- refines -->  ProfileStore
      |  holds one turn per account and instance; a request is one step
    Turns        the object behind that turn
    Calls        the attempts behind that step
    Recovery     the history behind its Restore, with two at once

    News, Tokens, Ceilings, Documents, Solvers, Process: what an instance keeps and
    does beside the store, each on its own

## The modules and the code

**`Turns`.** `held` is the map, `waiting[t]` the count and `taken[t]` the one
place of the channel of turn `t`. `Arrive` is what `take` does under the mutex,
`Take` and `GiveUp` are the two branches of its `select` (both may be ready, and
Go picks at random), `GiveBack` and `Leave` are the function it returns, in
their order. A turn dropped from the table keeps its identity until nobody
refers to it, and is then reused: this is where a wrong count would let two
writers into two turns.

**`News`.** `ears[i]` is the table of listeners of an account on instance `i`,
each ear a channel with room for one profile. A write lands (`Land`), takes all
the ears under the mutex (`Tell`) and hands them what it wrote one by one
(`Hand`), so several writes may be about to hand, in any order. A question
listens before it reads (`Listen`, `Read`), waits, is woken, and listens again with
an ear of its own (`ListenAgain`); its hold may end at any moment, also at the
moment the news comes. A profile is known by what it says of the task waited for.
The first read may be early. The store holds it to the number this instance has
remembered of its own writes (`read.go`: `caughtUp`), which is any from the latest
down to none: the number is let go of once a read has stayed behind it, and an entry
ages, is evicted, or is found anew with no number. So `Read` takes any number the
instance may have remembered (`floor`) and returns any state from there on, or fails,
as a read that stays behind its number does, and is answered.

**`DriveStore`.** One account. `file` is Drive: each file's marker, whether it
is in the bin, and the history of its contents. `mem` is what `fileIDs` remembers
on each instance. Each call is a session: `Load` then `Save`, `Create`, `Restore`
or `StartOver`, with a program counter that stops at every request to Drive and
again at what is done with the answer, so that other calls, another instance and
the parent act in between. `Recall` to `CatchUp` are `Load`; `TakeTurn`,
`Locate`, `Check`, `Upload`, `Answered` are `Save` (and the end of `Restore`);
`Make`, `Made` create; `List` to `SetAside` are `StartOver`; `Recover` reads the
history. What goes wrong has actions of its own: `DriveFails` (any request),
`Unanswered` (landed, unheard), `Drift` and `LandLate` (landed after its caller
left), `Lapse` (an entry aged or dropped), `Restart` (an instance), `Parent`.
A content is the kind of thing it is (reads, damaged, newer, broken), its number
and its author; the author stands for the digest of the bytes. What may go wrong
in a behaviour is its `ground`, a record chosen at the start from the constant
`Grounds`, so one run looks at several settings.

**`ProfileStore`.** What a store promises, as the one in memory keeps it under a
lock: a history of states, a write as one step from the latest, and answers
that are true. `DriveStore` maps its history to that of the file a search finds.

**`Recovery`.** One file and its revisions, each known by its place in the order
they were made. A recovery lists them, chooses what to try (`CandidatesOf`: the
latest before the damage, then those kept forever), makes room (`Clear`), keeps
a revision forever before it reads it (`KeepForGood`, `Download`), and at the end reads
the file again and uploads. Any call may fail; `Purge` is Drive's own forgetting.

**`Calls`.** One call: `Start` asks whether an attempt fits before the token's
end, `Ends` takes any outcome with Drive having done the write or not, as that
outcome allows, and decides by `WorthRepeating`; `Pause` waits a jittered time.
An upload asked to keep its revision is made again without.

**`Profile`.** The methods of the profile as operators from profile to profile.
A task is the name of its request; what it has to fit is the topic and the
skills left out of the lessons.

**`Lesson`.** One action per thing a tool may do to the profile, with the tool's
guards in their order. `EXTENDS Profile`; the clock ticks between calls.

**`LateWrites`.** A call loads, decides by what it read (`Decision`, by the same
operators), and saves before it answers or begins a write after it.
`LandLate`/`ReadAgain` are the loop of `land`; `RecordAgain` and `HandOutAgain`
are its two changes, as they judge a fresh read. `Holds` and `Land` are the store
by its contract. `lines` counts the log lines an answer leaves, which is all the
service's statistics are made from. As in `DriveStore`, the constant `Settings`
says where the calls run and what may go wrong, and each behaviour has one.

**`History`.** `window` is `recent` and `days` the days measured, each on a date of
its own as `validateRatingDays` has it. For the properties, `past` is every answer
there was, and `lost` how many there were when an earlier build last wrote the
file. `AnswerOf` and `LeaveTask` are what `apply` and `leave` do to both, and
`EarlierBuild` an answer, a skipped task or anything else written by a build from
before the days were kept. `WeekStart` is what the parent is told.

**`Days`.** `daily` with the end of the day it counts and the clock the next one
ends by; `Today` as any instance finds it by its own clock (`Nows`); the
request opened on one reading of the limit and the task counted on another.
`handed` counts the tasks handed out no longer ago than each age.

**`Rotation`.** The window, the card, the task asked for or kept, and the day each
topic was last given; `Turns` is every way the topics `choose` picks among may
stand, any of them each time, and `Oldest` whose turn it is among them. `watched` is any one topic, and
`passed` how often it might have been taken and was not.

**`Ideas`.** One list: the round, the ideas given in it, the idea each of the open
request and the kept task names; `NewRoundsFirst` and `Gave` are the two ends of an
idea's life. `Deploy` lands the next call on a build with a longer or shorter list.

**`Probes`.** The count of tasks `probeDue` reads, and the tasks it is made of.

**`Mastery`.** `level`, `streak` and `solved` of a topic, as `master` moves them,
with the masteries an earlier rule left (`cautious` is false until the first
answer clears them). `run` and `best` are for the properties.

**`Tokens`.** Instances with clocks of their own; every code and token ever
issued, as whoever held one may present it again; requests that stop where
Google is asked. Google's side is its grants (`ended`) and the refresh tokens of
them, numbered as they were given: a sign-in through Google is given one each time,
a renewal goes on with the same or with another in its place (`GoesOnWith`), and one
whose grant stands may be let go of at any time (`Lapse`); `dropped` are those it
honours no more, with which nothing is renewed (`Renews`) and nothing ended
(`Honours`), though `serveRevoke` answers the host 200 all the same. The demo account is
known as a reviewer's (`IsDemo`) where the reviewers' sign-in gave the token, and
as any parent's where it signed in through Google (`ComeBack`), over the one grant
`Demo`. `AccessEnd`, `RefreshEnd`, `NeedsGoogle` and `SessionEnd` are the
arithmetic of `grants.go` on the clock of the instance at hand, and the fields in
nobody's time serve the properties.

**`Ceilings`.** `own` and `recent` are the table and the list of a limiter, `whole`
what the instance shares; a request takes of the one, then of the other, and is
given back if the second turns it away. An allowance is held as time.

**`Documents`.** `kept` is the cache. A fetch asks, is answered with what the
client says at that time and a lifetime, and keeps it when it has read it, up to
an attempt's time later; two attempts at most.

**`Solvers`.** A program is the kind of answer it gives and the work of a run.
`TakeSlot` and `RefuseRun` are the select of `take`; `RunEnds` and `RunStopped` end a run;
`Work` is time: each processor runs one of the runs, the clock of all goes on.

**`Process`.** `process` is where the instance is on its way: `Build`, `Listen`,
`ServeFails`, `SeesStop` are the steps of `Run`, `Drained` and `CutShort` the two ends of
the drain, `ClosesTraces` to `LastPost` the close. `Signal` asks for a stop at any
moment, and the second one kills. A request is `handling`, then `holding` until the
write it began (`BeginsLate`, `LateEnds`) is done or its bound has passed (`LetsGo`), is
measured (`unread`) and may deliver (`Delivers`, `Reads`, `Posts`). `Ages` is time,
which does not pass what has a deadline and has reached it.

`MCWaits`, `MCServices` (with the lesson) and `MCMemory` each put models that share no
state side by side: a behaviour is of one of them, chosen at the start (`part`), so the run's states
are the sum of theirs. `MCDriveStore`, `MCTokens` and `MCLateWrites` give
grounds, settings, clocks and symmetries.

### What is abstracted

* Texts, ratings, levels and difficulty: the models' guards read none of them
  but as "any choice". `Mastery` lets any level clear the cautious estimate.
* In `Profile`, `recent` keeps every entry, the file's window is `History`'s; a day
  has one length, the family's clock is `Days`'.
* In `DriveStore`: the search for and the making of the folder are part of
  `Make`, and keeping a revision forever is part of `Upload`: neither failing
  changes what the session does next. `Recover` tries the four latest
  states; the whole of it is `Recovery`. A request is made once; `Calls` repeats it.
  `Export` writes nothing.
* In `LateWrites`: the store keeps its contract, so an upload lands when it is
  made or never. A task whose seal no longer opens is `Lesson`'s `Discard` alone.
  A late write that panics counts as one that failed.
* In `History`: one clock, where two instances may be on two sides of a midnight.
* In `Tokens`: one of the instances' clocks is right, since what all are ahead by
  is seen by nobody. Refusals that change nothing (a wrong client, a wrong
  challenge) are left out, and so is the sealing: a token opens.
* In `Process`: the deliveries of spans, requests that panic or are aborted, a second
  signal swallowed before the first is seen, and more than one late write in a
  request. A delivery that reads gives up what it read, whether or not it reaches the
  collector.
* In `Solvers`: a run on a processor of its own does a unit of work in a unit of
  time, and the rest of the instance takes none of the processors.

## What is checked

Every property of a passing run is also run against mutants, definitions
changed the way a slip in that code would change them (`PROJECT.json`, "mutants");
the mutated forms stand before the definitions they replace. A property that is a
conjunction of named parts has a mutant for each of the parts that are more than a type.

### Passing runs

| Run | Instance | Shows |
|---|---|---|
| `waits` (`MCWaits`) | `Turns`: 3 calls, 2 accounts, 2 turn objects. `News`: 2 questions on one of 2 instances, 2 writes of either; the other, whose news nobody hears, tells none | `TurnsHold` (types, `OneAtATime`, `TableIsExact`), `EveryWaitEnds`; `NewsReachesAll` (`NeverDeaf`, `EarsAreInUse`, `NoWriteWaits`, `NoNewsMissed`), `EveryQuestionEnds` |
| `drive_contract` | 1 instance, 3 calls of every kind, at most one file at first of any kind, a lapse, lost answers; a recovery and a new start may follow each other but do not overlap | `ImplementsContract`: every step of the Drive store is a step of `ProfileStore` or none |
| `drive_worlds` | three grounds: a call on one instance and 2 on another with answers lost; a call on each of 2, two files at first, one act of the parent of any of seven kinds and late landings; 3 calls on one instance with early reads | `TypeOK`, `RefusalsAreTrue` (`RefusedIsNotTheProfile`, `RefusedAsBehindOnce`), `LoadSeesOwnWrites`, `NeverLaidOverOursOnTime`, `NeverWithoutAProfile` |
| `drive_beside` | 1 instance, 2 calls of every kind, at most two files at first, in the bin or not | `ReadableIsKept`: no profile that reads is set aside, or followed by anything but the next one; `EveryCallEnds`, with failures everywhere |
| `late_kept` | two settings of 3 calls: one instance with Drive at its best; a call apart from the others, an outage, two topics and the lessons edited | `CountedRight`, `SaidIsKept`, `ReadsWhatWasTold`, `AsOneAtATime` |
| `late_ends` | 2 calls of four tools on 1 instance, an outage, a stop, the file deleted | `EveryCallEnds` |
| `sign_in` (`MCTokens`) | 2 instances a tick apart, 2 requests, a sign-in of any of the three kinds, 2 tokens, a refresh token of Google's replaced or let go of, 8 ticks | `GivenIsGood`, `GivenEnds` |
| `services` (`MCServices`) | `Lesson`: 4 requests, 3 attempts, 2 tasks and 2 failures a day, days of 3 ticks, clock to 5. `Ceilings`: 3 clients, 2 keys kept. `Documents`: 3 documents, 2 kept, 2 fetches. `Calls`: two retries, a token that ends at any time. `Solvers`: 2 tasks, 1 slot. `Process`: 2 requests, a stop by the first tick at the latest, a way out of 4 ticks | `BooksBalance`, `RoomIsKept`, `CardIsToldTrue`, `HandedOutFits`; `CeilingsHold`; `CacheHolds`, `FreshAreLetGoLast`; `RepeatsDoNoHarm`; `VerdictsHold`; `StopsHold` |
| `memory` (`MCMemory`) | `History`: 5 entries over a window of 3, 4 days. `Days`: 10 quarters of a day, 2 clocks told, skew 0 or 1. `Rotation`: 3 topics, window of 3. `Ideas`: lists of 2 to 4, 3 rounds. `Probes`: 13 tasks, one in 4. `Mastery`: 2 topics, 3 levels. `Recovery`: 2 recoveries, 5 revisions, 3 kept | `WindowKeepsItsOwn`, `WeekIsToldRight`; `DaysAreWhole`, `NoMoreThanTheDays`; `EveryTopicComesRound`; `IdeasAreGivenInTurn`; `ProbesAreApart`; `MasteryIsEarned`, `LostByARunAlone`; `RecoveryHolds`, `TriedAreNotDeleted` |

What the less obvious ones say:

* `RoomIsKept` -- no day goes over its room though the room is looked at calls
  before the task is counted (`DayHasRoom`); a task kept for the child can be handed
  out the moment it is asked for, however many days it was kept (`ReadyHasRoom`); and it
  is never beside an open request (`ReadyBesideNoRequest`).
* `BooksBalance` -- every task handed out is counted once, answered, skipped,
  discarded or in flight (`TasksAddUp`), and none ends twice (`EndsOnce`).
* `CardIsToldTrue` -- a card told its task is not coming was told so for good
  (`NotComingIsFinal`); a request the child waits for is not taken away (`WaitIsKept`).
* `AsOneAtATime` -- the concurrent system implements the sequential one: every
  change of the file is one action of `Lesson` applied to what the file then
  holds, whatever was read when the change was decided.
* `CountedRight` -- an answer leaves one line for the statistics, and one more for
  each request that was not heard at most (`CountedOnce`); with none unheard, it leaves
  one (`CountedAtAll`).
* `NoNewsMissed` -- a question that goes on listening has missed no write of its
  instance that changed the task, of those its first read was held to and those told
  since it was asked; so one that lands while the file is read is heard. Two gaps
  (`gap`) are the code's own. A read held to no number, or to an older one, may be
  early, and the question then waits for what was told before it came
  (`readtask.go:78-81`). And between the news that woke it and its next ear a question
  hears nothing. In both the hold is answered and the card asks again. News of an older write told late, or a hold that ends first,
  may answer with less than is known.
* `RefusalsAreTrue` -- a session refused as a conflict left nothing of its own in what
  Drive shows as the profile (`RefusedIsNotTheProfile`), and a file refused as behind
  is refused so to no call that begins after, until the instance writes there again
  (`RefusedAsBehindOnce`). `behind` and `told` keep, by instance and file, what the
  second one is about.
* `LoadSeesOwnWrites` -- a read is not answered behind what its instance had written,
  as it trusted when the read began, to the file the answer is from, unless a recovery
  or the parent put a state there (`OnlyMovedOn`).
* `TriedAreNotDeleted` -- a recovery never deletes what it is to try itself. One beside
  it may, if the history it was listed has as many later revisions kept as Drive keeps,
  less those tried: 196 of 200 in the code. It goes by the history it was listed, and
  so much has to come to be kept between the two for it.
* `TypeOK` of `DriveStore` -- more than types in one place: no number of a profile goes
  past the sessions that may touch it, though a session that was laid over, lost or
  recovered may have touched one that is no longer there.
* `GivenIsGood` -- a tool let in reaches Drive for as long as it may work with a
  Google token that has not ended by anybody's clock (`ToolsReachDrive`); access
  tokens and codes are taken on every instance as long as was said
  (`TakenAsLongAsTold`, `CodesAreTaken`).
* `GivenEnds` -- no chain of renewals outlasts the sign-in (`BoundedBySignIn`), and a
  host that gave its grant back with a refresh token, and was told so, finds it ended at
  Google (`RevokedIsEnded`), with two exceptions that are the code's own. A refresh
  token that Google has replaced, or let go of, ends nothing, and the host is told 200
  (`revoke.go:84-97`): the grant then stands for whoever holds the token in its place
  (`unended` are these, and all of them are such). And the reviewers' grant is
  ended by none of the reviewers' tokens, but by the demo account signed in through
  Google, which is not known for it (`reviewer.go:57-63`).
* `CeilingsHold` -- over any stretch of time a key goes ahead no oftener than its pace
  allows (`PaceHolds`), and what was turned away costs it nothing
  (`TurnedAwayCostsNothing`), though requests pass one another between the ceilings;
  and the key let go of is the one used longest ago (`ForgottenIsOldest`).
* `CacheHolds` -- a client that changed its document is held to the old one no longer
  than the longest a document is kept, and the attempt that read it.
* `WeekIsToldRight` -- a week that is told is told from where the child stood before its
  first answer, never from its middle, whichever days were let go of or lost to
  an earlier build; and it is untold only for a reason.
* `EveryTopicComesRound` -- between two events (a day begun, a task discarded or set out
  of turn) a topic is passed over at most twice as often as there are other topics,
  for any tasks skipped or written ahead, while the window holds a task of every topic
  and no more than `MaxSkips` tasks are skipped in a row (`TurnsAreInView`). For the
  code's 17 topics and its window of 20 that keeps the 5 latest answers, that is
  three. What longer runs do is in the table further down.
* `StopsHold` -- once the stop is seen the process is gone by the end of one budget,
  whatever is in flight (`LeavesInTime`). A drain that was not cut short has lost no
  write whose answer was given and no measurement (`WritesAreWaitedFor`,
  `NothingMeasuredIsLeft`), nothing is delivered twice (`ToldOnce`), and the exit is
  told from a crash (`StopIsNoCrash`).
* `VerdictsHold` -- a program that is judged is judged as it would be alone, whatever
  runs beside it, as long as there is a processor for every slot.

**Why the bounds are enough.** A session meets at most two others in each
argument the code makes: the one that holds the turn and the one that wrote just
before. Three calls, on one instance or with one apart, cover those. Two marked
files at first are the least in which a search has to choose; four identities
leave one for each file a call may make. One lapse stands for ageing or for
losing an entry at one chosen moment, one act of the parent for a hand between
any two steps, and one outage for the one upload whose fate is unknown. In
`Lesson`, two days, two tasks a day and four names let a request be opened on one
day and counted on the next beside a full one; a task kept over the end of a day
is among them. In `Turns`, three calls are the least in which one holds, one leaves
and one joins; two turn objects are all the table ever names at once, one to an
account, so the third call takes up one that was dropped. In `Tokens`, the lifetimes are short and in the code's order (a code
below an access token below a refresh token below a sign-in), and two clocks a tick
apart take every side of each comparison; the time is more than a sign-in. One
refresh token replaced or let go of, of the at most three there are, is the least that
tells a token from its grant. A window
of 3 with 2 kept, and 5 entries, is over full twice with skips between; a week of two
days over four dates is left twice. `MaxRevisions` of 5 over 3 kept and one tried
before the damage has room to be short of, twice.

**Symmetry.** The identities of files, the calls of one instance, the names of
requests, the choices, the clients and the requests under way are alike where a
run checks safety. `waits`, `drive_beside` and `late_ends`, which check that waits
and calls end, use none. Where a call stands apart, the others are alike
(`LatterAlike`).

**Constraint.** `drive_contract` alone has one, `OneWayToMend`: no state is looked
at in which a recovery and a new start run at once. What happens there is in the
table further down.

**Deadlock** is checked in every run but `sign_in` and `memory`, whose models end at
their bounds (time, tasks, revisions). `AllDone` stutters where every call has been
made. In `services` the parts beside the lesson may stop at their bounds (`Stops`); in
the lesson itself a parent may always edit.

### Runs that are violated, and what they show

Each states what a comment of the source says, and TLC finds what the code does
instead. `PROJECT.json` quotes the comments.

* `drive_stale_check` -- the read that guards an upload is held to nothing, so an
  early one matches and the second of two tabs is laid over the first.
* `late_misfit` -- a hand-out made again after an edit does not ask whether the
  task still fits.
* `recovery_stops` -- a recovery keeps damage forever before it finds that it is
  damage. One that stops there leaves the next one that damage as the latest kept,
  to try in place of the state kept for its day.

### What the passing runs leave out on purpose

Some properties hold only where one thing does not happen, and each passing run
excludes just that thing. Each of these is one field of a ground or a setting
away from a counterexample:

| Change | Violated | What happens |
|---|---|---|
| `TwoInstances`: `lateLandings |-> TRUE` | `NeverLaidOverOurs` | an upload out of time gives the turn back, and may land over the next session's (`write.go`: `upload`); `NeverLaidOverOursOnTime` holds the ones in time to it |
| `ParentsHand`: `maxParentActs |-> 2`, and no exception in the property | `RefusedIsNotTheProfile` | a write into a file that went to the bin is refused though it landed; taken out of the bin, it is the profile (`write.go:145`). The property excepts a parent who does both |
| `EarlyReads`: `parentActs |-> {"edit"}`, `maxParentActs |-> 1`, and no exception in the property | `LoadSeesOwnWrites` | a parent who puts an earlier state back by hand is believed once the read was refused (`read.go:186`). The property excepts a file a parent or a recovery put a state into |
| `DriveContract`: no `CONSTRAINT` | `ImplementsContract` | a recovery that read its history before a new start, and uploads after it, makes the old file the profile again (`history.go:178`) |
| `CountedOnce` without its allowance for requests unheard | -- | by the file alone, a write that was not answered cannot tell its own earlier upload from another call's same answer, and both count it (`later.go:325`), or neither (`later.go:329`) |
| `MCServices`: `Concurrency` above `Processors`, without the assumption `OneProcessorEach` | `VerdictsHold` | a program is stopped by the clock for the work of another; the source asks for no more slots than processors (`starlark.go`: `Concurrency`), and so does an assumption of `Solvers` |
| `MCMemory`: a window of 4 that keeps 2, and 4 tasks skipped in a row, without the assumption `TurnsAreInView` | `EveryTopicComesRound` | the window keeps the latest answers and slides over the skipped tasks alone, so tasks of several topics fall out of it; the catalog's order settles their tie, and the last of them may be passed over for as long as the child skips (`tutor.go`: `waitedLonger`, `answer.go`: `leaving`) |

So each of these is a way the property does go wrong in the code; what two
instances may do to each other within one upload is left out by the property
itself, since the source says nothing in Drive's API lets a caller close it. The
hazards of `PROJECT.json` list the lines.

### Fairness

Whether a call is made, fails, or its caller gives up is never assumed.

* `Turns`: a call that holds the place gives it back and leaves (its `defer`
  runs), and one whose context ended gives up (`WF`). `Take` has `SF`: senders
  blocked on a Go channel are queued first in first out, so a place that is free
  again and again is not withheld from one of them for ever.
* `News`: a question that has begun reads and listens on (`WF`); the end of its hold
  has `SF`, as a `select` that finds a timer ready again and again, beside news, picks
  it at last.
* `DriveStore`, `LateWrites`: each call's own next step has `WF`: a goroutine
  that can run is run, a request to Drive has a time limit, and the HTTP request
  is held open for a write after its answer, so the instance is not frozen under
  it. There is no fairness for the failures or the parent.

## What is proved

TLAPS proves these for every value of the constants: any number of calls,
accounts, instances, files, requests, attempts, tasks, and any length of a day.
Each theorem is named in `PROJECT.json` with the property it states. What is
assumed of the constants is an `ASSUME` of the module that declares them, which TLC
evaluates in every run.

**`WaitsProofs`** (assumes `CallsFinite`, `NoTurnIsNone`, `NoCallIsNone`; and
`BoundsAreNumbers`): `TurnsHold` and `NewsReachesAll`. For the turns, neither `OneAtATime` nor `TableIsExact` is inductive. The invariant adds
that `waiting[t]` is the number of
calls in turn `t`, that a turn's place is taken by a call that holds it and only
by that one, and that two accounts never share a turn. Then a turn is dropped
only when nobody else is in it, and all that write for an account go by one
object. The count is where the finiteness of `Calls` is used. For the news, an ear
is in one place alone: with the others, being handed one write, or handed it
(`InOnePlace`); a question has listened again no oftener than writes were told
(`Counted`), so it is not left out of ears; and every write told outside the gaps is
on its way to the question, or known to it once it has read (`HeardOf`, `Known`), which
is `NoNewsMissed` made inductive. Nothing is assumed of a read but that the store holds
it to a number this instance wrote, or to none: what it was held to is known from it,
and what is told while it is under way goes to the ear that was there before.

**`DriveStoreProofs`** and **`DriveContractProofs`** (assume `GroundsAreKnown`,
`NoFileIsNone`, `NoCallIsNone`, `CallsAreFinite`, `CallsAreNoNumbers`). The first says
where calls and contents are, and proves `TypeOK` and `RefusalsAreTrue`; the second
`LoadSeesOwnWrites`, `NeverWithoutAProfile` and `NeverLaidOverOursOnTime`, all whichever
reads come early, answers are lost, uploads land late and instances restart, and
whatever the parent does. For a store served alone (`ServedAlone`: one instance, a Drive
that answers with what is there and lands an upload while its caller waits, and no hand
of the parent's; answers may be lost and the instance restarts), `ReadableIsKept`, and
the refinement: every step is one of `ProfileStore`'s or none (`ImplementsContract`), as
long as no recovery meets a new start (`OneWayToMend`).

* `Stands` is what all of them rest on. `Typed(N)` gives the fields their types, with
  the numbers up to the count of sessions that have read the profile and one more: a
  number is only raised by a session that read the one below it, and each does so
  once (`TypeOK` alone is not inductive, since it says nothing of how many calls
  have yet to touch the profile). `Placed(c)` says what a call has at hand where
  it stands: a file, a turn, what it read, what is left to do.
* For a conflict, `Landing(c)`: before its write lands a call's content is nowhere,
  and after it only in the file the call is at, where a call that is told "conflict"
  after its upload had found the file in the bin or set aside. No call ever makes such
  a file the profile again, and none is at a file in the bin until the parent acts
  (`OutOfBin`); a parent who bins and then unbins it is the property's exception.
* For a refusal as behind, `LetGoOf`: a file an instance refused so is not one its
  memory holds a read to, nor one any of its calls that began since holds one to.
* For a session's own writes, `OwnWrites`: what a call puts is one past a state of
  the very file it puts it in (`Computed`), and what is remembered is the number of a
  state that file has been in (`ReachedAt`). A read that is damaged is the hard case:
  it is held to nothing, what was remembered is let go of and the file is searched
  for again. In a file nothing but sessions moved on, only the second state can be
  damaged (`WellMade`), so the number was among the first (`Low`), and what any later
  search finds has passed it.
* For a new start, until the parent acts, `Leaving` (what is to be set aside is in the
  bin or has a state that does not read) and `Replaced` (the file made is there, marked,
  and every state of it reads): so no new start sets aside what another has made.
* For uploads, `Uploading`: a call in its turn that has checked the file has read what
  it holds, until another instance or the parent writes; nobody of its own instance
  can, since it has the turn (`OneInTurn`).
* For a profile that reads, `Minded`: what a call in its turn uploads over is what the
  file holds (`Sure`), a recovery's base is damage (`Decided`), and what a new start is
  about to set aside does not read or is in the bin (`Leaves`), nobody else having written
  since (`InTurnSees`). Each of these fails with a second instance, by the window Drive
  leaves open; with the parent's hand the property speaks of no step of the parent's.
* For the contract, `Heading`. The contract's history is that of the file a search finds
  (`IsHead`), so a write has to go to that file and a new file has to take the place of
  none or of one that does not read. A file remembered or gone to is the first, if it
  reads (`Led`); a call in its turn knows what the first was when it looked (`Beholds`);
  a call answered has landed, in a file that was sound (`Told`); and a file is damaged
  once at most (`OnceDamaged`), so what a recovery puts back is the latest state that
  reads. A recovery is at the first from its search to its upload (`Mendable`), though
  it waits for its turn between: here alone `OneWayToMend` is used, for a new start in
  that wait makes another file the first.

`Among`, which takes the files a search is about from those there are, is a
recursive function. What it returns (`AmongIs`, and those after it) is proved by
the least length at which it would go wrong, since the library's induction takes an
operator as its parameter.

**`ProfileProofs`** and **`LessonProofs`** (assume `LimitsAreNumbers`, `NoAnswerIsNone`,
`SkippedIsNoChoice`, `NoneIsNone`; `MaxClockIsNumber`): every property of `Lesson`
that `services` checks. `ProfileProofs` says of each operator of `Profile` what it keeps, for
any profile, of three parts:

* `Sound` -- the fields agree: kept or open but not both, the books add up, and
  no entry names the task in flight;
* `Known` -- every name in the profile has been given, and the names of the open
  request, of the task kept and of those handed out are apart;
* `Timely` -- an open request, and a task kept, has room in the day it was
  opened on and in any day it may be handed out. `DayHasRoom` needs this: by itself
  it says nothing of the task about to be counted. `ReadyHasRoom` is half of it.

`LessonProofs` has one case per action over those lemmas. So `prepare_task` never lets
a task go without opening a request in its place (`PrepareNothing` writes nothing
new): its day had room for what was let go.

**`LateWritesProofs`** (assumes `SettingsAreKnown`, `NamesAreApart`, `CallsAreFinite`,
`SomeChoice`, `LimitsAreSet`, and those of `Profile`): every property of the `late_kept`
run. The same lemmas of `ProfileProofs` are used of a file that several calls write.
`BasesHold` says a call still has what it decided by (`Rightly`) for as long as the
file has the number it read; so a write that lands is what one operation of the lesson
makes of what the file then holds, which is `AsOneAtATime`. `Placed` and `Pends` tie
where a call is to what its caller was told and to the writes its instance waits for;
`Follows` carries that to the calls that began later. For the counting, `LinesAreFew`
bounds the lines of an answer together with the writes that went unheard and have not
looked again by the outages there were; `LinesAreLeft` is its other side.

**`ServicesProofs`**:

* `StopsHold` (assumes `WayOutIsLongEnough`), for any number of requests. `ProcessInv`
  says who still has time: the close's budget and each request's bound are within the
  drain's deadline (`Held`), the measurements are each in one place (`Shares`, `Carried`,
  `Booked`), and a process that has left has left nothing (`Empty`).
* `RepeatsDoNoHarm` (`CallsHaveTimes`), for any number of attempts. An attempt in flight
  has the time it was given before the token ends (`InFlightHasTime`), and no attempt
  follows one whose write Drive may have done (`NothingWrittenYet`).
* `CacheHolds` and `FreshAreLetGoLast` (`KeptForAWhile`), for any clients and fetches. A
  form is dated by when it was read, and a fetch holds one no older than its attempt
  (`KeptFromThen`, `ReadFromThen`); at most one form is kept of each (`FormsAreFew`).
* `VerdictsHold` (`OneProcessorEach`, `LimitsArePositive`), for any tasks, works and slots.
  A run has done as much as its clock says (`RunsByItself`), as it has a processor
  (`OneProcessorEach`).
* `CeilingsHold` (`PacesAreKnown`), for any keys, requests, paces and room. What a key
  was let in for over any stretch, together with what it holds, is within its pace
  (`Owed`, of which `PaceHolds` is the part that forgets what it holds), and it holds no
  less than the ideal (`Whole`). A request under way has an entry of the log to itself
  (`AtWork`, `Apart`), so what is given back is given back once.

* `GivenIsGood` and `GivenEnds` (`NoInstanceIsNone`, `TimesAreNumbers`), for any
  instances whose clocks are at most `ClockSkew` apart (as `Init` has them) and any
  lifetimes. The invariant relates each date in a token to nobody's time: Google's
  token in it ends no later than some instance thought, the access token ends a margin
  before that, and the date of the sign-in is carried unchanged. The margin is then
  what the three clocks of an issue may disagree by, with the tool's span. A token
  of the grant `Demo` that signs in anybody but a reviewer is there only once the demo
  account came through Google (`SoundGoogle`), and a reviewer's is never sent to Google
  to end a grant; so whichever refresh tokens Google replaces or lets go of, that grant
  ends by nothing else.

**`MemoryProofs`**: `ProbesAreApart` (`ProbesHaveTurns`), from the count `probeDue` reads
being the tasks handed out, less the one that is asked for. `MasteryIsEarned` and
`LostByARunAlone` (`MasteryHasRules`), from the streak kept being the
run of wrong answers, and the answers counted being no fewer than were right.
`DaysAreWhole` (`DaysAreTimes`), for any clocks and any skew: a day begun now holds
the moment it is begun in, by whatever clock, and is exchanged only for one by a clock
that finds it over. `NoMoreThanTheDays` (`DaysAreTimes`), for clocks that agree: a
clock's midnights are a day apart (`MidnightsApart`), so each day of the last day's
length but two was begun by a clock newly told (`BegunBy`); and a request open over
a full day is only handed out before that day gave anything or when it is over
(`DaysCounted`). `RecoveryHolds` and `TriedAreNotDeleted` (`RecoveryHasBounds`;
`DamageIsNoProfile`; `TriedFit`: Drive keeps more than a recovery tries), for any
histories and recoveries. A latest revision that was kept or deleted reads, and no
more are kept than Drive keeps (`Kept`). What is left to a recovery, and
what it looked at, follow from what it listed (`InPlace`, `Looked`). By itself, it keeps
one revision for each it made room for (`ByItself`, `AsItWas`), so the room it made is
enough: `TriedAre` and `RoomIs` count that. `IdeasAreGivenInTurn` (`ListsHaveIdeas`;
`OneIsTheLongest`: the builds' lists have a longest), for any lists and rounds: an
idea named is one that may be given yet when its task reaches the child, since nothing
else is given before (`IsNamed`), and the ideas every build has were each given as
often, but for those of the round (`TurnsAre`), which are all given before the next
begins. `WindowKeepsItsOwn` and `WeekIsToldRight`
(`WindowFits`), for any answers, skipped tasks and earlier builds. Of the answers
after one in the window there are no more in it than were given at all
(`AfterAreLater`), so the one let go of is never one of the latest (`HoldsTheLatest`).
A day kept starts before an answer; and the answer before that ended the trial
series, is the one its `unkept` tells of, or has a day that is kept as well, or
is past the week's reach (`ToldBefore`). The day of the latest answer is kept, unless an
earlier build wrote after it (`DaysAre`). `EveryTopicComesRound`
(`TurnsHaveBounds`, `TurnsAreInView`), for any topics, events and windows: short runs
of skipped tasks leave the oldest entry to be let go of (`RunsAreShort`), so the tasks
handed out since the topic watched stand in the window as the latest (`StandIn`). A
topic that took its turn in place of the one watched waited as long, or twice as far
with the doubling, so two such turns of one topic are at twice the distance or a
window apart (`AreSpread`). The later half of the turns between two events is
then all of different topics, and no more than there are (`TurnsAreFew`).

**Model-checked only:** liveness. Liveness under fairness and `ENABLED` are beyond
what TLAPS proves here, and so is, but for `Among`, what a recursive definition
computes for every input. Every invariant and
action property a passing run checks is a theorem, under the assumptions named above.

## Not modelled

* **Words.** What a tool, a page or a card says, and the parsing, validation and
  migration of a profile: pure functions of text. A content reads, is damaged, or
  is of a newer build (`DriveStore`), and that is all the rest asks of it. The
  other tools write by `DriveStore`'s sessions and by `Lesson`'s `Edit`; the rest of
  what they do is reading.
* **Real numbers.** The rating, the corridor of difficulty a task is set in, and
  the progress told from them. TLC has no real numbers, and a model with the
  estimates in steps would say something about the steps. The models take any
  outcome the estimate may have: any topics within reach, any level cleared.
* **The text of a task.** Checks, pictures and the language of the solver programs
  are pure, and large: a task passes or is refused, a program gives an answer and
  takes some work.
* **Cryptography.** A sealed token or task opens or it does not.
* **The network and its protocols.** Routing, headers, the protocol library, the
  forms and pages of sign-in: a refused request changes nothing.
* **Tools beside the service.** The report over the logs, the simulated learners
  and the experiments of `research` (two fifths of the repository's Go), the
  deployment and the documents are no part of what runs for a child.
* **Two instances within one upload.** Drive gives a caller no way to close it, as
  `drivestore.go` says. `DriveStore` lets it happen, and its properties say what is
  left.

So the map covers a small share of the repository's lines: what has behaviour in
time is small beside its words, tables, tests of models and tools.

## Plan

What would come next, in this order:

1. `LateWrites` over a store whose uploads may land late: an answer made again on
   a fresh read, after an earlier attempt that lands later still (`later.go:310`).
   It needs the window of `DriveStore`'s `LandLate` in the contract.
2. `Process` with the instance's `LateWrites` inside it, so a drain cut short is
   the `Restart` the other models take as given.
3. The contract of several instances, with the windows Drive leaves open in it, and
   the refinement of that by `DriveStore`.
4. The runs of skipped tasks that `TurnsAreInView` leaves out: what the turns promise
   a topic while the window slides over skipped tasks alone.

## Running it

With `tla2tools`, the community modules and TLAPS at hand, from this directory:

    tlasany LateWrites.tla
    tlc -workers 2 -config LateKept.cfg MCLateWrites.tla
    tlapm LessonProofs.tla

`PROJECT.json` names the module and the configuration of each run. The longest,
`sign_in` and `memory`, take two to three minutes with two workers.
