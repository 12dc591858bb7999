# void-harness in TLA+

Specifications of the parts of void-harness where several processes, files,
crashes and timers meet: the mission runtime of `packages/void-machine`, the
journal it writes, the step it executes, the sequenced event log that hooks and
commands share, the episodes, reviews and corrections recorded in it, the
checkpoint lock of the hooks, and the file transaction (`packages/hook-runner`,
`packages/mission-engine`, `packages/cli`). TLC checks every module on small
instances; TLAPS proves, for all instances, every safety property and every
refinement that the passing runs check. Liveness is left to TLC.

```
tlc -workers 2 -config KernelCrash.cfg MCMissionKernel     # one run
tlapm MissionKernelProofs.tla                              # the proofs
```

`PROJECT.json` lists the runs, the source lines behind every definition, the
hazards and the theorems.

## 1. Inventory

### The two families of missions

**void-machine** (`packages/void-machine`) runs a *mission*: a short list of
steps, each one native model call. It has three layers.

| part | state | operations | what must hold |
|---|---|---|---|
| core reducer (`core/mission.ts`) | none; folds a history into a position | `transition`, `missionPosition` | a step is offered once, nothing follows a settled position |
| kernel (`runtime/mission.ts`) | what one process read, its pending event | `startMission`, `resumeMission`, `cancelMission`, `abandonMission` | at most one launch per step, no receipt contradicted, no cost lost |
| journal (`adapters/store/file-journal.ts`) | a directory with `NNNNNN.json` per revision | `read`, `append` | one writer per revision, readers see a prefix, an acknowledged record survives |
| bounded execution (`runtime/execution.ts`) and executor (`adapters/runtime/claude.ts`) | a deadline, two promises, a child, its streams, a kill timer | `executeBounded`, `execute` | one outcome, no leftover timer, a settled step's child is gone |
| application (`application/*.ts`, `verticals/sourced-note`) | none | `noteRunner.execute`, codecs | a stopped step whose end is unconfirmed is not reported as stopped |

Processes never talk to each other: they meet in the journal's directory. The
kernel calls the journal and, between the durable intent of a step and its
outcome, the runner, which calls `executeBounded`, which calls the executor.

**The harness** (`packages/hook-runner`, `mission-engine`, `cli`) records every
mission of a project as an event log, `events.jsonl`, written by short-lived
hook and command processes.

| part | state | operations | what must hold |
|---|---|---|---|
| sequenced writer (`sequenced-writer.ts`) | `events.jsonl`, `.seq.lock`, `.seq.state` | `writeSequencedEvent`, `writeSequencedEventOnce` | one writer at a time, sequence 1, 2, 3 ..., a retry appends nothing |
| event stream (`events/reducer.ts`) | none; folds the text | `replayEventLog`, `reduceEventStream` | every line written whole is read |
| lifecycle (`mission-lifecycle.ts`, `store.ts`, `commands/mission.ts`) | episodes derived from the log, `mission.json` | create, resume, close, recover | work only in an open episode, one closure per episode |
| archive (`archive.ts`) | `archives/*.jsonl.gz`, run directories | archive, prune | what is archived is what was judged |
| review loop, controller, specialists | derived from the log, HEAD and the other inputs of a review | reduce, dispatch, complete | rounds end, a stale review is not counted, a correction answers a review |
| file transaction (`transaction.ts`) | a set of files and their backups | `commitFileTransaction` | all of the files or the previous ones |
| context continuity (`context-continuity-executor.ts`) | a checkpoint and its lock with recovery claims | save, restore | one recoverer at a time |
| autopilot (`lib/autopilot`) | a persisted program of turns | observe, decide, advance | a turn is not repeated |
| project graph (`harness-graph/src/project`) | a derived graph and its cache | build, publish, read | a published cache is whole |

The remaining parts (policy, findings, routing, risk, evidence, security and UI
decisions, graph extraction and analysis, installation and rendering, the
applications and scripts) are pure functions or sequential pipelines.

### What is hard here

- two processes that resume the same mission (the compare-and-swap of revisions),
  a cancellation or an abandonment while a call runs, and what becomes of the
  call's cost;
- a process that dies, or a host that loses power, between any two file-system
  calls; records linked but not yet synced;
- listings that run while other processes link records;
- the deadline, the executor's answer, the child's exit and its streams racing
  each other;
- a lock file that outlives its owner, and who may remove it;
- torn lines, a cached sequence number, a retry of a write that had succeeded;
- commands that read the log, decide, and write later to a log that has grown;
- a review whose inputs change under it, by a commit or without one;
- a recovery whose receipt every later command replays, and refuses if it does
  not reproduce;
- the elections of hooks that die while they recover a lock, on a file system
  that reuses inode numbers;
- limits: 16 records, the size of an event log, the number of lock attempts.

`PROJECT.json` `hazards` gives each of these its line and its properties.

## 2. The modules

| module | models | kind |
|---|---|---|
| `MissionReducer` | `core/mission.ts` | pure operators and one recursive function |
| `MissionKernel` | `runtime/mission.ts` and the runner's local refusal | processes over one journal |
| `MissionLedger` | what a mission promises, without processes | abstract specification |
| `MissionRefinement` | the kernel implements the ledger | refinement mapping |
| `MissionInvariant` | the inductive invariants of the kernel | invariants |
| `FileJournal` | `adapters/store/file-journal.ts` | processes over a directory |
| `AppendLog` | what `runtime/journal.ts` promises | abstract specification |
| `StepExecution` | `runtime/execution.ts`, `adapters/runtime/claude.ts`, `noteRunner.execute` | one call with its timers |
| `EventStream` | `events/reducer.ts` | pure operators |
| `SequencedWriter` | `sequenced-writer.ts` and the validations its callers pass | processes over three files |
| `MissionLog` | what the writers promise their callers | abstract specification |
| `EpisodeLog` | `mission-lifecycle.ts`, `mission-recovery.ts`: what a log says of its episodes | pure operators |
| `MissionLifecycle` | the commands that resume, work on, close and recover a mission | processes over one log |
| `MissionEpisodes` | the life of a mission, without processes | abstract specification |
| `MissionTeam` | `review-loop.ts`, `controller.ts` and the commands around them | processes over one log and one HEAD |
| `ContinuityLock` | `context-continuity-executor.ts`: the lock, its recovery and the merge | processes over files |
| `CheckpointMerge` | what a merge promises the hooks | abstract specification |
| `FileTransaction` | `cli/src/lib/transaction.ts`, and `pruneEmptyParents` of `receipts.ts` | one call over files and directories |
| `MC...` | symmetry and views for TLC | |
| `MissionKernelProofs`, `FileJournalProofs`, `StepExecutionProofs`, `SequencedWriterProofs`, `MissionLifecycleProofs`, `MissionTeamProofs`, `ContinuityLockProofs`, `FileTransactionProofs` | the inductive invariant of the module they are named after, and its theorems | proofs |

### MissionReducer and MissionKernel

A process has a control point `pc`; each action is one interval between two
awaits that other processes can observe. `Start` and `Open` are the command's
entry, `Load` is `readMission`, `Advance` one turn of the loop in `advance`,
`Decide` one attempt of `decide` (`attempt` is its loop counter), `Execute`,
`Refuse`, `Return` and `Throw` the body of `dispatch`, `KeepLateCost` and
`AfterConflict` the functions of those names. An append has two visible points,
`Link` (the claim of the revision) and `Sync` (its durability); `LinkRefused`,
`JournalFull`, `AppendFails` and `SyncFails` are its other answers. `Settle`,
`AfterWrite` and `AfterLoss` name what the callers of `writeMission` do with
them. `Crash` ends a process anywhere; `PowerLoss` ends all of them and drops
unsynced records.

Data is abstracted to what the properties tell apart. A record is its kind, its
step, its writer, and the reducer's state after it, kept so that a position
need not be folded again at every step; `ReducerAgreement` checks the kept state
against the fold. Values, sources, byte limits and usage numbers are left out:
`returned` says which calls came back with a usage, and a record of a kind that
carries one keeps it. Refusals of a read for the format, the version or the admission of a
record are one refusal, "unlisted"; on the write side they are "unrecordable".
A process runs one command; a second command of the same person is another
process.

### FileJournal and AppendLog

The kernel reads the journal as a snapshot and appends by compare-and-swap.
`FileJournal` justifies that: there every system call is a step, a listing may or may not
contain what is linked while it runs, and a loss of power keeps any subset of
unsynced entries. `JournalSpec` shows that it implements `AppendLog`, whose
reads are prefixes, whose claims are exclusive and whose acknowledged records
survive a loss of power. The kernel takes two things in a simpler form. Its
`PowerLoss` drops a suffix, while `FileJournal` may also leave a hole: `Dense`
refuses it at the next listing, which is the kernel's "unlisted" read. And a read that
returns an older prefix is, for the kernel, a read made earlier.

### StepExecution

One call of `noteRunner.execute`: the deadline is scheduled (`Arm`, or
`ElapseAtOnce` for a scheduler that calls back at once), the executor is called,
the child lives, prints, fails and closes in any order, and the promise
callbacks (`Observe`, `Report`) run when the event loop gets to them. `Abort`
runs inside `controller.abort()`, as in the code.

### EventStream, SequencedWriter and MissionLog

`events.jsonl` is a sequence of chunks: a whole event, a newline, or a torn
prefix of an event. Every call of `writeSequencedEventInternal` on a file is an
action; `acquireLock` is `CreateLock`, `WriteToken`, `Inspect`, `BreakLock` and
`LockTimeout`, `releaseLock` is `Release` and `Unlink`. Every call of the file
system whose error the code throws may be refused: `TokenFails` and
`AcquireFails` in `acquireLock`, `ReadFails`, `BoundaryFails`, `AppendFails` and
`StateFails` under the lock, and `ReleaseFails`, which leaves the lock of a live
process behind for others to find old. The lock file carries
its creator's token, whether the token has been written, and whether it got
older than `lockStaleMs` (`Age`). The constant `LocksAge` says which locks may:
`"never"` is a lock nobody holds longer than the stale time and nobody orphans
for that long, `"orphaned"` only those whose owner has left, `"any"` all of
them (a suspended process). Three kinds of drafts stand for the callers: a hook event
(fresh id, no precondition), work under a stable id refused after the closure,
and a closure with one stable id whatever its reason. A size in bytes is a
number of chunks, which is as much as the code concludes from it: an append-only
file has one text per size. `AppendLine` takes the write and the stat that
follows it as one step; under the lock nobody else appends between them, and
without the lock (`WriterStale`) the violation is found anyway.

`LogSpec` shows that all of this is one abstract step of `MissionLog`: the log
grows by one event, numbered by its place, under an id nobody has used; an event
under a stable id is admitted by the very log it is appended to. A cache that is
believed too early, a retry that appends twice, or a closure that is no longer
the last word would each break it.

### EpisodeLog, MissionLifecycle and MissionEpisodes

`MissionLifecycle` is written against `MissionLog`: a command reads the log,
decides (`Resume`, `RequestWriter`, `CompleteWriter`, `Close`, `Recover`), and
in a later step either appends its event, finds it already there, or is refused
(`WriteEvent`, `FindEvent`, `Refuse`). What the log means is in `EpisodeLog`,
as it is in the code: every command replays `projectMissionLifecycle` and
`validateRecoveries` over the whole log, and throws on a log whose receipts do
not reproduce. An event is named by its place and a journal hash by the length
of the prefix it covers, which is exact for a log that only grows. An operator's
recovery request is a file of its own and outlives the command that wrote it
(`PrepareRequest`); the observations a recovery makes of the project are one
constant set. `Actions` and `Dispositions` are interchangeable values.
`MissionEpisodes` is the mission as the documentation tells it: an episode, one
closure, and another episode only after a stop and only after work.

### MissionTeam

One episode under the policy `bounded-corrections-v1`, whose plan routes the
independent reviewer. `Window`, `History`, `Accepted`, `NextRound`, `IsStale`,
`Counted` and `Resolved` are `collectCompletions` and `reduceReviewLoop`;
`Decision` is `orchestrateMissionTeam`, in the order of its early returns;
`Verdict` is `deriveMissionVerdict` for one verification command.

A review depends on a commit and on other inputs, the merged policies, the
profiles, the stack and the specialists' catalogue, whose hash (`inputHash`) is
`inputs`. A review of another commit does not match its receipt and stops the
mission. A review of the same commit and other inputs is *stale*: its round is
spent, what it says does not count, and the writer is asked for a correction of
what the earlier reviews left open, which may be nothing (`Decision`, the branch
of `IsStale`). Both change whenever somebody changes them (`Commit`,
`ChangeInputs`); `Inputs` is the sequence of values that they take, in which a
value may come back.

A dispatch reads the log between two equal observations of HEAD (`Inspect`),
captures the review subject and its inputs afterwards and decides (`Dispatch`),
and records its event later still (`WriteEvent`). Dispatches race with each
other and with every other command; `DispatchAtOnce` is the one that nothing
overtakes. Writer completions, reviews and verifications read and write in one
step here, because `MissionLifecycle` already has the races of the writer's
events, and the others are decided by the log they are appended to or by an id
of their own. A review says which findings it raises, resolves, or leaves
unresolved, and cites the last passed verification of its commit. Every finding
is a blocking one: the controller and the loop pass over advisory ones. The
starts and failures of a reviewer, and the contexts it runs in, are left out:
one dispatch has one completion.

### ContinuityLock and CheckpointMerge

Every `lstat`, `open` and `unlink` of `context-continuity-executor.ts` is a
step. A file is its inode and its date, and `FreeInodes` are reused as soon as
no path and no open descriptor leads to them, which is what the comment in
`claimStaleLock` is about. `Init` starts from what dead hooks may have left:
a lock or none, and a chain of claims of any length. `Fence`, `Claim`, `Judge`,
`Doom`, `RemoveLock`, `Take`, `Retreat` and `Withdraw` are
`acquireRecoveryFence`, `claimStaleLock`, `unlinkOwnedPath` and
`releaseRecoveryFence`. With `Suspends = FALSE` no call lasts for
`LOCK_STALE_MS`. `MergeSpec` shows that the merges are atomic and none is lost.

### FileTransaction

One `commitFileTransaction`: `Stage` makes the workspace, `Snapshot` is one turn
of the first loop, `MakeParents`, `Rename`, `Remove` and `Prune` the two kinds of
mutation, `Restore` one turn of the rollback, `RemoveCreated` and `Cleanup` its
end. Any of them may fail (`SnapshotFails`, `ApplyFails`, `RestoreBreaks`, the
second disjunct of `Cleanup`) and the process may die between any two. The
targets lie in a chain of nested directories, of which the deepest ones may be
missing; a target's mutation, its directory and whether it exists are chosen in
`Init`, as is the deepest directory that holds a file of somebody else. Bytes
and mode are one of three: none, those found, those to publish. A temporary
file is always removed, and nobody else writes during the call.

## 3. The runs

| run | instance | question |
|---|---|---|
| `KernelCrash` | 3 processes, 2 steps, 2 contracts | the safety invariants of the kernel with crashes and refused I/O, and the refinement of `MissionLedger` |
| `KernelPower` | 2 processes, 2 steps, 4 records, power loss, weak fairness | the inductive invariant of the proofs; launches are covered by durable records, and which of them have room for their outcome; every command reports |
| `KernelLateCost` | 3 processes, 1 step | violated: see below |
| `Journal` | 3 processes, 3 records, crashes, power loss | the file journal implements `AppendLog`; what survives |
| `StepExecution` | one call | outcome, timers, child, usage |
| `Writer` | 2 processes, refused calls, crashes, orphaned locks get stale, weak fairness | a process continues the log of one that died or failed, the writers implement `MissionLog`, nobody removes another's lock, and every call ends |
| `WriterStale` | 3 processes, orphaned locks get stale | violated: see below |
| `Transaction` | 3 mutations, 2 nested directories, failures, crash | all files new or all as before, nothing lost, no directory left |
| `ContinuityLock` | 3 hooks, 4 inodes, chains of 2 claims, crashes, 3 stale times | one holder, no merge lost, a hook alone recovers any leftovers |
| `Lifecycle` | 2 processes, 7 events, two reasons | the log stays readable, callers agree on closures, and the commands implement `MissionEpisodes` |
| `Team` | 1 overtaken dispatch and any number of others, 1 finding, 1 commit or inputs that change once, 1 verification | timely corrections are bounded, every correction answers the review before it, the implementation is one, and a mission that closes as completed was reviewed and verified |
| `TeamStop` | 1 finding, 1 commit, inputs that change once | violated: see below |

**Why the bounds are enough.** Two steps are the least for which an earlier step
can be wrongly offered again and a later one launched too early; three processes
let a third one cancel or abandon while two race for a revision, and are the least that
show the double loss of a late cost. Crashed processes are not restarted: a
process that begins later is the restart. Three records let the journal have
a durable predecessor, a conflict, a gap and a full directory. In the writer, two calls
are a dead process and one that continues its log, or two that race;
`MaxSize = 6` holds two more events, the newline that ends a torn line and a
refusal for the size. `MaxCalls`, `MaxSize`, `LockAttempts` and `MaxRecords` are
the bounds; the last three are limits of the code too, with smaller values.
Three files in a chain of two directories, in every order, are a write and a
removal that share a directory, one that lies deeper, and a directory that is
pruned and made again. Three hooks are two that race for what a third left
behind; the inodes are few, so that the number of a removed lock is given to the
next one; `MaxClock = 3` makes a lock, a claim and a claim on that claim get old
one after the other. Seven events are two episodes: a start, a request, its
completion, a stop, a recovery, and two more that a slow command writes into the
wrong one; `MaxNotes` bounds the hooks and resumptions among them. A journal of
four records is one whose last launched step has no room, as in the code's 16
with eight steps.

In `Team`, one finding raised and resolved in any order fills both batches of
corrections, three rounds and the stop, and one change of the inputs makes any
of the reviews stale and gives one round two different requests. No log without
a commit or a verification reaches `MaxEvents` = 30: its ids are used up before,
and such logs are explored to their end. Once somebody has committed or
verified, the constraint `Explored` follows the log up to
`MaxDisturbedEvents` = 11: a commit after a review stops the mission and a proof
resolves findings sooner, so the rounds are those of the undisturbed logs and what is new
is how a mission completes. One commit is enough for a proof, a receipt or a
review to be of the wrong tree, and eleven events are a completed mission with a
batch of corrections, from its start to its closure; longer ones are left to the
proof, and so are a commit and a change of the inputs in one mission. A closed
mission is not followed, because nothing is written to its log any more. A dispatch that any number of others overtake is the worst a dispatch
can do. A review that settles one finding and leaves another open needs two
findings and is not in the run.

**Symmetry and views.** Processes are interchangeable, and so are contracts,
inodes, actions and dispositions; no run that checks liveness uses symmetry. The view of
`MCMissionKernel` forgets the locals of processes that have ended, and the
reasons of blocked receipts other than "unreadable"; the view of `MCFileJournal`
forgets `answer`. No action and no property of the runs that use them reads what
they forget.

**Fairness.** `Progress` of a live process is weakly fair: a process that has
not died runs what its event loop has ready, and its file-system calls answer.
Faults, commands and the end of a child that is not killed are never fair.
A call of the executor returns because `executeBounded` bounds it: that is
`CallReturns` in `StepExecution`, where only the event loop, its timers and the
operating system's end of a killed process are fair. The fairness of
`SequencedWriter` does not help a waiter whose lock's holder died: it breaks the
lock or gives up after `LockAttempts`.

`CHECK_DEADLOCK FALSE` is stated where processes end: every command, call or
step comes to rest. The journal's run checks deadlock.

### What the violated runs show

- `KernelLateCost`. A call that returns after a cancellation records its cost as
  `discarded`. If the outcome loses its revision to the cancellation and the
  `discarded` record loses the next one to an abandonment, `afterConflict`
  reports the abandonment and the cost is nowhere, although the README of
  void-machine says that it is kept. `CostAccounted`, which holds, says that
  this is the only way.
- `WriterStale`. Two waiters that both found the orphaned lock stale unlink it
  one after the other, the second unlink removing the first one's new lock. Both
  append the same sequence number. With a single survivor this cannot happen
  (`Writer`, `WriterIsAlone`).
- `TeamStop`. The writer is asked for a correction, commits it, and before it
  reports, somebody dispatches again. The review of the previous commit is the
  only one in the window, its receipt does not match HEAD, and the controller
  stops the mission with the advice to resume it through recovery. The closed
  mission takes no completion of the correction any more, so its request stays
  outstanding, and `admitStoppedMission` refuses every recovery for an ambiguous
  effect: the mission has ended without anybody having decided so.

A lock file may stay behind while its process lives on: its token could not be
written, or `releaseLock` could not read or remove it. The next process waits
until it is old. `Writer` has two processes of one call each, so whoever breaks
a lock there is the only one left; a third process would reach the violation of
`WriterStale`.

Limits of the code that no run is spent on:

- `MISSION_EVENT_LIMIT` declares histories of 32 events readable, the file
  journal keeps 16, and an eight-step mission needs 17: the refused record is
  the outcome of the eighth step, after its call. `OutcomeFits` says, and
  `OutcomeHasRoom` proves, that it is the only one.
- A third batch of corrections. A review raises a finding, and a dispatch asks
  for its correction. The inputs of the review change; a second dispatch of the
  same round finds the review stale and decides on a correction of nothing,
  which is another request with another id, but it is slow. The writer corrects,
  the second round is reviewed, the writer corrects again. Now the slow dispatch
  records its request: it is the latest, so the writer completes it, and that is
  a third batch where `docs/BOUNDED-REVIEWS.md:20` allows two. Nothing compares
  the round a request was decided in with the one it is recorded in.
  `TimelyCorrectionsAreBounded`, which holds and is proved, says that this is
  the only way; TLC finds the sequence at once when its condition on the round
  is left out.
- An unreviewed batch. A dispatch decides that the mission is complete and is
  slow. The inputs change, another dispatch asks for a correction because the
  review is stale, and the writer completes it. The slow dispatch closes the
  mission as completed, where `docs/BOUNDED-REVIEWS.md:21` says that each batch
  is verified. `CompletedWasReviewed` says what a completion still means: at
  some moment before it the mission was reviewed, verified and free of findings.
- An outstanding request. Two requests of one round may be outstanding at once
  after a change of the inputs; the writer completes the latest, and the other
  stays outstanding for ever. A mission may complete with it, or be stopped with
  it, in which case it cannot be recovered (`TeamStop`).
- A restore that fails in `commitFileTransaction` ends the rollback: the files
  it had not reached keep their new bytes and `finally` deletes their backups,
  although the function's comment promises that any failure restores.
  `AllOrPrevious` and `PreviousRecoverable` say what holds as long as no restore
  fails.
- A blocker that a later review raises again under the same id, without a word
  on its resolution, stays resolved while the old proof is fresh.
  `CompletedWasReviewed` takes the code's reading.
- `verifyMissionCommand` seals its result for the tree it finds when the command
  has ended. `CompletedWasReviewed` speaks of the tree in the seal; a commit
  made while the command runs is sealed as verified although the command did not
  see all of it, where `docs/specs/2026-08-31-autonomous-until-develop.md:130`
  says that the command seals "the tree it ran against".

## 4. What is proved

Every safety invariant, action property and refinement that a passing run checks
is also a theorem. The theorems hold for every set of processes, hooks, commands
or mutations and every value of the other constants, under the assumptions the
modules state of their constants; where a theorem needs more, the table says so,
and the text below it says why.

Each `*Proofs` module is built the same way: lemmas about the operators, an
inductive invariant whose parts are named for what they say, one lemma for each
action, a lemma that joins them, and the theorems.

### The kernel (`MissionKernelProofs`)

| theorem | property | needs |
|---|---|---|
| `TypeCorrect`, `InvariantHolds` | `TypeOK`, `IInv` | |
| `LaunchedAtMostOnce` | `AtMostOneLaunch` | |
| `HistoryStaysReadable` | `HistoryReadable` | |
| `OutcomeHasRoom` | `OutcomeFits` | |
| `KeptStateIsReduced` | `ReducerAgreement` | `MaxRecords <= MissionEventLimit` |
| `LaunchFollowsAcceptance` | `LaunchAfterAcceptance` | |
| `CancellationIsQuiet` | `ConfirmedCancelIsQuiet` | |
| `ReportsStand` | `ReceiptStands` | `PowerLossAllowed = FALSE` |
| `CostsAreAccounted` | `CostAccounted` | `PowerLossAllowed = FALSE` |
| `ImplementsLedger` | `LedgerSpec` | `PowerLossAllowed = FALSE` |

`AtMostOneLaunch` is not inductive: that a step has been launched once does not
say why no other process is about to launch it. `IInv` (in `MissionInvariant`)
adds the reasons:

- `LegalHistory`: every record was admitted by the reducer where it was linked.
  It is preserved because `PendingLegal` says that the event a process is about
  to link is legal after the prefix it read, and `Link` requires that this
  prefix is still the whole log.
- `PositionsCounted` and `NeverOfferedAgain`: a position's step follows from its
  revision, so a dispatched step is never offered again by a longer history.
- `KnowsPrefix`: a process that executes holds a *durable* intent of its own. It
  is where `Sync` before `Execute` is needed: a loss of power cannot take back
  the intent of a launched step.
- `LaunchCovered`: every launch is covered by one durable intent whose writer is
  past the call. Two launches of one step would need two intents of one step in
  one log, which `NeverOfferedAgain` excludes, or one writer executing twice,
  which `LaunchCovered` excludes.

Two further invariants follow an answer. `AnswerInv` says that the intent of a
call that may still answer stands, and that every recorded answer was launched.
`VerdictInv` says that whoever reported a verdict reported one that the log
keeps, that nothing follows it, and that the result of a call that returned is
recorded or about to be. `VerdictInv` needs a storage that keeps what it linked:
a record is visible to other processes before it is synced, so a loss of power
may take back a record that another process has already answered for.

`OutcomeHasRoom`: whoever raced, the intent of step `s` is revision `2s`, since
every step before it took two; so its outcome is refused exactly when `2s` is
the journal's last revision. Of the code's 16 records and eight steps that is
the eighth. `KeptStateIsReduced`: the reducer refuses more than 32 events and
the journal holds 16.

### The journal (`FileJournalProofs`)

| theorem | property |
|---|---|
| `HeldRecordsArePrefix` | `HeldIsPrefix` |
| `AcknowledgedSurvives` | `GrantedPrefixDurable` |
| `ImplementsLog` | `JournalSpec` |

`JournalInv` adds to the two invariants that what is durable and what a listing
has seen is linked, and that the claim of a process past its link stands.

### The bounded call (`StepExecutionProofs`)

| theorem | property |
|---|---|
| `SettledIsOver` | `SettledStepIsOver` |
| `UsageBeforeVerdict` | `NoUsageAfterVerdict` |
| `DeadlineLaunchesNothing` | `NoLaunchAfterDeadline` |
| `FirstOutcomeIsFinal` | `OutcomeIsFinal` |

`ExecutionInv` has a part for the deadline, the call, the outcome and the
verdict: which of the others each of them presupposes.

### The event log (`SequencedWriterProofs`)

| theorem | property | needs |
|---|---|---|
| `WritersAreAlone` | `WriterIsAlone` | `OnlyOrphansBroken` |
| `ReleasesTakeOwnLocks` | `OwnLockReleased` | `OnlyOrphansBroken` |
| `WritersKeepOneLog` | `LogSpec` | `OnlyOrphansBroken` |
| `EventsAreReadable` | `EventsReadable` | `OnlyOrphansBroken` |
| `SequencesAreDistinct` | `NoSequenceDuplicated` | `OnlyOrphansBroken` |
| `WritersAreAloneWhileLocksAreFresh` | `WriterIsAlone` | `LocksAge = "never"` |
| `OneReadableLogWhileLocksAreFresh` | `LogSpec`, `EventsReadable` | `LocksAge = "never"` |

`OnlyOrphansBroken` says of every step that breaks a lock that the lock's owner
is no longer working under it. `acquireLock` does not ensure that: it removes
whatever lock is there when it gets to it, and a lock may be old and in use. The
theorems say that this is the only hole: in every behaviour in which it does not
happen the log is right, however many processes die, are refused a call, tear
their lines, retry or find a stale cache, and the run `writer_stale` shows what
happens when it does. It cannot happen where no lock gets older than
`lockStaleMs`. That a release removes the releasing process's own lock, although
it reads the token and unlinks in two steps, needs the same condition: only a
lock broken in use is replaced in between.

`WriterInv` says that the text replays to the events written and nothing else
(`Readable`), that a cache whose size is the log's holds the log's last number,
that the event ids in the log were drawn by calls that were made, and what the
call of each process knows of the text at each of its steps. The replay is a
recursive function over the chunks. What it computes is proved without an
induction theorem: a set of counterexamples would have a least element
(`WFMin`), and that element cannot exist. `FoldExists`, `FoldUnique` and
`FedAppend` are the three facts that the rest cites: the replay of a longer text
is the replay of the shorter one and one step.

### The mission's episodes (`MissionLifecycleProofs`)

| theorem | property |
|---|---|
| `LogStaysReadable` | `ReceiptsReproduce` |
| `EndingsAgree` | `ClosersAgree` |
| `WorkCountsWhereAsked` | `WorkStaysInItsEpisode` |
| `ImplementsEpisodes` | `EpisodeSpec` |

`LifecycleInv`: the ids of the log are distinct, its recoveries reproduce and
its completions answer earlier requests (`History`); the same is true of the
event a command is about to write, which it decided on an older log (`Sound`);
an ending that was reported is the one the log keeps (`Kept`); and a completion
stands in the episode it was asked for in (`WorkIn`). A receipt reproduces
because the prefix it names never changes.

### The bounded review (`MissionTeamProofs`)

| theorem | property |
|---|---|
| `TimelyCorrectionsStayBounded` | `TimelyCorrectionsAreBounded` |
| `TheImplementationIsOne` | `ImplementedOnce` |
| `CorrectionsHaveCause` | `CorrectionHasCause` |
| `CompletionWasReviewed` | `CompletedWasReviewed` |

They hold for any number of dispatches, commits and verifications, any sequence
of inputs and any reports. A dispatch decides on a log that may have grown when
it writes, and little that it found is still true then. `TeamInv` therefore says
of each event how it came about and not what it now means: a request or a
closure was decided on some prefix of the log before it (`Decided`), a
completion answers the latest request before it (`Answers`), a review cites a
verification before it, and the ids are distinct (`Justified`, `Sequel`). The
same is true of the event a dispatch is about to write (`Drafted`), on whichever
log, and it stays true when the log grows, because a prefix does not change.
`InBounds` adds that nobody reviewed a commit that is not there yet, nor a
fourth round.

The properties follow from how two such prefixes compare. A correction was
decided on a log with an accepted review, which is of the round that the request
names. The implementation's request has one id whoever decides on it, so there
is one; its completion is the first, and whatever is decided after it is a
correction. A batch asked for in time was decided with as many completions as
there were when it was recorded, at most two of them corrections; two such
batches of one round cannot both be completed, since only the latest request is. `CompletionWasReviewed` needs that the commit a review looked at is
that of the observation it is judged by: a receipt matches HEAD, and HEAD was
observed before (`Inspected`).

### The checkpoint lock (`ContinuityLockProofs`)

| theorem | property | needs |
|---|---|---|
| `HoldersAreAlone` | `OneHolder` | `Suspends = FALSE` |
| `ImplementsMerge` | `MergeSpec` | `Suspends = FALSE` |
| `LoneCallsRecover` | `LoneCallRecovers` | `Suspends = FALSE` |

`Suspends = FALSE` is what the run assumes too: no hook is held up in the middle
of its call for longer than `LOCK_STALE_MS`. A hook that is may believe that it
holds a lock that was recovered from it, which is listed with the hazards.

`LockInv`: the owner of the lock finds it (`OwnerHasLock`), only old files are
doomed (`DoomedIsOld`), and of the hooks that contend for an old lock one is
elected (`OldLock => OneElection`): the holder of the last claim of its chain,
whatever dead hooks left behind and however long the chain. `MergeInv` adds what
the holder has read of the checkpoint, and `LoneInv` that nobody else moves.

### The file transaction (`FileTransactionProofs`)

| theorem | property |
|---|---|
| `TypeCorrect` | `TypeOK` |
| `AllNewOrAllPrevious` | `AllOrPrevious` |
| `PreviousBytesRecoverable` | `PreviousRecoverable` |
| `DirectoriesAreKept` | `DirectoriesKept` |

`TransactionInv` relates the position of the call to every target: which are
new, which have a backup, and which directories the call made.

### What TLC checked first, and what stays with it

The kernel's runs check `IInv`, which implies `TypeOK` and `HistoryReadable`;
those two have no run of their own. The other inductive invariants have no run:
the properties that follow from them do.

Only model-checked are the four liveness properties, `CommandsReport`,
`CallReturns`, `TerminatedChildEnds` and `CallsEnd`: they rest on weak fairness,
hence on ENABLED, which the prover does not reason about. The properties of the
three runs that expect a violation are refuted, not proved, except that
`NoSequenceDuplicated` is a theorem under `OnlyOrphansBroken`.

## 5. What is not modelled

- Contents: prompts, sources, notes, encodings and byte limits of records, the
  event schema. They are admitted or refused.
- The entry of a mission's directory in its parent, which `file-journal.ts` does
  not sync: the directory is taken to be on disk.
- Symbolic links and other unsafe paths: all of them are refusals, which the
  models have.
- The creation of a mission: it appends to a log under a fresh random
  identifier that no other process knows, so it races with nobody; its metadata
  file. Archive and pruning: one process, once, and the copy is read by nobody.
- Of the mission controller: the preparation stage, the reviewers other than the
  independent one, review scopes, evidence obligations, advisory findings, the
  migration of a contract and the staleness of a review of another contract
  version, and what each disposition of a recovery does to the reviews.
- HEAD only moves forward: nobody checks out an earlier commit. The capture of
  HEAD and of the inputs in one dispatch is one step, although the code takes
  the one after the other. The tree is clean: a dirty one refuses the command.
  In the runs the inputs change once; in the proofs they take any sequence of
  values.
- Of the specialist lifecycle: starts, failures and contexts of a reviewer. Two
  contexts may complete one dispatch, which is listed with the hazards.
- The contents of the checkpoint and the restoring of a session; a suspended
  hook that outlives its lock (`Suspends = TRUE` shows it in no run).
- A commit made while a verification command runs.
- In `StepExecution`, `Close` is one step, although `claude.ts:233-260` awaits the
  two captured streams in the middle of it. Both have ended when a child closes,
  so promise callbacks may run in between, and no timer.
- In `ContinuityLock` with `Suspends = FALSE`, the clock advances by a
  `LOCK_STALE_MS` (`Tick`) only while every hook is at rest: no boundary of a
  stale time falls into a call, as short as the call may be.
- A second writer of a project's files during a file transaction, and the
  removal of a receipt's files (`removeReceiptOwnedFiles`, which has no rollback).
- The autopilot loop, the project graph and its cache: see the plan.
- Installation, rendering, analysis and the applications: sequential code
  without shared state.

## 6. Plan

1. *Done*: the kernel with its invariant and first theorems; the file journal;
   the bounded execution; the sequenced writer and the log it implements; the
   file transaction; the continuity lock; the mission's episodes; the bounded
   review.
2. The reviewer's contexts: starts, failures and completions of one dispatch,
   and the preparation stage.
3. The loss of a mission's directory and of a hole in the journal, followed
   through the kernel.
4. The autopilot loop and the publication of the project graph's cache.

Theorems to come: `WriterIsAlone` for any number of processes of which one at a
time waits, so that `OnlyOrphansBroken` follows there too; `CostAccounted` under
losses of power, for the costs whose record was durable; the invariants of the
modules of items 2 to 4.
