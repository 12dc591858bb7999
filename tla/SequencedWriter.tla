--------------------------- MODULE SequencedWriter ---------------------------
(***************************************************************************)
(* packages/hook-runner/src/sequenced-writer.ts: hook and CLI processes    *)
(* append to ONE mission's events.jsonl under the lock file .seq.lock,     *)
(* with the next sequence number cached in .seq.state.  Every file-system  *)
(* call is a step, so a process may die, or be overtaken, between any two. *)
(*                                                                         *)
(* A size is a number of chunks: texts of an append-only file that have    *)
(* the same size are equal, which is all the code concludes from a size.   *)
(***************************************************************************)
EXTENDS EventStream, FiniteSets

CONSTANTS
    Procs,          \* processes that write to the mission
    MaxCalls,       \* how many writes each may ask for (bound of the model)
    MaxSize,        \* MAX_EVENT_LOG_BYTES, in chunks
    LockAttempts,   \* the attempts of acquireLock
    Reasons,        \* the reasons a mission may be closed for
    LocksAge        \* which locks may get older than lockStaleMs:
                    \* "never", "orphaned" ones only, or "any"

ASSUME BoundsAssumption == MaxCalls \in Nat /\ MaxSize \in Nat /\ LockAttempts \in Nat
ASSUME AgeAssumption == LocksAge \in {"never", "orphaned", "any"}

VARIABLES
    text,       \* events.jsonl
    cache,      \* .seq.state
    lock,       \* .seq.lock: the empty set, or the one file
    pc,         \* control point of each process
    calls,      \* how many writes each process has asked for
    draft,      \* the draft of its current call
    tries,      \* attempt, in acquireLock
    size,       \* currentBytes, then boundedBytes, then logBytes
    seq,        \* previousSeq, then the event's own
    event,      \* the event its call returns, if any
    acked       \* every event a call returned

disk == <<text, cache, lock>>
locals == <<calls, draft, tries>>
vars == <<disk, pc, locals, size, seq, event, acked>>

\* "hook": a fresh id and no precondition (record.ts).  "work": a stable id,
\* refused once the mission is closed (resumeMission).  A reason: the closure
\* of the mission, under one stable id whatever the reason (mission.ts close).
Drafts == {"hook", "work"} \cup Reasons

NoEvent == Newline
NoCache == [seq |-> 0, size |-> -1]

\* Between the creation of the lock file and the release of it.
Holding == {"token", "stat", "existing", "validate", "boundary", "sequence",
            "append", "state", "release", "unlink"}
PCs == Holding \cup {"idle", "acquire", "inspect", "break", "dead"}

Started == EventChunk(1, <<"started", 0>>, "started")

(***************************************************************************)
(* A log hooks fill for a mission nobody created, or one that createMission *)
(* began: its writer may have died before it saved .seq.state.             *)
(***************************************************************************)
Init ==
    /\ \/ text = << >> /\ cache = NoCache
       \/ text = <<Started, Newline>> /\ cache \in {NoCache, [seq |-> 1, size |-> 2]}
    /\ lock = {}
    /\ pc = [p \in Procs |-> "idle"]
    /\ calls = [p \in Procs |-> 0]
    /\ draft = [p \in Procs |-> "hook"]
    /\ tries = [p \in Procs |-> 0]
    /\ size = [p \in Procs |-> 0]
    /\ seq = [p \in Procs |-> 0]
    /\ event = [p \in Procs |-> NoEvent]
    /\ acked = {}

Goto(p, point) == pc' = [pc EXCEPT ![p] = point]

Token(p) == <<p, calls[p]>>

\* eventId of the call: stable, or drawn for this call alone.
EventId(p) ==
    CASE draft[p] = "hook" -> Token(p)
      [] draft[p] = "work" -> <<"work", 0>>
      [] OTHER -> <<"closed", 0>>

Stable(p) == draft[p] # "hook"

\* The call ends; what it returns is known to its caller.
Return(p) ==
    /\ Goto(p, "idle")
    /\ acked' = acked \cup ({event[p]} \ {NoEvent})
    /\ event' = [event EXCEPT ![p] = NoEvent]
    /\ size' = [size EXCEPT ![p] = 0]
    /\ seq' = [seq EXCEPT ![p] = 0]

\* The call throws.
Throw(p) ==
    /\ Goto(p, "idle")
    /\ event' = [event EXCEPT ![p] = NoEvent]
    /\ size' = [size EXCEPT ![p] = 0]
    /\ seq' = [seq EXCEPT ![p] = 0]
    /\ UNCHANGED acked

-----------------------------------------------------------------------------
(* acquireLock *)

Call(p) ==
    /\ pc[p] = "idle" /\ calls[p] < MaxCalls
    /\ \E d \in Drafts : draft' = [draft EXCEPT ![p] = d]
    /\ calls' = [calls EXCEPT ![p] = @ + 1]
    /\ tries' = [tries EXCEPT ![p] = 0]
    /\ Goto(p, "acquire")
    /\ UNCHANGED <<disk, size, seq, event, acked>>

\* open(path, 'wx') creates an empty file, or finds one.
CreateLock(p) ==
    /\ pc[p] = "acquire" /\ tries[p] < LockAttempts
    /\ IF lock = {}
       THEN /\ lock' = {[token |-> Token(p), written |-> FALSE, old |-> FALSE]}
            /\ Goto(p, "token")
       ELSE Goto(p, "inspect") /\ UNCHANGED lock
    /\ UNCHANGED <<text, cache, locals, size, seq, event, acked>>

LockTimeout(p) ==
    /\ pc[p] = "acquire" /\ tries[p] >= LockAttempts
    /\ Throw(p)
    /\ UNCHANGED <<disk, locals>>

\* The lock with the token in the file this process created, whether or not
\* that file is still the lock.
TokenIn(p) == {IF l.token = Token(p) THEN [l EXCEPT !.written = TRUE] ELSE l : l \in lock}

WriteToken(p) ==
    /\ pc[p] = "token"
    /\ lock' = TokenIn(p)
    /\ Goto(p, "stat")
    /\ UNCHANGED <<text, cache, locals, size, seq, event, acked>>

\* It cannot be written, or the handle not closed: the call throws and the
\* lock file stays.
TokenFails(p) ==
    /\ pc[p] = "token"
    /\ lock' \in {lock, TokenIn(p)}
    /\ Throw(p)
    /\ UNCHANGED <<text, cache, locals>>

\* open, lstat or unlink is refused: the call throws.
AcquireFails(p) ==
    /\ pc[p] \in {"inspect", "break"} \/ (pc[p] = "acquire" /\ tries[p] < LockAttempts)
    /\ Throw(p)
    /\ UNCHANGED <<disk, locals>>

RetryForever(p) == UNCHANGED tries /\ Goto(p, "acquire")
Retry(p) == tries' = [tries EXCEPT ![p] = @ + 1] /\ Goto(p, "acquire")

FreshBreaks(p) == lock # {}
SeesStale(p) == \E l \in lock : l.old

\* lstat of the lock another process holds: gone, stale, or waited for.
Inspect(p) ==
    /\ pc[p] = "inspect"
    /\ IF SeesStale(p) THEN Goto(p, "break") /\ UNCHANGED tries ELSE Retry(p)
    /\ UNCHANGED <<disk, calls, draft, size, seq, event, acked>>

\* unlink of the stale lock, or of whatever is there by now.
BreakLock(p) ==
    /\ pc[p] = "break"
    /\ lock' = {}
    /\ Retry(p)
    /\ UNCHANGED <<text, cache, calls, draft, size, seq, event, acked>>

-----------------------------------------------------------------------------
(* writeSequencedEventInternal, under the lock *)

\* An error inside the try block: nothing is returned, the lock is released.
Fail(p) ==
    /\ Goto(p, "release")
    /\ event' = [event EXCEPT ![p] = NoEvent]
    /\ UNCHANGED <<lock, locals, size, seq, acked>>

Step(p, point) == Goto(p, point) /\ UNCHANGED <<lock, locals, acked>>

Stat(p) ==
    /\ pc[p] = "stat"
    /\ IF Len(text) > MaxSize THEN Fail(p)
       ELSE /\ Step(p, "existing")
            /\ size' = [size EXCEPT ![p] = Len(text)]
            /\ UNCHANGED <<seq, event>>
    /\ UNCHANGED <<text, cache>>

\* stat, or a read of the log by a step below, is refused.
ReadFails(p) ==
    /\ pc[p] \in {"stat", "existing", "validate", "sequence"}
    /\ Fail(p)
    /\ UNCHANGED <<text, cache>>

Provable(stream) == ~stream.partial /\ stream.duplicates = 0

Present(p, stream) == Known(stream, EventId(p))

\* existingIdempotentEvent: an event recorded under the same id is returned
\* again if its draft is the same.
Existing(p) ==
    /\ pc[p] = "existing"
    /\ LET stream == ReplayEventLog(text)
           same == {e \in ToSet(stream.events) : e.id = EventId(p)}
       IN  IF ~Stable(p) \/ size[p] = 0
           THEN Step(p, "validate") /\ UNCHANGED <<size, seq, event>>
           ELSE IF ~Provable(stream) THEN Fail(p)
           ELSE IF ~Present(p, stream)
           THEN Step(p, "validate") /\ UNCHANGED <<size, seq, event>>
           ELSE IF \E e \in same : e.draft # draft[p] THEN Fail(p)
           ELSE /\ Step(p, "release")
                /\ \E e \in same : event' = [event EXCEPT ![p] = e]
                /\ UNCHANGED <<size, seq>>
    /\ UNCHANGED <<text, cache>>

(***************************************************************************)
(* options.validate of the drafts with a stable id: the log can be proved  *)
(* whole, begins with the mission's start and holds no closure             *)
(* (projectMissionLifecycle without recovery; an empty log has no start).  *)
(***************************************************************************)
Closed(events) == \E i \in DOMAIN events : events[i].draft \in Reasons
Begun(events) == events # << >> /\ events[1] = Started

OpenMission(p, stream) ==
    Stable(p) => Provable(stream) /\ Begun(stream.events) /\ ~Closed(stream.events)

Validate(p) ==
    /\ pc[p] = "validate"
    /\ IF OpenMission(p, ReplayEventLog(text)) /\ size[p] < MaxSize
       THEN Step(p, "boundary") /\ UNCHANGED <<size, seq, event>>
       ELSE Fail(p)
    /\ UNCHANGED <<text, cache>>

BoundaryAssumed(p) == TRUE
AtBoundary(p) == size[p] = 0 \/ text[size[p]] = Newline

\* ensureLineBoundary: a torn last line is ended before anything is added.
Boundary(p) ==
    /\ pc[p] = "boundary"
    /\ Step(p, "sequence")
    /\ IF AtBoundary(p) THEN UNCHANGED <<text, size>>
       ELSE /\ text' = Append(text, Newline)
            /\ size' = [size EXCEPT ![p] = @ + 1]
    /\ UNCHANGED <<cache, seq, event>>

\* The log cannot be read or the newline not written, or its handle not closed.
BoundaryFails(p) ==
    /\ pc[p] = "boundary"
    /\ text' = text \/ (~AtBoundary(p) /\ text' = Append(text, Newline))
    /\ Fail(p)
    /\ UNCHANGED cache

Fits(p) == size[p] + 2 <= MaxSize

CacheAnyway(p) == cache # NoCache
CacheMatches(p) == cache.size = size[p]

\* readSequenceState: the cache when it is of this very size, else the log.
Sequence(p) ==
    /\ pc[p] = "sequence"
    /\ LET last == IF CacheMatches(p) THEN cache.seq
                   ELSE IF size[p] = 0 THEN 0 ELSE ReplayEventLog(text).lastSeq
       IN  IF Fits(p)
           THEN /\ Step(p, "append")
                /\ seq' = [seq EXCEPT ![p] = last + 1]
                /\ UNCHANGED <<size, event>>
           ELSE Fail(p)
    /\ UNCHANGED <<text, cache>>

Made(p) == EventChunk(seq[p], EventId(p), draft[p])

\* appendLine: one event and its newline; the size afterwards is kept.
AppendLine(p) ==
    /\ pc[p] = "append"
    /\ text' = text \o <<Made(p), Newline>>
    /\ size' = [size EXCEPT ![p] = Len(text')]
    /\ Step(p, "state")
    /\ UNCHANGED <<cache, seq, event>>

\* What a write that is interrupted, or whose size is not learnt, may leave.
Interrupted(p) ==
    {text, Append(text, Torn), Append(text, Made(p)), text \o <<Made(p), Newline>>}

\* The write fails part of the way and the error is thrown.
AppendFails(p) ==
    /\ pc[p] = "append"
    /\ text' \in Interrupted(p)
    /\ Fail(p)
    /\ UNCHANGED cache

NextCache(p) == [seq |-> seq[p], size |-> size[p]]

\* writeSequenceState: a temporary renamed over .seq.state.
WriteState(p) ==
    /\ pc[p] = "state"
    /\ cache' = NextCache(p)
    /\ event' = [event EXCEPT ![p] = Made(p)]
    /\ Step(p, "release")
    /\ UNCHANGED <<text, size, seq>>

\* It fails: the call throws although its event is recorded.
StateFails(p) ==
    /\ pc[p] = "state"
    /\ Fail(p)
    /\ UNCHANGED <<text, cache>>

-----------------------------------------------------------------------------
(* releaseLock *)

\* The lock is gone (fine), another process's (left alone), or not yet
\* written by the process that broke this one's (JSON.parse throws).
Release(p) ==
    /\ pc[p] = "release"
    /\ \/ lock = {} /\ Return(p)
       \/ \E l \in lock :
             \/ /\ l.written /\ l.token = Token(p)
                /\ Goto(p, "unlink")
                /\ UNCHANGED <<size, seq, event, acked>>
             \/ l.written /\ l.token # Token(p) /\ Return(p)
             \/ ~l.written /\ Throw(p)
    /\ UNCHANGED <<disk, locals>>

Unlink(p) ==
    /\ pc[p] = "unlink"
    /\ lock' = {}
    /\ Return(p)
    /\ UNCHANGED <<text, cache, locals>>

\* The lock cannot be read or removed: the call throws, whatever it recorded,
\* and a lock of a process that lives and works no more stays behind.
ReleaseFails(p) ==
    /\ pc[p] \in {"release", "unlink"}
    /\ Throw(p)
    /\ UNCHANGED <<disk, locals>>

-----------------------------------------------------------------------------
(* Faults *)

\* A call of the file system is refused where the code throws the error.
CallFails(p) ==
    \/ TokenFails(p) \/ AcquireFails(p) \/ ReadFails(p) \/ BoundaryFails(p)
    \/ AppendFails(p) \/ StateFails(p) \/ ReleaseFails(p)

\* A process dies between two calls, or within the append.
Crash(p) ==
    /\ pc[p] \in PCs \ {"idle", "dead"}
    /\ IF pc[p] = "append" THEN text' \in Interrupted(p) ELSE UNCHANGED text
    /\ Goto(p, "dead")
    /\ UNCHANGED <<cache, lock, locals, size, seq, event, acked>>

\* A lock whose owner is no longer under it.
Orphaned(l) ==
    LET p == l.token[1] IN calls[p] # l.token[2] \/ pc[p] \notin Holding

\* lockStaleMs pass over a lock file.
Age ==
    /\ \E l \in lock :
          /\ ~l.old
          /\ LocksAge # "never"
          /\ LocksAge = "orphaned" => Orphaned(l)
          /\ lock' = {[l EXCEPT !.old = TRUE]}
    /\ UNCHANGED <<text, cache, pc, locals, size, seq, event, acked>>

Progress(p) ==
    \/ CreateLock(p) \/ LockTimeout(p) \/ WriteToken(p) \/ Inspect(p) \/ BreakLock(p)
    \/ Stat(p) \/ Existing(p) \/ Validate(p) \/ Boundary(p) \/ Sequence(p)
    \/ AppendLine(p) \/ WriteState(p) \/ Release(p) \/ Unlink(p)

Next ==
    \/ \E p \in Procs :
          Call(p) \/ Progress(p) \/ CallFails(p) \/ Crash(p)
    \/ Age

Spec == Init /\ [][Next]_vars

\* Every process keeps running until its call ends or it is killed.
FairSpec == Spec /\ \A p \in Procs : WF_vars(Progress(p))

-----------------------------------------------------------------------------
(* Properties *)

Stream == ReplayEventLog(text)

TypeOK ==
    /\ \A i \in DOMAIN text : text[i].type \in {"event", "newline", "torn"}
    /\ Len(text) <= MaxSize
    /\ cache.seq \in 0..MaxSize /\ cache.size \in -1..MaxSize
    /\ Cardinality(lock) <= 1
    /\ pc \in [Procs -> PCs]
    /\ calls \in [Procs -> 0..MaxCalls]
    /\ draft \in [Procs -> Drafts]
    /\ tries \in [Procs -> 0..LockAttempts]
    /\ size \in [Procs -> 0..MaxSize]
    /\ seq \in [Procs -> 0..MaxSize]
    /\ \A p \in Procs : event[p] = NoEvent \/ IsEvent(event[p])

\* Between its token and its release a process is alone with the files.
WriterIsAlone ==
    \A p, q \in Procs : pc[p] \in Holding /\ pc[q] \in Holding => p = q

Log == INSTANCE MissionLog WITH
    events <- Stream.events,
    Stable <- LAMBDA e : e.draft # "hook",
    Admits <- LAMBDA events, d : Begun(events) /\ ~Closed(events),
    FirstLogs <- {<< >>, <<Started>>}

\* What a reader finds in the file, torn lines, retries, stale caches and dead
\* writers notwithstanding, is a log that grows by one event at a time, in
\* sequence, each id once, and nothing but hook events after a closure: no
\* write is judged by a log older than the one it joins.
LogSpec == Log!Spec

\* canonical-sequenced-mission-journal.md:44: "Concurrent hooks cannot
\* duplicate or lose a sequence under one mission."
NoSequenceDuplicated ==
    \A d, e \in WrittenEvents(text) : d.seq = e.seq => d = e

\* A torn fragment never swallows an event that was written whole after it,
\* and what a call returned as recorded is there.
EventsReadable ==
    /\ WrittenEvents(text) = ToSet(Stream.events)
    /\ acked \subseteq ToSet(Stream.events)

\* releaseLock reads the token and removes the path in two steps: what it then
\* removes is its own lock, and not one that took the place of it in between.
OwnLockReleased ==
    \A p \in Procs : pc[p] = "unlink" => \A l \in lock : l.token = Token(p)

\* Every call returns or throws, whatever the holder of the lock does.
CallsEnd == \A p \in Procs : pc[p] = "acquire" ~> pc[p] \in {"idle", "dead"}
=============================================================================
