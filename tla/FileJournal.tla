----------------------------- MODULE FileJournal -----------------------------
(***************************************************************************)
(* packages/void-machine/src/adapters/store/file-journal.ts: one mission   *)
(* directory with a file NNNNNN.json per revision.  A record is written to *)
(* a hidden temporary, synced, and linked to its name; hidden names are    *)
(* never listed, so temporaries (orphans included) are left out.  A record *)
(* is represented by its writer.  Every file-system call is a step of its  *)
(* own; a directory listing is not atomic: what is linked while it runs    *)
(* may or may not be in it.                                                *)
(***************************************************************************)
EXTENDS Integers, FiniteSets, SequencesExt

CONSTANTS
    Procs,              \* processes; a crashed one is replaced by a fresh one
    MaxRecords          \* MAX_RECORDS

ASSUME MaxRecordsAssumption == MaxRecords \in Nat \ {0}

Revisions == 1..MaxRecords

VARIABLES
    directory,  \* whether the mission directory exists
    linked,     \* the record of every linked revision
    durable,    \* the revisions a completed directory sync covers
    pc,         \* control point of each process
    held,       \* the records each process holds; their number is the
                \* expected revision of its next append
    seen,       \* the names a running listing must return, or has returned
    answer,     \* what the last call of each process returned
    granted     \* every <<process, revision>> ever answered "appended"

files == <<directory, linked, durable>>
vars == <<files, pc, held, seen, answer, granted>>

PCs == {"idle", "listing", "records", "directory", "expected", "link", "sync"}
Answers == {"none", "missing", "records", "unreadable", "appended", "conflict",
            "unconfirmed", "failed"}

Init ==
    /\ directory = FALSE
    /\ linked = << >>
    /\ durable = {}
    /\ pc = [p \in Procs |-> "idle"]
    /\ held = [p \in Procs |-> << >>]
    /\ seen = [p \in Procs |-> {}]
    /\ answer = [p \in Procs |-> "none"]
    /\ granted = {}

Goto(p, point) == pc' = [pc EXCEPT ![p] = point]

Reply(p, kind) ==
    /\ answer' = [answer EXCEPT ![p] = kind]
    /\ Goto(p, "idle")

-----------------------------------------------------------------------------
(* read(root, missionId) *)

\* isPlainDirectory, and the start of readdir.
BeginRead(p) ==
    /\ pc[p] = "idle"
    /\ IF directory
       THEN /\ seen' = [seen EXCEPT ![p] = DOMAIN linked]
            /\ Goto(p, "listing")
            /\ UNCHANGED answer
       ELSE Reply(p, "missing") /\ UNCHANGED seen
    /\ UNCHANGED <<files, held, granted>>

Forgotten(p) == seen' = [seen EXCEPT ![p] = {}]

\* The revisions of a listing are 1..n: none exceeds the limit, none misses.
GapIgnored(names) == names # {}
Dense(names) == names = 1..Cardinality(names) /\ Cardinality(names) <= MaxRecords

\* The end of readdir, and the checks of listRevisions.
EndListing(p) ==
    /\ pc[p] = "listing"
    /\ \E names \in SUBSET DOMAIN linked :
          /\ seen[p] \subseteq names
          /\ \/ names = {} /\ Reply(p, "missing") /\ Forgotten(p)
             \/ names # {} /\ ~Dense(names) /\ Reply(p, "unreadable") /\ Forgotten(p)
             \/ /\ names # {} /\ Dense(names)
                /\ Goto(p, "records")
                /\ seen' = [seen EXCEPT ![p] = names]
                /\ UNCHANGED answer
    /\ UNCHANGED <<files, held, granted>>

\* The revisions of a listing, sorted: the i-th has i revisions up to it.
Sorted(names) ==
    [i \in 1..Cardinality(names) |->
        CHOOSE r \in names : Cardinality({q \in names : q <= r}) = i]

\* readRecord of every listed revision; a linked record never changes.
ReadRecords(p) ==
    /\ pc[p] = "records"
    /\ LET revisions == Sorted(seen[p])
       IN  held' = [held EXCEPT ![p] = [i \in DOMAIN revisions |-> linked[revisions[i]]]]
    /\ Reply(p, "records") /\ Forgotten(p)
    /\ UNCHANGED <<files, granted>>

\* The directory cannot be listed or a record cannot be read.
ReadFails(p) ==
    /\ pc[p] \in {"listing", "records"}
    /\ Reply(p, "unreadable") /\ Forgotten(p)
    /\ UNCHANGED <<files, held, granted>>

-----------------------------------------------------------------------------
(* append(root, missionId, expected, record) with expected = Len(held[p]) *)

HasRoom(p) == Len(held[p]) < MaxRecords

BeginAppend(p) ==
    /\ pc[p] = "idle"
    /\ IF HasRoom(p)
       THEN Goto(p, "directory") /\ UNCHANGED answer
       ELSE Reply(p, "failed")
    /\ UNCHANGED <<files, held, seen, granted>>

MakeDirectory(p) ==
    /\ pc[p] = "directory"
    /\ directory' = TRUE
    /\ Goto(p, "expected")
    /\ UNCHANGED <<linked, durable, held, seen, answer, granted>>

\* exists(expected), then the temporary is written and synced.
CheckExpected(p) ==
    /\ pc[p] = "expected"
    /\ IF held[p] # << >> /\ Len(held[p]) \notin DOMAIN linked
       THEN Reply(p, "failed")
       ELSE Goto(p, "link") /\ UNCHANGED answer
    /\ UNCHANGED <<files, held, seen, granted>>

Target(p) == Len(held[p]) + 1

\* rename instead of link: the target is replaced, never refused.
LinkRenames(p) ==
    /\ pc[p] = "link"
    /\ linked' = [r \in DOMAIN linked \cup {Target(p)} |->
                     IF r = Target(p) THEN p ELSE linked[r]]
    /\ Goto(p, "sync")
    /\ UNCHANGED <<directory, durable, held, seen, answer, granted>>

\* link refuses an existing name: this is the compare-and-swap.
Link(p) ==
    /\ pc[p] = "link"
    /\ Target(p) \notin DOMAIN linked
    /\ linked' = [r \in DOMAIN linked \cup {Target(p)} |->
                     IF r = Target(p) THEN p ELSE linked[r]]
    /\ Goto(p, "sync")
    /\ UNCHANGED <<directory, durable, held, seen, answer, granted>>

LinkRefused(p) ==
    /\ pc[p] = "link"
    /\ Target(p) \in DOMAIN linked
    /\ Reply(p, "conflict")
    /\ UNCHANGED <<files, held, seen, granted>>

\* Any error up to the link.
AppendFails(p) ==
    /\ pc[p] \in {"directory", "expected", "link"}
    /\ Reply(p, "failed")
    /\ UNCHANGED <<files, held, seen, granted>>

SyncSkipped(p) == durable
SyncCovers(p) == DOMAIN linked

Sync(p) ==
    /\ pc[p] = "sync"
    /\ durable' = SyncCovers(p)
    /\ held' = [held EXCEPT ![p] = Append(@, p)]
    /\ granted' = granted \cup {<<p, Target(p)>>}
    /\ Reply(p, "appended")
    /\ UNCHANGED <<directory, linked, seen>>

\* Linked and visible; the caller keeps its prefix and stops.
SyncFails(p) ==
    /\ pc[p] = "sync"
    /\ Reply(p, "unconfirmed")
    /\ UNCHANGED <<files, held, seen, granted>>

-----------------------------------------------------------------------------
Crash(p) ==
    /\ Goto(p, "idle")
    /\ held' = [held EXCEPT ![p] = << >>]
    /\ seen' = [seen EXCEPT ![p] = {}]
    /\ answer' = [answer EXCEPT ![p] = "none"]
    /\ UNCHANGED <<files, granted>>

\* Directory entries are lost one by one, not from the end: any of those
\* linked since the last sync may be gone.  The mission directory itself is
\* taken to be on disk (its parent is never synced).
PowerLoss ==
    /\ \E kept \in SUBSET DOMAIN linked :
          durable \subseteq kept /\ linked' = Restrict(linked, kept)
    /\ pc' = [p \in Procs |-> "idle"]
    /\ held' = [p \in Procs |-> << >>]
    /\ seen' = [p \in Procs |-> {}]
    /\ answer' = [p \in Procs |-> "none"]
    /\ UNCHANGED <<directory, durable, granted>>

Next ==
    \/ \E p \in Procs :
          \/ BeginRead(p) \/ EndListing(p) \/ ReadRecords(p) \/ ReadFails(p)
          \/ BeginAppend(p) \/ MakeDirectory(p) \/ CheckExpected(p)
          \/ Link(p) \/ LinkRefused(p) \/ AppendFails(p)
          \/ Sync(p) \/ SyncFails(p) \/ Crash(p)
    \/ PowerLoss

Spec == Init /\ [][Next]_vars

-----------------------------------------------------------------------------
(* Properties *)

TypeOK ==
    /\ directory \in BOOLEAN
    /\ DOMAIN linked \subseteq Revisions
    /\ \A r \in DOMAIN linked : linked[r] \in Procs
    /\ durable \subseteq Revisions
    /\ pc \in [Procs -> PCs]
    /\ held \in [Procs -> Seq(Procs)]
    /\ \A p \in Procs : Len(held[p]) <= MaxRecords
    /\ seen \in [Procs -> SUBSET Revisions]
    /\ answer \in [Procs -> Answers]
    /\ granted \subseteq Procs \X Revisions

\* An acknowledged append is readable again after a loss of power: every
\* revision up to it is durable, those of writers whose sync failed included.
GrantedPrefixDurable ==
    \A g \in granted : 1..g[2] \subseteq durable

\* A process never acts on records that are not a prefix of the journal,
\* although its listing ran while others linked.
HeldIsPrefix ==
    \A p \in Procs : \A r \in DOMAIN held[p] :
        r \in DOMAIN linked /\ linked[r] = held[p][r]

\* Through every interleaving, crash and loss of power FileJournal implements
\* the log the mission runtime is written against (runtime/journal.ts).
Journal == INSTANCE AppendLog WITH log <- linked, safe <- durable, known <- held
JournalSpec == Journal!Spec
=============================================================================
