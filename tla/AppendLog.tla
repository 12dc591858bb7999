------------------------------ MODULE AppendLog ------------------------------
(***************************************************************************)
(* What runtime/journal.ts promises its callers: a log whose next revision *)
(* is granted to exactly one writer, readers that see a prefix which never *)
(* shrinks while they live, and acknowledged records that no failure takes *)
(* back.  MissionKernel is written against this log; FileJournal is shown  *)
(* to implement it.                                                        *)
(***************************************************************************)
EXTENDS Integers, Sequences, FiniteSets, Functions

CONSTANT Procs

VARIABLES
    log,    \* the writer of each claimed revision
    safe,   \* the revisions a loss of power cannot take back
    known   \* the records each process holds, a prefix of the log

Following(p) == Len(known[p]) + 1

Init ==
    /\ log = << >>
    /\ safe = {}
    /\ known = [p \in Procs |-> << >>]

\* read: "records".
Read(p) ==
    /\ \E n \in Len(known[p])..Cardinality(DOMAIN log) :
          /\ 1..n \subseteq DOMAIN log
          /\ known' = [known EXCEPT ![p] = [r \in 1..n |-> log[r]]]
    /\ UNCHANGED <<log, safe>>

\* append: the claim of the revision after the prefix a process holds,
\* refused while it is held.
Claim(p) ==
    /\ Following(p) \notin DOMAIN log
    /\ log' = [r \in DOMAIN log \cup {Following(p)} |-> IF r = Following(p) THEN p ELSE log[r]]
    /\ UNCHANGED <<safe, known>>

\* append: "appended".  Everything claimed by then is safe.
Acknowledge(p) ==
    /\ Following(p) \in DOMAIN log /\ log[Following(p)] = p
    /\ known' = [known EXCEPT ![p] = Append(@, p)]
    /\ safe' = DOMAIN log
    /\ UNCHANGED log

\* A process is replaced by a fresh one.
Forget(p) ==
    /\ known' = [known EXCEPT ![p] = << >>]
    /\ UNCHANGED <<log, safe>>

\* A loss of power ends every process and keeps what is safe.
Lose ==
    /\ \E kept \in SUBSET DOMAIN log : safe \subseteq kept /\ log' = Restrict(log, kept)
    /\ known' = [p \in Procs |-> << >>]
    /\ UNCHANGED safe

Next == Lose \/ \E p \in Procs : Read(p) \/ Claim(p) \/ Acknowledge(p) \/ Forget(p)

Spec == Init /\ [][Next]_<<log, safe, known>>
=============================================================================
