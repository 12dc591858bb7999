--------------------------- MODULE CheckpointMerge ---------------------------
(***************************************************************************)
(* What mutateCheckpoint (packages/hook-runner/src/lifecycle/              *)
(* context-continuity-executor.ts) promises the hooks that share           *)
(* checkpoint.md, without its lock: a mutation is one atomic step on top   *)
(* of every earlier one, or it is abandoned, and a hook that reports 'ok'  *)
(* has its observation in the file.                                        *)
(***************************************************************************)
CONSTANT Hooks      \* one process per hook invocation

VARIABLES
    content,    \* the hooks whose observation checkpoint.md holds
    reported    \* the hooks that returned 'ok'

Init == content = {} /\ reported = {}

Merge(h) ==
    /\ h \notin content
    /\ content' = content \cup {h}
    /\ UNCHANGED reported

Report(h) ==
    /\ h \in content
    /\ reported' = reported \cup {h}
    /\ UNCHANGED content

Next == \E h \in Hooks : Merge(h) \/ Report(h)

Spec == Init /\ [][Next]_<<content, reported>>
=============================================================================
