------------------------------ MODULE EpisodeLog ------------------------------
(***************************************************************************)
(* packages/mission-engine/src/orchestration/mission-lifecycle.ts and      *)
(* mission-recovery.ts: what the events of one mission tell of its         *)
(* episodes, and when a stopped mission may be recovered.  The log is a    *)
(* sequence of events with distinct ids, numbered by their places; an      *)
(* event is named by its place, and a journal hash by the number of events *)
(* it covers, because the log is only ever appended to.                    *)
(***************************************************************************)
EXTENDS Integers, Sequences, FiniteSetsExt

Event(kind, id, data) == [kind |-> kind, id |-> id, data |-> data]
Started == Event("started", <<"started">>, << >>)

Places(log, kind) == {i \in DOMAIN log : log[i].kind = kind}
PlacesOf(log, id) == {i \in DOMAIN log : log[i].id = id}

-----------------------------------------------------------------------------
(* projectMissionLifecycle *)

Boundaries(log) == {i \in DOMAIN log : log[i].kind \in {"started", "closed", "recovered"}}

\* The boundary before a place: the closure or the opening it follows.
Before(log, place) == Max({i \in Boundaries(log) : i < place})

Closes(log, opening, closure) ==
    log[opening].kind # "closed" /\ log[closure].data.episode = opening

Stopped(log, closure) ==
    log[closure].kind = "closed" /\ log[closure].data.reason = "controller-stop"

Reopens(log, closure, recovery) ==
    LET data == log[recovery].data
    IN  /\ Stopped(log, closure)
        /\ data.request.closure = closure
        /\ data.episode = log[closure].data.episode
        /\ data.prior = recovery - 1

\* Each closure ends the episode it names, and each recovery reopens the
\* closure it names; nothing else makes the log invalid.
IsValid(log) ==
    /\ Places(log, "started") = {1}
    /\ \A i \in Places(log, "closed") : Closes(log, Before(log, i), i)
    /\ \A i \in Places(log, "recovered") : Reopens(log, Before(log, i), i)

\* The lifecycle of a valid log: an episode is named by the event opening it.
ProjectMissionLifecycle(log) ==
    LET last == Max(Boundaries(log))
    IN  IF ~IsValid(log)
        THEN [status |-> "invalid", episode |-> 0, closure |-> 0, reason |-> "none"]
        ELSE IF log[last].kind = "closed"
        THEN [status |-> "closed", episode |-> log[last].data.episode,
              closure |-> last, reason |-> log[last].data.reason]
        ELSE [status |-> "open", episode |-> last, closure |-> 0, reason |-> "none"]

IsOpen(log) == ProjectMissionLifecycle(log).status = "open"

-----------------------------------------------------------------------------
(* admitStoppedMission *)

\* A lead writer was asked to work and has not said it is done.
EffectsTrusted(log) == FALSE
AmbiguousEffects(log) ==
    \E i \in Places(log, "requested") :
        ~\E j \in Places(log, "written") : j > i /\ log[j].data.request = i

\* Whether the lead writer completed something since the last recovery.
ProgressSince(log, place) == \E j \in Places(log, "written") : j > place

LastRecovery(log) ==
    IF Places(log, "recovered") = {} THEN 0 ELSE Max(Places(log, "recovered"))

\* The observed journal and closure are the current ones, no effect is in
\* doubt, and an earlier recovery was put to use.
Admitted(log, request) ==
    LET life == ProjectMissionLifecycle(log)
    IN  /\ life.status = "closed" /\ life.reason = "controller-stop"
        /\ request.closure = life.closure
        /\ request.expected = Len(log)
        /\ ~AmbiguousEffects(log)
        /\ LastRecovery(log) > 0 => ProgressSince(log, LastRecovery(log))

\* The receipt of an admitted recovery.
Receipt(log, request, observation) ==
    [episode |-> ProjectMissionLifecycle(log).episode, prior |-> Len(log),
     request |-> request, observation |-> observation]

\* validateRecoveries: every receipt is what its own prefix would admit.
RecoveriesReproduce(log) ==
    \A i \in Places(log, "recovered") :
        LET prefix == SubSeq(log, 1, i - 1)
            data == log[i].data
        IN  /\ Admitted(prefix, data.request)
            /\ data = Receipt(prefix, data.request, data.observation)

\* observedMissionLifecycle throws on such a log, and with it every command.
Readable(log) ==
    RecoveriesReproduce(log) /\ ProjectMissionLifecycle(log).status # "invalid"
=============================================================================
