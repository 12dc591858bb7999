--------------------------- MODULE MissionLifecycle ---------------------------
(***************************************************************************)
(* packages/cli/src/commands/mission.ts and lib/runs/: the commands that   *)
(* resume, close and recover one mission, run by any number of processes.  *)
(* Every command is a short process: it reads the whole log, decides, and  *)
(* asks the sequenced writer for one event under a stable id, validated    *)
(* against the log it is appended to.  Anything may be appended between    *)
(* the reading and the writing; SequencedWriter shows that the writing     *)
(* itself is one step.  A killed command is one that never takes its next  *)
(* step, or one whose answer nobody heard.                                 *)
(***************************************************************************)
EXTENDS EpisodeLog

CONSTANTS
    Procs,          \* command processes
    Actions,        \* what a dispatch may ask of the lead writer
    Dispositions,   \* the dispositions an operator may request
    Observations,   \* what a recovery may observe of the project
    Reasons,        \* the reasons a mission is closed for
    MaxEvents,      \* bound of the model: length of the log
    MaxNotes        \* bound of the model: hook and resumption events in it

ASSUME LengthAssumption == MaxEvents \in Nat \ {0} /\ MaxNotes \in Nat
ASSUME ReasonsAssumption ==
    Reasons \subseteq {"completed", "controller-stop", "interrupted", "abandoned"}

VARIABLES
    log,        \* events.jsonl
    draft,      \* the event a process is about to write, or NoDraft
    request,    \* the recovery request each operator last prepared, or NoRequest
    told        \* the closures that a close reported to its caller

vars == <<log, draft, request, told>>

NoDraft == Started
NoRequest == [closure |-> 0, expected |-> 0, disposition |-> "none"]

Init ==
    /\ log = <<Started>>
    /\ draft = [p \in Procs |-> NoDraft]
    /\ request = [p \in Procs |-> NoRequest]
    /\ told = {}

Idle(p) == draft[p] = NoDraft

\* The event a process decided on, to be written in a later step.
Decide(p, event) == draft' = [draft EXCEPT ![p] = event] /\ UNCHANGED <<log, request>>

-----------------------------------------------------------------------------
(* The commands, up to their call of writeSequencedEventOnce. *)

\* resumeMission: once for every event that is not itself a resumption.
Resume(p) ==
    LET checkpoint == Max(DOMAIN log \ Places(log, "resumed"))
    IN  /\ Idle(p)
        /\ \A i \in Places(log, "resumed") : log[i].data.checkpoint # checkpoint
        /\ Decide(p, Event("resumed", <<"resumed", checkpoint>>, [checkpoint |-> checkpoint]))
        /\ UNCHANGED told

\* recordLeadWriterRequest, for the round that follows the completed ones.
\* What the controller decides is left open here: MissionTeam is about that.
RequestWriter(p) ==
    LET round == Cardinality(Places(log, "written")) + 1
    IN  /\ Idle(p) /\ IsOpen(log)
        /\ \E action \in Actions :
             Decide(p, Event("requested", <<"requested", round, action>>,
                             [round |-> round, action |-> action]))
        /\ UNCHANGED told

\* recordLeadWriterCompletion, for the latest request.
CompleteWriter(p) ==
    /\ Idle(p) /\ IsOpen(log)
    /\ Places(log, "requested") # {}
    /\ LET latest == Max(Places(log, "requested"))
       IN  /\ \A i \in Places(log, "written") : log[i].data.request # latest
           /\ Decide(p, Event("written", <<"written", latest>>, [request |-> latest]))
    /\ UNCHANGED told

\* recordMissionClosure: a closed mission answers for its own reason only.
Close(p) ==
    LET life == ProjectMissionLifecycle(log)
    IN  /\ Idle(p)
        /\ \E reason \in Reasons :
             \/ /\ life.status = "closed" /\ life.reason = reason
                /\ told' = told \cup {<<life.episode, reason>>}
                /\ UNCHANGED <<log, draft, request>>
             \/ /\ life.status = "open"
                /\ Decide(p, Event("closed", <<"closed", life.episode>>,
                                   [episode |-> life.episode, reason |-> reason]))
                /\ UNCHANGED told

\* An operator observes the journal and writes a request for its closure.
PrepareRequest(p) ==
    LET life == ProjectMissionLifecycle(log)
    IN  /\ Idle(p) /\ life.status = "closed"
        /\ \E disposition \in Dispositions :
             request' = [request EXCEPT ![p] =
                 [closure |-> life.closure, expected |-> Len(log), disposition |-> disposition]]
        /\ UNCHANGED <<log, draft, told>>

\* The recoveries of the closure a request is about.
RecoveriesOf(closure) ==
    {i \in Places(log, "recovered") : log[i].data.request.closure = closure}

\* recordStoppedMissionRecovery: planned on the log as it is read.  A closure
\* already recovered is answered from its receipt, or refused.
Recover(p) ==
    /\ Idle(p) /\ request[p] # NoRequest
    /\ RecoveriesOf(request[p].closure) = {}
    /\ Admitted(log, request[p])
    /\ \E observation \in Observations :
         Decide(p, Event("recovered", <<"recovered", request[p]>>,
                         Receipt(log, request[p], observation)))
    /\ UNCHANGED told

-----------------------------------------------------------------------------
(* writeSequencedEventOnce, and what each command makes of its answer. *)

Notes == Places(log, "hook") \cup Places(log, "resumed")

AppendEvent(event) ==
    /\ Len(log) < MaxEvents
    /\ event.kind \in {"hook", "resumed"} => Cardinality(Notes) < MaxNotes
    /\ log' = Append(log, event)

Ends(p) == draft' = [draft EXCEPT ![p] = NoDraft]

\* The precondition each command has its event validated with.
EpisodeStands(event) ==
    IsOpen(log) /\ ProjectMissionLifecycle(log).episode = event.data.episode

JournalUnchecked(event) == ProjectMissionLifecycle(log).closure = event.data.request.closure
JournalStands(event) == event.data.request.expected = Len(log)

ValidatedOnRead(event) == event.kind = "recovered" => JournalStands(event)
Validated(event) ==
    CASE event.kind = "closed" -> EpisodeStands(event)
      [] event.kind = "recovered" -> JournalStands(event)
      [] OTHER -> IsOpen(log)

\* What the caller of a closure hears when the log has its event.
Reported(event) ==
    IF event.kind = "closed" THEN {<<event.data.episode, event.data.reason>>} ELSE {}

\* The id is new and the precondition holds; nobody may hear of it.
WriteEvent(p) ==
    /\ ~Idle(p) /\ PlacesOf(log, draft[p].id) = {}
    /\ Validated(draft[p])
    /\ AppendEvent(draft[p])
    /\ \/ told' = told \cup Reported(draft[p])
       \/ UNCHANGED told
    /\ Ends(p) /\ UNCHANGED request

\* Whether the event found under the id is the one to be written.
AnyEvent(event) == PlacesOf(log, event.id) # {}
SameEvent(event) == \E i \in PlacesOf(log, event.id) : log[i].data = event.data

FindEvent(p) ==
    /\ ~Idle(p) /\ SameEvent(draft[p])
    /\ told' = told \cup Reported(draft[p])
    /\ Ends(p) /\ UNCHANGED <<log, request>>

\* HOOK_EVENT_ID_CONFLICT, or the precondition fails; or the process is killed.
Refuse(p) == ~Idle(p) /\ Ends(p) /\ UNCHANGED <<log, request, told>>

\* A hook, or an archive, records its event whatever the mission's state.
RecordHook ==
    /\ AppendEvent(Event("hook", <<"hook", Len(log)>>, << >>))
    /\ UNCHANGED <<draft, request, told>>

-----------------------------------------------------------------------------
Next ==
    \/ RecordHook
    \/ \E p \in Procs :
         \/ Resume(p) \/ RequestWriter(p) \/ CompleteWriter(p) \/ Close(p)
         \/ PrepareRequest(p) \/ Recover(p)
         \/ WriteEvent(p) \/ FindEvent(p) \/ Refuse(p)

Spec == Init /\ [][Next]_vars

-----------------------------------------------------------------------------
(* Properties *)

Drafts == {draft[p] : p \in Procs} \ {NoDraft}

\* Every draft is of a kind the writer validates, under an id of its own.
TypeOK ==
    /\ Len(log) \in 1..MaxEvents /\ log[1] = Started
    /\ \A i, j \in DOMAIN log : log[i].id = log[j].id => i = j
    /\ \A d \in Drafts : d.kind \in {"resumed", "requested", "written", "closed", "recovered"}
    /\ \A p \in Procs : request[p].expected \in 0..Len(log)

(***************************************************************************)
(* Every recovery in the log is the one its own prefix admits, so that no  *)
(* race of commands leaves a log observedMissionLifecycle refuses to read: *)
(* it would refuse it to every later command.                              *)
(***************************************************************************)
ReceiptsReproduce == Readable(log)

(***************************************************************************)
(* Whoever was told that it closed an episode was told the reason the log  *)
(* keeps, so two callers never believe in different endings, whatever      *)
(* recordMissionClosure read before it wrote.                              *)
(***************************************************************************)
ClosersAgree ==
    \A closing \in told :
        \E i \in Places(log, "closed") :
            closing = <<log[i].data.episode, log[i].data.reason>>

\* The episode the event at a place belongs to.
EpisodeAt(place) == ProjectMissionLifecycle(SubSeq(log, 1, place)).episode

(***************************************************************************)
(* The lead writer's work counts for the episode it was asked for in: a    *)
(* completion that was decided before a stop is not written after the      *)
(* recovery, where it would pass for the corrective progress the next      *)
(* recovery asks for.                                                      *)
(***************************************************************************)
WorkStaysInItsEpisode ==
    \A i \in Places(log, "written") : EpisodeAt(i) = EpisodeAt(log[i].data.request)

Episodes ==
    INSTANCE MissionEpisodes
    WITH episode <- Cardinality(Places(log, "recovered")),
         reason <- ProjectMissionLifecycle(log).reason,
         worked <- ProgressSince(log, LastRecovery(log))

(***************************************************************************)
(* Together the commands keep to the mission's life: one closure to an     *)
(* episode, a new episode only after a stop and only after work, nothing   *)
(* of the lead writer's while the mission is closed.                       *)
(***************************************************************************)
EpisodeSpec == Episodes!Spec

=============================================================================
