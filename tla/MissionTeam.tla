------------------------------ MODULE MissionTeam ------------------------------
(***************************************************************************)
(* packages/cli/src/commands/mission.ts (dispatch, writer-event, verify),  *)
(* lib/runs/specialist-lifecycle.ts, and the controller and review loop of *)
(* packages/mission-engine/src/orchestration: one episode of a mission     *)
(* under the policy bounded-corrections-v1, whose plan routes the          *)
(* independent reviewer and no preparation.  The lead writer implements,   *)
(* the reviewer reviews the committed result, and the writer has at most   *)
(* two batches of corrections.                                             *)
(*                                                                         *)
(* Dispatches are processes of their own that race: what one decided on an *)
(* earlier log and HEAD is written to a later log.  The other commands     *)
(* read the log and write their event in one step; MissionLifecycle has    *)
(* the races of the writer's completion with itself and with closures.     *)
(* Around them, HEAD moves whenever somebody commits, the writer at work   *)
(* or anyone, and so do the other inputs of a review: the project's        *)
(* policies, profiles and stack and the specialists' catalogue.            *)
(***************************************************************************)
EXTENDS EpisodeLog

CONSTANTS
    Procs,          \* dispatches that others may overtake
    Reports,        \* what a review may say: the findings it raises, those
                    \* it calls resolved and those it calls unresolved
    Inputs,         \* the values that what a review depends on besides the
                    \* commit takes one after the other, as a sequence
    MaxEvents,      \* bound of the model: events of the log
    MaxCommits,     \* bound of the model: commits
    MaxEvidence     \* bound of the model: verifications

ASSUME BoundsAssumption == MaxEvents \in Nat /\ MaxCommits \in Nat /\ MaxEvidence \in Nat

MaxRounds == 3              \* maxRounds of a bounded review
MaxCorrectionBatches == 2

VARIABLES
    log,        \* events.jsonl
    head,       \* HEAD of the work tree, which is clean
    inputs,     \* place in Inputs of the policies, profiles, ... of now
    seen,       \* the log and HEAD a dispatch inspected, or NotLooking
    draft       \* the event a dispatch is about to write, or NoDraft

vars == <<log, head, inputs, seen, draft>>

NotLooking == [length |-> 0, tree |-> 0]
NoDraft == Started

Init ==
    /\ log = <<Started>>
    /\ head = 0
    /\ inputs = 1
    /\ seen = [p \in Procs |-> NotLooking]
    /\ draft = [p \in Procs |-> NoDraft]

-----------------------------------------------------------------------------
(* reduceReviewLoop, for the reviewer after the implementation *)

\* What the writer was asked to do and has not said it did.
Outstanding(l) ==
    {r \in Places(l, "requested") : \A i \in Places(l, "written") : l[i].data.request # r}

FirstWritten(l) == Min(Places(l, "written"))
LastWritten(l) == Max(Places(l, "written"))

CorrectionBatches(l) ==
    Cardinality({i \in Places(l, "written") : l[i].data.action = "run-correction"})

\* The completions since the writer last completed, and those before.
Window(l) == {i \in Places(l, "reviewed") : i > LastWritten(l)}
History(l) == {i \in Places(l, "reviewed") : i < LastWritten(l)}

\* One completion of the expected round counts; any other is an issue.
InRound(l, i) == l[i].data.round = CorrectionBatches(l) + 1 /\ l[i].data.round <= MaxRounds
Accepted(l) ==
    {i \in Window(l) : InRound(l, i) /\ \A j \in Window(l) : InRound(l, j) => i <= j}
HasIssues(l) ==
    \/ Window(l) # Accepted(l)
    \/ \E i \in History(l) : i < FirstWritten(l)

HighestRound(l) == Max({0} \cup {l[i].data.round : i \in History(l) \cup Accepted(l)})
NextRound(l) == Max({CorrectionBatches(l) + 1, HighestRound(l)})

\* A review that looked at other inputs than the present ones is stale: its
\* round is spent, and what it says does not count.
IsStale(l, subject) == \E i \in Accepted(l) : l[i].data.inputs # subject.inputs
Counted(l, subject) ==
    History(l) \cup {i \in Accepted(l) : l[i].data.inputs = subject.inputs}

\* A proof is a passed verification of the tree as it is now.
IsFresh(l, place, tree) == l[place].data.passed /\ l[place].data.commit = tree

ProofUnread(l, i, tree) == TRUE
Proven(l, i, tree) ==
    l[i].data.proof # 0 /\ IsFresh(l, l[i].data.proof, tree)

\* The last review to speak of a finding's resolution calls it resolved, with
\* a valid proof; raising it again does not speak of its resolution.
Resolved(l, reviews, finding, tree) ==
    LET speaking == {i \in reviews :
                        finding \in l[i].data.report.resolved \cup l[i].data.report.unresolved}
    IN  /\ speaking # {}
        /\ finding \in l[Max(speaking)].data.report.resolved
        /\ Proven(l, Max(speaking), tree)

OpenFindings(l, tree, subject) ==
    LET reviews == Counted(l, subject)
    IN  {f \in UNION {l[i].data.report.raised : i \in reviews} : ~Resolved(l, reviews, f, tree)}

-----------------------------------------------------------------------------
(* orchestrateMissionTeam *)

\* boundedReceiptReasons: a receipt of another commit than the one observed.
ReceiptsMismatch(l, subject) == \E i \in Window(l) : l[i].data.commit # subject.commit

AwaitsAnyReview(l) == Places(l, "reviewed") = {}
AwaitsReview(l) == Accepted(l) = {}

ExhaustedAfter(l) == CorrectionBatches(l) > MaxCorrectionBatches
Exhausted(l) == CorrectionBatches(l) >= MaxCorrectionBatches

\* deriveMissionVerdict, for one verification command: its last run counts.
Verdict(l, tree) ==
    IF Places(l, "evidence") = {} THEN "unverified"
    ELSE LET last == l[Max(Places(l, "evidence"))].data
         IN  IF last.commit # tree THEN "unverified"
             ELSE IF last.passed THEN "verified" ELSE "blocked"

Action(kind, findings) == [kind |-> kind, findings |-> findings]

\* The next action of a mission whose log is l, whose proofs are judged by
\* one observation of HEAD and whose review subject is another.  When a review
\* is stale the writer is to correct what the earlier ones left open, nothing
\* if they left nothing open, before the next round may be asked for.
Decision(l, tree, subject) ==
    LET open == OpenFindings(l, tree, subject)
        Correct(exhausted) ==
            IF exhausted THEN Action("stop", {}) ELSE Action("run-correction", open)
    IN  IF Places(l, "written") = {} THEN Action("run-lead-writer", {})
        ELSE IF ~AwaitsReview(l) /\ ReceiptsMismatch(l, subject) THEN Action("stop", {})
        ELSE IF HasIssues(l) THEN Action("stop", {})
        ELSE IF IsStale(l, subject) THEN Correct(HighestRound(l) >= MaxRounds)
        ELSE IF AwaitsReview(l)
        THEN Action(IF NextRound(l) > MaxRounds THEN "stop" ELSE "invoke-specialists", {})
        ELSE IF open # {} THEN Correct(Exhausted(l))
        ELSE CASE Verdict(l, tree) = "verified" -> Action("complete", {})
               [] Verdict(l, tree) = "blocked" -> Action("stop", {})
               [] OTHER -> Action("run-verification", {})

-----------------------------------------------------------------------------
(* The events the commands write *)

\* recordSpecialistRequests
ReviewRequest(round, subject) ==
    Event("asked", <<"asked", round, subject>>,
          [round |-> round, commit |-> subject.commit, inputs |-> subject.inputs])

RequestAnew(l, action) ==
    Event("requested", <<"requested", action.kind, Len(l), action.findings>>,
          [action |-> action.kind, round |-> Len(l), findings |-> action.findings])
\* recordLeadWriterRequest
WriterRequest(l, action) ==
    LET round == Cardinality(Places(l, "written")) + 1
    IN  Event("requested", <<"requested", action.kind, round, action.findings>>,
              [action |-> action.kind, round |-> round, findings |-> action.findings])

\* recordMissionClosure, by the dispatch
Closure(reason) == Event("closed", <<"closed", 1>>, [episode |-> 1, reason |-> reason])

\* What dispatchMissionSpecialists records of its decision.
Recorded(l, action, subject) ==
    CASE action.kind = "invoke-specialists" -> ReviewRequest(NextRound(l), subject)
      [] action.kind \in {"run-lead-writer", "run-correction"} -> WriterRequest(l, action)
      [] action.kind = "complete" -> Closure("completed")
      [] action.kind = "stop" -> Closure("controller-stop")
      [] OTHER -> NoDraft

-----------------------------------------------------------------------------
(* The commands *)

\* requireOpenMission: this module has one episode, and no recovery.
Open(l) == Places(l, "closed") = {}

\* writeSequencedEventOnce: every one of these events is validated alike.
MayWrite(event) == PlacesOf(log, event.id) = {} /\ Open(log) /\ Len(log) < MaxEvents

Ends(p) ==
    /\ seen' = [seen EXCEPT ![p] = NotLooking]
    /\ draft' = [draft EXCEPT ![p] = NoDraft]

\* captureMissionReviewSubject and planBoundMission, at once
Subject == [commit |-> head, inputs |-> Inputs[inputs]]

\* dispatch reads the log, between two equal observations of HEAD.
Inspect(p) ==
    /\ seen[p] = NotLooking /\ Open(log)
    /\ seen' = [seen EXCEPT ![p] = [length |-> Len(log), tree |-> head]]
    /\ UNCHANGED <<log, head, inputs, draft>>

\* It then captures the review subject and its inputs, and decides.
Dispatch(p) ==
    LET l == SubSeq(log, 1, seen[p].length)
        event == Recorded(l, Decision(l, seen[p].tree, Subject), Subject)
    IN  /\ seen[p] # NotLooking /\ draft[p] = NoDraft
        /\ IF MayWrite(event)
           THEN draft' = [draft EXCEPT ![p] = event] /\ UNCHANGED seen
           ELSE Ends(p)
        /\ UNCHANGED <<log, head, inputs>>

WriteEvent(p) ==
    /\ draft[p] # NoDraft
    /\ MayWrite(draft[p])
    /\ log' = Append(log, draft[p])
    /\ Ends(p)
    /\ UNCHANGED <<head, inputs>>

\* There is nothing to record, the id is taken or the mission closed; or the
\* process is killed.
GiveUp(p) == seen[p] # NotLooking /\ Ends(p) /\ UNCHANGED <<log, head, inputs>>

\* A command that reads the log and writes its event in one step.
Record(event) ==
    /\ MayWrite(event)
    /\ log' = Append(log, event)
    /\ UNCHANGED <<head, inputs, seen, draft>>

\* A dispatch that nothing happens to overtake.
DispatchAtOnce == Record(Recorded(log, Decision(log, head, Subject), Subject))

\* recordLeadWriterCompletion, for the latest request.
CompleteWriter ==
    /\ Places(log, "requested") # {}
    /\ LET latest == Max(Places(log, "requested"))
       IN  Record(Event("written", <<"written", latest>>,
                         [request |-> latest, action |-> log[latest].data.action]))

SameDispatch(i, j) ==
    /\ log[i].data.round = log[j].data.round
    /\ log[i].data.commit = log[j].data.commit /\ log[i].data.inputs = log[j].data.inputs

\* The events of a kind recorded for the dispatch requested at a place.
Of(kind, asked) == {i \in Places(log, kind) : SameDispatch(i, asked)}

\* The proof a review cites: the last passed verification of its commit.
CitedProof(commit) ==
    Max({0} \cup {i \in Places(log, "evidence") : IsFresh(log, i, commit)})

\* recordSpecialistLifecycle: a dispatch is completed once, by the context
\* that started it or by the one that took over from a failure.
CompleteReview ==
    \E asked \in Places(log, "asked"), report \in Reports :
        LET data == log[asked].data
        IN  /\ Of("reviewed", asked) = {}
            /\ Record(Event("reviewed", <<"reviewed", log[asked].id>>,
                   [round |-> data.round, commit |-> data.commit, inputs |-> data.inputs,
                    report |-> report, proof |-> CitedProof(data.commit)]))

\* verifyMissionCommand: the result is sealed for HEAD as it is when the
\* command ends, whatever it was when the command began.
Verify ==
    /\ Cardinality(Places(log, "evidence")) < MaxEvidence
    /\ \E passed \in BOOLEAN :
         Record(Event("evidence", <<"evidence", Len(log)>>, [commit |-> head, passed |-> passed]))

\* Whoever works in the tree commits, whether or not it was asked to.
Commit ==
    /\ head < MaxCommits
    /\ head' = head + 1
    /\ UNCHANGED <<log, inputs, seen, draft>>

\* A policy is edited or a waiver of one expires, another harness is
\* installed; what changed may also be changed back.
ChangeInputs ==
    /\ inputs < Len(Inputs)
    /\ inputs' = inputs + 1
    /\ UNCHANGED <<log, head, seen, draft>>

-----------------------------------------------------------------------------
Next ==
    \/ Commit \/ ChangeInputs
    \/ DispatchAtOnce \/ CompleteWriter \/ CompleteReview \/ Verify
    \/ \E p \in Procs : Inspect(p) \/ Dispatch(p) \/ WriteEvent(p) \/ GiveUp(p)

Spec == Init /\ [][Next]_vars
-----------------------------------------------------------------------------
(* What holds of every mission of this policy *)

Corrections(kind) == {i \in Places(log, kind) : log[i].data.action = "run-correction"}

\* The completions of the writer recorded before a place.
Written(place) == Cardinality({i \in Places(log, "written") : i < place})

\* "Bounded review allows exactly two correction batches", as far as no
\* dispatch is overtaken by a completion of the writer: of the batches whose
\* request was recorded in the round it was decided in, the writer completes
\* two at most, although two dispatches of one round may ask it for different
\* batches, when the inputs of the review changed between them.
TimelyCorrectionsAreBounded ==
    Cardinality({c \in Corrections("written") :
                    log[log[c].data.request].data.round = Written(log[c].data.request) + 1})
        <= MaxCorrectionBatches

\* A batch of corrections is the answer to the review of the round before:
\* one recorded while the writer had completed what that round reviews.  Each
\* finding it names was raised by a review of that round or an earlier one.
CorrectionHasCause ==
    \A c \in Corrections("requested") :
        LET round == log[c].data.round
            reviews == {i \in Places(log, "reviewed") : i < c /\ Written(i) < round}
        IN  /\ \E i \in reviews : Written(i) = round - 1 /\ log[i].data.round = round - 1
            /\ \A f \in log[c].data.findings :
                 \E i \in reviews : f \in log[i].data.report.raised

\* The writer is asked for one implementation and says once that it is done,
\* however many dispatches asked for it: all its later work is corrections.
ImplementedOnce ==
    \A i \in Places(log, "written") :
        log[i].data.action = "run-lead-writer" <=> Written(i) = 0

\* What a dispatch may conclude from: one review of the last round looked at a
\* commit whose verification had passed, and the last word on each finding of
\* the reviews that count is that it is resolved, citing a passed verification
\* of that very commit.
ReviewedAndVerified(l) ==
    LET reviews == History(l) \cup Accepted(l)
        commit == l[Max(reviews)].data.commit
        Passed(place) == place \in Places(l, "evidence") /\ IsFresh(l, place, commit)
        Settles(q, f) ==
            /\ f \in l[q].data.report.resolved /\ Passed(l[q].data.proof)
            /\ \A r \in reviews : r > q => f \notin l[r].data.report.unresolved
    IN  /\ Accepted(l) # {}
        /\ \E e \in DOMAIN l : Passed(e)
        /\ \A r \in reviews : \A f \in l[r].data.report.raised :
             \E q \in reviews : Settles(q, f)

\* A mission that closes as completed was, at some moment before it closed,
\* reviewed after all that the writer had completed by then, verified and
\* free of findings.
CompletedWasReviewed ==
    \A c \in Places(log, "closed") : log[c].data.reason = "completed" =>
        \E k \in 1..(c - 1) : ReviewedAndVerified(SubSeq(log, 1, k))

\* "Resolve the reported contract or evidence violation, then resume through
\* the supported mission recovery path" (controller.ts, the default next
\* action of a stop): the recovery of a mission the controller stopped is not
\* refused for an ambiguous effect, which no later event could ever settle.
StopIsRecoverable ==
    \A c \in Places(log, "closed") :
        log[c].data.reason = "controller-stop" => Outstanding(log) = {}
=============================================================================
