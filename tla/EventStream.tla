----------------------------- MODULE EventStream -----------------------------
(***************************************************************************)
(* packages/mission-engine/src/events/reducer.ts: what a reader makes of   *)
(* the text of events.jsonl.  The text is a sequence of chunks: a whole    *)
(* event as serializeEvent prints it, a newline, or a torn prefix of an    *)
(* event left by an interrupted write.  A line is what lies between two    *)
(* newlines; it is an event only if it is exactly one whole event.         *)
(***************************************************************************)
EXTENDS Integers, Sequences, SequencesExt

EventChunk(seq, id, draft) == [type |-> "event", seq |-> seq, id |-> id, draft |-> draft]
Newline == [type |-> "newline", seq |-> 0, id |-> << >>, draft |-> ""]
Torn == [type |-> "torn", seq |-> 0, id |-> << >>, draft |-> ""]

IsEvent(chunk) == chunk.type = "event"

\* initialEventStream.  `sequences` is not kept: lastSeq tells what it tells.
EmptyStream == [events |-> << >>, lastSeq |-> 0, partial |-> FALSE,
                duplicates |-> 0, line |-> << >>]

Known(stream, id) == \E i \in DOMAIN stream.events : stream.events[i].id = id

(***************************************************************************)
(* One parsed event.  An id seen before is skipped; any other event is     *)
(* kept, and the stream is partial unless it is the next one in sequence   *)
(* (the code tells duplicate, gap and out-of-order apart in its issues).   *)
(***************************************************************************)
ReduceEvent(stream, event) ==
    IF Known(stream, event.id) THEN [stream EXCEPT !.duplicates = @ + 1]
    ELSE [stream EXCEPT !.events = Append(@, event),
                        !.partial = @ \/ event.seq # stream.lastSeq + 1,
                        !.lastSeq = IF event.seq > @ THEN event.seq ELSE @]

\* A complete line: blank, one event, or invalid.
EndLine(stream) ==
    LET next == [stream EXCEPT !.line = << >>]
    IN  IF stream.line = << >> THEN stream
        ELSE IF Len(stream.line) = 1 /\ IsEvent(stream.line[1])
             THEN ReduceEvent(next, stream.line[1])
             ELSE [next EXCEPT !.partial = TRUE]

Feed(stream, chunk) ==
    IF chunk = Newline THEN EndLine(stream)
    ELSE [stream EXCEPT !.line = Append(@, chunk)]

\* replayEventLog(text)
ReplayEventLog(text) ==
    LET after[i \in 0..Len(text)] ==
            IF i = 0 THEN EmptyStream ELSE Feed(after[i - 1], text[i])
    IN  EndLine(after[Len(text)])

\* The events an append tried to add, whether or not a reader finds them.
WrittenEvents(text) == {text[i] : i \in {j \in DOMAIN text : IsEvent(text[j])}}
=============================================================================
