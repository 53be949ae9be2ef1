--------------------------- MODULE StreamDecoder ---------------------------
(***************************************************************************)
(* From the frames of a response to the events of an assistant message:    *)
(* StreamState and ToolCallState of openai_compat.rs, which turn chat      *)
(* completion chunks into content block events (the Anthropic client       *)
(* passes its events through), and the loop over them in the two clients   *)
(* of the conversation loop: SegoRuntimeClient (main.rs, "cli") and        *)
(* ProviderRuntimeClient (tools/src/lib.rs, "agent").  The text of a frame *)
(* is the frame's number.                                                  *)
(***************************************************************************)
EXTENDS Integers, Sequences, SequencesExt, FiniteSets

CONSTANT CallIndices   \* indices of tool calls in an OpenAI-compatible stream

ASSUME CallIndicesAssumption == CallIndices \subseteq Nat /\ IsFiniteSet(CallIndices)

-----------------------------------------------------------------------------
\* StreamEvent: a step of a message or of one of its content blocks.
Event(step, index, block, text) == [step |-> step, index |-> index, block |-> block, text |-> text]
Start(index, block) == Event("block_start", index, block, <<>>)
Delta(index, block, text) == Event("block_delta", index, block, text)
Stop(index) == Event("block_stop", index, "none", <<>>)
MessageStart == Event("message_start", 0, "none", <<>>)
MessageEnd == <<Event("message_delta", 0, "none", <<>>), Event("message_stop", 0, "none", <<>>)>>

-----------------------------------------------------------------------------
\* ToolCallState and StreamState.
NoCall == [named |-> FALSE, arguments |-> <<>>, emitted |-> 0, started |-> FALSE, stopped |-> FALSE]
NoStream == [message_started |-> FALSE, text_started |-> FALSE,
             tool_calls |-> [i \in CallIndices |-> NoCall]]

BlockIndex(i) == i + 1

Applied(call, delta, n) ==
    [call EXCEPT !.named = @ \/ delta.named,
                 !.arguments = IF delta.arguments THEN Append(@, n) ELSE @]

Unsent(call) == SubSeq(call.arguments, call.emitted + 1, Len(call.arguments))

\* The events of a call that took its delta.  last: the same choice says finish_reason
\* "tool_calls".
ToolEvents(call, i, last) ==
    (IF ~call.started /\ call.named THEN <<Start(BlockIndex(i), "tool")>> ELSE <<>>)
        \o (IF Unsent(call) # <<>> THEN <<Delta(BlockIndex(i), "tool", Unsent(call))>> ELSE <<>>)
        \o (IF last /\ ~call.stopped THEN <<Stop(BlockIndex(i))>> ELSE <<>>)

\* Mutant: every delta sends the arguments from the beginning again.
ToolDeltaRepeats(state, delta) ==
    LET i == delta.index
        call == [Applied(state.tool_calls[i], delta, state.chunk) EXCEPT !.emitted = 0]
    IN  IF ~(call.started \/ call.named)
        THEN [state EXCEPT !.tool_calls[i] = call]
        ELSE [state EXCEPT !.tool_calls[i] = [call EXCEPT !.started = TRUE, !.stopped = @ \/ state.last],
                           !.events = @ \o ToolEvents(call, i, state.last)]

\* One entry of delta.tool_calls.  state: the calls and the events so far of a chunk.
ToolDelta(state, delta) ==
    LET i == delta.index
        call == Applied(state.tool_calls[i], delta, state.chunk)
    IN  IF ~(call.started \/ call.named)
        THEN [state EXCEPT !.tool_calls[i] = call]
        ELSE [state EXCEPT !.tool_calls[i] = [call EXCEPT !.started = TRUE, !.stopped = @ \/ state.last,
                                                          !.emitted = Len(call.arguments)],
                           !.events = @ \o ToolEvents(call, i, state.last)]

\* The values of a BTreeMap come in the order of their keys.
InOrder(S) ==
    CHOOSE s \in [1 .. Cardinality(S) -> S] :
        /\ Range(s) = S
        /\ \A i, j \in 1 .. Cardinality(S) : i < j => s[i] < s[j]

OpenCalls(calls) == {i \in CallIndices : calls[i].started /\ ~calls[i].stopped}
Stops(calls) ==
    LET open == InOrder(OpenCalls(calls)) IN [k \in DOMAIN open |-> Stop(BlockIndex(open[k]))]
AllStopped(calls) ==
    [i \in CallIndices |-> [calls[i] EXCEPT !.stopped = @ \/ calls[i].started]]

\* What a chunk says before its tool calls.
ContentEvents(stream, chunk, n) ==
    (IF stream.message_started THEN <<>> ELSE <<MessageStart>>)
        \o (IF chunk.reasoning THEN <<Delta(0, "thinking", <<n>>)>> ELSE <<>>)
        \o (IF chunk.content /\ ~stream.text_started THEN <<Start(0, "text")>> ELSE <<>>)
        \o (IF chunk.content THEN <<Delta(0, "text", <<n>>)>> ELSE <<>>)

\* StreamState::ingest_chunk.
IngestChunk(stream, chunk, n) ==
    LET last == chunk.finish = "tool_calls"
        begun == [tool_calls |-> stream.tool_calls, events |-> ContentEvents(stream, chunk, n),
                  chunk |-> n, last |-> last]
        done == FoldLeft(ToolDelta, begun, chunk.tool_calls)
    IN  [stream |-> [message_started |-> TRUE,
                     text_started |-> stream.text_started \/ chunk.content,
                     tool_calls |-> IF last THEN AllStopped(done.tool_calls) ELSE done.tool_calls],
         events |-> done.events \o (IF last THEN Stops(done.tool_calls) ELSE <<>>)]

\* StreamState::finish, at the end of the body.  A call that has not started has no
\* name and still gets no event.
FinishStream(stream) ==
    (IF stream.text_started THEN <<Stop(0)>> ELSE <<>>)
        \o Stops(stream.tool_calls)
        \o (IF stream.message_started THEN MessageEnd ELSE <<>>)

-----------------------------------------------------------------------------
\* The loop over the events.  pending: open tool blocks and their input so far; the
\* terminal client keeps one of them, the subagent client one per block index.
AssistantEvent(kind, call, text) == [kind |-> kind, call |-> call, text |-> text]
NewReader == [events |-> <<>>, pending |-> <<>>, thinking |-> <<>>, saw_stop |-> FALSE]

Slot(consumer, index) == IF consumer = "cli" THEN 0 ELSE index

Said(reader, kind, call, text) ==
    [reader EXCEPT !.events = Append(@, AssistantEvent(kind, call, text))]

Without(pending, slot) == [s \in DOMAIN pending \ {slot} |-> pending[s]]
Opened(reader, slot, index) ==
    [reader EXCEPT !.pending =
        [s \in DOMAIN @ \cup {slot} |-> IF s = slot THEN [call |-> index, input |-> <<>>] ELSE @[s]]]
Extended(reader, slot, text) ==
    IF slot \in DOMAIN reader.pending
    THEN [reader EXCEPT !.pending[slot].input = @ \o text] ELSE reader
Closed(reader, slot) ==
    IF slot \in DOMAIN reader.pending
    THEN [Said(reader, "tool_use", reader.pending[slot].call, reader.pending[slot].input)
             EXCEPT !.pending = Without(@, slot)]
    ELSE reader

\* Thinking deltas: the terminal client keeps them for the end; the subagent client
\* drops them, no block of theirs having been started.
Thought(consumer, reader, text) ==
    IF consumer = "cli" THEN [reader EXCEPT !.thinking = @ \o text] ELSE reader
Flushed(reader) ==
    IF reader.thinking = <<>> THEN reader
    ELSE [Said(reader, "thinking", 0, reader.thinking) EXCEPT !.thinking = <<>>]

Read(consumer, reader, event) ==
    LET slot == Slot(consumer, event.index)
    IN  CASE event.step = "block_start" /\ event.block = "tool" -> Opened(reader, slot, event.index)
          [] event.step = "block_delta" /\ event.block = "text" -> Said(reader, "text", 0, event.text)
          [] event.step = "block_delta" /\ event.block = "tool" -> Extended(reader, slot, event.text)
          [] event.step = "block_delta" /\ event.block = "thinking" -> Thought(consumer, reader, event.text)
          [] event.step = "block_stop" -> Closed(reader, slot)
          [] event.step = "message_stop" ->
                [Said(Flushed(reader), "stop", 0, <<>>) EXCEPT !.saw_stop = TRUE]
          [] OTHER -> reader

Has(reader, kinds) == \E k \in DOMAIN reader.events : reader.events[k].kind \in kinds

\* After the loop: an answer without a stop counts as stopped when it says something.
Ended(reader) ==
    LET flushed == Flushed(reader)
    IN  IF ~reader.saw_stop /\ Has(flushed, {"text", "tool_use"})
        THEN Said(flushed, "stop", 0, <<>>) ELSE flushed
=============================================================================
