--------------------------- MODULE ProviderStream ---------------------------
(***************************************************************************)
(* One call of ApiClient::stream: the request with its retries             *)
(* (send_with_retry of anthropic.rs and openai_compat.rs), the body that   *)
(* comes in chunks cut anywhere, the loop over its events, and the plain   *)
(* request that is made when the stream said nothing.  Around it a         *)
(* provider that writes a message of its protocol, may refuse, stop        *)
(* writing at any byte, or write a frame that is no event, and a network   *)
(* that may break.                                                         *)
(***************************************************************************)
EXTENDS SseFraming, StreamDecoder, FiniteSets

CONSTANTS Providers,   \* protocols spoken: "anthropic", "openai"
          Consumers,   \* clients that read: "cli", "agent"
          MaxRetries,  \* max_retries of the clients
          ShiftBits,   \* bits of the backoff multiplier, 32 in the code
          MaxContent,  \* bound: content frames of a message
          MaxBlocks,   \* bound: content blocks of an Anthropic message
          MaxExtras    \* bound: pings and frames that are no event

ASSUME RetryAssumption == MaxRetries \in Nat /\ ShiftBits \in Nat
ASSUME BoundsAssumption == MaxContent \in Nat /\ MaxBlocks \in Nat /\ MaxExtras \in Nat

VARIABLES provider, consumer, ending,  \* who speaks to whom, with which line ends
          mode,       \* "stream", then "message" for the plain request
          phase,      \* where in the call the client is
          attempts,   \* of the request under way
          requests,   \* opened so far (history)
          sent,       \* frames the provider wrote to this stream
          wire,       \* bytes on the way
          buffer,     \* bytes of an incomplete frame
          stream,     \* StreamState
          reader,     \* what the loop over the events holds
          received    \* bytes that arrived (history)

setting == <<provider, consumer, ending>>
body == <<sent, wire, buffer, stream, reader, received>>
vars == <<setting, mode, phase, attempts, requests, body>>

Phases == {"ready", "waiting", "sleeping", "streaming", "reading", "answered", "failed"}

Init ==
    /\ provider \in Providers
    /\ consumer \in Consumers
    /\ ending \in {"lf", "crlf"}
    /\ mode = "stream"
    /\ phase = "ready"
    /\ attempts = 0
    /\ requests = 0
    /\ sent = <<>>
    /\ wire = <<>>
    /\ buffer = <<>>
    /\ stream = NoStream
    /\ reader = NewReader
    /\ received = 0

-----------------------------------------------------------------------------
\* The history of requests stops counting one above what a call may open.
Ceiling == 2 * (MaxRetries + 1)
Counted(n) == IF n > Ceiling THEN n ELSE n + 1

\* send_with_retry.
SendRequest ==
    /\ phase \in {"ready", "sleeping"}
    /\ attempts' = attempts + 1
    /\ requests' = Counted(requests)
    /\ phase' = "waiting"
    /\ UNCHANGED <<setting, mode, body>>

Succeeds ==
    /\ phase = "waiting"
    /\ phase' = IF mode = "stream" THEN "streaming" ELSE "reading"
    /\ UNCHANGED <<setting, mode, attempts, requests, body>>

\* Mutant: the comparison after the match is one too generous.
RetriesOnceMore ==
    /\ attempts <= MaxRetries + 1
    /\ attempts - 1 < ShiftBits

\* A refusal or an error on the way that may pass; checked_shl gives no multiplier
\* once the attempt has more predecessors than the multiplier has bits.
Retries ==
    /\ attempts <= MaxRetries + 1
    /\ ~(attempts > MaxRetries)
    /\ attempts - 1 < ShiftBits

FailsForNow ==
    /\ phase = "waiting"
    /\ phase' = IF Retries THEN "sleeping" ELSE "failed"
    /\ UNCHANGED <<setting, mode, attempts, requests, body>>

FailsForGood ==
    /\ phase = "waiting"
    /\ phase' = "failed"
    /\ UNCHANGED <<setting, mode, attempts, requests, body>>

-----------------------------------------------------------------------------
\* The provider (external): which frame it may write next.
Kinds(kinds) == {n \in DOMAIN sent : sent[n].kind \in kinds}
Content == {"chunk", "delta"}

Chunk(content, reasoning, calls, finish) ==
    [kind |-> "chunk", content |-> content, reasoning |-> reasoning,
     tool_calls |-> calls, finish |-> finish]
Call(i, named, arguments) == [index |-> i, named |-> named, arguments |-> arguments]

\* The calls an OpenAI-compatible stream has named, and the pieces of their arguments.
Deltas(n) == IF sent[n].kind = "chunk" THEN Range(sent[n].tool_calls) ELSE {}
NamedCalls == {i \in CallIndices : \E n \in DOMAIN sent : \E d \in Deltas(n) : d.index = i}
Finished == \E n \in DOMAIN sent : sent[n].kind = "chunk" /\ sent[n].finish # "none"

Endings == {"none", IF NamedCalls = {} THEN "stop" ELSE "tool_calls"}
OpenAiFrames ==
    IF Finished THEN {[kind |-> "done"]}
    ELSE {Chunk(FALSE, FALSE, <<>>, finish) : finish \in Endings \ {"none"}}
         \cup IF Cardinality(Kinds(Content)) >= MaxContent THEN {}
              ELSE {Chunk(TRUE, FALSE, <<>>, "none"), Chunk(FALSE, TRUE, <<>>, "none")}
                   \cup {Chunk(FALSE, FALSE, <<Call(i, i \notin NamedCalls, arguments)>>, finish) :
                            i \in CallIndices, arguments \in BOOLEAN, finish \in {"none", "tool_calls"}}
                   \cup IF NamedCalls # {} THEN {}
                        ELSE {Chunk(FALSE, FALSE, [k \in DOMAIN all |-> Call(all[k], TRUE, TRUE)], "none") :
                                all \in {InOrder(CallIndices)}}

Block(kind, index, block) == [kind |-> kind, index |-> index, block |-> block]
Blocks == Kinds({"block_start"})
OpenBlock == CHOOSE n \in Blocks : \A o \in Blocks : o <= n
AnthropicFrames ==
    CASE sent = <<>> -> {[kind |-> "message_start"]}
      [] Kinds({"message_stop"}) # {} -> {}
      [] Kinds({"message_delta"}) # {} /\ Kinds({"message_stop"}) = {} -> {[kind |-> "message_stop"]}
      [] Cardinality(Blocks) > Cardinality(Kinds({"block_stop"})) /\ Kinds({"message_delta"}) = {} ->
            {Block("block_stop", sent[OpenBlock].index, "none")}
            \cup IF Cardinality(Kinds(Content)) >= MaxContent THEN {}
                 ELSE {Block("delta", sent[OpenBlock].index, sent[OpenBlock].block)}
      [] OTHER ->
            {[kind |-> "message_delta"]}
            \cup IF Cardinality(Blocks) >= MaxBlocks THEN {}
                 ELSE {Block("block_start", Cardinality(Blocks), block) : block \in {"text", "tool"}}

Extras ==
    IF Cardinality(Kinds({"ping", "junk"})) >= MaxExtras THEN {}
    ELSE {[kind |-> "ping"], [kind |-> "junk"]}
Frames == Extras \cup IF provider = "openai" THEN OpenAiFrames ELSE AnthropicFrames

\* A frame is written when one byte at most is left on the way: a chunk may still
\* hold the end of one frame and any part of the next.
ProviderWrites ==
    /\ phase = "streaming"
    /\ Len(wire) <= 1
    /\ Kinds({"done"}) = {}
    /\ \E frame \in Frames :
          /\ sent' = Append(sent, frame)
          /\ wire' = wire \o Written(Len(sent) + 1, ending, provider = "anthropic")
    /\ UNCHANGED <<setting, mode, phase, attempts, requests, buffer, stream, reader, received>>

-----------------------------------------------------------------------------
\* The events of frame n: the Anthropic client passes its frames on.
Passed(frame) ==
    CASE frame.kind = "message_start" -> <<MessageStart>>
      [] frame.kind = "block_start" -> <<Start(frame.index, frame.block)>>
      [] frame.kind = "block_stop" -> <<Stop(frame.index)>>
      [] frame.kind = "message_delta" -> <<Head(MessageEnd)>>
      [] frame.kind = "message_stop" -> Tail(MessageEnd)
      [] OTHER -> <<>>

\* The loop over the events, by the client that reads.
Hears(loop, event) == Read(consumer, loop, event)
ReadAll(loop, events) == FoldLeft(Hears, loop, events)

\* One parsed frame handed to the stream and the loop.  at: [stream, reader].
TakeFrame(at, n) ==
    LET frame == sent[n]
        delta == IF frame.kind = "delta" THEN <<Delta(frame.index, frame.block, <<n>>)>> ELSE <<>>
        chunk == IngestChunk(at.stream, frame, n)
    IN  IF frame.kind = "chunk"
        THEN [stream |-> chunk.stream, reader |-> ReadAll(at.reader, chunk.events)]
        ELSE [at EXCEPT !.reader = ReadAll(@, Passed(frame) \o delta)]

Take(at, n) == IF n = NOTHING \/ sent[n].kind = "ping" THEN at ELSE TakeFrame(at, n)
TakeAll(at, frames) == FoldLeft(Take, at, frames)

\* parse_frame fails on it: not JSON, or JSON that is no event (an error event).
Unreadable(frames) ==
    \E k \in DOMAIN frames :
        \/ frames[k] = JUNK
        \/ frames[k] # NOTHING /\ sent[frames[k]].kind = "junk"

\* The stream is dropped with what was read of it.
Dropped ==
    /\ sent' = <<>>
    /\ wire' = <<>>
    /\ buffer' = <<>>
    /\ stream' = NoStream
    /\ reader' = NewReader
    /\ received' = 0

\* MessageStream::next_event takes a chunk; one unreadable frame in it fails the call.
ChunkArrives(size) ==
    LET cut == Cut[buffer \o SubSeq(wire, 1, size)]
        taken == TakeAll([stream |-> stream, reader |-> reader], cut.frames)
    IN  /\ phase = "streaming"
        /\ IF Unreadable(cut.frames)
           THEN phase' = "failed" /\ Dropped
           ELSE /\ wire' = SubSeq(wire, size + 1, Len(wire))
                /\ received' = received + size
                /\ buffer' = cut.rest
                /\ stream' = taken.stream
                /\ reader' = taken.reader
                /\ UNCHANGED <<phase, sent>>
        /\ UNCHANGED <<setting, mode, attempts, requests>>

\* The body ends, complete or not: SseParser::finish reads what is left as a frame,
\* OpenAiSseParser drops it and StreamState::finish closes what is open.
Rest == IF provider = "anthropic" /\ buffer # <<>> THEN <<ParseFrame(buffer)>> ELSE <<>>
AtEnd ==
    LET rest == TakeAll([stream |-> stream, reader |-> reader], Rest).reader
    IN  IF provider = "openai" THEN ReadAll(rest, FinishStream(stream)) ELSE rest

\* Mutant: a stream that said nothing is asked for again as a stream.
BodyEndsAgain ==
    /\ phase = "streaming"
    /\ IF ~Unreadable(Rest) /\ Has(Ended(AtEnd), {"stop"})
       THEN /\ phase' = "answered"
            /\ reader' = Ended(AtEnd)
            /\ UNCHANGED <<attempts, sent, wire, buffer, stream, received>>
       ELSE /\ Dropped
            /\ phase' = IF Unreadable(Rest) THEN "failed" ELSE "ready"
            /\ attempts' = 0
    /\ UNCHANGED <<setting, mode, requests>>

BodyEnds ==
    /\ phase = "streaming"
    /\ IF ~Unreadable(Rest) /\ Has(Ended(AtEnd), {"stop"})
       THEN /\ phase' = "answered"
            /\ reader' = Ended(AtEnd)
            /\ UNCHANGED <<mode, attempts, sent, wire, buffer, stream, received>>
       ELSE /\ Dropped
            /\ IF Unreadable(Rest)
               THEN phase' = "failed" /\ UNCHANGED <<mode, attempts>>
               ELSE phase' = "ready" /\ mode' = "message" /\ attempts' = 0
    /\ UNCHANGED <<setting, requests>>

\* A read error, or the 600 s the whole request may take.
BodyBreaks ==
    /\ phase = "streaming"
    /\ phase' = "failed"
    /\ Dropped
    /\ UNCHANGED <<setting, mode, attempts, requests>>

-----------------------------------------------------------------------------
\* response_to_events: the blocks of a whole message, then the stop.
Whole(calls) ==
    [NewReader EXCEPT !.events =
        [k \in DOMAIN calls |-> AssistantEvent("tool_use", calls[k], <<>>)]
            \o <<AssistantEvent("stop", 0, <<>>)>>]

\* The plain request is answered, from the completion cache without being made.
WholeMessage ==
    /\ \/ phase = "reading"
       \/ phase = "ready" /\ mode = "message" /\ provider = "anthropic"
    /\ phase' = "answered"
    /\ \E calls \in {<<>>, <<1>>} : reader' = Whole(calls)
    /\ UNCHANGED <<setting, mode, attempts, requests, sent, wire, buffer, stream, received>>

\* No JSON, or a completion without choices.
MessageUnreadable ==
    /\ phase = "reading"
    /\ phase' = "failed"
    /\ UNCHANGED <<setting, mode, attempts, requests, body>>

Next ==
    \/ SendRequest \/ Succeeds \/ FailsForNow \/ FailsForGood
    \/ ProviderWrites
    \/ \E size \in 1 .. Len(wire) : ChunkArrives(size)
    \/ BodyEnds \/ BodyBreaks
    \/ WholeMessage \/ MessageUnreadable

Spec == Init /\ [][Next]_vars

\* The client's own steps, the provider's answer or a time limit in its place
\* (connect_timeout 30 s, timeout 600 s for the request with its body).
Fairness ==
    /\ WF_vars(SendRequest)
    /\ WF_vars(Succeeds \/ FailsForNow \/ FailsForGood)
    /\ WF_vars(BodyBreaks)
    /\ WF_vars(WholeMessage \/ MessageUnreadable)

FairSpec == Spec /\ Fairness

-----------------------------------------------------------------------------
TypeOK ==
    /\ provider \in Providers /\ consumer \in Consumers /\ ending \in {"lf", "crlf"}
    /\ mode \in {"stream", "message"}
    /\ phase \in Phases
    /\ attempts \in 0 .. MaxRetries + 1
    /\ requests \in Nat

Width == Len(Written(1, ending, provider = "anthropic"))
Arrived == received \div Width

\* While the body is read, the loop holds what the frames that arrived in full say, in
\* order and each once, and the buffer holds the bytes of the next: where the network
\* cut the stream makes no difference (SseParser::push, next_sse_frame).
FramesAsSent ==
    phase = "streaming" =>
        LET whole == TakeAll([stream |-> NoStream, reader |-> NewReader], [n \in 1 .. Arrived |-> n])
        IN  /\ buffer = SubSeq(Written(Arrived + 1, ending, provider = "anthropic"), 1, received % Width)
            /\ [stream |-> stream, reader |-> reader] = whole
            /\ \A n \in 1 .. Arrived : sent[n].kind # "junk"

\* The pieces of arguments the provider wrote for a block, and the blocks that are calls.
Writes(n, block) ==
    IF provider = "openai"
    THEN \E d \in Deltas(n) : BlockIndex(d.index) = block /\ d.arguments
    ELSE sent[n].kind = "delta" /\ sent[n].index = block
Pieces(block) == {n \in DOMAIN sent : Writes(n, block)}
ToolBlocks ==
    IF provider = "openai" THEN {BlockIndex(i) : i \in NamedCalls}
    ELSE {sent[n].index : n \in {b \in Blocks : sent[b].block = "tool"}}

\* The provider's own end of the message has arrived.
MessageComplete ==
    \E n \in 1 .. Arrived :
        \/ sent[n].kind = "message_stop"
        \/ sent[n].kind = "chunk" /\ sent[n].finish # "none"

ToolUses == {k \in DOMAIN reader.events : reader.events[k].kind = "tool_use"}

\* A text holds these pieces in the order they were written, each once.
Spells(text, pieces) ==
    /\ Range(text) = pieces
    /\ \A i, j \in DOMAIN text : i < j => text[i] < text[j]

CallsIntact ==
    phase = "answered" /\ mode = "stream" =>
        /\ \A k \in ToolUses :
              /\ \E m \in 0 .. Len(sent) :
                    Spells(reader.events[k].text, {n \in Pieces(reader.events[k].call) : n <= m})
              /\ \A l \in ToolUses : reader.events[k].call = reader.events[l].call => k = l
        /\ MessageComplete =>
              /\ {reader.events[k].call : k \in ToolUses} = ToolBlocks
              /\ \A k \in ToolUses : Spells(reader.events[k].text, Pieces(reader.events[k].call))

\* The answer holds the tool calls the provider wrote, each once and with its own
\* arguments, all of them when the message was complete; a message cut short gives no
\* call another one's arguments.  For the terminal client over an OpenAI-compatible
\* stream this is claimed of messages with one call only (ParallelCallsIntact).
ToolCallsIntact ==
    ~(consumer = "cli" /\ provider = "openai" /\ Cardinality(NamedCalls) > 1) => CallsIntact

\* The same of every message: the decoder keeps the calls of one message apart
\* (stream_message_normalizes_text_and_multiple_tool_calls).
ParallelCallsIntact == CallsIntact

\* A call opens no more requests than its two retry loops allow and none after it
\* has returned (send_with_retry, the fallback of ApiClient::stream).
Promise == INSTANCE ProviderCall WITH
    Ceiling <- Ceiling,
    requests <- requests,
    status <- IF phase \in {"answered", "failed"} THEN phase ELSE "open"
RequestsAsPromised == Promise!Spec

\* Every call returns: no refusal, silence or cut makes the client wait for ever.
EveryCallReturns == <>(phase \in {"answered", "failed"})
=============================================================================
