----------------------------- MODULE SseFraming -----------------------------
(***************************************************************************)
(* How the two stream clients cut the bytes of a response into frames      *)
(* (SseParser in api/src/sse.rs, OpenAiSseParser in openai_compat.rs).     *)
(* A byte stream is a sequence of tokens: a line feed, a carriage return,  *)
(* an event line, and the data line of the n-th frame in two pieces, n and *)
(* TAIL, so that a chunk may end inside a line, between two lines or       *)
(* inside a separator.                                                     *)
(***************************************************************************)
EXTENDS Integers, Sequences

LF == -1
CR == -2
EVENT == -3
TAIL == -4

\* What a frame says: nothing, the data of frame n, or something that is no JSON.
NOTHING == 0
JUNK == -1

Newline(ending) == IF ending = "lf" THEN <<LF>> ELSE <<CR, LF>>

\* The bytes of frame n as a server writes them.
Written(n, ending, named) ==
    (IF named THEN <<EVENT>> \o Newline(ending) ELSE <<>>)
        \o <<n, TAIL>> \o Newline(ending) \o Newline(ending)

Occurs(pattern, bytes, i) ==
    i + Len(pattern) - 1 <= Len(bytes) /\ SubSeq(bytes, i, i + Len(pattern) - 1) = pattern

\* The first place of a pattern, 0 when there is none.
Position(pattern, bytes) ==
    LET places == {i \in 1 .. Len(bytes) : Occurs(pattern, bytes, i)}
    IN  IF places = {} THEN 0 ELSE CHOOSE i \in places : \A j \in places : i <= j

\* Mutant: half of the blank line stays in the buffer.
SeparatorHalf(bytes) ==
    LET lf == Position(<<LF, LF>>, bytes)
    IN  IF lf # 0 THEN [at |-> lf, width |-> 2]
        ELSE [at |-> Position(<<CR, LF, CR, LF>>, bytes), width |-> 2]

\* The blank line that ends the first frame: LF LF anywhere, else CR LF CR LF.
Separator(bytes) ==
    LET lf == Position(<<LF, LF>>, bytes)
    IN  IF lf # 0 THEN [at |-> lf, width |-> 2]
        ELSE [at |-> Position(<<CR, LF, CR, LF>>, bytes), width |-> 4]

\* The frame's data is the data of frame frame[i]: both pieces, in order, and no others.
WholeAt(i, frame, data) ==
    /\ frame[i] > 0
    /\ \E j \in data : i < j /\ frame[j] = TAIL /\ data = {i, j}

ParseFrame(frame) ==
    LET data == {i \in DOMAIN frame : frame[i] > 0 \/ frame[i] = TAIL}
    IN  IF data = {} THEN NOTHING
        ELSE IF \E i \in data : WholeAt(i, frame, data)
             THEN frame[CHOOSE i \in data : WholeAt(i, frame, data)]
             ELSE JUNK

\* Every complete frame of the buffer, and what is left of it.
Cut[buffer \in Seq(Int)] ==
    LET separator == Separator(buffer)
    IN  IF separator.at = 0 THEN [frames |-> <<>>, rest |-> buffer]
        ELSE LET later == Cut[SubSeq(buffer, separator.at + separator.width, Len(buffer))]
             IN  [frames |-> <<ParseFrame(SubSeq(buffer, 1, separator.at - 1))>> \o later.frames,
                  rest |-> later.rest]
=============================================================================
