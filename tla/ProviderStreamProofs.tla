------------------------ MODULE ProviderStreamProofs ------------------------
(***************************************************************************)
(* Proofs about ProviderStream, for any number of retries, any protocol    *)
(* and any message: the requests of a call are counted, whatever the       *)
(* frames say; where the network cuts the stream makes no difference to    *)
(* the frames; and the answer holds the tool calls the provider wrote,     *)
(* each once and with its own arguments.                                   *)
(***************************************************************************)
EXTENDS ProviderStream, TLAPS, WellFoundedInduction, FiniteSetTheorems

Returned == {"answered", "failed"}

\* The attempts of the request under way, after those of the stream that said nothing.
Earlier == IF mode = "message" THEN MaxRetries + 1 ELSE 0

CountInv ==
    /\ requests <= Earlier + attempts
    /\ phase = "ready" => attempts = 0
    /\ phase = "sleeping" => attempts <= MaxRetries
    /\ phase # "ready" \/ mode = "message" => requests > 0
    /\ phase = "streaming" => mode = "stream"

IInv == TypeOK /\ CountInv

LEMMA CeilingType == Ceiling \in Nat /\ Ceiling = 2 * (MaxRetries + 1)
BY RetryAssumption DEF Ceiling

\* No call passes the ceiling.
LEMMA BelowCeiling == IInv => requests <= Ceiling
<1> SUFFICES ASSUME IInv PROVE requests <= Ceiling
    OBVIOUS
<1>1. attempts <= MaxRetries + 1
  BY RetryAssumption DEF IInv, TypeOK
<1>2. Earlier <= MaxRetries + 1
  BY RetryAssumption DEF Earlier
<1> QED
  BY <1>1, <1>2, RetryAssumption, CeilingType DEF IInv, TypeOK, CountInv, Earlier

LEMMA InitInv == Init => IInv
BY RetryAssumption DEF Init, IInv, TypeOK, CountInv, Phases, Earlier

LEMMA Sent ==
    ASSUME IInv, SendRequest
    PROVE  /\ requests < Ceiling /\ requests' = requests + 1
           /\ attempts <= MaxRetries
<1>1. attempts <= MaxRetries
  BY RetryAssumption DEF IInv, TypeOK, CountInv, SendRequest
<1>2. requests <= Earlier + attempts /\ requests \in Nat /\ attempts \in Nat
  BY RetryAssumption DEF IInv, TypeOK, CountInv
<1>3. Earlier \in Nat /\ Earlier <= MaxRetries + 1
  BY RetryAssumption DEF Earlier
<1>4. requests < Ceiling
  BY <1>1, <1>2, <1>3, RetryAssumption, CeilingType
<1> QED
  BY <1>1, <1>2, <1>4, CeilingType DEF SendRequest, Counted

LEMMA SendKeeps == ASSUME IInv, SendRequest PROVE IInv'
<1>1. requests' = requests + 1 /\ attempts' = attempts + 1 /\ attempts <= MaxRetries
  BY Sent DEF SendRequest
<1>2. TypeOK'
  BY <1>1, RetryAssumption DEF IInv, TypeOK, SendRequest, setting, Phases
<1>3. CountInv'
  BY <1>1, RetryAssumption DEF IInv, TypeOK, CountInv, SendRequest, Earlier
<1> QED
  BY <1>2, <1>3 DEF IInv

\* The steps that wait for the answer to a request.
Answering == Succeeds \/ FailsForNow \/ FailsForGood \/ MessageUnreadable

LEMMA AnsweringKeeps == ASSUME IInv, Answering PROVE IInv'
<1>1. /\ UNCHANGED <<setting, mode, attempts, requests>>
      /\ phase \in {"waiting", "reading"}
      /\ phase' \in {"streaming", "reading", "sleeping", "failed"}
      /\ phase' = "streaming" => mode = "stream"
      /\ phase' = "sleeping" => attempts <= MaxRetries
  BY RetryAssumption DEF Answering, Succeeds, FailsForNow, FailsForGood, MessageUnreadable,
     Retries, IInv, TypeOK
<1>2. TypeOK'
  BY <1>1 DEF IInv, TypeOK, setting, Phases
<1>3. CountInv'
  BY <1>1 DEF IInv, CountInv, Earlier
<1> QED
  BY <1>2, <1>3 DEF IInv

\* The steps of the body that keep the stream open, or fail it.
Reading == ProviderWrites \/ (\E size \in 1 .. Len(wire) : ChunkArrives(size)) \/ BodyBreaks

LEMMA ReadingKeeps == ASSUME IInv, Reading PROVE IInv'
<1>1. /\ UNCHANGED <<setting, mode, attempts, requests>>
      /\ phase = "streaming" /\ phase' \in {"streaming", "failed"}
  <2>1. CASE ProviderWrites
    BY <2>1 DEF ProviderWrites
  <2>2. CASE \E size \in 1 .. Len(wire) : ChunkArrives(size)
    BY <2>2 DEF ChunkArrives
  <2>3. CASE BodyBreaks
    BY <2>3 DEF BodyBreaks
  <2> QED
    BY <2>1, <2>2, <2>3 DEF Reading
<1>2. TypeOK'
  BY <1>1 DEF IInv, TypeOK, setting, Phases
<1>3. CountInv'
  BY <1>1 DEF IInv, CountInv, Earlier
<1> QED
  BY <1>2, <1>3 DEF IInv

\* What the end of the body does to the counts: the call returns, or starts over.
LEMMA EndOfBody ==
    ASSUME BodyEnds
    PROVE  /\ phase = "streaming" /\ UNCHANGED <<setting, requests>>
           /\ \/ phase' \in Returned /\ UNCHANGED <<mode, attempts>>
              \/ phase' = "ready" /\ mode' = "message" /\ attempts' = 0
BY DEF BodyEnds, Returned

LEMMA EndKeeps == ASSUME IInv, BodyEnds PROVE IInv'
<1>1. CASE phase' \in Returned /\ UNCHANGED <<mode, attempts>>
  BY <1>1, EndOfBody DEF IInv, TypeOK, CountInv, Earlier, Returned, setting, Phases
<1>2. CASE phase' = "ready" /\ mode' = "message" /\ attempts' = 0
  <2>1. mode = "stream" /\ requests > 0 /\ requests <= attempts /\ attempts <= MaxRetries + 1
    BY EndOfBody, RetryAssumption DEF IInv, TypeOK, CountInv, Earlier
  <2>2. TypeOK'
    BY <1>2, EndOfBody, RetryAssumption DEF IInv, TypeOK, setting, Phases
  <2>3. CountInv'
    BY <1>2, <2>1, EndOfBody, RetryAssumption DEF IInv, TypeOK, CountInv, Earlier
  <2> QED
    BY <2>2, <2>3 DEF IInv
<1> QED
  BY <1>1, <1>2, EndOfBody

LEMMA WholeKeeps == ASSUME IInv, WholeMessage PROVE IInv'
<1>1. /\ UNCHANGED <<setting, mode, attempts, requests>>
      /\ phase' = "answered" /\ requests > 0
  BY DEF WholeMessage, IInv, CountInv
<1>2. TypeOK'
  BY <1>1 DEF IInv, TypeOK, setting, Phases
<1>3. CountInv'
  BY <1>1 DEF IInv, CountInv, Earlier
<1> QED
  BY <1>2, <1>3 DEF IInv

LEMMA StutterKeeps == ASSUME IInv, UNCHANGED vars PROVE IInv'
BY DEF IInv, TypeOK, CountInv, Earlier, vars, setting, body

LEMMA NextKeeps == IInv /\ [Next]_vars => IInv'
<1> SUFFICES ASSUME IInv, [Next]_vars PROVE IInv'
    OBVIOUS
<1>1. CASE SendRequest
  BY <1>1, SendKeeps
<1>2. CASE Answering
  BY <1>2, AnsweringKeeps
<1>3. CASE Reading
  BY <1>3, ReadingKeeps
<1>4. CASE BodyEnds
  BY <1>4, EndKeeps
<1>5. CASE WholeMessage
  BY <1>5, WholeKeeps
<1>6. CASE UNCHANGED vars
  BY <1>6, StutterKeeps
<1> QED
  BY <1>1, <1>2, <1>3, <1>4, <1>5, <1>6 DEF Next, Answering, Reading

LEMMA Invariance == Spec => []IInv
<1>1. Init => IInv
  BY InitInv
<1>2. IInv /\ [Next]_vars => IInv'
  BY NextKeeps
<1> QED
  BY <1>1, <1>2, PTL DEF Spec

\* Every variable keeps its type, the attempts of a request within MaxRetries + 1
\* (send_with_retry).
THEOREM TypeCorrect == Spec => []TypeOK
<1>1. IInv => TypeOK
  BY DEF IInv
<1> QED
  BY <1>1, Invariance, PTL

\* A call opens at most twice as many requests as one request has attempts.
THEOREM RequestsBounded == Spec => [](requests <= Ceiling)
<1>1. IInv => requests <= Ceiling
  BY BelowCeiling
<1> QED
  BY <1>1, Invariance, PTL

-----------------------------------------------------------------------------
Status == IF phase \in Returned THEN phase ELSE "open"

LEMMA RequestStep == ASSUME IInv, SendRequest PROVE Promise!Request
<1>1. requests < Ceiling /\ requests' = requests + 1
  BY Sent
<1>2. Status = "open" /\ Status' = "open"
  BY DEF SendRequest, Status, Returned
<1> QED
  BY <1>1, <1>2 DEF Promise!Request, Status, Returned

LEMMA QuietStep ==
    ASSUME UNCHANGED requests, Status' = Status
    PROVE  UNCHANGED Promise!vars
BY DEF Promise!vars, Status, Returned

LEMMA ReturnStep ==
    ASSUME requests > 0, UNCHANGED requests, Status = "open", phase' \in Returned
    PROVE  Promise!Return
BY DEF Promise!Return, Status, Returned

LEMMA StepRefines == IInv /\ [Next]_vars => [Promise!Next]_(Promise!vars)
<1> SUFFICES ASSUME IInv, [Next]_vars PROVE Promise!Next \/ UNCHANGED Promise!vars
    OBVIOUS
<1>1. CASE SendRequest
  BY <1>1, RequestStep DEF Promise!Next
<1>2. CASE Answering
  <2>1. /\ UNCHANGED requests /\ Status = "open" /\ requests > 0
        /\ phase' \in {"streaming", "reading", "sleeping", "failed"}
    BY <1>2 DEF Answering, Succeeds, FailsForNow, FailsForGood, MessageUnreadable,
       IInv, CountInv, Status, Returned
  <2>2. CASE phase' = "failed"
    BY <2>1, <2>2, ReturnStep DEF Promise!Next, Returned
  <2>3. CASE phase' # "failed"
    BY <2>1, <2>3, QuietStep DEF Status, Returned
  <2> QED
    BY <2>2, <2>3
<1>3. CASE Reading
  <2>1. /\ UNCHANGED requests /\ phase = "streaming" /\ phase' \in {"streaming", "failed"}
    <3>1. CASE ProviderWrites
      BY <3>1 DEF ProviderWrites
    <3>2. CASE \E size \in 1 .. Len(wire) : ChunkArrives(size)
      BY <3>2 DEF ChunkArrives
    <3>3. CASE BodyBreaks
      BY <3>3 DEF BodyBreaks
    <3> QED
      BY <1>3, <3>1, <3>2, <3>3 DEF Reading
  <2>2. requests > 0 /\ Status = "open"
    BY <2>1 DEF IInv, CountInv, Status, Returned
  <2>3. CASE phase' = "failed"
    BY <2>1, <2>2, <2>3, ReturnStep DEF Promise!Next, Returned
  <2>4. CASE phase' = "streaming"
    BY <2>1, <2>2, <2>4, QuietStep DEF Status, Returned
  <2> QED
    BY <2>1, <2>3, <2>4
<1>4. CASE BodyEnds
  <2>1. requests > 0 /\ Status = "open" /\ UNCHANGED requests
    BY <1>4, EndOfBody DEF IInv, CountInv, Status, Returned
  <2>2. CASE phase' \in Returned
    BY <2>1, <2>2, ReturnStep DEF Promise!Next
  <2>3. CASE phase' = "ready"
    BY <2>1, <2>3, QuietStep DEF Status, Returned
  <2> QED
    BY <1>4, <2>2, <2>3, EndOfBody
<1>5. CASE WholeMessage
  <2>1. requests > 0 /\ Status = "open" /\ UNCHANGED requests /\ phase' \in Returned
    BY <1>5 DEF WholeMessage, IInv, CountInv, Status, Returned
  <2> QED
    BY <2>1, ReturnStep DEF Promise!Next
<1>6. CASE UNCHANGED vars
  BY <1>6, QuietStep DEF vars, Status
<1> QED
  BY <1>1, <1>2, <1>3, <1>4, <1>5, <1>6 DEF Next, Answering, Reading

\* A call implements what ProviderCall promises the conversation loop: within the
\* ceiling, at least one request before it returns, none after it.
THEOREM CallRefinesPromise == Spec => RequestsAsPromised
<1>1. Init => Promise!Init
  BY DEF Init, Promise!Init
<1>2. IInv /\ [Next]_vars => [Promise!Next]_(Promise!vars)
  BY StepRefines
<1> QED
  BY <1>1, <1>2, Invariance, PTL DEF Spec, RequestsAsPromised, Promise!Spec

-----------------------------------------------------------------------------
\* Whatever holds of some number holds of a least one.
LEMMA LeastNumber ==
    ASSUME NEW T, T \subseteq Nat, T # {}
    PROVE  \E m \in T : \A k \in T : m <= k
<1>1. PICK m \in T : \A k \in T : ~(<<k, m>> \in OpToRel(<, Nat))
  BY WFMin, NatLessThanWellFounded
<1>2. \A k \in T : ~(k < m)
  BY <1>1 DEF OpToRel
<1> QED
  BY <1>2

-----------------------------------------------------------------------------
(* Where a frame ends.                                                     *)

LEMMA Sliced ==
    ASSUME NEW b \in Seq(Int), NEW i \in Nat, NEW j \in Nat, 1 <= i, i <= j + 1, j <= Len(b)
    PROVE  /\ SubSeq(b, i, j) \in Seq(Int) /\ Len(SubSeq(b, i, j)) = j - i + 1
           /\ \A k \in 1 .. j - i + 1 : SubSeq(b, i, j)[k] = b[i + k - 1]
OBVIOUS

LEMMA SameBytes ==
    ASSUME NEW b \in Seq(Int), NEW c \in Seq(Int), Len(b) = Len(c),
           \A i \in 1 .. Len(b) : b[i] = c[i]
    PROVE  b = c
OBVIOUS

LEMMA Pairs ==
    ASSUME NEW b \in Seq(Int), NEW i \in 1 .. Len(b)
    PROVE  Occurs(<<LF, LF>>, b, i) <=> i + 1 <= Len(b) /\ b[i] = LF /\ b[i + 1] = LF
<1>1. Len(<<LF, LF>>) = 2
  OBVIOUS
<1>2. CASE i + 1 <= Len(b)
  <2>1. PICK c : c = SubSeq(b, i, i + 1)
    OBVIOUS
  <2>2. c \in Seq(Int) /\ Len(c) = 2 /\ c[1] = b[i] /\ c[2] = b[i + 1]
    BY <1>2, <2>1
  <2>3. c = <<LF, LF>> <=> c[1] = LF /\ c[2] = LF
    BY <2>2
  <2>4. i + 2 - 1 = i + 1
    OBVIOUS
  <2>5. Occurs(<<LF, LF>>, b, i) <=> c = <<LF, LF>>
    BY <1>1, <1>2, <2>1, <2>4 DEF Occurs
  <2> QED
    BY <1>2, <2>2, <2>3, <2>5
<1>3. CASE ~(i + 1 <= Len(b))
  BY <1>1, <1>3 DEF Occurs
<1> QED
  BY <1>2, <1>3

\* The four bytes of a blank line between carriage returns, at i.
BlankAt(b, i) ==
    /\ i + 3 <= Len(b)
    /\ b[i] = CR /\ b[i + 1] = LF /\ b[i + 2] = CR /\ b[i + 3] = LF

LEMMA Fours ==
    ASSUME NEW b \in Seq(Int), NEW i \in 1 .. Len(b)
    PROVE  Occurs(<<CR, LF, CR, LF>>, b, i) <=> BlankAt(b, i)
<1>1. Len(<<CR, LF, CR, LF>>) = 4
  OBVIOUS
<1>2. CASE i + 3 <= Len(b)
  <2>1. PICK c : c = SubSeq(b, i, i + 3)
    OBVIOUS
  <2>2. c \in Seq(Int) /\ Len(c) = 4 /\ \A k \in 1 .. 4 : c[k] = b[i + k - 1]
    <3>1. PICK j \in Nat : j = i + 3
      OBVIOUS
    <3>2. i \in Nat /\ 1 <= i /\ i <= j + 1 /\ j <= Len(b) /\ j - i + 1 = 4
      BY <1>2, <3>1
    <3>3. c = SubSeq(b, i, j)
      BY <2>1, <3>1
    <3>4. /\ SubSeq(b, i, j) \in Seq(Int) /\ Len(SubSeq(b, i, j)) = j - i + 1
          /\ \A k \in 1 .. j - i + 1 : SubSeq(b, i, j)[k] = b[i + k - 1]
      BY <3>2, Sliced
    <3> QED
      BY ONLY <3>2, <3>3, <3>4
  <2>3. c = <<CR, LF, CR, LF>> <=> c[1] = CR /\ c[2] = LF /\ c[3] = CR /\ c[4] = LF
    <3>1. PICK e : e = <<CR, LF, CR, LF>>
      OBVIOUS
    <3>2. e \in Seq(Int) /\ Len(e) = 4 /\ e[1] = CR /\ e[2] = LF /\ e[3] = CR /\ e[4] = LF
      BY <3>1 DEF CR, LF
    <3>3. (\A k \in 1 .. 4 : c[k] = e[k]) => c = e
      BY <2>2, <3>2, SameBytes
    <3>4. \A k \in 1 .. 4 : k = 1 \/ k = 2 \/ k = 3 \/ k = 4
      OBVIOUS
    <3> QED
      BY <3>1, <3>2, <3>3, <3>4
  <2>6. 1 \in 1 .. 4 /\ 2 \in 1 .. 4 /\ 3 \in 1 .. 4 /\ 4 \in 1 .. 4
    OBVIOUS
  <2>7. /\ i + 1 - 1 = i /\ i + 2 - 1 = i + 1 /\ i + 3 - 1 = i + 2
    OBVIOUS
  <2>4. i + 4 - 1 = i + 3
    OBVIOUS
  <2>5. Occurs(<<CR, LF, CR, LF>>, b, i) <=> c = <<CR, LF, CR, LF>>
    BY <1>1, <1>2, <2>1, <2>4 DEF Occurs
  <2>8. c[1] = b[i] /\ c[2] = b[i + 1] /\ c[3] = b[i + 2] /\ c[4] = b[i + 3]
    BY <2>2, <2>4, <2>6, <2>7
  <2> QED
    BY <1>2, <2>3, <2>5, <2>8 DEF BlankAt
<1>3. CASE ~(i + 3 <= Len(b))
  BY <1>1, <1>3 DEF Occurs, BlankAt
<1> QED
  BY <1>2, <1>3

\* Two line feeds in a row, at i.
PairAt(b, i) == i + 1 <= Len(b) /\ b[i] = LF /\ b[i + 1] = LF

LEMMA FirstPlace ==
    ASSUME NEW pattern, NEW b \in Seq(Int), NEW p \in 1 .. Len(b),
           Occurs(pattern, b, p), \A i \in 1 .. p - 1 : ~Occurs(pattern, b, i)
    PROVE  Position(pattern, b) = p
<1> DEFINE places == {i \in 1 .. Len(b) : Occurs(pattern, b, i)}
<1>1. p \in places /\ places # {} /\ \A j \in places : p <= j
  OBVIOUS
<1>2. \A i \in places : (\A j \in places : i <= j) => i = p
  BY <1>1
<1>3. Position(pattern, b) = CHOOSE i \in places : \A j \in places : i <= j
  BY <1>1 DEF Position
<1> HIDE DEF places
<1> QED
  BY <1>1, <1>2, <1>3

LEMMA NoPlace ==
    ASSUME NEW pattern, NEW b, \A i \in 1 .. Len(b) : ~Occurs(pattern, b, i)
    PROVE  Position(pattern, b) = 0
BY DEF Position

LEMMA LfSeparator ==
    ASSUME NEW b \in Seq(Int), NEW p \in 1 .. Len(b), PairAt(b, p),
           \A i \in 1 .. p - 1 : ~PairAt(b, i)
    PROVE  Separator(b) = [at |-> p, width |-> 2]
<1>1. Occurs(<<LF, LF>>, b, p) /\ \A i \in 1 .. p - 1 : ~Occurs(<<LF, LF>>, b, i)
  <2>1. \A i \in 1 .. p - 1 : i \in 1 .. Len(b)
    OBVIOUS
  <2> QED
    BY <2>1, Pairs DEF PairAt
<1>2. Position(<<LF, LF>>, b) = p
  BY <1>1, FirstPlace
<1> QED
  BY <1>2 DEF Separator

LEMMA CrlfSeparator ==
    ASSUME NEW b \in Seq(Int), NEW p \in 1 .. Len(b), BlankAt(b, p),
           \A i \in 1 .. p - 1 : ~BlankAt(b, i),
           \A i \in 1 .. Len(b) : ~PairAt(b, i)
    PROVE  Separator(b) = [at |-> p, width |-> 4]
<1>1. Position(<<LF, LF>>, b) = 0
  BY Pairs, NoPlace DEF PairAt
<1>2. /\ Occurs(<<CR, LF, CR, LF>>, b, p)
      /\ \A i \in 1 .. p - 1 : ~Occurs(<<CR, LF, CR, LF>>, b, i)
  <2>1. \A i \in 1 .. p - 1 : i \in 1 .. Len(b)
    OBVIOUS
  <2> QED
    BY <2>1, Fours
<1>3. Position(<<CR, LF, CR, LF>>, b) = p
  BY <1>2, FirstPlace
<1> QED
  BY <1>1, <1>3 DEF Separator

LEMMA NoSeparator ==
    ASSUME NEW b \in Seq(Int), \A i \in 1 .. Len(b) : ~BlankAt(b, i) /\ ~PairAt(b, i)
    PROVE  Separator(b).at = 0
<1>1. Position(<<LF, LF>>, b) = 0
  BY Pairs, NoPlace DEF PairAt
<1>2. Position(<<CR, LF, CR, LF>>, b) = 0
  BY Fours, NoPlace
<1> QED
  BY <1>1, <1>2 DEF Separator

\* The first bytes of f.
Opening(f, size, b) == b \in Seq(Int) /\ Len(b) = size /\ \A i \in 1 .. size : b[i] = f[i]

Blank(eol) == IF eol = "lf" THEN 2 ELSE 4

\* What all frames have in common: the blank line is their end, and only there.
Framed(f, eol, width, n) ==
    /\ f \in Seq(Int) /\ Len(f) = width /\ width \in Nat /\ width > Blank(eol)
    /\ f[1] # LF
    /\ eol = "lf" => PairAt(f, width - 1)
    /\ eol = "crlf" => BlankAt(f, width - 3) /\ \A i \in 1 .. width : ~PairAt(f, i)
    /\ \A i \in 1 .. width - Blank(eol) : ~PairAt(f, i) /\ ~BlankAt(f, i)
    /\ ParseFrame(SubSeq(f, 1, width - Blank(eol))) = n

\* A piece of a frame is cut nowhere.
LEMMA NotYet ==
    ASSUME NEW f, NEW eol \in {"lf", "crlf"}, NEW width, NEW n, Framed(f, eol, width, n),
           NEW size \in Nat, size < width, NEW b, Opening(f, size, b)
    PROVE  Separator(b).at = 0
<1>1. b \in Seq(Int) /\ Len(b) = size /\ \A i \in 1 .. size : b[i] = f[i]
  BY DEF Opening
<1>2. f \in Seq(Int) /\ Len(f) = width /\ width \in Nat
  BY DEF Framed
<1>3. ASSUME NEW i \in 1 .. size PROVE ~BlankAt(b, i) /\ ~PairAt(b, i)
  <2>1. BlankAt(b, i) => BlankAt(f, i) /\ i + 3 < width
    BY <1>1, <1>2 DEF BlankAt
  <2>2. PairAt(b, i) => PairAt(f, i) /\ i + 1 < width
    BY <1>1, <1>2 DEF PairAt
  <2>3. CASE eol = "lf"
    <3>1. i + 1 < width => i \in 1 .. width - 2
      BY <1>2
    <3>2. i + 3 < width => i \in 1 .. width - 2
      BY <1>2
    <3>3. \A k \in 1 .. width - 2 : ~PairAt(f, k) /\ ~BlankAt(f, k)
      BY <2>3 DEF Framed, Blank
    <3> QED
      BY <2>1, <2>2, <3>1, <3>2, <3>3
  <2>4. CASE eol = "crlf"
    <3>1. i + 3 < width => i \in 1 .. width - 4
      BY <1>2
    <3>2. i \in 1 .. width
      BY <1>2
    <3>3. \A k \in 1 .. width - 4 : ~BlankAt(f, k)
      BY <2>4 DEF Framed, Blank
    <3>4. \A k \in 1 .. width : ~PairAt(f, k)
      BY <2>4 DEF Framed, Blank
    <3> QED
      BY <2>1, <2>2, <3>1, <3>2, <3>3, <3>4
  <2> QED
    BY <2>3, <2>4
<1> QED
  BY <1>1, <1>3, NoSeparator

LEMMA JoinedBytes ==
    ASSUME NEW f \in Seq(Int), NEW b \in Seq(Int)
    PROVE  /\ f \o b \in Seq(Int) /\ Len(f \o b) = Len(f) + Len(b)
           /\ \A i \in 1 .. Len(f) : (f \o b)[i] = f[i]
           /\ \A i \in 1 .. Len(b) : (f \o b)[Len(f) + i] = b[i]
OBVIOUS

\* The bytes of f, width of them, and then those of b.
Joins(c, f, width, b, size) ==
    /\ c \in Seq(Int) /\ Len(c) = width + size
    /\ \A i \in 1 .. width : c[i] = f[i]
    /\ \A i \in 1 .. size : c[width + i] = b[i]

\* What has arrived is a frame that says n, and b of the next.
Arrives(c, f, n, b, eol, width, size) ==
    /\ eol \in {"lf", "crlf"} /\ width \in Nat /\ size \in 0 .. width
    /\ Framed(f, eol, width, n)
    /\ \E g, m : Framed(g, eol, width, m) /\ Opening(g, size, b)
    /\ Joins(c, f, width, b, size)

\* The first frame is cut at its blank line, whatever has arrived of the next one.
LEMMA CutAtBlank ==
    ASSUME NEW c, NEW f, NEW n, NEW b, NEW eol, NEW width, NEW size,
           Arrives(c, f, n, b, eol, width, size)
    PROVE  Separator(c) = [at |-> width - Blank(eol) + 1, width |-> Blank(eol)]
<1>0. /\ eol \in {"lf", "crlf"} /\ width \in Nat /\ size \in Nat /\ size <= width
      /\ Framed(f, eol, width, n) /\ Joins(c, f, width, b, size)
  BY DEF Arrives
<1>g. PICK g, m : Framed(g, eol, width, m) /\ Opening(g, size, b)
  BY DEF Arrives
<1>1. b \in Seq(Int) /\ Len(b) = size /\ \A i \in 1 .. size : b[i] = g[i]
  BY <1>g DEF Opening
<1>2. /\ f \in Seq(Int) /\ Len(f) = width /\ width \in Nat
      /\ g \in Seq(Int) /\ Len(g) = width /\ g[1] # LF
      /\ width > Blank(eol)
  BY <1>0, <1>g DEF Framed, Blank
<1>3. /\ c \in Seq(Int) /\ Len(c) = width + size
      /\ \A i \in 1 .. width : c[i] = f[i]
      /\ \A i \in 1 .. size : c[width + i] = b[i]
  BY <1>0 DEF Joins
<1>n. width \in Nat /\ size \in Nat /\ Len(c) = width + size /\ width > Blank(eol)
  BY <1>0, <1>2, <1>3
<1>4. CASE eol = "lf"
  <2>1. PairAt(f, width - 1) /\ \A i \in 1 .. width - 2 : ~PairAt(f, i)
    BY <1>0, <1>4 DEF Framed, Blank
  <2>a. width > 2
    BY ONLY <1>n, <1>4 DEF Blank
  <2>2. width - 1 \in 1 .. Len(c) /\ width - 1 \in 1 .. width /\ (width - 1) + 1 \in 1 .. width
        /\ (width - 1) + 1 <= Len(c)
    BY ONLY <1>n, <2>a
  <2>3. PairAt(c, width - 1)
    BY <1>3, <2>1, <2>2 DEF PairAt
  <2>4. ASSUME NEW i \in 1 .. (width - 1) - 1 PROVE ~PairAt(c, i)
    <3>1. i \in 1 .. width - 2
      BY <1>2
    <3>2. i \in 1 .. width /\ i + 1 \in 1 .. width
      BY ONLY <1>n, <3>1
    <3>3. c[i] = f[i] /\ c[i + 1] = f[i + 1] /\ i + 1 <= Len(f)
      <4>1. i + 1 <= Len(f)
        BY <1>2, <3>2
      <4> QED
        BY ONLY <1>3, <3>2, <4>1
    <3>4. PairAt(c, i) => PairAt(f, i)
      BY ONLY <3>3 DEF PairAt
    <3> QED
      BY <2>1, <3>1, <3>4
  <2>5. Separator(c) = [at |-> width - 1, width |-> 2]
    BY <1>3, <2>2, <2>3, <2>4, LfSeparator
  <2>6. width - 2 + 1 = width - 1
    BY <1>2
  <2> QED
    BY <1>4, <2>5, <2>6 DEF Blank
<1>5. CASE eol = "crlf"
  <2>1. /\ BlankAt(f, width - 3) /\ \A i \in 1 .. width - 4 : ~BlankAt(f, i)
        /\ \A i \in 1 .. width : ~PairAt(f, i)
    BY <1>0, <1>5 DEF Framed, Blank
  <2>a. width > 4
    BY ONLY <1>n, <1>5 DEF Blank
  <2>2. /\ width - 3 \in 1 .. Len(c) /\ (width - 3) + 3 <= Len(c)
        /\ width - 3 \in 1 .. width /\ (width - 3) + 1 \in 1 .. width
        /\ (width - 3) + 2 \in 1 .. width /\ (width - 3) + 3 \in 1 .. width
    BY ONLY <1>n, <2>a
  <2>3. BlankAt(c, width - 3)
    BY <1>3, <2>1, <2>2 DEF BlankAt
  <2>4. ASSUME NEW i \in 1 .. (width - 3) - 1 PROVE ~BlankAt(c, i)
    <3>1. i \in 1 .. width - 4
      BY <1>2
    <3>2. /\ i \in 1 .. width /\ i + 1 \in 1 .. width /\ i + 2 \in 1 .. width
          /\ i + 3 \in 1 .. width /\ i + 3 <= width
      BY ONLY <1>n, <3>1
    <3>3. /\ c[i] = f[i] /\ c[i + 1] = f[i + 1] /\ c[i + 2] = f[i + 2] /\ c[i + 3] = f[i + 3]
          /\ i + 3 <= Len(f)
      BY <1>2, <1>3, <3>2
    <3>4. BlankAt(c, i) => BlankAt(f, i)
      BY ONLY <3>3 DEF BlankAt
    <3> QED
      BY <2>1, <3>1, <3>4
  <2>5. ASSUME NEW i \in 1 .. Len(c), PairAt(c, i) PROVE FALSE
    <3>1. CASE i < width
      <4>1. PairAt(f, i) /\ i \in 1 .. width
        BY <1>2, <1>3, <2>5, <3>1 DEF PairAt
      <4> QED
        BY <2>1, <4>1
    <3>2. CASE i = width
      <4>1. c[width + 1] = LF /\ 1 \in 1 .. size
        BY <1>1, <1>2, <1>3, <2>5, <3>2 DEF PairAt
      <4> QED
        BY <1>1, <1>2, <1>3, <4>1
    <3>3. CASE i > width
      <4> DEFINE k == i - width
      <4>1. k \in 1 .. size /\ k + 1 \in 1 .. size /\ i = width + k /\ i + 1 = width + (k + 1)
        BY <1>1, <1>2, <1>3, <2>5, <3>3, SMTT(30) DEF PairAt
      <4> HIDE DEF k
      <4>2. g[k] = LF /\ g[k + 1] = LF
        BY <1>1, <1>3, <2>5, <4>1 DEF PairAt
      <4>3. PairAt(g, k) /\ k \in 1 .. width
        BY <1>0, <1>2, <4>1, <4>2 DEF PairAt
      <4>4. \A j \in 1 .. width : ~PairAt(g, j)
        BY <1>g, <1>5 DEF Framed, Blank
      <4> QED
        BY <4>3, <4>4
    <3> QED
      BY <1>2, <1>3, <3>1, <3>2, <3>3
  <2>6. Separator(c) = [at |-> width - 3, width |-> 4]
    BY <1>3, <2>2, <2>3, <2>4, <2>5, CrlfSeparator
  <2>7. width - 4 + 1 = width - 3
    BY <1>2
  <2> QED
    BY <1>5, <2>6, <2>7 DEF Blank
<1> QED
  BY <1>0, <1>4, <1>5

-----------------------------------------------------------------------------
(* The frames of a buffer are well defined: each cut shortens it.          *)

LEMMA PlaceType ==
    ASSUME NEW pattern, NEW b \in Seq(Int)
    PROVE  \/ Position(pattern, b) = 0
           \/ Position(pattern, b) \in 1 .. Len(b) /\ Occurs(pattern, b, Position(pattern, b))
<1> DEFINE places == {i \in 1 .. Len(b) : Occurs(pattern, b, i)}
<1>1. CASE places = {}
  BY <1>1 DEF Position
<1>2. CASE places # {}
  <2>1. places \subseteq Nat
    OBVIOUS
  <2> HIDE DEF places
  <2>2. \E i \in places : \A j \in places : i <= j
    BY <1>2, <2>1, LeastNumber
  <2>3. Position(pattern, b) = CHOOSE i \in places : \A j \in places : i <= j
    BY <1>2 DEF Position, places
  <2>4. Position(pattern, b) \in places
    BY <2>2, <2>3
  <2> QED
    BY <2>4 DEF places
<1> QED
  BY <1>1, <1>2

LEMMA SeparatorType ==
    ASSUME NEW b \in Seq(Int), Separator(b).at # 0
    PROVE  /\ Separator(b).at \in 1 .. Len(b) /\ Separator(b).width \in {2, 4}
           /\ Separator(b).at + Separator(b).width <= Len(b) + 1
<1>1. CASE Position(<<LF, LF>>, b) # 0
  <2> DEFINE p == Position(<<LF, LF>>, b)
  <2>1. p \in 1 .. Len(b) /\ Occurs(<<LF, LF>>, b, p)
    BY <1>1, PlaceType
  <2>2. Separator(b) = [at |-> p, width |-> 2]
    BY <1>1 DEF Separator
  <2> HIDE DEF p
  <2>3. p + 1 <= Len(b)
    BY <2>1, Pairs
  <2> QED
    BY <2>1, <2>2, <2>3
<1>2. CASE Position(<<LF, LF>>, b) = 0
  <2> DEFINE p == Position(<<CR, LF, CR, LF>>, b)
  <2>1. Separator(b) = [at |-> p, width |-> 4]
    BY <1>2 DEF Separator
  <2>2. p # 0
    BY <2>1
  <2>3. p \in 1 .. Len(b) /\ Occurs(<<CR, LF, CR, LF>>, b, p)
    BY <2>2, PlaceType
  <2> HIDE DEF p
  <2>4. p + 3 <= Len(b)
    BY <2>3, Fours DEF BlankAt
  <2> QED
    BY <2>1, <2>3, <2>4
<1> QED
  BY <1>1, <1>2

Later(b) == SubSeq(b, Separator(b).at + Separator(b).width, Len(b))
First(b) == ParseFrame(SubSeq(b, 1, Separator(b).at - 1))

\* What Cut says of b, with g for what is left after the first frame.
CutOf(g, b) ==
    IF Separator(b).at = 0 THEN [frames |-> <<>>, rest |-> b]
    ELSE [frames |-> <<First(b)>> \o g[Later(b)].frames, rest |-> g[Later(b)].rest]

Solves(g, n) == \A b \in Seq(Int) : Len(b) <= n => g[b] = CutOf(g, b)

LEMMA LaterIsShorter ==
    ASSUME NEW b \in Seq(Int), Separator(b).at # 0
    PROVE  Later(b) \in Seq(Int) /\ Len(Later(b)) \in Nat /\ Len(Later(b)) < Len(b)
<1> DEFINE i == Separator(b).at + Separator(b).width
<1>1. i \in Nat /\ i >= 2 /\ i <= Len(b) + 1 /\ Len(b) \in Nat
  BY SeparatorType, SMTT(30)
<1>2. Later(b) = SubSeq(b, i, Len(b))
  BY DEF Later
<1> HIDE DEF i
<1>3. Later(b) \in Seq(Int) /\ Len(Later(b)) = Len(b) - i + 1
  BY <1>1, <1>2, Sliced, SMTT(30)
<1> QED
  BY <1>1, <1>3

LEMMA OneCut ==
    ASSUME NEW g, NEW h, NEW n \in Nat, NEW m \in Nat, Solves(g, n), Solves(h, m)
    PROVE  \A b \in Seq(Int) : Len(b) <= n /\ Len(b) <= m => g[b] = h[b]
<1> DEFINE Bad == {k \in Nat : \E b \in Seq(Int) : Len(b) = k /\ k <= n /\ k <= m /\ g[b] # h[b]}
<1>1. Bad = {}
  <2> SUFFICES ASSUME Bad # {} PROVE FALSE
    OBVIOUS
  <2>1. Bad \subseteq Nat
    OBVIOUS
  <2>2. PICK k \in Bad : \A l \in Bad : k <= l
    <3> HIDE DEF Bad
    <3> QED
      BY <2>1, LeastNumber
  <2>3. PICK b \in Seq(Int) : Len(b) = k /\ k <= n /\ k <= m /\ g[b] # h[b]
    BY <2>2
  <2>4. g[b] = CutOf(g, b) /\ h[b] = CutOf(h, b)
    BY <2>3 DEF Solves
  <2>5. Separator(b).at # 0
    BY <2>3, <2>4 DEF CutOf
  <2>6. Later(b) \in Seq(Int) /\ Len(Later(b)) \in Nat /\ Len(Later(b)) < k
    BY <2>3, <2>5, LaterIsShorter
  <2>7. Len(Later(b)) \notin Bad
    BY <2>1, <2>2, <2>6
  <2>8. g[Later(b)] = h[Later(b)]
    <3>1. k \in Nat
      BY <2>1
    <3> DEFINE l == Len(Later(b))
    <3>2. l \in Nat /\ l <= n /\ l <= m /\ l \notin Bad
      BY <2>3, <2>6, <2>7, <3>1
    <3>3. \A c \in Seq(Int) : Len(c) = l => g[c] = h[c]
      <4> HIDE DEF l
      <4> QED
        BY <3>2
    <3> QED
      BY <2>6, <3>3
  <2> QED
    BY <2>3, <2>4, <2>8 DEF CutOf
<1> QED
  BY <1>1

LEMMA SomeCut == ASSUME NEW n \in Nat PROVE \E g : Solves(g, n)
<1> DEFINE Bad == {m \in Nat : ~\E g : Solves(g, m)}
<1>1. 0 \notin Bad
  <2> DEFINE g == [b \in Seq(Int) |-> [frames |-> <<>>, rest |-> b]]
  <2>1. ASSUME NEW b \in Seq(Int), Len(b) <= 0 PROVE g[b] = CutOf(g, b)
    <3>1. Separator(b).at = 0
      BY <2>1, SeparatorType
    <3> QED
      BY <3>1 DEF CutOf
  <2> HIDE DEF g
  <2>2. Solves(g, 0)
    BY <2>1 DEF Solves
  <2> QED
    BY <2>2
<1>2. ASSUME NEW m \in Nat, m \notin Bad PROVE m + 1 \notin Bad
  <2>1. PICK f : Solves(f, m)
    BY <1>2
  <2> DEFINE g == [b \in Seq(Int) |-> IF Len(b) <= m THEN f[b] ELSE CutOf(f, b)]
  <2>2. ASSUME NEW b \in Seq(Int), Len(b) <= m + 1 PROVE g[b] = CutOf(g, b)
    <3>1. g[b] = CutOf(f, b)
      <4>1. Len(b) <= m => f[b] = CutOf(f, b)
        BY <2>1 DEF Solves
      <4>2. g[b] = IF Len(b) <= m THEN f[b] ELSE CutOf(f, b)
        OBVIOUS
      <4> HIDE DEF g
      <4> QED
        BY <4>1, <4>2
    <3>2. Separator(b).at # 0 => g[Later(b)] = f[Later(b)]
      <4> SUFFICES ASSUME Separator(b).at # 0 PROVE g[Later(b)] = f[Later(b)]
        OBVIOUS
      <4>1. Later(b) \in Seq(Int) /\ Len(Later(b)) \in Nat /\ Len(Later(b)) < Len(b)
        BY LaterIsShorter
      <4>2. Len(Later(b)) <= m
        BY <2>2, <4>1
      <4> QED
        BY <4>1, <4>2
    <3> HIDE DEF g
    <3> QED
      BY <3>1, <3>2 DEF CutOf
  <2> HIDE DEF g
  <2>3. Solves(g, m + 1)
    BY <2>2 DEF Solves
  <2> QED
    BY <2>3
<1>3. n \notin Bad
  <2> SUFFICES ASSUME Bad # {} PROVE FALSE
    OBVIOUS
  <2>1. Bad \subseteq Nat
    OBVIOUS
  <2> HIDE DEF Bad
  <2>2. PICK m \in Bad : \A l \in Bad : m <= l
    BY <2>1, LeastNumber
  <2>3. m # 0 /\ m \in Nat /\ m - 1 \in Nat /\ (m - 1) + 1 = m /\ ~(m <= m - 1)
    BY <1>1, <2>1, <2>2
  <2> QED
    BY <1>2, <2>2, <2>3
<1> QED
  BY <1>3

LEMMA CutUnfold == \A b \in Seq(Int) : Cut[b] = CutOf(Cut, b)
<1> DEFINE G(n) == CHOOSE g : Solves(g, n)
           F == [b \in Seq(Int) |-> G(Len(b))[b]]
<1>1. \A n \in Nat : Solves(G(n), n)
  BY SomeCut
<1>2. ASSUME NEW b \in Seq(Int) PROVE F[b] = CutOf(F, b)
  <2> DEFINE g == G(Len(b))
  <2>1. Len(b) \in Nat /\ Solves(g, Len(b)) /\ F[b] = g[b]
    BY <1>1
  <2>2. g[b] = CutOf(g, b)
    BY <2>1 DEF Solves
  <2>3. Separator(b).at # 0 => F[Later(b)] = g[Later(b)]
    <3> SUFFICES ASSUME Separator(b).at # 0 PROVE F[Later(b)] = g[Later(b)]
      OBVIOUS
    <3>1. Later(b) \in Seq(Int) /\ Len(Later(b)) \in Nat /\ Len(Later(b)) < Len(b)
      BY LaterIsShorter
    <3> DEFINE h == G(Len(Later(b)))
    <3>2. Solves(h, Len(Later(b))) /\ F[Later(b)] = h[Later(b)]
      BY <1>1, <3>1
    <3> HIDE DEF g, h, F
    <3>3. h[Later(b)] = g[Later(b)]
      BY <2>1, <3>1, <3>2, OneCut
    <3> QED
      BY <3>2, <3>3
  <2> HIDE DEF F, g
  <2> QED
    BY <2>1, <2>2, <2>3 DEF CutOf
<1>3. F = [b \in Seq(Int) |-> CutOf(F, b)]
  <2>1. F = [b \in Seq(Int) |-> F[b]]
    OBVIOUS
  <2> HIDE DEF F
  <2> QED
    BY <1>2, <2>1
<1> HIDE DEF F
<1>4. Cut = CHOOSE f : f = [b \in Seq(Int) |-> CutOf(f, b)]
  BY DEF Cut, CutOf, Later, First
<1>5. Cut = [b \in Seq(Int) |-> CutOf(Cut, b)]
  BY <1>3, <1>4
<1> QED
  BY <1>5

\* Less than a frame has arrived: nothing is cut off.
LEMMA CutNone ==
    ASSUME NEW f, NEW eol \in {"lf", "crlf"}, NEW width, NEW n, Framed(f, eol, width, n),
           NEW size \in Nat, size < width, NEW b, Opening(f, size, b)
    PROVE  Cut[b].frames = <<>> /\ Cut[b].rest = b
<1>1. b \in Seq(Int)
  BY DEF Opening
<1>2. Separator(b).at = 0
  BY NotYet
<1>3. Cut[b] = CutOf(Cut, b)
  BY <1>1, CutUnfold
<1>4. Cut[b] = [frames |-> <<>>, rest |-> b]
  BY <1>2, <1>3 DEF CutOf
<1> QED
  BY <1>4

\* A frame has arrived: it is cut off, and what follows is cut in its turn.
LEMMA CutOne ==
    ASSUME NEW c, NEW f, NEW n, NEW b, NEW eol, NEW width, NEW size,
           Arrives(c, f, n, b, eol, width, size)
    PROVE  Cut[c].frames = <<n>> \o Cut[b].frames /\ Cut[c].rest = Cut[b].rest
<1> DEFINE at == width - Blank(eol) + 1
<1>0. /\ eol \in {"lf", "crlf"} /\ width \in Nat /\ size \in Nat /\ size <= width
      /\ Framed(f, eol, width, n) /\ Joins(c, f, width, b, size)
      /\ \E g : Opening(g, size, b)
  BY DEF Arrives
<1>1. /\ f \in Seq(Int) /\ Len(f) = width /\ width \in Nat /\ width > Blank(eol)
      /\ ParseFrame(SubSeq(f, 1, width - Blank(eol))) = n
  BY <1>0 DEF Framed, Blank
<1>2. b \in Seq(Int) /\ Len(b) = size
  BY <1>0 DEF Opening
<1>3. Separator(c) = [at |-> at, width |-> Blank(eol)]
  BY CutAtBlank
<1>4. /\ c \in Seq(Int) /\ Len(c) = width + size
      /\ \A i \in 1 .. width : c[i] = f[i]
      /\ \A i \in 1 .. size : c[width + i] = b[i]
  BY <1>0 DEF Joins
<1>5. Blank(eol) \in {2, 4}
  BY <1>0 DEF Blank
<1>6. /\ at \in Nat /\ at # 0 /\ at + Blank(eol) = width + 1 /\ at - 1 = width - Blank(eol)
      /\ at - 1 \in Nat
  <2>1. width \in Nat /\ width > Blank(eol)
    BY <1>0, <1>1
  <2> QED
    BY ONLY <1>5, <2>1
<1>7. Separator(c).at = at /\ Separator(c).width = Blank(eol)
  BY <1>3
<1> HIDE DEF at
<1>8. Later(c) = b
  <2>1. Later(c) = SubSeq(c, width + 1, width + size)
    BY <1>4, <1>6, <1>7 DEF Later
  <2> DEFINE d == SubSeq(c, width + 1, width + size)
  <2>2. /\ width + 1 \in Nat /\ width + size \in Nat /\ 1 <= width + 1
        /\ width + 1 <= (width + size) + 1 /\ width + size <= Len(c)
        /\ (width + size) - (width + 1) + 1 = size
    BY <1>0, <1>1, <1>4
  <2>3. /\ d \in Seq(Int) /\ Len(d) = size
        /\ \A k \in 1 .. size : d[k] = c[width + 1 + k - 1]
    BY <1>4, <2>2, Sliced, SMTT(30)
  <2>4. \A k \in 1 .. size : width + 1 + k - 1 = width + k
    BY <1>0, <1>1
  <2>5. \A k \in 1 .. size : d[k] = b[k]
    BY <1>4, <2>3, <2>4
  <2> HIDE DEF d
  <2>6. d = b
    BY <1>2, <2>3, <2>5, SameBytes
  <2> QED
    BY <2>1, <2>6 DEF d
<1>9. First(c) = n
  <2>1. First(c) = ParseFrame(SubSeq(c, 1, width - Blank(eol)))
    BY <1>6, <1>7 DEF First
  <2> DEFINE j == width - Blank(eol)
             d == SubSeq(c, 1, j)
             e == SubSeq(f, 1, j)
  <2>2. /\ j \in Nat /\ 1 <= j + 1 /\ j <= Len(c) /\ j <= Len(f) /\ j - 1 + 1 = j /\ j <= width
    <3>1. /\ width \in Nat /\ size \in Nat /\ width > Blank(eol) /\ Len(f) = width
          /\ Len(c) = width + size
      BY <1>0, <1>1, <1>4
    <3> QED
      BY ONLY <1>5, <3>1
  <2> HIDE DEF j
  <2>3. d \in Seq(Int) /\ Len(d) = j /\ \A k \in 1 .. j : d[k] = c[1 + k - 1]
    BY <1>4, <2>2, Sliced
  <2>4. e \in Seq(Int) /\ Len(e) = j /\ \A k \in 1 .. j : e[k] = f[1 + k - 1]
    BY <1>1, <2>2, Sliced
  <2>5. \A k \in 1 .. j : k \in 1 .. width /\ 1 + k - 1 = k
    BY <1>1, <2>2
  <2>6. \A k \in 1 .. j : d[k] = e[k]
    BY <1>4, <2>3, <2>4, <2>5
  <2> HIDE DEF d, e
  <2>7. d = e
    BY <2>3, <2>4, <2>6, SameBytes
  <2> QED
    BY <1>1, <2>1, <2>7 DEF d, e, j
<1>10. Cut[c] = CutOf(Cut, c)
  BY <1>4, CutUnfold
<1> QED
  BY <1>6, <1>7, <1>8, <1>9, <1>10 DEF CutOf

-----------------------------------------------------------------------------
(* The frames a server writes.                                             *)

WidthOf(eol, named) ==
    IF eol = "lf" THEN (IF named THEN 6 ELSE 4) ELSE (IF named THEN 9 ELSE 6)

LEMMA Bytes4 ==
    ASSUME NEW n \in Nat
    PROVE  LET f == Written(n, "lf", FALSE)
           IN  f \in Seq(Int) /\ Len(f) = 4 /\ f[1] = n /\ f[2] = TAIL /\ f[3] = LF /\ f[4] = LF
BY DEF Written, Newline, TAIL, LF

LEMMA Bytes6 ==
    ASSUME NEW n \in Nat
    PROVE  LET f == Written(n, "lf", TRUE)
           IN  /\ f \in Seq(Int) /\ Len(f) = 6
               /\ f[1] = EVENT /\ f[2] = LF /\ f[3] = n /\ f[4] = TAIL /\ f[5] = LF /\ f[6] = LF
BY DEF Written, Newline, TAIL, LF, EVENT

LEMMA Bytes6Crlf ==
    ASSUME NEW n \in Nat
    PROVE  LET f == Written(n, "crlf", FALSE)
           IN  /\ f \in Seq(Int) /\ Len(f) = 6
               /\ f[1] = n /\ f[2] = TAIL /\ f[3] = CR /\ f[4] = LF /\ f[5] = CR /\ f[6] = LF
BY DEF Written, Newline, TAIL, LF, CR

LEMMA Bytes9 ==
    ASSUME NEW n \in Nat
    PROVE  LET f == Written(n, "crlf", TRUE)
           IN  /\ f \in Seq(Int) /\ Len(f) = 9
               /\ f[1] = EVENT /\ f[2] = CR /\ f[3] = LF /\ f[4] = n /\ f[5] = TAIL
               /\ f[6] = CR /\ f[7] = LF /\ f[8] = CR /\ f[9] = LF
BY DEF Written, Newline, TAIL, LF, CR, EVENT

\* What parse_frame makes of the lines of a frame: the data between other lines.
LEMMA Parsed ==
    ASSUME NEW d \in Seq(Int), NEW i \in 1 .. Len(d), i + 1 <= Len(d), d[i] > 0, d[i + 1] = TAIL,
           \A k \in 1 .. Len(d) : k = i \/ k = i + 1 \/ ~(d[k] > 0 \/ d[k] = TAIL)
    PROVE  ParseFrame(d) = d[i]
<1> DEFINE data == {k \in DOMAIN d : d[k] > 0 \/ d[k] = TAIL}
<1>1. data = {i, i + 1}
  BY SMTT(30)
<1>2. WholeAt(i, d, data)
  <2>1. i + 1 \in data /\ i < i + 1
    BY <1>1
  <2> HIDE DEF data
  <2> QED
    BY <1>1, <2>1 DEF WholeAt
<1>3. \A k \in data : WholeAt(k, d, data) => k = i
  <2>1. ~(d[i + 1] > 0)
    BY DEF TAIL
  <2> HIDE DEF data
  <2> QED
    BY <1>1, <2>1 DEF WholeAt
<1>4. i \in data /\ data # {}
  BY <1>1
<1>5. ParseFrame(d) = d[CHOOSE k \in data : WholeAt(k, d, data)]
  BY <1>2, <1>4 DEF ParseFrame
<1> HIDE DEF data
<1>6. (CHOOSE k \in data : WholeAt(k, d, data)) = i
  BY <1>2, <1>3, <1>4
<1> QED
  BY <1>5, <1>6

\* The lines of a frame without its blank line.
LEMMA FrameSays ==
    ASSUME NEW f \in Seq(Int), NEW j \in Nat, j <= Len(f), NEW i \in 1 .. j, i + 1 <= j,
           f[i] > 0, f[i + 1] = TAIL,
           \A k \in 1 .. j : k = i \/ k = i + 1 \/ ~(f[k] > 0 \/ f[k] = TAIL)
    PROVE  ParseFrame(SubSeq(f, 1, j)) = f[i]
<1> DEFINE d == SubSeq(f, 1, j)
<1>1. d \in Seq(Int) /\ Len(d) = j /\ \A k \in 1 .. j : d[k] = f[1 + k - 1]
  <2>1. 1 <= j + 1 /\ j - 1 + 1 = j
    OBVIOUS
  <2> QED
    BY <2>1, Sliced
<1>2. \A k \in 1 .. j : 1 + k - 1 = k
  OBVIOUS
<1>3. \A k \in 1 .. j : d[k] = f[k]
  BY <1>1, <1>2
<1>4. i + 1 \in 1 .. j
  OBVIOUS
<1> HIDE DEF d
<1>5. /\ i \in 1 .. Len(d) /\ i + 1 <= Len(d) /\ d[i] > 0 /\ d[i + 1] = TAIL
      /\ \A k \in 1 .. Len(d) : k = i \/ k = i + 1 \/ ~(d[k] > 0 \/ d[k] = TAIL)
  BY <1>1, <1>3, <1>4
<1>6. ParseFrame(d) = d[i]
  BY <1>1, <1>5, Parsed
<1> QED
  BY <1>3, <1>6 DEF d

LEMMA Framed4 ==
    ASSUME NEW n \in Nat, n > 0 PROVE Framed(Written(n, "lf", FALSE), "lf", 4, n)
<1> DEFINE f == Written(n, "lf", FALSE)
<1>1. f \in Seq(Int) /\ Len(f) = 4 /\ f[1] = n /\ f[2] = TAIL /\ f[3] = LF /\ f[4] = LF
  BY Bytes4
<1> HIDE DEF f
<1>2. \A i \in 1 .. 2 : i = 1 \/ i = 2
  OBVIOUS
<1> DEFINE j == 4 - Blank("lf")
<1>0. j = 2
  BY DEF Blank
<1> HIDE DEF j
<1>3. ParseFrame(SubSeq(f, 1, j)) = n
  BY <1>0, <1>1, <1>2, FrameSays, SMTT(30)
<1>4. \A i \in 1 .. 2 : ~PairAt(f, i) /\ ~BlankAt(f, i)
  BY <1>1, <1>2 DEF PairAt, BlankAt, LF, CR, TAIL
<1>5. PairAt(f, 4 - 1) /\ f[1] # LF
  BY <1>1 DEF PairAt, LF
<1>7. 4 \in Nat /\ 4 > Blank("lf")
  BY DEF Blank
<1> QED
  BY <1>0, <1>1, <1>3, <1>4, <1>5, <1>7 DEF Framed, f, j

LEMMA Framed6 ==
    ASSUME NEW n \in Nat, n > 0 PROVE Framed(Written(n, "lf", TRUE), "lf", 6, n)
<1> DEFINE f == Written(n, "lf", TRUE)
<1>1. /\ f \in Seq(Int) /\ Len(f) = 6
      /\ f[1] = EVENT /\ f[2] = LF /\ f[3] = n /\ f[4] = TAIL /\ f[5] = LF /\ f[6] = LF
  BY Bytes6
<1> HIDE DEF f
<1>2. \A i \in 1 .. 4 : i = 1 \/ i = 2 \/ i = 3 \/ i = 4
  OBVIOUS
<1> DEFINE j == 6 - Blank("lf")
<1>0. j = 4
  BY DEF Blank
<1> HIDE DEF j
<1>3. ParseFrame(SubSeq(f, 1, j)) = n
  <2>1. \A k \in 1 .. 4 : k = 3 \/ k = 3 + 1 \/ ~(f[k] > 0 \/ f[k] = TAIL)
    BY <1>1, <1>2 DEF EVENT, LF, TAIL
  <2>2. j \in Nat /\ j <= Len(f) /\ 3 \in 1 .. j /\ 3 + 1 <= j /\ f[3] > 0 /\ f[3 + 1] = TAIL
    BY <1>0, <1>1
  <2> QED
    BY <1>0, <1>1, <2>1, <2>2, FrameSays
<1>4. \A i \in 1 .. 4 : ~PairAt(f, i) /\ ~BlankAt(f, i)
  BY <1>1, <1>2 DEF PairAt, BlankAt, LF, CR, TAIL, EVENT
<1>5. PairAt(f, 6 - 1) /\ f[1] # LF
  BY <1>1 DEF PairAt, LF, EVENT
<1>7. 6 \in Nat /\ 6 > Blank("lf")
  BY DEF Blank
<1> QED
  BY <1>0, <1>1, <1>3, <1>4, <1>5, <1>7 DEF Framed, f, j

LEMMA Framed6Crlf ==
    ASSUME NEW n \in Nat, n > 0 PROVE Framed(Written(n, "crlf", FALSE), "crlf", 6, n)
<1> DEFINE f == Written(n, "crlf", FALSE)
<1>1. /\ f \in Seq(Int) /\ Len(f) = 6
      /\ f[1] = n /\ f[2] = TAIL /\ f[3] = CR /\ f[4] = LF /\ f[5] = CR /\ f[6] = LF
  BY Bytes6Crlf
<1> HIDE DEF f
<1>2. \A i \in 1 .. 2 : i = 1 \/ i = 2
  OBVIOUS
<1> DEFINE j == 6 - Blank("crlf")
<1>0. j = 2
  BY DEF Blank
<1> HIDE DEF j
<1>3. ParseFrame(SubSeq(f, 1, j)) = n
  BY <1>0, <1>1, <1>2, FrameSays, SMTT(30)
<1>4. \A i \in 1 .. 2 : ~PairAt(f, i) /\ ~BlankAt(f, i)
  BY <1>1, <1>2 DEF PairAt, BlankAt, LF, CR, TAIL
<1>5. BlankAt(f, 6 - 3) /\ f[1] # LF
  BY <1>1 DEF BlankAt, LF
<1>6. \A i \in 1 .. 6 : ~PairAt(f, i)
  <2>1. \A i \in 1 .. 6 : i = 1 \/ i = 2 \/ i = 3 \/ i = 4 \/ i = 5 \/ i = 6
    OBVIOUS
  <2> QED
    BY <1>1, <2>1 DEF PairAt, LF, CR, TAIL
<1>7. 6 \in Nat /\ 6 > Blank("crlf")
  BY DEF Blank
<1> QED
  BY <1>0, <1>1, <1>3, <1>4, <1>5, <1>6, <1>7 DEF Framed, f, j

LEMMA Framed9 ==
    ASSUME NEW n \in Nat, n > 0 PROVE Framed(Written(n, "crlf", TRUE), "crlf", 9, n)
<1> DEFINE f == Written(n, "crlf", TRUE)
<1>1. /\ f \in Seq(Int) /\ Len(f) = 9
      /\ f[1] = EVENT /\ f[2] = CR /\ f[3] = LF /\ f[4] = n /\ f[5] = TAIL
      /\ f[6] = CR /\ f[7] = LF /\ f[8] = CR /\ f[9] = LF
  BY Bytes9
<1> HIDE DEF f
<1>2. \A i \in 1 .. 5 : i = 1 \/ i = 2 \/ i = 3 \/ i = 4 \/ i = 5
  OBVIOUS
<1> DEFINE j == 9 - Blank("crlf")
<1>0. j = 5
  BY DEF Blank
<1> HIDE DEF j
<1>3. ParseFrame(SubSeq(f, 1, j)) = n
  <2>1. \A k \in 1 .. 5 : k = 4 \/ k = 4 + 1 \/ ~(f[k] > 0 \/ f[k] = TAIL)
    BY <1>1, <1>2 DEF EVENT, LF, TAIL, CR
  <2>2. j \in Nat /\ j <= Len(f) /\ 4 \in 1 .. j /\ 4 + 1 <= j /\ f[4] > 0 /\ f[4 + 1] = TAIL
    BY <1>0, <1>1
  <2> QED
    BY <1>0, <1>1, <2>1, <2>2, FrameSays
<1>4. \A i \in 1 .. 5 : ~PairAt(f, i) /\ ~BlankAt(f, i)
  BY <1>1, <1>2 DEF PairAt, BlankAt, LF, CR, TAIL, EVENT
<1>5. BlankAt(f, 9 - 3) /\ f[1] # LF
  BY <1>1 DEF BlankAt, LF, EVENT
<1>6. \A i \in 1 .. 9 : ~PairAt(f, i)
  <2>1. \A i \in 1 .. 9 : \/ i = 1 \/ i = 2 \/ i = 3 \/ i = 4 \/ i = 5 \/ i = 6
                          \/ i = 7 \/ i = 8 \/ i = 9
    OBVIOUS
  <2> QED
    BY <1>1, <2>1 DEF PairAt, LF, CR, TAIL, EVENT
<1>7. 9 \in Nat /\ 9 > Blank("crlf")
  BY DEF Blank
<1> QED
  BY <1>0, <1>1, <1>3, <1>4, <1>5, <1>6, <1>7 DEF Framed, f, j

LEMMA WrittenFramed ==
    ASSUME NEW n \in Nat, n > 0, NEW e \in {"lf", "crlf"}, NEW named \in BOOLEAN
    PROVE  Framed(Written(n, e, named), e, WidthOf(e, named), n)
BY Framed4, Framed6, Framed6Crlf, Framed9 DEF WidthOf

-----------------------------------------------------------------------------
(* The loops over frames, events and tool call deltas.                     *)

\* One pass of a loop: x is what it holds, e what comes next.
Pass(loop, x, e) ==
    IF loop = "frames" THEN Take(x, e)
    ELSE IF loop = "events" THEN Hears(x, e)
    ELSE ToolDelta(x, e)

\* One unfolding of a loop: a set of positions is done up to its last one.
Iter(loop, at, s, f, S) ==
    [t \in SUBSET S |-> IF t = {} THEN at ELSE Pass(loop, f[t \ {Max(t)}], s[Max(t)])]

Looped(loop, at, s) == (CHOOSE f : f = Iter(loop, at, s, f, DOMAIN s))[DOMAIN s]

LEMMA Loops ==
    ASSUME NEW at, NEW s
    PROVE  /\ TakeAll(at, s) = Looped("frames", at, s)
           /\ ReadAll(at, s) = Looped("events", at, s)
           /\ FoldLeft(ToolDelta, at, s) = Looped("deltas", at, s)
<1>1. TakeAll(at, s) = Looped("frames", at, s)
  BY DEF TakeAll, FoldLeft, MapThenFoldSet, Looped, Iter, Pass
<1>2. ReadAll(at, s) = Looped("events", at, s)
  BY DEF ReadAll, FoldLeft, MapThenFoldSet, Looped, Iter, Pass
<1>3. FoldLeft(ToolDelta, at, s) = Looped("deltas", at, s)
  BY DEF FoldLeft, MapThenFoldSet, Looped, Iter, Pass
<1> QED
  BY <1>1, <1>2, <1>3

LEMMA IterExists ==
    ASSUME NEW loop, NEW at, NEW s, NEW n \in Nat
    PROVE  /\ \E f : f = Iter(loop, at, s, f, 1 .. n)
           /\ \A t \in SUBSET (1 .. n) : t # {} => Max(t) \in t /\ \A i \in t : Max(t) >= i
<1> DEFINE Fine(m) == /\ \E f : f = Iter(loop, at, s, f, 1 .. m)
                      /\ \A t \in SUBSET (1 .. m) : t # {} => Max(t) \in t /\ \A i \in t : Max(t) >= i
           Bad == {m \in Nat : ~Fine(m)}
<1>1. Fine(0)
  <2>1. PICK f : f = [t \in {{}} |-> at]
    OBVIOUS
  <2>2. SUBSET (1 .. 0) = {{}}
    OBVIOUS
  <2>3. Iter(loop, at, s, f, 1 .. 0) = f
    BY <2>1, <2>2 DEF Iter
  <2> QED
    BY <2>2, <2>3
<1>2. ASSUME NEW m \in Nat, Fine(m) PROVE Fine(m + 1)
  <2>1. \A t \in SUBSET (1 .. m + 1) : t # {} => Max(t) \in t /\ \A i \in t : Max(t) >= i
    <3> SUFFICES ASSUME NEW t \in SUBSET (1 .. m + 1), t # {}
                 PROVE  \E x \in t : \A i \in t : x >= i
      BY DEF Max
    <3>1. CASE m + 1 \in t
      BY <3>1
    <3>2. CASE m + 1 \notin t
      <4>1. t \in SUBSET (1 .. m)
        BY <3>2
      <4> QED
        BY <1>2, <4>1
    <3> QED
      BY <3>1, <3>2
  <2>2. PICK f : f = Iter(loop, at, s, f, 1 .. m)
    BY <1>2
  <2> DEFINE g == [t \in SUBSET (1 .. m + 1) |->
                     IF m + 1 \in t THEN Pass(loop, f[t \ {m + 1}], s[m + 1]) ELSE f[t]]
  <2>3. ASSUME NEW t \in SUBSET (1 .. m + 1)
        PROVE  g[t] = IF t = {} THEN at ELSE Pass(loop, g[t \ {Max(t)}], s[Max(t)])
    <3>1. CASE t = {}
      BY <2>2, <3>1 DEF Iter
    <3>2. CASE m + 1 \in t
      <4>1. Max(t) = m + 1
        <5>1. Max(t) \in t /\ \A i \in t : Max(t) >= i
          BY <2>1, <3>2
        <5>2. Max(t) \in 1 .. m + 1 /\ Max(t) >= m + 1
          BY <3>2, <5>1
        <5> QED
          BY <5>2
      <4>2. t \ {m + 1} \in SUBSET (1 .. m)
        OBVIOUS
      <4>3. g[t \ {m + 1}] = f[t \ {m + 1}]
        BY <4>2
      <4> QED
        BY <3>2, <4>1, <4>3
    <3>3. CASE t # {} /\ m + 1 \notin t
      <4>1. t \in SUBSET (1 .. m) /\ t \ {Max(t)} \in SUBSET (1 .. m) /\ m + 1 \notin t \ {Max(t)}
        <5>1. \A i \in t : i \in 1 .. m
          BY <3>3
        <5> QED
          BY <3>3, <5>1
      <4>2. g[t] = f[t] /\ g[t \ {Max(t)}] = f[t \ {Max(t)}]
        BY <3>3, <4>1
      <4>3. f[t] = Pass(loop, f[t \ {Max(t)}], s[Max(t)])
        BY <2>2, <3>3, <4>1 DEF Iter
      <4> QED
        BY <3>3, <4>2, <4>3
    <3> QED
      BY <3>1, <3>2, <3>3
  <2>4. g = Iter(loop, at, s, g, 1 .. m + 1)
    BY <2>3 DEF Iter
  <2> HIDE DEF g
  <2> QED
    BY <2>1, <2>4
<1> HIDE DEF Fine
<1>3. Bad = {}
  <2> SUFFICES ASSUME Bad # {} PROVE FALSE
    OBVIOUS
  <2>1. PICK m \in Bad : \A k \in 0 .. m - 1 : k \notin Bad
    <3>1. Bad \subseteq Nat
      OBVIOUS
    <3> HIDE DEF Bad
    <3>2. PICK m \in Bad : \A k \in Bad : m <= k
      BY <3>1, LeastNumber
    <3> QED
      BY <3>1, <3>2
  <2>2. m \in Nat /\ m # 0 /\ ~Fine(m)
    BY <1>1
  <2>3. m - 1 \in Nat /\ Fine(m - 1) /\ (m - 1) + 1 = m
    BY <2>1, <2>2
  <2> QED
    BY <1>2, <2>2, <2>3
<1> QED
  BY <1>3 DEF Fine

\* A loop is a pass at a time.
LEMMA LoopSteps ==
    ASSUME NEW loop, NEW n \in Nat, NEW at, NEW s, DOMAIN s = 1 .. n
    PROVE  \E c : /\ c[0] = at
                  /\ \A k \in 1 .. n : c[k] = Pass(loop, c[k - 1], s[k])
                  /\ Looped(loop, at, s) = c[n]
<1> DEFINE f == CHOOSE h : h = Iter(loop, at, s, h, 1 .. n)
<1>1. f = Iter(loop, at, s, f, 1 .. n)
  BY IterExists
<1>2. Looped(loop, at, s) = f[1 .. n]
  BY DEF Looped
<1> DEFINE c == [k \in 0 .. n |-> f[1 .. k]]
<1> HIDE DEF f
<1>3. c[0] = at
  <2>1. 1 .. 0 = {} /\ {} \in SUBSET (1 .. n)
    OBVIOUS
  <2> QED
    BY <1>1, <2>1 DEF Iter
<1>4. ASSUME NEW k \in 1 .. n PROVE c[k] = Pass(loop, c[k - 1], s[k])
  <2>b. k \in Nat /\ 1 <= k /\ k <= n /\ k \in 1 .. k
    OBVIOUS
  <2>1. 1 .. k \in SUBSET (1 .. n) /\ 1 .. k # {} /\ k \in 1 .. k
    <3>1. ASSUME NEW i \in 1 .. k PROVE i \in 1 .. n
      BY <2>b
    <3> QED
      BY <2>b, <3>1
  <2>2. Max(1 .. k) = k
    <3>1. Max(1 .. k) \in 1 .. k /\ \A i \in 1 .. k : Max(1 .. k) >= i
      BY <2>1, IterExists
    <3> QED
      BY <2>1, <3>1
  <2>a. k - 1 \in 0 .. n /\ k \in 0 .. n
    OBVIOUS
  <2>3. (1 .. k) \ {k} = 1 .. (k - 1)
    OBVIOUS
  <2> QED
    <3>1. f[1 .. k] = Pass(loop, f[(1 .. k) \ {k}], s[k])
      BY <1>1, <2>1, <2>2 DEF Iter
    <3> QED
      BY <2>a, <2>3, <3>1
<1>5. c[n] = f[1 .. n]
  OBVIOUS
<1> HIDE DEF c
<1> QED
  BY <1>2, <1>3, <1>4, <1>5

\* TakeAll is a frame at a time.
LEMMA TakeSteps ==
    ASSUME NEW n \in Nat, NEW at, NEW s, DOMAIN s = 1 .. n
    PROVE  \E c : /\ c[0] = at
                  /\ \A k \in 1 .. n : c[k] = Take(c[k - 1], s[k])
                  /\ TakeAll(at, s) = c[n]
<1>1. PICK c : /\ c[0] = at
               /\ \A k \in 1 .. n : c[k] = Pass("frames", c[k - 1], s[k])
               /\ Looped("frames", at, s) = c[n]
  BY LoopSteps
<1> QED
  BY <1>1, Loops DEF Pass

Fresh == [stream |-> NoStream, reader |-> NewReader]
Here == [stream |-> stream, reader |-> reader]

\* The first a frames have made x of a fresh loop.
Taken(a, x) ==
    \E c : /\ c[0] = Fresh /\ c[a] = x
          /\ \A k \in 1 .. a : c[k] = Take(c[k - 1], k)

LEMMA TakenNone == Taken(0, Fresh)
<1> DEFINE c == [k \in {0} |-> Fresh]
<1>1. c[0] = Fresh /\ 1 .. 0 = {}
  OBVIOUS
<1> HIDE DEF c
<1> QED
  BY <1>1 DEF Taken

LEMMA TakenMore ==
    ASSUME NEW a \in Nat, NEW x, Taken(a, x)
    PROVE  Taken(a + 1, Take(x, a + 1))
<1>1. PICK c : /\ c[0] = Fresh /\ c[a] = x
               /\ \A k \in 1 .. a : c[k] = Take(c[k - 1], k)
  BY DEF Taken
<1> DEFINE d == [k \in 0 .. a + 1 |-> IF k = a + 1 THEN Take(x, a + 1) ELSE c[k]]
<1>2. d[a + 1] = Take(x, a + 1) /\ \A k \in 0 .. a : d[k] = c[k]
  <2>1. a + 1 \in 0 .. a + 1 /\ \A k \in 0 .. a : k \in 0 .. a + 1 /\ k # a + 1
    OBVIOUS
  <2> QED
    BY <2>1
<1> HIDE DEF d
<1>3. d[0] = Fresh
  <2>1. 0 \in 0 .. a
    OBVIOUS
  <2> QED
    BY <1>1, <1>2, <2>1
<1>4. ASSUME NEW k \in 1 .. a + 1 PROVE d[k] = Take(d[k - 1], k)
  <2>1. k - 1 \in 0 .. a
    OBVIOUS
  <2>2. CASE k = a + 1
    <3>1. d[k - 1] = x
      <4>1. k - 1 = a
        BY <2>2
      <4> QED
        BY <1>1, <1>2, <2>1, <4>1
    <3> QED
      BY <1>2, <2>2, <3>1
  <2>3. CASE k # a + 1
    <3>1. k \in 1 .. a /\ k \in 0 .. a
      BY <2>3
    <3> QED
      BY <1>1, <1>2, <2>1, <3>1
  <2> QED
    BY <2>2, <2>3
<1> QED
  BY <1>2, <1>3, <1>4 DEF Taken

\* The state of a fold is one.
LEMMA SameFold ==
    ASSUME NEW a \in Nat, NEW c, NEW d, c[0] = d[0],
           \A k \in 1 .. a : c[k - 1] = d[k - 1] => c[k] = d[k]
    PROVE  c[a] = d[a]
<1> DEFINE Bad == {k \in 0 .. a : c[k] # d[k]}
<1>1. Bad = {}
  <2> SUFFICES ASSUME Bad # {} PROVE FALSE
    OBVIOUS
  <2>1. Bad \subseteq Nat
    OBVIOUS
  <2>2. PICK m \in Bad : \A l \in Bad : m <= l
    <3> HIDE DEF Bad
    <3> QED
      BY <2>1, LeastNumber
  <2>3. m # 0 /\ m \in 1 .. a /\ m - 1 \in 0 .. a /\ ~(m <= m - 1)
    OBVIOUS
  <2>4. c[m - 1] = d[m - 1]
    BY <2>2, <2>3
  <2> QED
    BY <2>3, <2>4
<1>2. a \in 0 .. a
  OBVIOUS
<1> QED
  BY <1>1, <1>2

LEMMA TakenAll ==
    ASSUME NEW a \in Nat, NEW x, Taken(a, x)
    PROVE  TakeAll(Fresh, [n \in 1 .. a |-> n]) = x
<1> DEFINE s == [n \in 1 .. a |-> n]
<1>1. DOMAIN s = 1 .. a /\ \A k \in 1 .. a : s[k] = k
  OBVIOUS
<1> HIDE DEF s
<1>2. PICK c : /\ c[0] = Fresh
               /\ \A k \in 1 .. a : c[k] = Take(c[k - 1], s[k])
               /\ TakeAll(Fresh, s) = c[a]
  BY <1>1, TakeSteps
<1>3. PICK d : /\ d[0] = Fresh /\ d[a] = x
               /\ \A k \in 1 .. a : d[k] = Take(d[k - 1], k)
  BY DEF Taken
<1>4. c[a] = d[a]
  <2>1. ASSUME NEW k \in 1 .. a, c[k - 1] = d[k - 1] PROVE c[k] = d[k]
    BY <1>1, <1>2, <1>3, <2>1
  <2> QED
    BY <1>2, <1>3, <2>1, SameFold
<1> QED
  BY <1>2, <1>3, <1>4 DEF s

\* What a chunk with no, one or two frames makes of the loop.
LEMMA TakeFew ==
    ASSUME NEW at, NEW n, NEW m
    PROVE  /\ TakeAll(at, <<>>) = at
           /\ TakeAll(at, <<n>>) = Take(at, n)
           /\ TakeAll(at, <<n, m>>) = Take(Take(at, n), m)
<1>1. ASSUME NEW s, DOMAIN s = 1 .. 0 PROVE TakeAll(at, s) = at
  <2>1. PICK c : c[0] = at /\ TakeAll(at, s) = c[0]
    BY <1>1, TakeSteps
  <2> QED
    BY <2>1
<1>2. ASSUME NEW s, DOMAIN s = 1 .. 1 PROVE TakeAll(at, s) = Take(at, s[1])
  <2>0. PICK j \in Nat : j = 1 /\ DOMAIN s = 1 .. j
    BY <1>2
  <2>1. PICK c : /\ c[0] = at /\ \A k \in 1 .. j : c[k] = Take(c[k - 1], s[k])
                 /\ TakeAll(at, s) = c[j]
    <3>1. j \in Nat /\ DOMAIN s = 1 .. j
      BY <2>0
    <3> QED
      BY ONLY <3>1, TakeSteps
  <2>2. 1 \in 1 .. 1 /\ 1 - 1 = 0
    OBVIOUS
  <2>3. c[1] = Take(c[1 - 1], s[1])
    BY <2>0, <2>1, <2>2
  <2> QED
    BY <2>0, <2>1, <2>2, <2>3
<1>3. ASSUME NEW s, DOMAIN s = 1 .. 2 PROVE TakeAll(at, s) = Take(Take(at, s[1]), s[2])
  <2>0. PICK j \in Nat : j = 2 /\ DOMAIN s = 1 .. j
    BY <1>3
  <2>1. PICK c : /\ c[0] = at /\ \A k \in 1 .. j : c[k] = Take(c[k - 1], s[k])
                 /\ TakeAll(at, s) = c[j]
    <3>1. j \in Nat /\ DOMAIN s = 1 .. j
      BY <2>0
    <3> QED
      BY ONLY <3>1, TakeSteps
  <2>2. 1 \in 1 .. 2 /\ 1 - 1 = 0 /\ 2 \in 1 .. 2 /\ 2 - 1 = 1
    OBVIOUS
  <2>3. c[1] = Take(c[0], s[1]) /\ c[2] = Take(c[1], s[2])
    <3>1. c[1] = Take(c[1 - 1], s[1]) /\ c[2] = Take(c[2 - 1], s[2])
      BY <2>0, <2>1, <2>2
    <3> QED
      BY <2>2, <3>1
  <2> QED
    BY <2>0, <2>1, <2>3
<1>4. DOMAIN <<>> = 1 .. 0
  OBVIOUS
<1>5. DOMAIN <<n>> = 1 .. 1 /\ <<n>>[1] = n
  OBVIOUS
<1>6. DOMAIN <<n, m>> = 1 .. 2 /\ <<n, m>>[1] = n /\ <<n, m>>[2] = m
  OBVIOUS
<1>7. TakeAll(at, <<>>) = at
  BY <1>1, <1>4
<1>8. TakeAll(at, <<n>>) = Take(at, n)
  BY <1>2, <1>5
<1>9. TakeAll(at, <<n, m>>) = Take(Take(at, n), m)
  BY <1>3, <1>6
<1> QED
  BY <1>7, <1>8, <1>9

LEMMA TakeNothing == ASSUME NEW at PROVE TakeAll(at, <<>>) = at
<1>1. PICK n : n = 0
  OBVIOUS
<1>2. /\ TakeAll(at, <<>>) = at
      /\ TakeAll(at, <<n>>) = Take(at, n)
      /\ TakeAll(at, <<n, n>>) = Take(Take(at, n), n)
  BY ONLY TakeFew
<1> QED
  BY <1>2

\* Take, by the frame itself and the client that reads it.
ReadBy(who, loop, events) == FoldLeft(LAMBDA l, e : Read(who, l, e), loop, events)
TakeBy(who, at, frame, n) ==
    IF n = NOTHING \/ frame.kind = "ping" THEN at
    ELSE IF frame.kind = "chunk"
    THEN [stream |-> IngestChunk(at.stream, frame, n).stream,
          reader |-> ReadBy(who, at.reader, IngestChunk(at.stream, frame, n).events)]
    ELSE [at EXCEPT !.reader =
             ReadBy(who, @, Passed(frame)
                        \o IF frame.kind = "delta" THEN <<Delta(frame.index, frame.block, <<n>>)>> ELSE <<>>)]

TakesBy == \A at, n : Take(at, n) = TakeBy(consumer, at, sent[n], n)

LEMMA TakeIs == []TakesBy
<1>1. \A loop, events : ReadAll(loop, events) = ReadBy(consumer, loop, events)
  BY DEF ReadAll, ReadBy, Hears, FoldLeft, MapThenFoldSet
<1>2. TakesBy
  BY <1>1 DEF Take, TakeFrame, TakeBy, TakesBy
<1> QED
  BY <1>2, PTL

\* What was taken does not depend on the frames to come.
LEMMA TakenStays ==
    ASSUME NEW a \in Nat, NEW x, Taken(a, x), consumer' = consumer,
           \A k \in 1 .. a : sent'[k] = sent[k]
    PROVE  Taken(a, x)'
<1>1. PICK c : /\ c[0] = Fresh /\ c[a] = x
               /\ \A k \in 1 .. a : c[k] = Take(c[k - 1], k)
  BY DEF Taken
<1>2. ASSUME NEW k \in 1 .. a, NEW at PROVE Take(at, k)' = Take(at, k)
  <2>1. TakesBy /\ TakesBy'
    BY TakeIs, PTL
  <2>2. Take(at, k)' = TakeBy(consumer', at, sent'[k], k)
    BY <2>1 DEF TakesBy
  <2> QED
    BY <2>1, <2>2 DEF TakesBy
<1>3. \A k \in 1 .. a : c[k] = Take(c[k - 1], k)'
  BY <1>1, <1>2
<1> QED
  BY <1>1, <1>3 DEF Taken

-----------------------------------------------------------------------------
(* A chunk that ends anywhere.                                             *)

Bytes(x) == x \in Seq(Int)

\* A chunk moves the first bytes on the way to the end of the buffer.
Moved(b, w, size, x, y) ==
    /\ Bytes(b) /\ Bytes(w) /\ size \in 1 .. Len(w)
    /\ x = b \o SubSeq(w, 1, size)
    /\ y = SubSeq(w, size + 1, Len(w))

LEMMA Regroup ==
    ASSUME NEW b, NEW w, NEW size, NEW x, NEW y, Moved(b, w, size, x, y),
           NEW t, Joins(t, b, Len(b), w, Len(w))
    PROVE  /\ Bytes(x) /\ Bytes(y) /\ Len(x) = Len(b) + size
           /\ Joins(t, x, Len(x), y, Len(y))
<1>0. /\ b \in Seq(Int) /\ w \in Seq(Int) /\ size \in 1 .. Len(w)
      /\ x = b \o SubSeq(w, 1, size) /\ y = SubSeq(w, size + 1, Len(w))
  BY DEF Moved, Bytes
<1> DEFINE p == SubSeq(w, 1, size)
<1>1. p \in Seq(Int) /\ Len(p) = size /\ \A k \in 1 .. size : p[k] = w[k]
  <2>1. 1 \in Nat /\ size \in Nat /\ 1 <= size + 1 /\ size <= Len(w) /\ size - 1 + 1 = size
    BY <1>0
  <2>2. p \in Seq(Int) /\ Len(p) = size /\ \A k \in 1 .. size : p[k] = w[1 + k - 1]
    BY <1>0, <2>1, Sliced
  <2>3. \A k \in 1 .. size : 1 + k - 1 = k
    BY <1>0
  <2> HIDE DEF p
  <2> QED
    BY <2>2, <2>3
<1>2. /\ y \in Seq(Int) /\ Len(y) = Len(w) - size
      /\ \A k \in 1 .. Len(w) - size : y[k] = w[size + k]
  <2>1. PICK i \in Nat, j \in Nat : i = size + 1 /\ j = Len(w)
    <3>1. size + 1 \in Nat /\ Len(w) \in Nat
      BY <1>0
    <3> QED
      BY <3>1
  <2>2. y = SubSeq(w, i, j) /\ w \in Seq(Int) /\ 1 <= i /\ i <= j + 1 /\ j <= Len(w)
    BY <1>0, <2>1
  <2>3. j - i + 1 = Len(w) - size /\ \A k \in 1 .. Len(w) - size : i + k - 1 = size + k
    BY <1>0, <2>1
  <2>4. y \in Seq(Int) /\ Len(y) = j - i + 1 /\ \A k \in 1 .. j - i + 1 : y[k] = w[i + k - 1]
    BY ONLY <2>2, i \in Nat, j \in Nat, Sliced
  <2> QED
    BY <2>3, <2>4
<1> HIDE DEF p
<1>3. /\ x \in Seq(Int) /\ Len(x) = Len(b) + size
      /\ \A i \in 1 .. Len(b) : x[i] = b[i]
      /\ \A i \in 1 .. size : x[Len(b) + i] = p[i]
  <2>1. b \in Seq(Int) /\ p \in Seq(Int) /\ Len(p) = size /\ x = b \o p
    BY <1>0, <1>1 DEF p
  <2> QED
    BY ONLY <2>1, JoinedBytes
<1>4. /\ t \in Seq(Int) /\ Len(t) = Len(b) + Len(w)
      /\ \A i \in 1 .. Len(b) : t[i] = b[i]
      /\ \A i \in 1 .. Len(w) : t[Len(b) + i] = w[i]
  BY DEF Joins
<1>5. Len(b) \in Nat /\ Len(w) \in Nat /\ size \in Nat /\ size <= Len(w)
  BY <1>0
<1>6. ASSUME NEW i \in 1 .. Len(x) PROVE x[i] = t[i]
  <2>1. CASE i \in 1 .. Len(b)
    BY <1>3, <1>4, <2>1
  <2>2. CASE i > Len(b)
    <3>1. PICK k \in 1 .. size : i = Len(b) + k
      <4>1. i - Len(b) \in 1 .. size /\ i = Len(b) + (i - Len(b))
        BY <1>3, <1>5, <2>2
      <4> QED
        BY <4>1
    <3>2. k \in 1 .. Len(w)
      BY <1>5
    <3> QED
      BY <1>1, <1>3, <1>4, <3>1, <3>2
  <2> QED
    BY <1>3, <1>5, <2>1, <2>2
<1>7. ASSUME NEW i \in 1 .. Len(y) PROVE y[i] = t[Len(x) + i]
  <2>1. /\ i \in 1 .. Len(w) - size /\ size + i \in 1 .. Len(w)
        /\ Len(x) + i = Len(b) + (size + i)
    BY <1>2, <1>3, <1>5
  <2> QED
    BY <1>2, <1>4, <2>1
<1>8. Len(t) = Len(x) + Len(y)
  BY <1>2, <1>3, <1>4, <1>5
<1> QED
  BY <1>2, <1>3, <1>4, <1>6, <1>7, <1>8 DEF Joins, Bytes

\* The frame under way has not arrived in full.
LEMMA ChunkShort ==
    ASSUME NEW f, NEW eol \in {"lf", "crlf"}, NEW width \in Nat, NEW n, Framed(f, eol, width, n),
           NEW t, NEW x \in Seq(Int), Len(x) < width,
           \A i \in 1 .. Len(x) : x[i] = t[i], \A i \in 1 .. width : t[i] = f[i]
    PROVE  Cut[x].frames = <<>> /\ Cut[x].rest = x
<1>1. width \in Nat /\ Len(x) \in Nat
  BY DEF Framed
<1>2. \A i \in 1 .. Len(x) : i \in 1 .. width
  BY <1>1
<1>3. Opening(f, Len(x), x)
  BY <1>2 DEF Opening
<1> QED
  BY <1>1, <1>3, CutNone

\* The frame has arrived, and z of the next.
LEMMA ChunkFull ==
    ASSUME NEW f, NEW g, NEW eol \in {"lf", "crlf"}, NEW width \in Nat, NEW n, NEW m,
           Framed(f, eol, width, n), Framed(g, eol, width, m),
           NEW size \in 0 .. width, NEW x, Joins(x, f, width, g, size)
    PROVE  \E z : Arrives(x, f, n, z, eol, width, size) /\ Opening(g, size, z)
<1>1. g \in Seq(Int) /\ Len(g) = width
  BY DEF Framed
<1>2. PICK z : Opening(g, size, z)
  <2> DEFINE z == SubSeq(g, 1, size)
  <2>1. 1 \in Nat /\ size \in Nat /\ 1 <= size + 1 /\ size <= Len(g) /\ size - 1 + 1 = size
    BY <1>1
  <2>2. z \in Seq(Int) /\ Len(z) = size /\ \A k \in 1 .. size : z[k] = g[1 + k - 1]
    BY <1>1, <2>1, Sliced
  <2>3. \A k \in 1 .. size : 1 + k - 1 = k
    OBVIOUS
  <2> HIDE DEF z
  <2>4. Opening(g, size, z)
    BY <2>2, <2>3 DEF Opening
  <2> QED
    BY <2>4
<1>4. Joins(x, f, width, z, size)
  BY <1>2 DEF Joins, Opening
<1> QED
  BY <1>2, <1>4 DEF Arrives

LEMMA CutOfNothing == Cut[<<>>].frames = <<>> /\ Cut[<<>>].rest = <<>>
<1>1. <<>> \in Seq(Int) /\ Len(<<>>) = 0
  OBVIOUS
<1>2. Separator(<<>>).at = 0
  <2>1. PICK e \in Seq(Int) : e = <<>> /\ Len(e) = 0
    BY <1>1
  <2>2. Separator(e).at # 0 => Separator(e).at \in 1 .. 0
    BY <2>1, SeparatorType
  <2>3. Separator(e).at = 0
    BY <2>2
  <2> QED
    BY <2>1, <2>3
<1>3. Cut[<<>>] = CutOf(Cut, <<>>)
  BY <1>1, CutUnfold
<1>4. Cut[<<>>] = [frames |-> <<>>, rest |-> <<>>]
  BY <1>2, <1>3 DEF CutOf
<1> QED
  BY <1>4

\* A frame that says n is on its way, and nothing else: x of it has arrived, y has not.
OneComes(f, n, eol, width, x, y) ==
    /\ eol \in {"lf", "crlf"} /\ width \in Nat /\ Framed(f, eol, width, n)
    /\ Bytes(x) /\ Bytes(y) /\ Joins(f, x, Len(x), y, Len(y))

OneCame(n, width, x, y) ==
    \/ Len(x) < width /\ Cut[x].frames = <<>> /\ Cut[x].rest = x
    \/ Len(x) = width /\ Cut[x].frames = <<n>> /\ Cut[x].rest = <<>> /\ y = <<>>

LEMMA ChunkOfOne ==
    ASSUME NEW f, NEW n, NEW eol, NEW width, NEW x, NEW y, OneComes(f, n, eol, width, x, y)
    PROVE  OneCame(n, width, x, y)
<1>0. /\ eol \in {"lf", "crlf"} /\ width \in Nat /\ Framed(f, eol, width, n)
      /\ x \in Seq(Int) /\ y \in Seq(Int) /\ Len(f) = Len(x) + Len(y)
      /\ \A i \in 1 .. Len(x) : x[i] = f[i]
  BY DEF OneComes, Bytes, Joins
<1>1. width \in Nat /\ Len(f) = width /\ Len(x) \in Nat /\ Len(y) \in Nat
  BY <1>0 DEF Framed
<1>2. CASE Len(x) < width
  BY <1>0, <1>1, <1>2, ChunkShort DEF OneCame
<1>3. CASE Len(x) = width
  <2>1. Len(y) = 0 /\ y = <<>>
    BY <1>0, <1>1, <1>3
  <2>2. PICK size \in Nat : size = 0
    OBVIOUS
  <2>3. PICK z : Arrives(x, f, n, z, eol, width, size) /\ Opening(f, size, z)
    <3>1. Joins(x, f, width, f, size) /\ size \in 0 .. width
      BY <1>0, <1>1, <1>3, <2>2 DEF Joins
    <3>2. /\ eol \in {"lf", "crlf"} /\ width \in Nat /\ Framed(f, eol, width, n)
      BY <1>0
    <3> QED
      BY ONLY <3>1, <3>2, ChunkFull
  <2>a. Cut[x].frames = <<n>> \o Cut[z].frames /\ Cut[x].rest = Cut[z].rest
    BY ONLY <2>3, CutOne
  <2>4. z = <<>>
    BY <2>2, <2>3 DEF Opening
  <2>5. <<n>> \o <<>> = <<n>>
    OBVIOUS
  <2> QED
    BY <1>3, <2>1, <2>a, <2>4, <2>5, CutOfNothing DEF OneCame
<1>4. Len(x) < width \/ Len(x) = width
  BY <1>0, <1>1
<1> QED
  BY ONLY <1>2, <1>3, <1>4

LEMMA TwoNumbers == ASSUME NEW n \in Nat, NEW m \in Nat PROVE <<n>> \o <<m>> = <<n, m>>
<1> DEFINE p == <<n>>
           q == <<m>>
<1>1. p \in Seq(Int) /\ q \in Seq(Int) /\ Len(p) = 1 /\ Len(q) = 1 /\ p[1] = n /\ q[1] = m
  OBVIOUS
<1> HIDE DEF p, q
<1>2. p \o q = <<n, m>>
  <2>1. PICK c \in Seq(Int), d \in Seq(Int) : c = p \o q /\ d = <<n, m>>
    <3>1. p \o q \in Seq(Int) /\ <<n, m>> \in Seq(Int)
      BY <1>1
    <3> QED
      BY <3>1
  <2>2. Len(c) = 2 /\ c[1] = n /\ c[2] = m /\ Len(d) = 2 /\ d[1] = n /\ d[2] = m
    <3>1. /\ p \o q \in Seq(Int) /\ Len(p \o q) = Len(p) + Len(q)
          /\ \A i \in 1 .. Len(p) : (p \o q)[i] = p[i]
          /\ \A i \in 1 .. Len(q) : (p \o q)[Len(p) + i] = q[i]
      <4>1. p \in Seq(Int) /\ q \in Seq(Int)
        BY <1>1
      <4> QED
        BY ONLY <4>1, JoinedBytes
    <3>2. Len(c) = 2 /\ c[1] = n /\ c[2] = m
      <4>1. 1 \in 1 .. 1 /\ 1 + 1 = 2
        OBVIOUS
      <4>2. Len(c) = 2 /\ c[1] = p[1] /\ c[1 + 1] = q[1]
        BY <1>1, <2>1, <3>1, <4>1
      <4> QED
        BY <1>1, <4>1, <4>2
    <3> QED
      BY <2>1, <3>2
  <2>3. \A i \in 1 .. 2 : i = 1 \/ i = 2
    OBVIOUS
  <2>4. c = d
    BY <2>2, <2>3, SameBytes
  <2> QED
    BY <2>1, <2>4
<1> QED
  BY <1>2 DEF p, q

\* Two frames are on their way.
TwoCome(f, n, g, m, eol, width, x, y) ==
    /\ eol \in {"lf", "crlf"} /\ width \in Nat /\ n \in Nat /\ m \in Nat
    /\ Framed(f, eol, width, n) /\ Framed(g, eol, width, m)
    /\ Bytes(x) /\ Bytes(y)
    /\ \E t : Joins(t, f, width, g, width) /\ Joins(t, x, Len(x), y, Len(y))

TwoCame(n, g, m, width, x, y) ==
    \/ Len(x) < width /\ Cut[x].frames = <<>> /\ Cut[x].rest = x
    \/ \E z : /\ Len(z) < width /\ Len(x) = width + Len(z) /\ Bytes(z)
              /\ Cut[x].frames = <<n>> /\ Cut[x].rest = z
              /\ Joins(g, z, Len(z), y, Len(y))
    \/ /\ Len(x) = width + width /\ y = <<>>
       /\ Cut[x].frames = <<n, m>> /\ Cut[x].rest = <<>>

LEMMA ChunkOfTwo ==
    ASSUME NEW f, NEW n, NEW g, NEW m, NEW eol, NEW width, NEW x, NEW y,
           TwoCome(f, n, g, m, eol, width, x, y)
    PROVE  TwoCame(n, g, m, width, x, y)
<1>0. /\ eol \in {"lf", "crlf"} /\ width \in Nat /\ n \in Nat /\ m \in Nat
      /\ Framed(f, eol, width, n) /\ Framed(g, eol, width, m)
      /\ Bytes(x) /\ Bytes(y)
  BY DEF TwoCome
<1>t. PICK t : Joins(t, f, width, g, width) /\ Joins(t, x, Len(x), y, Len(y))
  BY DEF TwoCome
<1>1. /\ x \in Seq(Int) /\ y \in Seq(Int) /\ Len(x) \in Nat /\ Len(y) \in Nat
      /\ f \in Seq(Int) /\ Len(f) = width /\ g \in Seq(Int) /\ Len(g) = width
      /\ width > Blank(eol) /\ Blank(eol) \in {2, 4}
  BY <1>0 DEF Framed, Blank, Bytes
<1>2. /\ Len(t) = width + width /\ Len(t) = Len(x) + Len(y)
      /\ \A i \in 1 .. width : t[i] = f[i] /\ t[width + i] = g[i]
      /\ \A i \in 1 .. Len(x) : t[i] = x[i]
      /\ \A i \in 1 .. Len(y) : t[Len(x) + i] = y[i]
  BY <1>0, <1>t DEF Joins
<1>3. CASE Len(x) < width
  <2>1. \A i \in 1 .. Len(x) : x[i] = t[i]
    BY <1>2
  <2>2. \A i \in 1 .. width : t[i] = f[i]
    BY <1>2
  <2>3. Opening(f, Len(x), x)
    BY <1>0, <1>1, <1>2, <1>3, <2>1, <2>2 DEF Opening
  <2>4. /\ eol \in {"lf", "crlf"} /\ Framed(f, eol, width, n) /\ Len(x) \in Nat /\ Len(x) < width
    BY <1>0, <1>1, <1>3
  <2>5. Cut[x].frames = <<>> /\ Cut[x].rest = x
    BY ONLY <2>3, <2>4, CutNone
  <2> QED
    BY <1>3, <2>5 DEF TwoCame
<1>4. CASE Len(x) >= width
  <2>1. PICK size \in 0 .. width : Len(x) = width + size /\ Len(y) = width - size
    <3>1. Len(x) - width \in 0 .. width /\ Len(x) = width + (Len(x) - width)
          /\ Len(y) = width - (Len(x) - width)
      <4>1. /\ Len(x) \in Nat /\ Len(y) \in Nat /\ width \in Nat
            /\ width + width = Len(x) + Len(y)
        BY <1>0, <1>1, <1>2
      <4> QED
        BY ONLY <1>4, <4>1
    <3> QED
      BY <3>1
  <2>2. Joins(x, f, width, g, size)
    <3>1. ASSUME NEW i \in 1 .. width PROVE x[i] = f[i]
      BY <1>0, <1>1, <1>2, <2>1
    <3>2. ASSUME NEW i \in 1 .. size PROVE x[width + i] = g[i]
      <4>1. i \in 1 .. width /\ width + i \in 1 .. Len(x)
        BY <1>0, <2>1
      <4> QED
        BY <1>2, <4>1
    <3> QED
      BY <1>1, <2>1, <3>1, <3>2 DEF Joins
  <2>3. PICK z : Arrives(x, f, n, z, eol, width, size) /\ Opening(g, size, z)
    <3>1. /\ eol \in {"lf", "crlf"} /\ width \in Nat /\ Framed(f, eol, width, n)
          /\ Framed(g, eol, width, m)
      BY <1>0
    <3> QED
      BY ONLY <2>2, <3>1, size \in 0 .. width, ChunkFull
  <2>4. Cut[x].frames = <<n>> \o Cut[z].frames /\ Cut[x].rest = Cut[z].rest
    BY ONLY <2>3, CutOne
  <2>5. z \in Seq(Int) /\ Len(z) = size /\ \A i \in 1 .. size : z[i] = g[i]
    BY <2>3 DEF Opening
  <2>6. CASE size < width
    <3>1. /\ eol \in {"lf", "crlf"} /\ Framed(g, eol, width, m) /\ size \in Nat /\ size < width
          /\ Opening(g, size, z)
      BY <1>0, <2>3, <2>6
    <3>2. Cut[z].frames = <<>> /\ Cut[z].rest = z
      BY ONLY <3>1, CutNone
    <3>3. <<n>> \o <<>> = <<n>>
      OBVIOUS
    <3>4. Joins(g, z, Len(z), y, Len(y))
      <4>1. ASSUME NEW i \in 1 .. Len(y) PROVE g[size + i] = y[i]
        <5>1. size + i \in 1 .. width /\ width + (size + i) = Len(x) + i
          BY <1>0, <1>1, <2>1
        <5> QED
          BY <1>2, <5>1
      <4>2. Len(g) = Len(z) + Len(y)
        BY <1>0, <1>1, <2>1, <2>5
      <4> QED
        BY <1>1, <2>5, <4>1, <4>2 DEF Joins
    <3> QED
      BY <2>1, <2>4, <2>5, <2>6, <3>2, <3>3, <3>4 DEF Bytes, TwoCame
  <2>7. CASE size = width
    <3>1. Len(y) = 0 /\ y = <<>> /\ Len(x) = width + width /\ y \in Seq(Int)
      BY <1>1, <2>1, <2>7
    <3>2. OneComes(g, m, eol, width, z, y)
      BY <1>0, <1>1, <2>5, <2>7, <3>1 DEF OneComes, Joins, Bytes
    <3>4. OneCame(m, width, z, y)
      BY ONLY <3>2, ChunkOfOne
    <3>5. <<n>> \o <<m>> = <<n, m>>
      BY <1>0, TwoNumbers
    <3>6. Cut[z].frames = <<m>> /\ Cut[z].rest = <<>>
      BY <1>0, <1>1, <2>5, <2>7, <3>4 DEF OneCame
    <3>7. Cut[x].frames = <<n, m>> /\ Cut[x].rest = <<>>
      BY ONLY <2>4, <3>5, <3>6
    <3> QED
      BY ONLY <3>1, <3>7 DEF TwoCame
  <2>8. size < width \/ size = width
    BY <1>0
  <2> QED
    BY ONLY <2>6, <2>7, <2>8
<1>5. Len(x) < width \/ Len(x) >= width
  BY <1>0, <1>1
<1> QED
  BY ONLY <1>3, <1>4, <1>5

-----------------------------------------------------------------------------
(* The invariant.                                                          *)

Named == provider = "anthropic"
FrameBytes(n) == Written(n, ending, Named)

\* The bytes between the loop and the provider, after the first a frames.
Flow(a, t) ==
    \/ Len(sent) = a /\ t = <<>>
    \/ Len(sent) = a + 1 /\ t = FrameBytes(a + 1)
    \/ Len(sent) = a + 2 /\ Joins(t, FrameBytes(a + 1), Width, FrameBytes(a + 2), Width)

\* The first a frames were taken; of what was sent since, some is in the buffer.
HasRead(a) ==
    /\ Bytes(buffer) /\ Bytes(wire) /\ Len(buffer) < Width
    /\ received = a * Width + Len(buffer)
    /\ \E t : Joins(t, buffer, Len(buffer), wire, Len(wire)) /\ Flow(a, t)
    /\ Taken(a, Here)
    /\ \A n \in 1 .. a : sent[n].kind # "junk"

Unopened ==
    /\ sent = <<>> /\ wire = <<>> /\ buffer = <<>> /\ received = 0
    /\ Here = Fresh

ReadInv ==
    /\ \E S : sent \in Seq(S)
    /\ phase \in {"ready", "waiting", "sleeping"} => Unopened
    /\ phase = "streaming" => \E a \in Nat : HasRead(a)

LEMMA Widths ==
    TypeOK => /\ Width = WidthOf(ending, Named) /\ Width \in {4, 6, 9} /\ ending \in {"lf", "crlf"}
              /\ \A n \in Nat \ {0} : Framed(FrameBytes(n), ending, Width, n)
<1> SUFFICES ASSUME TypeOK
             PROVE  /\ Width = WidthOf(ending, Named) /\ Width \in {4, 6, 9} /\ ending \in {"lf", "crlf"}
                    /\ \A n \in Nat \ {0} : Framed(FrameBytes(n), ending, Width, n)
  OBVIOUS
<1>1. ending \in {"lf", "crlf"} /\ Named \in BOOLEAN
  BY DEF TypeOK, Named
<1>2. \A n \in Nat \ {0} : Framed(FrameBytes(n), ending, WidthOf(ending, Named), n)
  BY <1>1, WrittenFramed DEF FrameBytes
<1>3. Width = WidthOf(ending, Named)
  <2>1. Width = Len(FrameBytes(1))
    BY DEF Width, FrameBytes, Named
  <2>2. Len(FrameBytes(1)) = WidthOf(ending, Named)
    BY <1>2 DEF Framed
  <2> QED
    BY <2>1, <2>2
<1>4. Width \in {4, 6, 9}
  BY <1>1, <1>3 DEF WidthOf
<1> QED
  BY <1>1, <1>2, <1>3, <1>4

LEMMA Division ==
    ASSUME NEW w \in {4, 6, 9}, NEW a \in Nat, NEW r \in Nat, r < w
    PROVE  (a * w + r) \div w = a /\ (a * w + r) % w = r
<1>1. CASE w = 4
  BY <1>1
<1>2. CASE w = 6
  BY <1>2
<1>3. CASE w = 9
  BY <1>3
<1> QED
  BY <1>1, <1>2, <1>3

\* The buffer holds the beginning of the frame that comes next.
LEMMA BufferOpens ==
    ASSUME TypeOK, NEW a \in Nat, HasRead(a)
    PROVE  buffer = SubSeq(FrameBytes(a + 1), 1, Len(buffer))
<1> DEFINE f == FrameBytes(a + 1)
           r == Len(buffer)
           d == SubSeq(f, 1, r)
<1>1. f \in Seq(Int) /\ Len(f) = Width /\ Width \in {4, 6, 9}
  <2>1. a + 1 \in Nat \ {0}
    OBVIOUS
  <2> QED
    BY <2>1, Widths DEF Framed
<1>2. buffer \in Seq(Int) /\ r \in Nat /\ r < Width
  BY DEF HasRead, Bytes
<1> HIDE DEF f, r
<1>3. \A i \in 1 .. r : buffer[i] = f[i]
  <2>1. PICK t : Joins(t, buffer, r, wire, Len(wire)) /\ Flow(a, t)
    BY DEF HasRead, r
  <2>2. /\ Len(t) = r + Len(wire) /\ \A i \in 1 .. r : t[i] = buffer[i]
    BY <2>1 DEF Joins
  <2>3. Len(wire) \in Nat
    BY DEF HasRead, Bytes
  <2>4. CASE t = <<>>
    <3>1. Len(t) = 0
      BY <2>4
    <3>2. r = 0
      BY <1>2, <2>2, <2>3, <3>1
    <3> QED
      BY <3>2
  <2>5. CASE t = f
    BY <2>2, <2>5
  <2>6. CASE Joins(t, f, Width, FrameBytes(a + 2), Width)
    <3>1. \A i \in 1 .. Width : t[i] = f[i]
      BY <2>6 DEF Joins
    <3>2. \A i \in 1 .. r : i \in 1 .. Width
      BY <1>1, <1>2
    <3> QED
      BY <2>2, <3>1, <3>2
  <2> QED
    BY <2>1, <2>4, <2>5, <2>6 DEF Flow, f
<1>4. d \in Seq(Int) /\ Len(d) = r /\ \A k \in 1 .. r : d[k] = f[1 + k - 1]
  <2>1. 1 <= r + 1 /\ r - 1 + 1 = r /\ r <= Len(f)
    BY <1>1, <1>2
  <2> QED
    BY <1>1, <1>2, <2>1, Sliced, SMTT(30)
<1>5. \A k \in 1 .. r : 1 + k - 1 = k
  BY <1>2
<1>6. \A k \in 1 .. r : buffer[k] = d[k]
  BY <1>3, <1>4, <1>5
<1> HIDE DEF d
<1>7. Len(buffer) = r
  BY DEF r
<1>8. buffer = d
  BY <1>2, <1>4, <1>6, <1>7, SameBytes
<1> QED
  BY <1>8 DEF d, f, r

LEMMA ReadAsSent == ASSUME TypeOK, ReadInv PROVE FramesAsSent
<1> SUFFICES ASSUME phase = "streaming" PROVE FramesAsSent
  BY DEF FramesAsSent
<1>1. PICK a \in Nat : HasRead(a)
  BY DEF ReadInv
<1>2. Arrived = a /\ received % Width = Len(buffer)
  <2>1. PICK w, r : w = Width /\ r = Len(buffer)
    OBVIOUS
  <2>2. w \in {4, 6, 9} /\ r \in Nat /\ r < w /\ received = a * w + r
    BY <1>1, <2>1, Widths DEF HasRead, Bytes
  <2>3. (a * w + r) \div w = a /\ (a * w + r) % w = r
    BY ONLY <2>2, a \in Nat, Division
  <2> QED
    BY <2>1, <2>2, <2>3 DEF Arrived
<1>3. buffer = SubSeq(Written(Arrived + 1, ending, provider = "anthropic"), 1, received % Width)
  BY <1>1, <1>2, BufferOpens DEF FrameBytes, Named
<1>4. TakeAll(Fresh, [n \in 1 .. Arrived |-> n]) = Here
  BY <1>1, <1>2, TakenAll DEF HasRead
<1>5. \A n \in 1 .. Arrived : sent[n].kind # "junk"
  BY <1>1, <1>2 DEF HasRead
<1> QED
  BY <1>3, <1>4, <1>5 DEF FramesAsSent, Fresh, Here

-----------------------------------------------------------------------------
(* Every step keeps it.                                                    *)

LEMMA InitRead == Init => ReadInv
<1> SUFFICES ASSUME Init PROVE ReadInv
  OBVIOUS
<1>1. sent \in Seq({})
  BY DEF Init
<1>2. Unopened
  BY DEF Init, Unopened, Here, Fresh
<1> QED
  BY <1>1, <1>2 DEF ReadInv, Init

\* The frames and what was made of them stay.
LEMMA ReadStays ==
    ASSUME UNCHANGED body, UNCHANGED setting, NEW a \in Nat, HasRead(a) PROVE HasRead(a)'
<1>1. /\ sent' = sent /\ wire' = wire /\ buffer' = buffer /\ Here' = Here /\ received' = received
      /\ consumer' = consumer /\ provider' = provider /\ ending' = ending
  BY DEF body, setting, Here
<1>2. Width' = Width /\ \A n : FrameBytes(n)' = FrameBytes(n)
  BY <1>1 DEF Width, FrameBytes, Named
<1>3. \A t : Flow(a, t)' <=> Flow(a, t)
  BY <1>1, <1>2 DEF Flow
<1>4. Taken(a, Here)'
  <2>1. PICK x : x = Here
    OBVIOUS
  <2>2. Taken(a, x)
    BY <2>1 DEF HasRead
  <2>3. Taken(a, x)'
    BY <1>1, <2>2, TakenStays
  <2> QED
    BY <1>1, <2>1, <2>3
<1> QED
  BY <1>1, <1>2, <1>3, <1>4 DEF HasRead

LEMMA UnopenedStays == ASSUME UNCHANGED body, Unopened PROVE Unopened'
BY DEF body, Unopened, Here, Fresh

LEMMA NothingRead == ASSUME TypeOK, Unopened PROVE HasRead(0)
<1>1. Taken(0, Here)
  BY TakenNone DEF Unopened
<1>2. Bytes(buffer) /\ Bytes(wire) /\ Len(buffer) = 0 /\ Len(wire) = 0 /\ Len(sent) = 0
  BY DEF Unopened, Bytes
<1>3. Width \in {4, 6, 9}
  BY Widths
<1>4. PICK t : t = <<>>
  OBVIOUS
<1>5. Joins(t, buffer, Len(buffer), wire, Len(wire)) /\ Flow(0, t)
  BY <1>2, <1>4 DEF Joins, Flow
<1>6. received = 0 * Width + Len(buffer)
  BY <1>2, <1>3 DEF Unopened
<1> QED
  BY <1>1, <1>2, <1>3, <1>5, <1>6 DEF HasRead

LEMMA DroppedRead ==
    ASSUME Dropped, phase' # "streaming" PROVE ReadInv'
<1>1. sent' \in Seq({})
  BY DEF Dropped
<1>2. Unopened'
  BY DEF Dropped, Unopened, Here, Fresh
<1> QED
  BY <1>1, <1>2 DEF ReadInv

LEMMA SendRead == ASSUME ReadInv, SendRequest PROVE ReadInv'
BY UnopenedStays DEF ReadInv, SendRequest, body

LEMMA SucceedsRead == ASSUME TypeOK, ReadInv, Succeeds PROVE ReadInv'
<1>1. HasRead(0)' /\ Unopened'
  <2>1. Unopened /\ UNCHANGED body /\ UNCHANGED setting
    BY DEF ReadInv, Succeeds
  <2>2. HasRead(0)
    BY <2>1, NothingRead
  <2> QED
    BY <2>1, <2>2, ReadStays, UnopenedStays
<1> QED
  BY <1>1 DEF ReadInv, Succeeds, body

LEMMA FailsRead == ASSUME ReadInv, FailsForNow \/ FailsForGood \/ MessageUnreadable PROVE ReadInv'
<1>1. UNCHANGED body /\ phase' # "streaming" /\ phase \in {"waiting", "reading"}
      /\ (phase = "reading" => phase' = "failed")
  BY DEF FailsForNow, FailsForGood, MessageUnreadable
<1> QED
  BY <1>1, UnopenedStays DEF ReadInv, body

LEMMA EndsRead == ASSUME ReadInv, BodyEnds \/ BodyBreaks PROVE ReadInv'
<1>1. CASE Dropped /\ phase' # "streaming"
  BY <1>1, DroppedRead
<1>2. CASE phase' = "answered" /\ sent' = sent
  BY <1>2 DEF ReadInv
<1> QED
  BY <1>1, <1>2 DEF BodyEnds, BodyBreaks

LEMMA WholeRead == ASSUME ReadInv, WholeMessage PROVE ReadInv'
BY DEF ReadInv, WholeMessage

LEMMA StutterRead == ASSUME ReadInv, UNCHANGED vars PROVE ReadInv'
<1>1. UNCHANGED body /\ UNCHANGED setting /\ phase' = phase /\ sent' = sent
  BY DEF vars, body
<1> QED
  BY <1>1, ReadStays, UnopenedStays DEF ReadInv

\* What was read stays when the provider writes on.
LEMMA WritesRead == ASSUME TypeOK, ReadInv, ProviderWrites PROVE ReadInv'
<1>1. PICK a \in Nat : HasRead(a)
  BY DEF ReadInv, ProviderWrites
<1>2. PICK S : sent \in Seq(S)
  BY DEF ReadInv
<1>3. PICK frame : sent' = Append(sent, frame) /\ wire' = wire \o FrameBytes(Len(sent) + 1)
  BY DEF ProviderWrites, FrameBytes, Named
<1>4. /\ sent' \in Seq(S \cup {frame}) /\ Len(sent') = Len(sent) + 1 /\ Len(sent) \in Nat
      /\ \A n \in 1 .. Len(sent) : sent'[n] = sent[n]
  BY <1>2, <1>3
<1>5. /\ Len(wire) <= 1 /\ buffer' = buffer /\ Here' = Here /\ received' = received
      /\ consumer' = consumer /\ provider' = provider /\ ending' = ending /\ phase' = phase
      /\ phase = "streaming"
  BY DEF ProviderWrites, setting, Here
<1>6. Width' = Width /\ \A n : FrameBytes(n)' = FrameBytes(n)
  BY <1>5 DEF Width, FrameBytes, Named
<1>7. PICK t : Joins(t, buffer, Len(buffer), wire, Len(wire)) /\ Flow(a, t)
  BY <1>1 DEF HasRead
<1>8. \/ Len(sent) = a /\ t = <<>>
      \/ Len(sent) = a + 1 /\ t = FrameBytes(a + 1)
  <2>1. Len(t) = Len(buffer) + Len(wire)
    BY <1>7 DEF Joins
  <2>2. Len(buffer) \in Nat /\ Len(wire) \in Nat /\ Len(buffer) < Width /\ Width \in Nat
    BY <1>1, Widths DEF HasRead, Bytes
  <2>3. ~(Len(t) = Width + Width)
    BY <1>5, <2>1, <2>2
  <2>4. ~Joins(t, FrameBytes(a + 1), Width, FrameBytes(a + 2), Width)
    BY <2>3 DEF Joins
  <2> QED
    BY ONLY <1>7, <2>4 DEF Flow
<1> DEFINE f == FrameBytes(Len(sent) + 1)
<1>9. f \in Seq(Int) /\ Len(f) = Width /\ Width \in Nat
  <2>1. Len(sent) + 1 \in Nat \ {0}
    BY <1>4
  <2> QED
    BY <2>1, Widths DEF Framed
<1>10. a <= Len(sent)
  BY <1>8
<1>11. wire \in Seq(Int) /\ buffer \in Seq(Int)
  BY <1>1 DEF HasRead, Bytes
<1>12. t \in Seq(Int)
  BY <1>7 DEF Joins
<1> HIDE DEF f
<1>13. /\ wire' \in Seq(Int) /\ Len(wire') = Len(wire) + Width
       /\ \A i \in 1 .. Len(wire) : wire'[i] = wire[i]
       /\ \A i \in 1 .. Width : wire'[Len(wire) + i] = f[i]
  <2>1. wire' = wire \o f
    BY <1>3 DEF f
  <2>2. wire \in Seq(Int) /\ f \in Seq(Int) /\ Len(f) = Width
    BY <1>9, <1>11
  <2> QED
    BY ONLY <2>1, <2>2, JoinedBytes
<1>14. PICK u : /\ u \in Seq(Int) /\ Len(u) = Len(t) + Width
                /\ \A i \in 1 .. Len(t) : u[i] = t[i]
                /\ \A i \in 1 .. Width : u[Len(t) + i] = f[i]
  <2> DEFINE v == t \o f
  <2>1. t \in Seq(Int) /\ f \in Seq(Int) /\ Len(f) = Width
    BY <1>9, <1>12
  <2>2. /\ v \in Seq(Int) /\ Len(v) = Len(t) + Width
        /\ \A i \in 1 .. Len(t) : v[i] = t[i]
        /\ \A i \in 1 .. Width : v[Len(t) + i] = f[i]
    BY ONLY <2>1, JoinedBytes
  <2> HIDE DEF v
  <2> QED
    BY <2>2
<1>15. Joins(u, buffer, Len(buffer), wire', Len(wire'))
  <2>1. /\ Len(t) = Len(buffer) + Len(wire) /\ Len(buffer) \in Nat /\ Len(wire) \in Nat
        /\ \A i \in 1 .. Len(buffer) : t[i] = buffer[i]
        /\ \A i \in 1 .. Len(wire) : t[Len(buffer) + i] = wire[i]
    BY <1>7, <1>11 DEF Joins
  <2>2. Len(u) = Len(buffer) + Len(wire')
    BY <1>9, <1>13, <1>14, <2>1
  <2>3. ASSUME NEW i \in 1 .. Len(buffer) PROVE u[i] = buffer[i]
    <3>1. i \in 1 .. Len(t)
      BY <2>1
    <3> QED
      BY <1>14, <2>1, <3>1
  <2>4. ASSUME NEW i \in 1 .. Len(wire') PROVE u[Len(buffer) + i] = wire'[i]
    <3>1. CASE i <= Len(wire)
      <4>1. i \in 1 .. Len(wire) /\ Len(buffer) + i \in 1 .. Len(t)
        BY <2>1, <3>1
      <4> QED
        BY <1>13, <1>14, <2>1, <4>1
    <3>2. CASE i > Len(wire)
      <4>1. PICK k \in 1 .. Width : i = Len(wire) + k
        <5>1. i - Len(wire) \in 1 .. Width /\ i = Len(wire) + (i - Len(wire))
          BY <1>9, <1>13, <2>1, <3>2
        <5> QED
          BY <5>1
      <4>2. Len(buffer) + i = Len(t) + k
        BY <2>1, <4>1
      <4>3. u[Len(t) + k] = f[k] /\ wire'[Len(wire) + k] = f[k]
        BY <1>13, <1>14
      <4> QED
        BY <4>1, <4>2, <4>3
    <3> QED
      BY <2>1, <3>1, <3>2
  <2> QED
    BY <1>14, <2>2, <2>3, <2>4 DEF Joins
<1>16. Flow(a, u)'
  <2>1. CASE Len(sent) = a /\ t = <<>>
    <3>1. Len(t) = 0
      BY <2>1
    <3>2. Len(u) = Width /\ \A i \in 1 .. Width : u[i] = f[i]
      <4>1. \A i \in 1 .. Width : Len(t) + i = i
        BY <1>9, <3>1
      <4> QED
        BY <1>9, <1>14, <3>1, <4>1
    <3>3. u = f
      BY <1>9, <1>14, <3>2, SameBytes
    <3>4. Len(sent') = a + 1 /\ f = FrameBytes(a + 1)
      BY <1>4, <2>1 DEF f
    <3>5. FrameBytes(a + 1)' = FrameBytes(a + 1)
      BY <1>6
    <3> QED
      BY <3>3, <3>4, <3>5 DEF Flow
  <2>2. CASE Len(sent) = a + 1 /\ t = FrameBytes(a + 1)
    <3>1. Len(t) = Width
      <4>1. a + 1 \in Nat \ {0}
        OBVIOUS
      <4> QED
        BY <2>2, <4>1, Widths DEF Framed
    <3>2. Len(sent') = a + 2 /\ f = FrameBytes(a + 2)
      <4>1. Len(sent) + 1 = a + 2
        BY <2>2
      <4> QED
        BY <1>4, <4>1 DEF f
    <3>3. Joins(u, FrameBytes(a + 1), Width, FrameBytes(a + 2), Width)
      BY <1>14, <2>2, <3>1, <3>2 DEF Joins
    <3>4. FrameBytes(a + 1)' = FrameBytes(a + 1) /\ FrameBytes(a + 2)' = FrameBytes(a + 2)
      BY <1>6
    <3>5. Joins(u, FrameBytes(a + 1), Width, FrameBytes(a + 2), Width)'
      BY <1>6, <3>3, <3>4 DEF Joins
    <3> QED
      BY <3>2, <3>5 DEF Flow
  <2> QED
    BY <1>8, <2>1, <2>2
<1>17. Taken(a, Here)'
  <2>1. PICK x : x = Here
    OBVIOUS
  <2>2. Taken(a, x)
    BY <1>1, <2>1 DEF HasRead
  <2>3. \A k \in 1 .. a : sent'[k] = sent[k]
    BY <1>4, <1>10
  <2>4. Taken(a, x)'
    BY <1>5, <2>2, <2>3, TakenStays
  <2> QED
    BY <1>5, <2>1, <2>4
<1>18. \A n \in 1 .. a : sent'[n].kind # "junk"
  <2>1. \A n \in 1 .. a : sent'[n] = sent[n]
    BY <1>4, <1>10
  <2> QED
    BY <1>1, <2>1 DEF HasRead
<1>19. /\ Bytes(buffer)' /\ Bytes(wire)' /\ (Len(buffer) < Width)'
       /\ (received = a * Width + Len(buffer))'
  BY <1>1, <1>5, <1>6, <1>13 DEF HasRead, Bytes
<1>20. \E v : Joins(v, buffer, Len(buffer), wire, Len(wire))' /\ Flow(a, v)'
  <2>1. Joins(u, buffer, Len(buffer), wire, Len(wire))'
    BY <1>5, <1>15 DEF Joins
  <2> QED
    BY <1>16, <2>1
<1>21. HasRead(a)'
  BY <1>17, <1>18, <1>19, <1>20 DEF HasRead
<1> QED
  BY <1>4, <1>5, <1>21 DEF ReadInv

\* What the loop holds has two parts, and keeps them.
TwoParts(x) == x = [stream |-> x.stream, reader |-> x.reader]

LEMMA TakeParts == ASSUME NEW x, NEW n, TwoParts(x) PROVE TwoParts(Take(x, n))
<1>1. CASE n = NOTHING \/ sent[n].kind = "ping"
  BY <1>1 DEF Take
<1>2. CASE ~(n = NOTHING \/ sent[n].kind = "ping")
  <2>1. Take(x, n) = TakeFrame(x, n)
    BY <1>2 DEF Take
  <2>2. \E r, s : TakeFrame(x, n) = [stream |-> s, reader |-> r]
    <3>1. CASE sent[n].kind = "chunk"
      <4> DEFINE s == IngestChunk(x.stream, sent[n], n).stream
                 r == ReadAll(x.reader, IngestChunk(x.stream, sent[n], n).events)
      <4>1. TakeFrame(x, n) = [stream |-> s, reader |-> r]
        BY <3>1 DEF TakeFrame
      <4> HIDE DEF s, r
      <4> QED
        BY <4>1
    <3>2. CASE sent[n].kind # "chunk"
      <4>1. PICK r : TakeFrame(x, n) = [x EXCEPT !.reader = r]
        BY <3>2 DEF TakeFrame
      <4>2. PICK y : y = [stream |-> x.stream, reader |-> x.reader]
        OBVIOUS
      <4>3. [y EXCEPT !.reader = r] = [stream |-> x.stream, reader |-> r]
        BY <4>2
      <4> QED
        BY <4>1, <4>2, <4>3 DEF TwoParts
    <3> QED
      BY <3>1, <3>2
  <2> QED
    BY <2>1, <2>2 DEF TwoParts
<1> QED
  BY <1>1, <1>2

\* The k frames that follow the first a are cut off x, and z is left of it, with the
\* bytes u from there on.
CutOff(a, x, y, k, z, u) ==
    /\ Cut[x].rest = z /\ Bytes(z) /\ Len(z) < Width /\ Len(x) = k * Width + Len(z)
    /\ Joins(u, z, Len(z), y, Len(y)) /\ Flow(a + k, u)
    /\ k = 0 => Cut[x].frames = <<>>
    /\ k = 1 => Cut[x].frames = <<a + 1>>
    /\ k = 2 => Cut[x].frames = <<a + 1, a + 2>>

\* What a chunk cuts off: no frame, one or two.
LEMMA ChunkCut ==
    ASSUME TypeOK, NEW a \in Nat, NEW x, NEW y, NEW t, Bytes(x), Bytes(y),
           Joins(t, x, Len(x), y, Len(y)), Flow(a, t), Len(sent) # a
    PROVE  \E k \in 0 .. 2 : \E z, u : CutOff(a, x, y, k, z, u)
<1> DEFINE f == FrameBytes(a + 1)
           g == FrameBytes(a + 2)
           n == a + 1
           m == a + 2
<1>1. /\ Framed(f, ending, Width, n) /\ Framed(g, ending, Width, m)
      /\ Width \in Nat /\ Width > 0 /\ ending \in {"lf", "crlf"}
      /\ n \in Nat /\ m \in Nat /\ n = a + 1 /\ m = a + 2
  <2>1. a + 1 \in Nat \ {0} /\ a + 2 \in Nat \ {0}
    OBVIOUS
  <2> QED
    BY <2>1, Widths
<1>2. g \in Seq(Int) /\ Len(g) = Width /\ f \in Seq(Int) /\ Len(f) = Width
  BY <1>1 DEF Framed
<1>3. PICK e : e = <<>> /\ Bytes(e) /\ Len(e) = 0
  <2>1. <<>> \in Seq(Int) /\ Len(<<>>) = 0
    OBVIOUS
  <2> QED
    BY <2>1 DEF Bytes
<1>4. Flow(a, t) => \/ Len(sent) = n /\ t = f
                    \/ Len(sent) = m /\ Joins(t, f, Width, g, Width)
  BY DEF Flow
<1> HIDE DEF f, g, n, m
<1>5. Len(x) \in Nat /\ Len(y) \in Nat
  BY DEF Bytes
<1>6. CASE Len(x) < Width /\ Cut[x].frames = <<>> /\ Cut[x].rest = x
  <2>1. 0 * Width + Len(x) = Len(x) /\ a + 0 = a
    BY <1>1, <1>5
  <2>2. CutOff(a, x, y, 0, x, t)
    BY <1>6, <2>1 DEF CutOff
  <2> QED
    BY <2>2
<1>7. CASE Len(sent) = n /\ t = f
  <2>1. \/ Len(x) < Width /\ Cut[x].frames = <<>> /\ Cut[x].rest = x
        \/ Len(x) = Width /\ Cut[x].frames = <<n>> /\ Cut[x].rest = <<>> /\ y = <<>>
    <3>1. OneComes(f, n, ending, Width, x, y)
      BY <1>1, <1>7 DEF OneComes
    <3>2. OneCame(n, Width, x, y)
      BY ONLY <3>1, ChunkOfOne
    <3> QED
      BY ONLY <3>2 DEF OneCame
  <2>2. CASE Len(x) = Width /\ Cut[x].frames = <<n>> /\ Cut[x].rest = <<>> /\ y = <<>>
    <3>1. Joins(e, e, Len(e), y, Len(y))
      BY <1>3, <2>2 DEF Joins, Bytes
    <3>2. Flow(a + 1, e)
      BY <1>1, <1>3, <1>7 DEF Flow
    <3>3. Len(x) = 1 * Width + Len(e) /\ Len(e) < Width
      BY <1>1, <1>3, <2>2
    <3>4. CutOff(a, x, y, 1, e, e)
      BY <1>3, <2>2, <3>1, <3>2, <3>3 DEF CutOff, n
    <3> QED
      BY <3>4
  <2> QED
    BY <1>6, <2>1, <2>2
<1>8. CASE Len(sent) = m /\ Joins(t, f, Width, g, Width)
  <2>1. \/ Len(x) < Width /\ Cut[x].frames = <<>> /\ Cut[x].rest = x
        \/ \E z : /\ Len(z) < Width /\ Len(x) = Width + Len(z) /\ Bytes(z)
                  /\ Cut[x].frames = <<n>> /\ Cut[x].rest = z
                  /\ Joins(g, z, Len(z), y, Len(y))
        \/ /\ Len(x) = Width + Width /\ y = <<>>
           /\ Cut[x].frames = <<n, m>> /\ Cut[x].rest = <<>>
    <3>1. TwoCome(f, n, g, m, ending, Width, x, y)
      BY <1>1, <1>8 DEF TwoCome
    <3>2. TwoCame(n, g, m, Width, x, y)
      BY ONLY <3>1, ChunkOfTwo
    <3> QED
      BY ONLY <3>2 DEF TwoCame
  <2>2. ASSUME NEW z, Len(z) < Width, Len(x) = Width + Len(z), Bytes(z),
               Cut[x].frames = <<n>>, Cut[x].rest = z, Joins(g, z, Len(z), y, Len(y))
        PROVE  CutOff(a, x, y, 1, z, g)
    <3>1. Flow(a + 1, g)
      <4>1. Len(sent) = (a + 1) + 1 /\ g = FrameBytes((a + 1) + 1)
        <5>1. (a + 1) + 1 = a + 2
          OBVIOUS
        <5> QED
          BY <1>1, <1>8, <5>1 DEF g
      <4> QED
        BY <4>1 DEF Flow
    <3>2. Len(x) = 1 * Width + Len(z)
      BY <1>1, <2>2
    <3> QED
      BY <2>2, <3>1, <3>2 DEF CutOff, n
  <2>3. CASE /\ Len(x) = Width + Width /\ y = <<>>
             /\ Cut[x].frames = <<n, m>> /\ Cut[x].rest = <<>>
    <3>1. Joins(e, e, Len(e), y, Len(y))
      BY <1>3, <2>3 DEF Joins, Bytes
    <3>2. Flow(a + 2, e)
      BY <1>1, <1>3, <1>8 DEF Flow
    <3>3. Len(x) = 2 * Width + Len(e) /\ Len(e) < Width
      BY <1>1, <1>3, <2>3
    <3>4. CutOff(a, x, y, 2, e, e)
      BY <1>3, <2>3, <3>1, <3>2, <3>3 DEF CutOff, n, m
    <3> QED
      BY <3>4
  <2>4. ASSUME NEW z, CutOff(a, x, y, 1, z, g)
        PROVE  \E k \in 0 .. 2 : \E v, u : CutOff(a, x, y, k, v, u)
    BY <2>4
  <2> QED
    BY <1>6, <2>1, <2>2, <2>3, <2>4
<1> QED
  BY <1>4, <1>7, <1>8

LEMMA ChunkRead == ASSUME TypeOK, ReadInv, NEW size \in 1 .. Len(wire), ChunkArrives(size) PROVE ReadInv'
<1>1. phase = "streaming" /\ UNCHANGED setting
  BY DEF ChunkArrives
<1>2. PICK x : x = buffer \o SubSeq(wire, 1, size)
  OBVIOUS
<1>3. PICK y : y = SubSeq(wire, size + 1, Len(wire))
  OBVIOUS
<1>4. CASE Unreadable(Cut[x].frames)
  <2>1. Dropped /\ phase' = "failed"
    BY <1>2, <1>4 DEF ChunkArrives
  <2> QED
    BY <2>1, DroppedRead
<1>5. CASE ~Unreadable(Cut[x].frames)
  <2>1. PICK a \in Nat : HasRead(a)
    BY <1>1 DEF ReadInv
  <2>2. /\ wire' = y /\ received' = received + size /\ buffer' = Cut[x].rest
        /\ stream' = TakeAll(Here, Cut[x].frames).stream
        /\ reader' = TakeAll(Here, Cut[x].frames).reader
        /\ phase' = phase /\ sent' = sent
    BY <1>2, <1>3, <1>5 DEF ChunkArrives, Here
  <2>3. buffer \in Seq(Int) /\ wire \in Seq(Int) /\ Len(buffer) \in Nat /\ Len(wire) \in Nat
    BY <2>1 DEF HasRead, Bytes
  <2>4. PICK t : Joins(t, buffer, Len(buffer), wire, Len(wire)) /\ Flow(a, t)
    BY <2>1 DEF HasRead
  <2>5. /\ Bytes(x) /\ Bytes(y) /\ Joins(t, x, Len(x), y, Len(y))
        /\ Len(x) = Len(buffer) + size
    <3>1. Moved(buffer, wire, size, x, y)
      BY <1>2, <1>3, <2>3 DEF Moved, Bytes
    <3> QED
      BY ONLY <2>4, <3>1, Regroup
  <2>6. Len(sent) # a
    <3>1. CASE Len(sent) = a /\ t = <<>>
      <4>1. Len(t) = 0
        BY <3>1
      <4>2. Len(t) = Len(buffer) + Len(wire)
        BY <2>4 DEF Joins
      <4>3. Len(wire) \in Nat /\ Len(wire) >= 1
        BY <2>3
      <4>4. Len(buffer) \in Nat
        BY <2>3
      <4> QED
        BY ONLY <4>1, <4>2, <4>3, <4>4
    <3> QED
      BY <2>4, <3>1 DEF Flow
  <2>7a. PICK k \in 0 .. 2 : \E z, u : CutOff(a, x, y, k, z, u)
    BY <2>4, <2>5, <2>6, ChunkCut
  <2>7b. PICK z, u : CutOff(a, x, y, k, z, u)
    BY <2>7a
  <2>7. /\ Cut[x].rest = z /\ Bytes(z) /\ Len(z) < Width /\ Len(x) = k * Width + Len(z)
        /\ Joins(u, z, Len(z), y, Len(y)) /\ Flow(a + k, u)
        /\ k = 0 => Cut[x].frames = <<>>
        /\ k = 1 => Cut[x].frames = <<a + 1>>
        /\ k = 2 => Cut[x].frames = <<a + 1, a + 2>>
    BY <2>7b DEF CutOff
  <2>8. Width' = Width /\ \A n : FrameBytes(n)' = FrameBytes(n)
    BY <1>1 DEF setting, Width, FrameBytes, Named
  <2>9. /\ Bytes(buffer)' /\ Bytes(wire)' /\ (Len(buffer) < Width)'
        /\ (\E v : Joins(v, buffer, Len(buffer), wire, Len(wire)) /\ Flow(a + k, v))'
    <3>1. Flow(a + k, u)'
      BY <2>2, <2>7, <2>8 DEF Flow
    <3>2. Joins(u, buffer, Len(buffer), wire, Len(wire))'
      BY <2>2, <2>7 DEF Joins
    <3> QED
      BY <2>2, <2>5, <2>7, <2>8, <3>1, <3>2 DEF Bytes
  <2>10. (received = (a + k) * Width + Len(buffer))'
    <3>1. PICK w \in {4, 6, 9} : w = Width
      BY Widths
    <3>2. PICK r \in Nat, s \in Nat, p \in Nat :
             r = Len(buffer) /\ s = Len(z) /\ p = size /\ received = a * w + r /\ r + p = k * w + s
      <4>1. size \in Nat /\ Len(z) \in Nat
        BY <2>3, <2>7 DEF Bytes
      <4>2. received = a * Width + Len(buffer) /\ Len(buffer) + size = k * Width + Len(z)
        BY <2>1, <2>5, <2>7 DEF HasRead
      <4> QED
        BY <2>3, <3>1, <4>1, <4>2
    <3>3. received + p = (a + k) * w + s
      <4>1. CASE w = 4
        BY <3>2, <4>1
      <4>2. CASE w = 6
        BY <3>2, <4>2
      <4>3. CASE w = 9
        BY <3>2, <4>3
      <4> QED
        BY <4>1, <4>2, <4>3
    <3>4. received' = received + p /\ Len(buffer)' = s
      BY <2>2, <2>7, <3>2
    <3> QED
      BY <2>8, <3>1, <3>3, <3>4
  <2>11. PICK h : h = Here /\ TwoParts(h) /\ Taken(a, h)
    <3>1. TwoParts(Here)
      BY DEF TwoParts, Here
    <3>2. Taken(a, Here)
      BY <2>1 DEF HasRead
    <3> QED
      BY <3>1, <3>2
  <2>12. PICK i : i = Take(h, a + 1) /\ TwoParts(i) /\ Taken(a + 1, i)
    BY <2>11, TakeParts, TakenMore
  <2>13. PICK j : j = Take(i, a + 2) /\ TwoParts(j) /\ Taken(a + 2, j)
    <3>1. a + 1 \in Nat /\ (a + 1) + 1 = a + 2
      OBVIOUS
    <3>2. Taken((a + 1) + 1, Take(i, (a + 1) + 1))
      BY <2>12, <3>1, TakenMore
    <3>3. TwoParts(Take(i, a + 2))
      BY <2>12, TakeParts
    <3> QED
      BY <3>1, <3>2, <3>3
  <2>14. Taken(a + k, Here)'
    <3> DEFINE o == TakeAll(h, Cut[x].frames)
    <3>1. TwoParts(o) /\ Taken(a + k, o)
      <4>1. CASE k = 0
        <5>1. o = h /\ a + 0 = a
          BY <2>7, <4>1, TakeNothing
        <5> QED
          BY <2>11, <4>1, <5>1
      <4>2. CASE k = 1
        <5>1. o = i
          <6>1. PICK n : n = a + 1 /\ Cut[x].frames = <<n>>
            BY <2>7, <4>2
          <6>2. /\ TakeAll(h, <<>>) = h
                /\ TakeAll(h, <<n>>) = Take(h, n)
                /\ TakeAll(h, <<n, n>>) = Take(Take(h, n), n)
            BY ONLY TakeFew
          <6> QED
            BY <2>12, <6>1, <6>2
        <5> QED
          BY <2>12, <4>2, <5>1
      <4>3. CASE k = 2
        <5>1. o = j
          <6>1. PICK n, m : n = a + 1 /\ m = a + 2 /\ Cut[x].frames = <<n, m>>
            BY <2>7, <4>3
          <6>2. /\ TakeAll(h, <<>>) = h
                /\ TakeAll(h, <<n>>) = Take(h, n)
                /\ TakeAll(h, <<n, m>>) = Take(Take(h, n), m)
            BY ONLY TakeFew
          <6> QED
            BY <2>12, <2>13, <6>1, <6>2
        <5> QED
          BY <2>13, <4>3, <5>1
      <4> QED
        BY <4>1, <4>2, <4>3
    <3>2. PICK q : q = o
      OBVIOUS
    <3>3. Here' = q
      <4>1. stream' = q.stream /\ reader' = q.reader
        BY <2>2, <2>11, <3>2
      <4>2. q = [stream |-> q.stream, reader |-> q.reader]
        BY <3>1, <3>2 DEF TwoParts
      <4> QED
        BY <4>1, <4>2 DEF Here
    <3>4. Taken(a + k, q)'
      <4>1. a + k \in Nat /\ Taken(a + k, q)
        BY <3>1, <3>2
      <4>2. consumer' = consumer /\ sent' = sent
        BY <1>1, <2>2 DEF setting
      <4> HIDE DEF o
      <4> QED
        BY <4>1, <4>2, TakenStays
    <3> QED
      BY <3>3, <3>4
  <2>15. \A n \in 1 .. a + k : sent'[n].kind # "junk"
    <3>1. \A n \in 1 .. a : sent[n].kind # "junk"
      BY <2>1 DEF HasRead
    <3>2. k = 1 => sent[a + 1].kind # "junk"
      <4> SUFFICES ASSUME k = 1 PROVE sent[a + 1].kind # "junk"
        OBVIOUS
      <4>1. PICK s : s = <<a + 1>> /\ s = Cut[x].frames
        BY <2>7
      <4>2. 1 \in DOMAIN s /\ s[1] = a + 1 /\ a + 1 # NOTHING
        BY <4>1 DEF NOTHING
      <4> QED
        BY <1>5, <4>1, <4>2 DEF Unreadable
    <3>3. k = 2 => sent[a + 1].kind # "junk" /\ sent[a + 2].kind # "junk"
      <4> SUFFICES ASSUME k = 2 PROVE sent[a + 1].kind # "junk" /\ sent[a + 2].kind # "junk"
        OBVIOUS
      <4>1. PICK s : s = <<a + 1, a + 2>> /\ s = Cut[x].frames
        BY <2>7
      <4>2. /\ 1 \in DOMAIN s /\ s[1] = a + 1 /\ a + 1 # NOTHING
            /\ 2 \in DOMAIN s /\ s[2] = a + 2 /\ a + 2 # NOTHING
        BY <4>1 DEF NOTHING
      <4> QED
        BY <1>5, <4>1, <4>2 DEF Unreadable
    <3>4. ASSUME NEW n \in 1 .. a + k
          PROVE  n \in 1 .. a \/ (n = a + 1 /\ k \in {1, 2}) \/ (n = a + 2 /\ k = 2)
      OBVIOUS
    <3> QED
      BY <2>2, <3>1, <3>2, <3>3, <3>4
  <2>16. a + k \in Nat
    OBVIOUS
  <2>17. HasRead(a + k)'
    BY <2>9, <2>10, <2>14, <2>15 DEF HasRead
  <2> QED
    BY <1>1, <2>2, <2>16, <2>17 DEF ReadInv
<1> QED
  BY <1>4, <1>5

LEMMA NextRead == IInv /\ ReadInv /\ [Next]_vars => IInv' /\ ReadInv'
<1> SUFFICES ASSUME IInv, ReadInv, [Next]_vars PROVE IInv' /\ ReadInv'
  OBVIOUS
<1>1. IInv'
  BY NextKeeps
<1>2. TypeOK
  BY DEF IInv
<1>3. CASE SendRequest
  BY <1>1, <1>3, SendRead
<1>4. CASE Succeeds
  BY <1>1, <1>2, <1>4, SucceedsRead
<1>5. CASE FailsForNow \/ FailsForGood \/ MessageUnreadable
  BY <1>1, <1>5, FailsRead
<1>6. CASE ProviderWrites
  BY <1>1, <1>2, <1>6, WritesRead
<1>7. ASSUME NEW size \in 1 .. Len(wire), ChunkArrives(size) PROVE ReadInv'
  BY <1>2, <1>7, ChunkRead
<1>8. CASE BodyEnds \/ BodyBreaks
  BY <1>1, <1>8, EndsRead
<1>9. CASE WholeMessage
  BY <1>1, <1>9, WholeRead
<1>10. CASE UNCHANGED vars
  BY <1>1, <1>10, StutterRead
<1> QED
  BY <1>1, <1>3, <1>4, <1>5, <1>6, <1>7, <1>8, <1>9, <1>10 DEF Next

-----------------------------------------------------------------------------
\* Where the network cut a stream makes no difference to what is read of it: the loop
\* holds what the whole frames say that arrived, each once and in order, and the buffer
\* the beginning of the next (SseParser::push, next_sse_frame).
THEOREM FramesArriveAsSent == Spec => []FramesAsSent
<1>1. Init => IInv /\ ReadInv
  BY InitInv, InitRead
<1>2. IInv /\ ReadInv /\ [Next]_vars => IInv' /\ ReadInv'
  BY NextRead
<1>3. IInv /\ ReadInv => FramesAsSent
  BY ReadAsSent DEF IInv
<1> QED
  BY <1>1, <1>2, <1>3, PTL DEF Spec
\* A run of passes ends where the loop does.
Passes(loop, c, at, s, n) == c[0] = at /\ \A k \in 1 .. n : c[k] = Pass(loop, c[k - 1], s[k])

LEMMA LoopRun ==
    ASSUME NEW loop, NEW n \in Nat, NEW at, NEW s, DOMAIN s = 1 .. n
    PROVE  \E c : Passes(loop, c, at, s, n) /\ Looped(loop, at, s) = c[n]
BY LoopSteps DEF Passes

LEMMA LoopIs ==
    ASSUME NEW loop, NEW n \in Nat, NEW at, NEW s, DOMAIN s = 1 .. n, NEW c, Passes(loop, c, at, s, n)
    PROVE  Looped(loop, at, s) = c[n]
<1>1. PICK d : Passes(loop, d, at, s, n) /\ Looped(loop, at, s) = d[n]
  BY LoopRun
<1>2. c[0] = d[0] /\ \A k \in 1 .. n : c[k - 1] = d[k - 1] => c[k] = d[k]
  BY <1>1 DEF Passes
<1>3. c[n] = d[n]
  BY ONLY <1>2, n \in Nat, SameFold
<1> QED
  BY <1>1, <1>3

LEMMA LoopNone == ASSUME NEW loop, NEW at PROVE Looped(loop, at, <<>>) = at
<1>1. PICK n \in Nat : n = 0
  OBVIOUS
<1>2. DOMAIN <<>> = 1 .. n
  BY <1>1
<1>3. PICK c : Passes(loop, c, at, <<>>, n) /\ Looped(loop, at, <<>>) = c[n]
  BY ONLY n \in Nat, <1>2, LoopRun
<1> QED
  BY <1>1, <1>3 DEF Passes

LEMMA LoopOne == ASSUME NEW loop, NEW at, NEW e PROVE Looped(loop, at, <<e>>) = Pass(loop, at, e)
<1>1. PICK n \in Nat : n = 1
  OBVIOUS
<1>2. PICK s : s = <<e>>
  OBVIOUS
<1>3. DOMAIN s = 1 .. n /\ n \in 1 .. n /\ n - 1 = 0 /\ s[n] = e
  BY <1>1, <1>2
<1>4. PICK c : Passes(loop, c, at, s, n) /\ Looped(loop, at, s) = c[n]
  <2>1. DOMAIN s = 1 .. n
    BY <1>3
  <2> QED
    BY ONLY n \in Nat, <2>1, LoopRun
<1>5. c[n] = Pass(loop, c[n - 1], s[n]) /\ c[0] = at
  BY <1>3, <1>4 DEF Passes
<1> QED
  BY <1>2, <1>3, <1>4, <1>5

\* s is t and then u.
Joined(s, t, m, u, k) ==
    /\ m \in Nat /\ k \in Nat /\ DOMAIN t = 1 .. m /\ DOMAIN u = 1 .. k /\ DOMAIN s = 1 .. m + k
    /\ \A i \in 1 .. m : s[i] = t[i]
    /\ \A i \in 1 .. k : s[m + i] = u[i]

LEMMA LoopSplit ==
    ASSUME NEW loop, NEW at, NEW s, NEW t, NEW u, NEW m, NEW k, Joined(s, t, m, u, k)
    PROVE  Looped(loop, at, s) = Looped(loop, Looped(loop, at, t), u)
<1>1. /\ m \in Nat /\ k \in Nat /\ DOMAIN t = 1 .. m /\ DOMAIN u = 1 .. k /\ DOMAIN s = 1 .. m + k
      /\ \A i \in 1 .. m : s[i] = t[i]
      /\ \A i \in 1 .. k : s[m + i] = u[i]
      /\ m + k \in Nat
  BY DEF Joined
<1>2. PICK x : x = Looped(loop, at, t)
  OBVIOUS
<1>3. PICK c : /\ c[0] = at /\ \A i \in 1 .. m : c[i] = Pass(loop, c[i - 1], t[i])
               /\ x = c[m]
  <2>1. PICK c : Passes(loop, c, at, t, m) /\ Looped(loop, at, t) = c[m]
    BY ONLY <1>1, LoopRun
  <2> QED
    BY <1>2, <2>1 DEF Passes
<1>4. PICK d : /\ d[0] = x /\ \A i \in 1 .. k : d[i] = Pass(loop, d[i - 1], u[i])
               /\ Looped(loop, x, u) = d[k]
  <2>1. PICK d : Passes(loop, d, x, u, k) /\ Looped(loop, x, u) = d[k]
    BY ONLY <1>1, LoopRun
  <2> QED
    BY <2>1 DEF Passes
<1> DEFINE e == [i \in 0 .. m + k |-> IF i <= m THEN c[i] ELSE d[i - m]]
<1>5. /\ \A i \in 0 .. m : e[i] = c[i]
      /\ \A i \in 0 .. k : e[m + i] = d[i]
  <2>1. ASSUME NEW i \in 0 .. m PROVE e[i] = c[i]
    BY <1>1
  <2>2. ASSUME NEW i \in 0 .. k PROVE e[m + i] = d[i]
    <3>1. m + i \in 0 .. m + k /\ (m + i) - m = i
      BY <1>1
    <3>2. CASE i = 0
      BY <1>1, <1>3, <1>4, <3>1, <3>2
    <3>3. CASE i # 0
      <4>1. ~(m + i <= m)
        BY <1>1, <3>3
      <4> QED
        BY <3>1, <4>1
    <3> QED
      BY <3>2, <3>3
  <2> QED
    BY <2>1, <2>2
<1> HIDE DEF e
<1>6. ASSUME NEW i \in 1 .. m + k PROVE e[i] = Pass(loop, e[i - 1], s[i])
  <2>1. CASE i <= m
    <3>1. i \in 1 .. m /\ i \in 0 .. m /\ i - 1 \in 0 .. m
      BY <1>1, <2>1
    <3> QED
      BY <1>1, <1>3, <1>5, <3>1
  <2>2. CASE ~(i <= m)
    <3>1. PICK j \in 1 .. k : i = m + j
      <4>1. i - m \in 1 .. k /\ i = m + (i - m)
        BY <1>1, <2>2
      <4> QED
        BY <4>1
    <3>2. j \in 0 .. k /\ j - 1 \in 0 .. k /\ i - 1 = m + (j - 1)
      BY <1>1, <3>1
    <3>3. e[i] = d[j] /\ e[i - 1] = d[j - 1] /\ s[i] = u[j]
      BY <1>1, <1>5, <3>1, <3>2
    <3> QED
      BY <1>4, <3>3
  <2> QED
    BY <2>1, <2>2
<1>7. e[0] = at /\ e[m + k] = d[k]
  <2>1. 0 \in 0 .. m /\ k \in 0 .. k
    BY <1>1
  <2> QED
    BY <1>3, <1>5, <2>1
<1>8. Passes(loop, e, at, s, m + k)
  BY <1>6, <1>7 DEF Passes
<1>9. Looped(loop, at, s) = e[m + k]
  BY ONLY <1>1, <1>8, LoopIs
<1> QED
  BY <1>2, <1>4, <1>7, <1>9
-----------------------------------------------------------------------------
(* The loop over the events.                                               *)

UseEvents(r) == {k \in DOMAIN r.events : r.events[k].kind = "tool_use"}

AReader(r) ==
    /\ r = [events |-> r.events, pending |-> r.pending, thinking |-> r.thinking, saw_stop |-> r.saw_stop]
    /\ \E S : r.events \in Seq(S)

\* The loop holds the blocks of open, has said those of done, each with its pieces.
HeldBlocks(r, open, pieces) ==
    /\ \A b \in open :
          /\ Slot(consumer, b) \in DOMAIN r.pending
          /\ r.pending[Slot(consumer, b)] = [call |-> b, input |-> r.pending[Slot(consumer, b)].input]
          /\ r.pending[Slot(consumer, b)].input \in Seq(Nat)
          /\ Spells(r.pending[Slot(consumer, b)].input, pieces[b])
    /\ \A s \in DOMAIN r.pending : \E b \in open : s = Slot(consumer, b)

SaidBlocks(r, done, pieces) ==
    /\ \A k \in UseEvents(r) : r.events[k].call \in done /\ Spells(r.events[k].text, pieces[r.events[k].call])
    /\ \A b \in done : \E k \in UseEvents(r) : r.events[k].call = b
    /\ \A k, l \in UseEvents(r) : r.events[k].call = r.events[l].call => k = l

Holds(r, open, done, pieces) ==
    /\ AReader(r) /\ open \cap done = {}
    /\ HeldBlocks(r, open, pieces) /\ SaidBlocks(r, done, pieces)

\* The pieces of a text after one more.
LEMMA SpellsMore ==
    ASSUME NEW t \in Seq(Nat), NEW P, Spells(t, P), NEW n \in Nat, \A p \in P : p < n
    PROVE  t \o <<n>> \in Seq(Nat) /\ Spells(t \o <<n>>, P \cup {n})
<1>1. PICK u : u = t \o <<n>>
  OBVIOUS
<1>2. /\ u \in Seq(Nat) /\ Len(u) = Len(t) + 1 /\ Len(t) \in Nat
      /\ \A i \in 1 .. Len(t) : u[i] = t[i]
      /\ u[Len(t) + 1] = n
  BY <1>1
<1>3. DOMAIN t = 1 .. Len(t) /\ DOMAIN u = 1 .. Len(t) + 1
  BY <1>2
<1>4. Range(u) = P \cup {n}
  <2>1. Range(t) = P
    BY DEF Spells
  <2>2. ASSUME NEW x \in Range(u) PROVE x \in P \cup {n}
    <3>1. PICK i \in DOMAIN u : x = u[i]
      BY DEF Range
    <3>2. CASE i = Len(t) + 1
      BY <1>2, <3>1, <3>2
    <3>3. CASE i \in 1 .. Len(t)
      <4>1. t[i] \in Range(t)
        BY <1>3, <3>3 DEF Range
      <4> QED
        BY <1>2, <2>1, <3>1, <3>3, <4>1
    <3> QED
      BY <1>2, <1>3, <3>1, <3>2, <3>3
  <2>3. ASSUME NEW x \in P PROVE x \in Range(u)
    <3>1. PICK i \in DOMAIN t : x = t[i]
      BY <2>1 DEF Range
    <3>2. i \in DOMAIN u /\ u[i] = x
      BY <1>2, <1>3, <3>1
    <3> QED
      BY <3>2 DEF Range
  <2>4. n \in Range(u)
    <3>1. Len(t) + 1 \in DOMAIN u
      BY <1>2, <1>3
    <3> QED
      BY <1>2, <3>1 DEF Range
  <2> QED
    BY <2>2, <2>3, <2>4
<1>5. ASSUME NEW i \in DOMAIN u, NEW j \in DOMAIN u, i < j PROVE u[i] < u[j]
  <2>1. i \in 1 .. Len(t)
    BY <1>2, <1>3, <1>5
  <2>2. CASE j = Len(t) + 1
    <3>1. t[i] \in P
      BY <1>3, <2>1 DEF Spells, Range
    <3> QED
      BY <1>2, <2>1, <2>2, <3>1
  <2>3. CASE j \in 1 .. Len(t)
    BY <1>2, <1>3, <1>5, <2>1, <2>3 DEF Spells
  <2> QED
    BY <1>2, <1>3, <2>2, <2>3
<1> QED
  BY <1>1, <1>2, <1>4, <1>5 DEF Spells

LEMMA SpellsNothing == <<>> \in Seq(Nat) /\ Spells(<<>>, {})
BY DEF Spells, Range

\* Texts and thoughts are nothing to the tool blocks.
LEMMA SameHolds ==
    ASSUME NEW r, NEW q, NEW open, NEW done, NEW pieces, Holds(r, open, done, pieces),
           AReader(q), q.pending = r.pending, UseEvents(q) = UseEvents(r),
           \A k \in UseEvents(r) : q.events[k] = r.events[k]
    PROVE  Holds(q, open, done, pieces)
<1>1. HeldBlocks(q, open, pieces)
  BY DEF Holds, HeldBlocks
<1>2. SaidBlocks(q, done, pieces)
  BY DEF Holds, SaidBlocks
<1> QED
  BY <1>1, <1>2 DEF Holds

LEMMA AppendedEvent ==
    ASSUME NEW s, NEW e, \E S : s \in Seq(S)
    PROVE  /\ \E S : Append(s, e) \in Seq(S)
           /\ Len(s) \in Nat /\ DOMAIN s = 1 .. Len(s) /\ DOMAIN Append(s, e) = 1 .. Len(s) + 1
           /\ \A k \in DOMAIN s : Append(s, e)[k] = s[k]
           /\ Append(s, e)[Len(s) + 1] = e
<1>1. PICK S : s \in Seq(S)
  OBVIOUS
<1>2. s \in Seq(S \cup {e}) /\ e \in S \cup {e}
  BY <1>1
<1>3. Append(s, e) \in Seq(S \cup {e})
  BY <1>2
<1>4. /\ Len(s) \in Nat /\ DOMAIN s = 1 .. Len(s) /\ DOMAIN Append(s, e) = 1 .. Len(s) + 1
      /\ \A k \in DOMAIN s : Append(s, e)[k] = s[k]
      /\ Append(s, e)[Len(s) + 1] = e
  BY <1>2
<1> QED
  BY <1>3, <1>4

LEMMA SaidIs ==
    ASSUME NEW r, AReader(r), NEW kind, NEW call, NEW text
    PROVE  /\ AReader(Said(r, kind, call, text))
           /\ Said(r, kind, call, text).pending = r.pending
           /\ Said(r, kind, call, text).events = Append(r.events, AssistantEvent(kind, call, text))
<1>1. PICK e : e = Append(r.events, AssistantEvent(kind, call, text))
  OBVIOUS
<1>2. Said(r, kind, call, text)
        = [events |-> e, pending |-> r.pending, thinking |-> r.thinking, saw_stop |-> r.saw_stop]
  <2>1. PICK x, p, t, z : x = r.events /\ p = r.pending /\ t = r.thinking /\ z = r.saw_stop
                          /\ r = [events |-> x, pending |-> p, thinking |-> t, saw_stop |-> z]
    BY DEF AReader
  <2>2. Said(r, kind, call, text) = [r EXCEPT !.events = e]
    BY <1>1 DEF Said
  <2>3. [r EXCEPT !.events = e] = [events |-> e, pending |-> p, thinking |-> t, saw_stop |-> z]
    BY <2>1
  <2> QED
    BY <2>1, <2>2, <2>3
<1>3. \E S : e \in Seq(S)
  BY <1>1, AppendedEvent DEF AReader
<1> QED
  BY <1>1, <1>2, <1>3 DEF AReader

LEMMA SaidOther ==
    ASSUME NEW r, NEW open, NEW done, NEW pieces, Holds(r, open, done, pieces),
           NEW kind, kind # "tool_use", NEW call, NEW text
    PROVE  Holds(Said(r, kind, call, text), open, done, pieces)
<1>1. PICK q : q = Said(r, kind, call, text)
  OBVIOUS
<1>2. PICK e : e = AssistantEvent(kind, call, text)
  OBVIOUS
<1>3. AReader(q) /\ q.pending = r.pending /\ q.events = Append(r.events, e)
  BY <1>1, <1>2, SaidIs DEF Holds
<1>4. /\ Len(r.events) \in Nat /\ DOMAIN r.events = 1 .. Len(r.events)
      /\ DOMAIN q.events = 1 .. Len(r.events) + 1
      /\ \A k \in DOMAIN r.events : q.events[k] = r.events[k]
      /\ q.events[Len(r.events) + 1] = e
  <2>1. \E S : r.events \in Seq(S)
    BY DEF Holds, AReader
  <2> QED
    BY <1>3, <2>1, AppendedEvent
<1>5. e.kind # "tool_use"
  BY <1>2 DEF AssistantEvent
<1>6. UseEvents(q) = UseEvents(r)
  <2>1. \A k \in DOMAIN q.events : k \in DOMAIN r.events \/ k = Len(r.events) + 1
    BY <1>4
  <2>2. \A k \in DOMAIN r.events : k \in DOMAIN q.events
    BY <1>4
  <2> QED
    BY <1>4, <1>5, <2>1, <2>2 DEF UseEvents
<1>7. \A k \in UseEvents(r) : q.events[k] = r.events[k]
  BY <1>4 DEF UseEvents
<1> QED
  BY <1>1, <1>3, <1>6, <1>7, SameHolds
\* What each event does to the loop.
LEMMA HearsStart ==
    ASSUME NEW r, NEW b PROVE Hears(r, Start(b, "tool")) = Opened(r, Slot(consumer, b), b)
BY DEF Hears, Read, Start, Event

LEMMA HearsDelta ==
    ASSUME NEW r, NEW b, NEW t PROVE Hears(r, Delta(b, "tool", t)) = Extended(r, Slot(consumer, b), t)
BY DEF Hears, Read, Delta, Event

LEMMA HearsStop ==
    ASSUME NEW r, NEW b PROVE Hears(r, Stop(b)) = Closed(r, Slot(consumer, b))
BY DEF Hears, Read, Stop, Event

LEMMA HearsTextStart ==
    ASSUME NEW r, NEW b PROVE Hears(r, Start(b, "text")) = r
BY DEF Hears, Read, Start, Event

LEMMA HearsText ==
    ASSUME NEW r, NEW b, NEW t PROVE Hears(r, Delta(b, "text", t)) = Said(r, "text", 0, t)
BY DEF Hears, Read, Delta, Event

LEMMA HearsThinking ==
    ASSUME NEW r, NEW b, NEW t PROVE Hears(r, Delta(b, "thinking", t)) = Thought(consumer, r, t)
BY DEF Hears, Read, Delta, Event

LEMMA HearsMessage ==
    ASSUME NEW r
    PROVE  /\ Hears(r, MessageStart) = r
           /\ Hears(r, MessageEnd[1]) = r
           /\ Hears(r, MessageEnd[2]) = [Said(Flushed(r), "stop", 0, <<>>) EXCEPT !.saw_stop = TRUE]
<1>1. Hears(r, MessageStart) = r
  BY DEF Hears, Read, MessageStart, Event
<1>2. MessageEnd[1] = Event("message_delta", 0, "none", <<>>)
      /\ MessageEnd[2] = Event("message_stop", 0, "none", <<>>)
  BY DEF MessageEnd
<1>3. Hears(r, MessageEnd[1]) = r
  BY <1>2 DEF Hears, Read, Event
<1>4. Hears(r, MessageEnd[2]) = [Said(Flushed(r), "stop", 0, <<>>) EXCEPT !.saw_stop = TRUE]
  BY <1>2 DEF Hears, Read, Event
<1> QED
  BY <1>1, <1>3, <1>4

\* A reader with other pending blocks, thoughts or stop.
LEMMA Changed ==
    ASSUME NEW r, AReader(r)
    PROVE  /\ \A p : [r EXCEPT !.pending = p] = [events |-> r.events, pending |-> p, thinking |-> r.thinking, saw_stop |-> r.saw_stop]
           /\ \A t : [r EXCEPT !.thinking = t] = [events |-> r.events, pending |-> r.pending, thinking |-> t, saw_stop |-> r.saw_stop]
           /\ \A z : [r EXCEPT !.saw_stop = z] = [events |-> r.events, pending |-> r.pending, thinking |-> r.thinking, saw_stop |-> z]
<1>1. PICK x, v, u, y : x = r.events /\ v = r.pending /\ u = r.thinking /\ y = r.saw_stop
                        /\ r = [events |-> x, pending |-> v, thinking |-> u, saw_stop |-> y]
  BY DEF AReader
<1> QED
  BY <1>1

LEMMA OtherHolds ==
    ASSUME NEW r, NEW open, NEW done, NEW pieces, Holds(r, open, done, pieces)
    PROVE  /\ \A t : Holds([r EXCEPT !.thinking = t], open, done, pieces)
           /\ \A z : Holds([r EXCEPT !.saw_stop = z], open, done, pieces)
<1>1. ASSUME NEW q, q.events = r.events, q.pending = r.pending,
             q = [events |-> q.events, pending |-> q.pending, thinking |-> q.thinking, saw_stop |-> q.saw_stop]
      PROVE  Holds(q, open, done, pieces)
  <2>1. AReader(q)
    BY <1>1 DEF Holds, AReader
  <2>2. UseEvents(q) = UseEvents(r)
    BY <1>1 DEF UseEvents
  <2> QED
    BY <1>1, <2>1, <2>2, SameHolds
<1>2. AReader(r)
  BY DEF Holds
<1>3. ASSUME NEW t PROVE Holds([r EXCEPT !.thinking = t], open, done, pieces)
  <2>1. PICK q : q = [r EXCEPT !.thinking = t]
    OBVIOUS
  <2>2. q = [events |-> r.events, pending |-> r.pending, thinking |-> t, saw_stop |-> r.saw_stop]
    BY <1>2, <2>1, Changed
  <2> QED
    BY <1>1, <2>1, <2>2
<1>4. ASSUME NEW z PROVE Holds([r EXCEPT !.saw_stop = z], open, done, pieces)
  <2>1. PICK q : q = [r EXCEPT !.saw_stop = z]
    OBVIOUS
  <2>2. q = [events |-> r.events, pending |-> r.pending, thinking |-> r.thinking, saw_stop |-> z]
    BY <1>2, <2>1, Changed
  <2> QED
    BY <1>1, <2>1, <2>2
<1> QED
  BY <1>3, <1>4

LEMMA FlushedHolds ==
    ASSUME NEW r, NEW open, NEW done, NEW pieces, Holds(r, open, done, pieces)
    PROVE  Holds(Flushed(r), open, done, pieces) /\ Holds(Ended(r), open, done, pieces)
<1>1. PICK f : f = Flushed(r)
  OBVIOUS
<1>2. Holds(f, open, done, pieces)
  <2>1. PICK q : q = Said(r, "thinking", 0, r.thinking)
    OBVIOUS
  <2>2. Holds(q, open, done, pieces)
    BY <2>1, SaidOther
  <2>3. Holds([q EXCEPT !.thinking = <<>>], open, done, pieces)
    BY <2>2, OtherHolds
  <2>4. f = r \/ f = [q EXCEPT !.thinking = <<>>]
    BY <1>1, <2>1 DEF Flushed
  <2> QED
    BY <2>3, <2>4
<1>3. Holds(Said(f, "stop", 0, <<>>), open, done, pieces)
  BY <1>2, SaidOther
<1>4. Ended(r) = f \/ Ended(r) = Said(f, "stop", 0, <<>>)
  BY <1>1 DEF Ended
<1> QED
  BY <1>1, <1>2, <1>3, <1>4

\* Events of other blocks and of the message.
Other(e) ==
    \/ e \in {MessageStart, MessageEnd[1], MessageEnd[2]}
    \/ \E b : e = Start(b, "text")
    \/ \E b, t : e = Delta(b, "text", t) \/ e = Delta(b, "thinking", t)

LEMMA HearOther ==
    ASSUME NEW r, NEW open, NEW done, NEW pieces, Holds(r, open, done, pieces), NEW e, Other(e)
    PROVE  Holds(Hears(r, e), open, done, pieces)
<1>1. CASE e = MessageStart \/ e = MessageEnd[1]
  BY <1>1, HearsMessage
<1>2. CASE e = MessageEnd[2]
  <2>1. PICK f : f = Said(Flushed(r), "stop", 0, <<>>)
    OBVIOUS
  <2>2. Holds(f, open, done, pieces)
    BY <2>1, FlushedHolds, SaidOther
  <2>3. Hears(r, e) = [f EXCEPT !.saw_stop = TRUE]
    BY <1>2, <2>1, HearsMessage
  <2> QED
    BY <2>2, <2>3, OtherHolds
<1>3. ASSUME NEW b, e = Start(b, "text") PROVE Holds(Hears(r, e), open, done, pieces)
  BY <1>3, HearsTextStart
<1>4. ASSUME NEW b, NEW t, e = Delta(b, "text", t) PROVE Holds(Hears(r, e), open, done, pieces)
  <2>1. Hears(r, e) = Said(r, "text", 0, t)
    BY <1>4, HearsText
  <2> QED
    BY <2>1, SaidOther
<1>5. ASSUME NEW b, NEW t, e = Delta(b, "thinking", t) PROVE Holds(Hears(r, e), open, done, pieces)
  <2>1. Hears(r, e) = Thought(consumer, r, t)
    BY <1>5, HearsThinking
  <2>2. PICK u : u = r.thinking \o t
    OBVIOUS
  <2>3. Thought(consumer, r, t) = r \/ Thought(consumer, r, t) = [r EXCEPT !.thinking = u]
    BY <2>2 DEF Thought
  <2> QED
    BY <2>1, <2>3, OtherHolds
<1> QED
  BY <1>1, <1>2, <1>3, <1>4, <1>5 DEF Other

\* A tool block opens: its slot is free.
LEMMA HearStart ==
    ASSUME NEW r, NEW open, NEW done, NEW pieces, Holds(r, open, done, pieces),
           NEW b, b \notin open, b \notin done, pieces[b] = {},
           \A c \in open : Slot(consumer, c) # Slot(consumer, b)
    PROVE  Holds(Hears(r, Start(b, "tool")), open \cup {b}, done, pieces)
<1>1. PICK s : s = Slot(consumer, b)
  OBVIOUS
<1>2. PICK p : p = [x \in DOMAIN r.pending \cup {s} |->
                      IF x = s THEN [call |-> b, input |-> <<>>] ELSE r.pending[x]]
  OBVIOUS
<1>3. PICK q : q = Hears(r, Start(b, "tool"))
  OBVIOUS
<1>4. AReader(r) /\ HeldBlocks(r, open, pieces) /\ SaidBlocks(r, done, pieces) /\ open \cap done = {}
  BY DEF Holds
<1>5. q = [events |-> r.events, pending |-> p, thinking |-> r.thinking, saw_stop |-> r.saw_stop]
  <2>1. q = Opened(r, s, b)
    BY <1>1, <1>3, HearsStart
  <2>2. Opened(r, s, b) = [r EXCEPT !.pending = p]
    BY <1>2 DEF Opened
  <2> QED
    BY <1>4, <2>1, <2>2, Changed
<1>6. AReader(q)
  BY <1>4, <1>5 DEF AReader
<1>7. SaidBlocks(q, done, pieces)
  <2>1. UseEvents(q) = UseEvents(r) /\ q.events = r.events
    BY <1>5 DEF UseEvents
  <2> QED
    BY <1>4, <2>1 DEF SaidBlocks
<1>8. DOMAIN p = DOMAIN r.pending \cup {s} /\ p[s] = [call |-> b, input |-> <<>>]
      /\ \A x \in DOMAIN r.pending : x # s => p[x] = r.pending[x]
  BY <1>2
<1>9. q.pending = p
  BY <1>5
<1>10. HeldBlocks(q, open \cup {b}, pieces)
  <2>1. ASSUME NEW c \in open \cup {b}
        PROVE  /\ Slot(consumer, c) \in DOMAIN p
               /\ p[Slot(consumer, c)] = [call |-> c, input |-> p[Slot(consumer, c)].input]
               /\ p[Slot(consumer, c)].input \in Seq(Nat)
               /\ Spells(p[Slot(consumer, c)].input, pieces[c])
    <3>1. CASE c = b
      <4>1. p[s].input = <<>>
        BY <1>8
      <4> QED
        BY <1>1, <1>8, <3>1, <4>1, SpellsNothing
    <3>2. CASE c \in open
      <4>1. Slot(consumer, c) # s
        BY <1>1, <3>2
      <4>2. Slot(consumer, c) \in DOMAIN r.pending
        BY <1>4, <3>2 DEF HeldBlocks
      <4>3. p[Slot(consumer, c)] = r.pending[Slot(consumer, c)]
        BY <1>8, <4>1, <4>2
      <4> QED
        BY <1>4, <1>8, <3>2, <4>2, <4>3 DEF HeldBlocks
    <3> QED
      BY <3>1, <3>2
  <2>2. \A x \in DOMAIN p : \E c \in open \cup {b} : x = Slot(consumer, c)
    BY <1>1, <1>4, <1>8 DEF HeldBlocks
  <2> QED
    BY <1>9, <2>1, <2>2 DEF HeldBlocks
<1> QED
  BY <1>3, <1>4, <1>6, <1>7, <1>10 DEF Holds
\* A piece comes for an open block.
LEMMA HearDelta ==
    ASSUME NEW r, NEW open, NEW done, NEW pieces, Holds(r, open, done, pieces),
           NEW b \in open, NEW n \in Nat, \A p \in pieces[b] : p < n,
           NEW more, more[b] = pieces[b] \cup {n}, \A c \in open \cup done : c # b => more[c] = pieces[c]
    PROVE  Holds(Hears(r, Delta(b, "tool", <<n>>)), open, done, more)
<1>1. PICK s : s = Slot(consumer, b)
  OBVIOUS
<1>2. AReader(r) /\ HeldBlocks(r, open, pieces) /\ SaidBlocks(r, done, pieces) /\ open \cap done = {}
  BY DEF Holds
<1>3. PICK t : t = r.pending[s].input
  OBVIOUS
<1>4. s \in DOMAIN r.pending /\ r.pending[s] = [call |-> b, input |-> t] /\ t \in Seq(Nat) /\ Spells(t, pieces[b])
  BY <1>1, <1>2, <1>3 DEF HeldBlocks
<1>5. PICK u : u = t \o <<n>> /\ u \in Seq(Nat) /\ Spells(u, more[b])
  <2>1. t \o <<n>> \in Seq(Nat) /\ Spells(t \o <<n>>, pieces[b] \cup {n})
    BY <1>4, SpellsMore
  <2> QED
    BY <2>1
<1>6. PICK p : p = [x \in DOMAIN r.pending |-> IF x = s THEN [call |-> b, input |-> u] ELSE r.pending[x]]
  OBVIOUS
<1>7. PICK q : q = Hears(r, Delta(b, "tool", <<n>>))
  OBVIOUS
<1>8. q = [events |-> r.events, pending |-> p, thinking |-> r.thinking, saw_stop |-> r.saw_stop]
  <2>1. q = Extended(r, s, <<n>>)
    BY <1>1, <1>7, HearsDelta
  <2>2. Extended(r, s, <<n>>) = [r EXCEPT !.pending[s].input = @ \o <<n>>]
    BY <1>4 DEF Extended
  <2>3. [r EXCEPT !.pending[s].input = @ \o <<n>>]
          = [r EXCEPT !.pending = [r.pending EXCEPT ![s] = [r.pending[s] EXCEPT !.input = u]]]
    <3>1. PICK y, v, w, z : y = r.events /\ v = r.pending /\ w = r.thinking /\ z = r.saw_stop
                            /\ r = [events |-> y, pending |-> v, thinking |-> w, saw_stop |-> z]
      BY <1>2 DEF AReader
    <3>2. PICK g : g = v[s]
      OBVIOUS
    <3>3. g.input \o <<n>> = u
      BY <1>3, <1>5, <3>1, <3>2
    <3> QED
      BY <3>1, <3>2, <3>3
  <2>4. [r.pending[s] EXCEPT !.input = u] = [call |-> b, input |-> u]
    BY <1>4
  <2>5. [r.pending EXCEPT ![s] = [call |-> b, input |-> u]] = p
    BY <1>6
  <2>6. q = [r EXCEPT !.pending = p]
    BY <2>1, <2>2, <2>3, <2>4, <2>5
  <2> QED
    BY <1>2, <2>6, Changed
<1>9. AReader(q) /\ q.pending = p
  BY <1>2, <1>8 DEF AReader
<1>10. SaidBlocks(q, done, more)
  <2>1. UseEvents(q) = UseEvents(r) /\ q.events = r.events
    BY <1>8 DEF UseEvents
  <2>2. \A k \in UseEvents(r) : more[r.events[k].call] = pieces[r.events[k].call]
    BY <1>2 DEF SaidBlocks
  <2> QED
    BY <1>2, <2>1, <2>2 DEF SaidBlocks
<1>11. HeldBlocks(q, open, more)
  <2>1. DOMAIN p = DOMAIN r.pending /\ p[s] = [call |-> b, input |-> u]
        /\ \A x \in DOMAIN r.pending : x # s => p[x] = r.pending[x]
    BY <1>4, <1>6
  <2>2. ASSUME NEW c \in open
        PROVE  /\ Slot(consumer, c) \in DOMAIN p
               /\ p[Slot(consumer, c)] = [call |-> c, input |-> p[Slot(consumer, c)].input]
               /\ p[Slot(consumer, c)].input \in Seq(Nat)
               /\ Spells(p[Slot(consumer, c)].input, more[c])
    <3>1. CASE c = b
      <4>1. p[s].input = u
        BY <2>1
      <4> QED
        BY <1>1, <1>4, <1>5, <2>1, <3>1, <4>1
    <3>2. CASE c # b
      <4>1. /\ Slot(consumer, c) \in DOMAIN r.pending
            /\ r.pending[Slot(consumer, c)] = [call |-> c, input |-> r.pending[Slot(consumer, c)].input]
        BY <1>2 DEF HeldBlocks
      <4>2. Slot(consumer, c) # s
        <5>1. r.pending[s].call = b /\ r.pending[Slot(consumer, c)].call = c
          BY <1>4, <4>1
        <5> QED
          BY <3>2, <5>1
      <4>3. p[Slot(consumer, c)] = r.pending[Slot(consumer, c)] /\ more[c] = pieces[c]
        BY <2>1, <3>2, <4>1, <4>2
      <4> QED
        BY <1>2, <2>1, <4>1, <4>3 DEF HeldBlocks
    <3> QED
      BY <3>1, <3>2
  <2>3. \A x \in DOMAIN p : \E c \in open : x = Slot(consumer, c)
    BY <1>2, <2>1 DEF HeldBlocks
  <2> QED
    BY <1>9, <2>2, <2>3 DEF HeldBlocks
<1> QED
  BY <1>2, <1>7, <1>9, <1>10, <1>11 DEF Holds

\* An open block stops, and its call is said.
LEMMA HearStop ==
    ASSUME NEW r, NEW open, NEW done, NEW pieces, Holds(r, open, done, pieces), NEW b \in open
    PROVE  Holds(Hears(r, Stop(b)), open \ {b}, done \cup {b}, pieces)
<1>1. PICK s : s = Slot(consumer, b)
  OBVIOUS
<1>2. AReader(r) /\ HeldBlocks(r, open, pieces) /\ SaidBlocks(r, done, pieces) /\ open \cap done = {}
  BY DEF Holds
<1>3. PICK t : t = r.pending[s].input
  OBVIOUS
<1>4. s \in DOMAIN r.pending /\ r.pending[s] = [call |-> b, input |-> t] /\ Spells(t, pieces[b])
  BY <1>1, <1>2, <1>3 DEF HeldBlocks
<1>5. PICK e : e = AssistantEvent("tool_use", b, t)
  OBVIOUS
<1>6. PICK m : m = Said(r, "tool_use", b, t)
  OBVIOUS
<1>7. AReader(m) /\ m.pending = r.pending /\ m.events = Append(r.events, e)
  BY <1>2, <1>5, <1>6, SaidIs
<1>8. PICK p : p = [x \in DOMAIN r.pending \ {s} |-> r.pending[x]]
  OBVIOUS
<1>9. PICK q : q = Hears(r, Stop(b))
  OBVIOUS
<1>10. q = [events |-> m.events, pending |-> p, thinking |-> m.thinking, saw_stop |-> m.saw_stop]
  <2>1. q = Closed(r, s)
    BY <1>1, <1>9, HearsStop
  <2>2. r.pending[s].call = b /\ r.pending[s].input = t
    BY <1>4
  <2>3. Closed(r, s) = [m EXCEPT !.pending = Without(@, s)]
    BY <1>4, <1>6, <2>2 DEF Closed
  <2>4. [m EXCEPT !.pending = Without(@, s)] = [m EXCEPT !.pending = p]
    <3>1. Without(m.pending, s) = p
      BY <1>7, <1>8 DEF Without
    <3> QED
      BY <3>1
  <2>5. q = [m EXCEPT !.pending = p]
    BY <2>1, <2>3, <2>4
  <2> QED
    BY <1>7, <2>5, Changed
<1>11. AReader(q) /\ q.pending = p /\ q.events = m.events
  BY <1>7, <1>10 DEF AReader
<1>12. /\ Len(r.events) \in Nat /\ DOMAIN r.events = 1 .. Len(r.events)
       /\ DOMAIN q.events = 1 .. Len(r.events) + 1
       /\ \A k \in DOMAIN r.events : q.events[k] = r.events[k]
       /\ q.events[Len(r.events) + 1] = e
  <2>1. \E S : r.events \in Seq(S)
    BY <1>2 DEF AReader
  <2> QED
    BY <1>7, <1>11, <2>1, AppendedEvent
<1>13. e.kind = "tool_use" /\ e.call = b /\ e.text = t
  BY <1>5 DEF AssistantEvent
<1>14. PICK l : l = Len(r.events) + 1
  OBVIOUS
<1>15. UseEvents(q) = UseEvents(r) \cup {l} /\ l \notin UseEvents(r)
       /\ \A k \in UseEvents(r) : q.events[k] = r.events[k]
  <2>1. \A k \in DOMAIN q.events : k \in DOMAIN r.events \/ k = l
    BY <1>12, <1>14
  <2>2. \A k \in DOMAIN r.events : k \in DOMAIN q.events
    BY <1>12
  <2>3. l \in DOMAIN q.events /\ l \notin DOMAIN r.events
    BY <1>12, <1>14
  <2>4. q.events[l] = e
    BY <1>12, <1>14
  <2> QED
    BY <1>12, <1>13, <2>1, <2>2, <2>3, <2>4 DEF UseEvents
<1>16. q.events[l] = e
  BY <1>12, <1>14
<1>17. b \notin done
  BY <1>2
<1>18. SaidBlocks(q, done \cup {b}, pieces)
  <2>1. ASSUME NEW k \in UseEvents(q)
        PROVE  q.events[k].call \in done \cup {b} /\ Spells(q.events[k].text, pieces[q.events[k].call])
    BY <1>2, <1>4, <1>13, <1>15, <1>16 DEF SaidBlocks
  <2>2. \A c \in done \cup {b} : \E k \in UseEvents(q) : q.events[k].call = c
    BY <1>2, <1>13, <1>15, <1>16 DEF SaidBlocks
  <2>3. ASSUME NEW k \in UseEvents(q), NEW j \in UseEvents(q), q.events[k].call = q.events[j].call
        PROVE  k = j
    <3>1. \A i \in UseEvents(r) : q.events[i].call # b
      BY <1>2, <1>15, <1>17 DEF SaidBlocks
    <3>2. CASE k = l \/ j = l
      BY <1>13, <1>15, <1>16, <2>3, <3>1, <3>2
    <3>3. CASE k \in UseEvents(r) /\ j \in UseEvents(r)
      BY <1>2, <1>15, <2>3, <3>3 DEF SaidBlocks
    <3> QED
      BY <1>15, <3>2, <3>3
  <2> QED
    BY <2>1, <2>2, <2>3 DEF SaidBlocks
<1>19. HeldBlocks(q, open \ {b}, pieces)
  <2>1. DOMAIN p = DOMAIN r.pending \ {s} /\ \A x \in DOMAIN r.pending : x # s => p[x] = r.pending[x]
    BY <1>8
  <2>2. ASSUME NEW c \in open \ {b}
        PROVE  Slot(consumer, c) \in DOMAIN p /\ p[Slot(consumer, c)] = r.pending[Slot(consumer, c)]
    <3>1. /\ Slot(consumer, c) \in DOMAIN r.pending
          /\ r.pending[Slot(consumer, c)] = [call |-> c, input |-> r.pending[Slot(consumer, c)].input]
      BY <1>2 DEF HeldBlocks
    <3>2. Slot(consumer, c) # s
      <4>1. r.pending[s].call = b /\ r.pending[Slot(consumer, c)].call = c
        BY <1>4, <3>1
      <4> QED
        BY <4>1
    <3> QED
      BY <2>1, <3>1, <3>2
  <2>3. ASSUME NEW x \in DOMAIN p PROVE \E c \in open \ {b} : x = Slot(consumer, c)
    <3>1. x \in DOMAIN r.pending /\ x # s
      BY <2>1
    <3>2. PICK c \in open : x = Slot(consumer, c)
      BY <1>2, <3>1 DEF HeldBlocks
    <3> QED
      BY <1>1, <3>1, <3>2
  <2> QED
    BY <1>2, <1>11, <2>2, <2>3 DEF HeldBlocks
<1>20. (open \ {b}) \cap (done \cup {b}) = {}
  BY <1>2
<1> QED
  BY <1>9, <1>11, <1>18, <1>19, <1>20 DEF Holds

\* A stop of a slot that holds nothing.
LEMMA HearStopNothing ==
    ASSUME NEW r, NEW open, NEW done, NEW pieces, Holds(r, open, done, pieces),
           NEW b, \A c \in open : Slot(consumer, c) # Slot(consumer, b)
    PROVE  Hears(r, Stop(b)) = r
<1>1. Slot(consumer, b) \notin DOMAIN r.pending
  BY DEF Holds, HeldBlocks
<1>2. Closed(r, Slot(consumer, b)) = r
  BY <1>1 DEF Closed
<1> QED
  BY <1>2, HearsStop

LEMMA FreshHolds == ASSUME NEW pieces PROVE Holds(NewReader, {}, {}, pieces)
<1>1. <<>> \in Seq({}) /\ DOMAIN <<>> = {}
  OBVIOUS
<1>2. AReader(NewReader)
  BY <1>1 DEF AReader, NewReader
<1>3. UseEvents(NewReader) = {} /\ DOMAIN NewReader.pending = {}
  BY <1>1 DEF UseEvents, NewReader
<1> QED
  BY <1>2, <1>3 DEF Holds, HeldBlocks, SaidBlocks
-----------------------------------------------------------------------------
(* What the provider has written.                                          *)

Opens(n) == sent[n].kind = "block_start"
Stopping(n) == sent[n].kind = "block_stop"
Ending(n) == sent[n].kind \in {"message_delta", "message_stop"}

\* The blocks opened, and the blocks stopped, by the first a frames of an Anthropic message.
OpenedBy(a) == {sent[n].index : n \in {m \in 1 .. a : Opens(m)}}
ToolsBy(a) == {sent[n].index : n \in {m \in 1 .. a : Opens(m) /\ sent[m].block = "tool"}}
StoppedBy(a) == {sent[n].index : n \in {m \in 1 .. a : Stopping(m)}}
EndingBy(a) == \E n \in 1 .. a : Ending(n)

\* Frame n continues an Anthropic message.
Continues(n) ==
    /\ sent[n].kind # "chunk"
    /\ Opens(n) =>
          /\ sent[n].index \in Nat \ (OpenedBy(n - 1) \cup StoppedBy(n - 1))
          /\ sent[n].block \in {"text", "tool"}
          /\ OpenedBy(n - 1) \subseteq StoppedBy(n - 1)
          /\ ~EndingBy(n - 1)
    /\ sent[n].kind = "delta" \/ Stopping(n) =>
          /\ sent[n].index \in OpenedBy(n - 1) \ StoppedBy(n - 1)
          /\ OpenedBy(n - 1) \subseteq StoppedBy(n - 1) \cup {sent[n].index}
          /\ ~EndingBy(n - 1)
    /\ sent[n].kind = "delta" =>
          /\ sent[n].block \in {"text", "tool"}
          /\ sent[n].block = "tool" <=> sent[n].index \in ToolsBy(n - 1)
    /\ Ending(n) => OpenedBy(n - 1) \subseteq StoppedBy(n - 1)

\* The calls named, and whether the answer was finished, by the first a chunks.
NamedBy(a) == {i \in CallIndices : \E n \in 1 .. a : \E d \in Deltas(n) : d.index = i}
FinishedBy(a) == \E n \in 1 .. a : sent[n].kind = "chunk" /\ sent[n].finish # "none"

\* Chunk n continues a chat completion.
ContinuesChunks(n) ==
    /\ sent[n].kind \in {"chunk", "done", "ping", "junk"}
    /\ sent[n].kind = "chunk" =>
          /\ ~FinishedBy(n - 1)
          /\ sent[n].content \in BOOLEAN /\ sent[n].reasoning \in BOOLEAN
          /\ sent[n].finish \in {"none", "stop", "tool_calls"}
          /\ sent[n].finish = "stop" => NamedBy(n) = {}
          /\ sent[n].tool_calls \in Seq([index : CallIndices, named : BOOLEAN, arguments : BOOLEAN])
          /\ \A k \in DOMAIN sent[n].tool_calls :
                sent[n].tool_calls[k].named = (sent[n].tool_calls[k].index \notin NamedBy(n - 1))
          /\ \A j, k \in DOMAIN sent[n].tool_calls :
                sent[n].tool_calls[j].index = sent[n].tool_calls[k].index => j = k

\* What the guards of the provider count: the last block opened is the one that may be
\* open, and the message stops after its delta.
Counts ==
    LET opened == Cardinality(Blocks)
        stopped == Cardinality(Kinds({"block_stop"}))
        all == OpenedBy(Len(sent))
    IN  /\ opened \in {stopped, stopped + 1}
        /\ \A i \in all : i \in Nat /\ i < opened
        /\ StoppedBy(Len(sent)) \subseteq all
        /\ opened = stopped => all \subseteq StoppedBy(Len(sent))
        /\ opened = stopped + 1 =>
              /\ OpenBlock \in Blocks
              /\ sent[OpenBlock].index \notin StoppedBy(Len(sent))
              /\ all \subseteq StoppedBy(Len(sent)) \cup {sent[OpenBlock].index}
        /\ Kinds({"message_stop"}) # {} => Kinds({"message_delta"}) # {}
SentInv ==
    /\ provider = "openai" => \A n \in DOMAIN sent : ContinuesChunks(n)
    /\ provider # "openai" => Counts /\ \A n \in DOMAIN sent : Continues(n)

-----------------------------------------------------------------------------
(* What the loop has made of an Anthropic message.                         *)

PiecesBy(a) == [b \in Nat |-> {k \in 1 .. a : Writes(k, b)}]

AnthropicAt(a, x) ==
    Holds(x.reader, ToolsBy(a) \ StoppedBy(a), ToolsBy(a) \cap StoppedBy(a), PiecesBy(a))

LEMMA ReadNone == ASSUME NEW r PROVE ReadAll(r, <<>>) = r
BY Loops, LoopNone

LEMMA ReadOne == ASSUME NEW r, NEW e PROVE ReadAll(r, <<e>>) = Hears(r, e)
<1>1. Looped("events", r, <<e>>) = Pass("events", r, e)
  BY LoopOne
<1> QED
  BY <1>1, Loops DEF Pass

LEMMA SamePieces ==
    ASSUME NEW r, NEW open, NEW done, NEW pieces, Holds(r, open, done, pieces),
           NEW more, \A c \in open \cup done : more[c] = pieces[c]
    PROVE  Holds(r, open, done, more)
<1>1. HeldBlocks(r, open, more)
  BY DEF Holds, HeldBlocks
<1>2. SaidBlocks(r, done, more)
  BY DEF Holds, SaidBlocks
<1> QED
  BY <1>1, <1>2 DEF Holds

\* One frame more.
LEMMA OneMore ==
    ASSUME NEW a \in Nat, NEW n, n = a + 1
    PROVE  /\ n \in 1 .. n /\ n \notin 1 .. a /\ n - 1 = a /\ n \in Nat
           /\ \A k : k \in 1 .. n <=> k \in 1 .. a \/ k = n
           /\ \A k \in 1 .. a : k < n
BY SMTT(20)

LEMMA BlocksBy ==
    ASSUME NEW a \in Nat, NEW n, n = a + 1
    PROVE  /\ OpenedBy(n) = OpenedBy(a) \cup IF Opens(n) THEN {sent[n].index} ELSE {}
           /\ ToolsBy(n) = ToolsBy(a) \cup IF Opens(n) /\ sent[n].block = "tool" THEN {sent[n].index} ELSE {}
           /\ StoppedBy(n) = StoppedBy(a) \cup IF Stopping(n) THEN {sent[n].index} ELSE {}
           /\ EndingBy(n) <=> EndingBy(a) \/ Ending(n)
<1>1. \A k : k \in 1 .. n <=> k \in 1 .. a \/ k = n
  BY OneMore
<1>2. OpenedBy(n) = OpenedBy(a) \cup IF Opens(n) THEN {sent[n].index} ELSE {}
  BY <1>1 DEF OpenedBy
<1>3. ToolsBy(n) = ToolsBy(a) \cup IF Opens(n) /\ sent[n].block = "tool" THEN {sent[n].index} ELSE {}
  BY <1>1 DEF ToolsBy
<1>4. StoppedBy(n) = StoppedBy(a) \cup IF Stopping(n) THEN {sent[n].index} ELSE {}
  BY <1>1 DEF StoppedBy
<1>5. EndingBy(n) <=> EndingBy(a) \/ Ending(n)
  BY <1>1 DEF EndingBy
<1> QED
  BY <1>2, <1>3, <1>4, <1>5

\* The same, by the kind of the frame.
LEMMA BlocksAfter ==
    ASSUME NEW a \in Nat, NEW n, n = a + 1
    PROVE  /\ sent[n].kind # "block_start" => OpenedBy(n) = OpenedBy(a) /\ ToolsBy(n) = ToolsBy(a)
           /\ sent[n].kind = "block_start" /\ sent[n].block = "tool" => ToolsBy(n) = ToolsBy(a) \cup {sent[n].index}
           /\ sent[n].kind = "block_start" /\ sent[n].block # "tool" => ToolsBy(n) = ToolsBy(a)
           /\ sent[n].kind = "block_stop" => StoppedBy(n) = StoppedBy(a) \cup {sent[n].index}
           /\ sent[n].kind # "block_stop" => StoppedBy(n) = StoppedBy(a)
<1>1. /\ OpenedBy(n) = OpenedBy(a) \cup IF Opens(n) THEN {sent[n].index} ELSE {}
      /\ ToolsBy(n) = ToolsBy(a) \cup IF Opens(n) /\ sent[n].block = "tool" THEN {sent[n].index} ELSE {}
      /\ StoppedBy(n) = StoppedBy(a) \cup IF Stopping(n) THEN {sent[n].index} ELSE {}
  BY BlocksBy
<1>2. sent[n].kind # "block_start" => OpenedBy(n) = OpenedBy(a) /\ ToolsBy(n) = ToolsBy(a)
  BY ONLY <1>1 DEF Opens
<1>3. sent[n].kind = "block_start" /\ sent[n].block = "tool" => ToolsBy(n) = ToolsBy(a) \cup {sent[n].index}
  BY ONLY <1>1 DEF Opens
<1>4. sent[n].kind = "block_start" /\ sent[n].block # "tool" => ToolsBy(n) = ToolsBy(a)
  BY ONLY <1>1 DEF Opens
<1>5. sent[n].kind = "block_stop" => StoppedBy(n) = StoppedBy(a) \cup {sent[n].index}
  BY ONLY <1>1 DEF Stopping
<1>6. sent[n].kind # "block_stop" => StoppedBy(n) = StoppedBy(a)
  BY ONLY <1>1 DEF Stopping
<1> QED
  BY ONLY <1>2, <1>3, <1>4, <1>5, <1>6

LEMMA PiecesMore ==
    ASSUME NEW a \in Nat, NEW n, n = a + 1, NEW b \in Nat
    PROVE  /\ Writes(n, b) => PiecesBy(n)[b] = PiecesBy(a)[b] \cup {n}
           /\ ~Writes(n, b) => PiecesBy(n)[b] = PiecesBy(a)[b]
           /\ \A k \in PiecesBy(a)[b] : k < n
<1>1. \A k : k \in 1 .. n <=> k \in 1 .. a \/ k = n
  BY OneMore
<1>2. \A k \in 1 .. a : k < n
  BY OneMore
<1>3. PiecesBy(n)[b] = {k \in 1 .. n : Writes(k, b)} /\ PiecesBy(a)[b] = {k \in 1 .. a : Writes(k, b)}
  BY DEF PiecesBy
<1> QED
  BY <1>1, <1>2, <1>3

LEMMA ToolsOpened == ASSUME NEW a PROVE ToolsBy(a) \subseteq OpenedBy(a)
BY DEF ToolsBy, OpenedBy

\* Blocks have numbers, and no piece comes before its block.
LEMMA OpenedFirst ==
    ASSUME provider # "openai", NEW a \in Nat, \A k \in 1 .. a : Continues(k)
    PROVE  /\ OpenedBy(a) \subseteq Nat
           /\ \A k \in 1 .. a : \A b : Writes(k, b) => b \in OpenedBy(a)
<1>1. OpenedBy(a) \subseteq Nat
  BY DEF OpenedBy, Continues
<1>2. ASSUME NEW k \in 1 .. a, NEW b, Writes(k, b) PROVE b \in OpenedBy(a)
  <2>1. b \in OpenedBy(k - 1)
    BY <1>2 DEF Writes, Continues
  <2>2. \A m \in 1 .. k - 1 : m \in 1 .. a
    OBVIOUS
  <2> QED
    BY <2>1, <2>2 DEF OpenedBy
<1> QED
  BY <1>1, <1>2

\* What the loop makes of a frame of the Anthropic API.
LEMMA TakesFrame ==
    ASSUME NEW x, TwoParts(x), NEW n, n # NOTHING, sent[n].kind # "chunk"
    PROVE  /\ sent[n].kind = "block_start" => Take(x, n).reader = Hears(x.reader, Start(sent[n].index, sent[n].block))
           /\ sent[n].kind = "block_stop" => Take(x, n).reader = Hears(x.reader, Stop(sent[n].index))
           /\ sent[n].kind = "delta" => Take(x, n).reader = Hears(x.reader, Delta(sent[n].index, sent[n].block, <<n>>))
           /\ sent[n].kind = "message_start" => Take(x, n).reader = Hears(x.reader, MessageStart)
           /\ sent[n].kind = "message_delta" => Take(x, n).reader = Hears(x.reader, MessageEnd[1])
           /\ sent[n].kind = "message_stop" => Take(x, n).reader = Hears(x.reader, MessageEnd[2])
           /\ sent[n].kind \notin {"block_start", "block_stop", "delta", "message_start", "message_delta", "message_stop"}
                 => Take(x, n).reader = x.reader
           /\ Take(x, n).stream = x.stream
<1> DEFINE d == IF sent[n].kind = "delta" THEN <<Delta(sent[n].index, sent[n].block, <<n>>)>> ELSE <<>>
           es == Passed(sent[n]) \o d
           q == ReadAll(x.reader, es)
<1>1. sent[n].kind # "ping" => Take(x, n).reader = q /\ Take(x, n).stream = x.stream
  <2> SUFFICES ASSUME sent[n].kind # "ping" PROVE Take(x, n).reader = q /\ Take(x, n).stream = x.stream
    OBVIOUS
  <2>1. Take(x, n) = [x EXCEPT !.reader = q]
    BY DEF Take, TakeFrame
  <2>2. PICK z : z = q
    OBVIOUS
  <2>3. PICK y, v : y = x.stream /\ v = x.reader /\ x = [stream |-> y, reader |-> v]
    BY DEF TwoParts
  <2> HIDE DEF q
  <2> QED
    BY <2>1, <2>2, <2>3
<1>2. sent[n].kind = "ping" => Take(x, n) = x
  BY DEF Take
<1>3. ASSUME NEW e, es = <<e>> PROVE q = Hears(x.reader, e)
  BY <1>3, ReadOne
<1>4. es = <<>> => q = x.reader
  BY ReadNone
<1>5. MessageEnd[1] = Head(MessageEnd) /\ Tail(MessageEnd) = <<MessageEnd[2]>>
  BY DEF MessageEnd
<1>6. \A e : <<>> \o <<e>> = <<e>> /\ <<e>> \o <<>> = <<e>>
  OBVIOUS
<1>7. <<>> \o <<>> = <<>>
  OBVIOUS
<1>8. sent[n].kind = "block_start" => es = <<Start(sent[n].index, sent[n].block)>>
  BY <1>6 DEF Passed
<1>9. sent[n].kind = "block_stop" => es = <<Stop(sent[n].index)>>
  BY <1>6 DEF Passed
<1>10. sent[n].kind = "delta" => es = <<Delta(sent[n].index, sent[n].block, <<n>>)>>
  BY <1>6 DEF Passed
<1>11. sent[n].kind = "message_start" => es = <<MessageStart>>
  BY <1>6 DEF Passed
<1>12. sent[n].kind = "message_delta" => es = <<MessageEnd[1]>>
  BY <1>5, <1>6 DEF Passed
<1>13. sent[n].kind = "message_stop" => es = <<MessageEnd[2]>>
  BY <1>5, <1>6 DEF Passed
<1>14. sent[n].kind \notin {"block_start", "block_stop", "delta", "message_start", "message_delta", "message_stop"}
         => es = <<>>
  BY <1>7 DEF Passed
<1> HIDE DEF es, q
<1> QED
  BY <1>1, <1>2, <1>3, <1>4, <1>8, <1>9, <1>10, <1>11, <1>12, <1>13, <1>14
LEMMA AnthropicStep ==
    ASSUME provider # "openai", NEW a \in Nat, NEW n, n = a + 1, \A k \in 1 .. n : Continues(k),
           NEW x, TwoParts(x), AnthropicAt(a, x)
    PROVE  AnthropicAt(n, Take(x, n))
<1> DEFINE open == ToolsBy(a) \ StoppedBy(a)
           done == ToolsBy(a) \cap StoppedBy(a)
<1>1. n \in 1 .. n /\ n - 1 = a /\ n \in Nat /\ n # NOTHING /\ \A k \in 1 .. a : k \in 1 .. n
  <2>1. n \in 1 .. n /\ n - 1 = a /\ n \in Nat /\ n # 0
    OBVIOUS
  <2>2. \A k \in 1 .. a : k \in 1 .. n
    OBVIOUS
  <2> QED
    BY <2>1, <2>2 DEF NOTHING
<1>2. Continues(n) /\ \A k \in 1 .. a : Continues(k)
  BY <1>1
<1>3. OpenedBy(a) \subseteq Nat /\ ToolsBy(a) \subseteq OpenedBy(a)
      /\ \A k \in 1 .. a : \A b : Writes(k, b) => b \in OpenedBy(a)
  BY <1>2, OpenedFirst, ToolsOpened
<1>4. open \cup done = ToolsBy(a) /\ ToolsBy(a) \subseteq Nat
  BY <1>3
<1>5. PICK i : i = sent[n].index
  OBVIOUS
<1>6. PICK r : r = x.reader /\ Holds(r, open, done, PiecesBy(a))
  BY DEF AnthropicAt
<1>7. \A b \in Nat : Writes(n, b) <=> sent[n].kind = "delta" /\ i = b
  BY <1>5 DEF Writes
<1>8. sent[n].kind # "chunk"
  BY <1>2 DEF Continues
<1>9. sent[n].kind # "delta" => \A b \in ToolsBy(a) : PiecesBy(n)[b] = PiecesBy(a)[b]
  BY <1>4, <1>7, PiecesMore
<1>10. sent[n].kind # "delta" => Holds(r, open, done, PiecesBy(n))
  BY <1>4, <1>6, <1>9, SamePieces
<1>11. CASE sent[n].kind = "block_start"
  <2>1. /\ i \in Nat /\ i \notin OpenedBy(a) /\ i \notin StoppedBy(a)
        /\ OpenedBy(a) \subseteq StoppedBy(a) /\ sent[n].block \in {"text", "tool"}
    BY <1>1, <1>2, <1>5, <1>11 DEF Continues, Opens
  <2>2. Take(x, n).reader = Hears(r, Start(i, sent[n].block))
    <3>1. Take(x, n).reader = Hears(x.reader, Start(sent[n].index, sent[n].block))
      <4>1. n # NOTHING /\ sent[n].kind # "chunk" /\ sent[n].kind = "block_start"
        BY <1>1, <1>8, <1>11
      <4> QED
        BY ONLY <4>1, TwoParts(x), TakesFrame
    <3> QED
      BY <1>5, <1>6, <3>1
  <2>3. StoppedBy(n) = StoppedBy(a)
    BY <1>11, BlocksAfter
  <2>4. open = {}
    BY <1>3, <2>1
  <2>5. CASE sent[n].block = "tool"
    <3>1. ToolsBy(n) = ToolsBy(a) \cup {i}
      BY <1>5, <1>11, <2>5, BlocksAfter
    <3>2. PiecesBy(n)[i] = {}
      <4>1. PiecesBy(n)[i] = PiecesBy(a)[i]
        BY <1>7, <1>11, <2>1, PiecesMore
      <4>2. PiecesBy(a)[i] = {k \in 1 .. a : Writes(k, i)}
        BY <2>1 DEF PiecesBy
      <4> QED
        BY <1>3, <2>1, <4>1, <4>2
    <3>3. i \notin open /\ i \notin done
      BY <1>3, <2>1
    <3>4. Holds(r, open, done, PiecesBy(n))
      BY <1>10, <1>11
    <3>5. \A c \in open : Slot(consumer, c) # Slot(consumer, i)
      BY <2>4
    <3> HIDE DEF open, done
    <3>6. Holds(Hears(r, Start(i, "tool")), open \cup {i}, done, PiecesBy(n))
      BY <3>2, <3>3, <3>4, <3>5, HearStart
    <3>7. open \cup {i} = ToolsBy(n) \ StoppedBy(n) /\ done = ToolsBy(n) \cap StoppedBy(n)
      BY <2>1, <2>3, <3>1 DEF open, done
    <3> QED
      BY <2>2, <2>5, <3>6, <3>7 DEF AnthropicAt
  <2>6. CASE sent[n].block = "text"
    <3>1. ToolsBy(n) = ToolsBy(a)
      BY <1>11, <2>6, BlocksAfter
    <3>2. Take(x, n).reader = r
      BY <2>2, <2>6, HearsTextStart
    <3> QED
      BY <1>10, <1>11, <2>3, <3>1, <3>2 DEF AnthropicAt
  <2> QED
    BY <2>1, <2>5, <2>6
<1>12. CASE sent[n].kind = "delta"
  <2>1. /\ i \in OpenedBy(a) /\ i \notin StoppedBy(a) /\ sent[n].block \in {"text", "tool"}
        /\ sent[n].block = "tool" <=> i \in ToolsBy(a)
    BY <1>1, <1>2, <1>5, <1>12 DEF Continues
  <2>2. i \in Nat
    BY <1>3, <2>1
  <2>3. Take(x, n).reader = Hears(r, Delta(i, sent[n].block, <<n>>))
    <3>1. Take(x, n).reader = Hears(x.reader, Delta(sent[n].index, sent[n].block, <<n>>))
      <4>1. n # NOTHING /\ sent[n].kind # "chunk" /\ sent[n].kind = "delta"
        BY <1>1, <1>8, <1>12
      <4> QED
        BY ONLY <4>1, TwoParts(x), TakesFrame
    <3> QED
      BY <1>5, <1>6, <3>1
  <2>4. StoppedBy(n) = StoppedBy(a) /\ ToolsBy(n) = ToolsBy(a)
    BY <1>12, BlocksAfter
  <2>5. \A b \in ToolsBy(a) : b # i => PiecesBy(n)[b] = PiecesBy(a)[b]
    BY <1>4, <1>7, PiecesMore
  <2>6. CASE sent[n].block = "tool"
    <3>1. i \in open
      BY <2>1, <2>6
    <3>2. PiecesBy(n)[i] = PiecesBy(a)[i] \cup {n} /\ \A p \in PiecesBy(a)[i] : p < n
      BY <1>7, <1>12, <2>2, PiecesMore
    <3>3. \A c \in open \cup done : c # i => PiecesBy(n)[c] = PiecesBy(a)[c]
      BY <1>4, <2>5
    <3> HIDE DEF open, done
    <3>4. Holds(Hears(r, Delta(i, "tool", <<n>>)), open, done, PiecesBy(n))
      BY <1>1, <1>6, <3>1, <3>2, <3>3, HearDelta
    <3> QED
      BY <2>3, <2>4, <2>6, <3>4 DEF AnthropicAt, open, done
  <2>7. CASE sent[n].block = "text"
    <3>1. i \notin ToolsBy(a)
      BY <2>1, <2>7
    <3>2. Holds(r, open, done, PiecesBy(n))
      BY <1>4, <1>6, <2>5, <3>1, SamePieces
    <3>3. Other(Delta(i, "text", <<n>>))
      BY DEF Other
    <3>4. Holds(Hears(r, Delta(i, "text", <<n>>)), open, done, PiecesBy(n))
      BY <3>2, <3>3, HearOther
    <3> QED
      BY <2>3, <2>4, <2>7, <3>4 DEF AnthropicAt
  <2> QED
    BY <2>1, <2>6, <2>7
<1>13. CASE sent[n].kind = "block_stop"
  <2>1. /\ i \in OpenedBy(a) /\ i \notin StoppedBy(a)
        /\ OpenedBy(a) \subseteq StoppedBy(a) \cup {i}
    BY <1>1, <1>2, <1>5, <1>13 DEF Continues, Stopping
  <2>2. Take(x, n).reader = Hears(r, Stop(i))
    <3>1. Take(x, n).reader = Hears(x.reader, Stop(sent[n].index))
      <4>1. n # NOTHING /\ sent[n].kind # "chunk" /\ sent[n].kind = "block_stop"
        BY <1>1, <1>8, <1>13
      <4> QED
        BY ONLY <4>1, TwoParts(x), TakesFrame
    <3> QED
      BY <1>5, <1>6, <3>1
  <2>3. StoppedBy(n) = StoppedBy(a) \cup {i} /\ ToolsBy(n) = ToolsBy(a)
    BY <1>5, <1>13, BlocksAfter
  <2>4. Holds(r, open, done, PiecesBy(n))
    BY <1>10, <1>13
  <2>5. CASE i \in ToolsBy(a)
    <3>1. i \in open
      BY <2>1, <2>5
    <3>2. open \ {i} = ToolsBy(n) \ StoppedBy(n) /\ done \cup {i} = ToolsBy(n) \cap StoppedBy(n)
      BY <2>3, <2>5
    <3> HIDE DEF open, done
    <3>3. Holds(Hears(r, Stop(i)), open \ {i}, done \cup {i}, PiecesBy(n))
      BY <2>4, <3>1, HearStop
    <3> QED
      BY <2>2, <3>2, <3>3 DEF AnthropicAt
  <2>6. CASE i \notin ToolsBy(a)
    <3>1. open = {}
      BY <1>3, <2>1, <2>6
    <3>2. open = ToolsBy(n) \ StoppedBy(n) /\ done = ToolsBy(n) \cap StoppedBy(n)
      BY <2>3, <2>6
    <3>3. Hears(r, Stop(i)) = r
      BY <2>4, <3>1, HearStopNothing
    <3> QED
      BY <2>2, <2>4, <3>2, <3>3 DEF AnthropicAt
  <2> QED
    BY <2>5, <2>6
<1>14. CASE sent[n].kind \notin {"block_start", "delta", "block_stop"}
  <2>1. StoppedBy(n) = StoppedBy(a) /\ ToolsBy(n) = ToolsBy(a)
    BY <1>14, BlocksAfter
  <2>2. Holds(r, open, done, PiecesBy(n))
    BY <1>10, <1>14
  <2>3. Take(x, n).reader = r \/ \E e \in {MessageStart, MessageEnd[1], MessageEnd[2]} : Take(x, n).reader = Hears(r, e)
    BY <1>1, <1>6, <1>8, <1>14, TakesFrame
  <2>4. \A e \in {MessageStart, MessageEnd[1], MessageEnd[2]} : Holds(Hears(r, e), open, done, PiecesBy(n))
    BY <2>2, HearOther DEF Other
  <2>5. Holds(Take(x, n).reader, open, done, PiecesBy(n))
    BY <2>2, <2>3, <2>4
  <2> QED
    BY <2>1, <2>5 DEF AnthropicAt
<1> QED
  BY <1>11, <1>12, <1>13, <1>14
\* What holds of 0 and is kept by every step up to n holds of n.
LEMMA Climb ==
    ASSUME NEW n \in Nat, NEW good, 0 \in good, \A k \in 1 .. n : k - 1 \in good => k \in good
    PROVE  n \in good
<1> DEFINE Bad == {k \in 0 .. n : k \notin good}
<1>1. Bad = {}
  <2> SUFFICES ASSUME Bad # {} PROVE FALSE
    OBVIOUS
  <2>1. Bad \subseteq Nat
    OBVIOUS
  <2>2. PICK m \in Bad : \A l \in Bad : m <= l
    <3> HIDE DEF Bad
    <3> QED
      BY <2>1, LeastNumber
  <2>3. m # 0 /\ m \in 1 .. n /\ m - 1 \in 0 .. n /\ ~(m <= m - 1)
    OBVIOUS
  <2>4. m - 1 \in good
    BY <2>2, <2>3
  <2> QED
    BY <2>3, <2>4
<1>2. n \in 0 .. n
  OBVIOUS
<1> QED
  BY <1>1, <1>2

-----------------------------------------------------------------------------
(* The decoder's events.                                                   *)

Events(es) == \E S : es \in Seq(S)

LEMMA EventLists ==
    /\ Events(<<>>)
    /\ \A e : Events(<<e>>)
    /\ \A e, f : Events(<<e, f>>)
<1>1. <<>> \in Seq({})
  OBVIOUS
<1>2. ASSUME NEW e PROVE <<e>> \in Seq({e})
  OBVIOUS
<1>3. ASSUME NEW e, NEW f PROVE <<e, f>> \in Seq({e, f})
  OBVIOUS
<1> QED
  BY <1>1, <1>2, <1>3 DEF Events

LEMMA JoinedEvents ==
    ASSUME NEW t, NEW u, Events(t), Events(u)
    PROVE  Events(t \o u) /\ Joined(t \o u, t, Len(t), u, Len(u))
<1>1. PICK S : t \in Seq(S)
  BY DEF Events
<1>2. PICK T : u \in Seq(T)
  BY DEF Events
<1>3. PICK R : R = S \cup T
  OBVIOUS
<1>4. t \in Seq(R) /\ u \in Seq(R)
  BY <1>1, <1>2, <1>3
<1>5. t \o u \in Seq(R)
  BY <1>4
<1>6. /\ Len(t) \in Nat /\ Len(u) \in Nat /\ DOMAIN t = 1 .. Len(t) /\ DOMAIN u = 1 .. Len(u)
      /\ DOMAIN (t \o u) = 1 .. Len(t) + Len(u)
  BY <1>4
<1>7. \A i \in 1 .. Len(t) : (t \o u)[i] = t[i]
  BY <1>4
<1>8. \A i \in 1 .. Len(u) : (t \o u)[Len(t) + i] = u[i]
  BY <1>4
<1> QED
  BY <1>5, <1>6, <1>7, <1>8 DEF Events, Joined

LEMMA ReadJoin ==
    ASSUME NEW r, NEW t, NEW u, Events(t), Events(u)
    PROVE  Events(t \o u) /\ ReadAll(r, t \o u) = ReadAll(ReadAll(r, t), u)
<1>1. Events(t \o u) /\ Joined(t \o u, t, Len(t), u, Len(u))
  BY JoinedEvents
<1>2. Looped("events", r, t \o u) = Looped("events", Looped("events", r, t), u)
  BY <1>1, LoopSplit
<1> QED
  BY <1>1, <1>2, Loops

\* A list of at most one event.
Maybe(this, e) == IF this THEN <<e>> ELSE <<>>

LEMMA ReadMaybe ==
    ASSUME NEW r, NEW this, NEW e
    PROVE  /\ Events(Maybe(this, e))
           /\ this => ReadAll(r, Maybe(this, e)) = Hears(r, e)
           /\ ~this => ReadAll(r, Maybe(this, e)) = r
BY ReadNone, ReadOne, EventLists DEF Maybe

\* A delta for block b: its block may start, it has a piece or none, and may be the last.
Calling(open, done, pieces, b, n, fresh, written, last, more) ==
    /\ b \notin done /\ n \in Nat
    /\ \A p \in pieces[b] : p < n
    /\ fresh \in BOOLEAN /\ written \in BOOLEAN /\ last \in BOOLEAN
    /\ fresh <=> b \notin open
    /\ fresh => pieces[b] = {} /\ \A c \in open : Slot(consumer, c) # Slot(consumer, b)
    /\ more[b] = pieces[b] \cup IF written THEN {n} ELSE {}
    /\ \A c \in open \cup done : c # b => more[c] = pieces[c]

CallEvents(b, n, fresh, written, last) ==
    Maybe(fresh, Start(b, "tool")) \o Maybe(written, Delta(b, "tool", <<n>>)) \o Maybe(last, Stop(b))

HeardCall(r, open, done, b, last, more) ==
    Holds(r, IF last THEN open \ {b} ELSE open \cup {b}, IF last THEN done \cup {b} ELSE done, more)

LEMMA CallHeard ==
    ASSUME NEW r, NEW open, NEW done, NEW pieces, Holds(r, open, done, pieces),
           NEW b, NEW n, NEW fresh, NEW written, NEW last, NEW more,
           Calling(open, done, pieces, b, n, fresh, written, last, more),
           NEW es, es = CallEvents(b, n, fresh, written, last)
    PROVE  Events(es) /\ HeardCall(ReadAll(r, es), open, done, b, last, more)
<1>0. /\ b \notin done /\ n \in Nat
      /\ \A p \in pieces[b] : p < n
      /\ fresh \in BOOLEAN /\ written \in BOOLEAN /\ last \in BOOLEAN
      /\ fresh <=> b \notin open
      /\ fresh => pieces[b] = {} /\ \A c \in open : Slot(consumer, c) # Slot(consumer, b)
      /\ more[b] = pieces[b] \cup IF written THEN {n} ELSE {}
      /\ \A c \in open \cup done : c # b => more[c] = pieces[c]
  BY DEF Calling
<1>1. PICK B, D, S : /\ B = Maybe(fresh, Start(b, "tool"))
                     /\ D = Maybe(written, Delta(b, "tool", <<n>>))
                     /\ S = Maybe(last, Stop(b)) /\ es = B \o D \o S
  BY DEF CallEvents
<1>2. Events(B) /\ Events(D) /\ Events(S)
  BY <1>1, ReadMaybe
<1>3. PICK r1, r2, r3 : r1 = ReadAll(r, B) /\ r2 = ReadAll(r1, D) /\ r3 = ReadAll(r2, S)
  OBVIOUS
<1>4. Events(es) /\ ReadAll(r, es) = r3
  <2>1. Events(B \o D) /\ ReadAll(r, B \o D) = r2
    BY <1>2, <1>3, ReadJoin
  <2> QED
    BY <1>1, <1>2, <1>3, <2>1, ReadJoin
<1>5. Holds(r1, open \cup {b}, done, pieces)
  <2>1. CASE b \in open
    <3>1. r1 = r /\ open \cup {b} = open
      <4>1. B = <<>>
        BY <1>0, <1>1, <2>1 DEF Maybe
      <4> QED
        BY <1>3, <2>1, <4>1, ReadNone
    <3> QED
      BY <3>1
  <2>2. CASE b \notin open
    <3>1. r1 = Hears(r, Start(b, "tool"))
      <4>1. B = <<Start(b, "tool")>>
        BY <1>0, <1>1, <2>2 DEF Maybe
      <4> QED
        BY <1>3, <4>1, ReadOne
    <3> QED
      BY <1>0, <2>2, <3>1, HearStart
  <2> QED
    BY <2>1, <2>2
<1>6. Holds(r2, open \cup {b}, done, more)
  <2>1. PICK o : o = open \cup {b}
    OBVIOUS
  <2>2. Holds(r1, o, done, pieces) /\ b \in o /\ \A c \in o \cup done : c # b => more[c] = pieces[c]
    BY <1>0, <1>5, <2>1
  <2>3. CASE written
    <3>1. r2 = Hears(r1, Delta(b, "tool", <<n>>))
      <4>1. D = <<Delta(b, "tool", <<n>>)>>
        BY <1>1, <2>3 DEF Maybe
      <4> QED
        BY <1>3, <4>1, ReadOne
    <3>2. more[b] = pieces[b] \cup {n}
      BY <1>0, <2>3
    <3> QED
      BY <1>0, <2>1, <2>2, <3>1, <3>2, HearDelta
  <2>4. CASE ~written
    <3>1. r2 = r1
      <4>1. D = <<>>
        BY <1>1, <2>4 DEF Maybe
      <4> QED
        BY <1>3, <4>1, ReadNone
    <3>2. \A c \in o \cup done : more[c] = pieces[c]
      BY <1>0, <2>2, <2>4
    <3> QED
      BY <2>1, <2>2, <3>1, <3>2, SamePieces
  <2> QED
    BY <2>3, <2>4
<1>7. CASE last
  <2>1. r3 = Hears(r2, Stop(b))
    <3>1. S = <<Stop(b)>>
      BY <1>1, <1>7 DEF Maybe
    <3> QED
      BY <1>3, <3>1, ReadOne
  <2>2. PICK o : o = open \cup {b}
    OBVIOUS
  <2>3. Holds(r3, o \ {b}, done \cup {b}, more)
    BY <1>6, <2>1, <2>2, HearStop
  <2>4. o \ {b} = open \ {b}
    BY <2>2
  <2> QED
    BY <1>4, <1>7, <2>3, <2>4 DEF HeardCall
<1>8. CASE ~last
  <2>1. r3 = r2
    <3>1. S = <<>>
      BY <1>1, <1>8 DEF Maybe
    <3> QED
      BY <1>3, <3>1, ReadNone
  <2> QED
    BY <1>4, <1>6, <1>8, <2>1 DEF HeardCall
<1> QED
  BY <1>0, <1>4, <1>7, <1>8 DEF HeardCall
\* A call of the decoder, all its arguments passed on.
IsCall(c, named, stopped) ==
    /\ c = [named |-> c.named, arguments |-> c.arguments, emitted |-> c.emitted,
            started |-> c.started, stopped |-> c.stopped]
    /\ c.named \in BOOLEAN /\ c.started \in BOOLEAN /\ c.stopped \in BOOLEAN
    /\ c.arguments \in Seq(Nat) /\ c.emitted = Len(c.arguments)
    /\ c.named <=> named
    /\ c.started <=> named
    /\ c.stopped <=> stopped

\* What is left to send of a call's arguments after a piece.
LEMMA UnsentPiece ==
    ASSUME NEW t \in Seq(Nat), NEW n \in Nat
    PROVE  /\ SubSeq(Append(t, n), Len(t) + 1, Len(Append(t, n))) = <<n>>
           /\ SubSeq(t, Len(t) + 1, Len(t)) = <<>>
           /\ Append(t, n) \in Seq(Nat)
           /\ <<n>> # <<>>
<1>1. PICK u, v : u = Append(t, n) /\ v = <<n>>
  OBVIOUS
<1>2. u \in Seq(Nat) /\ u \in Seq(Int) /\ t \in Seq(Int) /\ Len(t) \in Nat /\ Len(u) = Len(t) + 1 /\ u[Len(t) + 1] = n
  BY <1>1
<1>3. v \in Seq(Int) /\ Len(v) = 1 /\ v[1] = n /\ v # <<>>
  BY <1>1
<1>4. SubSeq(u, Len(t) + 1, Len(u)) = v
  <2>1. SubSeq(u, Len(t) + 1, Len(t) + 1) \in Seq(Int) /\ Len(SubSeq(u, Len(t) + 1, Len(t) + 1)) = 1
        /\ SubSeq(u, Len(t) + 1, Len(t) + 1)[1] = u[Len(t) + 1]
    BY <1>2
  <2>2. PICK w : w = SubSeq(u, Len(t) + 1, Len(u))
    OBVIOUS
  <2>3. w \in Seq(Int) /\ Len(w) = 1 /\ w[1] = n
    BY <1>2, <2>1, <2>2
  <2>4. \A k \in 1 .. Len(w) : w[k] = v[k]
    BY <1>3, <2>3
  <2>5. w = v
    BY <1>3, <2>3, <2>4, SameBytes
  <2> QED
    BY <2>2, <2>5
<1>5. SubSeq(t, Len(t) + 1, Len(t)) = <<>>
  BY <1>2
<1> QED
  BY <1>1, <1>2, <1>3, <1>4, <1>5

\* A delta of a call that has not stopped: a call is named by its first.
Taking(named, c, d, n, last, call) ==
    /\ named \in BOOLEAN /\ last \in BOOLEAN /\ n \in Nat
    /\ IsCall(c, named, FALSE) /\ call = Applied(c, d, n)
    /\ d.named \in BOOLEAN /\ d.arguments \in BOOLEAN
    /\ d.named <=> ~named

\* The call as it is kept, what it says, and what is said of it.
Passing(call, last) ==
    [call EXCEPT !.started = TRUE, !.stopped = @ \/ last, !.emitted = Len(call.arguments)]
Took(named, d, n, last, call) ==
    /\ call.named /\ IsCall(Passing(call, last), TRUE, last)
    /\ \A i : ToolEvents(call, i, last) = CallEvents(BlockIndex(i), n, ~named, d.arguments, last)

LEMMA CallTakes ==
    ASSUME NEW named, NEW c, NEW d, NEW n, NEW last, NEW call, Taking(named, c, d, n, last, call)
    PROVE  Took(named, d, n, last, call)
<1>0. /\ named \in BOOLEAN /\ last \in BOOLEAN /\ n \in Nat
      /\ IsCall(c, named, FALSE) /\ call = Applied(c, d, n)
      /\ d.named \in BOOLEAN /\ d.arguments \in BOOLEAN
      /\ d.named <=> ~named
  BY DEF Taking
<1>1. PICK e, t, m, s, o : /\ c = [named |-> e, arguments |-> t, emitted |-> m, started |-> s, stopped |-> o]
                           /\ e = c.named /\ t = c.arguments /\ m = c.emitted /\ s = c.started /\ o = c.stopped
  BY <1>0 DEF IsCall
<1>2. /\ e \in BOOLEAN /\ s \in BOOLEAN /\ o \in BOOLEAN /\ t \in Seq(Nat) /\ m = Len(t)
      /\ e <=> named
      /\ s <=> named
      /\ ~o
  BY <1>0, <1>1 DEF IsCall
<1>3. PICK u : u = IF d.arguments THEN Append(t, n) ELSE t
  OBVIOUS
<1>4. call = [named |-> TRUE, arguments |-> u, emitted |-> m, started |-> s, stopped |-> FALSE]
  <2>1. call = [c EXCEPT !.named = @ \/ d.named, !.arguments = IF d.arguments THEN Append(@, n) ELSE @]
    BY <1>0 DEF Applied
  <2>2. (e \/ d.named) = TRUE
    BY <1>0, <1>2
  <2>3. o = FALSE
    BY <1>2
  <2>4. call = [c EXCEPT !.named = TRUE, !.arguments = u]
    BY <1>1, <1>3, <2>1, <2>2
  <2> QED
    BY <1>1, <2>3, <2>4
<1>5. u \in Seq(Nat) /\ Unsent(call) = IF d.arguments THEN <<n>> ELSE <<>>
  <2>1. Unsent(call) = SubSeq(u, Len(t) + 1, Len(u))
    BY <1>2, <1>4 DEF Unsent
  <2>2. CASE d.arguments
    <3>1. u = Append(t, n)
      BY <1>3, <2>2
    <3> QED
      BY <1>0, <1>2, <2>1, <2>2, <3>1, UnsentPiece
  <2>3. CASE ~d.arguments
    <3>1. u = t
      BY <1>3, <2>3
    <3> QED
      BY <1>2, <2>1, <2>3, <3>1, UnsentPiece
  <2> QED
    BY <2>2, <2>3
<1>6. IsCall([call EXCEPT !.started = TRUE, !.stopped = @ \/ last, !.emitted = Len(call.arguments)], TRUE, last)
  <2>1. PICK v : v = [call EXCEPT !.started = TRUE, !.stopped = @ \/ last, !.emitted = Len(call.arguments)]
    OBVIOUS
  <2>2. (call.stopped \/ last) = last
    BY <1>0, <1>4
  <2>2b. call.arguments = u
    BY <1>4
  <2>2c. v = [call EXCEPT !.started = TRUE, !.stopped = last, !.emitted = Len(u)]
    BY <2>1, <2>2, <2>2b
  <2>3. v = [named |-> TRUE, arguments |-> u, emitted |-> Len(u), started |-> TRUE, stopped |-> last]
    <3>1. PICK w, l : w = Len(u) /\ l = last
      OBVIOUS
    <3>2. v = [call EXCEPT !.started = TRUE, !.stopped = l, !.emitted = w]
      BY <2>2c, <3>1
    <3>3. v = [named |-> TRUE, arguments |-> u, emitted |-> w, started |-> TRUE, stopped |-> l]
      BY ONLY <1>4, <3>2
    <3> QED
      BY <3>1, <3>3
  <2>4. IsCall(v, TRUE, last)
    BY <1>0, <1>5, <2>3 DEF IsCall
  <2> QED
    BY <2>1, <2>4
<1>7. ASSUME NEW i
      PROVE  ToolEvents(call, i, last) = CallEvents(BlockIndex(i), n, ~named, d.arguments, last)
  <2>1. PICK x, y, z : /\ x = Start(BlockIndex(i), "tool") /\ y = Delta(BlockIndex(i), "tool", <<n>>)
                       /\ z = Stop(BlockIndex(i))
    OBVIOUS
  <2>2. (IF ~call.started /\ call.named THEN <<x>> ELSE <<>>) = Maybe(~named, x)
    BY <1>0, <1>2, <1>4 DEF Maybe
  <2>3. (IF Unsent(call) # <<>> THEN <<Delta(BlockIndex(i), "tool", Unsent(call))>> ELSE <<>>) = Maybe(d.arguments, y)
    <3>1. <<n>> # <<>>
      BY <1>0, <1>2, UnsentPiece
    <3> QED
      BY <1>5, <2>1, <3>1 DEF Maybe
  <2>4. (IF last /\ ~call.stopped THEN <<z>> ELSE <<>>) = Maybe(last, z)
    BY <1>4 DEF Maybe
  <2>5. ToolEvents(call, i, last)
          = (IF ~call.started /\ call.named THEN <<x>> ELSE <<>>)
               \o (IF Unsent(call) # <<>> THEN <<Delta(BlockIndex(i), "tool", Unsent(call))>> ELSE <<>>)
               \o (IF last /\ ~call.stopped THEN <<z>> ELSE <<>>)
    BY <2>1 DEF ToolEvents
  <2> QED
    BY <2>1, <2>2, <2>3, <2>4, <2>5 DEF CallEvents
<1>8. call.named
  BY <1>4
<1> QED
  BY <1>6, <1>7, <1>8 DEF Took, Passing
-----------------------------------------------------------------------------
(* A chunk of a chat completion.                                           *)

Blks(indices) == {BlockIndex(i) : i \in indices}

LEMMA BlockIs ==
    ASSUME NEW i \in CallIndices
    PROVE  /\ BlockIndex(i) \in Nat /\ BlockIndex(i) # 0
           /\ Blks({i}) = {BlockIndex(i)}
           /\ \A S \in SUBSET CallIndices : BlockIndex(i) \in Blks(S) <=> i \in S
<1>1. CallIndices \subseteq Nat
  BY CallIndicesAssumption
<1>2. \A j, k \in CallIndices : BlockIndex(j) = BlockIndex(k) => j = k
  BY <1>1 DEF BlockIndex
<1>3. BlockIndex(i) \in Nat /\ BlockIndex(i) # 0
  BY <1>1 DEF BlockIndex
<1>4. \A S \in SUBSET CallIndices : BlockIndex(i) \in Blks(S) <=> i \in S
  BY <1>2 DEF Blks
<1> QED
  BY <1>3, <1>4 DEF Blks

LEMMA BlockSets ==
    ASSUME NEW S, S \subseteq CallIndices, NEW T, T \subseteq CallIndices
    PROVE  /\ Blks(S) \cap Blks(T) = Blks(S \cap T)
           /\ Blks(S) \ Blks(T) = Blks(S \ T)
           /\ Blks(S) \cup Blks(T) = Blks(S \cup T)
<1>1. CallIndices \subseteq Nat
  BY CallIndicesAssumption
<1>2. \A j, k \in CallIndices : BlockIndex(j) = BlockIndex(k) => j = k
  BY <1>1 DEF BlockIndex
<1>3. Blks(S) \cap Blks(T) = Blks(S \cap T)
  BY <1>2 DEF Blks
<1>4. Blks(S) \ Blks(T) = Blks(S \ T)
  BY <1>2 DEF Blks
<1>5. Blks(S) \cup Blks(T) = Blks(S \cup T)
  BY DEF Blks
<1> QED
  BY <1>3, <1>4, <1>5

\* The decoder knows the calls of named, and has stopped those of stopped.
CallsAt(calls, named, stopped) ==
    /\ calls = [i \in CallIndices |-> calls[i]]
    /\ \A i \in CallIndices : IsCall(calls[i], i \in named, i \in stopped)

\* What a chunk n has made of the calls and said so far.
IsPart(s, n, last) ==
    /\ s = [tool_calls |-> s.tool_calls, events |-> s.events, chunk |-> n, last |-> last]
    /\ Events(s.events)

\* A delta d of call i that says es.
Takes(s, d, i, n, last, call, es) ==
    /\ IsPart(s, n, last) /\ i = d.index
    /\ call = Applied(s.tool_calls[i], d, n) /\ call.named
    /\ es = ToolEvents(call, i, last) /\ Events(es)

Makes(s, t, i, n, last, call, es) ==
    /\ IsPart(t, n, last)
    /\ t.events = s.events \o es
    /\ t.tool_calls = [s.tool_calls EXCEPT ![i] = Passing(call, last)]

LEMMA DeltaTaken ==
    ASSUME NEW s, NEW d, NEW i, NEW n, NEW last, NEW call, NEW es, Takes(s, d, i, n, last, call, es)
    PROVE  Makes(s, ToolDelta(s, d), i, n, last, call, es)
<1>0. /\ IsPart(s, n, last) /\ i = d.index
      /\ call = Applied(s.tool_calls[i], d, n) /\ call.named
      /\ es = ToolEvents(call, i, last) /\ Events(es)
  BY DEF Takes
<1>1. PICK c, e, l : /\ c = s.tool_calls /\ e = s.events /\ l = last
                     /\ s = [tool_calls |-> c, events |-> e, chunk |-> n, last |-> l]
  BY <1>0 DEF IsPart
<1>2. PICK x : x = Passing(call, last)
  OBVIOUS
<1>3. s.chunk = n /\ s.last = last
  BY <1>1
<1>4. ToolDelta(s, d)
        = [s EXCEPT !.tool_calls[i] = [call EXCEPT !.started = TRUE, !.stopped = @ \/ last,
                                                   !.emitted = Len(call.arguments)],
                    !.events = @ \o ToolEvents(call, i, last)]
  BY <1>0, <1>3 DEF ToolDelta
<1>5. PICK f, g : f = e \o es /\ g = [c EXCEPT ![i] = x]
  OBVIOUS
<1>6. ToolDelta(s, d) = [s EXCEPT !.tool_calls = g, !.events = f]
  BY <1>0, <1>1, <1>2, <1>4, <1>5 DEF Passing
<1>7. PICK t : t = ToolDelta(s, d) /\ t = [tool_calls |-> g, events |-> f, chunk |-> n, last |-> l]
  <2>1. s = [tool_calls |-> c, events |-> e, chunk |-> n, last |-> l]
    BY <1>1
  <2>2. PICK u : u = [s EXCEPT !.tool_calls = g]
    OBVIOUS
  <2>3. /\ DOMAIN u = {"tool_calls", "events", "chunk", "last"}
        /\ u.tool_calls = g /\ u.events = e /\ u.chunk = n /\ u.last = l
    BY <2>1, <2>2
  <2>4. PICK v : v = [u EXCEPT !.events = f]
    OBVIOUS
  <2>5. /\ DOMAIN v = {"tool_calls", "events", "chunk", "last"}
        /\ v.tool_calls = g /\ v.events = f /\ v.chunk = n /\ v.last = l
    BY <2>3, <2>4
  <2>6. v = [x1 \in {"tool_calls", "events", "chunk", "last"} |-> v[x1]]
    BY <2>3, <2>4
  <2>7. v = [tool_calls |-> g, events |-> f, chunk |-> n, last |-> l]
    BY <2>5, <2>6
  <2> QED
    BY <1>6, <2>2, <2>4, <2>7
<1>8. Events(f)
  BY <1>0, <1>1, <1>5, JoinedEvents DEF IsPart
<1>9. IsPart(t, n, last)
  BY <1>1, <1>7, <1>8 DEF IsPart
<1>10. t.events = f /\ t.tool_calls = g
  BY <1>7
<1>11. s.events \o es = f /\ [s.tool_calls EXCEPT ![i] = Passing(call, last)] = g
  BY <1>1, <1>2, <1>5
<1> QED
  BY <1>7, <1>9, <1>10, <1>11 DEF Makes

\* One delta of a chunk.
Calls(s, n, last, named, stopped, pieces, d, i, b, more) ==
    /\ n \in Nat /\ last \in BOOLEAN /\ i = d.index /\ i \in CallIndices /\ i \notin stopped
    /\ named \subseteq CallIndices /\ stopped \subseteq named
    /\ IsPart(s, n, last) /\ CallsAt(s.tool_calls, named, stopped)
    /\ d.named \in BOOLEAN /\ d.arguments \in BOOLEAN
    /\ d.named <=> i \notin named
    /\ b = BlockIndex(i)
    /\ \A p \in pieces[b] : p < n
    /\ i \notin named => pieces[b] = {}
    /\ \A j \in named : j # i => Slot(consumer, BlockIndex(j)) # Slot(consumer, b)
    /\ more[b] = pieces[b] \cup IF d.arguments THEN {n} ELSE {}
    /\ \A c \in Blks(named) : c # b => more[c] = pieces[c]

\* The calls and the loop, named calls known and some of them stopped.  r: the loop
\* before the chunk.
PartOf(r, s, n, last, named, stopped, pieces) ==
    /\ IsPart(s, n, last) /\ CallsAt(s.tool_calls, named, stopped)
    /\ Holds(ReadAll(r, s.events), Blks(named \ stopped), Blks(stopped), pieces)

LEMMA DeltaStep ==
    ASSUME NEW r, NEW s, NEW n, NEW last, NEW named, NEW stopped, NEW pieces, NEW d, NEW i, NEW b, NEW more,
           PartOf(r, s, n, last, named, stopped, pieces),
           Calls(s, n, last, named, stopped, pieces, d, i, b, more),
           NEW now, now = stopped \cup IF last THEN {i} ELSE {}
    PROVE  PartOf(r, ToolDelta(s, d), n, last, named \cup {i}, now, more)
<1>0. /\ n \in Nat /\ last \in BOOLEAN /\ i = d.index /\ i \in CallIndices /\ i \notin stopped
      /\ named \subseteq CallIndices /\ stopped \subseteq named
      /\ IsPart(s, n, last) /\ CallsAt(s.tool_calls, named, stopped)
      /\ d.named \in BOOLEAN /\ d.arguments \in BOOLEAN
      /\ d.named <=> i \notin named
      /\ b = BlockIndex(i)
      /\ \A p \in pieces[b] : p < n
      /\ i \notin named => pieces[b] = {}
      /\ \A j \in named : j # i => Slot(consumer, BlockIndex(j)) # Slot(consumer, b)
      /\ more[b] = pieces[b] \cup IF d.arguments THEN {n} ELSE {}
      /\ \A c \in Blks(named) : c # b => more[c] = pieces[c]
  BY DEF Calls
<1>1. PICK c : c = s.tool_calls[i] /\ IsCall(c, i \in named, i \in stopped)
  BY <1>0 DEF CallsAt
<1>2. PICK nm \in BOOLEAN : nm <=> i \in named
  OBVIOUS
<1>3. IsCall(c, nm, FALSE)
  BY <1>0, <1>1, <1>2 DEF IsCall
<1>4. PICK call : call = Applied(c, d, n)
  OBVIOUS
<1>5. PICK x : x = Passing(call, last)
  OBVIOUS
<1>6. PICK es : es = ToolEvents(call, i, last)
  OBVIOUS
<1>7. PICK w \in BOOLEAN : w = d.arguments
  BY <1>0
<1>8. call.named /\ IsCall(x, TRUE, last) /\ es = CallEvents(b, n, ~nm, w, last)
  <2>1. Taking(nm, c, d, n, last, call)
    BY <1>0, <1>2, <1>3, <1>4 DEF Taking
  <2>2. Took(nm, d, n, last, call)
    BY ONLY <2>1, CallTakes
  <2> QED
    BY <1>0, <1>5, <1>6, <1>7, <2>2 DEF Took
<1>9. PICK open, done : open = Blks(named \ stopped) /\ done = Blks(stopped)
  OBVIOUS
<1>10. /\ b \in open <=> i \in named
       /\ b \notin done /\ open \cup done = Blks(named)
       /\ Blks((named \cup {i}) \ now) = IF last THEN open \ {b} ELSE open \cup {b}
       /\ Blks(now) = IF last THEN done \cup {b} ELSE done
  <2>1. named \ stopped \subseteq CallIndices /\ stopped \subseteq CallIndices /\ {i} \subseteq CallIndices
        /\ (named \ stopped) \cup stopped = named
    BY <1>0
  <2>2. b \in open <=> i \in named
    BY <1>0, <1>9, <2>1, BlockIs
  <2>3. b \notin done
    BY <1>0, <1>9, <2>1, BlockIs
  <2>4. open \cup done = Blks(named)
    BY <1>9, <2>1, BlockSets
  <2>5. Blks({i}) = {b}
    BY <1>0, BlockIs
  <2>6. Blks((named \ stopped) \ {i}) = open \ {b} /\ Blks((named \ stopped) \cup {i}) = open \cup {b}
    <3>1. Blks(named \ stopped) \ Blks({i}) = Blks((named \ stopped) \ {i})
      BY <2>1, BlockSets
    <3>2. Blks(named \ stopped) \cup Blks({i}) = Blks((named \ stopped) \cup {i})
      BY <2>1, BlockSets
    <3> QED
      BY <1>9, <2>5, <3>1, <3>2
  <2>7. Blks(stopped \cup {i}) = done \cup {b}
    <3>1. Blks(stopped) \cup Blks({i}) = Blks(stopped \cup {i})
      BY <2>1, BlockSets
    <3> QED
      BY <1>9, <2>5, <3>1
  <2>8. last => (named \cup {i}) \ now = (named \ stopped) \ {i} /\ now = stopped \cup {i}
    OBVIOUS
  <2>9. ~last => (named \cup {i}) \ now = (named \ stopped) \cup {i} /\ now = stopped
    BY <1>0
  <2>10. /\ Blks((named \cup {i}) \ now) = IF last THEN open \ {b} ELSE open \cup {b}
         /\ Blks(now) = IF last THEN done \cup {b} ELSE done
    <3>1. CASE last
      BY <2>6, <2>7, <2>8, <3>1
    <3>2. CASE ~last
      BY <1>9, <2>6, <2>9, <3>2
    <3> QED
      BY <1>0, <3>1, <3>2
  <2> QED
    BY <2>2, <2>3, <2>4, <2>10
<1>11. ASSUME NEW o \in open, b \notin open PROVE Slot(consumer, o) # Slot(consumer, b)
  <2>1. PICK j \in named \ stopped : o = BlockIndex(j)
    BY <1>9 DEF Blks
  <2>2. j # i
    BY <1>10, <1>11
  <2> QED
    BY <1>0, <2>1, <2>2
<1>12. PICK q : q = ReadAll(r, s.events) /\ Holds(q, open, done, pieces)
  BY <1>9 DEF PartOf
<1>13. PICK fresh \in BOOLEAN : fresh = ~nm
  BY <1>2
<1>14. Events(es) /\ HeardCall(ReadAll(q, es), open, done, b, last, more)
  <2>1. Holds(q, open, done, pieces)
    BY <1>12
  <2>2. fresh <=> b \notin open
    BY <1>2, <1>10, <1>13
  <2>3. fresh => pieces[b] = {} /\ \A o \in open : Slot(consumer, o) # Slot(consumer, b)
    BY <1>0, <1>10, <1>11, <2>2
  <2>4. more[b] = pieces[b] \cup IF w THEN {n} ELSE {}
    BY <1>0, <1>7
  <2>5. Calling(open, done, pieces, b, n, fresh, w, last, more)
    BY <1>0, <1>7, <1>10, <1>13, <2>2, <2>3, <2>4 DEF Calling
  <2>6. es = CallEvents(b, n, fresh, w, last)
    BY <1>8, <1>13
  <2> QED
    BY ONLY <2>1, <2>5, <2>6, CallHeard
<1>15. PICK t : t = ToolDelta(s, d)
  OBVIOUS
<1>16. IsPart(t, n, last) /\ t.events = s.events \o es /\ t.tool_calls = [s.tool_calls EXCEPT ![i] = x]
  <2>1. Takes(s, d, i, n, last, call, es)
    BY <1>0, <1>1, <1>4, <1>6, <1>8, <1>14 DEF Takes
  <2>2. Makes(s, t, i, n, last, call, es)
    BY <1>15, <2>1, DeltaTaken
  <2> QED
    BY <1>5, <2>2 DEF Makes
<1>17. ReadAll(r, t.events) = ReadAll(q, es)
  <2>1. Events(s.events)
    BY <1>0 DEF IsPart
  <2> QED
    BY <1>12, <1>14, <1>16, <2>1, ReadJoin
<1>18. Holds(ReadAll(r, t.events), Blks((named \cup {i}) \ now), Blks(now), more)
  <2>1. CASE last
    BY <1>10, <1>14, <1>17, <2>1 DEF HeardCall
  <2>2. CASE ~last
    BY <1>10, <1>14, <1>17, <2>2 DEF HeardCall
  <2> QED
    BY <2>1, <2>2
<1>19. CallsAt(t.tool_calls, named \cup {i}, now)
  <2>1. PICK g : g = s.tool_calls /\ g = [j \in CallIndices |-> g[j]]
                 /\ \A j \in CallIndices : IsCall(g[j], j \in named, j \in stopped)
    BY <1>0 DEF CallsAt
  <2>2. PICK h : h = t.tool_calls /\ h = [g EXCEPT ![i] = x]
    BY <1>16, <2>1
  <2>3. DOMAIN g = CallIndices
    BY <2>1
  <2>4. h = [j \in CallIndices |-> h[j]] /\ h[i] = x /\ \A j \in CallIndices : j # i => h[j] = g[j]
    BY <1>0, <2>2, <2>3, ZenonT(40)
  <2>5. ASSUME NEW j \in CallIndices PROVE IsCall(h[j], j \in named \cup {i}, j \in now)
    <3>1. CASE j = i
      <4>1. (j \in named \cup {i}) <=> TRUE
        BY <3>1
      <4>2. (j \in now) <=> last
        BY <1>0, <3>1
      <4>3. IsCall(x, TRUE, last) /\ h[j] = x
        BY <1>8, <2>4, <3>1
      <4> QED
        BY ONLY <4>1, <4>2, <4>3 DEF IsCall
    <3>2. CASE j # i
      <4>1. (j \in named \cup {i}) <=> j \in named
        BY <3>2
      <4>2. (j \in now) <=> j \in stopped
        BY <3>2
      <4>3. IsCall(g[j], j \in named, j \in stopped) /\ h[j] = g[j]
        BY <2>1, <2>4, <3>2
      <4> QED
        BY ONLY <4>1, <4>2, <4>3 DEF IsCall
    <3> QED
      BY <3>1, <3>2
  <2> QED
    BY <2>2, <2>4, <2>5 DEF CallsAt
<1> QED
  BY <1>15, <1>16, <1>18, <1>19 DEF PartOf
\* What a chunk says before its tool calls is nothing to them.
LEMMA MaybeOther ==
    ASSUME NEW r, NEW open, NEW done, NEW pieces, Holds(r, open, done, pieces), NEW e, Other(e),
           NEW es, es \in {<<>>, <<e>>}
    PROVE  Events(es) /\ Holds(ReadAll(r, es), open, done, pieces)
<1>1. CASE es = <<e>>
  <2>1. ReadAll(r, es) = Hears(r, e)
    BY <1>1, ReadOne
  <2> QED
    BY <1>1, <2>1, HearOther, EventLists
<1>2. CASE es = <<>>
  BY <1>2, ReadNone, EventLists
<1> QED
  BY <1>1, <1>2

LEMMA ContentHeard ==
    ASSUME NEW r, NEW open, NEW done, NEW pieces, Holds(r, open, done, pieces),
           NEW st, NEW chunk, NEW n
    PROVE  /\ Events(ContentEvents(st, chunk, n))
           /\ Holds(ReadAll(r, ContentEvents(st, chunk, n)), open, done, pieces)
<1>1. PICK e1, e2, e3, e4 : /\ e1 = MessageStart /\ e2 = Delta(0, "thinking", <<n>>)
                            /\ e3 = Start(0, "text") /\ e4 = Delta(0, "text", <<n>>)
  OBVIOUS
<1>2. PICK A, B, C, D : /\ A = IF st.message_started THEN <<>> ELSE <<e1>>
                        /\ B = IF chunk.reasoning THEN <<e2>> ELSE <<>>
                        /\ C = IF chunk.content /\ ~st.text_started THEN <<e3>> ELSE <<>>
                        /\ D = IF chunk.content THEN <<e4>> ELSE <<>>
  OBVIOUS
<1>3. ContentEvents(st, chunk, n) = A \o B \o C \o D
  BY <1>1, <1>2 DEF ContentEvents
<1>4. Other(e1) /\ Other(e2) /\ Other(e3) /\ Other(e4)
  BY <1>1 DEF Other
<1>5. A \in {<<>>, <<e1>>} /\ B \in {<<>>, <<e2>>} /\ C \in {<<>>, <<e3>>} /\ D \in {<<>>, <<e4>>}
  BY <1>2
<1>6. PICK r1, r2, r3, r4 : r1 = ReadAll(r, A) /\ r2 = ReadAll(r1, B) /\ r3 = ReadAll(r2, C) /\ r4 = ReadAll(r3, D)
  OBVIOUS
<1>7. Events(A) /\ Holds(r1, open, done, pieces)
  BY <1>4, <1>5, <1>6, MaybeOther
<1>8. Events(B) /\ Holds(r2, open, done, pieces)
  BY <1>4, <1>5, <1>6, <1>7, MaybeOther
<1>9. Events(C) /\ Holds(r3, open, done, pieces)
  BY <1>4, <1>5, <1>6, <1>8, MaybeOther
<1>10. Events(D) /\ Holds(r4, open, done, pieces)
  BY <1>4, <1>5, <1>6, <1>9, MaybeOther
<1>11. Events(A \o B) /\ ReadAll(r, A \o B) = r2
  BY <1>6, <1>7, <1>8, ReadJoin
<1>12. Events(A \o B \o C) /\ ReadAll(r, A \o B \o C) = r3
  BY <1>6, <1>9, <1>11, ReadJoin
<1>13. Events(A \o B \o C \o D) /\ ReadAll(r, A \o B \o C \o D) = r4
  BY <1>6, <1>10, <1>12, ReadJoin
<1> QED
  BY <1>3, <1>10, <1>13

\* The calls of chunk n up to its entry k, those they stop, and the pieces they bring.
Entry(n, k) == sent[n].tool_calls[k]
CalledBy(n, k) == {Entry(n, j).index : j \in 1 .. k}
NamedIn(n, k) == NamedBy(n - 1) \cup CalledBy(n, k)
StoppedIn(n, k) == IF sent[n].finish = "tool_calls" THEN CalledBy(n, k) ELSE {}
Brings(n, k, b) == \E j \in 1 .. k : BlockIndex(Entry(n, j).index) = b /\ Entry(n, j).arguments
PiecesIn(n, k) == [b \in Nat |-> PiecesBy(n - 1)[b] \cup IF Brings(n, k, b) THEN {n} ELSE {}]

\* A chunk of a chat completion.
Chunks(n) ==
    /\ n \in Nat /\ n - 1 \in Nat /\ sent[n].kind = "chunk"
    /\ \A m \in 1 .. n : ContinuesChunks(m)
    /\ n \in 1 .. n /\ \A m \in 1 .. n - 1 : m \in 1 .. n /\ m < n

LEMMA ChunkEntries ==
    ASSUME NEW n, Chunks(n)
    PROVE  /\ sent[n].tool_calls \in Seq([index : CallIndices, named : BOOLEAN, arguments : BOOLEAN])
           /\ Len(sent[n].tool_calls) \in Nat /\ DOMAIN sent[n].tool_calls = 1 .. Len(sent[n].tool_calls)
           /\ \A k \in DOMAIN sent[n].tool_calls :
                 /\ Entry(n, k).index \in CallIndices
                 /\ Entry(n, k).named \in BOOLEAN /\ Entry(n, k).arguments \in BOOLEAN
                 /\ Entry(n, k).named <=> Entry(n, k).index \notin NamedBy(n - 1)
                 /\ \A j \in DOMAIN sent[n].tool_calls : Entry(n, j).index = Entry(n, k).index => j = k
<1>1. ContinuesChunks(n)
  BY DEF Chunks
<1>2. PICK t : t = sent[n].tool_calls
  OBVIOUS
<1>3. /\ t \in Seq([index : CallIndices, named : BOOLEAN, arguments : BOOLEAN])
      /\ \A k \in DOMAIN t : t[k].named = (t[k].index \notin NamedBy(n - 1))
      /\ \A j, k \in DOMAIN t : t[j].index = t[k].index => j = k
  BY <1>1, <1>2 DEF ContinuesChunks, Chunks
<1>4. Len(t) \in Nat /\ DOMAIN t = 1 .. Len(t)
      /\ \A k \in DOMAIN t : t[k].index \in CallIndices /\ t[k].named \in BOOLEAN /\ t[k].arguments \in BOOLEAN
  <2>1. PICK S : S = [index : CallIndices, named : BOOLEAN, arguments : BOOLEAN] /\ t \in Seq(S)
    BY <1>3
  <2>2. Len(t) \in Nat /\ DOMAIN t = 1 .. Len(t) /\ \A k \in DOMAIN t : t[k] \in S
    <3>1. t \in Seq(S)
      BY <2>1
    <3> QED
      BY ONLY <3>1
  <2>3. \A e \in S : e.index \in CallIndices /\ e.named \in BOOLEAN /\ e.arguments \in BOOLEAN
    BY <2>1
  <2> QED
    BY <2>2, <2>3
<1>5. \A k \in DOMAIN t : t[k].named <=> t[k].index \notin NamedBy(n - 1)
  BY <1>3, <1>4
<1> QED
  BY <1>2, <1>3, <1>4, <1>5 DEF Entry

LEMMA ChunkBegins ==
    ASSUME NEW n, Chunks(n)
    PROVE  /\ NamedIn(n, 0) = NamedBy(n - 1) /\ StoppedIn(n, 0) = {}
           /\ \A b \in Nat : PiecesIn(n, 0)[b] = PiecesBy(n - 1)[b]
<1>1. 1 .. 0 = {}
  OBVIOUS
<1>2. CalledBy(n, 0) = {} /\ \A b : ~Brings(n, 0, b)
  BY <1>1 DEF CalledBy, Brings
<1> QED
  BY <1>2 DEF NamedIn, StoppedIn, PiecesIn

\* One more entry.
LEMMA ChunkGoesOn ==
    ASSUME NEW n, Chunks(n), NEW k \in DOMAIN sent[n].tool_calls,
           NEW i, i = Entry(n, k).index, NEW b, b = BlockIndex(i)
    PROVE  /\ CalledBy(n, k) = CalledBy(n, k - 1) \cup {i} /\ i \notin CalledBy(n, k - 1)
           /\ CalledBy(n, k - 1) \subseteq CallIndices
           /\ Brings(n, k, b) <=> Entry(n, k).arguments
           /\ ~Brings(n, k - 1, b)
           /\ \A c : c # b => (Brings(n, k, c) <=> Brings(n, k - 1, c))
<1>1. k \in Nat /\ k >= 1 /\ 1 .. k = (1 .. k - 1) \cup {k} /\ k \notin 1 .. k - 1
      /\ \A j \in 1 .. k : j \in DOMAIN sent[n].tool_calls
  <2>1. DOMAIN sent[n].tool_calls = 1 .. Len(sent[n].tool_calls) /\ Len(sent[n].tool_calls) \in Nat
    BY ChunkEntries
  <2> QED
    BY <2>1
<1>2. /\ \A j \in 1 .. k : Entry(n, j).index \in CallIndices
      /\ \A j \in 1 .. k - 1 : Entry(n, j).index # i
  <2>1. \A j \in 1 .. k - 1 : j \in DOMAIN sent[n].tool_calls /\ j # k
    BY <1>1
  <2> QED
    BY <1>1, <2>1, ChunkEntries
<1>3. CalledBy(n, k) = CalledBy(n, k - 1) \cup {i} /\ i \notin CalledBy(n, k - 1)
      /\ CalledBy(n, k - 1) \subseteq CallIndices
  BY <1>1, <1>2 DEF CalledBy
<1>4. \A j \in 1 .. k - 1 : BlockIndex(Entry(n, j).index) # b
  <2>1. CallIndices \subseteq Nat /\ i \in CallIndices
    BY <1>1, <1>2, CallIndicesAssumption
  <2>2. ASSUME NEW x \in CallIndices, NEW y \in CallIndices, BlockIndex(x) = BlockIndex(y) PROVE x = y
    BY <2>1, <2>2 DEF BlockIndex
  <2> QED
    BY <1>1, <1>2, <2>1, <2>2
<1>5. ~Brings(n, k - 1, b)
  BY <1>4 DEF Brings
<1>6. Brings(n, k, b) <=> Entry(n, k).arguments
  BY <1>1, <1>4 DEF Brings
<1>7. ASSUME NEW c, c # b PROVE Brings(n, k, c) <=> Brings(n, k - 1, c)
  BY <1>1, <1>7 DEF Brings
<1> QED
  BY <1>3, <1>5, <1>6, <1>7

\* No piece comes before its call.
LEMMA NamedFirst ==
    ASSUME provider = "openai", NEW n, Chunks(n), NEW i \in CallIndices, NEW b, b = BlockIndex(i),
           i \notin NamedBy(n - 1)
    PROVE  PiecesBy(n - 1)[b] = {}
<1>1. CallIndices \subseteq Nat
  BY CallIndicesAssumption
<1>2. b \in Nat
  BY <1>1 DEF BlockIndex
<1>3. PiecesBy(n - 1)[b] = {m \in 1 .. n - 1 : Writes(m, b)}
  BY <1>2 DEF PiecesBy
<1>4. ASSUME NEW m \in 1 .. n - 1 PROVE ~Writes(m, b)
  <2> SUFFICES ASSUME Writes(m, b) PROVE FALSE
    OBVIOUS
  <2>1. PICK d \in Deltas(m) : BlockIndex(d.index) = b
    BY DEF Writes
  <2>2. ContinuesChunks(m)
    BY DEF Chunks
  <2>3. sent[m].kind = "chunk" /\ d \in Range(sent[m].tool_calls)
    BY <2>1 DEF Deltas
  <2>4. d.index \in CallIndices
    <3>1. PICK t, S : /\ t = sent[m].tool_calls /\ t \in Seq(S)
                      /\ S = [index : CallIndices, named : BOOLEAN, arguments : BOOLEAN]
      BY <2>2, <2>3 DEF ContinuesChunks
    <3>2. PICK k \in DOMAIN t : d = t[k]
      BY <2>3, <3>1 DEF Range
    <3>3. t \in Seq(S)
      BY <3>1
    <3>4. t[k] \in S
      BY ONLY <3>3, k \in DOMAIN t
    <3> QED
      BY <3>1, <3>2, <3>4
  <2>5. d.index = i
    <3>1. PICK x \in Nat, y \in Nat : x = d.index /\ y = i
      BY <1>1, <2>4
    <3>2. x + 1 = y + 1
      BY <2>1, <3>1 DEF BlockIndex
    <3>3. x = y
      BY ONLY x \in Nat, y \in Nat, <3>2
    <3> QED
      BY <3>1, <3>3
  <2> QED
    BY <2>1, <2>5 DEF NamedBy
<1> QED
  BY <1>3, <1>4

LEMMA ChunkEnds ==
    ASSUME provider = "openai", NEW n, Chunks(n)
    PROVE  /\ NamedIn(n, Len(sent[n].tool_calls)) = NamedBy(n)
           /\ \A b \in Nat : PiecesIn(n, Len(sent[n].tool_calls))[b] = PiecesBy(n)[b]
<1>1. PICK t, K : t = sent[n].tool_calls /\ K = Len(t) /\ DOMAIN t = 1 .. K
  BY ChunkEntries
<1>2. \A d : d \in Deltas(n) <=> \E j \in 1 .. K : d = Entry(n, j)
  BY <1>1 DEF Deltas, Range, Entry, Chunks
<1>3. \A m : m \in 1 .. n <=> m \in 1 .. n - 1 \/ m = n
  BY DEF Chunks
<1>4. NamedIn(n, K) = NamedBy(n)
  <2>1. CalledBy(n, K) \subseteq CallIndices
    BY <1>1, ChunkEntries DEF CalledBy
  <2>2. \A i : i \in CalledBy(n, K) <=> \E d \in Deltas(n) : d.index = i
    BY <1>2 DEF CalledBy
  <2> QED
    BY <1>3, <2>1, <2>2 DEF NamedIn, NamedBy
<1>5. ASSUME NEW b \in Nat PROVE PiecesIn(n, K)[b] = PiecesBy(n)[b]
  <2>1. Brings(n, K, b) <=> Writes(n, b)
    BY <1>2 DEF Brings, Writes
  <2>2. PiecesIn(n, K)[b] = PiecesBy(n - 1)[b] \cup IF Brings(n, K, b) THEN {n} ELSE {}
    BY DEF PiecesIn
  <2>3. /\ PiecesBy(n)[b] = {k \in 1 .. n : Writes(k, b)}
        /\ PiecesBy(n - 1)[b] = {k \in 1 .. n - 1 : Writes(k, b)}
    BY DEF PiecesBy
  <2> QED
    BY <1>3, <2>1, <2>2, <2>3
<1> QED
  BY <1>1, <1>4, <1>5
-----------------------------------------------------------------------------
(* The calls that are open, in their order.                                *)

Orders(s, S) ==
    /\ s \in [1 .. Cardinality(S) -> S] /\ Range(s) = S
    /\ \A i, j \in 1 .. Cardinality(S) : i < j => s[i] < s[j]

\* A set is put in order from its least element on.
LEMMA OrdersMore ==
    ASSUME NEW S, S \subseteq Nat, IsFiniteSet(S), NEW m \in S, \A k \in S : m <= k,
           NEW T, T = S \ {m}, NEW t, Orders(t, T)
    PROVE  \E s : Orders(s, S)
<1>1. PICK n \in Nat : n = Cardinality(T) /\ Cardinality(S) = n + 1 /\ IsFiniteSet(T)
  <2>1. IsFiniteSet(T) /\ Cardinality(T) = Cardinality(S) - 1
    BY FS_RemoveElement
  <2>2. Cardinality(S) \in Nat /\ Cardinality(T) \in Nat
    BY <2>1, FS_CardinalityType
  <2> QED
    BY <2>1, <2>2
<1>2. /\ t \in [1 .. n -> T] /\ Range(t) = T
      /\ \A i, j \in 1 .. n : i < j => t[i] < t[j]
  BY <1>1 DEF Orders
<1>3. \A k \in T : m < k /\ k \in Nat
  OBVIOUS
<1> DEFINE s == [i \in 1 .. n + 1 |-> IF i = 1 THEN m ELSE t[i - 1]]
<1>4. \A i \in 1 .. n + 1 : i = 1 \/ i - 1 \in 1 .. n
  OBVIOUS
<1>5. DOMAIN s = 1 .. n + 1 /\ s[1] = m /\ \A i \in 1 .. n + 1 : i # 1 => s[i] = t[i - 1]
  OBVIOUS
<1>6. \A i \in 1 .. n : i + 1 \in 1 .. n + 1 /\ i + 1 # 1 /\ (i + 1) - 1 = i
  OBVIOUS
<1>7. s \in [1 .. n + 1 -> S]
  <2>1. \A i \in 1 .. n + 1 : s[i] \in S
    BY <1>2, <1>4
  <2> QED
    BY <2>1
<1> HIDE DEF s
<1>8. Range(s) = S
  <2>1. ASSUME NEW k \in S PROVE k \in Range(s)
    <3>1. CASE k = m
      <4>1. 1 \in DOMAIN s
        BY <1>5
      <4> QED
        BY <1>5, <3>1, <4>1 DEF Range
    <3>2. CASE k # m
      <4>1. PICK i \in DOMAIN t : t[i] = k
        BY <1>2, <3>2 DEF Range
      <4>2. i + 1 \in DOMAIN s /\ s[i + 1] = k
        BY <1>2, <1>5, <1>6, <4>1
      <4> QED
        BY <4>2 DEF Range
    <3> QED
      BY <3>1, <3>2
  <2>2. \A k \in Range(s) : k \in S
    BY <1>5, <1>7 DEF Range
  <2> QED
    BY <2>1, <2>2
<1>9. ASSUME NEW i \in 1 .. n + 1, NEW j \in 1 .. n + 1, i < j PROVE s[i] < s[j]
  <2>1. j - 1 \in 1 .. n /\ s[j] = t[j - 1] /\ t[j - 1] \in T
    <3>1. j # 1
      BY <1>9
    <3> QED
      BY <1>2, <1>4, <1>5, <3>1
  <2>2. CASE i = 1
    BY <1>3, <1>5, <2>1, <2>2
  <2>3. CASE i # 1
    <3>1. i - 1 \in 1 .. n /\ i - 1 < j - 1
      BY <1>9, <2>3
    <3> QED
      BY <1>2, <1>5, <2>1, <2>3, <3>1
  <2> QED
    BY <2>2, <2>3
<1> QED
  BY <1>1, <1>7, <1>8, <1>9 DEF Orders

LEMMA OrderExists ==
    ASSUME NEW S, S \subseteq Nat, IsFiniteSet(S)
    PROVE  Orders(InOrder(S), S)
<1> DEFINE good == {n \in Nat : \A T \in SUBSET S : Cardinality(T) = n => \E s : Orders(s, T)}
<1>1. 0 \in good
  <2>1. ASSUME NEW T \in SUBSET S, Cardinality(T) = 0 PROVE \E s : Orders(s, T)
    <3>1. T = {} /\ 1 .. 0 = {}
      <4>1. IsFiniteSet(T)
        BY FS_Subset
      <4>2. T = {}
        BY <2>1, <4>1, FS_EmptySet
      <4> QED
        BY <4>2
    <3>2. PICK s : s = [i \in 1 .. 0 |-> i]
      OBVIOUS
    <3>3. DOMAIN s = {} /\ s \in [1 .. 0 -> T]
      BY <3>1, <3>2
    <3>4. Range(s) = T
      BY <3>1, <3>3 DEF Range
    <3>5. Orders(s, T)
      BY <2>1, <3>1, <3>3, <3>4 DEF Orders
    <3> QED
      BY <3>5
  <2> QED
    BY <2>1
<1>2. ASSUME NEW k \in Nat, k >= 1, k - 1 \in good PROVE k \in good
  <2> SUFFICES ASSUME NEW T \in SUBSET S, Cardinality(T) = k PROVE \E s : Orders(s, T)
    OBVIOUS
  <2>1. IsFiniteSet(T) /\ T # {} /\ T \subseteq Nat
    <3>1. IsFiniteSet(T)
      BY FS_Subset
    <3>2. T # {}
      BY <1>2, FS_EmptySet
    <3> QED
      BY <3>1, <3>2
  <2>2. PICK m \in T : \A l \in T : m <= l
    BY <2>1, LeastNumber
  <2>3. PICK U : U = T \ {m}
    OBVIOUS
  <2>4. Cardinality(U) = k - 1
    BY <2>1, <2>3, FS_RemoveElement
  <2>5. PICK u : Orders(u, U)
    BY <1>2, <2>3, <2>4
  <2> HIDE DEF good
  <2> QED
    BY <2>1, <2>2, <2>3, <2>5, OrdersMore
<1> HIDE DEF good
<1>3. PICK n \in Nat : n = Cardinality(S)
  BY FS_CardinalityType
<1>4. n \in good
  <2>1. \A k \in 1 .. n : k \in Nat /\ k >= 1
    OBVIOUS
  <2> QED
    BY <1>1, <1>2, <2>1, Climb
<1>5. PICK s : Orders(s, S)
  BY <1>3, <1>4 DEF good
<1> QED
  BY <1>5 DEF Orders, InOrder

\* The stops of the open calls close their blocks.
LEMMA StopsNothing ==
    ASSUME NEW r, NEW done, NEW pieces, Holds(r, {}, done, pieces),
           NEW n \in Nat, NEW s, DOMAIN s = 1 .. n, \A k \in 1 .. n : \E b : s[k] = Stop(b)
    PROVE  ReadAll(r, s) = r
<1>1. PICK c : Passes("events", c, r, s, n) /\ Looped("events", r, s) = c[n]
  BY LoopRun
<1>2. c[0] = r /\ \A k \in 1 .. n : c[k] = Hears(c[k - 1], s[k])
  BY <1>1 DEF Passes, Pass
<1> DEFINE good == {k \in 0 .. n : c[k] = r}
<1>3. 0 \in good
  BY <1>2
<1>4. ASSUME NEW k \in 1 .. n, k - 1 \in good PROVE k \in good
  <2>1. PICK b : s[k] = Stop(b)
    OBVIOUS
  <2>2. c[k] = Hears(r, Stop(b))
    BY <1>2, <1>4, <2>1
  <2>3. Hears(r, Stop(b)) = r
    BY HearStopNothing
  <2> QED
    BY <2>2, <2>3
<1>5. n \in good
  <2> HIDE DEF good
  <2> QED
    BY <1>3, <1>4, Climb
<1> QED
  BY <1>1, <1>5, Loops

\* s stops the calls of S in the order of t.
Stopped(r, done, pieces, S, t, s) ==
    /\ S \subseteq CallIndices /\ IsFiniteSet(S) /\ Orders(t, S)
    /\ Holds(r, Blks(S), done, pieces)
    /\ s = [k \in DOMAIN t |-> Stop(BlockIndex(t[k]))]

LEMMA StopsAll ==
    ASSUME NEW r, NEW done, NEW pieces, NEW S, NEW t, NEW s, Stopped(r, done, pieces, S, t, s)
    PROVE  Events(s) /\ Holds(ReadAll(r, s), {}, done \cup Blks(S), pieces)
<1>0. /\ S \subseteq CallIndices /\ IsFiniteSet(S) /\ Orders(t, S)
      /\ Holds(r, Blks(S), done, pieces)
      /\ s = [k \in DOMAIN t |-> Stop(BlockIndex(t[k]))]
  BY DEF Stopped
<1>1. PICK n \in Nat : n = Cardinality(S)
  BY <1>0, FS_CardinalityType
<1>2. /\ t \in [1 .. n -> S] /\ Range(t) = S
      /\ \A i, j \in 1 .. n : i < j => t[i] < t[j]
  BY <1>0, <1>1 DEF Orders
<1>3. DOMAIN s = 1 .. n /\ \A k \in 1 .. n : s[k] = Stop(BlockIndex(t[k]))
  BY <1>0, <1>2
<1>4. Events(s)
  <2>1. PICK E : E = {Stop(BlockIndex(i)) : i \in S}
    OBVIOUS
  <2>2. \A k \in 1 .. n : s[k] \in E
    BY <1>2, <1>3, <2>1
  <2>3. s = [k \in 1 .. n |-> s[k]]
    BY <1>0, <1>2
  <2>4. s \in Seq(E)
    BY <1>3, <2>2, <2>3
  <2> QED
    BY <2>4 DEF Events
<1>5. \A i, j \in 1 .. n : t[i] = t[j] => i = j
  <2>1. S \subseteq Nat
    BY <1>0, CallIndicesAssumption
  <2>2. ASSUME NEW i \in 1 .. n, NEW j \in 1 .. n, t[i] = t[j] PROVE i = j
    <3>1. PICK x \in Nat, y \in Nat : x = t[i] /\ y = t[j]
      BY <1>2, <2>1
    <3>2. ~(x < y) /\ ~(y < x)
      BY <2>2, <3>1
    <3>3. ~(i < j) /\ ~(j < i)
      BY <1>2, <3>1, <3>2
    <3> QED
      BY <3>3
  <2> QED
    BY <2>2
<1>6. PICK c : Passes("events", c, r, s, n) /\ Looped("events", r, s) = c[n]
  <2>1. DOMAIN s = 1 .. n
    BY <1>3
  <2> QED
    BY ONLY <2>1, n \in Nat, LoopRun
<1>7. c[0] = r /\ \A k \in 1 .. n : c[k] = Hears(c[k - 1], s[k])
  BY <1>6 DEF Passes, Pass
<1> DEFINE Gone(k) == {BlockIndex(t[i]) : i \in 1 .. k}
           good == {k \in 0 .. n : Holds(c[k], Blks(S) \ Gone(k), done \cup Gone(k), pieces)}
<1>8. 0 \in good
  <2>1. Gone(0) = {}
    <3>1. 1 .. 0 = {}
      OBVIOUS
    <3> QED
      BY <3>1
  <2>2. Blks(S) \ Gone(0) = Blks(S) /\ done \cup Gone(0) = done /\ 0 \in 0 .. n
    BY <2>1
  <2> HIDE DEF Gone
  <2> QED
    BY <1>0, <1>7, <2>2
<1>9. ASSUME NEW k \in 1 .. n, k - 1 \in good PROVE k \in good
  <2>1. PICK b : b = BlockIndex(t[k])
    OBVIOUS
  <2>2. 1 .. k = (1 .. k - 1) \cup {k} /\ k \in 0 .. n
    OBVIOUS
  <2>3. Gone(k) = Gone(k - 1) \cup {b}
    BY <2>1, <2>2
  <2>4. b \in Blks(S)
    BY <1>2, <2>1 DEF Blks
  <2>5. b \notin Gone(k - 1)
    <3>1. ASSUME NEW i \in 1 .. k - 1 PROVE BlockIndex(t[i]) # b
      <4>1. i \in 1 .. n /\ i # k
        OBVIOUS
      <4>2. t[i] # t[k] /\ t[i] \in CallIndices /\ t[k] \in CallIndices
        BY <1>0, <1>2, <1>5, <4>1
      <4>3. PICK x \in Nat, y \in Nat : x = t[i] /\ y = t[k]
        BY <4>2, CallIndicesAssumption
      <4>4. x + 1 # y + 1
        BY <4>2, <4>3
      <4> QED
        BY <2>1, <4>3, <4>4 DEF BlockIndex
    <3> QED
      BY <3>1
  <2>6. Holds(c[k - 1], Blks(S) \ Gone(k - 1), done \cup Gone(k - 1), pieces)
    BY <1>9
  <2>7. PICK o, d : o = Blks(S) \ Gone(k - 1) /\ d = done \cup Gone(k - 1)
    OBVIOUS
  <2>8. b \in o /\ o \ {b} = Blks(S) \ Gone(k) /\ d \cup {b} = done \cup Gone(k)
    <3> HIDE DEF Gone
    <3> QED
      BY <2>3, <2>4, <2>5, <2>7
  <2>9. Holds(Hears(c[k - 1], Stop(b)), o \ {b}, d \cup {b}, pieces)
    BY <2>6, <2>7, <2>8, HearStop
  <2>10. c[k] = Hears(c[k - 1], Stop(b))
    BY <1>3, <1>7, <2>1
  <2> HIDE DEF Gone
  <2> QED
    BY <2>2, <2>8, <2>9, <2>10
<1>10. n \in good
  <2> HIDE DEF good
  <2> QED
    BY <1>8, <1>9, Climb
<1>11. Gone(n) = Blks(S)
  <2>1. \A b : b \in Gone(n) <=> \E i \in 1 .. n : b = BlockIndex(t[i])
    OBVIOUS
  <2>2. \A x : x \in S <=> \E i \in 1 .. n : x = t[i]
    BY <1>2 DEF Range
  <2> HIDE DEF Gone
  <2> QED
    BY <2>1, <2>2 DEF Blks
<1>12. Holds(c[n], {}, done \cup Blks(S), pieces)
  <2>1. Blks(S) \ Gone(n) = {} /\ done \cup Gone(n) = done \cup Blks(S)
    BY <1>11
  <2> HIDE DEF Gone
  <2> QED
    BY <1>10, <2>1
<1> QED
  BY <1>4, <1>6, <1>12, Loops

LEMMA CallsStop ==
    ASSUME NEW calls, NEW named, named \subseteq CallIndices, NEW stopped, stopped \subseteq named,
           CallsAt(calls, named, stopped),
           NEW r, NEW pieces, Holds(r, Blks(named \ stopped), Blks(stopped), pieces)
    PROVE  Events(Stops(calls)) /\ Holds(ReadAll(r, Stops(calls)), {}, Blks(named), pieces)
<1>1. OpenCalls(calls) = named \ stopped
  BY DEF OpenCalls, CallsAt, IsCall
<1>2. PICK S : S = named \ stopped /\ S \subseteq CallIndices
  OBVIOUS
<1>3. IsFiniteSet(S) /\ S \subseteq Nat
  BY <1>2, CallIndicesAssumption, FS_Subset
<1>4. PICK t : t = InOrder(S) /\ Orders(t, S)
  BY <1>3, OrderExists
<1>5. Stops(calls) = [k \in DOMAIN t |-> Stop(BlockIndex(t[k]))]
  BY <1>1, <1>2, <1>4 DEF Stops
<1>6. Blks(stopped) \cup Blks(S) = Blks(named)
  BY <1>2 DEF Blks
<1>7. Events(Stops(calls)) /\ Holds(ReadAll(r, Stops(calls)), {}, Blks(stopped) \cup Blks(S), pieces)
  <2>1. Stopped(r, Blks(stopped), pieces, S, t, Stops(calls))
    BY <1>2, <1>3, <1>4, <1>5 DEF Stopped
  <2> QED
    BY ONLY <2>1, StopsAll
<1> QED
  BY <1>6, <1>7

LEMMA AllStop ==
    ASSUME NEW calls, NEW named, NEW stopped, stopped \subseteq named, CallsAt(calls, named, stopped)
    PROVE  CallsAt(AllStopped(calls), named, named)
<1>1. PICK g : g = AllStopped(calls)
  OBVIOUS
<1>2. g = [i \in CallIndices |-> g[i]] /\ \A i \in CallIndices : g[i] = [calls[i] EXCEPT !.stopped = @ \/ calls[i].started]
  BY <1>1 DEF AllStopped
<1>3. ASSUME NEW i \in CallIndices PROVE IsCall(g[i], i \in named, i \in named)
  <2>1. PICK c : c = calls[i] /\ IsCall(c, i \in named, i \in stopped)
    BY DEF CallsAt
  <2>2. PICK e, t, m, s, o : /\ c = [named |-> e, arguments |-> t, emitted |-> m, started |-> s, stopped |-> o]
                             /\ e = c.named /\ t = c.arguments /\ m = c.emitted /\ s = c.started /\ o = c.stopped
    BY <2>1 DEF IsCall
  <2>3. e \in BOOLEAN /\ s \in BOOLEAN /\ o \in BOOLEAN /\ t \in Seq(Nat) /\ m = Len(t)
        /\ (e <=> i \in named) /\ (s <=> i \in named) /\ (o <=> i \in stopped)
    BY <2>1, <2>2 DEF IsCall
  <2>4. (o \/ s) = s
    BY <2>3
  <2>5. g[i] = [c EXCEPT !.stopped = s]
    BY <1>2, <2>1, <2>2, <2>4
  <2>6. PICK v : v = g[i] /\ v = [named |-> e, arguments |-> t, emitted |-> m, started |-> s, stopped |-> s]
    BY <2>2, <2>5
  <2> QED
    BY <2>3, <2>6 DEF IsCall
<1> QED
  BY <1>1, <1>2, <1>3 DEF CallsAt

\* The same after k entries of chunk n.
PartAt(r, s, n, last, k) == PartOf(r, s, n, last, NamedIn(n, k), StoppedIn(n, k), PiecesIn(n, k))

\* The calls named so far have slots of their own.
ApartBy(n) ==
    \A i, j \in NamedBy(n) : Slot(consumer, BlockIndex(i)) = Slot(consumer, BlockIndex(j)) => i = j

LEMMA EntryTaken ==
    ASSUME provider = "openai", NEW n, Chunks(n), ApartBy(n), NEW last \in BOOLEAN,
           last <=> sent[n].finish = "tool_calls",
           NEW k \in DOMAIN sent[n].tool_calls, NEW r, NEW s, PartAt(r, s, n, last, k - 1)
    PROVE  PartAt(r, ToolDelta(s, Entry(n, k)), n, last, k)
<1>1. PICK d, i, b : d = Entry(n, k) /\ i = d.index /\ b = BlockIndex(i)
  OBVIOUS
<1>2. /\ i \in CallIndices /\ d.named \in BOOLEAN /\ d.arguments \in BOOLEAN
      /\ d.named <=> i \notin NamedBy(n - 1)
  BY <1>1, ChunkEntries
<1>3. /\ CalledBy(n, k) = CalledBy(n, k - 1) \cup {i} /\ i \notin CalledBy(n, k - 1)
      /\ CalledBy(n, k - 1) \subseteq CallIndices
      /\ Brings(n, k, b) <=> Entry(n, k).arguments
      /\ ~Brings(n, k - 1, b)
      /\ \A c : c # b => (Brings(n, k, c) <=> Brings(n, k - 1, c))
  BY <1>1, ChunkGoesOn
<1>4. PICK named, stopped, now : named = NamedIn(n, k - 1) /\ stopped = StoppedIn(n, k - 1) /\ now = StoppedIn(n, k)
  OBVIOUS
<1>5. PICK pieces, more : pieces = PiecesIn(n, k - 1) /\ more = PiecesIn(n, k)
  OBVIOUS
<1>6. PartOf(r, s, n, last, named, stopped, pieces)
  BY <1>4, <1>5 DEF PartAt
<1>7. /\ named \subseteq CallIndices /\ stopped \subseteq named /\ i \notin stopped
      /\ d.named <=> i \notin named
      /\ NamedIn(n, k) = named \cup {i}
      /\ now = stopped \cup IF last THEN {i} ELSE {}
  <2>1. NamedBy(n - 1) \subseteq CallIndices
    BY DEF NamedBy
  <2> QED
    BY <1>2, <1>3, <1>4, <2>1 DEF NamedIn, StoppedIn
<1>8. NamedIn(n, k) \subseteq NamedBy(n)
  <2>1. NamedIn(n, Len(sent[n].tool_calls)) = NamedBy(n)
    BY ChunkEnds
  <2>2. \A j \in 1 .. k : j \in 1 .. Len(sent[n].tool_calls)
    <3>1. PICK K \in Nat : K = Len(sent[n].tool_calls) /\ k \in 1 .. K
      BY ChunkEntries
    <3> QED
      BY <3>1
  <2>3. CalledBy(n, k) \subseteq CalledBy(n, Len(sent[n].tool_calls))
    BY <2>2 DEF CalledBy
  <2> QED
    BY <2>1, <2>3 DEF NamedIn
<1>9. \A j \in named : j # i => Slot(consumer, BlockIndex(j)) # Slot(consumer, b)
  BY <1>1, <1>7, <1>8 DEF ApartBy
<1>10. b \in Nat /\ n \in Nat /\ n \notin 1 .. n - 1 /\ \A p \in 1 .. n - 1 : p < n
  <2>1. b \in Nat
    BY <1>1, <1>2, BlockIs
  <2>2. n \in Nat
    BY DEF Chunks
  <2> QED
    BY <2>1, <2>2
<1>11. PICK old : /\ old = PiecesBy(n - 1)[b] /\ old \subseteq 1 .. n - 1
                  /\ i \notin named => old = {}
  <2>1. PiecesBy(n - 1)[b] \subseteq 1 .. n - 1
    BY <1>10 DEF PiecesBy
  <2>2. i \notin NamedBy(n - 1) => PiecesBy(n - 1)[b] = {}
    BY <1>1, <1>2, NamedFirst
  <2>3. i \notin named => i \notin NamedBy(n - 1)
    BY <1>4 DEF NamedIn
  <2> QED
    BY <2>1, <2>2, <2>3
<1>12. pieces[b] = old /\ more[b] = old \cup IF d.arguments THEN {n} ELSE {}
  BY <1>1, <1>3, <1>5, <1>10, <1>11 DEF PiecesIn
<1>13. \A c \in Blks(named) : c # b => more[c] = pieces[c]
  <2>1. Blks(named) \subseteq Nat
    BY <1>7, BlockIs DEF Blks
  <2> QED
    BY <1>3, <1>5, <2>1 DEF PiecesIn
<1>14. \A p \in pieces[b] : p < n
  BY <1>10, <1>11, <1>12
<1>15. i \notin named => pieces[b] = {}
  BY <1>11, <1>12
<1>16. more[b] = pieces[b] \cup IF d.arguments THEN {n} ELSE {}
  BY <1>12
<1>17. Calls(s, n, last, named, stopped, pieces, d, i, b, more)
  BY <1>1, <1>2, <1>6, <1>7, <1>9, <1>10, <1>13, <1>14, <1>15, <1>16 DEF Calls, PartOf
<1>18. PartOf(r, ToolDelta(s, d), n, last, named \cup {i}, now, more)
  <2>1. now = stopped \cup IF last THEN {i} ELSE {}
    BY <1>7
  <2> QED
    BY ONLY <1>6, <1>17, <2>1, DeltaStep
<1> QED
  BY <1>1, <1>4, <1>5, <1>7, <1>18 DEF PartAt

LEMMA EntriesTaken ==
    ASSUME provider = "openai", NEW n, Chunks(n), ApartBy(n), NEW last \in BOOLEAN,
           last <=> sent[n].finish = "tool_calls",
           NEW r, NEW s, PartAt(r, s, n, last, 0)
    PROVE  PartAt(r, FoldLeft(ToolDelta, s, sent[n].tool_calls), n, last, Len(sent[n].tool_calls))
<1>1. PICK t, K : t = sent[n].tool_calls /\ K = Len(t) /\ K \in Nat /\ DOMAIN t = 1 .. K
  BY ChunkEntries
<1>2. PICK c : Passes("deltas", c, s, t, K) /\ Looped("deltas", s, t) = c[K]
  <2>1. DOMAIN t = 1 .. K
    BY <1>1
  <2> QED
    BY ONLY <1>1, <2>1, LoopRun
<1>3. c[0] = s /\ \A k \in 1 .. K : c[k] = ToolDelta(c[k - 1], t[k])
  BY <1>2 DEF Passes, Pass
<1> DEFINE good == {k \in 0 .. K : PartAt(r, c[k], n, last, k)}
<1>4. 0 \in good
  BY <1>1, <1>3
<1>5. ASSUME NEW k \in 1 .. K, k - 1 \in good PROVE k \in good
  <2>1. t[k] = Entry(n, k) /\ k \in DOMAIN sent[n].tool_calls /\ k \in 0 .. K
    BY <1>1 DEF Entry
  <2>2. PartAt(r, c[k - 1], n, last, k - 1)
    BY <1>5
  <2>3. PartAt(r, ToolDelta(c[k - 1], Entry(n, k)), n, last, k)
    BY <2>1, <2>2, EntryTaken
  <2> QED
    BY <1>3, <2>1, <2>3
<1>6. K \in good
  <2> HIDE DEF good
  <2> QED
    BY <1>1, <1>4, <1>5, Climb
<1> QED
  BY <1>1, <1>2, <1>6, Loops
\* What the loop has made of a chat completion: once the answer is finished, no call is
\* open.
Done(a) == IF FinishedBy(a) THEN NamedBy(a) ELSE {}
OpenAiAt(a, x) ==
    /\ CallsAt(x.stream.tool_calls, NamedBy(a), Done(a))
    /\ Holds(x.reader, Blks(NamedBy(a) \ Done(a)), Blks(Done(a)), PiecesBy(a))

\* A chunk before its calls, after them, and what the loop makes of it.
Begun(x, n, last) ==
    [tool_calls |-> x.stream.tool_calls, events |-> ContentEvents(x.stream, sent[n], n), chunk |-> n, last |-> last]
Through(x, n, last, done) ==
    /\ Chunks(n) /\ last \in BOOLEAN /\ last = (sent[n].finish = "tool_calls")
    /\ done = FoldLeft(ToolDelta, Begun(x, n, last), sent[n].tool_calls)
Made(x, n, last, done) ==
    /\ last => /\ Take(x, n).reader = ReadAll(x.reader, done.events \o Stops(done.tool_calls))
               /\ Take(x, n).stream.tool_calls = AllStopped(done.tool_calls)
    /\ ~last => /\ Take(x, n).reader = ReadAll(x.reader, done.events \o <<>>)
                /\ Take(x, n).stream.tool_calls = done.tool_calls

LEMMA TakesChunk ==
    ASSUME NEW x, NEW n, NEW last, NEW done, Through(x, n, last, done)
    PROVE  Made(x, n, last, done)
<1>1. n # NOTHING /\ sent[n].kind = "chunk" /\ sent[n].kind # "ping" /\ last \in BOOLEAN
  BY DEF NOTHING, Chunks, Through
<1>2. PICK g : g = IngestChunk(x.stream, sent[n], n)
  OBVIOUS
<1>3. PICK q : q = Take(x, n) /\ q = [stream |-> g.stream, reader |-> ReadAll(x.reader, g.events)]
  BY <1>1, <1>2 DEF Take, TakeFrame
<1>4. PICK calls, es : /\ calls = IF last THEN AllStopped(done.tool_calls) ELSE done.tool_calls
                       /\ es = IF last THEN Stops(done.tool_calls) ELSE <<>>
  OBVIOUS
<1>5. g = [stream |-> [message_started |-> TRUE,
                       text_started |-> x.stream.text_started \/ sent[n].content,
                       tool_calls |-> calls],
           events |-> done.events \o es]
  BY <1>2, <1>4 DEF IngestChunk, Through, Begun
<1>6. g.stream.tool_calls = calls /\ g.events = done.events \o es
  BY <1>5
<1>7. q.reader = ReadAll(x.reader, done.events \o es) /\ q.stream.tool_calls = calls
  BY <1>3, <1>6
<1>8. CASE last
  <2>1. calls = AllStopped(done.tool_calls) /\ es = Stops(done.tool_calls)
    BY <1>4, <1>8
  <2> QED
    BY <1>3, <1>7, <1>8, <2>1 DEF Made
<1>9. CASE ~last
  <2>1. calls = done.tool_calls /\ es = <<>>
    BY <1>4, <1>9
  <2> QED
    BY <1>3, <1>7, <1>9, <2>1 DEF Made
<1> QED
  BY <1>8, <1>9

LEMMA BlksOfNone == Blks({}) = {} /\ \A S : Blks(S \ {}) = Blks(S) /\ Blks(S \ S) = {}
BY DEF Blks

\* The entries of a chunk, from what was made of the chunks before it.
LEMMA ChunkBody ==
    ASSUME provider = "openai", NEW n, Chunks(n), ApartBy(n), NEW last,
           NEW x, OpenAiAt(n - 1, x), NEW done, Through(x, n, last, done)
    PROVE  PartAt(x.reader, done, n, last, Len(sent[n].tool_calls))
<1>1. Done(n - 1) = {}
  BY DEF Done, Chunks, ContinuesChunks
<1>2. PICK named, es, r : named = NamedBy(n - 1) /\ es = ContentEvents(x.stream, sent[n], n) /\ r = x.reader
  OBVIOUS
<1>3. CallsAt(x.stream.tool_calls, named, {}) /\ Holds(r, Blks(named \ {}), Blks({}), PiecesBy(n - 1))
  BY <1>1, <1>2 DEF OpenAiAt
<1>4. named \subseteq CallIndices /\ Blks(named) \subseteq Nat
  BY <1>2, BlockIs DEF NamedBy, Blks
<1>5. NamedIn(n, 0) = named /\ StoppedIn(n, 0) = {} /\ \A b \in Nat : PiecesIn(n, 0)[b] = PiecesBy(n - 1)[b]
  BY <1>2, ChunkBegins
<1>6. Events(es) /\ Holds(ReadAll(r, es), Blks(named \ {}), Blks({}), PiecesBy(n - 1))
  BY <1>2, <1>3, ContentHeard
<1>7. Holds(ReadAll(r, es), Blks(named \ {}), Blks({}), PiecesIn(n, 0))
  <2>1. \A c \in Blks(named \ {}) \cup Blks({}) : PiecesIn(n, 0)[c] = PiecesBy(n - 1)[c]
    BY <1>4, <1>5, BlksOfNone
  <2> QED
    BY <1>6, <2>1, SamePieces
<1>8. PICK begun : begun = Begun(x, n, last)
  OBVIOUS
<1>10. /\ begun.tool_calls = x.stream.tool_calls /\ begun.events = es
       /\ begun = [tool_calls |-> begun.tool_calls, events |-> begun.events, chunk |-> n, last |-> last]
  BY <1>2, <1>8 DEF Begun
<1>9. PartAt(r, begun, n, last, 0)
  BY <1>3, <1>5, <1>6, <1>7, <1>10 DEF PartAt, PartOf, IsPart
<1>11. last \in BOOLEAN /\ (last <=> sent[n].finish = "tool_calls")
       /\ done = FoldLeft(ToolDelta, begun, sent[n].tool_calls)
  BY <1>8 DEF Through
<1> QED
  BY <1>2, <1>9, <1>11, EntriesTaken

LEMMA ChunkStep ==
    ASSUME provider = "openai", NEW n, Chunks(n), ApartBy(n), NEW x, OpenAiAt(n - 1, x)
    PROVE  OpenAiAt(n, Take(x, n))
<1>1. PICK last \in BOOLEAN : last = (sent[n].finish = "tool_calls")
  OBVIOUS
<1>2. PICK done : done = FoldLeft(ToolDelta, Begun(x, n, last), sent[n].tool_calls)
  OBVIOUS
<1>3. Through(x, n, last, done)
  BY <1>1, <1>2 DEF Through
<1>4. PICK K : K = Len(sent[n].tool_calls) /\ PartAt(x.reader, done, n, last, K)
  BY <1>3, ChunkBody
<1>5. PICK named, stopped, pieces : named = NamedBy(n) /\ stopped = StoppedIn(n, K) /\ pieces = PiecesIn(n, K)
  OBVIOUS
<1>6. NamedIn(n, K) = named /\ \A b \in Nat : pieces[b] = PiecesBy(n)[b]
  BY <1>4, <1>5, ChunkEnds
<1>7. PICK r : /\ r = ReadAll(x.reader, done.events) /\ Events(done.events)
               /\ CallsAt(done.tool_calls, named, stopped)
               /\ Holds(r, Blks(named \ stopped), Blks(stopped), pieces)
  BY <1>4, <1>5, <1>6 DEF PartAt, PartOf, IsPart
<1>8. named \subseteq CallIndices /\ Blks(named) \subseteq Nat
  BY <1>5, BlockIs DEF NamedBy, Blks
<1>9. stopped \subseteq named
  BY <1>5, <1>6 DEF StoppedIn, NamedIn
<1>10. FinishedBy(n) <=> sent[n].finish # "none"
  <2>1. ~FinishedBy(n - 1) /\ \A m : m \in 1 .. n <=> m \in 1 .. n - 1 \/ m = n
    BY DEF Chunks, ContinuesChunks
  <2> QED
    BY <2>1 DEF FinishedBy, Chunks
<1>11. PICK q, calls : q = Take(x, n).reader /\ calls = Take(x, n).stream.tool_calls
  OBVIOUS
<1>12. CASE last
  <2>1. q = ReadAll(x.reader, done.events \o Stops(done.tool_calls)) /\ calls = AllStopped(done.tool_calls)
    <3>1. Made(x, n, last, done)
      BY ONLY <1>3, TakesChunk
    <3> QED
      BY <1>11, <1>12, <3>1 DEF Made
  <2>2. Events(Stops(done.tool_calls)) /\ Holds(ReadAll(r, Stops(done.tool_calls)), {}, Blks(named), pieces)
    BY <1>7, <1>8, <1>9, CallsStop
  <2>3. q = ReadAll(r, Stops(done.tool_calls))
    BY <1>7, <2>1, <2>2, ReadJoin
  <2>4. CallsAt(calls, named, named)
    BY <1>7, <1>9, <2>1, AllStop
  <2>5. Done(n) = named
    BY <1>1, <1>5, <1>10, <1>12 DEF Done
  <2>6. Holds(q, {}, Blks(named), PiecesBy(n))
    <3>1. \A c \in {} \cup Blks(named) : PiecesBy(n)[c] = pieces[c]
      BY <1>6, <1>8
    <3> QED
      BY <2>2, <2>3, <3>1, SamePieces
  <2>7. Blks(NamedBy(n) \ Done(n)) = {}
    BY <1>5, <2>5, BlksOfNone
  <2> QED
    BY <1>5, <1>11, <2>4, <2>5, <2>6, <2>7 DEF OpenAiAt
<1>13. CASE ~last
  <2>1. q = ReadAll(x.reader, done.events \o <<>>) /\ calls = done.tool_calls
    <3>1. Made(x, n, last, done)
      BY ONLY <1>3, TakesChunk
    <3> QED
      BY <1>11, <1>13, <3>1 DEF Made
  <2>2. q = r
    <3>1. PICK none, es, y : none = <<>> /\ es = done.events /\ y = x.reader
      OBVIOUS
    <3>2. Events(none) /\ Events(es)
      BY <1>7, <3>1, EventLists
    <3>3. Events(es \o none) /\ ReadAll(y, es \o none) = ReadAll(ReadAll(y, es), none)
      BY ONLY <3>2, ReadJoin
    <3>4. q = ReadAll(r, <<>>)
      BY ONLY <1>7, <2>1, <3>1, <3>3
    <3> QED
      BY <3>4, ReadNone
  <2>3. stopped = {}
    BY <1>1, <1>5, <1>13 DEF StoppedIn
  <2>4. Done(n) = {}
    <3>1. ContinuesChunks(n) /\ sent[n].kind = "chunk"
      BY DEF Chunks
    <3>2. sent[n].finish \in {"none", "stop"} /\ (sent[n].finish = "stop" => named = {})
      BY <1>1, <1>5, <1>13, <3>1 DEF ContinuesChunks
    <3> QED
      BY <1>5, <1>10, <3>2 DEF Done
  <2>5. Holds(q, Blks(named \ {}), Blks({}), PiecesBy(n))
    <3>1. \A c \in Blks(named \ {}) \cup Blks({}) : PiecesBy(n)[c] = pieces[c]
      BY <1>6, <1>8, BlksOfNone
    <3> QED
      BY <1>7, <2>2, <2>3, <3>1, SamePieces
  <2> QED
    BY <1>5, <1>7, <1>11, <2>1, <2>3, <2>4, <2>5 DEF OpenAiAt
<1> QED
  BY <1>12, <1>13

\* A frame that is no chunk is nothing to the calls.
LEMMA QuietFrame ==
    ASSUME provider = "openai", NEW a \in Nat, NEW n, n = a + 1, ContinuesChunks(n), sent[n].kind # "chunk",
           NEW x, TwoParts(x), OpenAiAt(a, x)
    PROVE  OpenAiAt(n, Take(x, n))
<1>1. \A k : k \in 1 .. n <=> k \in 1 .. a \/ k = n
  BY OneMore
<1>2. n # NOTHING
  BY DEF NOTHING
<1>3. Deltas(n) = {}
  BY DEF Deltas
<1>4. NamedBy(n) = NamedBy(a)
  BY <1>1, <1>3 DEF NamedBy
<1>5. FinishedBy(n) <=> FinishedBy(a)
  BY <1>1 DEF FinishedBy
<1>6. Done(n) = Done(a)
  BY <1>4, <1>5 DEF Done
<1>7. Blks(NamedBy(a)) \subseteq Nat /\ Done(a) \subseteq NamedBy(a)
  BY BlockIs DEF NamedBy, Blks, Done
<1>8. \A b \in Nat : PiecesBy(n)[b] = PiecesBy(a)[b]
  <2>1. \A b : ~Writes(n, b)
    BY <1>3 DEF Writes
  <2> QED
    BY <1>1, <2>1 DEF PiecesBy
<1>9. Take(x, n).reader = x.reader /\ Take(x, n).stream = x.stream
  <2>1. sent[n].kind \notin {"block_start", "block_stop", "delta", "message_start", "message_delta", "message_stop"}
    BY DEF ContinuesChunks
  <2> QED
    BY <1>2, <2>1, TakesFrame
<1>10. PICK open, done : open = Blks(NamedBy(a) \ Done(a)) /\ done = Blks(Done(a))
  OBVIOUS
<1>11. Holds(x.reader, open, done, PiecesBy(n))
  <2>1. Holds(x.reader, open, done, PiecesBy(a))
    BY <1>10 DEF OpenAiAt
  <2>2. open \subseteq Nat /\ done \subseteq Nat
    BY <1>7, <1>10 DEF Blks
  <2>3. \A c \in open \cup done : PiecesBy(n)[c] = PiecesBy(a)[c]
    BY <1>8, <2>2
  <2> QED
    BY <2>1, <2>3, SamePieces
<1> QED
  BY <1>4, <1>6, <1>9, <1>10, <1>11 DEF OpenAiAt

LEMMA OpenAiStep ==
    ASSUME provider = "openai", NEW a \in Nat, NEW n, n = a + 1, \A k \in 1 .. n : ContinuesChunks(k), ApartBy(n),
           NEW x, TwoParts(x), OpenAiAt(a, x)
    PROVE  OpenAiAt(n, Take(x, n))
<1>1. n \in Nat /\ n - 1 = a /\ n \in 1 .. n /\ \A m \in 1 .. n - 1 : m \in 1 .. n /\ m < n
  OBVIOUS
<1>2. CASE sent[n].kind = "chunk"
  <2>1. Chunks(n)
    BY <1>1, <1>2 DEF Chunks
  <2> QED
    BY <1>1, <2>1, ChunkStep
<1>3. CASE sent[n].kind # "chunk"
  BY <1>1, <1>3, QuietFrame
<1> QED
  BY <1>2, <1>3

LEMMA FreshAt ==
    ASSUME NEW a, a = 0 PROVE OpenAiAt(a, Fresh) /\ AnthropicAt(a, Fresh) /\ TwoParts(Fresh)
<1>1. 1 .. 0 = {}
  OBVIOUS
<1>2. NamedBy(0) = {} /\ ToolsBy(0) = {} /\ Done(0) = {}
  BY <1>1 DEF NamedBy, ToolsBy, Done
<1>3. Fresh.reader = NewReader /\ Fresh.stream = NoStream /\ TwoParts(Fresh)
  BY DEF Fresh, TwoParts
<1>4. Holds(NewReader, {}, {}, PiecesBy(0))
  BY FreshHolds
<1>5. AnthropicAt(0, Fresh)
  <2>1. ToolsBy(0) \ StoppedBy(0) = {} /\ ToolsBy(0) \cap StoppedBy(0) = {}
    BY <1>2
  <2> QED
    BY <1>3, <1>4, <2>1 DEF AnthropicAt
<1>6. CallsAt(NoStream.tool_calls, {}, {})
  <2>1. NoStream.tool_calls = [i \in CallIndices |-> NoCall]
    BY DEF NoStream
  <2>2. <<>> \in Seq(Nat) /\ Len(<<>>) = 0
    OBVIOUS
  <2>3. IsCall(NoCall, FALSE, FALSE)
    BY <2>2 DEF IsCall, NoCall
  <2>4. \A i : (i \in {}) <=> FALSE
    OBVIOUS
  <2>5. IsCall(NoCall, FALSE, FALSE) => \A i : IsCall(NoCall, i \in {}, i \in {})
    BY ONLY <2>4 DEF IsCall
  <2> QED
    BY <2>1, <2>3, <2>5 DEF CallsAt
<1>7. OpenAiAt(0, Fresh)
  <2>1. Blks({} \ {}) = {} /\ Blks({}) = {}
    BY BlksOfNone
  <2>2. {} \ {} = {}
    OBVIOUS
  <2> QED
    BY <1>2, <1>3, <1>4, <1>6, <2>1, <2>2 DEF OpenAiAt
<1> QED
  BY <1>3, <1>5, <1>7

\* The calls have slots of their own: blocks of calls are counted from one, so the text
\* block can only be taken for one by the client that keeps one block.
LEMMA TextStops ==
    ASSUME NEW r, NEW S, S \subseteq CallIndices, NEW done, NEW pieces, Holds(r, Blks(S), done, pieces),
           \A i, j \in S : Slot(consumer, BlockIndex(i)) = Slot(consumer, BlockIndex(j)) => i = j
    PROVE  \/ Hears(r, Stop(0)) = r
           \/ Holds(Hears(r, Stop(0)), {}, done \cup Blks(S), pieces)
<1>1. CASE \A c \in Blks(S) : Slot(consumer, c) # Slot(consumer, 0)
  BY <1>1, HearStopNothing
<1>2. CASE ~ \A c \in Blks(S) : Slot(consumer, c) # Slot(consumer, 0)
  <2>1. PICK b \in Blks(S) : Slot(consumer, b) = Slot(consumer, 0)
    BY <1>2
  <2>2. PICK i \in S : b = BlockIndex(i)
    BY DEF Blks
  <2>3. b # 0
    BY <2>2, BlockIs
  <2>4. consumer = "cli"
    BY <2>1, <2>3 DEF Slot
  <2>5. \A j \in S : Slot(consumer, BlockIndex(j)) = 0 /\ Slot(consumer, b) = 0
    BY <2>4 DEF Slot
  <2>6. S = {i}
    BY <2>2, <2>5
  <2>7. Blks(S) = {b}
    BY <2>2, <2>6 DEF Blks
  <2>8. Hears(r, Stop(0)) = Hears(r, Stop(b))
    BY <2>1, HearsStop
  <2>9. Holds(Hears(r, Stop(b)), Blks(S) \ {b}, done \cup {b}, pieces)
    BY HearStop
  <2>10. Blks(S) \ {b} = {}
    BY <2>7
  <2> QED
    BY <2>7, <2>8, <2>9, <2>10
<1> QED
  BY <1>1, <1>2

\* The stops of open calls, when those are open or closed already.
LEMMA StopsTwice ==
    ASSUME NEW calls, NEW named, named \subseteq CallIndices, NEW stopped, stopped \subseteq named,
           CallsAt(calls, named, stopped),
           NEW r, NEW pieces,
           Holds(r, Blks(named \ stopped), Blks(stopped), pieces) \/ Holds(r, {}, Blks(named), pieces)
    PROVE  Events(Stops(calls)) /\ Holds(ReadAll(r, Stops(calls)), {}, Blks(named), pieces)
<1>1. CASE Holds(r, Blks(named \ stopped), Blks(stopped), pieces)
  BY <1>1, CallsStop
<1>2. CASE Holds(r, {}, Blks(named), pieces)
  <2>1. PICK S : S = OpenCalls(calls) /\ S \subseteq CallIndices
    BY DEF OpenCalls
  <2>2. IsFiniteSet(S) /\ S \subseteq Nat
    BY <2>1, CallIndicesAssumption, FS_Subset
  <2>3. PICK n \in Nat : n = Cardinality(S)
    BY <2>2, FS_CardinalityType
  <2>4. PICK t : t = InOrder(S) /\ t \in [1 .. n -> S]
    BY <2>2, <2>3, OrderExists DEF Orders
  <2>5. PICK s : s = Stops(calls) /\ s = [k \in 1 .. n |-> Stop(BlockIndex(t[k]))]
    BY <2>1, <2>4 DEF Stops
  <2>6. DOMAIN s = 1 .. n /\ \A k \in 1 .. n : s[k] = Stop(BlockIndex(t[k]))
    BY <2>5
  <2>7. ReadAll(r, s) = r
    <3>1. \A k \in 1 .. n : \E b : s[k] = Stop(b)
      BY <2>6
    <3> QED
      BY <1>2, <2>6, <3>1, StopsNothing
  <2>8. Events(s)
    <3>1. PICK E : E = {Stop(BlockIndex(i)) : i \in S}
      OBVIOUS
    <3>2. \A k \in 1 .. n : s[k] \in E
      BY <2>4, <2>6, <3>1
    <3>3. s \in [1 .. n -> E]
      BY <2>5, <2>6, <3>2
    <3>4. s \in Seq(E)
      BY <3>3
    <3> QED
      BY <3>4 DEF Events
  <2> QED
    BY <1>2, <2>5, <2>7, <2>8
<1> QED
  BY <1>1, <1>2

\* StreamState::finish: every call that is still open is said.
LEMMA FinishHolds ==
    ASSUME NEW a, ApartBy(a), NEW x, OpenAiAt(a, x)
    PROVE  Holds(ReadAll(x.reader, FinishStream(x.stream)), {}, Blks(NamedBy(a)), PiecesBy(a))
<1>1. PICK named, stopped, pieces, r, calls :
        /\ named = NamedBy(a) /\ stopped = Done(a) /\ pieces = PiecesBy(a)
        /\ r = x.reader /\ calls = x.stream.tool_calls
  OBVIOUS
<1>2. /\ CallsAt(calls, named, stopped)
      /\ Holds(r, Blks(named \ stopped), Blks(stopped), pieces)
  BY <1>1 DEF OpenAiAt
<1>3. named \subseteq CallIndices /\ stopped \subseteq named
  BY <1>1 DEF NamedBy, Done
<1>4. PICK A, B, C : /\ A = IF x.stream.text_started THEN <<Stop(0)>> ELSE <<>>
                     /\ B = Stops(calls)
                     /\ C = IF x.stream.message_started THEN MessageEnd ELSE <<>>
  OBVIOUS
<1>5. FinishStream(x.stream) = A \o B \o C
  BY <1>1, <1>4 DEF FinishStream
<1>6. PICK q, p : q = ReadAll(r, A) /\ p = ReadAll(q, B)
  OBVIOUS
<1>7. Events(A) /\ (q = r \/ q = Hears(r, Stop(0)))
  <2>1. CASE A = <<>>
    BY <1>6, <2>1, ReadNone, EventLists
  <2>2. CASE A = <<Stop(0)>>
    BY <1>6, <2>2, ReadOne, EventLists
  <2> QED
    BY <1>4, <2>1, <2>2
<1>8. Holds(q, Blks(named \ stopped), Blks(stopped), pieces) \/ Holds(q, {}, Blks(named), pieces)
  <2>1. PICK S : S = named \ stopped /\ S \subseteq CallIndices
    BY <1>3
  <2>2. \A i, j \in S : Slot(consumer, BlockIndex(i)) = Slot(consumer, BlockIndex(j)) => i = j
    BY <1>1, <2>1 DEF ApartBy
  <2>3. Hears(r, Stop(0)) = r \/ Holds(Hears(r, Stop(0)), {}, Blks(stopped) \cup Blks(S), pieces)
    BY <1>2, <2>1, <2>2, TextStops
  <2>4. Blks(stopped) \cup Blks(S) = Blks(named)
    BY <1>3, <2>1 DEF Blks
  <2> QED
    BY <1>2, <1>7, <2>3, <2>4
<1>9. Events(B) /\ Holds(p, {}, Blks(named), pieces)
  BY <1>2, <1>3, <1>4, <1>6, <1>8, StopsTwice
<1>10. Events(C) /\ Holds(ReadAll(p, C), {}, Blks(named), pieces)
  <2>1. PICK e, f : e = MessageEnd[1] /\ f = MessageEnd[2] /\ MessageEnd = <<e, f>>
    BY DEF MessageEnd
  <2>2. Other(e) /\ Other(f)
    BY <2>1 DEF Other
  <2>3. CASE C = <<>>
    BY <1>9, <2>3, ReadNone, EventLists
  <2>4. CASE C = <<e, f>>
    <3>1. PICK d, g : d = <<e>> /\ g = <<f>>
      OBVIOUS
    <3>2. Events(d) /\ Holds(ReadAll(p, d), {}, Blks(named), pieces)
      BY <1>9, <2>2, <3>1, MaybeOther
    <3>3. Events(g) /\ Holds(ReadAll(ReadAll(p, d), g), {}, Blks(named), pieces)
      BY <2>2, <3>1, <3>2, MaybeOther
    <3>4. Joined(C, d, 1, g, 1)
      <4>1. DOMAIN d = 1 .. 1 /\ DOMAIN g = 1 .. 1 /\ DOMAIN C = 1 .. 1 + 1
        BY <2>4, <3>1
      <4>2. C[1] = d[1] /\ C[1 + 1] = g[1]
        BY <2>4, <3>1
      <4> QED
        BY <4>1, <4>2 DEF Joined
    <3>5. ReadAll(p, C) = ReadAll(ReadAll(p, d), g)
      <4>1. Looped("events", p, C) = Looped("events", Looped("events", p, d), g)
        BY <3>4, LoopSplit
      <4> QED
        BY <4>1, Loops
    <3> QED
      BY <2>4, <3>3, <3>5, EventLists
  <2> QED
    BY <1>4, <2>1, <2>3, <2>4
<1>11. Events(A \o B) /\ ReadAll(r, A \o B) = p
  <2>1. Events(A) /\ Events(B)
    BY <1>7, <1>9
  <2> QED
    BY <1>6, <2>1, ReadJoin
<1>12. ReadAll(r, A \o B \o C) = ReadAll(p, C)
  BY <1>10, <1>11, ReadJoin
<1> QED
  BY <1>1, <1>5, <1>10, <1>12

-----------------------------------------------------------------------------
(* The loop after the frames that arrived.                                 *)

\* The first a frames are the beginning of a message whose calls are kept apart.
WellSent(a) ==
    /\ provider = "openai" => ApartBy(a) /\ \A k \in 1 .. a : ContinuesChunks(k)
    /\ provider # "openai" => \A k \in 1 .. a : Continues(k)
LoopAt(a, x) ==
    /\ TwoParts(x)
    /\ provider = "openai" => OpenAiAt(a, x)
    /\ provider # "openai" => AnthropicAt(a, x)

LEMMA WellSentBefore ==
    ASSUME NEW a \in Nat, NEW m \in 0 .. a, WellSent(a) PROVE WellSent(m)
<1>1. \A k \in 1 .. m : k \in 1 .. a
  OBVIOUS
<1>2. NamedBy(m) \subseteq NamedBy(a)
  BY <1>1 DEF NamedBy
<1>3. provider = "openai" => ApartBy(m)
  BY <1>2 DEF WellSent, ApartBy
<1> QED
  BY <1>1, <1>3 DEF WellSent

LEMMA FrameTaken ==
    ASSUME NEW a \in Nat, NEW n, n = a + 1, WellSent(n), NEW x, LoopAt(a, x)
    PROVE  LoopAt(n, Take(x, n))
<1>1. TwoParts(x) /\ TwoParts(Take(x, n))
  BY TakeParts DEF LoopAt
<1>2. CASE provider = "openai"
  <2>1. OpenAiAt(a, x) /\ ApartBy(n) /\ \A k \in 1 .. n : ContinuesChunks(k)
    BY <1>2 DEF LoopAt, WellSent
  <2>2. OpenAiAt(n, Take(x, n))
    BY <1>1, <1>2, <2>1, OpenAiStep
  <2> QED
    BY <1>1, <1>2, <2>2 DEF LoopAt
<1>3. CASE provider # "openai"
  <2>1. AnthropicAt(a, x) /\ \A k \in 1 .. n : Continues(k)
    BY <1>3 DEF LoopAt, WellSent
  <2>2. AnthropicAt(n, Take(x, n))
    BY <1>1, <1>3, <2>1, AnthropicStep
  <2> QED
    BY <1>1, <1>3, <2>2 DEF LoopAt
<1> QED
  BY <1>2, <1>3

LEMMA FramesTaken ==
    ASSUME NEW a \in Nat, NEW x, Taken(a, x), WellSent(a)
    PROVE  LoopAt(a, x)
<1>1. PICK c : /\ c[0] = Fresh /\ c[a] = x
               /\ \A k \in 1 .. a : c[k] = Take(c[k - 1], k)
  BY DEF Taken
<1> DEFINE good == {k \in 0 .. a : LoopAt(k, c[k])}
<1>2. 0 \in good
  BY <1>1, FreshAt DEF LoopAt
<1>3. ASSUME NEW k \in 1 .. a, k - 1 \in good PROVE k \in good
  <2>1. k - 1 \in Nat /\ k = (k - 1) + 1 /\ k \in 0 .. a
    OBVIOUS
  <2>2. PICK p : p = k - 1 /\ p \in Nat /\ k = p + 1
    BY <2>1
  <2>3. LoopAt(p, c[p])
    BY <1>3, <2>2
  <2>4. WellSent(k)
    BY <2>1, WellSentBefore
  <2>5. LoopAt(k, Take(c[p], k))
    BY <2>2, <2>3, <2>4, FrameTaken
  <2> QED
    BY <1>1, <2>1, <2>2, <2>5
<1>4. a \in good
  <2> HIDE DEF good
  <2> QED
    BY <1>2, <1>3, Climb
<1> QED
  BY <1>1, <1>4

-----------------------------------------------------------------------------
(* The answer.                                                             *)

\* What CallsIntact says of the answer r.
Intact(r) ==
    /\ \A k \in UseEvents(r) :
          /\ \E m \in 0 .. Len(sent) : Spells(r.events[k].text, {n \in Pieces(r.events[k].call) : n <= m})
          /\ \A l \in UseEvents(r) : r.events[k].call = r.events[l].call => k = l
    /\ MessageComplete =>
          /\ {r.events[k].call : k \in UseEvents(r)} = ToolBlocks
          /\ \A k \in UseEvents(r) : Spells(r.events[k].text, Pieces(r.events[k].call))

LEMMA IntactIs == CallsIntact <=> (phase = "answered" /\ mode = "stream" => Intact(reader))
BY DEF CallsIntact, Intact, UseEvents, ToolUses

Listed(s) == \E S : s \in Seq(S)

LEMMA ListedIs ==
    ASSUME NEW s, Listed(s) PROVE Len(s) \in Nat /\ DOMAIN s = 1 .. Len(s)
BY DEF Listed

LEMMA HoldsIntact ==
    ASSUME Listed(sent), NEW m \in 0 .. Len(sent), NEW r, NEW open, NEW done, done \subseteq Nat,
           Holds(r, open, done, PiecesBy(m)),
           MessageComplete => done = ToolBlocks /\ \A b \in Nat : Pieces(b) = PiecesBy(m)[b]
    PROVE  Intact(r)
<1>1. Len(sent) \in Nat /\ DOMAIN sent = 1 .. Len(sent)
  BY ListedIs
<1>2. \A b \in Nat : {n \in Pieces(b) : n <= m} = PiecesBy(m)[b]
  <2>1. \A n : n \in DOMAIN sent /\ n <= m <=> n \in 1 .. m
    BY <1>1
  <2> QED
    BY <2>1 DEF Pieces, PiecesBy
<1>3. /\ \A k \in UseEvents(r) : r.events[k].call \in done /\ Spells(r.events[k].text, PiecesBy(m)[r.events[k].call])
      /\ \A b \in done : \E k \in UseEvents(r) : r.events[k].call = b
      /\ \A k, l \in UseEvents(r) : r.events[k].call = r.events[l].call => k = l
  BY DEF Holds, SaidBlocks
<1>4. ASSUME NEW k \in UseEvents(r)
      PROVE  \E j \in 0 .. Len(sent) : Spells(r.events[k].text, {n \in Pieces(r.events[k].call) : n <= j})
  <2>1. PICK b, t : b = r.events[k].call /\ t = r.events[k].text
    OBVIOUS
  <2>2. b \in Nat /\ Spells(t, PiecesBy(m)[b])
    BY <1>3, <2>1
  <2>3. Spells(t, {n \in Pieces(b) : n <= m})
    BY <1>2, <2>2
  <2> QED
    BY <2>1, <2>3
<1>5. ASSUME MessageComplete
      PROVE  /\ {r.events[k].call : k \in UseEvents(r)} = ToolBlocks
             /\ \A k \in UseEvents(r) : Spells(r.events[k].text, Pieces(r.events[k].call))
  <2>1. {r.events[k].call : k \in UseEvents(r)} = done
    <3>1. \A c : c \in {r.events[k].call : k \in UseEvents(r)} <=> \E k \in UseEvents(r) : c = r.events[k].call
      OBVIOUS
    <3>2. \A c \in done : \E k \in UseEvents(r) : c = r.events[k].call
      BY ONLY <1>3
    <3>3. \A k \in UseEvents(r) : r.events[k].call \in done
      BY ONLY <1>3
    <3> QED
      BY ONLY <3>1, <3>2, <3>3
  <2> QED
    BY <1>3, <1>5, <2>1
<1> QED
  BY <1>3, <1>4, <1>5 DEF Intact

\* Nothing follows the end of a chat completion.
LEMMA ChunksOver ==
    ASSUME provider = "openai", Listed(sent), \A n \in DOMAIN sent : ContinuesChunks(n),
           NEW a \in 0 .. Len(sent), FinishedBy(a)
    PROVE  /\ NamedCalls = NamedBy(a) /\ ToolBlocks = Blks(NamedBy(a))
           /\ \A b \in Nat : Pieces(b) = PiecesBy(a)[b]
<1>1. Len(sent) \in Nat /\ DOMAIN sent = 1 .. Len(sent)
  BY ListedIs
<1>2. ASSUME NEW n \in DOMAIN sent, n \notin 1 .. a PROVE sent[n].kind # "chunk"
  <2>1. \A k \in 1 .. a : k \in 1 .. n - 1
    BY <1>1, <1>2
  <2>2. FinishedBy(n - 1)
    BY <2>1 DEF FinishedBy
  <2> QED
    BY <2>2 DEF ContinuesChunks
<1>3. \A n \in 1 .. a : n \in DOMAIN sent
  BY <1>1
<1>4. \A n \in DOMAIN sent : n \notin 1 .. a => Deltas(n) = {}
  BY <1>2 DEF Deltas
<1>5. NamedCalls = NamedBy(a)
  BY <1>3, <1>4 DEF NamedCalls, NamedBy
<1>6. \A b \in Nat : Pieces(b) = PiecesBy(a)[b]
  <2>1. \A n \in DOMAIN sent : n \notin 1 .. a => \A b : ~Writes(n, b)
    BY <1>4 DEF Writes
  <2> QED
    BY <1>3, <2>1 DEF Pieces, PiecesBy
<1> QED
  BY <1>5, <1>6 DEF ToolBlocks, Blks

\* Nothing follows the end of an Anthropic message, and every block was stopped.
LEMMA BlocksOver ==
    ASSUME provider # "openai", Listed(sent), \A n \in DOMAIN sent : Continues(n),
           NEW m \in 0 .. Len(sent), EndingBy(m)
    PROVE  /\ ToolsBy(m) \subseteq StoppedBy(m) /\ ToolBlocks = ToolsBy(m)
           /\ \A b \in Nat : Pieces(b) = PiecesBy(m)[b]
<1>1. Len(sent) \in Nat /\ DOMAIN sent = 1 .. Len(sent)
  BY ListedIs
<1>2. PICK e \in 1 .. m : Ending(e)
  BY DEF EndingBy
<1>3. e \in DOMAIN sent /\ \A n \in 1 .. m : n \in DOMAIN sent
  BY <1>1
<1>4. ASSUME NEW n \in DOMAIN sent, n \notin 1 .. e - 1
      PROVE  ~Opens(n) /\ ~Stopping(n) /\ sent[n].kind # "delta"
  <2>1. CASE n = e
    BY <1>2, <2>1 DEF Ending, Opens, Stopping
  <2>2. CASE n # e
    <3>1. e \in 1 .. n - 1
      BY <1>1, <1>4, <2>2
    <3>2. EndingBy(n - 1)
      BY <1>2, <3>1 DEF EndingBy
    <3> QED
      BY <3>2 DEF Continues
  <2> QED
    BY <2>1, <2>2
<1>5. OpenedBy(e - 1) \subseteq StoppedBy(e - 1)
  BY <1>2, <1>3 DEF Continues
<1>6. \A n \in 1 .. e - 1 : n \in 1 .. m
  BY <1>1
<1>7. ToolsBy(m) \subseteq StoppedBy(m)
  <2>1. ToolsBy(m) \subseteq OpenedBy(e - 1)
    BY <1>3, <1>4 DEF ToolsBy, OpenedBy
  <2>2. StoppedBy(e - 1) \subseteq StoppedBy(m)
    BY <1>6 DEF StoppedBy
  <2> QED
    BY <1>5, <2>1, <2>2
<1>8. ToolBlocks = ToolsBy(m)
  <2>1. \A n : n \in {b \in Blocks : sent[b].block = "tool"} <=> n \in {k \in 1 .. m : Opens(k) /\ sent[k].block = "tool"}
    BY <1>3, <1>4, <1>6 DEF Blocks, Kinds, Opens
  <2>2. {b \in Blocks : sent[b].block = "tool"} = {k \in 1 .. m : Opens(k) /\ sent[k].block = "tool"}
    BY <2>1
  <2> QED
    BY <2>2 DEF ToolBlocks, ToolsBy
<1>9. \A b \in Nat : Pieces(b) = PiecesBy(m)[b]
  <2>1. \A n \in DOMAIN sent : n \notin 1 .. m => \A b : ~Writes(n, b)
    BY <1>4, <1>6 DEF Writes
  <2> QED
    BY <1>3, <2>1 DEF Pieces, PiecesBy
<1> QED
  BY <1>7, <1>8, <1>9

\* What parse_frame makes of some bytes of a frame: its data, nothing, or no JSON.
LEMMA ParsedPart ==
    ASSUME NEW d, NEW n, \A k \in DOMAIN d : d[k] > 0 => d[k] = n
    PROVE  ParseFrame(d) \in {NOTHING, JUNK, n}
<1> DEFINE data == {i \in DOMAIN d : d[i] > 0 \/ d[i] = TAIL}
<1>1. CASE data = {}
  BY <1>1 DEF ParseFrame
<1>2. CASE data # {} /\ \E i \in data : WholeAt(i, d, data)
  <2>1. PICK j : j = CHOOSE i \in data : WholeAt(i, d, data)
    OBVIOUS
  <2>2. j \in data /\ WholeAt(j, d, data)
    BY <1>2, <2>1
  <2>3. j \in DOMAIN d /\ d[j] > 0
    BY <2>2 DEF WholeAt
  <2>4. ParseFrame(d) = d[j]
    BY <1>2, <2>1 DEF ParseFrame
  <2> QED
    BY <2>3, <2>4
<1>3. CASE data # {} /\ ~ \E i \in data : WholeAt(i, d, data)
  BY <1>3 DEF ParseFrame
<1> QED
  BY <1>1, <1>2, <1>3

\* What is left in the buffer when the body ends.
LEMMA RestSays ==
    ASSUME TypeOK, NEW a \in Nat, HasRead(a), Named
    PROVE  ParseFrame(buffer) \in {NOTHING, JUNK, a + 1}
<1>1. PICK n \in Nat : n = a + 1 /\ n > 0
  OBVIOUS
<1>2. PICK f, w : /\ f = FrameBytes(n) /\ w = Width /\ f \in Seq(Int) /\ Len(f) = w
                  /\ \A k \in 1 .. w : f[k] > 0 => f[k] = n
  <2>1. Width = WidthOf(ending, Named) /\ ending \in {"lf", "crlf"}
    BY Widths
  <2>2. CASE ending = "lf"
    <3>1. FrameBytes(n) = Written(n, "lf", TRUE)
      BY <2>2 DEF FrameBytes, Named
    <3>2. Width = 6
      BY <2>1, <2>2 DEF WidthOf
    <3>3. PICK f : f = Written(n, "lf", TRUE)
      OBVIOUS
    <3>4. /\ f \in Seq(Int) /\ Len(f) = 6
          /\ f[1] = EVENT /\ f[2] = LF /\ f[3] = n /\ f[4] = TAIL /\ f[5] = LF /\ f[6] = LF
      BY <3>3, Bytes6
    <3>5. \A k \in 1 .. 6 : f[k] > 0 => f[k] = n
      BY <1>1, <3>4 DEF EVENT, LF, TAIL
    <3> QED
      BY <3>1, <3>2, <3>3, <3>4, <3>5
  <2>3. CASE ending = "crlf"
    <3>1. FrameBytes(n) = Written(n, "crlf", TRUE)
      BY <2>3 DEF FrameBytes, Named
    <3>2. Width = 9
      BY <2>1, <2>3 DEF WidthOf
    <3>3. PICK f : f = Written(n, "crlf", TRUE)
      OBVIOUS
    <3>4. /\ f \in Seq(Int) /\ Len(f) = 9
          /\ f[1] = EVENT /\ f[2] = CR /\ f[3] = LF /\ f[4] = n /\ f[5] = TAIL
          /\ f[6] = CR /\ f[7] = LF /\ f[8] = CR /\ f[9] = LF
      BY <3>3, Bytes9
    <3>5. \A k \in 1 .. 9 : f[k] > 0 => f[k] = n
      BY <1>1, <3>4 DEF EVENT, LF, TAIL, CR
    <3> QED
      BY <3>1, <3>2, <3>3, <3>4, <3>5
  <2> QED
    BY <2>1, <2>2, <2>3
<1>3. PICK b : b = buffer /\ b = SubSeq(f, 1, Len(b)) /\ b \in Seq(Int) /\ Len(b) < w
  BY <1>1, <1>2, BufferOpens DEF HasRead, Bytes
<1>4. \A k \in DOMAIN b : b[k] > 0 => b[k] = n
  <2>1. Len(b) \in Nat /\ DOMAIN b = 1 .. Len(b) /\ Len(f) \in Nat
    BY <1>2, <1>3
  <2>2. \A k \in 1 .. Len(b) : k \in 1 .. w /\ b[k] = f[k]
    BY <1>2, <1>3, <2>1
  <2> QED
    BY <1>2, <2>1, <2>2
<1> QED
  BY <1>1, <1>3, <1>4, ParsedPart

\* The frames that arrived were sent.
LEMMA ArrivedSent ==
    ASSUME TypeOK, Listed(sent), NEW a \in Nat, HasRead(a)
    PROVE  /\ Arrived = a /\ a \in 0 .. Len(sent)
           /\ buffer # <<>> => a + 1 \in 0 .. Len(sent)
<1>1. Len(sent) \in Nat
  BY ListedIs
<1>2. PICK t : Joins(t, buffer, Len(buffer), wire, Len(wire)) /\ Flow(a, t)
  BY DEF HasRead
<1>3. Len(sent) \in {a, a + 1, a + 2} /\ (Len(sent) = a => t = <<>>)
  BY <1>2 DEF Flow
<1>4. PICK b : b = buffer /\ b \in Seq(Int) /\ Len(b) \in Nat /\ Len(b) < Width
  BY DEF HasRead, Bytes
<1>5. Arrived = a
  <2>1. PICK w \in {4, 6, 9} : w = Width
    BY Widths
  <2>2. PICK r \in Nat : r = Len(b) /\ r < w
    BY <1>4, <2>1
  <2>3. received = a * w + r
    BY <1>4, <2>1, <2>2 DEF HasRead
  <2>4. (a * w + r) \div w = a
    BY <2>2, Division
  <2> QED
    BY <2>1, <2>3, <2>4 DEF Arrived
<1>6. b # <<>> => Len(sent) # a
  <2> SUFFICES ASSUME Len(sent) = a PROVE b = <<>>
    OBVIOUS
  <2>1. t = <<>>
    BY <1>3
  <2>2. Len(<<>>) = Len(b) + Len(wire) /\ Len(wire) \in Nat
    BY <1>2, <1>4, <2>1 DEF Joins, HasRead, Bytes
  <2>3. Len(b) = 0
    BY <1>4, <2>2
  <2> QED
    BY <1>4, <2>3
<1> QED
  BY <1>1, <1>3, <1>4, <1>5, <1>6

LEMMA SentWell ==
    ASSUME Listed(sent), SentInv, NEW m \in 0 .. Len(sent),
           provider = "openai" =>
              \A i, j \in NamedCalls : Slot(consumer, BlockIndex(i)) = Slot(consumer, BlockIndex(j)) => i = j
    PROVE  WellSent(m)
<1>1. Len(sent) \in Nat /\ DOMAIN sent = 1 .. Len(sent) /\ \A k \in 1 .. m : k \in DOMAIN sent
  BY ListedIs
<1>2. NamedBy(m) \subseteq NamedCalls
  BY <1>1 DEF NamedBy, NamedCalls
<1>3. provider = "openai" => ApartBy(m)
  BY <1>2 DEF ApartBy
<1> QED
  BY <1>1, <1>3 DEF WellSent, SentInv

\* The calls of the messages the claim is about are kept apart.
LEMMA KeptApart ==
    ASSUME provider = "openai", ~(consumer = "cli" /\ provider = "openai" /\ Cardinality(NamedCalls) > 1)
    PROVE  \A i, j \in NamedCalls : Slot(consumer, BlockIndex(i)) = Slot(consumer, BlockIndex(j)) => i = j
<1>1. NamedCalls \subseteq CallIndices /\ CallIndices \subseteq Nat /\ IsFiniteSet(CallIndices)
  BY CallIndicesAssumption DEF NamedCalls
<1>2. CASE consumer # "cli"
  <2>1. ASSUME NEW i \in NamedCalls, NEW j \in NamedCalls, BlockIndex(i) = BlockIndex(j) PROVE i = j
    <3>1. PICK x \in Nat, y \in Nat : x = i /\ y = j
      BY <1>1
    <3>2. x + 1 = y + 1
      BY <2>1, <3>1 DEF BlockIndex
    <3> QED
      BY <3>1, <3>2
  <2> QED
    BY <1>2, <2>1 DEF Slot
<1>3. CASE consumer = "cli"
  <2>1. PICK S : S = NamedCalls /\ IsFiniteSet(S)
    BY <1>1, FS_Subset
  <2>2. ~(Cardinality(S) > 1) /\ Cardinality(S) \in Nat
    BY <1>3, <2>1, FS_CardinalityType
  <2>3. ASSUME NEW i \in S, NEW j \in S, i # j PROVE FALSE
    <3>1. PICK T : T = S \ {i} /\ j \in T
      BY <2>3
    <3>2. IsFiniteSet(T) /\ Cardinality(T) = Cardinality(S) - 1
      BY <2>1, <3>1, FS_RemoveElement
    <3>3. Cardinality(T \ {j}) = Cardinality(T) - 1 /\ IsFiniteSet(T \ {j})
      BY <3>1, <3>2, FS_RemoveElement
    <3>4. Cardinality(T \ {j}) \in Nat
      BY <3>3, FS_CardinalityType
    <3> QED
      BY <2>2, <3>2, <3>3, <3>4
  <2> QED
    BY <2>1, <2>3
<1> QED
  BY <1>2, <1>3

ClaimMade == ~(consumer = "cli" /\ provider = "openai" /\ Cardinality(NamedCalls) > 1)

\* The end of a chat completion: what is open is closed.
LEMMA OpenAiAnswer ==
    ASSUME TypeOK, Listed(sent), SentInv, provider = "openai", ClaimMade, NEW a \in Nat, HasRead(a)
    PROVE  Intact(Ended(AtEnd))
<1>1. Arrived = a /\ a \in 0 .. Len(sent)
  BY ArrivedSent
<1>2. WellSent(a)
  BY <1>1, KeptApart, SentWell DEF ClaimMade
<1>3. LoopAt(a, Here)
  BY <1>2, FramesTaken DEF HasRead
<1>4. OpenAiAt(a, Here) /\ ApartBy(a)
  BY <1>2, <1>3 DEF LoopAt, WellSent
<1>5. PICK q : q = ReadAll(Here.reader, FinishStream(Here.stream))
  OBVIOUS
<1>6. Holds(q, {}, Blks(NamedBy(a)), PiecesBy(a))
  BY <1>4, <1>5, FinishHolds
<1>7. AtEnd = q
  <2>1. Rest = <<>>
    BY DEF Rest
  <2>2. Here.stream = stream /\ Here.reader = reader
    BY DEF Here
  <2>3. TakeAll(Here, <<>>) = Here
    BY TakeNothing
  <2>4. TakeAll([stream |-> stream, reader |-> reader], Rest).reader = reader
    BY <2>1, <2>2, <2>3 DEF Here
  <2> QED
    BY <1>5, <2>2, <2>4 DEF AtEnd
<1>8. PICK r : r = Ended(AtEnd) /\ Holds(r, {}, Blks(NamedBy(a)), PiecesBy(a))
  BY <1>6, <1>7, FlushedHolds
<1>9. Blks(NamedBy(a)) \subseteq Nat
  BY BlockIs DEF NamedBy, Blks
<1>10. \A n \in DOMAIN sent : ContinuesChunks(n)
  BY DEF SentInv
<1>11. ASSUME MessageComplete
       PROVE  Blks(NamedBy(a)) = ToolBlocks /\ \A b \in Nat : Pieces(b) = PiecesBy(a)[b]
  <2>1. PICK n \in 1 .. a : \/ sent[n].kind = "message_stop"
                            \/ sent[n].kind = "chunk" /\ sent[n].finish # "none"
    BY <1>1, <1>11 DEF MessageComplete
  <2>2. ContinuesChunks(n)
    BY <1>2 DEF WellSent
  <2>3. FinishedBy(a)
    BY <2>1, <2>2 DEF ContinuesChunks, FinishedBy
  <2> QED
    BY <1>1, <1>10, <2>3, ChunksOver
<1> QED
  BY <1>1, <1>8, <1>9, <1>11, HoldsIntact

\* The last frame of the Anthropic API may come without its blank line.
LEMMA LastFrame ==
    ASSUME TypeOK, Listed(sent), provider # "openai", NEW a \in Nat, HasRead(a), ~Unreadable(Rest)
    PROVE  \E m \in 0 .. Len(sent) : \E x : a <= m /\ Taken(m, x) /\ x.reader = AtEnd
<1>1. a \in 0 .. Len(sent) /\ (buffer # <<>> => a + 1 \in 0 .. Len(sent)) /\ Taken(a, Here) /\ Len(sent) \in Nat
  BY ArrivedSent, ListedIs DEF HasRead
<1>2. Here.reader = reader /\ AtEnd = TakeAll(Here, Rest).reader
  BY DEF Here, AtEnd
<1>3. CASE Rest = <<>>
  <2>1. AtEnd = Here.reader
    BY <1>2, <1>3, TakeNothing
  <2> QED
    BY <1>1, <2>1
<1>4. CASE Rest # <<>>
  <2>1. Named /\ buffer # <<>> /\ Rest = <<ParseFrame(buffer)>>
    BY <1>4 DEF Rest, Named
  <2>2. PICK p : p = ParseFrame(buffer) /\ Rest = <<p>> /\ p \in {NOTHING, JUNK, a + 1}
    BY <2>1, RestSays
  <2>3. p # JUNK
    <3>1. 1 \in DOMAIN Rest /\ Rest[1] = p
      BY <2>2
    <3> QED
      BY <3>1 DEF Unreadable
  <2>4. AtEnd = Take(Here, p).reader
    BY <1>2, <2>2, TakeFew
  <2>5. CASE p = NOTHING
    <3>1. AtEnd = Here.reader
      BY <2>4, <2>5 DEF Take
    <3> QED
      BY <1>1, <3>1
  <2>6. CASE p = a + 1
    <3>1. Taken(a + 1, Take(Here, a + 1))
      BY <1>1, TakenMore
    <3>2. a <= a + 1 /\ a + 1 \in 0 .. Len(sent)
      BY <1>1, <2>1
    <3> QED
      BY <2>4, <2>6, <3>1, <3>2
  <2> QED
    BY <2>2, <2>3, <2>5, <2>6
<1> QED
  BY <1>3, <1>4

LEMMA AnthropicAnswer ==
    ASSUME TypeOK, Listed(sent), SentInv, provider # "openai", NEW a \in Nat, HasRead(a), ~Unreadable(Rest)
    PROVE  Intact(Ended(AtEnd))
<1>1. Arrived = a
  BY ArrivedSent
<1>2. PICK m, x : m \in 0 .. Len(sent) /\ a <= m /\ Taken(m, x) /\ x.reader = AtEnd
  BY LastFrame
<1>3. WellSent(m) /\ m \in Nat
  BY <1>2, ListedIs, SentWell
<1>4. AnthropicAt(m, x)
  BY <1>2, <1>3, FramesTaken DEF LoopAt
<1>5. PICK open, done : open = ToolsBy(m) \ StoppedBy(m) /\ done = ToolsBy(m) \cap StoppedBy(m)
  OBVIOUS
<1>6. PICK r : r = Ended(AtEnd) /\ Holds(r, open, done, PiecesBy(m))
  BY <1>2, <1>4, <1>5, FlushedHolds DEF AnthropicAt
<1>7. \A n \in DOMAIN sent : Continues(n)
  BY DEF SentInv
<1>8. done \subseteq Nat
  <2>1. OpenedBy(m) \subseteq Nat
    BY <1>3, OpenedFirst DEF WellSent
  <2> QED
    BY <1>5, <2>1, ToolsOpened
<1>9. ASSUME MessageComplete
      PROVE  done = ToolBlocks /\ \A b \in Nat : Pieces(b) = PiecesBy(m)[b]
  <2>1. PICK n \in 1 .. a : \/ sent[n].kind = "message_stop"
                            \/ sent[n].kind = "chunk" /\ sent[n].finish # "none"
    BY <1>1, <1>9 DEF MessageComplete
  <2>2. n \in 1 .. m
    BY <1>2, <1>3
  <2>3. Continues(n)
    BY <1>3, <2>2 DEF WellSent
  <2>4. EndingBy(m)
    BY <2>1, <2>2, <2>3 DEF Continues, EndingBy, Ending
  <2>5. ToolsBy(m) \subseteq StoppedBy(m) /\ ToolBlocks = ToolsBy(m) /\ \A b \in Nat : Pieces(b) = PiecesBy(m)[b]
    BY <1>2, <1>7, <2>4, BlocksOver
  <2> QED
    BY <1>5, <2>5
<1> QED
  BY <1>2, <1>6, <1>8, <1>9, HoldsIntact

\* What was sent stays, and what is claimed of it.
LEMMA IntactStays ==
    ASSUME UNCHANGED <<provider, sent, received, ending>>, NEW r, Intact(r)
    PROVE  Intact(r)'
<1>1. \A b : Pieces(b)' = Pieces(b)
  BY DEF Pieces, Writes, Deltas
<1>2. NamedCalls' = NamedCalls
  BY DEF NamedCalls, Deltas
<1>3. ToolBlocks' = ToolBlocks
  BY <1>2 DEF ToolBlocks, Blocks, Kinds
<1>4. MessageComplete' <=> MessageComplete
  BY DEF MessageComplete, Arrived, Width
<1>5. Len(sent)' = Len(sent) /\ UseEvents(r)' = UseEvents(r)
  BY DEF UseEvents
<1> QED
  BY <1>1, <1>3, <1>4, <1>5 DEF Intact

-----------------------------------------------------------------------------
(* What the provider has written stays a message of its protocol.          *)

LEMMA ContinuesStays ==
    ASSUME NEW n \in Nat \ {0}, \A k \in 1 .. n : sent'[k] = sent[k]
    PROVE  /\ Continues(n) => Continues(n)'
           /\ ContinuesChunks(n) => ContinuesChunks(n)'
<1>1. n \in 1 .. n /\ \A k \in 1 .. n - 1 : k \in 1 .. n
  OBVIOUS
<1>2. PICK f : f = sent[n] /\ f = sent'[n]
  BY <1>1
<1>3. /\ OpenedBy(n - 1)' = OpenedBy(n - 1) /\ StoppedBy(n - 1)' = StoppedBy(n - 1)
      /\ ToolsBy(n - 1)' = ToolsBy(n - 1) /\ EndingBy(n - 1)' = EndingBy(n - 1)
  BY <1>1 DEF OpenedBy, StoppedBy, ToolsBy, EndingBy, Opens, Stopping, Ending
<1>4. NamedBy(n - 1)' = NamedBy(n - 1) /\ NamedBy(n)' = NamedBy(n) /\ FinishedBy(n - 1)' = FinishedBy(n - 1)
  BY <1>1 DEF NamedBy, FinishedBy, Deltas
<1>5. Continues(n) => Continues(n)'
  BY <1>2, <1>3 DEF Continues, Opens, Stopping, Ending
<1>6. ContinuesChunks(n) => ContinuesChunks(n)'
  BY <1>2, <1>4 DEF ContinuesChunks
<1> QED
  BY <1>5, <1>6

LEMMA SentStays == ASSUME UNCHANGED <<provider, sent>>, Listed(sent), SentInv PROVE SentInv'
<1>1. \A n \in DOMAIN sent : n \in Nat \ {0}
  BY ListedIs
<1>2. \A n \in DOMAIN sent : /\ Continues(n) => Continues(n)'
                             /\ ContinuesChunks(n) => ContinuesChunks(n)'
  BY <1>1, ContinuesStays
<1>3. /\ Blocks' = Blocks /\ OpenBlock' = OpenBlock /\ Len(sent)' = Len(sent)
      /\ Kinds({"block_stop"})' = Kinds({"block_stop"}) /\ Kinds({"message_stop"})' = Kinds({"message_stop"})
      /\ Kinds({"message_delta"})' = Kinds({"message_delta"})
      /\ OpenedBy(Len(sent))' = OpenedBy(Len(sent)) /\ StoppedBy(Len(sent))' = StoppedBy(Len(sent))
  BY DEF Blocks, OpenBlock, Kinds, OpenedBy, StoppedBy, Opens, Stopping
<1>4. Counts => Counts'
  BY <1>3 DEF Counts
<1> QED
  BY <1>2, <1>4 DEF SentInv

\* Before the first frame.
NoneSent == sent = <<>>

LEMMA NoneSentHolds == ASSUME NoneSent PROVE SentInv
<1>1. DOMAIN sent = {} /\ Len(sent) = 0 /\ 1 .. 0 = {}
  BY DEF NoneSent
<1>2. Blocks = {} /\ Kinds({"block_stop"}) = {} /\ Kinds({"message_stop"}) = {}
  BY <1>1 DEF Blocks, Kinds
<1>3. OpenedBy(Len(sent)) = {} /\ StoppedBy(Len(sent)) = {}
  BY <1>1 DEF OpenedBy, StoppedBy
<1>4. Cardinality({}) = 0 /\ 0 # 0 + 1
  BY FS_EmptySet
<1>5. Counts
  BY <1>2, <1>3, <1>4 DEF Counts
<1> QED
  BY <1>1, <1>5 DEF SentInv

LEMMA NoneSentAlways == [](NoneSent => SentInv)
<1>1. NoneSent => SentInv
  BY NoneSentHolds
<1> QED
  BY <1>1, PTL

LEMMA NothingSent == ASSUME sent' = <<>> PROVE SentInv'
<1>1. NoneSent'
  BY DEF NoneSent
<1> QED
  BY <1>1, NoneSentAlways, PTL

\* One frame more.
Grown(f, n) ==
    /\ n = Len(sent) + 1 /\ n \in Nat /\ Len(sent) \in Nat /\ DOMAIN sent = 1 .. Len(sent)
    /\ n - 1 = Len(sent) /\ n \notin DOMAIN sent
    /\ Len(sent') = n /\ DOMAIN sent' = DOMAIN sent \cup {n} /\ DOMAIN sent' = 1 .. n
    /\ \A k \in DOMAIN sent : sent'[k] = sent[k]
    /\ sent'[n] = f

LEMMA GrownIs ==
    ASSUME Listed(sent), NEW f, sent' = Append(sent, f), NEW n, n = Len(sent) + 1
    PROVE  Grown(f, n) /\ Listed(sent')
<1>1. /\ Listed(sent') /\ Len(sent) \in Nat /\ DOMAIN sent = 1 .. Len(sent) /\ DOMAIN sent' = 1 .. n
      /\ \A k \in DOMAIN sent : sent'[k] = sent[k]
      /\ sent'[n] = f
  <2>1. PICK g : g = sent' /\ g = Append(sent, f)
    OBVIOUS
  <2>2. /\ \E S : Append(sent, f) \in Seq(S)
        /\ Len(sent) \in Nat /\ DOMAIN sent = 1 .. Len(sent) /\ DOMAIN Append(sent, f) = 1 .. Len(sent) + 1
        /\ \A k \in DOMAIN sent : Append(sent, f)[k] = sent[k]
        /\ Append(sent, f)[Len(sent) + 1] = f
    <3>1. \E S : sent \in Seq(S)
      BY DEF Listed
    <3> QED
      BY ONLY <3>1, AppendedEvent
  <2> QED
    BY ONLY <2>1, <2>2, n = Len(sent) + 1 DEF Listed
<1>2. n \in Nat /\ n - 1 = Len(sent) /\ n \notin 1 .. Len(sent) /\ 1 .. n = (1 .. Len(sent)) \cup {n}
  BY <1>1
<1>3. Len(sent') = n
  <2>1. Len(sent') \in Nat /\ DOMAIN sent' = 1 .. Len(sent')
    BY <1>1, ListedIs
  <2> QED
    BY <1>1, <1>2, <2>1
<1> QED
  BY <1>1, <1>2, <1>3 DEF Grown

\* What was sent before the new frame.
LEMMA GrownKeeps ==
    ASSUME NEW f, NEW n, Grown(f, n)
    PROVE  /\ \A k \in DOMAIN sent : /\ Continues(k) => Continues(k)'
                                     /\ ContinuesChunks(k) => ContinuesChunks(k)'
           /\ OpenedBy(n - 1)' = OpenedBy(n - 1) /\ StoppedBy(n - 1)' = StoppedBy(n - 1)
           /\ ToolsBy(n - 1)' = ToolsBy(n - 1) /\ EndingBy(n - 1)' = EndingBy(n - 1)
           /\ NamedBy(n - 1)' = NamedCalls /\ FinishedBy(n - 1)' = Finished
<1>1. \A k \in 1 .. n - 1 : sent'[k] = sent[k]
  BY DEF Grown
<1>2. ASSUME NEW k \in DOMAIN sent
      PROVE  /\ Continues(k) => Continues(k)'
             /\ ContinuesChunks(k) => ContinuesChunks(k)'
  <2>1. k \in Nat \ {0} /\ \A j \in 1 .. k : sent'[j] = sent[j]
    BY DEF Grown
  <2> QED
    BY <2>1, ContinuesStays
<1>3. /\ OpenedBy(n - 1)' = OpenedBy(n - 1) /\ StoppedBy(n - 1)' = StoppedBy(n - 1)
      /\ ToolsBy(n - 1)' = ToolsBy(n - 1) /\ EndingBy(n - 1)' = EndingBy(n - 1)
  BY <1>1 DEF OpenedBy, StoppedBy, ToolsBy, EndingBy, Opens, Stopping, Ending
<1>4. NamedBy(n - 1)' = NamedCalls /\ FinishedBy(n - 1)' = Finished
  <2>1. DOMAIN sent = 1 .. n - 1
    BY DEF Grown
  <2> QED
    BY <1>1, <2>1 DEF NamedBy, NamedCalls, FinishedBy, Finished, Deltas
<1> QED
  BY <1>2, <1>3, <1>4

\* After the end of an Anthropic message no block is open.
LEMMA EndedStopped ==
    ASSUME NEW a \in Nat, \A k \in 1 .. a : Continues(k), EndingBy(a)
    PROVE  OpenedBy(a) \subseteq StoppedBy(a)
<1>1. PICK e \in 1 .. a : Ending(e)
  BY DEF EndingBy
<1>2. OpenedBy(e - 1) \subseteq StoppedBy(e - 1)
  BY <1>1 DEF Continues
<1>3. ASSUME NEW n \in 1 .. a, Opens(n) PROVE n \in 1 .. e - 1
  <2>1. CASE n = e
    BY <1>1, <1>3, <2>1 DEF Ending, Opens
  <2>2. CASE n > e
    <3>1. e \in 1 .. n - 1
      BY <2>2
    <3>2. EndingBy(n - 1)
      BY <1>1, <3>1 DEF EndingBy
    <3> QED
      BY <1>3, <3>2 DEF Continues
  <2> QED
    BY <2>1, <2>2
<1>4. OpenedBy(a) \subseteq OpenedBy(e - 1)
  BY <1>3 DEF OpenedBy
<1>5. StoppedBy(e - 1) \subseteq StoppedBy(a)
  <2>1. \A n \in 1 .. e - 1 : n \in 1 .. a
    OBVIOUS
  <2> QED
    BY <2>1 DEF StoppedBy
<1> QED
  BY <1>2, <1>4, <1>5

\* What the provider may write next, by what its guards make of the blocks.
OpensNext(f) ==
    /\ f.kind = "block_start" /\ f.index = Cardinality(Blocks) /\ f.block \in {"text", "tool"}
    /\ Cardinality(Blocks) = Cardinality(Kinds({"block_stop"})) /\ ~EndingBy(Len(sent))
GoesOn(f) ==
    /\ f.kind \in {"block_stop", "delta"} /\ f.index = sent[OpenBlock].index
    /\ f.kind = "delta" => f.block = sent[OpenBlock].block
    /\ Cardinality(Blocks) = Cardinality(Kinds({"block_stop"})) + 1 /\ ~EndingBy(Len(sent))
EndsNext(f) == f.kind \in {"message_delta", "message_stop"} /\ OpenedBy(Len(sent)) \subseteq StoppedBy(Len(sent))
\* The message stops after its delta.
EndsInTurn(f) == f.kind = "message_stop" => Kinds({"message_delta"}) # {}

LEMMA AnthropicNext ==
    ASSUME provider # "openai", Listed(sent), SentInv, NEW f \in Frames
    PROVE  /\ f.kind \in {"ping", "junk", "message_start"} \/ OpensNext(f) \/ GoesOn(f) \/ EndsNext(f)
           /\ EndsInTurn(f)
<1>1. Counts /\ \A n \in DOMAIN sent : Continues(n)
  BY DEF SentInv
<1>2. Len(sent) \in Nat /\ DOMAIN sent = 1 .. Len(sent)
  BY ListedIs
<1>3. PICK a, o, s : a = Len(sent) /\ o = Cardinality(Blocks) /\ s = Cardinality(Kinds({"block_stop"}))
  OBVIOUS
<1>4. /\ o \in {s, s + 1} /\ (o = s => OpenedBy(a) \subseteq StoppedBy(a))
      /\ Kinds({"message_stop"}) # {} => Kinds({"message_delta"}) # {}
  BY <1>1, <1>3 DEF Counts
<1>5. o \in Nat /\ s \in Nat
  <2>1. IsFiniteSet(1 .. Len(sent))
    BY <1>2, FS_Interval
  <2>2. IsFiniteSet(Blocks) /\ IsFiniteSet(Kinds({"block_stop"}))
    BY <1>2, <2>1, FS_Subset DEF Blocks, Kinds
  <2> QED
    BY <1>3, <2>2, FS_CardinalityType
<1>6. Kinds({"message_stop"}) = {} /\ Kinds({"message_delta"}) = {} => ~EndingBy(a)
  BY <1>2, <1>3 DEF Kinds, EndingBy, Ending
<1>7. Kinds({"message_delta"}) # {} => EndingBy(a)
  BY <1>2, <1>3 DEF Kinds, EndingBy, Ending
<1>8. CASE f \in Extras
  <2>1. f.kind \in {"ping", "junk"}
    BY <1>8 DEF Extras
  <2> QED
    BY <2>1 DEF EndsInTurn
<1>9. CASE f \in AnthropicFrames
  <2>1. CASE sent = <<>>
    <3>1. Blocks = {} /\ Kinds({"block_stop"}) = {} /\ Kinds({"message_stop"}) = {} /\ Kinds({"message_delta"}) = {}
      BY <2>1 DEF Blocks, Kinds
    <3>2. o = 0 /\ s = 0
      BY <1>3, <3>1, FS_EmptySet
    <3>3. ~(o > s)
      BY <3>2
    <3>4. AnthropicFrames = {[kind |-> "message_start"]}
      BY <1>3, <2>1, <3>1, <3>3 DEF AnthropicFrames
    <3>5. f.kind = "message_start"
      BY <1>9, <3>4
    <3> QED
      BY <3>5 DEF EndsInTurn
  <2>2. CASE sent # <<>> /\ Kinds({"message_stop"}) # {}
    <3>1. Kinds({"message_delta"}) # {}
      BY <1>4, <2>2
    <3>2. AnthropicFrames = {}
      BY <2>2, <3>1 DEF AnthropicFrames
    <3> QED
      BY <1>9, <3>2
  <2>3. CASE sent # <<>> /\ Kinds({"message_stop"}) = {} /\ Kinds({"message_delta"}) # {}
    <3>1. f.kind = "message_stop"
      BY <1>9, <2>3 DEF AnthropicFrames
    <3>2. OpenedBy(a) \subseteq StoppedBy(a)
      BY <1>1, <1>2, <1>3, <1>7, <2>3, EndedStopped
    <3> QED
      BY <1>3, <2>3, <3>1, <3>2 DEF EndsNext, EndsInTurn
  <2>4. CASE sent # <<>> /\ Kinds({"message_stop"}) = {} /\ Kinds({"message_delta"}) = {} /\ o > s
    <3>1. f \in {Block("block_stop", sent[OpenBlock].index, "none"), Block("delta", sent[OpenBlock].index, sent[OpenBlock].block)}
      BY <1>3, <1>9, <2>4 DEF AnthropicFrames
    <3>2. o = s + 1 /\ ~EndingBy(a)
      BY <1>4, <1>5, <1>6, <2>4
    <3>3. GoesOn(f)
      BY <1>3, <3>1, <3>2 DEF GoesOn, Block
    <3>4. EndsInTurn(f)
      BY <3>1 DEF EndsInTurn, Block
    <3> QED
      BY <3>3, <3>4
  <2>5. CASE sent # <<>> /\ Kinds({"message_stop"}) = {} /\ Kinds({"message_delta"}) = {} /\ ~(o > s)
    <3>1. f.kind = "message_delta" \/ \E b \in {"text", "tool"} : f = Block("block_start", o, b)
      BY <1>3, <1>9, <2>5 DEF AnthropicFrames
    <3>2. o = s /\ ~EndingBy(a)
      BY <1>4, <1>5, <1>6, <2>5
    <3>3. CASE f.kind = "message_delta"
      <4>1. EndsNext(f)
        BY <1>3, <1>4, <3>2, <3>3 DEF EndsNext
      <4> QED
        BY <3>3, <4>1 DEF EndsInTurn
    <3>4. ASSUME NEW b \in {"text", "tool"}, f = Block("block_start", o, b) PROVE OpensNext(f) /\ EndsInTurn(f)
      <4>1. f.kind = "block_start" /\ f.index = o /\ f.block = b
        BY <3>4 DEF Block
      <4> QED
        BY <1>3, <3>2, <4>1 DEF OpensNext, EndsInTurn
    <3> QED
      BY <3>1, <3>3, <3>4
  <2> QED
    BY <2>1, <2>2, <2>3, <2>4, <2>5
<1> QED
  BY <1>8, <1>9 DEF Frames

\* The block that is open was opened once.
LEMMA OpenBlockIs ==
    ASSUME Listed(sent), \A n \in DOMAIN sent : Continues(n), OpenBlock \in Blocks
    PROVE  /\ sent[OpenBlock].index \in OpenedBy(Len(sent)) /\ sent[OpenBlock].block \in {"text", "tool"}
           /\ sent[OpenBlock].block = "tool" <=> sent[OpenBlock].index \in ToolsBy(Len(sent))
<1>1. Len(sent) \in Nat /\ DOMAIN sent = 1 .. Len(sent)
  BY ListedIs
<1>2. PICK o : o = OpenBlock /\ o \in DOMAIN sent /\ Opens(o) /\ Continues(o)
  BY DEF Blocks, Kinds, Opens
<1>3. ASSUME NEW k \in DOMAIN sent, Opens(k), sent[k].index = sent[o].index PROVE k = o
  <2>1. CASE k < o
    <3>1. k \in 1 .. o - 1
      BY <1>1, <1>2, <2>1
    <3>2. sent[k].index \in OpenedBy(o - 1)
      BY <1>3, <3>1 DEF OpenedBy
    <3> QED
      BY <1>2, <1>3, <3>2 DEF Continues
  <2>2. CASE o < k
    <3>1. o \in 1 .. k - 1
      BY <1>1, <1>2, <2>2
    <3>2. sent[o].index \in OpenedBy(k - 1)
      BY <1>2, <3>1 DEF OpenedBy
    <3> QED
      BY <1>3, <3>2 DEF Continues
  <2> QED
    BY <1>1, <1>2, <2>1, <2>2
<1>4. sent[o].index \in OpenedBy(Len(sent)) /\ sent[o].block \in {"text", "tool"}
  BY <1>1, <1>2 DEF OpenedBy, Continues
<1>5. sent[o].block = "tool" <=> sent[o].index \in ToolsBy(Len(sent))
  BY <1>1, <1>2, <1>3 DEF ToolsBy
<1> QED
  BY <1>2, <1>4, <1>5

\* The new frame continues the message.
LEMMA FrameContinues ==
    ASSUME provider # "openai", Listed(sent), SentInv, NEW f \in Frames, NEW n, Grown(f, n)
    PROVE  Continues(n)'
<1>1. Counts /\ \A k \in DOMAIN sent : Continues(k)
  BY DEF SentInv
<1>2. PICK a, o, s : /\ a = Len(sent) /\ a = n - 1 /\ o = Cardinality(Blocks)
                     /\ s = Cardinality(Kinds({"block_stop"}))
  BY DEF Grown
<1>3. PICK opened, tools, stopped, over :
        /\ opened = OpenedBy(a) /\ tools = ToolsBy(a) /\ stopped = StoppedBy(a) /\ over = EndingBy(a)
        /\ OpenedBy(n - 1)' = opened /\ ToolsBy(n - 1)' = tools /\ StoppedBy(n - 1)' = stopped
        /\ EndingBy(n - 1)' = over
  BY <1>2, GrownKeeps
<1>4. sent'[n] = f
  BY DEF Grown
<1>5. /\ \A i \in opened : i \in Nat /\ i < o
      /\ stopped \subseteq opened
      /\ o = s => opened \subseteq stopped
      /\ o = s + 1 => /\ OpenBlock \in Blocks
                      /\ sent[OpenBlock].index \notin stopped
                      /\ opened \subseteq stopped \cup {sent[OpenBlock].index}
  BY <1>1, <1>2, <1>3 DEF Counts
<1>6. o \in Nat
  <2>1. IsFiniteSet(1 .. Len(sent)) /\ Blocks \subseteq 1 .. Len(sent)
    BY FS_Interval DEF Grown, Blocks, Kinds
  <2> QED
    BY <1>2, <2>1, FS_Subset, FS_CardinalityType
<1>7. CASE f.kind \in {"ping", "junk", "message_start"}
  BY <1>4, <1>7 DEF Continues, Opens, Stopping, Ending
<1>8. CASE OpensNext(f)
  <2>1. /\ f.kind = "block_start" /\ f.index = o /\ f.block \in {"text", "tool"}
        /\ o = s /\ ~over
    BY <1>2, <1>3, <1>8 DEF OpensNext
  <2>2. o \notin opened /\ o \notin stopped /\ opened \subseteq stopped
    BY <1>5, <1>6, <2>1
  <2> QED
    BY <1>3, <1>4, <1>6, <2>1, <2>2 DEF Continues, Opens, Stopping, Ending
<1>9. CASE GoesOn(f)
  <2>1. PICK i, b : i = sent[OpenBlock].index /\ b = sent[OpenBlock].block
    OBVIOUS
  <2>2. /\ f.kind \in {"block_stop", "delta"} /\ f.index = i /\ (f.kind = "delta" => f.block = b)
        /\ o = s + 1 /\ ~over
    BY <1>2, <1>3, <1>9, <2>1 DEF GoesOn
  <2>3. i \in opened /\ b \in {"text", "tool"} /\ (b = "tool" <=> i \in tools)
    BY <1>1, <1>2, <1>3, <1>5, <2>1, <2>2, OpenBlockIs
  <2>4. i \notin stopped /\ opened \subseteq stopped \cup {i}
    BY <1>5, <2>1, <2>2
  <2> QED
    BY <1>3, <1>4, <2>2, <2>3, <2>4 DEF Continues, Opens, Stopping, Ending
<1>10. CASE EndsNext(f)
  <2>1. f.kind \in {"message_delta", "message_stop"} /\ opened \subseteq stopped
    BY <1>2, <1>3, <1>10 DEF EndsNext
  <2> QED
    BY <1>3, <1>4, <2>1 DEF Continues, Opens, Stopping, Ending
<1> QED
  BY <1>7, <1>8, <1>9, <1>10, AnthropicNext

\* The frames of some kinds, after one more.
LEMMA KindsMore ==
    ASSUME NEW f, NEW n, Grown(f, n), NEW K
    PROVE  /\ f.kind \in K => Kinds(K)' = Kinds(K) \cup {n} /\ Cardinality(Kinds(K)') = Cardinality(Kinds(K)) + 1
           /\ f.kind \notin K => Kinds(K)' = Kinds(K)
           /\ Kinds(K) \subseteq 1 .. n - 1 /\ Cardinality(Kinds(K)) \in Nat
<1>1. f.kind \in K => Kinds(K)' = Kinds(K) \cup {n}
  BY DEF Kinds, Grown
<1>2. f.kind \notin K => Kinds(K)' = Kinds(K)
  BY DEF Kinds, Grown
<1>3. Kinds(K) \subseteq 1 .. n - 1 /\ n \notin Kinds(K)
  BY DEF Kinds, Grown
<1>4. IsFiniteSet(Kinds(K))
  <2>1. IsFiniteSet(1 .. n - 1)
    BY FS_Interval DEF Grown
  <2> QED
    BY <1>3, <2>1, FS_Subset
<1>5. Cardinality(Kinds(K) \cup {n}) = Cardinality(Kinds(K)) + 1
  BY <1>3, <1>4, FS_AddElement
<1> QED
  BY <1>1, <1>2, <1>3, <1>4, <1>5, FS_CardinalityType

\* The indices of the blocks opened, and stopped, after one more.
LEMMA SetsMore ==
    ASSUME NEW f, NEW n, Grown(f, n)
    PROVE  \A v : /\ v \in OpenedBy(Len(sent))' <=> v \in OpenedBy(Len(sent)) \/ (f.kind = "block_start" /\ v = f.index)
                  /\ v \in StoppedBy(Len(sent))' <=> v \in StoppedBy(Len(sent)) \/ (f.kind = "block_stop" /\ v = f.index)
<1> SUFFICES ASSUME NEW v
             PROVE  /\ v \in OpenedBy(Len(sent))' <=> v \in OpenedBy(Len(sent)) \/ (f.kind = "block_start" /\ v = f.index)
                    /\ v \in StoppedBy(Len(sent))' <=> v \in StoppedBy(Len(sent)) \/ (f.kind = "block_stop" /\ v = f.index)
  OBVIOUS
<1>1. /\ \A k : k \in 1 .. Len(sent') <=> k \in 1 .. Len(sent) \/ k = n
      /\ \A k \in 1 .. Len(sent) : sent'[k] = sent[k]
      /\ sent'[n] = f
  BY DEF Grown
<1>2. v \in OpenedBy(Len(sent))' <=> \E k \in 1 .. Len(sent') : sent'[k].kind = "block_start" /\ v = sent'[k].index
  BY DEF OpenedBy, Opens
<1>3. v \in OpenedBy(Len(sent)) <=> \E k \in 1 .. Len(sent) : sent[k].kind = "block_start" /\ v = sent[k].index
  BY DEF OpenedBy, Opens
<1>4. v \in StoppedBy(Len(sent))' <=> \E k \in 1 .. Len(sent') : sent'[k].kind = "block_stop" /\ v = sent'[k].index
  BY DEF StoppedBy, Stopping
<1>5. v \in StoppedBy(Len(sent)) <=> \E k \in 1 .. Len(sent) : sent[k].kind = "block_stop" /\ v = sent[k].index
  BY DEF StoppedBy, Stopping
<1> QED
  BY <1>1, <1>2, <1>3, <1>4, <1>5

\* The block that is open, after one more frame.
LEMMA OpenBlockMore ==
    ASSUME NEW f, NEW n, Grown(f, n)
    PROVE  /\ f.kind = "block_start" => OpenBlock' = n /\ n \in Blocks'
           /\ f.kind # "block_start" => OpenBlock' = OpenBlock /\ Blocks' = Blocks
           /\ OpenBlock \in Blocks => sent'[OpenBlock] = sent[OpenBlock]
<1>1. ASSUME f.kind = "block_start" PROVE OpenBlock' = n /\ n \in Blocks'
  <2>1. Blocks' = Blocks \cup {n} /\ Blocks \subseteq 1 .. n - 1
    BY <1>1, KindsMore DEF Blocks
  <2>2. n \in Nat /\ \A q \in Blocks : q \in Nat /\ q < n
    BY <2>1 DEF Grown
  <2>3. \A m \in Blocks' : (\A q \in Blocks' : q <= m) <=> m = n
    BY <2>1, <2>2
  <2>4. n \in Blocks'
    BY <2>1
  <2> QED
    BY <2>3, <2>4 DEF OpenBlock
<1>2. ASSUME f.kind # "block_start" PROVE OpenBlock' = OpenBlock /\ Blocks' = Blocks
  <2>1. Blocks' = Blocks
    BY <1>2, KindsMore DEF Blocks
  <2> QED
    BY <2>1 DEF OpenBlock
<1>3. ASSUME OpenBlock \in Blocks PROVE sent'[OpenBlock] = sent[OpenBlock]
  <2>1. OpenBlock \in DOMAIN sent
    BY <1>3 DEF Blocks, Kinds
  <2> QED
    BY <2>1 DEF Grown
<1> QED
  BY <1>1, <1>2, <1>3

\* Counts, of any blocks.
BlocksCounted(opened, stopped, all, closed, here, last, index) ==
    /\ opened \in {stopped, stopped + 1}
    /\ \A i \in all : i \in Nat /\ i < opened
    /\ closed \subseteq all
    /\ opened = stopped => all \subseteq closed
    /\ opened = stopped + 1 => last \in here /\ index \notin closed /\ all \subseteq closed \cup {index}

LEMMA CountsIs ==
    Counts <=> /\ BlocksCounted(Cardinality(Blocks), Cardinality(Kinds({"block_stop"})), OpenedBy(Len(sent)),
                           StoppedBy(Len(sent)), Blocks, OpenBlock, sent[OpenBlock].index)
               /\ Kinds({"message_stop"}) # {} => Kinds({"message_delta"}) # {}
BY DEF Counts, BlocksCounted

LEMMA CountsIsNext ==
    Counts' <=> /\ BlocksCounted(Cardinality(Blocks'), Cardinality(Kinds({"block_stop"})'), OpenedBy(Len(sent))',
                            StoppedBy(Len(sent))', Blocks', OpenBlock', sent'[OpenBlock'].index)
                /\ Kinds({"message_stop"})' # {} => Kinds({"message_delta"})' # {}
BY DEF Counts, BlocksCounted

LEMMA CountsMore ==
    ASSUME provider # "openai", Listed(sent), SentInv, NEW f \in Frames, NEW n, Grown(f, n)
    PROVE  Counts'
<1>1. Counts /\ \A k \in DOMAIN sent : Continues(k)
  BY DEF SentInv
<1>2. PICK o, s, all, closed, here, last, i :
        /\ o = Cardinality(Blocks) /\ s = Cardinality(Kinds({"block_stop"})) /\ all = OpenedBy(Len(sent))
        /\ closed = StoppedBy(Len(sent)) /\ here = Blocks /\ last = OpenBlock /\ i = sent[OpenBlock].index
  OBVIOUS
<1>3. PICK o1, s1, all1, closed1, here1, last1, i1 :
        /\ o1 = Cardinality(Blocks') /\ s1 = Cardinality(Kinds({"block_stop"})')
        /\ all1 = OpenedBy(Len(sent))' /\ closed1 = StoppedBy(Len(sent))' /\ here1 = Blocks'
        /\ last1 = OpenBlock' /\ i1 = sent'[OpenBlock'].index
  OBVIOUS
<1>4. BlocksCounted(o, s, all, closed, here, last, i)
  BY <1>1, <1>2, CountsIs
<1>5. o \in Nat /\ s \in Nat
  BY <1>2, KindsMore DEF Blocks
<1>6. \A v : /\ v \in all1 <=> v \in all \/ (f.kind = "block_start" /\ v = f.index)
             /\ v \in closed1 <=> v \in closed \/ (f.kind = "block_stop" /\ v = f.index)
  BY <1>2, <1>3, SetsMore
<1>7. /\ f.kind = "block_start" => o1 = o + 1 /\ s1 = s
      /\ f.kind = "block_stop" => o1 = o /\ s1 = s + 1
      /\ f.kind \notin {"block_start", "block_stop"} => o1 = o /\ s1 = s
  BY <1>2, <1>3, KindsMore DEF Blocks
<1>8. sent'[n] = f
  BY DEF Grown
<1>9. /\ f.kind = "block_start" => last1 = n /\ n \in here1 /\ i1 = f.index
      /\ f.kind # "block_start" => last1 = last /\ here1 = here /\ (last \in here => i1 = i)
  BY <1>2, <1>3, <1>8, OpenBlockMore
<1>10. ASSUME f.kind = "block_start" PROVE BlocksCounted(o1, s1, all1, closed1, here1, last1, i1)
  <2>1. OpensNext(f)
    BY <1>10, AnthropicNext DEF GoesOn, EndsNext
  <2>2. f.index = o /\ o = s
    BY <1>2, <2>1 DEF OpensNext
  <2>3. /\ \A v \in all : v \in Nat /\ v < o
        /\ closed \subseteq all /\ all \subseteq closed
    BY <1>4, <2>2 DEF BlocksCounted
  <2>4. o1 = s1 + 1 /\ o1 # s1
    BY <1>5, <1>7, <1>10, <2>2
  <2>5. \A v \in all1 : v \in Nat /\ v < o1
    BY <1>5, <1>6, <1>7, <1>10, <2>2, <2>3
  <2>6. closed1 \subseteq all1 /\ all1 \subseteq closed1 \cup {i1}
    BY <1>6, <1>9, <1>10, <2>3
  <2>7. i1 \notin closed1
    BY <1>5, <1>6, <1>9, <1>10, <2>2, <2>3
  <2> QED
    BY <1>9, <1>10, <2>4, <2>5, <2>6, <2>7 DEF BlocksCounted
<1>11. ASSUME f.kind = "block_stop" PROVE BlocksCounted(o1, s1, all1, closed1, here1, last1, i1)
  <2>1. GoesOn(f)
    BY <1>11, AnthropicNext DEF OpensNext, EndsNext
  <2>2. f.index = i /\ o = s + 1
    BY <1>2, <2>1 DEF GoesOn
  <2>3. last \in here /\ all \subseteq closed \cup {i} /\ closed \subseteq all
        /\ \A v \in all : v \in Nat /\ v < o
    BY <1>4, <2>2 DEF BlocksCounted
  <2>4. i \in all
    BY <1>1, <1>2, <2>3, OpenBlockIs
  <2>5. o1 = s1 /\ o1 # s1 + 1 /\ o1 = o
    BY <1>5, <1>7, <1>11, <2>2
  <2>6. \A v \in all1 : v \in Nat /\ v < o1
    BY <1>6, <1>11, <2>3, <2>5
  <2>7. closed1 \subseteq all1 /\ all1 \subseteq closed1
    BY <1>6, <1>11, <2>2, <2>3, <2>4
  <2> QED
    BY <2>5, <2>6, <2>7 DEF BlocksCounted
<1>12. ASSUME f.kind \notin {"block_start", "block_stop"} PROVE BlocksCounted(o1, s1, all1, closed1, here1, last1, i1)
  <2>1. all1 = all /\ closed1 = closed
    BY <1>6, <1>12
  <2> QED
    BY <1>4, <1>7, <1>9, <1>12, <2>1 DEF BlocksCounted
<1>13. BlocksCounted(o1, s1, all1, closed1, here1, last1, i1)
  BY <1>10, <1>11, <1>12
<1>14. Kinds({"message_stop"})' # {} => Kinds({"message_delta"})' # {}
  <2>1. EndsInTurn(f)
    BY AnthropicNext
  <2>2. Kinds({"message_stop"}) # {} => Kinds({"message_delta"}) # {}
    BY <1>1, CountsIs
  <2>3. /\ f.kind = "message_stop" \/ Kinds({"message_stop"})' = Kinds({"message_stop"})
        /\ Kinds({"message_delta"}) \subseteq Kinds({"message_delta"})'
    BY KindsMore
  <2> QED
    BY <2>1, <2>2, <2>3 DEF EndsInTurn
<1> QED
  BY <1>3, <1>13, <1>14, CountsIsNext

\* The entries a chunk may carry.
Entries == [index : CallIndices, named : BOOLEAN, arguments : BOOLEAN]
CallsNext(calls) ==
    /\ calls \in Seq(Entries)
    /\ \A k \in DOMAIN calls : calls[k].named = (calls[k].index \notin NamedCalls)
    /\ \A j, k \in DOMAIN calls : calls[j].index = calls[k].index => j = k

LEMMA NoCallNext == CallsNext(<<>>)
<1>1. PICK E : E = Entries
  OBVIOUS
<1>2. <<>> \in Seq(E)
  OBVIOUS
<1>3. \A k \in DOMAIN <<>> : FALSE
  OBVIOUS
<1> QED
  BY <1>1, <1>2, <1>3 DEF CallsNext

LEMMA OneCallNext ==
    ASSUME NEW i \in CallIndices, NEW arguments \in BOOLEAN
    PROVE  CallsNext(<<Call(i, i \notin NamedCalls, arguments)>>)
<1>1. PICK named \in BOOLEAN : named = (i \notin NamedCalls)
  OBVIOUS
<1>2. PICK E, c : E = Entries /\ c = Call(i, named, arguments)
  OBVIOUS
<1>3. c \in E /\ c.index = i /\ c.named = named
  BY <1>2 DEF Call, Entries
<1>4. PICK s : s = <<c>>
  OBVIOUS
<1>5. s \in Seq(E)
  BY <1>3, <1>4
<1>6. \A k \in DOMAIN s : k = 1 /\ s[k] = c
  BY <1>4
<1>7. CallsNext(s)
  BY <1>1, <1>2, <1>3, <1>5, <1>6 DEF CallsNext
<1> QED
  BY <1>1, <1>2, <1>4, <1>7

LEMMA AllCallsNext ==
    ASSUME NamedCalls = {}, NEW all, all = InOrder(CallIndices)
    PROVE  CallsNext([k \in DOMAIN all |-> Call(all[k], TRUE, TRUE)])
<1>1. Orders(all, CallIndices)
  BY OrderExists, CallIndicesAssumption
<1>2. PICK n \in Nat : n = Cardinality(CallIndices)
  BY CallIndicesAssumption, FS_CardinalityType
<1>3. /\ all \in [1 .. n -> CallIndices] /\ DOMAIN all = 1 .. n
      /\ \A i, j \in 1 .. n : i < j => all[i] < all[j]
  BY <1>1, <1>2 DEF Orders
<1>4. PICK s : s = [k \in DOMAIN all |-> Call(all[k], TRUE, TRUE)]
  OBVIOUS
<1>5. DOMAIN s = 1 .. n /\ \A k \in 1 .. n : s[k] = Call(all[k], TRUE, TRUE)
  BY <1>3, <1>4
<1>6. \A k \in 1 .. n : s[k] \in Entries /\ s[k].index = all[k] /\ s[k].named = TRUE
  <2> SUFFICES ASSUME NEW k \in 1 .. n PROVE s[k] \in Entries /\ s[k].index = all[k] /\ s[k].named = TRUE
    OBVIOUS
  <2>1. PICK i \in CallIndices : i = all[k] /\ s[k] = Call(i, TRUE, TRUE)
    BY <1>3, <1>5
  <2> QED
    BY <2>1 DEF Call, Entries
<1>7. s \in [1 .. n -> Entries]
  BY <1>3, <1>4, <1>5, <1>6
<1>8. s \in Seq(Entries)
  BY <1>7
<1>9. \A j, k \in 1 .. n : all[j] = all[k] => j = k
  <2>1. \A j \in 1 .. n : all[j] \in Nat
    BY <1>3, CallIndicesAssumption
  <2> QED
    BY <1>3, <2>1
<1>10. CallsNext(s)
  <2>1. \A k \in DOMAIN s : s[k].named = TRUE /\ s[k].index \notin NamedCalls
    BY <1>5, <1>6
  <2>2. \A k \in DOMAIN s : s[k].named = (s[k].index \notin NamedCalls)
    BY <2>1
  <2>3. \A j, k \in DOMAIN s : s[j].index = s[k].index => j = k
    BY <1>5, <1>6, <1>9
  <2> QED
    BY <1>8, <2>2, <2>3 DEF CallsNext
<1> QED
  BY <1>4, <1>10

\* What a chat completion may say next.
ChunkNext(f) ==
    /\ ~Finished /\ f.kind = "chunk" /\ f.content \in BOOLEAN /\ f.reasoning \in BOOLEAN
    /\ f.finish \in {"none", "stop", "tool_calls"}
    /\ f.finish = "stop" => NamedCalls = {} /\ f.tool_calls = <<>>
    /\ CallsNext(f.tool_calls)

\* The chunks of a completion that goes on, by what they carry.
OneCallSays(i, arguments, finish) == Chunk(FALSE, FALSE, <<Call(i, i \notin NamedCalls, arguments)>>, finish)
LastChunks == {Chunk(FALSE, FALSE, <<>>, finish) : finish \in Endings \ {"none"}}
TextChunks == {Chunk(TRUE, FALSE, <<>>, "none"), Chunk(FALSE, TRUE, <<>>, "none")}
CallChunks ==
    {OneCallSays(i, arguments, finish) :
        i \in CallIndices, arguments \in BOOLEAN, finish \in {"none", "tool_calls"}}
AllCallsChunks ==
    {Chunk(FALSE, FALSE, [k \in DOMAIN all |-> Call(all[k], TRUE, TRUE)], "none") : all \in {InOrder(CallIndices)}}

LEMMA OpenAiFramesAre ==
    ASSUME ~Finished, NEW f \in OpenAiFrames
    PROVE  f \in LastChunks \cup TextChunks \cup CallChunks \/ (NamedCalls = {} /\ f \in AllCallsChunks)
<1>1. OpenAiFrames =
        LastChunks \cup IF Cardinality(Kinds(Content)) >= MaxContent THEN {}
                        ELSE TextChunks \cup CallChunks \cup IF NamedCalls # {} THEN {} ELSE AllCallsChunks
  BY SMT DEF OpenAiFrames, LastChunks, TextChunks, AllCallsChunks, CallChunks, OneCallSays
<1> QED
  BY <1>1

LEMMA OpenAiNext ==
    ASSUME provider = "openai", NEW f \in Frames
    PROVE  f.kind \in {"done", "ping", "junk"} \/ ChunkNext(f)
<1>1. CASE f \in Extras
  BY <1>1 DEF Extras
<1>2. CASE f \in OpenAiFrames /\ Finished
  BY <1>2 DEF OpenAiFrames
<1>3. CASE f \in OpenAiFrames /\ ~Finished
  <2>1. \/ \E finish \in Endings \ {"none"} : f = Chunk(FALSE, FALSE, <<>>, finish)
        \/ f = Chunk(TRUE, FALSE, <<>>, "none") \/ f = Chunk(FALSE, TRUE, <<>>, "none")
        \/ \E i \in CallIndices, arguments \in BOOLEAN, finish \in {"none", "tool_calls"} :
              f = OneCallSays(i, arguments, finish)
        \/ /\ NamedCalls = {}
           /\ \E all \in {InOrder(CallIndices)} :
                 f = Chunk(FALSE, FALSE, [k \in DOMAIN all |-> Call(all[k], TRUE, TRUE)], "none")
    <3>1. f \in LastChunks \cup TextChunks \cup CallChunks \/ (NamedCalls = {} /\ f \in AllCallsChunks)
      BY <1>3, OpenAiFramesAre
    <3>2. f \in LastChunks => \E finish \in Endings \ {"none"} : f = Chunk(FALSE, FALSE, <<>>, finish)
      BY DEF LastChunks
    <3>3. f \in TextChunks => f = Chunk(TRUE, FALSE, <<>>, "none") \/ f = Chunk(FALSE, TRUE, <<>>, "none")
      BY DEF TextChunks
    <3>4. f \in CallChunks => \E i \in CallIndices, arguments \in BOOLEAN, finish \in {"none", "tool_calls"} :
                                 f = OneCallSays(i, arguments, finish)
      BY DEF CallChunks
    <3>5. f \in AllCallsChunks =>
            \E all \in {InOrder(CallIndices)} :
               f = Chunk(FALSE, FALSE, [k \in DOMAIN all |-> Call(all[k], TRUE, TRUE)], "none")
      BY DEF AllCallsChunks
    <3> QED
      BY <3>1, <3>2, <3>3, <3>4, <3>5
  <2>2. ASSUME NEW content \in BOOLEAN, NEW reasoning \in BOOLEAN, NEW calls, CallsNext(calls),
               NEW finish \in {"none", "stop", "tool_calls"}, finish = "stop" => NamedCalls = {} /\ calls = <<>>,
               f = Chunk(content, reasoning, calls, finish)
        PROVE  ChunkNext(f)
    BY <1>3, <2>2 DEF Chunk, ChunkNext
  <2>3. ASSUME NEW finish \in Endings \ {"none"}, f = Chunk(FALSE, FALSE, <<>>, finish) PROVE ChunkNext(f)
    <3>1. finish \in {"none", "stop", "tool_calls"} /\ (finish = "stop" => NamedCalls = {})
      BY DEF Endings
    <3> QED
      BY <2>2, <2>3, <3>1, NoCallNext
  <2>4. ASSUME f = Chunk(TRUE, FALSE, <<>>, "none") \/ f = Chunk(FALSE, TRUE, <<>>, "none") PROVE ChunkNext(f)
    BY <2>2, <2>4, NoCallNext
  <2>5. ASSUME NEW i \in CallIndices, NEW arguments \in BOOLEAN, NEW finish \in {"none", "tool_calls"},
               f = OneCallSays(i, arguments, finish)
        PROVE  ChunkNext(f)
    <3>1. PICK calls : calls = <<Call(i, i \notin NamedCalls, arguments)>> /\ CallsNext(calls)
      BY OneCallNext
    <3>2. f = Chunk(FALSE, FALSE, calls, finish)
      BY <2>5, <3>1 DEF OneCallSays
    <3> QED
      BY <2>2, <3>1, <3>2
  <2>6. ASSUME NamedCalls = {}, NEW all, all = InOrder(CallIndices),
               f = Chunk(FALSE, FALSE, [k \in DOMAIN all |-> Call(all[k], TRUE, TRUE)], "none")
        PROVE  ChunkNext(f)
    <3>1. PICK calls : calls = [k \in DOMAIN all |-> Call(all[k], TRUE, TRUE)] /\ CallsNext(calls)
      BY <2>6, AllCallsNext
    <3> QED
      BY <2>2, <2>6, <3>1
  <2> QED
    BY <2>1, <2>3, <2>4, <2>5, <2>6
<1> QED
  BY <1>1, <1>2, <1>3 DEF Frames

\* The new chunk continues the completion.
LEMMA ChunkContinues ==
    ASSUME provider = "openai", NEW f \in Frames, NEW n, Grown(f, n)
    PROVE  ContinuesChunks(n)'
<1>1. sent'[n] = f /\ n \in Nat /\ n \in 1 .. n /\ \A k : k \in 1 .. n <=> k \in 1 .. n - 1 \/ k = n
  BY DEF Grown
<1>2. NamedBy(n - 1)' = NamedCalls /\ FinishedBy(n - 1)' = Finished
  BY GrownKeeps
<1>3. CASE f.kind \in {"done", "ping", "junk"}
  BY <1>1, <1>3 DEF ContinuesChunks
<1>4. CASE ChunkNext(f)
  <2>1. /\ ~Finished /\ f.kind = "chunk" /\ f.content \in BOOLEAN /\ f.reasoning \in BOOLEAN
        /\ f.finish \in {"none", "stop", "tool_calls"}
        /\ CallsNext(f.tool_calls)
    BY <1>4 DEF ChunkNext
  <2>2. f.finish = "stop" => NamedBy(n)' = {}
    <3> SUFFICES ASSUME f.finish = "stop" PROVE NamedBy(n)' = {}
      OBVIOUS
    <3>1. NamedCalls = {} /\ f.tool_calls = <<>>
      BY <1>4 DEF ChunkNext
    <3>2. \A k \in 1 .. n - 1 : \A d \in Deltas(k)' : d.index \notin CallIndices
      BY <1>2, <3>1 DEF NamedBy
    <3>3. Deltas(n)' = {}
      BY <1>1, <3>1 DEF Deltas, Range
    <3> QED
      BY <1>1, <3>2, <3>3 DEF NamedBy
  <2>3. PICK calls, named : calls = f.tool_calls /\ named = NamedCalls
    OBVIOUS
  <2>4. /\ calls \in Seq([index : CallIndices, named : BOOLEAN, arguments : BOOLEAN])
        /\ \A k \in DOMAIN calls : calls[k].named = (calls[k].index \notin named)
        /\ \A j, k \in DOMAIN calls : calls[j].index = calls[k].index => j = k
    BY <2>1, <2>3 DEF CallsNext, Entries
  <2> QED
    BY <1>1, <1>2, <2>1, <2>2, <2>3, <2>4 DEF ContinuesChunks
<1> QED
  BY <1>3, <1>4, OpenAiNext

-----------------------------------------------------------------------------
(* The invariant of the answer.                                            *)

LEMMA SentGrows == ASSUME Listed(sent), SentInv, ProviderWrites PROVE SentInv'
<1>1. PICK f \in Frames : sent' = Append(sent, f)
  BY DEF ProviderWrites
<1>2. provider' = provider
  BY DEF ProviderWrites, setting
<1>3. PICK n : n = Len(sent) + 1
  OBVIOUS
<1>4. Grown(f, n)
  BY <1>1, <1>3, GrownIs
<1>5. DOMAIN sent' = DOMAIN sent \cup {n}
  BY <1>4 DEF Grown
<1>6. \A k \in DOMAIN sent : /\ Continues(k) => Continues(k)'
                             /\ ContinuesChunks(k) => ContinuesChunks(k)'
  BY <1>4, GrownKeeps
<1>7. CASE provider = "openai"
  <2>1. \A k \in DOMAIN sent : ContinuesChunks(k)
    BY <1>7 DEF SentInv
  <2>2. ContinuesChunks(n)'
    BY <1>4, <1>7, ChunkContinues
  <2>3. \A k \in DOMAIN sent' : ContinuesChunks(k)'
    BY <1>5, <1>6, <2>1, <2>2
  <2> QED
    BY <1>2, <1>7, <2>3 DEF SentInv
<1>8. CASE provider # "openai"
  <2>1. \A k \in DOMAIN sent : Continues(k)
    BY <1>8 DEF SentInv
  <2>2. Continues(n)' /\ Counts'
    BY <1>4, <1>8, FrameContinues, CountsMore
  <2>3. \A k \in DOMAIN sent' : Continues(k)'
    BY <1>5, <1>6, <2>1, <2>2
  <2> QED
    BY <1>2, <1>8, <2>2, <2>3 DEF SentInv
<1> QED
  BY <1>7, <1>8

LEMMA NextSent == ASSUME Listed(sent), SentInv, [Next]_vars PROVE SentInv'
<1>1. CASE ProviderWrites
  BY <1>1, SentGrows
<1>2. CASE sent' = <<>>
  BY <1>2, NothingSent
<1>3. CASE UNCHANGED <<provider, sent>>
  BY <1>3, SentStays
<1>4. CASE SendRequest \/ Succeeds \/ FailsForNow \/ FailsForGood
  BY <1>3, <1>4 DEF SendRequest, Succeeds, FailsForNow, FailsForGood, setting, body
<1>5. ASSUME NEW size \in 1 .. Len(wire), ChunkArrives(size) PROVE SentInv'
  BY <1>2, <1>3, <1>5 DEF ChunkArrives, Dropped, setting
<1>6. CASE BodyEnds
  BY <1>2, <1>3, <1>6 DEF BodyEnds, Dropped, setting
<1>7. CASE BodyBreaks
  BY <1>2, <1>7 DEF BodyBreaks, Dropped
<1>8. CASE WholeMessage \/ MessageUnreadable
  BY <1>3, <1>8 DEF WholeMessage, MessageUnreadable, setting, body
<1>9. CASE UNCHANGED vars
  BY <1>3, <1>9 DEF vars, setting, body
<1> QED
  BY <1>1, <1>4, <1>5, <1>6, <1>7, <1>8, <1>9 DEF Next

\* The claim of the answer, put with Intact.
LEMMA ClaimIs ==
    ToolCallsIntact <=> (ClaimMade => (phase = "answered" /\ mode = "stream" => Intact(reader)))
BY IntactIs DEF ToolCallsIntact, ClaimMade

Streamed == phase = "answered" /\ mode = "stream"
Claimed == ClaimMade => (Streamed => Intact(reader))

LEMMA ClaimedNext == Claimed' => ToolCallsIntact'
<1>1. Claimed => ToolCallsIntact
  BY ClaimIs DEF Claimed, Streamed
<1>2. [](Claimed => ToolCallsIntact)
  BY <1>1, PTL
<1> QED
  BY <1>2, PTL

LEMMA ClaimStays == ASSUME UNCHANGED <<provider, consumer, sent>> PROVE ClaimMade' <=> ClaimMade
<1>1. NamedCalls' = NamedCalls
  BY DEF NamedCalls, Deltas
<1> QED
  BY <1>1 DEF ClaimMade

LEMMA EndAnswers ==
    ASSUME TypeOK, Listed(sent), SentInv, NEW a \in Nat, HasRead(a), BodyEnds
    PROVE  ToolCallsIntact'
<1>1. CASE phase' # "answered"
  <2>1. ~Streamed'
    BY <1>1 DEF Streamed
  <2> QED
    BY <2>1, ClaimedNext DEF Claimed
<1>2. CASE phase' = "answered"
  <2>1. ~Unreadable(Rest) /\ reader' = Ended(AtEnd) /\ UNCHANGED <<provider, consumer, ending, sent, received>>
    BY <1>2 DEF BodyEnds, setting
  <2>2. ClaimMade' <=> ClaimMade
    BY <2>1, ClaimStays
  <2>3. ASSUME ClaimMade PROVE Intact(reader)'
    <3>1. PICK r : r = Ended(AtEnd) /\ Intact(r)
      BY <2>1, <2>3, OpenAiAnswer, AnthropicAnswer
    <3>2. Intact(r)'
      BY <2>1, <3>1, IntactStays
    <3>3. reader' = r
      BY <2>1, <3>1
    <3> QED
      BY <3>2, <3>3, ZenonT(40) DEF Intact, UseEvents
  <2> QED
    BY <2>2, <2>3, ClaimedNext DEF Claimed
<1> QED
  BY <1>1, <1>2

\* A plain request is read only of a call that is one.
PlainInv == phase = "reading" => mode = "message"

LEMMA NextAnswer == ASSUME IInv, ReadInv, SentInv, PlainInv, ToolCallsIntact, [Next]_vars
                    PROVE  PlainInv' /\ ToolCallsIntact'
<1>1. TypeOK /\ Listed(sent)
  BY DEF IInv, ReadInv, Listed
<1>2. CASE phase' # "answered" /\ PlainInv'
  <2>1. ~Streamed'
    BY <1>2 DEF Streamed
  <2> QED
    BY <1>2, <2>1, ClaimedNext DEF Claimed
<1>3. CASE SendRequest \/ FailsForNow \/ FailsForGood \/ MessageUnreadable \/ BodyBreaks
  BY <1>2, <1>3 DEF PlainInv, SendRequest, FailsForNow, FailsForGood, MessageUnreadable, BodyBreaks
<1>4. CASE Succeeds
  BY <1>1, <1>2, <1>4 DEF PlainInv, Succeeds, TypeOK
<1>5. CASE ProviderWrites
  BY <1>2, <1>5 DEF PlainInv, ProviderWrites
<1>6. ASSUME NEW size \in 1 .. Len(wire), ChunkArrives(size) PROVE PlainInv' /\ ToolCallsIntact'
  BY <1>2, <1>6 DEF PlainInv, ChunkArrives
<1>7. CASE BodyEnds
  <2>1. PICK a \in Nat : HasRead(a)
    BY <1>7 DEF BodyEnds, ReadInv
  <2>2. ToolCallsIntact'
    BY <1>1, <1>7, <2>1, EndAnswers
  <2>3. phase' # "reading"
    BY <1>7 DEF BodyEnds
  <2> QED
    BY <2>2, <2>3 DEF PlainInv
<1>8. CASE WholeMessage
  <2>1. mode' = "message" /\ phase' = "answered"
    BY <1>8 DEF WholeMessage, PlainInv
  <2>2. ~Streamed'
    BY <2>1 DEF Streamed
  <2> QED
    BY <2>1, <2>2, ClaimedNext DEF Claimed, PlainInv
<1>9. CASE UNCHANGED vars
  <2>1. UNCHANGED <<provider, consumer, ending, mode, phase, sent, received, reader>>
    BY <1>9 DEF vars, setting, body
  <2>2. ClaimMade' <=> ClaimMade
    BY <2>1, ClaimStays
  <2>3. ASSUME ClaimMade', Streamed' PROVE Intact(reader)'
    <3>1. Intact(reader)
      BY <2>1, <2>2, <2>3, ClaimIs DEF Streamed
    <3>2. PICK r : r = reader' /\ Intact(r)
      BY <2>1, <3>1
    <3>3. Intact(r)'
      BY <2>1, <3>2, IntactStays
    <3>4. reader' = r
      BY <3>2
    <3> QED
      BY <3>3, <3>4, ZenonT(40) DEF Intact, UseEvents
  <2>4. Claimed'
    BY <2>3 DEF Claimed
  <2>5. PlainInv'
    BY <2>1 DEF PlainInv
  <2> QED
    BY <2>4, <2>5, ClaimedNext
<1> QED
  BY <1>3, <1>4, <1>5, <1>6, <1>7, <1>8, <1>9 DEF Next

\* The answer of a stream holds the tool calls the provider wrote, each once and with its
\* own arguments, all of them when the message was complete, wherever the network cut the
\* stream and whichever client reads it; of the terminal client over a chat completion
\* this is said of messages with one call (StreamState::ingest_chunk and finish, the
\* loops of SegoRuntimeClient and ProviderRuntimeClient).
THEOREM CallsArriveIntact == Spec => []ToolCallsIntact
<1> DEFINE AnswerInv == IInv /\ ReadInv /\ SentInv /\ PlainInv /\ ToolCallsIntact
<1>1. Init => AnswerInv
  <2> SUFFICES ASSUME Init PROVE AnswerInv
    OBVIOUS
  <2>1. IInv /\ ReadInv
    BY InitInv, InitRead
  <2>2. SentInv
    BY NoneSentHolds DEF NoneSent, Init
  <2>3. PlainInv /\ ToolCallsIntact
    BY DEF Init, PlainInv, ToolCallsIntact, CallsIntact
  <2> QED
    BY <2>1, <2>2, <2>3
<1>2. AnswerInv /\ [Next]_vars => AnswerInv'
  <2> SUFFICES ASSUME IInv, ReadInv, SentInv, PlainInv, ToolCallsIntact, [Next]_vars PROVE AnswerInv'
    OBVIOUS
  <2>1. IInv' /\ ReadInv'
    BY NextRead
  <2>2. SentInv'
    <3>1. Listed(sent)
      BY DEF ReadInv, Listed
    <3> QED
      BY <3>1, NextSent
  <2>3. PlainInv' /\ ToolCallsIntact'
    BY NextAnswer
  <2> QED
    BY <2>1, <2>2, <2>3
<1>3. AnswerInv => ToolCallsIntact
  OBVIOUS
<1> QED
  BY <1>1, <1>2, <1>3, PTL DEF Spec
=============================================================================
