----------------------- MODULE ConversationTurnProofs -----------------------
(***************************************************************************)
(* Theorems about ConversationTurn, for every set of tools, every policy   *)
(* and every budget, and about the permission decision of PermissionCall,  *)
(* for every call.                                                         *)
(***************************************************************************)
EXTENDS ConversationTurn, PermissionCall, FiniteSetTheorems,
        WellFoundedInduction, TLAPS

-----------------------------------------------------------------------------
(* Lemmas about transcripts.                                               *)

LEMMA UsageIsNat ==
  ASSUME NEW s \in Seq(Message)
  PROVE  UsageOf(s) \in Nat
<1> DEFINE D == {i \in DOMAIN s : s[i].billed}
<1>1. D \subseteq 1..Len(s)
  OBVIOUS
<1>2. IsFiniteSet(1..Len(s))
  BY FS_Interval
<1>3. IsFiniteSet(D)
  BY <1>1, <1>2, FS_Subset
<1> QED
  BY <1>3, FS_CardinalityType DEF UsageOf

LEMMA MessageTypes ==
  /\ Summary \in Message
  /\ UserInput \in Message
  /\ \A uses \in Seq(Use), billed \in BOOLEAN : Assistant(uses, billed) \in Message
  /\ \A use \in Use : ToolResult(use) \in Message
<1>1. <<>> \in Seq(Use)
  OBVIOUS
<1>2. Summary \in Message /\ UserInput \in Message
  BY <1>1 DEF Summary, UserInput, Plain, Message
<1>3. \A uses \in Seq(Use), billed \in BOOLEAN : Assistant(uses, billed) \in Message
  BY DEF Assistant, Message
<1>4. \A use \in Use : ToolResult(use) \in Message
  <2> TAKE use \in Use
  <2>1. use.id \in Nat /\ use.tool \in Tools
    BY DEF Use
  <2> QED
    BY <1>1, <2>1 DEF ToolResult, Message
<1> QED
  BY <1>2, <1>3, <1>4

LEMMA CompactType ==
  ASSUME NEW s \in Seq(Message)
  PROVE  Compact(s) \in Seq(Message)
<1>1. CASE ~Compactable(s)
  BY <1>1 DEF Compact
<1>2. CASE Compactable(s)
  <2>1. Len(s) - PreserveRecent + 1 \in 1..Len(s)+1
    BY <1>2, PreserveAssumption DEF Compactable, SummaryPrefix
  <2>2. SubSeq(s, Len(s) - PreserveRecent + 1, Len(s)) \in Seq(Message)
    BY <2>1
  <2>3. <<Summary>> \in Seq(Message)
    BY MessageTypes
  <2> QED
    BY <1>2, <2>2, <2>3 DEF Compact
<1> QED
  BY <1>1, <1>2

-----------------------------------------------------------------------------
(* Types.                                                                  *)

LEMMA NewUsesType ==
  ASSUME TypeOK, NEW uses \in NewUses
  PROVE  uses \in Seq(Use)
<1>1. PICK n \in 0..MaxUses : \E names \in [1..n -> Tools] :
         uses = [k \in 1..n |-> [id |-> nextId + k - 1, tool |-> names[k]]]
  BY DEF NewUses
<1>2. PICK names \in [1..n -> Tools] :
         uses = [k \in 1..n |-> [id |-> nextId + k - 1, tool |-> names[k]]]
  BY <1>1
<1>3. n \in Nat
  BY LimitsAssumption
<1>4. \A k \in 1..n : [id |-> nextId + k - 1, tool |-> names[k]] \in Use
  BY <1>3 DEF Use, TypeOK
<1> QED
  BY <1>2, <1>3, <1>4

LEMMA EndTurnType ==
  ASSUME TypeOK, NEW why \in Outcomes, NEW transcript \in Seq(Message),
         EndTurn(why, transcript)
  PROVE  TypeOK' /\ QueueInv'
<1>1. "None" \in HookResults /\ "NoPrompter" \in Answers
  BY DEF HookResults, Overrides, Answers
<1>2. "idle" \in Locations /\ "idle" \notin ToolPhases
  BY DEF Locations, ToolPhases
<1>3. <<>> \in Seq(Use)
  OBVIOUS
<1> QED
  BY <1>1, <1>2, <1>3 DEF EndTurn, TypeOK, QueueInv

LEMMA RecordResultType ==
  ASSUME TypeOK, QueueInv, pc \in ToolPhases, RecordResult
  PROVE  TypeOK' /\ QueueInv'
<1>1. Head(pending) \in Use /\ Tail(pending) \in Seq(Use)
  BY DEF TypeOK, QueueInv
<1>2. session' \in Seq(Message)
  BY <1>1, MessageTypes DEF RecordResult, TypeOK
<1>3. pc' \in Locations /\ (pc' \in ToolPhases <=> pending' # <<>>)
  BY DEF RecordResult, Locations, Checkpoints, ToolPhases
<1>4. hook' \in HookResults /\ answer' \in Answers
  BY DEF RecordResult, HookResults, Overrides, Answers
<1>5. pending' \in Seq(Use)
  BY <1>1 DEF RecordResult
<1> QED
  BY <1>2, <1>3, <1>4, <1>5 DEF RecordResult, TypeOK, QueueInv

LEMMA PushFailsType ==
  ASSUME TypeOK, PushFails
  PROVE  TypeOK' /\ QueueInv'
BY EndTurnType DEF PushFails, Outcomes, Fatal, TypeOK

LEMMA TypeStep ==
  ASSUME TypeOK, QueueInv, [Next]_vars
  PROVE  TypeOK' /\ QueueInv'
<1> USE DEF QueueInv
<1>1. CASE Cancelled
  BY <1>1, EndTurnType DEF Cancelled, Outcomes, Fatal, TypeOK
<1>2. CASE LoopHead
  <2>1. session' \in Seq(Message)
    BY <1>2, CompactType DEF LoopHead, TypeOK
  <2> QED
    BY <1>2, <2>1 DEF LoopHead, TypeOK, Locations, Checkpoints, ToolPhases
<1>3. CASE TooManyIterations
  BY <1>3, EndTurnType DEF TooManyIterations, Outcomes, Fatal, TypeOK
<1>4. CASE BudgetStop
  BY <1>4, EndTurnType DEF BudgetStop, Outcomes, Fatal, TypeOK
<1>5. CASE SendRequest
  BY <1>5 DEF SendRequest, TypeOK, Locations, Checkpoints, ToolPhases
<1>6. CASE StreamFails
  BY <1>6, EndTurnType DEF StreamFails, Outcomes, Fatal, TypeOK
<1>7. ASSUME NEW uses \in NewUses, NEW billed \in BOOLEAN,
             StreamReturns(uses, billed)
      PROVE  TypeOK' /\ QueueInv'
  <2>1. uses \in Seq(Use)
    BY NewUsesType
  <2>2. session' \in Seq(Message)
    BY <1>7, <2>1, MessageTypes DEF StreamReturns, TypeOK
  <2>3. tokens' \in Nat
    BY <1>7 DEF StreamReturns, Recorded, TypeOK
  <2>4. nextId' \in Nat \ {0}
    BY <1>7, <2>1 DEF StreamReturns, TypeOK
  <2>5. pc' \in Locations /\ pc' \in ToolPhases /\ pending' # <<>>
    BY <1>7 DEF StreamReturns, Locations, Checkpoints, ToolPhases
  <2> QED
    BY <1>7, <2>1, <2>2, <2>3, <2>4, <2>5 DEF StreamReturns, TypeOK
<1>8. ASSUME NEW billed \in BOOLEAN, TurnCompletes(billed)
      PROVE  TypeOK' /\ QueueInv'
  <2> DEFINE full == Append(session, Assistant(<<>>, billed))
  <2>1. <<>> \in Seq(Use)
    OBVIOUS
  <2>2. full \in Seq(Message)
    <3>1. Assistant(<<>>, billed) \in Message
      BY <2>1, MessageTypes, Zenon
    <3> QED
      BY <3>1 DEF TypeOK
  <2>3. AutoCompacted(full, Recorded(billed)) \in Seq(Message)
    BY <2>2, CompactType DEF AutoCompacted
  <2> QED
    BY <1>8, <2>3, EndTurnType DEF TurnCompletes, Outcomes, Fatal
<1>9. CASE AnswerPushFails
  BY <1>9, PushFailsType DEF AnswerPushFails
<1>10. CASE StartTool
  BY <1>10 DEF StartTool, TypeOK, Locations, Checkpoints, ToolPhases,
     HookResults, HookVetoes, Overrides
<1>11. ASSUME NEW result \in HookResults, PreHookReturns(result)
       PROVE  TypeOK' /\ QueueInv'
  BY <1>11 DEF PreHookReturns, TypeOK, Locations, Checkpoints, ToolPhases
<1>12. ASSUME NEW given \in PromptAnswers, Allow(given)
       PROVE  TypeOK' /\ QueueInv'
  BY <1>12, PolicyAssumption DEF Allow, TypeOK, Locations, Checkpoints, ToolPhases
<1>13. ASSUME NEW given \in PromptAnswers, Deny(given)
       PROVE  TypeOK' /\ QueueInv'
  BY <1>13, RecordResultType, PushFailsType DEF Deny, ToolPhases
<1>14. CASE Execute
  <2>1. Head(pending) \in Use
    BY <1>14 DEF Execute, ToolPhases, TypeOK
  <2>2. started' \in Seq(Use) /\ fetches' \in Nat
    BY <1>14, <2>1 DEF Execute, TypeOK
  <2>3. pc' \in Locations /\ pc \in ToolPhases /\ pc' \in ToolPhases
    BY <1>14 DEF Execute, Locations, Checkpoints, ToolPhases
  <2> QED
    BY <1>14, <2>2, <2>3 DEF Execute, TypeOK
<1>15. CASE ToolReturns
  BY <1>15 DEF ToolReturns, TypeOK, Locations, Checkpoints, ToolPhases
<1>16. CASE PostHookReturns
  BY <1>16, RecordResultType, PushFailsType DEF PostHookReturns, ToolPhases
<1>17. CASE BeginTurn
  <2>1. session' \in Seq(Message)
    BY <1>17, MessageTypes DEF BeginTurn, TypeOK
  <2>2. tokens' \in Nat
    BY <1>17, UsageIsNat DEF BeginTurn, TypeOK
  <2> QED
    BY <1>17, <2>1, <2>2 DEF BeginTurn, TypeOK, Locations, Checkpoints, ToolPhases
<1>18. CASE InputPushFails
  BY <1>18 DEF InputPushFails, turnVars, TypeOK, Outcomes, Fatal
<1>19. CASE CompactCommand
  BY <1>19, CompactType DEF CompactCommand, TypeOK
<1>20. CASE InterruptHooks
  BY <1>20 DEF InterruptHooks, turnVars, TypeOK
<1>21. CASE InterruptTurn
  BY <1>21 DEF InterruptTurn, turnVars, TypeOK
<1>22. CASE UNCHANGED vars
  BY <1>22 DEF vars, turnVars, TypeOK
<1>23. CASE ForceExit
  BY <1>23, EndTurnType DEF ForceExit, Outcomes, Fatal, TypeOK
<1> QED
  BY <1>1, <1>2, <1>3, <1>4, <1>5, <1>6, <1>7, <1>8, <1>9, <1>10, <1>11, <1>12,
     <1>13, <1>14, <1>15, <1>16, <1>17, <1>18, <1>19, <1>20, <1>21, <1>22,
     <1>23
     DEF Next, TurnStep


-----------------------------------------------------------------------------
(* The transcript.                                                         *)

LEMMA UsesType ==
  ASSUME NEW s \in Seq(Message), NEW i \in DOMAIN s
  PROVE  s[i] \in Message /\ s[i].uses \in Seq(Use)
<1>1. s[i] \in Message
  OBVIOUS
<1> QED
  BY <1>1 DEF Message

\* A message that asks for no tool leaves an answered transcript answered.
LEMMA AppendPlain ==
  ASSUME NEW s \in Seq(Message), NEW m \in Message, m.uses = <<>>, Answered(s)
  PROVE  Answered(Append(s, m))
<1> DEFINE t == Append(s, m)
<1>1. Len(t) = Len(s) + 1 /\ t \in Seq(Message)
  OBVIOUS
<1>2. \A i \in DOMAIN s : t[i] = s[i]
  OBVIOUS
<1>3. ASSUME NEW i \in DOMAIN t, NEW j \in DOMAIN t[i].uses
      PROVE  i + j <= Len(t) /\ AnswerTo(t[i+j], t[i].uses[j])
  <2>1. t[Len(s)+1] = m
    OBVIOUS
  <2>2. i \in DOMAIN s
    BY <1>3, <2>1
  <2>3. s[i].uses \in Seq(Use)
    BY <2>2, UsesType
  <2>4. j \in DOMAIN s[i].uses /\ j \in Nat /\ j > 0
    BY <2>2, <2>3, <1>2
  <2>5. i + j <= Len(s) /\ AnswerTo(s[i+j], s[i].uses[j])
    BY <2>2, <2>4 DEF Answered, AnsweredOrQueued
  <2>6. i + j \in DOMAIN s
    BY <2>2, <2>4, <2>5
  <2> QED
    BY <1>1, <1>2, <2>2, <2>5, <2>6
<1> HIDE DEF t
<1>4. Answered(t)
  BY <1>3 DEF Answered, AnsweredOrQueued
<1> QED
  BY <1>4 DEF t

\* The message that asks for tools queues them.
LEMMA AppendUses ==
  ASSUME NEW s \in Seq(Message), NEW m \in Message, Answered(s)
  PROVE  AnsweredOrQueued(Append(s, m), m.uses)
<1> DEFINE t == Append(s, m)
<1>1. Len(t) = Len(s) + 1
  OBVIOUS
<1>2. \A i \in DOMAIN s : t[i] = s[i]
  OBVIOUS
<1>3. t[Len(s)+1] = m /\ m.uses \in Seq(Use)
  BY DEF Message
<1>t. DOMAIN t = 1..Len(t) /\ Len(s) \in Nat /\ DOMAIN s = 1..Len(s)
  OBVIOUS
<1> HIDE DEF t
<1>4. ASSUME NEW i \in DOMAIN t, NEW j \in DOMAIN t[i].uses
      PROVE  IF i + j <= Len(t)
             THEN AnswerTo(t[i+j], t[i].uses[j])
             ELSE /\ i + j - Len(t) \in DOMAIN m.uses
                  /\ m.uses[i + j - Len(t)] = t[i].uses[j]
  <2>1. CASE i = Len(s) + 1
    <3>1. j \in DOMAIN m.uses /\ j \in Nat /\ j > 0
      BY <2>1, <1>3
    <3> QED
      BY <2>1, <3>1, <1>1, <1>3
  <2>2. CASE i \in DOMAIN s
    <3>1. s[i].uses \in Seq(Use)
      BY <2>2, UsesType
    <3>2. j \in DOMAIN s[i].uses /\ j \in Nat /\ j > 0
      BY <2>2, <3>1, <1>2
    <3>3. i + j <= Len(s) /\ AnswerTo(s[i+j], s[i].uses[j])
      BY <2>2, <3>2 DEF Answered, AnsweredOrQueued
    <3>4. i + j \in DOMAIN s
      BY <2>2, <3>2, <3>3
    <3> QED
      BY <1>1, <1>2, <2>2, <3>3, <3>4
  <2> QED
    BY <2>1, <2>2, <1>1, <1>t
<1>5. AnsweredOrQueued(t, m.uses)
  BY <1>4 DEF AnsweredOrQueued
<1> QED
  BY <1>5 DEF t

\* Recording the answer to the head of the queue takes it off the queue.
LEMMA AppendAnswer ==
  ASSUME NEW s \in Seq(Message), NEW queue \in Seq(Use), queue # <<>>,
         AnsweredOrQueued(s, queue)
  PROVE  AnsweredOrQueued(Append(s, ToolResult(Head(queue))), Tail(queue))
<1> DEFINE r == ToolResult(Head(queue))
           t == Append(s, r)
<1>1. Len(t) = Len(s) + 1
  OBVIOUS
<1>2. \A i \in DOMAIN s : t[i] = s[i]
  OBVIOUS
<1>3. t[Len(s)+1] = r
  OBVIOUS
<1>4. r.uses = <<>> /\ Head(queue) = queue[1] /\ AnswerTo(r, queue[1])
  BY DEF ToolResult, AnswerTo
<1>t. /\ DOMAIN t = 1..Len(t) /\ Len(s) \in Nat /\ DOMAIN s = 1..Len(s)
      /\ Len(queue) \in Nat /\ DOMAIN queue = 1..Len(queue)
      /\ Len(Tail(queue)) = Len(queue) - 1
      /\ DOMAIN Tail(queue) = 1..Len(queue)-1
      /\ \A k \in 1..Len(queue)-1 : Tail(queue)[k] = queue[k+1]
  OBVIOUS
<1> HIDE DEF t, r
<1>5. ASSUME NEW i \in DOMAIN t, NEW j \in DOMAIN t[i].uses
      PROVE  IF i + j <= Len(t)
             THEN AnswerTo(t[i+j], t[i].uses[j])
             ELSE /\ i + j - Len(t) \in DOMAIN Tail(queue)
                  /\ Tail(queue)[i + j - Len(t)] = t[i].uses[j]
  <2>1. i \in DOMAIN s
    BY <1>1, <1>3, <1>4, <1>5, <1>t
  <2>2. s[i].uses \in Seq(Use)
    BY <2>1, UsesType
  <2>3. j \in DOMAIN s[i].uses /\ j \in Nat /\ j > 0
    BY <2>1, <2>2, <1>2
  <2>4. IF i + j <= Len(s)
        THEN AnswerTo(s[i+j], s[i].uses[j])
        ELSE /\ i + j - Len(s) \in DOMAIN queue
             /\ queue[i + j - Len(s)] = s[i].uses[j]
    BY <2>1, <2>3 DEF AnsweredOrQueued
  <2>5. CASE i + j <= Len(s)
    <3>1. i + j \in DOMAIN s
      BY <2>1, <2>3, <2>5
    <3> QED
      BY <1>1, <1>2, <2>1, <2>4, <2>5, <3>1
  <2>6. CASE i + j = Len(s) + 1
    <3>0. ~(i + j <= Len(s)) /\ i + j - Len(s) = 1
      BY <1>t, <2>1, <2>3, <2>6
    <3>1. AnswerTo(r, s[i].uses[j])
      BY <1>4, <2>4, <3>0
    <3> QED
      BY <1>1, <1>2, <1>3, <1>t, <2>1, <2>6, <3>1
  <2>7. CASE i + j > Len(s) + 1
    <3>1. i + j - Len(t) \in DOMAIN Tail(queue)
      BY <1>1, <1>t, <2>1, <2>3, <2>4, <2>7
    <3>2. Tail(queue)[i + j - Len(t)] = queue[i + j - Len(s)]
      BY <1>1, <1>t, <2>1, <2>3, <3>1
    <3> QED
      BY <1>1, <1>2, <1>t, <2>1, <2>3, <2>4, <2>7, <3>1, <3>2
  <2> QED
    BY <2>5, <2>6, <2>7, <2>1, <2>3, <1>t
<1>6. AnsweredOrQueued(t, Tail(queue))
  BY <1>5 DEF AnsweredOrQueued
<1> QED
  BY <1>6 DEF t, r

\* Compaction cuts a prefix off: what is kept is answered as it was.
LEMMA CompactAnswered ==
  ASSUME NEW s \in Seq(Message), Answered(s)
  PROVE  Answered(Compact(s))
<1>1. CASE ~Compactable(s)
  BY <1>1 DEF Compact
<1>2. CASE Compactable(s)
  <2> DEFINE d == Len(s) - PreserveRecent
             kept == SubSeq(s, d + 1, Len(s))
             t == <<Summary>> \o kept
  <2>1. d \in Nat /\ d <= Len(s) /\ PreserveRecent \in Nat
    BY <1>2, PreserveAssumption DEF Compactable, SummaryPrefix
  <2>2. kept \in Seq(Message) /\ Len(kept) = Len(s) - d
    BY <2>1
  <2>3. \A i \in 1..Len(s)-d : kept[i] = s[i + d]
    BY <2>1
  <2> HIDE DEF kept, d
  <2>4. Len(t) = Len(s) - d + 1 /\ t[1] = Summary
    BY <2>1, <2>2
  <2>5. \A i \in 2..Len(t) : t[i] = s[i - 1 + d] /\ i - 1 + d \in DOMAIN s
    <3> SUFFICES ASSUME NEW i \in 2..Len(t) PROVE t[i] = s[i - 1 + d] /\ i - 1 + d \in DOMAIN s
      OBVIOUS
    <3>1. i - 1 \in 1..Len(s) - d /\ i \in Int
      BY <2>1, <2>4
    <3>2. t[i] = kept[i - 1]
      BY <2>2, <2>4, <3>1
    <3>3. (i - 1) + d \in 1..Len(s) /\ (i - 1) + d = i - 1 + d
      BY <2>1, <3>1
    <3> QED
      BY <2>3, <3>1, <3>2, <3>3
  <2>6. Summary.uses = <<>>
    BY DEF Summary, Plain
  <2>7. DOMAIN t = 1..Len(t) /\ Len(t) \in Nat
    BY <2>1, <2>2
  <2> HIDE DEF t
  <2>8. ASSUME NEW i \in DOMAIN t, NEW j \in DOMAIN t[i].uses
        PROVE  i + j <= Len(t) /\ AnswerTo(t[i+j], t[i].uses[j])
    <3>1. i \in 2..Len(t)
      BY <2>4, <2>6, <2>7, <2>8
    <3> DEFINE k == i - 1 + d
    <3>2. t[i] = s[k] /\ k \in DOMAIN s
      BY <2>5, <3>1
    <3>3. s[k].uses \in Seq(Use)
      BY <3>2, UsesType
    <3>4. j \in DOMAIN s[k].uses /\ j \in Nat /\ j > 0
      BY <3>2, <3>3
    <3>5. k + j <= Len(s) /\ AnswerTo(s[k+j], s[k].uses[j])
      BY <3>2, <3>4 DEF Answered, AnsweredOrQueued
    <3>6. i + j \in 2..Len(t)
      BY <2>1, <2>4, <2>7, <3>1, <3>4, <3>5
    <3>7. t[i+j] = s[k+j]
      <4>1. t[i+j] = s[(i+j) - 1 + d]
        BY <2>5, <3>6
      <4>2. (i+j) - 1 + d = k + j
        BY <2>1, <3>1, <3>4
      <4> QED
        BY <4>1, <4>2
    <3> QED
      BY <2>7, <3>1, <3>2, <3>4, <3>5, <3>6, <3>7
  <2>9. Answered(t)
    BY <2>8 DEF Answered, AnsweredOrQueued
  <2> QED
    BY <1>2, <2>9 DEF Compact, t, kept, d
<1> QED
  BY <1>1, <1>2


-----------------------------------------------------------------------------
(* The inductive invariant.                                                *)

LEMMA EndTurnInd ==
  ASSUME IndInv, NEW why \in Outcomes, NEW transcript \in Seq(Message),
         Answered(transcript), EndTurn(why, transcript)
  PROVE  TranscriptInv' /\ CallsInv' /\ OrderInv'
<1>1. base' = transcript /\ session' = transcript /\ pending' = <<>>
      /\ started' = <<>> /\ pc' = "idle"
  BY DEF EndTurn
<1>2. TranscriptInv'
  BY <1>1 DEF TranscriptInv, Answered
<1>3. CallsInv'
  BY <1>1 DEF CallsInv
<1>4. OrderInv'
  BY <1>1 DEF OrderInv, ToolsRunInOrder
<1> QED
  BY <1>2, <1>3, <1>4

\* An end of the turn that restores the transcript of the finished turns.
LEMMA AbandonInd ==
  ASSUME IndInv, NEW why \in Outcomes, EndTurn(why, base)
  PROVE  TranscriptInv' /\ CallsInv' /\ OrderInv'
BY EndTurnInd DEF IndInv, TypeOK, TranscriptInv

LEMMA PushFailsInd ==
  ASSUME IndInv, PushFails
  PROVE  TranscriptInv' /\ CallsInv' /\ OrderInv'
BY AbandonInd DEF PushFails, Outcomes, Fatal

LEMMA TailFacts ==
  ASSUME NEW queue \in Seq(Use), queue # <<>>
  PROVE  /\ Head(queue) = queue[1] /\ 1 \in DOMAIN queue
         /\ Tail(queue) \in Seq(Use)
         /\ \A k \in DOMAIN Tail(queue) : /\ Tail(queue)[k] = queue[k+1]
                                          /\ k + 1 \in DOMAIN queue
                                          /\ k \in Nat /\ 1 < k + 1
OBVIOUS

LEMMA IdsAreNat ==
  ASSUME NEW s \in Seq(Use), NEW k \in DOMAIN s
  PROVE  s[k].id \in Nat /\ k \in Nat
<1>1. s[k] \in Use
  OBVIOUS
<1> QED
  BY <1>1 DEF Use

LEMMA RecordResultInd ==
  ASSUME IndInv, pc \in ToolPhases, pc \in {"authorize", "posthook"}, RecordResult
  PROVE  TranscriptInv' /\ CallsInv' /\ OrderInv'
<1> USE DEF IndInv
<1>1. pending \in Seq(Use) /\ pending # <<>> /\ session \in Seq(Message)
      /\ started \in Seq(Use)
  BY DEF TypeOK, QueueInv
<1>2. TranscriptInv'
  BY <1>1, AppendAnswer DEF TranscriptInv, RecordResult, Answered
<1>3. CallsInv'
  BY DEF RecordResult, CallsInv
<1>4. OrderInv'
  <2>1. pending' = Tail(pending) /\ started' = started /\ nextId' = nextId
    BY DEF RecordResult
  <2>2. pc' \notin {"running", "posthook"}
    BY DEF RecordResult
  <2>3. \A k \in DOMAIN pending' : pending'[k].id < nextId'
    BY <1>1, <2>1, TailFacts DEF OrderInv
  <2>4. \A k, l \in DOMAIN pending' : k < l => pending'[k].id < pending'[l].id
    <3> SUFFICES ASSUME NEW k \in DOMAIN pending', NEW l \in DOMAIN pending', k < l
                 PROVE  pending'[k].id < pending'[l].id
      OBVIOUS
    <3>1. k + 1 \in DOMAIN pending /\ l + 1 \in DOMAIN pending /\ k + 1 < l + 1
          /\ pending'[k] = pending[k+1] /\ pending'[l] = pending[l+1]
      BY <1>1, <2>1, TailFacts
    <3> QED
      BY <3>1 DEF OrderInv
  <2>5. \A i \in DOMAIN started', k \in DOMAIN pending' :
           started'[i].id < pending'[k].id
    <3> SUFFICES ASSUME NEW i \in DOMAIN started, NEW k \in DOMAIN pending'
                 PROVE  started[i].id < pending'[k].id
      BY <2>1
    <3>1. k + 1 \in DOMAIN pending /\ 1 \in DOMAIN pending /\ 1 < k + 1
          /\ pending'[k] = pending[k+1]
      BY <1>1, <2>1, TailFacts
    <3>2. started[i].id <= pending[1].id /\ pending[1].id < pending[k+1].id
      <4>1. started[i].id \in Nat /\ pending[1].id \in Nat
        BY <1>1, <3>1, IdsAreNat
      <4> QED
        BY <3>1, <4>1 DEF OrderInv
    <3>3. started[i].id \in Nat /\ pending[1].id \in Nat /\ pending[k+1].id \in Nat
      BY <1>1, <3>1, IdsAreNat
    <3> QED
      BY <3>1, <3>2, <3>3
  <2> QED
    BY <2>1, <2>2, <2>3, <2>4, <2>5 DEF OrderInv, ToolsRunInOrder
<1> QED
  BY <1>2, <1>3, <1>4

\* The provider numbers the tool uses of an answer from nextId on.
LEMMA NewUsesOrder ==
  ASSUME TypeOK, NEW uses \in NewUses
  PROVE  /\ \A k \in DOMAIN uses : /\ uses[k].id < nextId + Len(uses)
                                   /\ nextId <= uses[k].id
         /\ \A k, l \in DOMAIN uses : k < l => uses[k].id < uses[l].id
<1>1. PICK n \in 0..MaxUses : \E names \in [1..n -> Tools] :
         uses = [k \in 1..n |-> [id |-> nextId + k - 1, tool |-> names[k]]]
  BY DEF NewUses
<1>2. PICK names \in [1..n -> Tools] :
         uses = [k \in 1..n |-> [id |-> nextId + k - 1, tool |-> names[k]]]
  BY <1>1
<1>3. n \in Nat /\ nextId \in Nat
  BY LimitsAssumption DEF TypeOK
<1>4. DOMAIN uses = 1..n /\ \A k \in 1..n : uses[k].id = nextId + k - 1
  BY <1>2
<1>5. Len(uses) = n
  <2>1. uses \in Seq(Use)
    BY NewUsesType
  <2>2. DOMAIN uses = 1..Len(uses) /\ Len(uses) \in Nat
    BY <2>1
  <2> QED
    BY <1>3, <1>4, <2>2
<1> QED
  BY <1>3, <1>4, <1>5

LEMMA IndStep ==
  ASSUME IndInv, [Next]_vars
  PROVE  TranscriptInv' /\ CallsInv' /\ OrderInv'
<1> USE DEF IndInv
<1>t. pending \in Seq(Use) /\ started \in Seq(Use) /\ session \in Seq(Message)
      /\ base \in Seq(Message)
  BY DEF TypeOK
<1>q. pc \notin ToolPhases => pending = <<>>
  BY DEF QueueInv
<1>1. CASE Cancelled
  BY <1>1, AbandonInd DEF Cancelled, Outcomes, Fatal
<1>2. CASE LoopHead
  <2>1. pending = <<>> /\ Answered(session)
    BY <1>2, <1>q DEF LoopHead, ToolPhases, TranscriptInv, Answered
  <2>2. Answered(session')
    BY <1>2, <1>t, <2>1, CompactAnswered DEF LoopHead
  <2>3. TranscriptInv'
    BY <1>2, <2>1, <2>2 DEF LoopHead, TranscriptInv, Answered
  <2>4. CallsInv'
    BY <1>2, LimitsAssumption DEF LoopHead, CallsInv, Exceeded, Reached, TypeOK,
       Limits, Unlimited
  <2>5. OrderInv'
    BY <1>2, <2>1 DEF LoopHead, OrderInv, ToolsRunInOrder
  <2> QED
    BY <2>3, <2>4, <2>5
<1>3. CASE TooManyIterations
  BY <1>3, AbandonInd DEF TooManyIterations, Outcomes, Fatal
<1>4. CASE BudgetStop
  BY <1>4, AbandonInd DEF BudgetStop, Outcomes, Fatal
<1>5. CASE SendRequest
  BY <1>5 DEF SendRequest, TranscriptInv, CallsInv, OrderInv, ToolsRunInOrder
<1>6. CASE StreamFails
  BY <1>6, AbandonInd DEF StreamFails, Outcomes, Fatal
<1>7. ASSUME NEW uses \in NewUses, NEW billed \in BOOLEAN,
             StreamReturns(uses, billed)
      PROVE  TranscriptInv' /\ CallsInv' /\ OrderInv'
  <2>1. pending = <<>> /\ Answered(session)
    BY <1>7, <1>q DEF StreamReturns, ToolPhases, TranscriptInv, Answered
  <2>2. uses \in Seq(Use)
    BY NewUsesType
  <2>3. Assistant(uses, billed) \in Message /\ Assistant(uses, billed).uses = uses
    BY <2>2, MessageTypes DEF Assistant
  <2>4. TranscriptInv'
    BY <1>7, <1>t, <2>1, <2>3, AppendUses DEF StreamReturns, TranscriptInv, Answered
  <2>5. CallsInv'
    BY <1>7 DEF StreamReturns, CallsInv
  <2>6. OrderInv'
    <3>1. started' = started /\ pending' = uses /\ nextId' = nextId + Len(uses)
          /\ pc' = "tool"
      BY <1>7 DEF StreamReturns
    <3>2. Len(uses) \in Nat /\ nextId \in Nat
      BY <2>2 DEF TypeOK
    <3>3. \A i \in DOMAIN started : started[i].id < nextId /\ started[i].id \in Nat
      BY <1>t, IdsAreNat DEF OrderInv
    <3>4. \A k \in DOMAIN uses : uses[k].id \in Nat
      BY <2>2, IdsAreNat
    <3>5. \A i \in DOMAIN started : started[i].id < nextId'
      BY <3>1, <3>2, <3>3
    <3>6. \A i \in DOMAIN started, k \in DOMAIN uses : started[i].id < uses[k].id
      BY <3>2, <3>3, <3>4, NewUsesOrder
    <3> QED
      BY <3>1, <3>5, <3>6, NewUsesOrder DEF OrderInv, ToolsRunInOrder
  <2> QED
    BY <2>4, <2>5, <2>6
<1>8. ASSUME NEW billed \in BOOLEAN, TurnCompletes(billed)
      PROVE  TranscriptInv' /\ CallsInv' /\ OrderInv'
  <2> DEFINE m == Assistant(<<>>, billed)
             full == Append(session, m)
  <2>1. pending = <<>> /\ Answered(session)
    BY <1>8, <1>q DEF TurnCompletes, ToolPhases, TranscriptInv, Answered
  <2>2. m \in Message /\ m.uses = <<>>
    <3>1. <<>> \in Seq(Use)
      OBVIOUS
    <3>2. m \in Message
      BY <3>1, MessageTypes, Zenon
    <3> QED
      BY <3>2 DEF Assistant
  <2> HIDE DEF m
  <2>3. full \in Seq(Message) /\ Answered(full)
    BY <1>t, <2>1, <2>2, AppendPlain
  <2> HIDE DEF full
  <2>4. AutoCompacted(full, Recorded(billed)) \in Seq(Message)
        /\ Answered(AutoCompacted(full, Recorded(billed)))
    BY <2>3, CompactType, CompactAnswered DEF AutoCompacted
  <2>5. EndTurn("completed", AutoCompacted(full, Recorded(billed)))
    BY <1>8 DEF TurnCompletes, full, m
  <2> QED
    BY <2>4, <2>5, EndTurnInd DEF Outcomes, Fatal
<1>9. CASE AnswerPushFails
  BY <1>9, PushFailsInd DEF AnswerPushFails
<1>10. CASE StartTool
  BY <1>10 DEF StartTool, TranscriptInv, CallsInv, OrderInv, ToolsRunInOrder
<1>11. ASSUME NEW result \in HookResults, PreHookReturns(result)
       PROVE  TranscriptInv' /\ CallsInv' /\ OrderInv'
  BY <1>11 DEF PreHookReturns, TranscriptInv, CallsInv, OrderInv, ToolsRunInOrder
<1>12. ASSUME NEW given \in PromptAnswers, Allow(given)
       PROVE  TranscriptInv' /\ CallsInv' /\ OrderInv'
  BY <1>12 DEF Allow, TranscriptInv, CallsInv, OrderInv, ToolsRunInOrder
<1>13. ASSUME NEW given \in PromptAnswers, Deny(given)
       PROVE  TranscriptInv' /\ CallsInv' /\ OrderInv'
  BY <1>13, RecordResultInd, PushFailsInd DEF Deny, ToolPhases
<1>14. CASE Execute
  <2>1. TranscriptInv' /\ CallsInv'
    BY <1>14 DEF Execute, TranscriptInv, CallsInv
  <2>2. pending # <<>> /\ pc = "execute"
    BY <1>14 DEF Execute, ToolPhases, QueueInv
  <2> DEFINE h == pending[1]
  <2>3. started' = Append(started, h) /\ pending' = pending /\ nextId' = nextId
        /\ pc' = "running" /\ 1 \in DOMAIN pending /\ h \in Use /\ h.id \in Nat
    BY <1>14, <1>t, <2>2, TailFacts, IdsAreNat DEF Execute
  <2>4. \A i \in DOMAIN started : started[i].id < h.id /\ started[i].id \in Nat
    BY <1>t, <2>2, <2>3, IdsAreNat DEF OrderInv
  <2>5. \A k \in DOMAIN pending : h.id <= pending[k].id /\ pending[k].id < nextId
    <3> SUFFICES ASSUME NEW k \in DOMAIN pending
                 PROVE  h.id <= pending[k].id /\ pending[k].id < nextId
      OBVIOUS
    <3>1. k \in Nat /\ k >= 1 /\ pending[k].id \in Nat
      BY <1>t, IdsAreNat
    <3>2. k = 1 \/ 1 < k
      BY <3>1
    <3> QED
      BY <2>3, <3>1, <3>2 DEF OrderInv
  <2>6. \A i \in DOMAIN started' :
           \/ i \in DOMAIN started /\ started'[i] = started[i]
           \/ i = Len(started) + 1 /\ started'[i] = h
    BY <1>t, <2>3
  <2>7. \A k \in DOMAIN pending : pending[k].id \in Nat
    BY <1>t, IdsAreNat
  <2>8. \A i \in DOMAIN started', k \in DOMAIN pending' :
           started'[i].id <= pending'[k].id
    BY <2>3, <2>4, <2>5, <2>6, <2>7
  <2>9. \A i \in DOMAIN started' : started'[i].id < nextId'
    BY <2>3, <2>5, <2>6 DEF OrderInv
  <2>10. ToolsRunInOrder'
    <3> SUFFICES ASSUME NEW i \in DOMAIN started', NEW j \in DOMAIN started', i < j
                 PROVE  started'[i].id < started'[j].id
      BY DEF ToolsRunInOrder
    <3>1. CASE j \in DOMAIN started /\ started'[j] = started[j]
      <4>1. i \in DOMAIN started /\ started'[i] = started[i]
        BY <1>t, <2>6, <3>1
      <4> QED
        BY <3>1, <4>1 DEF OrderInv, ToolsRunInOrder
    <3>2. CASE j = Len(started) + 1 /\ started'[j] = h
      <4>1. i \in DOMAIN started /\ started'[i] = started[i]
        BY <1>t, <2>6, <3>2
      <4> QED
        BY <2>4, <3>2, <4>1
    <3> QED
      BY <2>6, <3>1, <3>2
  <2>11. OrderInv'
    BY <2>3, <2>8, <2>9, <2>10 DEF OrderInv
  <2> QED
    BY <2>1, <2>11
<1>15. CASE ToolReturns
  BY <1>15 DEF ToolReturns, TranscriptInv, CallsInv, OrderInv, ToolsRunInOrder
<1>16. CASE PostHookReturns
  BY <1>16, RecordResultInd, PushFailsInd DEF PostHookReturns, ToolPhases
<1>17. CASE BeginTurn
  <2>1. pending = <<>> /\ Answered(base)
    BY <1>17, <1>q DEF BeginTurn, ToolPhases, TranscriptInv
  <2>2. Answered(session')
    BY <1>17, <1>t, <2>1, MessageTypes, AppendPlain DEF BeginTurn, UserInput, Plain
  <2>3. TranscriptInv'
    BY <1>17, <2>1, <2>2 DEF BeginTurn, TranscriptInv, Answered
  <2>4. CallsInv' /\ OrderInv'
    BY <1>17 DEF BeginTurn, CallsInv, OrderInv, ToolsRunInOrder
  <2> QED
    BY <2>3, <2>4
<1>18. CASE InputPushFails
  BY <1>18 DEF InputPushFails, turnVars, TranscriptInv, CallsInv, OrderInv,
     ToolsRunInOrder
<1>19. CASE CompactCommand
  <2>1. pending = <<>> /\ Answered(base)
    BY <1>19, <1>q DEF CompactCommand, ToolPhases, TranscriptInv
  <2>2. Answered(Compact(base))
    BY <1>t, <2>1, CompactAnswered
  <2>3. TranscriptInv'
    BY <1>19, <2>1, <2>2 DEF CompactCommand, TranscriptInv, Answered
  <2>4. CallsInv' /\ OrderInv'
    BY <1>19 DEF CompactCommand, CallsInv, OrderInv, ToolsRunInOrder
  <2> QED
    BY <2>3, <2>4
<1>20. CASE InterruptHooks
  BY <1>20 DEF InterruptHooks, turnVars, TranscriptInv, CallsInv, OrderInv,
     ToolsRunInOrder
<1>21. CASE InterruptTurn
  BY <1>21 DEF InterruptTurn, turnVars, TranscriptInv, CallsInv, OrderInv,
     ToolsRunInOrder
<1>22. CASE UNCHANGED vars
  BY <1>22 DEF vars, turnVars, TranscriptInv, CallsInv, OrderInv, ToolsRunInOrder
<1>23. CASE ForceExit
  BY <1>23, AbandonInd DEF ForceExit, Outcomes, Fatal
<1> QED
  BY <1>1, <1>2, <1>3, <1>4, <1>5, <1>6, <1>7, <1>8, <1>9, <1>10, <1>11, <1>12,
     <1>13, <1>14, <1>15, <1>16, <1>17, <1>18, <1>19, <1>20, <1>21, <1>22,
     <1>23
     DEF Next, TurnStep

LEMMA IndInit == Init => IndInv
<1> SUFFICES ASSUME Init PROVE IndInv
  OBVIOUS
<1>1. TypeOK
  <2>1. base \in Seq(Message) /\ session \in Seq(Message) /\ pending \in Seq(Use)
        /\ started \in Seq(Use)
    BY DEF Init
  <2>2. pc \in Locations /\ outcome \in Outcomes
    BY DEF Init, Locations, Outcomes, Fatal
  <2>3. hook \in HookResults /\ answer \in Answers
    BY DEF Init, HookResults, Overrides, Answers
  <2>4. iteration \in Nat /\ tokens \in Nat /\ turns \in Nat /\ fetches \in Nat
        /\ nextId \in Nat \ {0}
    BY DEF Init
  <2>5. hookAbort \in BOOLEAN /\ turnAbort \in BOOLEAN
    BY DEF Init
  <2> QED
    BY <2>1, <2>2, <2>3, <2>4, <2>5 DEF TypeOK
<1>2. QueueInv
  BY DEF Init, QueueInv, ToolPhases
<1>3. TranscriptInv /\ CallsInv
  BY DEF Init, TranscriptInv, CallsInv, Answered, AnsweredOrQueued
<1>4. OrderInv
  BY DEF Init, OrderInv, ToolsRunInOrder
<1> QED
  BY <1>1, <1>2, <1>3, <1>4 DEF IndInv

LEMMA Inductive == Spec => []IndInv
<1>1. IndInv /\ [Next]_vars => IndInv'
  BY TypeStep, IndStep DEF IndInv
<1> QED
  BY IndInit, <1>1, PTL DEF Spec

-----------------------------------------------------------------------------
(* What ran is on record.                                                  *)

\* A longer transcript holds the answers the shorter one held.
LEMMA AnswersStay ==
  ASSUME NEW s \in Seq(Message), NEW m \in Message, NEW use,
         \E k \in DOMAIN s : AnswerTo(s[k], use)
  PROVE  \E k \in DOMAIN Append(s, m) : AnswerTo(Append(s, m)[k], use)
<1>1. PICK k \in DOMAIN s : AnswerTo(s[k], use)
  OBVIOUS
<1>2. k \in DOMAIN Append(s, m) /\ Append(s, m)[k] = s[k]
  OBVIOUS
<1> QED
  BY <1>1, <1>2

LEMMA EndTurnResult ==
  ASSUME NEW why, NEW transcript, EndTurn(why, transcript)
  PROVE  ResultInv'
BY DEF EndTurn, ResultInv

LEMMA RecordResultResult ==
  ASSUME IndInv, ResultInv, pc \in {"authorize", "posthook"}, RecordResult
  PROVE  ResultInv'
<1>1. pending \in Seq(Use) /\ pending # <<>> /\ session \in Seq(Message)
      /\ iteration # 0 /\ started' = started /\ iteration' = iteration
  BY DEF IndInv, TypeOK, QueueInv, ToolPhases, ResultInv, RecordResult
<1> DEFINE r == ToolResult(Head(pending))
<1>2. Head(pending) \in Use
  BY <1>1
<1>3. r \in Message /\ AnswerTo(r, Head(pending))
  BY <1>2, MessageTypes DEF ToolResult, AnswerTo
<1> HIDE DEF r
<1>4. session' = Append(session, r)
  BY DEF RecordResult, r
<1>5. Len(session) + 1 \in DOMAIN session' /\ session'[Len(session) + 1] = r
  BY <1>1, <1>3, <1>4
<1>6. ASSUME NEW i \in DOMAIN started
      PROVE  \E k \in DOMAIN session' : AnswerTo(session'[k], started[i])
  <2>1. CASE started[i] = Head(pending)
    BY <1>3, <1>5, <2>1
  <2>2. CASE \E k \in DOMAIN session : AnswerTo(session[k], started[i])
    BY <1>1, <1>3, <1>4, <2>2, AnswersStay
  <2> QED
    BY <2>1, <2>2 DEF ResultInv
<1>7. pc' # "idle"
  BY DEF RecordResult
<1> QED
  BY <1>1, <1>6, <1>7 DEF ResultInv

LEMMA ResultStep ==
  ASSUME IndInv, ResultInv, [Next]_vars
  PROVE  ResultInv'
<1>t. pending \in Seq(Use) /\ started \in Seq(Use) /\ session \in Seq(Message)
      /\ base \in Seq(Message) /\ iteration \in Nat
  BY DEF IndInv, TypeOK
<1>1. CASE Cancelled \/ TooManyIterations \/ BudgetStop \/ StreamFails
            \/ AnswerPushFails \/ ForceExit
  BY <1>1, EndTurnResult DEF Cancelled, TooManyIterations, BudgetStop, StreamFails,
     AnswerPushFails, ForceExit, PushFails
<1>2. CASE LoopHead
  <2>1. iteration' = iteration + 1 /\ started' = started /\ pc = "head"
        /\ pc' = "request" /\ (session' = session \/ iteration = 0)
    BY <1>2 DEF LoopHead
  <2>2. iteration = 0 => started = <<>>
    BY DEF ResultInv
  <2>3. \A i \in DOMAIN started' :
           \E k \in DOMAIN session' : AnswerTo(session'[k], started'[i])
    BY <2>1, <2>2 DEF ResultInv
  <2> QED
    BY <1>t, <2>1, <2>3 DEF ResultInv
<1>3. ASSUME NEW uses \in NewUses, NEW billed \in BOOLEAN,
             StreamReturns(uses, billed)
      PROVE  ResultInv'
  <2> DEFINE m == Assistant(uses, billed)
  <2>1. m \in Message
    BY NewUsesType, MessageTypes DEF IndInv
  <2> HIDE DEF m
  <2>2. session' = Append(session, m) /\ pc = "streaming" /\ pc' = "tool"
        /\ started' = started /\ iteration' = iteration
    BY <1>3 DEF StreamReturns, m
  <2>3. \A i \in DOMAIN started :
           \E k \in DOMAIN session' : AnswerTo(session'[k], started[i])
    BY <1>t, <2>1, <2>2, AnswersStay DEF ResultInv
  <2> QED
    BY <2>2, <2>3 DEF ResultInv
<1>4. CASE \E billed \in BOOLEAN : TurnCompletes(billed)
  BY <1>4, EndTurnResult DEF TurnCompletes
<1>5. CASE SendRequest \/ StartTool \/ ToolReturns
  BY <1>5 DEF SendRequest, StartTool, ToolReturns, ResultInv
<1>6. CASE \E result \in HookResults : PreHookReturns(result)
  BY <1>6 DEF PreHookReturns, ResultInv
<1>7. CASE \E given \in PromptAnswers : Allow(given)
  BY <1>7 DEF Allow, ResultInv
<1>8. CASE (\E given \in PromptAnswers : Deny(given)) \/ PostHookReturns
  BY <1>8, RecordResultResult, EndTurnResult DEF Deny, PostHookReturns, PushFails
<1>9. CASE Execute
  <2>1. started' = Append(started, Head(pending)) /\ pc = "execute"
        /\ pc' = "running" /\ pending' = pending /\ session' = session
        /\ iteration' = iteration
    BY <1>9 DEF Execute
  <2>2. Head(pending) \in Use
    BY <1>t, <2>1 DEF IndInv, QueueInv, ToolPhases
  <2>3. \A i \in DOMAIN started' : \/ started'[i] = Head(pending')
                                   \/ /\ i \in DOMAIN started
                                      /\ started'[i] = started[i]
    BY <1>t, <2>1, <2>2
  <2>4. \A i \in DOMAIN started :
           \E k \in DOMAIN session : AnswerTo(session[k], started[i])
    BY <2>1 DEF ResultInv
  <2>5. \A i \in DOMAIN started' :
           \/ started'[i] = Head(pending')
           \/ \E k \in DOMAIN session' : AnswerTo(session'[k], started'[i])
    BY <2>1, <2>3, <2>4
  <2> QED
    BY <2>1, <2>5 DEF ResultInv
<1>10. CASE BeginTurn
  <2>1. started' = <<>> /\ pc' = "head" /\ iteration' = iteration
    BY <1>10 DEF BeginTurn, ResultInv
  <2> QED
    BY <2>1 DEF ResultInv
<1>11. CASE InputPushFails
  BY <1>11 DEF InputPushFails, turnVars, ResultInv
<1>12. CASE CompactCommand
  <2>1. started' = <<>> /\ pc' = "idle" /\ iteration' = 0
    BY <1>12 DEF CompactCommand, ResultInv
  <2> QED
    BY <2>1 DEF ResultInv
<1>13. CASE InterruptHooks \/ InterruptTurn \/ UNCHANGED vars
  BY <1>13 DEF InterruptHooks, InterruptTurn, vars, turnVars, ResultInv
<1> QED
  BY <1>1, <1>2, <1>3, <1>4, <1>5, <1>6, <1>7, <1>8, <1>9, <1>10, <1>11, <1>12,
     <1>13
     DEF Next, TurnStep

LEMMA ResultsHold == Spec => []ResultInv
<1>1. Init => ResultInv
  BY DEF Init, ResultInv
<1>2. IndInv /\ ResultInv /\ [Next]_vars => ResultInv'
  BY ResultStep
<1> QED
  BY Inductive, <1>1, <1>2, PTL DEF Spec

-----------------------------------------------------------------------------
(* Fetches.                                                                *)

LEMMA FetchCount ==
  ASSUME NEW s \in Seq(Use)
  PROVE  LET D == {i \in DOMAIN s : s[i].tool \in FetchTools}
         IN  IsFiniteSet(D) /\ Cardinality(D) \in Nat
<1> DEFINE D == {i \in DOMAIN s : s[i].tool \in FetchTools}
<1>1. D \subseteq 1..Len(s) /\ IsFiniteSet(1..Len(s))
  BY FS_Interval
<1>2. IsFiniteSet(D)
  BY <1>1, FS_Subset
<1> QED
  BY <1>2, FS_CardinalityType

\* One more tool is one more fetch at most.
LEMMA FetchAppend ==
  ASSUME NEW s \in Seq(Use), NEW use \in Use
  PROVE  Cardinality({i \in DOMAIN Append(s, use) :
                        Append(s, use)[i].tool \in FetchTools})
           <= Cardinality({i \in DOMAIN s : s[i].tool \in FetchTools}) + 1
<1> DEFINE D == {i \in DOMAIN s : s[i].tool \in FetchTools}
           E == {i \in DOMAIN Append(s, use) : Append(s, use)[i].tool \in FetchTools}
           n == Len(s) + 1
<1>1. IsFiniteSet(D) /\ Cardinality(D) \in Nat /\ n \notin D
  BY FetchCount
<1>2. E \subseteq D \cup {n}
  OBVIOUS
<1> HIDE DEF D, E, n
<1>3. IsFiniteSet(D \cup {n}) /\ Cardinality(D \cup {n}) = Cardinality(D) + 1
  BY <1>1, FS_AddElement
<1>4. Cardinality(E) <= Cardinality(D \cup {n})
  BY <1>2, <1>3, FS_Subset
<1>5. Cardinality(E) <= Cardinality(D) + 1
  BY <1>3, <1>4
<1> QED
  BY <1>5 DEF D, E

\* When every tool of the turn has its answer on record, fetches_so_far counts
\* each fetch of the turn: the answers are as many as the uses, since ids differ.
LEMMA FetchesOnRecord ==
  ASSUME IndInv,
         \A i \in DOMAIN started :
            \E k \in DOMAIN session : AnswerTo(session[k], started[i])
  PROVE  FetchesStarted <= FetchesSoFar(session) /\ FetchesSoFar(session) \in Nat
<1> DEFINE D == {i \in DOMAIN started : started[i].tool \in FetchTools}
           R == {k \in DOMAIN session : /\ session[k].role = "tool"
                                        /\ session[k].tool \in FetchTools}
           at(i) == CHOOSE k \in DOMAIN session : AnswerTo(session[k], started[i])
           f == [i \in D |-> at(i)]
<1>1. started \in Seq(Use) /\ session \in Seq(Message)
  BY DEF IndInv, TypeOK
<1>2. R \subseteq 1..Len(session) /\ IsFiniteSet(1..Len(session))
  BY <1>1, FS_Interval
<1>3. IsFiniteSet(R)
  BY <1>2, FS_Subset
<1>4. \A i \in DOMAIN started :
         at(i) \in DOMAIN session /\ AnswerTo(session[at(i)], started[i])
  OBVIOUS
<1> HIDE DEF at
<1>5. ASSUME NEW i \in D
      PROVE  at(i) \in R /\ session[at(i)].id = started[i].id
  BY <1>4 DEF AnswerTo
<1>6. \A i, j \in D : i # j => started[i].id # started[j].id
  <2> SUFFICES ASSUME NEW i \in D, NEW j \in D, i # j
               PROVE  started[i].id # started[j].id
    OBVIOUS
  <2>1. i \in Nat /\ j \in Nat /\ started[i].id \in Nat /\ started[j].id \in Nat
    BY <1>1, IdsAreNat
  <2>2. i < j \/ j < i
    BY <2>1
  <2>3. i < j => started[i].id < started[j].id
    BY DEF IndInv, OrderInv, ToolsRunInOrder
  <2>4. j < i => started[j].id < started[i].id
    BY DEF IndInv, OrderInv, ToolsRunInOrder
  <2> QED
    BY <2>1, <2>2, <2>3, <2>4
<1> HIDE DEF D, R
<1>7. f \in [D -> R] /\ \A i, j \in D : f[i] = f[j] => i = j
  BY <1>5, <1>6
<1>8. f \in Injection(D, R)
  BY <1>7 DEF Injection, IsInjective
<1> HIDE DEF f
<1>9. Cardinality(D) <= Cardinality(R)
  BY <1>3, <1>8, FS_Injection DEF ExistsInjection
<1>10. Cardinality(R) \in Nat
  BY <1>3, FS_CardinalityType
<1> QED
  BY <1>9, <1>10 DEF FetchesStarted, FetchesSoFar, D, R

LEMMA FetchTypes ==
  ASSUME TypeOK, QueueInv
  PROVE  /\ FetchesStarted \in Nat /\ Startable \in Nat /\ Len(pending) \in Nat
         /\ started = <<>> => FetchesStarted = 0
<1>1. FetchesStarted \in Nat
  BY FetchCount DEF FetchesStarted, TypeOK
<1>2. pending \in Seq(Use) /\ Len(pending) \in Nat
  BY DEF TypeOK
<1>3. pc \in {"running", "posthook"} => Len(pending) # 0
  BY <1>2 DEF QueueInv, ToolPhases
<1>4. started = <<>> => FetchesStarted = 0
  <2> SUFFICES ASSUME started = <<>> PROVE FetchesStarted = 0
    OBVIOUS
  <2>1. {i \in DOMAIN started : started[i].tool \in FetchTools} = {}
    OBVIOUS
  <2> QED
    BY <2>1, FS_EmptySet DEF FetchesStarted
<1> QED
  BY <1>1, <1>2, <1>3, <1>4 DEF Startable

LEMMA EndTurnFetch ==
  ASSUME NEW why, NEW transcript, EndTurn(why, transcript)
  PROVE  FetchInv'
BY DEF EndTurn, FetchInv, ToolPhases

LEMMA RecordResultFetch ==
  ASSUME IndInv, FetchInv, pc \in {"authorize", "posthook"}, RecordResult
  PROVE  FetchInv'
<1>1. FetchesStarted \in Nat /\ Startable \in Nat /\ Len(pending) \in Nat
  BY FetchTypes DEF IndInv
<1>2. pending \in Seq(Use) /\ pending # <<>> /\ pc \in ToolPhases
  BY DEF IndInv, TypeOK, QueueInv, ToolPhases
<1>3. Len(pending') = Len(pending) - 1 /\ started' = started
      /\ pc' \in {"head", "tool"}
  BY <1>2 DEF RecordResult
<1>4. FetchesStarted' = FetchesStarted
  BY <1>3 DEF FetchesStarted
<1>5. Startable' \in Int /\ Startable' <= Startable
  BY <1>1, <1>2, <1>3 DEF Startable
<1>6. SUFFICES ASSUME MaxFetches # Unlimited
               PROVE  FetchesStarted + Startable' <= MaxFetches - 1 + MaxUses
  BY <1>3, <1>4 DEF FetchInv
<1>7. FetchesStarted + Startable <= MaxFetches - 1 + MaxUses
  BY <1>2, <1>6 DEF FetchInv
<1>8. MaxFetches \in Nat /\ MaxUses \in Nat
  BY <1>6, LimitsAssumption DEF Limits
<1>9. \A n, a, b, limit \in Int : b <= a /\ n + a <= limit => n + b <= limit
  OBVIOUS
<1>10. FetchesStarted \in Int /\ Startable \in Int /\ MaxFetches - 1 + MaxUses \in Int
  BY <1>1, <1>8
<1> QED
  BY <1>5, <1>7, <1>9, <1>10, Zenon

\* Phases that neither start a tool nor take one off the queue.
LEMMA SameFetches ==
  ASSUME IndInv, FetchInv, UNCHANGED <<started, pending>>,
         pc \in ToolPhases => Startable' = Startable,
         pc' \in ToolPhases => pc \in ToolPhases,
         pc' \in {"request", "streaming"} => pc \in {"request", "streaming"},
         pc \in ToolPhases <=> pc' \in ToolPhases
  PROVE  FetchInv'
<1>1. FetchesStarted' = FetchesStarted
  BY DEF FetchesStarted
<1>2. pc \notin ToolPhases => Startable' = Startable
  BY DEF Startable, ToolPhases
<1> QED
  BY <1>1, <1>2 DEF FetchInv

LEMMA FetchStep ==
  ASSUME IndInv, IndInv', ResultInv, FetchInv, [Next]_vars
  PROVE  FetchInv'
<1>t. pending \in Seq(Use) /\ started \in Seq(Use) /\ session \in Seq(Message)
  BY DEF IndInv, TypeOK
<1>n. FetchesStarted \in Nat /\ Startable \in Nat /\ Len(pending) \in Nat
      /\ (started = <<>> => FetchesStarted = 0)
  BY FetchTypes DEF IndInv
<1>q. pc \notin ToolPhases => pending = <<>>
  BY DEF IndInv, QueueInv
<1>m. MaxFetches # Unlimited => MaxFetches \in Nat /\ MaxUses \in Nat
  BY LimitsAssumption DEF Limits
<1>1. CASE Cancelled \/ TooManyIterations \/ BudgetStop \/ StreamFails
            \/ AnswerPushFails \/ ForceExit
  BY <1>1, EndTurnFetch DEF Cancelled, TooManyIterations, BudgetStop, StreamFails,
     AnswerPushFails, ForceExit, PushFails
<1>2. CASE LoopHead
  <2>1. pc = "head" /\ pc' = "request" /\ UNCHANGED <<started, pending>>
        /\ (MaxFetches # Unlimited => ~(FetchesSoFar(session) >= MaxFetches))
    BY <1>2 DEF LoopHead, Exceeded, Reached
  <2>2. \A i \in DOMAIN started :
           \E k \in DOMAIN session : AnswerTo(session[k], started[i])
    BY <2>1 DEF ResultInv
  <2>3. FetchesStarted <= FetchesSoFar(session) /\ FetchesSoFar(session) \in Nat
    BY <2>2, FetchesOnRecord
  <2>4. FetchesStarted' = FetchesStarted /\ Startable' = 0 /\ pc' \notin ToolPhases
    BY <1>q, <2>1 DEF FetchesStarted, Startable, ToolPhases
  <2>5. MaxFetches # Unlimited => /\ FetchesStarted < MaxFetches
                                  /\ FetchesStarted + 0 <= MaxFetches - 1 + MaxUses
    BY <1>m, <1>n, <2>1, <2>3
  <2> QED
    BY <2>4, <2>5 DEF FetchInv
<1>3. ASSUME NEW uses \in NewUses, NEW billed \in BOOLEAN,
             StreamReturns(uses, billed)
      PROVE  FetchInv'
  <2>1. pc = "streaming" /\ pc' = "tool" /\ started' = started /\ pending' = uses
    BY <1>3 DEF StreamReturns
  <2>2. Len(uses) \in Nat /\ Len(uses) <= MaxUses
    <3>1. uses \in Seq(Use)
      BY NewUsesType DEF IndInv
    <3>2. PICK n \in 0..MaxUses : \E names \in [1..n -> Tools] :
            uses = [k \in 1..n |-> [id |-> nextId + k - 1, tool |-> names[k]]]
      BY DEF NewUses
    <3>3. DOMAIN uses = 1..n /\ DOMAIN uses = 1..Len(uses) /\ Len(uses) \in Nat
      BY <3>1, <3>2
    <3> QED
      BY <3>3, LimitsAssumption
  <2>3. FetchesStarted' = FetchesStarted /\ Startable' = Len(uses)
    BY <2>1, <2>2 DEF FetchesStarted, Startable
  <2>4. MaxFetches # Unlimited => FetchesStarted < MaxFetches
    BY <2>1 DEF FetchInv
  <2>5. MaxFetches # Unlimited =>
          FetchesStarted + Len(uses) <= MaxFetches - 1 + MaxUses
    BY <1>m, <1>n, <2>2, <2>4
  <2> QED
    BY <2>1, <2>3, <2>5 DEF FetchInv
<1>4. CASE \E billed \in BOOLEAN : TurnCompletes(billed)
  BY <1>4, EndTurnFetch DEF TurnCompletes
<1>5. CASE SendRequest \/ StartTool \/ ToolReturns
  <2>1. Startable' = Startable
    BY <1>5 DEF SendRequest, StartTool, ToolReturns, Startable
  <2> QED
    BY <1>5, <2>1, SameFetches DEF SendRequest, StartTool, ToolReturns, ToolPhases
<1>6. CASE (\E result \in HookResults : PreHookReturns(result))
            \/ \E given \in PromptAnswers : Allow(given)
  <2>1. Startable' = Startable
    BY <1>6 DEF PreHookReturns, Allow, Startable
  <2> QED
    BY <1>6, <2>1, SameFetches DEF PreHookReturns, Allow, ToolPhases
<1>7. CASE (\E given \in PromptAnswers : Deny(given)) \/ PostHookReturns
  BY <1>7, RecordResultFetch, EndTurnFetch DEF Deny, PostHookReturns, PushFails
<1>8. CASE Execute
  <2>1. started' = Append(started, Head(pending)) /\ pc = "execute"
        /\ pc' = "running" /\ pending' = pending
    BY <1>8 DEF Execute
  <2>2. Head(pending) \in Use
    BY <1>t, <2>1 DEF IndInv, QueueInv, ToolPhases
  <2>3. FetchesStarted' <= FetchesStarted + 1
    BY <1>t, <2>1, <2>2, FetchAppend DEF FetchesStarted
  <2>4. Startable = Len(pending) /\ Startable' = Len(pending) - 1
    BY <1>n, <2>1 DEF Startable
  <2>5. MaxFetches # Unlimited =>
          FetchesStarted + Len(pending) <= MaxFetches - 1 + MaxUses
    BY <2>1, <2>4 DEF FetchInv, ToolPhases
  <2>6. FetchesStarted' \in Nat
    <3>1. started' \in Seq(Use)
      BY DEF IndInv, TypeOK
    <3> QED
      BY <3>1, FetchCount DEF FetchesStarted
  <2>7. MaxFetches # Unlimited =>
          FetchesStarted' + (Len(pending) - 1) <= MaxFetches - 1 + MaxUses
    BY <1>m, <1>n, <2>3, <2>5, <2>6
  <2> QED
    BY <2>1, <2>4, <2>7 DEF FetchInv
<1>9. CASE BeginTurn
  <2>1. started' = <<>> /\ pc' = "head"
    BY <1>9 DEF BeginTurn, ResultInv
  <2> QED
    BY <2>1 DEF FetchInv, ToolPhases
<1>10. CASE InputPushFails \/ CompactCommand
  <2>1. started' = <<>> /\ pc' = "idle"
    BY <1>10 DEF InputPushFails, CompactCommand, turnVars, ResultInv
  <2> QED
    BY <2>1 DEF FetchInv, ToolPhases
<1>11. CASE InterruptHooks \/ InterruptTurn \/ UNCHANGED vars
  <2>1. UNCHANGED <<started, pending, pc>>
    BY <1>11 DEF InterruptHooks, InterruptTurn, vars, turnVars
  <2> QED
    BY <2>1 DEF FetchInv, FetchesStarted, Startable
<1> QED
  BY <1>1, <1>2, <1>3, <1>4, <1>5, <1>6, <1>7, <1>8, <1>9, <1>10, <1>11
     DEF Next, TurnStep

LEMMA FetchesHold == Spec => []FetchInv
<1>1. Init => FetchInv
  BY DEF Init, FetchInv, ToolPhases
<1>2. IndInv /\ IndInv' /\ ResultInv /\ FetchInv /\ [Next]_vars => FetchInv'
  BY FetchStep
<1> QED
  BY Inductive, ResultsHold, <1>1, <1>2, PTL DEF Spec

-----------------------------------------------------------------------------
(* Theorems.                                                               *)

\* Every variable keeps its type: in particular the queue of tool uses is
\* never read when empty and no recorded result lacks its tool.
THEOREM TypeCorrect == Spec => []TypeOK
<1>1. IndInv => TypeOK
  BY DEF IndInv
<1> QED
  BY Inductive, <1>1, PTL

\* run_turn and compaction together keep every tool use answered, in order,
\* in each finished transcript and each request, for any number of turns,
\* tools and answers and wherever the turn is cancelled.
THEOREM ToolUsesAreAnswered == Spec => []EveryToolUseAnswered
<1>1. IndInv => EveryToolUseAnswered
  <2> SUFFICES ASSUME IndInv PROVE EveryToolUseAnswered
    OBVIOUS
  <2>1. pc = "streaming" => pending = <<>>
    BY DEF IndInv, QueueInv, ToolPhases
  <2> QED
    BY <2>1 DEF IndInv, TranscriptInv, EveryToolUseAnswered, Answered
<1> QED
  BY Inductive, <1>1, PTL

\* The declared number of provider calls is the number a turn may make.
THEOREM CallCeilingHolds == Spec => []ProviderCallCeiling
<1>1. IndInv => ProviderCallCeiling
  BY DEF IndInv, CallsInv, ProviderCallCeiling
<1> QED
  BY Inductive, <1>1, PTL

\* Tools run in the order the model asked for them, each at most once.
THEOREM ToolOrder == Spec => []ToolsRunInOrder
<1>1. IndInv => ToolsRunInOrder
  BY DEF IndInv, OrderInv
<1> QED
  BY Inductive, <1>1, PTL

\* Every tool the turn ran has its result in each later request of the turn,
\* also when the transcript was compacted in between.
THEOREM ExecutionsAreReported == Spec => []NoSilentExecution
<1>1. ResultInv => NoSilentExecution
  BY DEF ResultInv, NoSilentExecution
<1> QED
  BY ResultsHold, <1>1, PTL

\* The ceiling on fetches is looked at before every request, so that a turn
\* overshoots it by what one answer asks for at most.
THEOREM FetchCeilingHolds == Spec => []TurnFetchCeiling
<1>1. IndInv /\ FetchInv => TurnFetchCeiling
  <2> SUFFICES ASSUME IndInv, FetchInv, MaxFetches # Unlimited, started # <<>>
               PROVE  FetchesStarted <= MaxFetches - 1 + MaxUses
    BY FetchTypes DEF FetchInv, TurnFetchCeiling, IndInv
  <2>1. FetchesStarted \in Nat /\ Startable \in Nat
    BY FetchTypes DEF IndInv
  <2>2. FetchesStarted + Startable <= MaxFetches - 1 + MaxUses
    BY DEF FetchInv
  <2>3. MaxFetches \in Nat /\ MaxUses \in Nat
    BY LimitsAssumption DEF Limits
  <2> QED
    BY <2>1, <2>2, <2>3
<1> QED
  BY Inductive, FetchesHold, <1>1, PTL

\* Only a turn that completes, or /compact, changes the finished transcript:
\* the turn that is cancelled, fails or meets a ceiling leaves nothing in it,
\* wherever in the loop that happens.
THEOREM FailedTurnsLeaveNothing == Spec => OnlyCompletedTurnsCommit
<1>1. [Next]_vars => [CommitStep]_vars
  <2> SUFFICES ASSUME [Next]_vars PROVE CommitStep
    OBVIOUS
  <2> USE DEF CommitStep
  <2>1. CASE Cancelled \/ TooManyIterations \/ BudgetStop \/ StreamFails
              \/ AnswerPushFails \/ ForceExit
    BY <2>1 DEF Cancelled, TooManyIterations, BudgetStop, StreamFails,
                AnswerPushFails, ForceExit, PushFails, EndTurn
  <2>2. CASE \E billed \in BOOLEAN : TurnCompletes(billed)
    BY <2>2 DEF TurnCompletes, EndTurn
  <2>3. CASE LoopHead \/ SendRequest \/ StartTool \/ Execute \/ ToolReturns
    BY <2>3 DEF LoopHead, SendRequest, StartTool, Execute, ToolReturns
  <2>4. CASE \E uses \in NewUses, billed \in BOOLEAN : StreamReturns(uses, billed)
    BY <2>4 DEF StreamReturns
  <2>5. CASE \E result \in HookResults : PreHookReturns(result)
    BY <2>5 DEF PreHookReturns
  <2>6. CASE \E given \in PromptAnswers : Allow(given) \/ Deny(given)
    BY <2>6 DEF Allow, Deny, RecordResult, PushFails, EndTurn
  <2>7. CASE PostHookReturns
    BY <2>7 DEF PostHookReturns, RecordResult, PushFails, EndTurn
  <2>8. CASE BeginTurn \/ InputPushFails \/ CompactCommand
    BY <2>8 DEF BeginTurn, InputPushFails, CompactCommand
  <2>9. CASE InterruptHooks \/ InterruptTurn \/ UNCHANGED vars
    BY <2>9 DEF InterruptHooks, InterruptTurn, vars
  <2> QED
    BY <2>1, <2>2, <2>3, <2>4, <2>5, <2>6, <2>7, <2>8, <2>9
       DEF Next, TurnStep
<1> QED
  BY <1>1, PTL DEF Spec, OnlyCompletedTurnsCommit

LEMMA IdleFlags == Spec => []IdleInv
<1>1. Init => IdleInv
  BY DEF Init, IdleInv
<1>2. IdleInv /\ [Next]_vars => IdleInv'
  <2> SUFFICES ASSUME IdleInv, [Next]_vars PROVE IdleInv'
    OBVIOUS
  <2> USE DEF IdleInv
  <2>1. CASE Cancelled \/ TooManyIterations \/ BudgetStop \/ StreamFails
              \/ AnswerPushFails \/ ForceExit
    BY <2>1 DEF Cancelled, TooManyIterations, BudgetStop, StreamFails,
                AnswerPushFails, ForceExit, PushFails, EndTurn
  <2>2. CASE \E billed \in BOOLEAN : TurnCompletes(billed)
    BY <2>2 DEF TurnCompletes, EndTurn
  <2>3. CASE LoopHead \/ SendRequest \/ StartTool \/ Execute \/ ToolReturns
    BY <2>3 DEF LoopHead, SendRequest, StartTool, Execute, ToolReturns
  <2>4. CASE \E uses \in NewUses, billed \in BOOLEAN : StreamReturns(uses, billed)
    BY <2>4 DEF StreamReturns
  <2>5. CASE \E result \in HookResults : PreHookReturns(result)
    BY <2>5 DEF PreHookReturns
  <2>6. CASE \E given \in PromptAnswers : Allow(given) \/ Deny(given)
    BY <2>6 DEF Allow, Deny, RecordResult, PushFails, EndTurn
  <2>7. CASE PostHookReturns
    BY <2>7 DEF PostHookReturns, RecordResult, PushFails, EndTurn
  <2>8. CASE BeginTurn \/ CompactCommand
    BY <2>8 DEF BeginTurn, CompactCommand
  <2>9. CASE InterruptHooks \/ InterruptTurn
    BY <2>9 DEF InterruptHooks, InterruptTurn, turnVars
  <2>10. CASE InputPushFails
    BY <2>10 DEF InputPushFails, turnVars
  <2>11. CASE UNCHANGED vars
    BY <2>11 DEF vars, turnVars
  <2> QED
    BY <2>1, <2>2, <2>3, <2>4, <2>5, <2>6, <2>7, <2>8, <2>9, <2>10, <2>11
       DEF Next, TurnStep
<1> QED
  BY <1>1, <1>2, PTL DEF Spec

\* Once the abort flag of a turn is up, no request is sent, no tool started
\* and nothing committed.
THEOREM AbortStops == Spec => AbortStopsTheTurn
<1>1. TypeOK /\ IdleInv /\ [Next]_vars => [StopStep]_vars
  <2> SUFFICES ASSUME TypeOK, IdleInv, [Next]_vars, turnAbort
               PROVE  /\ pc' = "streaming" => pc = "streaming"
                      /\ started' = started \/ started' = <<>>
                      /\ base' = base
    <3>1. Len(started) \in Nat /\ Len(<<>>) = 0
      BY DEF TypeOK
    <3> QED
      BY <3>1 DEF StopStep
  <2>1. CASE Cancelled \/ TooManyIterations \/ BudgetStop \/ StreamFails
              \/ AnswerPushFails \/ ForceExit
    BY <2>1 DEF Cancelled, TooManyIterations, BudgetStop, StreamFails,
                AnswerPushFails, ForceExit, PushFails, EndTurn
  <2>2. ~ \E billed \in BOOLEAN : TurnCompletes(billed)
    BY DEF TurnCompletes
  <2>3. ~(LoopHead \/ SendRequest \/ StartTool \/ Execute \/ ToolReturns)
    BY DEF LoopHead, SendRequest, StartTool, Execute, ToolReturns
  <2>4. ~ \E uses \in NewUses, billed \in BOOLEAN : StreamReturns(uses, billed)
    BY DEF StreamReturns
  <2>5. CASE \E result \in HookResults : PreHookReturns(result)
    BY <2>5 DEF PreHookReturns
  <2>6. CASE \E given \in PromptAnswers : Allow(given) \/ Deny(given)
    BY <2>6 DEF Allow, Deny, RecordResult, PushFails, EndTurn
  <2>7. CASE PostHookReturns
    BY <2>7 DEF PostHookReturns, RecordResult, PushFails, EndTurn
  <2>8. ~(BeginTurn \/ InputPushFails \/ CompactCommand)
    BY DEF BeginTurn, InputPushFails, CompactCommand, IdleInv
  <2>9. CASE InterruptHooks \/ InterruptTurn
    BY <2>9 DEF InterruptHooks, InterruptTurn, turnVars
  <2>10. CASE UNCHANGED vars
    BY <2>10 DEF vars, turnVars
  <2> QED
    BY <2>1, <2>2, <2>3, <2>4, <2>5, <2>6, <2>7, <2>8, <2>9, <2>10
       DEF Next, TurnStep
<1> QED
  BY <1>1, TypeCorrect, IdleFlags, PTL DEF Spec, AbortStopsTheTurn

\* What authorize_with_context lets through for any policy record.
LEMMA AuthorizedFacts ==
  ASSUME NEW p \in CallPolicies, NEW override, NEW given, Authorized(p, override, given)
  PROVE  ~Denied(p) /\ (p.askRule /\ p.trust = "NotBash" => given = "Allow")
BY DEF Authorized, OverrideAllows, ModeAllows, Granted

LEMMA PermitHolds == Spec => []PermitInv
<1>1. Init => PermitInv
  BY DEF Init, PermitInv
<1>2. PermitInv /\ [Next]_vars => PermitInv'
  <2> SUFFICES ASSUME PermitInv, [Next]_vars, pc' = "execute" PROVE Permitted(answer)'
    BY DEF PermitInv
  <2>1. CASE \E given \in PromptAnswers : Allow(given)
    <3> PICK given \in PromptAnswers : Allow(given)
      BY <2>1
    <3> QED
      BY DEF Allow, Permitted
  <2>2. CASE InterruptHooks \/ InterruptTurn
    BY <2>2 DEF InterruptHooks, InterruptTurn, turnVars, PermitInv, Permitted
  <2>3. CASE UNCHANGED vars
    BY <2>3 DEF vars, turnVars, PermitInv, Permitted
  <2>4. ~(Cancelled \/ TooManyIterations \/ BudgetStop \/ StreamFails
            \/ AnswerPushFails \/ ForceExit
            \/ \E billed \in BOOLEAN : TurnCompletes(billed))
    BY DEF Cancelled, TooManyIterations, BudgetStop, StreamFails,
           AnswerPushFails, ForceExit, PushFails, TurnCompletes, EndTurn
  <2>5. ~(LoopHead \/ SendRequest \/ StartTool \/ Execute \/ ToolReturns
            \/ BeginTurn)
    BY DEF LoopHead, SendRequest, StartTool, Execute, ToolReturns, BeginTurn
  <2>6. ~ \E uses \in NewUses, billed \in BOOLEAN : StreamReturns(uses, billed)
    BY DEF StreamReturns
  <2>7. ~ \E result \in HookResults : PreHookReturns(result)
    BY DEF PreHookReturns
  <2>8. ~((\E given \in PromptAnswers : Deny(given)) \/ PostHookReturns)
    BY DEF Deny, PostHookReturns, RecordResult, PushFails, EndTurn
  <2>9. ~(InputPushFails \/ CompactCommand)
    BY DEF InputPushFails, CompactCommand, turnVars
  <2> QED
    BY <2>1, <2>2, <2>3, <2>4, <2>5, <2>6, <2>7, <2>8, <2>9 DEF Next, TurnStep
<1> QED
  BY <1>1, <1>2, PTL DEF Spec

\* No tool runs that a deny rule or a hook vetoed, nor without the user's
\* grant when an ask rule matches, for every policy and every prompter.
THEOREM AuthorizedToolsOnly == Spec => OnlyAuthorizedToolsRun
<1>1. TypeOK /\ QueueInv /\ PermitInv /\ [Next]_vars => [AuthorizedStep]_vars
  <2> SUFFICES ASSUME TypeOK, QueueInv, PermitInv, [Next]_vars,
                      Len(started') > Len(started)
               PROVE  LET p == Policy[Head(pending).tool]
                      IN  /\ ~Denied(p) /\ hook \notin HookVetoes
                          /\ p.askRule /\ p.trust = "NotBash" => answer = "Allow"
    BY DEF AuthorizedStep
  <2>1. ~(started' = started \/ started' = <<>>)
    <3>1. Len(started) \in Nat /\ Len(<<>>) = 0
      BY DEF TypeOK
    <3> QED
      BY <3>1
  <2>2. CASE Execute
    <3>1. Permitted(answer)
      BY <2>2 DEF Execute, PermitInv
    <3>2. pending # <<>> /\ pending \in Seq(Use)
      BY <2>2 DEF Execute, QueueInv, ToolPhases, TypeOK
    <3>a. Head(pending) \in Use
      BY <3>2
    <3>3. Head(pending).tool \in Tools
      BY <3>a DEF Use
    <3>4. Policy[Head(pending).tool] \in CallPolicies
      BY <3>3, PolicyAssumption
    <3>5. /\ hook \notin HookVetoes
          /\ Authorized(Policy[Head(pending).tool], hook, answer)
      BY <3>1 DEF Permitted
    <3> DEFINE p == Policy[Head(pending).tool]
    <3>6. ~Denied(p) /\ (p.askRule /\ p.trust = "NotBash" => answer = "Allow")
      <4> HIDE DEF p
      <4>1. p \in CallPolicies /\ Authorized(p, hook, answer)
        BY <3>4, <3>5 DEF p
      <4> QED
        BY <4>1, AuthorizedFacts
    <3> QED
      BY <3>5, <3>6
  <2>3. ~(Cancelled \/ TooManyIterations \/ BudgetStop \/ StreamFails
            \/ AnswerPushFails \/ ForceExit
            \/ \E billed \in BOOLEAN : TurnCompletes(billed))
    BY <2>1 DEF Cancelled, TooManyIterations, BudgetStop, StreamFails,
           AnswerPushFails, ForceExit, PushFails, TurnCompletes, EndTurn
  <2>4. ~(LoopHead \/ SendRequest \/ StartTool \/ ToolReturns \/ BeginTurn)
    BY <2>1 DEF LoopHead, SendRequest, StartTool, ToolReturns, BeginTurn
  <2>5. ~ \E uses \in NewUses, billed \in BOOLEAN : StreamReturns(uses, billed)
    BY <2>1 DEF StreamReturns
  <2>6. ~ \E result \in HookResults : PreHookReturns(result)
    BY <2>1 DEF PreHookReturns
  <2>7. ~ \E given \in PromptAnswers : Allow(given) \/ Deny(given)
    BY <2>1 DEF Allow, Deny, RecordResult, PushFails, EndTurn
  <2>8. ~PostHookReturns
    BY <2>1 DEF PostHookReturns, RecordResult, PushFails, EndTurn
  <2>9. ~(InputPushFails \/ CompactCommand)
    BY <2>1 DEF InputPushFails, CompactCommand, turnVars
  <2>10. ~(InterruptHooks \/ InterruptTurn \/ UNCHANGED vars)
    BY <2>1 DEF InterruptHooks, InterruptTurn, vars, turnVars
  <2> QED
    BY <2>2, <2>3, <2>4, <2>5, <2>6, <2>7, <2>8, <2>9, <2>10 DEF Next, TurnStep
<1>2. IndInv => QueueInv
  BY DEF IndInv
<1> QED
  BY <1>1, <1>2, Inductive, TypeCorrect, PermitHolds, PTL
     DEF Spec, OnlyAuthorizedToolsRun

-----------------------------------------------------------------------------
(* What convert_messages makes of a transcript.                            *)

\* One unfolding of the pass: a set of positions is done up to its last one.
ConvertIter(from, s, f, S) ==
    [t \in SUBSET S |-> IF t = {} THEN from ELSE Convert(f[t \ {Max(t)}], s[Max(t)])]

LEMMA ConvertUnfold ==
    ASSUME NEW from, NEW s
    PROVE  FoldLeft(Convert, from, s)
             = (CHOOSE f : f = ConvertIter(from, s, f, DOMAIN s))[DOMAIN s]
BY DEF FoldLeft, MapThenFoldSet, ConvertIter

\* Whatever holds of some number holds of a least one.
LEMMA LeastNumber ==
    ASSUME NEW T, T \subseteq Nat, T # {}
    PROVE  \E m \in T : \A k \in T : m <= k
<1>1. PICK m \in T : \A k \in T : ~(<<k, m>> \in OpToRel(<, Nat))
  BY WFMin, NatLessThanWellFounded
<1>2. \A k \in T : ~(k < m)
  BY <1>1 DEF OpToRel
<1> QED
  BY <1>2

LEMMA ConvertIterExists ==
    ASSUME NEW from, NEW s, NEW n \in Nat
    PROVE  /\ \E f : f = ConvertIter(from, s, f, 1 .. n)
           /\ \A t \in SUBSET (1 .. n) : t # {} => Max(t) \in t /\ \A i \in t : Max(t) >= i
<1> DEFINE Fine(m) == /\ \E f : f = ConvertIter(from, s, f, 1 .. m)
                      /\ \A t \in SUBSET (1 .. m) : t # {} => Max(t) \in t /\ \A i \in t : Max(t) >= i
           Bad == {m \in Nat : ~Fine(m)}
<1>1. Fine(0)
  <2>1. PICK f : f = [t \in {{}} |-> from]
    OBVIOUS
  <2>2. SUBSET (1 .. 0) = {{}}
    OBVIOUS
  <2>3. ConvertIter(from, s, f, 1 .. 0) = f
    BY <2>1, <2>2 DEF ConvertIter
  <2> QED
    BY <2>2, <2>3
<1>2. ASSUME NEW m \in Nat, Fine(m) PROVE Fine(m + 1)
  <2>1. \A t \in SUBSET (1 .. m + 1) : t # {} => Max(t) \in t /\ \A i \in t : Max(t) >= i
    <3> SUFFICES ASSUME NEW t \in SUBSET (1 .. m + 1), t # {}
                 PROVE  \E x \in t : \A i \in t : x >= i
      BY DEF Max
    <3>1. CASE m + 1 \in t
      BY <3>1
    <3>2. CASE m + 1 \notin t
      <4>1. t \in SUBSET (1 .. m)
        BY <3>2
      <4> QED
        BY <1>2, <4>1
    <3> QED
      BY <3>1, <3>2
  <2>2. PICK f : f = ConvertIter(from, s, f, 1 .. m)
    BY <1>2
  <2> DEFINE g == [t \in SUBSET (1 .. m + 1) |->
                     IF m + 1 \in t THEN Convert(f[t \ {m + 1}], s[m + 1]) ELSE f[t]]
  <2>3. ASSUME NEW t \in SUBSET (1 .. m + 1)
        PROVE  g[t] = IF t = {} THEN from ELSE Convert(g[t \ {Max(t)}], s[Max(t)])
    <3>1. CASE t = {}
      BY <2>2, <3>1 DEF ConvertIter
    <3>2. CASE m + 1 \in t
      <4>1. Max(t) = m + 1
        <5>1. Max(t) \in t /\ \A i \in t : Max(t) >= i
          BY <2>1, <3>2
        <5>2. Max(t) \in 1 .. m + 1 /\ Max(t) >= m + 1
          BY <3>2, <5>1
        <5> QED
          BY <5>2
      <4>2. t \ {m + 1} \in SUBSET (1 .. m)
        OBVIOUS
      <4>3. g[t \ {m + 1}] = f[t \ {m + 1}]
        BY <4>2
      <4> QED
        BY <3>2, <4>1, <4>3
    <3>3. CASE t # {} /\ m + 1 \notin t
      <4>1. t \in SUBSET (1 .. m) /\ t \ {Max(t)} \in SUBSET (1 .. m) /\ m + 1 \notin t \ {Max(t)}
        <5>1. \A i \in t : i \in 1 .. m
          BY <3>3
        <5> QED
          BY <3>3, <5>1
      <4>2. g[t] = f[t] /\ g[t \ {Max(t)}] = f[t \ {Max(t)}]
        BY <3>3, <4>1
      <4>3. f[t] = Convert(f[t \ {Max(t)}], s[Max(t)])
        BY <2>2, <3>3, <4>1 DEF ConvertIter
      <4> QED
        BY <3>3, <4>2, <4>3
    <3> QED
      BY <3>1, <3>2, <3>3
  <2>4. g = ConvertIter(from, s, g, 1 .. m + 1)
    BY <2>3 DEF ConvertIter
  <2> HIDE DEF g
  <2> QED
    BY <2>1, <2>4
<1> HIDE DEF Fine
<1>3. Bad = {}
  <2> SUFFICES ASSUME Bad # {} PROVE FALSE
    OBVIOUS
  <2>1. PICK m \in Bad : \A k \in 0 .. m - 1 : k \notin Bad
    <3>1. Bad \subseteq Nat
      OBVIOUS
    <3> HIDE DEF Bad
    <3>2. PICK m \in Bad : \A k \in Bad : m <= k
      BY <3>1, LeastNumber
    <3> QED
      BY <3>1, <3>2
  <2>2. m \in Nat /\ m # 0 /\ ~Fine(m)
    BY <1>1
  <2>3. m - 1 \in Nat /\ Fine(m - 1) /\ (m - 1) + 1 = m
    BY <2>1, <2>2
  <2> QED
    BY <1>2, <2>2, <2>3
<1> QED
  BY <1>3 DEF Fine

\* The pass one message at a time.
LEMMA ConvertSteps ==
    ASSUME NEW n \in Nat, NEW s, DOMAIN s = 1 .. n
    PROVE  \E c : /\ c[0] = [out |-> <<>>, pending |-> {}, merging |-> FALSE]
                  /\ \A k \in 1 .. n : c[k] = Convert(c[k - 1], s[k])
                  /\ ConvertMessages(s) = c[n].out
<1> DEFINE from == [out |-> <<>>, pending |-> {}, merging |-> FALSE]
<1> DEFINE f == CHOOSE h : h = ConvertIter(from, s, h, 1 .. n)
<1>1. f = ConvertIter(from, s, f, 1 .. n)
  BY ConvertIterExists
<1>2. ConvertMessages(s) = f[1 .. n].out
  BY ConvertUnfold DEF ConvertMessages
<1> DEFINE c == [k \in 0 .. n |-> f[1 .. k]]
<1> HIDE DEF f
<1>3. c[0] = from
  <2>1. 1 .. 0 = {} /\ {} \in SUBSET (1 .. n)
    OBVIOUS
  <2> QED
    BY <1>1, <2>1 DEF ConvertIter
<1>4. ASSUME NEW k \in 1 .. n PROVE c[k] = Convert(c[k - 1], s[k])
  <2>b. k \in Nat /\ 1 <= k /\ k <= n /\ k \in 1 .. k
    OBVIOUS
  <2>1. 1 .. k \in SUBSET (1 .. n) /\ 1 .. k # {} /\ k \in 1 .. k
    <3>1. ASSUME NEW i \in 1 .. k PROVE i \in 1 .. n
      BY <2>b
    <3> QED
      BY <2>b, <3>1
  <2>2. Max(1 .. k) = k
    <3>1. Max(1 .. k) \in 1 .. k /\ \A i \in 1 .. k : Max(1 .. k) >= i
      BY <2>1, ConvertIterExists
    <3> QED
      BY <2>1, <3>1
  <2>a. k - 1 \in 0 .. n /\ k \in 0 .. n
    OBVIOUS
  <2>3. (1 .. k) \ {k} = 1 .. (k - 1)
    OBVIOUS
  <2> QED
    <3>1. f[1 .. k] = Convert(f[(1 .. k) \ {k}], s[k])
      BY <1>1, <2>1, <2>2 DEF ConvertIter
    <3> QED
      BY <2>a, <2>3, <3>1
<1>5. c[n] = f[1 .. n]
  OBVIOUS
<1> HIDE DEF c
<1> QED
  BY <1>2, <1>3, <1>4, <1>5

Wires == [role : {"user", "assistant"}, uses : Seq(Nat), results : Seq(Nat)]

\* Uses are asked for by the assistant, and results are given by the user.
SidesApart(w) ==
    \A i \in DOMAIN w :
        /\ w[i].role = "assistant" => w[i].results = <<>>
        /\ w[i].role = "user" => w[i].uses = <<>>

\* A request in the middle of a round: the uses at "at" have their first j results.
Midway(w, at, ids, j) ==
    /\ at \in DOMAIN w /\ w[at].role = "assistant" /\ w[at].uses = ids
    /\ at = (IF j = 0 THEN Len(w) ELSE Len(w) - 1)
    /\ j > 0 => w[at + 1].role = "user" /\ w[at + 1].results = SubSeq(ids, 1, j)
    /\ \A i \in 1 .. at - 1 :
          w[i].uses # <<>> => i + 1 < at /\ w[i + 1].results = w[i].uses
    /\ \A i \in 1 .. at - 1 :
          w[i].results # <<>> => i > 1 /\ w[i - 1].uses = w[i].results

\* Message i is the last answer up to message k.
LastAnswer(s, k, i) ==
    i \in 1 .. k /\ s[i].role = "assistant" /\ \A l \in i + 1 .. k : s[l].role # "assistant"

\* What the pass has made of the first k messages.
Converted(s, k, c) ==
    /\ c \in [out : Seq(Wires), pending : SUBSET Nat, merging : BOOLEAN]
    /\ SidesApart(c.out)
    /\ \/ /\ \A l \in 1 .. k : s[l].role # "assistant"
          /\ c.pending = {} /\ ~c.merging /\ WellFormed(c.out)
       \/ \E i \in 1 .. k :
             /\ LastAnswer(s, k, i)
             /\ c.pending = Range(IdsOf(s[i].uses))
             /\ \/ /\ k - i < Len(s[i].uses) /\ c.merging
                   /\ \E at \in DOMAIN c.out : Midway(c.out, at, IdsOf(s[i].uses), k - i)
                \/ k - i >= Len(s[i].uses) /\ WellFormed(c.out)

LEMMA WellFormedAppend ==
    ASSUME NEW w \in Seq(Wires), SidesApart(w), WellFormed(w),
           NEW m \in Wires, m.results = <<>>, m.role = "user" => m.uses = <<>>
    PROVE  /\ Append(w, m) \in Seq(Wires) /\ SidesApart(Append(w, m))
           /\ m.uses = <<>> => WellFormed(Append(w, m))
           /\ m.role = "assistant" => Midway(Append(w, m), Len(w) + 1, m.uses, 0)
<1> DEFINE v == Append(w, m)
<1>1. /\ v \in Seq(Wires) /\ Len(v) = Len(w) + 1 /\ Len(w) \in Nat
      /\ DOMAIN v = 1 .. Len(w) + 1 /\ DOMAIN w = 1 .. Len(w)
      /\ v[Len(w) + 1] = m /\ \A i \in 1 .. Len(w) : v[i] = w[i]
  OBVIOUS
<1> HIDE DEF v
<1>2. SidesApart(v)
  <2> SUFFICES ASSUME NEW i \in 1 .. Len(w) + 1
               PROVE  /\ v[i].role = "assistant" => v[i].results = <<>>
                      /\ v[i].role = "user" => v[i].uses = <<>>
    BY <1>1 DEF SidesApart
  <2>1. CASE i = Len(w) + 1
    BY <1>1, <2>1
  <2>2. CASE i \in 1 .. Len(w)
    BY <1>1, <2>2 DEF SidesApart
  <2> QED
    BY <1>1, <2>1, <2>2
<1>3. \A i \in 1 .. Len(w) : v[i].uses # <<>> => i + 1 < Len(w) + 1 /\ v[i + 1].results = v[i].uses
  BY <1>1 DEF WellFormed
<1>4. \A i \in 1 .. Len(w) : v[i].results # <<>> => i > 1 /\ v[i - 1].uses = v[i].results
  <2> SUFFICES ASSUME NEW i \in 1 .. Len(w), w[i].results # <<>>
               PROVE  i > 1 /\ v[i - 1].uses = w[i].results
    BY <1>1
  <2>1. i > 1 /\ w[i - 1].uses = w[i].results
    BY <1>1 DEF WellFormed
  <2>2. i - 1 \in 1 .. Len(w)
    BY <1>1, <2>1
  <2> QED
    BY <1>1, <2>1, <2>2
<1>5. ASSUME m.uses = <<>> PROVE WellFormed(v)
  <2>1. \A i \in 1 .. Len(w) + 1 : i = Len(w) + 1 \/ i \in 1 .. Len(w)
    BY <1>1
  <2>2. \A i \in 1 .. Len(w) : i < Len(w) + 1
    BY <1>1
  <2> QED
    BY <1>1, <1>3, <1>4, <1>5, <2>1, <2>2 DEF WellFormed
<1>6. ASSUME m.role = "assistant" PROVE Midway(v, Len(w) + 1, m.uses, 0)
  BY <1>1, <1>3, <1>4, <1>6 DEF Midway
<1> QED
  BY <1>1, <1>2, <1>5, <1>6 DEF v

\* The next result of a round joins those before it.
LEMMA RoundGrows ==
    ASSUME NEW w \in Seq(Wires), SidesApart(w), NEW at \in DOMAIN w, NEW ids \in Seq(Nat),
           NEW j \in Nat, j < Len(ids), Midway(w, at, ids, j),
           NEW v \in Seq(Wires), Len(v) = at + 1, \A i \in 1 .. at : v[i] = w[i],
           v[at + 1] = Wire("user", <<>>, SubSeq(ids, 1, j + 1))
    PROVE  /\ SidesApart(v)
           /\ j + 1 < Len(ids) => Midway(v, at, ids, j + 1)
           /\ j + 1 = Len(ids) => WellFormed(v)
<1>1. /\ DOMAIN v = 1 .. at + 1 /\ DOMAIN w = 1 .. Len(w) /\ at \in Nat /\ at > 0 /\ at <= Len(w)
      /\ v[at] = w[at] /\ v[at + 1].role = "user" /\ v[at + 1].uses = <<>>
      /\ v[at + 1].results = SubSeq(ids, 1, j + 1)
  <2>1. DOMAIN v = 1 .. at + 1 /\ DOMAIN w = 1 .. Len(w) /\ at \in Nat /\ at > 0 /\ at <= Len(w)
    OBVIOUS
  <2>2. at \in 1 .. at
    BY <2>1
  <2>3. /\ v[at + 1].role = "user" /\ v[at + 1].uses = <<>>
        /\ v[at + 1].results = SubSeq(ids, 1, j + 1)
    BY DEF Wire
  <2> QED
    BY <2>1, <2>2, <2>3
<1>2. \A i \in 1 .. at + 1 : i = at + 1 \/ i = at \/ i \in 1 .. at - 1
  BY <1>1
<1>3. \A i \in 1 .. at - 1 : i \in 1 .. at /\ i # at /\ i # at + 1
  BY <1>1
<1>4. SidesApart(v)
  <2>1. v[at + 1].uses = <<>> /\ v[at + 1].role = "user"
    BY <1>1
  <2>2. ASSUME NEW i \in 1 .. at
        PROVE  /\ v[i].role = "assistant" => v[i].results = <<>>
               /\ v[i].role = "user" => v[i].uses = <<>>
    <3>1. v[i] = w[i] /\ i \in DOMAIN w
      BY <1>1
    <3> QED
      BY <3>1 DEF SidesApart
  <2>3. \A i \in DOMAIN v : i = at + 1 \/ i \in 1 .. at
    BY <1>1
  <2> QED
    BY <2>1, <2>2, <2>3 DEF SidesApart
<1>5. \A i \in 1 .. at - 1 : v[i].uses # <<>> => i + 1 < at /\ v[i + 1].results = v[i].uses
  <2> SUFFICES ASSUME NEW i \in 1 .. at - 1, w[i].uses # <<>>
               PROVE  i + 1 < at /\ v[i + 1].results = w[i].uses
    BY <1>3
  <2>1. i + 1 < at /\ w[i + 1].results = w[i].uses
    BY DEF Midway
  <2>2. i + 1 \in 1 .. at
    BY <1>1, <2>1
  <2> QED
    BY <2>1, <2>2
<1>6. \A i \in 1 .. at - 1 : v[i].results # <<>> => i > 1 /\ v[i - 1].uses = v[i].results
  <2> SUFFICES ASSUME NEW i \in 1 .. at - 1, w[i].results # <<>>
               PROVE  i > 1 /\ v[i - 1].uses = w[i].results
    BY <1>3
  <2>1. i > 1 /\ w[i - 1].uses = w[i].results
    BY DEF Midway
  <2>2. i - 1 \in 1 .. at
    BY <1>1, <2>1
  <2> QED
    BY <2>1, <2>2
<1>7. v[at].uses = ids /\ v[at].role = "assistant" /\ v[at].results = <<>>
  BY <1>1 DEF Midway, SidesApart
<1>8. ASSUME j + 1 < Len(ids) PROVE Midway(v, at, ids, j + 1)
  <2>1. at = (IF j + 1 = 0 THEN Len(v) ELSE Len(v) - 1)
    BY <1>1
  <2> QED
    BY <1>1, <1>5, <1>6, <1>7, <2>1 DEF Midway
<1>9. ASSUME j + 1 = Len(ids) PROVE WellFormed(v)
  <2>1. SubSeq(ids, 1, j + 1) = ids
    BY <1>9
  <2>2. \A i \in 1 .. at - 1 : i < Len(v)
    BY <1>1
  <2>3. at < Len(v) /\ at + 1 > 1 /\ (at + 1) - 1 = at
    BY <1>1
  <2>4. v[at + 1].results = v[at].uses
    BY <1>1, <1>7, <2>1
  <2>5. ASSUME NEW i \in DOMAIN v, v[i].uses # <<>>
        PROVE  i < Len(v) /\ v[i + 1].results = v[i].uses
    <3>1. i = at \/ i \in 1 .. at - 1
      BY <1>1, <1>2, <2>5
    <3> QED
      BY <1>5, <2>2, <2>3, <2>4, <2>5, <3>1
  <2>6. ASSUME NEW i \in DOMAIN v, v[i].results # <<>>
        PROVE  i > 1 /\ v[i - 1].uses = v[i].results
    <3>1. i = at + 1 \/ i \in 1 .. at - 1
      BY <1>1, <1>2, <1>7, <2>6
    <3> QED
      BY <1>6, <2>3, <2>4, <2>6, <3>1
  <2> QED
    BY <2>5, <2>6 DEF WellFormed
<1> QED
  BY <1>4, <1>8, <1>9

LEMMA ResultAdded ==
    ASSUME NEW results, NEW id
    PROVE  [Wire("user", <<>>, results) EXCEPT !.results = Append(@, id)]
             = Wire("user", <<>>, Append(results, id))
<1> DEFINE last == Wire("user", <<>>, results)
<1>1. last = [role |-> "user", uses |-> <<>>, results |-> results]
  BY DEF Wire
<1>2. PICK more : more = Append(results, id)
  OBVIOUS
<1>3. last.results = results
  BY <1>1
<1> HIDE DEF last
<1>4. [last EXCEPT !.results = more] = [role |-> "user", uses |-> <<>>, results |-> more]
  BY ONLY <1>1
<1>5. [last EXCEPT !.results = Append(@, id)] = Wire("user", <<>>, more)
  BY <1>2, <1>3, <1>4 DEF Wire
<1> QED
  BY <1>2, <1>5 DEF last

LEMMA MergeStep ==
    ASSUME NEW c \in [out : Seq(Wires), pending : SUBSET Nat, merging : BOOLEAN],
           SidesApart(c.out), NEW at \in DOMAIN c.out, NEW ids \in Seq(Nat),
           NEW j \in Nat, j < Len(ids), Midway(c.out, at, ids, j),
           c.pending = Range(ids), NEW m, m.id = ids[j + 1]
    PROVE  LET d == Merge(c, m)
           IN  /\ d \in [out : Seq(Wires), pending : SUBSET Nat, merging : BOOLEAN]
               /\ d.pending = c.pending /\ d.merging = c.merging
               /\ SidesApart(d.out) /\ at \in DOMAIN d.out
               /\ j + 1 < Len(ids) => Midway(d.out, at, ids, j + 1)
               /\ j + 1 = Len(ids) => WellFormed(d.out)
<1> DEFINE w == c.out
           d == Merge(c, m)
           new == Wire("user", <<>>, SubSeq(ids, 1, j + 1))
<1>1. /\ w \in Seq(Wires) /\ DOMAIN w = 1 .. Len(w) /\ Len(w) \in Nat
      /\ at \in Nat /\ 1 <= at /\ at <= Len(w)
  OBVIOUS
<1>2. j + 1 \in DOMAIN ids /\ m.id \in c.pending /\ m.id \in Nat
  BY DEF Range
<1>3. new \in Wires
  BY DEF Wire, Wires
<1>4. /\ d = [out |-> d.out, pending |-> c.pending, merging |-> c.merging]
      /\ d.out \in Seq(Wires) /\ Len(d.out) = at + 1
      /\ \A i \in 1 .. at : d.out[i] = w[i]
      /\ d.out[at + 1] = new
  <2>1. CASE j = 0
    <3>1. at = Len(w) /\ w[Len(w)].role = "assistant"
      BY <2>1 DEF Midway
    <3>2. d = [c EXCEPT !.out = Append(@, Wire("user", <<>>, <<m.id>>))]
      BY <1>2, <3>1 DEF Merge
    <3>3. SubSeq(ids, 1, j + 1) = <<m.id>>
      <4> DEFINE first == SubSeq(ids, 1, 1)
                 one == <<ids[1]>>
      <4>1. first \in Seq(Nat) /\ Len(first) = 1 /\ first[1] = ids[1]
        BY <1>2, <2>1
      <4>2. one \in Seq(Nat) /\ Len(one) = 1 /\ one[1] = ids[1]
        BY <1>2, <2>1
      <4> HIDE DEF first, one
      <4>3. first = one
        BY <4>1, <4>2
      <4> QED
        BY <2>1, <4>3 DEF first, one
    <3>4. d.out = Append(w, new)
      BY <3>2, <3>3
    <3>5. d = [out |-> d.out, pending |-> c.pending, merging |-> c.merging]
      BY <3>2
    <3> HIDE DEF new, d
    <3>6. /\ Append(w, new) \in Seq(Wires) /\ Len(Append(w, new)) = at + 1
          /\ Append(w, new)[at + 1] = new /\ \A i \in 1 .. at : Append(w, new)[i] = w[i]
      BY <1>1, <1>3, <3>1
    <3> QED
      BY <3>4, <3>5, <3>6
  <2>2. CASE j > 0
    <3>1. /\ Len(w) = at + 1 /\ w[Len(w)].role = "user"
          /\ w[Len(w)].results = SubSeq(ids, 1, j)
      BY <1>1, <2>2 DEF Midway
    <3>2. d = [c EXCEPT !.out[Len(c.out)].results = Append(@, m.id)]
      BY <1>2, <3>1 DEF Merge
    <3>3. Append(SubSeq(ids, 1, j), m.id) = SubSeq(ids, 1, j + 1)
      BY <1>2, <2>2
    <3>4. w[Len(w)].uses = <<>> /\ w[Len(w)] \in Wires
      <4>1. Len(w) \in DOMAIN w
        BY <1>1
      <4> QED
        BY <3>1, <4>1 DEF SidesApart
    <3>5. [w[Len(w)] EXCEPT !.results = Append(@, m.id)] = new
      <4> DEFINE last == w[Len(w)]
      <4>1. last = [role |-> "user", uses |-> <<>>, results |-> SubSeq(ids, 1, j)]
        BY <3>1, <3>4 DEF Wires
      <4> HIDE DEF last
      <4>2. last = Wire("user", <<>>, SubSeq(ids, 1, j))
        BY <4>1 DEF Wire
      <4>3. [last EXCEPT !.results = Append(@, m.id)]
              = Wire("user", <<>>, Append(SubSeq(ids, 1, j), m.id))
        <5>1. PICK kept : kept = SubSeq(ids, 1, j)
          OBVIOUS
        <5>2. last = Wire("user", <<>>, kept)
          BY <4>2, <5>1
        <5>3. [Wire("user", <<>>, kept) EXCEPT !.results = Append(@, m.id)]
                = Wire("user", <<>>, Append(kept, m.id))
          BY ResultAdded
        <5>4. [last EXCEPT !.results = Append(@, m.id)] = Wire("user", <<>>, Append(kept, m.id))
          BY ONLY <5>2, <5>3
        <5> QED
          BY <5>1, <5>4
      <4> QED
        BY ONLY <3>3, <4>3 DEF last, new
    <3>6. d.out = [w EXCEPT ![Len(w)] = new] /\ d.pending = c.pending /\ d.merging = c.merging
      BY <3>2, <3>5
    <3>7. d = [out |-> d.out, pending |-> c.pending, merging |-> c.merging]
      BY <3>2, <3>6
    <3> HIDE DEF new, d
    <3> QED
      BY <1>1, <1>3, <3>1, <3>6, <3>7
  <2> QED
    BY <2>1, <2>2
<1> HIDE DEF d, new
<1>5. /\ SidesApart(d.out)
      /\ j + 1 < Len(ids) => Midway(d.out, at, ids, j + 1)
      /\ j + 1 = Len(ids) => WellFormed(d.out)
  BY <1>1, <1>4, RoundGrows DEF new
<1>6. at \in DOMAIN d.out
  BY <1>1, <1>4
<1>7. /\ d \in [out : Seq(Wires), pending : SUBSET Nat, merging : BOOLEAN]
      /\ d.pending = c.pending /\ d.merging = c.merging
  BY <1>4
<1> QED
  BY <1>5, <1>6, <1>7 DEF d

LEMMA RoundAnswered ==
    ASSUME NEW s \in Seq(Message), Answered(s), NEW i \in DOMAIN s, NEW j \in DOMAIN s[i].uses
    PROVE  /\ i + j \in DOMAIN s /\ s[i + j].role = "tool"
           /\ s[i + j].id = IdsOf(s[i].uses)[j]
<1>1. s[i].uses \in Seq(Use)
  BY UsesType
<1>2. j \in Nat /\ j > 0
  BY <1>1
<1>3. i + j <= Len(s) /\ AnswerTo(s[i + j], s[i].uses[j])
  BY <1>1, <1>2 DEF Answered, AnsweredOrQueued
<1> QED
  BY <1>2, <1>3 DEF AnswerTo, IdsOf

LEMMA IdsType ==
    ASSUME NEW uses \in Seq(Use)
    PROVE  /\ IdsOf(uses) \in Seq(Nat) /\ Len(IdsOf(uses)) = Len(uses)
           /\ IdsOf(uses) = <<>> <=> uses = <<>>
<1>1. \A k \in DOMAIN uses : uses[k].id \in Nat
  BY IdsAreNat
<1> QED
  BY <1>1 DEF IdsOf

\* A message that is no result comes after the round of the last answer, a result in it.
LEMMA RoundOver ==
    ASSUME NEW s \in Seq(Message), Answered(s), ResultsAsked(s, <<>>),
           NEW k \in 0 .. Len(s) - 1, NEW i, LastAnswer(s, k, i)
    PROVE  /\ s[k + 1].role # "tool" => k - i >= Len(s[i].uses)
           /\ s[k + 1].role = "tool" => k - i < Len(s[i].uses)
<1>1. /\ i \in Nat /\ i >= 1 /\ i <= k /\ i \in DOMAIN s /\ k + 1 \in DOMAIN s /\ k \in Nat
      /\ DOMAIN s = 1 .. Len(s) /\ Len(s) \in Nat
  BY DEF LastAnswer
<1>2. \A h \in DOMAIN s : /\ s[h].uses \in Seq(Use) /\ Len(s[h].uses) \in Nat
                          /\ DOMAIN s[h].uses = 1 .. Len(s[h].uses)
  BY UsesType
<1>3. ASSUME s[k + 1].role # "tool", k - i < Len(s[i].uses) PROVE FALSE
  <2>1. (k + 1) - i \in DOMAIN s[i].uses /\ i + ((k + 1) - i) = k + 1
    BY <1>1, <1>2, <1>3
  <2> QED
    BY <1>1, <1>3, <2>1, RoundAnswered
<1>4. ASSUME s[k + 1].role = "tool" PROVE k - i < Len(s[i].uses)
  <2>1. s[i].role = "assistant" /\ i \in 1 .. k + 1
    BY <1>1 DEF LastAnswer
  <2>2. PICK h \in 1 .. (k + 1) - 1 : (k + 1) - h \in DOMAIN s[h].uses
    BY <1>1, <1>4, <2>1 DEF ResultsAsked
  <2>3. h \in DOMAIN s /\ h \in 1 .. k /\ h \in Nat
    BY <1>1, <2>2
  <2>4. s[h].uses # <<>> /\ s[h].role = "assistant"
    BY <1>2, <2>2, <2>3 DEF ResultsAsked
  <2>5. h <= i
    <3>1. h \notin i + 1 .. k
      BY <2>4 DEF LastAnswer
    <3> QED
      BY <1>1, <2>3, <3>1
  <2>6. ~(h < i)
    <3> SUFFICES ASSUME h < i PROVE FALSE
      OBVIOUS
    <3>1. i - h \in DOMAIN s[h].uses /\ h + (i - h) = i
      BY <1>1, <1>2, <2>2, <2>3
    <3>2. s[i].role = "tool"
      BY <2>3, <3>1, RoundAnswered
    <3> QED
      BY <2>1, <3>2
  <2>7. h = i
    BY <1>1, <2>3, <2>5, <2>6
  <2> QED
    BY <1>1, <1>2, <2>2, <2>7
<1> QED
  BY <1>1, <1>2, <1>3, <1>4

LEMMA ConvertKeeps ==
    ASSUME NEW s \in Seq(Message), Answered(s), ResultsAsked(s, <<>>),
           NEW k \in 0 .. Len(s) - 1, NEW c, Converted(s, k, c)
    PROVE  Converted(s, k + 1, Convert(c, s[k + 1]))
<1> DEFINE m == s[k + 1]
           d == Convert(c, m)
           Passes == [out : Seq(Wires), pending : SUBSET Nat, merging : BOOLEAN]
           None(n) == \A l \in 1 .. n : s[l].role # "assistant"
<1>1. /\ k \in Nat /\ k + 1 \in DOMAIN s /\ DOMAIN s = 1 .. Len(s)
      /\ \A l \in 1 .. k + 1 : l = k + 1 \/ l \in 1 .. k
  OBVIOUS
<1>2. m \in Message /\ m.uses \in Seq(Use) /\ (m.uses # <<>> => m.role = "assistant")
  BY <1>1, UsesType DEF ResultsAsked
<1>3. c \in Passes /\ SidesApart(c.out) /\ c.out \in Seq(Wires)
  BY DEF Converted
<1>4. CASE m.role # "tool"
  <2>1. WellFormed(c.out)
    <3>1. ASSUME NEW i \in 1 .. k, LastAnswer(s, k, i) PROVE ~(k - i < Len(s[i].uses))
      <4>1. k - i >= Len(s[i].uses)
        BY <1>4, <3>1, RoundOver
      <4>2. i \in DOMAIN s /\ Len(s[i].uses) \in Nat
        <5>1. i \in DOMAIN s
          BY <1>1
        <5> QED
          BY <5>1, UsesType
      <4> QED
        BY <1>1, <4>1, <4>2
    <3> QED
      BY <3>1 DEF Converted
  <2>2. CASE m.role = "assistant"
    <3> DEFINE ids == IdsOf(m.uses)
               new == Wire("assistant", ids, <<>>)
    <3>1. ids \in Seq(Nat) /\ Len(ids) = Len(m.uses) /\ (ids = <<>> <=> m.uses = <<>>)
      BY <1>2, IdsType
    <3> HIDE DEF ids
    <3>2. new \in Wires /\ new.results = <<>> /\ new.role = "assistant" /\ new.uses = ids
      BY <3>1 DEF Wire, Wires
    <3> HIDE DEF new
    <3>3. d = [out |-> Append(c.out, new), pending |-> Range(ids), merging |-> m.uses # <<>>]
      BY <2>2 DEF Convert, ids, new
    <3>4. /\ Append(c.out, new) \in Seq(Wires) /\ SidesApart(Append(c.out, new))
          /\ ids = <<>> => WellFormed(Append(c.out, new))
          /\ Midway(Append(c.out, new), Len(c.out) + 1, ids, 0)
      BY <1>3, <2>1, <3>2, WellFormedAppend
    <3>5. Range(ids) \in SUBSET Nat
      BY <3>1 DEF Range
    <3>6. d \in Passes
      BY <3>3, <3>4, <3>5
    <3>7. LastAnswer(s, k + 1, k + 1)
      BY <1>1, <2>2 DEF LastAnswer
    <3> DEFINE j == (k + 1) - (k + 1)
    <3>8. \/ j < Len(m.uses) /\ d.merging /\ \E at \in DOMAIN d.out : Midway(d.out, at, ids, j)
          \/ j >= Len(m.uses) /\ WellFormed(d.out)
      <4>1. j = 0
        BY <1>1
      <4> HIDE DEF j
      <4>2. CASE m.uses = <<>>
        BY <3>1, <3>3, <3>4, <4>1, <4>2
      <4>3. CASE m.uses # <<>>
        <5>1. 0 < Len(m.uses)
          BY <1>2, <4>3
        <5>2. Len(c.out) + 1 \in DOMAIN Append(c.out, new)
          BY <1>3
        <5>3. d.merging /\ d.out = Append(c.out, new)
          <6> HIDE DEF d
          <6>1. d.merging = (m.uses # <<>>)
            BY <3>3
          <6> QED
            BY <3>3, <4>3, <6>1
        <5> HIDE DEF d
        <5> QED
          BY <3>4, <4>1, <5>1, <5>2, <5>3
      <4> QED
        BY <4>2, <4>3
    <3>9. d.pending = Range(ids) /\ SidesApart(d.out)
      BY <3>3, <3>4
    <3>10. k + 1 \in 1 .. k + 1
      BY <1>1
    <3> HIDE DEF d
    <3>11. \E i \in 1 .. k + 1 :
             /\ LastAnswer(s, k + 1, i)
             /\ d.pending = Range(IdsOf(s[i].uses))
             /\ \/ /\ (k + 1) - i < Len(s[i].uses) /\ d.merging
                   /\ \E at \in DOMAIN d.out : Midway(d.out, at, IdsOf(s[i].uses), (k + 1) - i)
                \/ (k + 1) - i >= Len(s[i].uses) /\ WellFormed(d.out)
      <4> WITNESS k + 1 \in 1 .. k + 1
      <4> QED
        BY ONLY <3>7, <3>8, <3>9 DEF ids, j
    <3>12. Converted(s, k + 1, d)
      BY ONLY <3>6, <3>9, <3>11 DEF Converted
    <3> QED
      BY <3>12 DEF d
  <2>3. CASE m.role # "assistant"
    <3> DEFINE new == Wire("user", <<>>, <<>>)
    <3>1. new \in Wires /\ new.results = <<>> /\ new.role = "user" /\ new.uses = <<>>
      BY DEF Wire, Wires
    <3>2. d = [c EXCEPT !.out = Append(@, new), !.merging = FALSE]
      BY <1>4, <2>3 DEF Convert
    <3> HIDE DEF new
    <3>3. /\ Append(c.out, new) \in Seq(Wires) /\ SidesApart(Append(c.out, new))
          /\ WellFormed(Append(c.out, new))
      BY <1>3, <2>1, <3>1, WellFormedAppend
    <3>4. d.out = Append(c.out, new) /\ d.pending = c.pending /\ d.merging = FALSE /\ d \in Passes
      BY <1>3, <3>2, <3>3
    <3>5. CASE None(k) /\ c.pending = {}
      BY <1>1, <2>3, <3>3, <3>4, <3>5 DEF Converted
    <3>6. ASSUME NEW i \in 1 .. k, LastAnswer(s, k, i), c.pending = Range(IdsOf(s[i].uses))
          PROVE  Converted(s, k + 1, d)
      <4>1. LastAnswer(s, k + 1, i) /\ i \in 1 .. k + 1
        BY <1>1, <2>3, <3>6 DEF LastAnswer
      <4>2. k - i >= Len(s[i].uses) /\ Len(s[i].uses) \in Nat
        <5>1. i \in DOMAIN s
          BY <1>1
        <5>2. Len(s[i].uses) \in Nat
          BY <5>1, UsesType
        <5>3. k - i >= Len(s[i].uses)
          BY <1>4, <3>6, RoundOver
        <5> QED
          BY <5>2, <5>3
      <4>3. (k + 1) - i >= Len(s[i].uses)
        BY <1>1, <4>2
      <4> QED
        BY <3>3, <3>4, <3>6, <4>1, <4>3 DEF Converted
    <3> QED
      BY <3>5, <3>6 DEF Converted
  <2> QED
    BY <2>2, <2>3
<1>5. CASE m.role = "tool"
  <2>1. CASE None(k) /\ c.pending = {} /\ ~c.merging /\ WellFormed(c.out)
    <3>1. d = c
      BY <1>5, <2>1 DEF Convert, Lone
    <3>2. None(k + 1)
      BY <1>1, <1>5, <2>1
    <3> QED
      BY <1>3, <2>1, <3>1, <3>2 DEF Converted
  <2>2. ASSUME NEW i \in 1 .. k, LastAnswer(s, k, i), c.pending = Range(IdsOf(s[i].uses)),
               \/ /\ k - i < Len(s[i].uses) /\ c.merging
                  /\ \E at \in DOMAIN c.out : Midway(c.out, at, IdsOf(s[i].uses), k - i)
               \/ k - i >= Len(s[i].uses) /\ WellFormed(c.out)
        PROVE  Converted(s, k + 1, d)
    <3> DEFINE ids == IdsOf(s[i].uses)
               j == k - i
    <3>1. i \in DOMAIN s /\ i \in Nat /\ j \in Nat
      BY <1>1
    <3>2. s[i].uses \in Seq(Use) /\ ids \in Seq(Nat) /\ Len(ids) = Len(s[i].uses)
      BY <3>1, UsesType, IdsType
    <3>3. j < Len(ids)
      BY <1>5, <2>2, <3>2, RoundOver
    <3>4. PICK at \in DOMAIN c.out : Midway(c.out, at, ids, j)
      BY <2>2, <3>1, <3>2, <3>3
    <3>5. c.merging
      BY <2>2, <3>1, <3>2, <3>3
    <3>6. m.id = ids[j + 1]
      <4>1. j + 1 \in DOMAIN s[i].uses /\ i + (j + 1) = k + 1
        BY <1>1, <3>1, <3>2, <3>3
      <4> QED
        BY <3>1, <4>1, RoundAnswered
    <3>7. d = Merge(c, m)
      BY <1>5, <3>5 DEF Convert
    <3> HIDE DEF ids, j
    <3>8. /\ d \in Passes /\ d.pending = c.pending /\ d.merging = c.merging
          /\ SidesApart(d.out) /\ at \in DOMAIN d.out
          /\ j + 1 < Len(ids) => Midway(d.out, at, ids, j + 1)
          /\ j + 1 = Len(ids) => WellFormed(d.out)
      <4>1. c.pending = Range(ids)
        BY <2>2 DEF ids
      <4> HIDE DEF m, d
      <4>2. LET e == Merge(c, m)
            IN  /\ e \in [out : Seq(Wires), pending : SUBSET Nat, merging : BOOLEAN]
                /\ e.pending = c.pending /\ e.merging = c.merging
                /\ SidesApart(e.out) /\ at \in DOMAIN e.out
                /\ j + 1 < Len(ids) => Midway(e.out, at, ids, j + 1)
                /\ j + 1 = Len(ids) => WellFormed(e.out)
        BY ONLY <1>3, <3>1, <3>2, <3>3, <3>4, <3>6, <4>1, MergeStep
      <4> QED
        BY ONLY <3>7, <4>2
    <3>9. LastAnswer(s, k + 1, i) /\ i \in 1 .. k + 1
      BY <1>1, <1>5, <2>2 DEF LastAnswer
    <3>10. j + 1 < Len(ids) \/ j + 1 = Len(ids)
      BY <3>1, <3>2, <3>3
    <3>11. (k + 1) - i = j + 1
      BY <1>1, <3>1 DEF j
    <3> HIDE DEF d
    <3>12. d.pending = Range(ids)
      BY <2>2, <3>8 DEF ids
    <3>13. \/ j + 1 < Len(ids) /\ d.merging /\ \E a \in DOMAIN d.out : Midway(d.out, a, ids, j + 1)
           \/ j + 1 >= Len(ids) /\ WellFormed(d.out)
      BY <3>1, <3>2, <3>5, <3>8, <3>10
    <3>14. \E l \in 1 .. k + 1 :
             /\ LastAnswer(s, k + 1, l)
             /\ d.pending = Range(IdsOf(s[l].uses))
             /\ \/ /\ (k + 1) - l < Len(s[l].uses) /\ d.merging
                   /\ \E a \in DOMAIN d.out : Midway(d.out, a, IdsOf(s[l].uses), (k + 1) - l)
                \/ (k + 1) - l >= Len(s[l].uses) /\ WellFormed(d.out)
      <4>1. i \in 1 .. k + 1
        BY <3>9
      <4> WITNESS i \in 1 .. k + 1
      <4> QED
        BY ONLY <3>2, <3>9, <3>11, <3>12, <3>13 DEF ids
    <3> QED
      BY ONLY <3>8, <3>14 DEF Converted
  <2> QED
    BY <2>1, <2>2 DEF Converted
<1> QED
  BY <1>4, <1>5

\* What is sent for a transcript in which each use has its result and each result its use.
LEMMA RequestOfTranscript ==
    ASSUME NEW s \in Seq(Message), Answered(s), ResultsAsked(s, <<>>)
    PROVE  /\ ConvertMessages(s) \in Seq(Wires) /\ SidesApart(ConvertMessages(s))
           /\ WellFormed(ConvertMessages(s))
<1> DEFINE none == [out |-> <<>>, pending |-> {}, merging |-> FALSE]
           n == Len(s)
<1>1. PICK c : /\ c[0] = none /\ \A k \in 1 .. n : c[k] = Convert(c[k - 1], s[k])
               /\ ConvertMessages(s) = c[n].out
  <2>1. n \in Nat /\ DOMAIN s = 1 .. n
    OBVIOUS
  <2> QED
    BY <2>1, ConvertSteps
<1> DEFINE Bad == {k \in 0 .. n : ~Converted(s, k, c[k])}
<1>2. Bad = {}
  <2> SUFFICES ASSUME Bad # {} PROVE FALSE
    OBVIOUS
  <2>1. Bad \subseteq Nat
    OBVIOUS
  <2>2. PICK k \in Bad : \A l \in Bad : k <= l
    <3> HIDE DEF Bad
    <3> QED
      BY <2>1, LeastNumber
  <2>3. CASE k = 0
    <3>1. /\ none.out = <<>> /\ none.pending = {} /\ none.merging = FALSE
          /\ none \in [out : Seq(Wires), pending : SUBSET Nat, merging : BOOLEAN]
      OBVIOUS
    <3>2. SidesApart(<<>>) /\ WellFormed(<<>>)
      BY DEF SidesApart, WellFormed
    <3>3. 1 .. 0 = {}
      OBVIOUS
    <3> HIDE DEF none
    <3>4. Converted(s, 0, none)
      BY <3>1, <3>2, <3>3 DEF Converted
    <3> QED
      BY <1>1, <2>3, <3>4
  <2>4. CASE k # 0
    <3>1. k \in 1 .. n /\ k - 1 \in 0 .. n - 1 /\ (k - 1) + 1 = k
      BY <2>4
    <3>2. k - 1 \notin Bad /\ k - 1 \in 0 .. n
      BY <2>2, <3>1
    <3>3. Converted(s, k - 1, c[k - 1])
      BY <3>2
    <3>4. Converted(s, (k - 1) + 1, Convert(c[k - 1], s[(k - 1) + 1]))
      BY <3>1, <3>3, ConvertKeeps
    <3> QED
      BY <1>1, <3>1, <3>4
  <2> QED
    BY <2>3, <2>4
<1>3. Converted(s, n, c[n])
  <2>1. n \in 0 .. n
    OBVIOUS
  <2> QED
    BY <1>2, <2>1
<1>4. ConvertMessages(s) = c[n].out
  BY <1>1
<1>5. WellFormed(c[n].out)
  <2>1. ASSUME NEW i \in 1 .. n, LastAnswer(s, n, i) PROVE ~(n - i < Len(s[i].uses))
    <3> SUFFICES ASSUME n - i < Len(s[i].uses) PROVE FALSE
      OBVIOUS
    <3>1. i \in DOMAIN s /\ n \in Nat
      OBVIOUS
    <3>2. s[i].uses \in Seq(Use)
      BY <3>1, UsesType
    <3>3. (n + 1) - i \in DOMAIN s[i].uses /\ i + ((n + 1) - i) = n + 1
      BY <3>1, <3>2
    <3>4. n + 1 \in DOMAIN s
      BY <3>1, <3>3, RoundAnswered
    <3> QED
      BY <3>1, <3>4
  <2> QED
    BY <1>3, <2>1 DEF Converted
<1> QED
  BY <1>3, <1>4, <1>5 DEF Converted

-----------------------------------------------------------------------------
(* What the OpenAI-compatible client makes of a request.                   *)

Chats == [role : {"user", "assistant", "tool"}, calls : Seq(Nat), id : Nat]

\* The messages of a request one after the other.
Joins(x, n, t) ==
    /\ x[1] = t[1]
    /\ \A i \in 1 .. n - 1 : x[i + 1] = x[i] \o t[i + 1]
    /\ FlattenSeq(t) = x[n]

LEMMA FlattenSteps ==
    ASSUME NEW n \in Nat, NEW t, DOMAIN t = 1 .. n, Len(t) = n, n # 0
    PROVE  \E x : Joins(x, n, t)
<1> DEFINE Upto(f, m) == [i \in 1 .. m |-> IF i = 1 THEN t[i] ELSE f[i - 1] \o t[i]]
           Bad == {m \in Nat : ~\E f : f = Upto(f, m)}
<1>1. 0 \notin Bad
  <2>1. PICK f : f = [i \in {} |-> t[i]]
    OBVIOUS
  <2>2. 1 .. 0 = {}
    OBVIOUS
  <2>3. f = Upto(f, 0)
    BY <2>1, <2>2
  <2> HIDE DEF Upto
  <2> QED
    BY <2>3
<1>2. ASSUME NEW m \in Nat, m \notin Bad PROVE m + 1 \notin Bad
  <2>1. PICK f : f = Upto(f, m)
    BY <1>2
  <2> DEFINE g == [i \in 1 .. m + 1 |->
                      IF i = m + 1 THEN IF i = 1 THEN t[i] ELSE f[i - 1] \o t[i] ELSE f[i]]
  <2>2. ASSUME NEW i \in 1 .. m + 1
        PROVE  g[i] = IF i = 1 THEN t[i] ELSE g[i - 1] \o t[i]
    <3>1. i # 1 => i - 1 \in 1 .. m /\ g[i - 1] = f[i - 1]
      OBVIOUS
    <3>2. i # m + 1 => i \in 1 .. m
      OBVIOUS
    <3>3. CASE i = m + 1
      <4>1. g[i] = IF i = 1 THEN t[i] ELSE f[i - 1] \o t[i]
        BY <3>3
      <4> HIDE DEF g
      <4> QED
        BY <3>1, <4>1
    <3>4. CASE i # m + 1
      <4>1. g[i] = f[i] /\ f[i] = IF i = 1 THEN t[i] ELSE f[i - 1] \o t[i]
        BY <2>1, <3>2, <3>4
      <4> HIDE DEF g
      <4> QED
        BY <3>1, <4>1
    <3> QED
      BY <3>3, <3>4
  <2>3. g = Upto(g, m + 1)
    <3>1. g = [i \in 1 .. m + 1 |-> g[i]]
      OBVIOUS
    <3> HIDE DEF g
    <3> QED
      BY <2>2, <3>1
  <2> HIDE DEF g, Upto
  <2> QED
    BY <2>3
<1>3. n \notin Bad
  <2> SUFFICES ASSUME Bad # {} PROVE FALSE
    OBVIOUS
  <2>1. Bad \subseteq Nat
    OBVIOUS
  <2> HIDE DEF Bad
  <2>2. PICK m \in Bad : \A l \in Bad : m <= l
    BY <2>1, LeastNumber
  <2>3. m # 0 /\ m \in Nat /\ m - 1 \in Nat /\ (m - 1) + 1 = m /\ ~(m <= m - 1)
    BY <1>1, <2>1, <2>2
  <2> QED
    BY <1>2, <2>2, <2>3
<1> DEFINE x == CHOOSE f : f = Upto(f, n)
<1>4. x = Upto(x, n)
  BY <1>3
<1>5. FlattenSeq(t) = x[n]
  BY DEF FlattenSeq
<1> HIDE DEF x
<1>6. x[1] = t[1]
  <2>1. 1 \in 1 .. n
    OBVIOUS
  <2> QED
    BY <1>4, <2>1
<1>7. ASSUME NEW i \in 1 .. n - 1 PROVE x[i + 1] = x[i] \o t[i + 1]
  <2>1. i + 1 \in 1 .. n /\ i + 1 # 1 /\ (i + 1) - 1 = i
    OBVIOUS
  <2> QED
    BY <1>4, <2>1
<1>8. Joins(x, n, t)
  BY <1>5, <1>6, <1>7 DEF Joins
<1> QED
  BY ONLY <1>8

\* The chat up to message m of the request: well formed, or it ends in calls without results.
ChatUpto(x, m) ==
    /\ x \in Seq(Chats)
    /\ \/ m.uses = <<>> /\ ChatWellFormed(x)
       \/ \E y \in Seq(Chats) :
             /\ m.uses # <<>> /\ ChatWellFormed(y)
             /\ x = Append(y, Chat("assistant", m.uses, 0))

LEMMA Joined ==
    ASSUME NEW S, NEW a \in Seq(S), NEW b \in Seq(S)
    PROVE  /\ a \o b \in Seq(S) /\ DOMAIN (a \o b) = 1 .. Len(a) + Len(b)
           /\ \A i \in 1 .. Len(a) : (a \o b)[i] = a[i]
           /\ \A k \in 1 .. Len(b) : (a \o b)[Len(a) + k] = b[k]
OBVIOUS

LEMMA Extended ==
    ASSUME NEW S, NEW y \in Seq(S), NEW m \in S
    PROVE  /\ Append(y, m) \in Seq(S) /\ Len(Append(y, m)) = Len(y) + 1
           /\ Append(y, m)[Len(y) + 1] = m
           /\ \A i \in 1 .. Len(y) : Append(y, m)[i] = y[i]
OBVIOUS

LEMMA OneMore ==
    ASSUME NEW y \in Seq(Chats), NEW m \in Chats
    PROVE  y \o <<m>> = Append(y, m) /\ Append(y, m) \in Seq(Chats) /\ <<m>> \in Seq(Chats)
<1> DEFINE a == y \o <<m>>
           b == Append(y, m)
<1>1. /\ b \in Seq(Chats) /\ Len(b) = Len(y) + 1 /\ b[Len(y) + 1] = m
      /\ \A i \in 1 .. Len(y) : b[i] = y[i]
  OBVIOUS
<1>2. PICK one \in Seq(Chats) : one = <<m>> /\ Len(one) = 1 /\ one[1] = m
  <2>1. <<m>> \in Seq(Chats) /\ Len(<<m>>) = 1 /\ <<m>>[1] = m
    OBVIOUS
  <2>2. PICK one : one = <<m>>
    OBVIOUS
  <2> QED
    BY <2>1, <2>2
<1>3. /\ a \in Seq(Chats) /\ Len(a) = Len(y) + 1 /\ a[Len(y) + 1] = m
      /\ \A i \in 1 .. Len(y) : a[i] = y[i]
  BY <1>2
<1> HIDE DEF a, b
<1>4. a = b
  BY <1>1, <1>3
<1> QED
  BY <1>1, <1>2, <1>4 DEF a, b

LEMMA ChatMessage ==
    ASSUME NEW y \in Seq(Chats), ChatWellFormed(y), NEW m \in Chats, m.calls = <<>>, m.role # "tool"
    PROVE  ChatWellFormed(Append(y, m))
<1> DEFINE x == Append(y, m)
           n == Len(y)
<1>1. /\ DOMAIN x = 1 .. n + 1 /\ DOMAIN y = 1 .. n /\ n \in Nat
      /\ x[n + 1] = m /\ \A i \in 1 .. n : x[i] = y[i]
  OBVIOUS
<1> HIDE DEF x, n
<1>2. \A i \in DOMAIN x : i = n + 1 \/ i \in 1 .. n
  BY <1>1
<1>3. ASSUME NEW i \in DOMAIN x, NEW k \in DOMAIN x[i].calls
      PROVE  i + k \in DOMAIN x /\ x[i + k] = Chat("tool", <<>>, x[i].calls[k])
  <2>1. i \in 1 .. n
    BY <1>1, <1>2, <1>3
  <2>2. i + k \in 1 .. n /\ y[i + k] = Chat("tool", <<>>, y[i].calls[k])
    BY <1>1, <1>3, <2>1 DEF ChatWellFormed
  <2> QED
    BY <1>1, <2>1, <2>2
<1>4. ASSUME NEW j \in DOMAIN x, x[j].role = "tool"
      PROVE  \E i \in 1 .. j - 1 : j - i \in DOMAIN x[i].calls
  <2>1. j \in 1 .. n
    BY <1>1, <1>2, <1>4
  <2>2. PICK i \in 1 .. j - 1 : j - i \in DOMAIN y[i].calls
    BY <1>1, <1>4, <2>1 DEF ChatWellFormed
  <2>3. i \in 1 .. n
    BY <1>1, <2>1
  <2> QED
    BY <1>1, <2>2, <2>3
<1> QED
  BY <1>3, <1>4 DEF ChatWellFormed, x

\* Calls and their results, one message each.
LEMMA ChatRound ==
    ASSUME NEW y \in Seq(Chats), ChatWellFormed(y), NEW ids \in Seq(Nat)
    PROVE  LET results == [k \in DOMAIN ids |-> Chat("tool", <<>>, ids[k])]
               x == Append(y, Chat("assistant", ids, 0)) \o results
           IN  x \in Seq(Chats) /\ ChatWellFormed(x)
<1> DEFINE results == [k \in DOMAIN ids |-> Chat("tool", <<>>, ids[k])]
           m == Chat("assistant", ids, 0)
           x == Append(y, m) \o results
           n == Len(y)
           d == Len(ids)
<1>1. /\ m \in Chats /\ m.calls = ids /\ m.role # "tool"
      /\ \A k \in DOMAIN ids : Chat("tool", <<>>, ids[k]) \in Chats
  BY DEF Chat, Chats
<1>2. /\ results \in Seq(Chats) /\ Len(results) = d /\ d \in Nat /\ n \in Nat
      /\ DOMAIN ids = 1 .. d /\ DOMAIN y = 1 .. n
      /\ \A k \in 1 .. d : results[k] = Chat("tool", <<>>, ids[k])
  BY <1>1
<1> HIDE DEF m, results
<1>3. x \in Seq(Chats)
  BY <1>1, <1>2
<1>4. /\ DOMAIN x = 1 .. n + 1 + d /\ x[n + 1] = m
      /\ \A i \in 1 .. n : x[i] = y[i]
      /\ \A k \in 1 .. d : x[n + 1 + k] = Chat("tool", <<>>, ids[k])
  <2>1. PICK b : /\ b = Append(y, m) /\ b \in Seq(Chats) /\ Len(b) = n + 1
                 /\ b[n + 1] = m /\ \A i \in 1 .. n : b[i] = y[i]
    <3>1. m \in Chats /\ y \in Seq(Chats)
      BY <1>1
    <3>2. /\ Append(y, m) \in Seq(Chats) /\ Len(Append(y, m)) = n + 1
          /\ Append(y, m)[n + 1] = m
          /\ \A i \in 1 .. n : Append(y, m)[i] = y[i]
      BY ONLY <3>1, Extended
    <3>3. PICK b : b = Append(y, m)
      OBVIOUS
    <3> HIDE DEF n
    <3> QED
      BY <3>2, <3>3
  <2>2. x = b \o results
    BY <2>1
  <2> HIDE DEF x, n, d
  <2>3. /\ DOMAIN x = 1 .. Len(b) + Len(results)
        /\ \A i \in 1 .. Len(b) : x[i] = b[i]
        /\ \A k \in 1 .. Len(results) : x[Len(b) + k] = results[k]
    <3>1. results \in Seq(Chats) /\ b \in Seq(Chats)
      BY <1>2, <2>1
    <3> QED
      BY ONLY <2>2, <3>1, Joined
  <2>4. n + 1 \in 1 .. n + 1 /\ \A i \in 1 .. n : i \in 1 .. n + 1
    BY <1>2
  <2> QED
    BY <1>2, <2>1, <2>3, <2>4
<1> HIDE DEF x, n, d
<1>5. \A i \in DOMAIN x : i \in 1 .. n \/ i = n + 1 \/ (i - (n + 1) \in 1 .. d /\ i = n + 1 + (i - (n + 1)))
  BY <1>2, <1>4
<1>6. \A k \in DOMAIN ids : /\ Chat("tool", <<>>, ids[k]).calls = <<>>
                            /\ Chat("tool", <<>>, ids[k]).role = "tool"
  BY DEF Chat
<1>7. ASSUME NEW i \in DOMAIN x, NEW k \in DOMAIN x[i].calls
      PROVE  i + k \in DOMAIN x /\ x[i + k] = Chat("tool", <<>>, x[i].calls[k])
  <2>1. CASE i \in 1 .. n
    <3>1. i + k \in 1 .. n /\ y[i + k] = Chat("tool", <<>>, y[i].calls[k])
      BY <1>2, <1>4, <1>7, <2>1 DEF ChatWellFormed
    <3>2. i + k \in 1 .. n + 1 + d
      BY <1>2, <3>1
    <3> QED
      BY <1>4, <2>1, <3>1, <3>2
  <2>2. CASE i = n + 1
    <3>1. k \in 1 .. d /\ x[i].calls = ids
      BY <1>1, <1>2, <1>4, <1>7, <2>2
    <3>2. n + 1 + k \in 1 .. n + 1 + d
      BY <1>2, <3>1
    <3> QED
      BY <1>4, <2>2, <3>1, <3>2
  <2>3. CASE i - (n + 1) \in 1 .. d /\ i = n + 1 + (i - (n + 1))
    <3>1. x[i].calls = <<>>
      BY <1>2, <1>4, <1>6, <2>3
    <3> QED
      BY <1>7, <3>1
  <2> QED
    BY <1>5, <2>1, <2>2, <2>3
<1>8. ASSUME NEW j \in DOMAIN x, x[j].role = "tool"
      PROVE  \E i \in 1 .. j - 1 : j - i \in DOMAIN x[i].calls
  <2>1. CASE j \in 1 .. n
    <3>1. PICK i \in 1 .. j - 1 : j - i \in DOMAIN y[i].calls
      BY <1>2, <1>4, <1>8, <2>1 DEF ChatWellFormed
    <3>2. i \in 1 .. n
      BY <1>2, <2>1
    <3> QED
      BY <1>4, <3>1, <3>2
  <2>2. CASE j = n + 1
    BY <1>1, <1>4, <1>8, <2>2
  <2>3. CASE j - (n + 1) \in 1 .. d /\ j = n + 1 + (j - (n + 1))
    <3>1. n + 1 \in 1 .. j - 1 /\ j - (n + 1) \in DOMAIN x[n + 1].calls
      BY <1>1, <1>2, <1>4, <2>3
    <3> QED
      BY <3>1
  <2> QED
    BY <1>5, <2>1, <2>2, <2>3
<1>9. ChatWellFormed(x)
  BY <1>7, <1>8 DEF ChatWellFormed
<1> QED
  BY <1>3, <1>9 DEF x, m, results

LEMMA ChatOfRequest ==
    ASSUME NEW w \in Seq(Wires), SidesApart(w), WellFormed(w)
    PROVE  ChatWellFormed(Translate(w))
<1> DEFINE n == Len(w)
           t == [i \in DOMAIN w |-> TranslateMessage(w[i])]
<1>1. n \in Nat /\ DOMAIN w = 1 .. n /\ DOMAIN t = 1 .. n /\ Len(t) = n
  OBVIOUS
<1>2. CASE n = 0
  <2>1. Translate(w) = t
    BY <1>1, <1>2 DEF Translate, FlattenSeq
  <2>2. DOMAIN t = {}
    BY <1>1, <1>2
  <2> HIDE DEF t
  <2> QED
    BY <2>1, <2>2 DEF ChatWellFormed
<1>3. CASE n # 0
  <2>0. PICK x : Joins(x, n, t)
    <3> HIDE DEF t, n
    <3> QED
      BY ONLY <1>1, <1>3, FlattenSteps
  <2>1. /\ x[1] = t[1]
        /\ \A i \in 1 .. n - 1 : x[i + 1] = x[i] \o t[i + 1]
        /\ FlattenSeq(t) = x[n]
    BY <2>0 DEF Joins
  <2>2. Translate(w) = x[n]
    BY <2>1 DEF Translate
  <2>3. \A i \in 1 .. n : t[i] = TranslateMessage(w[i])
    BY <1>1
  <2>4. ASSUME NEW y \in Seq(Chats), ChatWellFormed(y), NEW i \in 1 .. n, w[i].results = <<>>
        PROVE  ChatUpto(y \o t[i], w[i])
    <3> DEFINE m == w[i]
    <3>1. m \in Wires
      BY <1>1
    <3>2. CASE m.role = "assistant"
      <4>1. t[i] = <<Chat("assistant", m.uses, 0)>>
        BY <2>3, <3>2 DEF TranslateMessage
      <4>2. Chat("assistant", m.uses, 0) \in Chats
        BY <3>1 DEF Chat, Chats, Wires
      <4>3. y \o t[i] = Append(y, Chat("assistant", m.uses, 0)) /\ y \o t[i] \in Seq(Chats)
        BY <4>1, <4>2, OneMore
      <4>4. CASE m.uses = <<>>
        <5>1. /\ Chat("assistant", m.uses, 0).calls = <<>>
              /\ Chat("assistant", m.uses, 0).role # "tool"
          BY <4>4 DEF Chat
        <5>2. ChatWellFormed(Append(y, Chat("assistant", m.uses, 0)))
          BY <2>4, <4>2, <5>1, ChatMessage
        <5> QED
          BY <4>3, <4>4, <5>2 DEF ChatUpto
      <4>5. CASE m.uses # <<>>
        BY <2>4, <4>3, <4>5 DEF ChatUpto
      <4> QED
        BY <4>4, <4>5
    <3>3. CASE m.role = "user"
      <4> DEFINE said == Chat("user", <<>>, 0)
      <4>1. t[i] = <<said>>
        BY <2>3, <2>4, <3>3 DEF TranslateMessage
      <4>2. said \in Chats /\ said.calls = <<>> /\ said.role # "tool"
        BY DEF Chat, Chats
      <4> HIDE DEF said
      <4>3. y \o t[i] = Append(y, said) /\ y \o t[i] \in Seq(Chats)
        BY <4>1, <4>2, OneMore
      <4>4. ChatWellFormed(Append(y, said))
        BY <2>4, <4>2, ChatMessage
      <4>5. m.uses = <<>>
        BY <1>1, <3>3 DEF SidesApart
      <4> QED
        BY <4>3, <4>4, <4>5 DEF ChatUpto
    <3> QED
      BY <3>1, <3>2, <3>3 DEF Wires
  <2>5. ChatUpto(x[1], w[1])
    <3>1. 1 \in 1 .. n /\ 1 \in DOMAIN w
      BY <1>1, <1>3
    <3>2. w[1].results = <<>>
      BY <3>1 DEF WellFormed
    <3>3. <<>> \in Seq(Chats) /\ ChatWellFormed(<<>>)
      BY DEF ChatWellFormed
    <3>4. ChatUpto(<<>> \o t[1], w[1])
      BY <2>4, <3>1, <3>2, <3>3
    <3>5. t[1] \in Seq(Chats)
      <4>1. w[1] \in Wires /\ t[1] = TranslateMessage(w[1])
        BY <2>3, <3>1
      <4>2. Chat("assistant", w[1].uses, 0) \in Chats /\ Chat("user", <<>>, 0) \in Chats
        BY <4>1 DEF Chat, Chats, Wires
      <4>3. \/ t[1] = <<Chat("assistant", w[1].uses, 0)>> \/ t[1] = <<Chat("user", <<>>, 0)>>
        BY <3>2, <4>1 DEF TranslateMessage, Wires
      <4> QED
        BY <3>3, <4>2, <4>3, OneMore
    <3>6. <<>> \o t[1] = t[1]
      BY <3>5
    <3> QED
      BY <2>1, <3>4, <3>6
  <2>6. ASSUME NEW i \in 1 .. n - 1, ChatUpto(x[i], w[i])
        PROVE  ChatUpto(x[i + 1], w[i + 1])
    <3>1. /\ i \in DOMAIN w /\ i + 1 \in DOMAIN w /\ i + 1 \in 1 .. n /\ i + 1 > 1 /\ (i + 1) - 1 = i
          /\ w[i] \in Wires /\ w[i + 1] \in Wires
      BY <1>1
    <3>2. x[i + 1] = x[i] \o t[i + 1]
      BY <2>1
    <3>3. CASE w[i].uses = <<>>
      <4>1. w[i + 1].results = <<>>
        BY <3>1, <3>3 DEF WellFormed
      <4>2. x[i] \in Seq(Chats) /\ ChatWellFormed(x[i])
        BY <2>6, <3>3 DEF ChatUpto
      <4> QED
        BY <2>4, <3>1, <3>2, <4>1, <4>2
    <3>4. CASE w[i].uses # <<>>
      <4> DEFINE ids == w[i].uses
      <4>1. w[i + 1].results = ids /\ ids \in Seq(Nat)
        BY <3>1, <3>4 DEF WellFormed, Wires
      <4>2. w[i + 1].role = "user" /\ w[i + 1].uses = <<>>
        BY <3>1, <3>4, <4>1 DEF SidesApart, Wires
      <4>3. PICK y \in Seq(Chats) : ChatWellFormed(y) /\ x[i] = Append(y, Chat("assistant", ids, 0))
        BY <2>6, <3>4 DEF ChatUpto
      <4>4. t[i + 1] = [k \in DOMAIN ids |-> Chat("tool", <<>>, ids[k])]
        BY <2>3, <3>1, <3>4, <4>1, <4>2 DEF TranslateMessage
      <4> HIDE DEF ids, t
      <4>5. x[i + 1] \in Seq(Chats) /\ ChatWellFormed(x[i + 1])
        BY <3>2, <4>1, <4>3, <4>4, ChatRound
      <4> QED
        BY <4>2, <4>5 DEF ChatUpto
    <3> QED
      BY <3>3, <3>4
  <2> DEFINE Bad == {i \in 1 .. n : ~ChatUpto(x[i], w[i])}
  <2>7. Bad = {}
    <3> SUFFICES ASSUME Bad # {} PROVE FALSE
      OBVIOUS
    <3>1. Bad \subseteq Nat /\ \A i \in 1 .. n : i \in Nat
      OBVIOUS
    <3>2. PICK i \in Bad : \A l \in Bad : i <= l
      <4> HIDE DEF Bad
      <4> QED
        BY <3>1, LeastNumber
    <3>3. i # 1 /\ i \in 1 .. n
      BY <2>5
    <3>4. i - 1 \in 1 .. n - 1 /\ i - 1 \in 1 .. n /\ ~(i <= i - 1) /\ (i - 1) + 1 = i
      BY <1>1, <3>3
    <3>5. ChatUpto(x[i - 1], w[i - 1])
      BY <3>2, <3>4
    <3>6. ChatUpto(x[(i - 1) + 1], w[(i - 1) + 1])
      BY <2>6, <3>4, <3>5
    <3> QED
      BY <3>2, <3>4, <3>6
  <2>8. n \in 1 .. n /\ n \in DOMAIN w
    BY <1>1, <1>3
  <2>9. w[n].uses = <<>>
    BY <1>1, <2>8 DEF WellFormed
  <2> QED
    BY <2>2, <2>7, <2>8, <2>9 DEF ChatUpto
<1> QED
  BY <1>2, <1>3

-----------------------------------------------------------------------------
(* Every transcript the loop makes is such a transcript.                   *)

\* What a message that joins a transcript leaves of it.
LEMMA Grown ==
    ASSUME NEW s \in Seq(Message), NEW m \in Message
    PROVE  /\ DOMAIN s = 1 .. Len(s) /\ Len(s) \in Nat
           /\ DOMAIN Append(s, m) = 1 .. Len(s) + 1 /\ Len(Append(s, m)) = Len(s) + 1
           /\ Append(s, m)[Len(s) + 1] = m
           /\ \A i \in 1 .. Len(s) : Append(s, m)[i] = s[i]
OBVIOUS

\* A tool message's claim does not depend on what comes after it.
LEMMA AskedBefore ==
    ASSUME NEW n \in Nat, NEW s, NEW t, \A i \in 1 .. n : t[i] = s[i], NEW k \in 1 .. n,
           \/ \E i \in 1 .. k - 1 : k - i \in DOMAIN s[i].uses
           \/ \A i \in 1 .. k : s[i].role # "assistant"
    PROVE  \/ \E i \in 1 .. k - 1 : k - i \in DOMAIN t[i].uses
           \/ \A i \in 1 .. k : t[i].role # "assistant"
<1>1. \A i \in 1 .. k : i \in 1 .. n
  OBVIOUS
<1>2. \A i \in 1 .. k - 1 : i \in 1 .. n
  OBVIOUS
<1> QED
  BY <1>1, <1>2

\* The user's input, and the provider's answer with the tool uses it asks for.
LEMMA AskedGrows ==
    ASSUME NEW s \in Seq(Message), NEW m \in Message, ResultsAsked(s, <<>>),
           m.role # "tool", m.uses # <<>> => m.role = "assistant"
    PROVE  ResultsAsked(Append(s, m), m.uses)
<1> DEFINE t == Append(s, m)
           n == Len(s)
<1>1. /\ DOMAIN s = 1 .. n /\ n \in Nat /\ DOMAIN t = 1 .. n + 1 /\ Len(t) = n + 1
      /\ t[n + 1] = m /\ \A i \in 1 .. n : t[i] = s[i]
  BY Grown
<1>2. m.uses \in Seq(Use)
  BY DEF Message
<1> HIDE DEF t, n
<1>3. \A i \in DOMAIN t : i = n + 1 \/ i \in 1 .. n
  BY <1>1
<1>4. \A i \in DOMAIN t : t[i].uses # <<>> => t[i].role = "assistant"
  BY <1>1, <1>3 DEF ResultsAsked
<1>5. ASSUME NEW k \in DOMAIN t, t[k].role = "tool"
      PROVE  \/ \E i \in 1 .. k - 1 : k - i \in DOMAIN t[i].uses
             \/ \A i \in 1 .. k : t[i].role # "assistant"
  <2>1. k \in 1 .. n /\ s[k].role = "tool"
    BY <1>1, <1>3, <1>5
  <2>2. \/ \E i \in 1 .. k - 1 : k - i \in DOMAIN s[i].uses
        \/ \A i \in 1 .. k : s[i].role # "assistant"
    BY <1>1, <2>1 DEF ResultsAsked
  <2> QED
    BY <1>1, <2>1, <2>2, AskedBefore
<1>6. n + 1 \in DOMAIN t /\ Len(t[n + 1].uses) = Len(t) - (n + 1) + Len(m.uses)
  BY <1>1, <1>2
<1> QED
  BY <1>4, <1>5, <1>6 DEF ResultsAsked, t

\* The answer to the head of the queue.
LEMMA AskedAnswered ==
    ASSUME NEW s \in Seq(Message), NEW queue \in Seq(Use), queue # <<>>,
           NEW m \in Message, m.role = "tool", m.uses = <<>>, ResultsAsked(s, queue)
    PROVE  ResultsAsked(Append(s, m), Tail(queue))
<1> DEFINE t == Append(s, m)
           n == Len(s)
<1>1. /\ DOMAIN s = 1 .. n /\ n \in Nat /\ DOMAIN t = 1 .. n + 1 /\ Len(t) = n + 1
      /\ t[n + 1] = m /\ \A i \in 1 .. n : t[i] = s[i]
  BY Grown
<1>2. Len(queue) \in Nat /\ Len(queue) > 0 /\ Len(Tail(queue)) = Len(queue) - 1
  OBVIOUS
<1> HIDE DEF t, n
<1>3. \A i \in DOMAIN t : i = n + 1 \/ i \in 1 .. n
  BY <1>1
<1>4. \A i \in DOMAIN t : t[i].uses # <<>> => t[i].role = "assistant"
  BY <1>1, <1>3 DEF ResultsAsked
<1>5. PICK last \in DOMAIN s : Len(s[last].uses) = n - last + Len(queue)
  BY DEF ResultsAsked, n
<1>6. s[last].uses \in Seq(Use)
  BY UsesType
<1>7. DOMAIN s[last].uses = 1 .. Len(s[last].uses) /\ Len(s[last].uses) \in Nat
  BY <1>6
<1>8. last \in 1 .. n /\ t[last] = s[last]
  BY <1>1
<1>9. ASSUME NEW k \in DOMAIN t, t[k].role = "tool"
      PROVE  \/ \E i \in 1 .. k - 1 : k - i \in DOMAIN t[i].uses
             \/ \A i \in 1 .. k : t[i].role # "assistant"
  <2>1. CASE k \in 1 .. n
    <3>1. \/ \E i \in 1 .. k - 1 : k - i \in DOMAIN s[i].uses
          \/ \A i \in 1 .. k : s[i].role # "assistant"
      BY <1>1, <1>9, <2>1 DEF ResultsAsked
    <3> QED
      BY <1>1, <2>1, <3>1, AskedBefore
  <2>2. CASE k = n + 1
    <3>1. last \in 1 .. k - 1 /\ k - last \in 1 .. Len(s[last].uses)
      BY <1>1, <1>2, <1>5, <1>8, <2>2
    <3> QED
      BY <1>7, <1>8, <3>1
  <2> QED
    BY <1>3, <2>1, <2>2
<1>10. last \in DOMAIN t /\ Len(t[last].uses) = Len(t) - last + Len(Tail(queue))
  <2>1. n + 1 - last + (Len(queue) - 1) = n - last + Len(queue)
    BY <1>1, <1>2, <1>8
  <2> QED
    BY <1>1, <1>2, <1>5, <1>8, <2>1
<1> QED
  BY <1>4, <1>9, <1>10 DEF ResultsAsked, t

\* Compaction cuts a round with its results, or between two results of it.
LEMMA CompactAsked ==
    ASSUME NEW s \in Seq(Message), Answered(s), ResultsAsked(s, <<>>)
    PROVE  ResultsAsked(Compact(s), <<>>)
<1>1. CASE ~Compactable(s)
  BY <1>1 DEF Compact
<1>2. CASE Compactable(s)
  <2> DEFINE d == Len(s) - PreserveRecent
             kept == SubSeq(s, d + 1, Len(s))
             t == <<Summary>> \o kept
  <2>1. d \in Nat /\ d <= Len(s) /\ PreserveRecent \in Nat
    BY <1>2, PreserveAssumption DEF Compactable, SummaryPrefix
  <2>2. kept \in Seq(Message) /\ Len(kept) = Len(s) - d
    BY <2>1
  <2>3. \A i \in 1..Len(s)-d : kept[i] = s[i + d]
    BY <2>1
  <2> HIDE DEF kept, d
  <2>4. Len(t) = Len(s) - d + 1 /\ t[1] = Summary
    BY <2>1, <2>2
  <2>5. \A i \in 2..Len(t) : t[i] = s[i - 1 + d] /\ i - 1 + d \in DOMAIN s
    <3> SUFFICES ASSUME NEW i \in 2..Len(t) PROVE t[i] = s[i - 1 + d] /\ i - 1 + d \in DOMAIN s
      OBVIOUS
    <3>1. i - 1 \in 1..Len(s) - d /\ i \in Int
      BY <2>1, <2>4
    <3>2. t[i] = kept[i - 1]
      BY <2>2, <2>4, <3>1
    <3>3. (i - 1) + d \in 1..Len(s) /\ (i - 1) + d = i - 1 + d
      BY <2>1, <3>1
    <3> QED
      BY <2>3, <3>1, <3>2, <3>3
  <2>6. Summary.uses = <<>> /\ Summary.role = "system"
    BY DEF Summary, Plain
  <2>7. DOMAIN t = 1..Len(t) /\ Len(t) \in Nat /\ DOMAIN s = 1 .. Len(s) /\ Len(s) \in Nat
    BY <2>1, <2>2
  <2> HIDE DEF t
  <2>8. \A i \in DOMAIN t : i = 1 \/ i \in 2 .. Len(t)
    BY <2>7
  <2>9. \A i \in DOMAIN t : t[i].uses # <<>> => t[i].role = "assistant"
    BY <2>4, <2>5, <2>6, <2>8 DEF ResultsAsked
  <2>10. ASSUME NEW k \in DOMAIN t, t[k].role = "tool"
         PROVE  \/ \E i \in 1 .. k - 1 : k - i \in DOMAIN t[i].uses
                \/ \A i \in 1 .. k : t[i].role # "assistant"
    <3>1. k \in 2 .. Len(t)
      BY <2>4, <2>6, <2>8, <2>10
    <3> DEFINE at == k - 1 + d
    <3>2. t[k] = s[at] /\ at \in DOMAIN s /\ at \in Nat
      BY <2>1, <2>5, <3>1
    <3>3. ASSUME NEW i \in 1 .. k, t[i].role = "assistant"
          PROVE  i - 1 + d \in d + 1 .. at /\ s[i - 1 + d].role = "assistant" /\ i - 1 + d \in DOMAIN s
      <4>1. i \in DOMAIN t
        BY <2>7, <3>1
      <4>2. i \in 2 .. Len(t)
        BY <2>4, <2>6, <2>8, <3>3, <4>1
      <4>3. i - 1 + d \in d + 1 .. at
        BY <2>1, <3>1, <4>2
      <4> QED
        BY <2>5, <3>3, <4>2, <4>3
    <3>4. CASE \A i \in 1 .. at : s[i].role # "assistant"
      <4>1. \A i \in d + 1 .. at : i \in 1 .. at
        BY <2>1, <3>2
      <4> QED
        BY <3>3, <3>4, <4>1
    <3>5. CASE \E i \in 1 .. at - 1 : at - i \in DOMAIN s[i].uses
      <4>1. PICK i \in 1 .. at - 1 : at - i \in DOMAIN s[i].uses
        BY <3>5
      <4>2. i \in DOMAIN s /\ i \in Nat
        BY <2>7, <3>2
      <4>3. s[i].uses \in Seq(Use)
        BY <4>2, UsesType
      <4>4. DOMAIN s[i].uses = 1 .. Len(s[i].uses) /\ Len(s[i].uses) \in Nat
        BY <4>3
      <4>5. CASE i <= d
        <5>1. ASSUME NEW l \in d + 1 .. at PROVE s[l].role = "tool"
          <6>0. /\ l \in Nat /\ at \in Nat /\ d \in Nat /\ l <= at /\ d < l /\ at <= Len(s)
                /\ i <= d /\ Len(s) \in Nat
            BY <2>1, <2>7, <3>2, <4>5
          <6>1. l - i \in DOMAIN s[i].uses /\ i + (l - i) = l /\ l <= Len(s)
            <7>1. l - i \in Int /\ 1 <= l - i /\ l - i <= at - i /\ i + (l - i) = l /\ l <= Len(s)
              BY <4>2, <6>0
            <7>2. at - i <= Len(s[i].uses)
              BY <4>1, <4>4
            <7>3. at - i \in Int /\ Len(s[i].uses) \in Int
              BY <4>2, <4>4, <6>0
            <7>4. \A a, b, e \in Int : a <= b /\ b <= e => a <= e
              OBVIOUS
            <7>5. l - i <= Len(s[i].uses)
              BY ONLY <7>1, <7>2, <7>3, <7>4
            <7>6. l - i \in 1 .. Len(s[i].uses)
              BY ONLY <7>1, <7>3, <7>5
            <7> QED
              BY ONLY <4>4, <7>1, <7>6
          <6>2. AnswerTo(s[i + (l - i)], s[i].uses[l - i])
            BY <4>2, <6>1 DEF Answered, AnsweredOrQueued
          <6> QED
            BY <6>1, <6>2 DEF AnswerTo
        <5> QED
          BY <3>3, <5>1
      <4>6. CASE ~(i <= d)
        <5>0. /\ i \in Nat /\ d \in Nat /\ k \in Nat /\ i > d /\ i <= Len(s)
              /\ i <= k - 1 + d - 1 /\ Len(s) \in Nat /\ Len(t) = Len(s) - d + 1
          BY <2>1, <2>4, <2>7, <3>1, <4>1, <4>2, <4>6
        <5>1. i - d + 1 \in 2 .. Len(t) /\ i - d + 1 \in 1 .. k - 1
              /\ (i - d + 1) - 1 + d = i /\ k - (i - d + 1) = at - i
          BY <5>0
        <5>2. t[i - d + 1] = s[i]
          BY <2>5, <5>1
        <5> QED
          BY <4>1, <5>1, <5>2
      <4> QED
        BY <4>5, <4>6
    <3>6. s[at].role = "tool"
      BY <2>10, <3>2
    <3> HIDE DEF at
    <3> QED
      BY <3>2, <3>4, <3>5, <3>6 DEF ResultsAsked
  <2>11. ResultsAsked(t, <<>>)
    BY <2>9, <2>10 DEF ResultsAsked
  <2> QED
    BY <1>2, <2>11 DEF Compact, t, kept, d
<1> QED
  BY <1>1, <1>2

LEMMA EndTurnAsked ==
    ASSUME NEW why, NEW transcript, ResultsAsked(transcript, <<>>), EndTurn(why, transcript)
    PROVE  AskedInv'
BY DEF EndTurn, AskedInv

LEMMA AbandonAsked ==
    ASSUME AskedInv, NEW why, EndTurn(why, base)
    PROVE  AskedInv'
BY EndTurnAsked DEF AskedInv

LEMMA RecordResultAsked ==
    ASSUME IndInv, AskedInv, pc \in {"authorize", "posthook"}, RecordResult
    PROVE  AskedInv'
<1>1. pending \in Seq(Use) /\ pending # <<>> /\ session \in Seq(Message)
  BY DEF IndInv, TypeOK, QueueInv, ToolPhases
<1> DEFINE r == ToolResult(Head(pending))
<1>2. Head(pending) \in Use
  BY <1>1
<1>3. r \in Message
  BY <1>2, MessageTypes
<1>4. r.role = "tool" /\ r.uses = <<>>
  BY DEF ToolResult
<1> HIDE DEF r
<1>5. session' = Append(session, r) /\ pending' = Tail(pending) /\ base' = base
  BY DEF RecordResult, r
<1>6. ResultsAsked(session', pending')
  BY <1>1, <1>3, <1>4, <1>5, AskedAnswered DEF AskedInv
<1> QED
  BY <1>5, <1>6 DEF AskedInv

LEMMA AskedStep ==
    ASSUME IndInv, AskedInv, [Next]_vars
    PROVE  AskedInv'
<1>t. pending \in Seq(Use) /\ session \in Seq(Message) /\ base \in Seq(Message)
  BY DEF IndInv, TypeOK
<1>q. pc \notin ToolPhases => /\ pending = <<>> /\ Answered(session)
                              /\ ResultsAsked(session, <<>>)
  BY DEF IndInv, QueueInv, TranscriptInv, Answered, AskedInv
<1>b. Answered(base) /\ ResultsAsked(base, <<>>)
  BY DEF IndInv, TranscriptInv, AskedInv
<1>1. CASE Cancelled \/ TooManyIterations \/ BudgetStop \/ StreamFails
            \/ AnswerPushFails \/ ForceExit
  BY <1>1, AbandonAsked DEF Cancelled, TooManyIterations, BudgetStop, StreamFails,
     AnswerPushFails, ForceExit, PushFails
<1>2. CASE LoopHead
  <2>1. pending' = <<>> /\ base' = base /\ Answered(session)
        /\ ResultsAsked(session, <<>>)
        /\ (session' = session \/ session' = Compact(session))
    BY <1>2, <1>q DEF LoopHead, ToolPhases
  <2>2. ResultsAsked(Compact(session), <<>>)
    BY <1>t, <2>1, CompactAsked
  <2>3. ResultsAsked(session', pending')
    BY <2>1, <2>2
  <2> QED
    BY <1>b, <2>1, <2>3 DEF AskedInv
<1>3. ASSUME NEW uses \in NewUses, NEW billed \in BOOLEAN,
             StreamReturns(uses, billed)
      PROVE  AskedInv'
  <2> DEFINE m == Assistant(uses, billed)
  <2>1. m \in Message
    BY NewUsesType, MessageTypes DEF IndInv
  <2>2. m.uses = uses /\ m.role = "assistant"
    BY DEF Assistant
  <2> HIDE DEF m
  <2>3. /\ session' = Append(session, m) /\ pending' = uses /\ base' = base
        /\ ResultsAsked(session, <<>>)
    BY <1>3, <1>q DEF StreamReturns, ToolPhases, m
  <2>4. ResultsAsked(session', pending')
    BY <1>t, <2>1, <2>2, <2>3, AskedGrows
  <2> QED
    BY <1>b, <2>3, <2>4 DEF AskedInv
<1>4. ASSUME NEW billed \in BOOLEAN, TurnCompletes(billed)
      PROVE  AskedInv'
  <2> DEFINE m == Assistant(<<>>, billed)
             full == Append(session, m)
  <2>1. Answered(session) /\ ResultsAsked(session, <<>>)
    BY <1>4, <1>q DEF TurnCompletes, ToolPhases
  <2>2. <<>> \in Seq(Use)
    OBVIOUS
  <2>3. m \in Message
    BY <2>2, MessageTypes, Zenon
  <2>4. m.uses = <<>> /\ m.role = "assistant"
    BY DEF Assistant
  <2> HIDE DEF m
  <2>5. full \in Seq(Message) /\ Answered(full) /\ ResultsAsked(full, <<>>)
    <3>1. full \in Seq(Message)
      BY <1>t, <2>3
    <3>2. Answered(full)
      BY <1>t, <2>1, <2>3, <2>4, AppendPlain
    <3>3. ResultsAsked(full, m.uses)
      BY <1>t, <2>1, <2>3, <2>4, AskedGrows
    <3> HIDE DEF full
    <3> QED
      BY <2>4, <3>1, <3>2, <3>3
  <2> HIDE DEF full
  <2>6. ResultsAsked(AutoCompacted(full, Recorded(billed)), <<>>)
    BY <2>5, CompactAsked DEF AutoCompacted
  <2>7. EndTurn("completed", AutoCompacted(full, Recorded(billed)))
    BY <1>4 DEF TurnCompletes, full, m
  <2> QED
    BY <2>6, <2>7, EndTurnAsked
<1>5. CASE SendRequest \/ StartTool \/ ToolReturns \/ Execute
  BY <1>5 DEF SendRequest, StartTool, ToolReturns, Execute, AskedInv
<1>6. CASE \E result \in HookResults : PreHookReturns(result)
  BY <1>6 DEF PreHookReturns, AskedInv
<1>7. CASE \E given \in PromptAnswers : Allow(given)
  BY <1>7 DEF Allow, AskedInv
<1>8. CASE (\E given \in PromptAnswers : Deny(given)) \/ PostHookReturns
  BY <1>8, RecordResultAsked, AbandonAsked DEF Deny, PostHookReturns, PushFails
<1>9. CASE BeginTurn
  <2>1. UserInput \in Message
    BY MessageTypes
  <2>2. UserInput.uses = <<>> /\ UserInput.role = "user"
    BY DEF UserInput, Plain
  <2>3. session' = Append(base, UserInput) /\ pending' = <<>> /\ base' = base
    BY <1>9, <1>q DEF BeginTurn, ToolPhases
  <2>4. ResultsAsked(session', UserInput.uses)
    BY <1>t, <1>b, <2>1, <2>2, <2>3, AskedGrows
  <2> QED
    BY <1>b, <2>2, <2>3, <2>4 DEF AskedInv
<1>10. CASE InputPushFails
  BY <1>10 DEF InputPushFails, turnVars, AskedInv
<1>11. CASE CompactCommand
  <2>1. base' = Compact(base) /\ session' = Compact(base) /\ pending' = <<>>
    BY <1>11, <1>q DEF CompactCommand, ToolPhases
  <2>2. ResultsAsked(Compact(base), <<>>)
    BY <1>t, <1>b, CompactAsked
  <2> QED
    BY <2>1, <2>2 DEF AskedInv
<1>12. CASE InterruptHooks \/ InterruptTurn \/ UNCHANGED vars
  BY <1>12 DEF InterruptHooks, InterruptTurn, vars, turnVars, AskedInv
<1> QED
  BY <1>1, <1>2, <1>3, <1>4, <1>5, <1>6, <1>7, <1>8, <1>9, <1>10, <1>11, <1>12
     DEF Next, TurnStep

LEMMA AskedHolds == Spec => []AskedInv
<1>1. Init => AskedInv
  BY DEF Init, AskedInv, ResultsAsked
<1>2. IndInv /\ AskedInv /\ [Next]_vars => AskedInv'
  BY AskedStep
<1> QED
  BY Inductive, <1>1, <1>2, PTL DEF Spec

\* What convert_messages makes of any transcript the loop sends, compacted in the middle of a
\* round of tool results or not, is a request both forms of provider accept.
THEOREM RequestsAreWellFormed == Spec => []RequestWellFormed
<1>1. IndInv /\ AskedInv => RequestWellFormed
  <2> SUFFICES ASSUME IndInv, AskedInv, pc = "streaming"
               PROVE  /\ WellFormed(ConvertMessages(session))
                      /\ ChatWellFormed(Translate(ConvertMessages(session)))
    BY DEF RequestWellFormed
  <2>1. session \in Seq(Message) /\ Answered(session) /\ ResultsAsked(session, <<>>)
    BY DEF IndInv, TypeOK, QueueInv, ToolPhases, TranscriptInv, Answered, AskedInv
  <2> DEFINE request == ConvertMessages(session)
  <2>2. request \in Seq(Wires) /\ SidesApart(request) /\ WellFormed(request)
    BY <2>1, RequestOfTranscript
  <2> HIDE DEF request
  <2>3. ChatWellFormed(Translate(request))
    BY <2>2, ChatOfRequest
  <2> QED
    BY <2>2, <2>3 DEF request
<1> QED
  BY Inductive, AskedHolds, <1>1, PTL

-----------------------------------------------------------------------------
(* One permission decision, for every policy record.                       *)

\* The verdict is the one authorize_with_context gives.
VerdictInv ==
    /\ call \in CallPolicies
    /\ verdict \in {"Undecided", "Allow", "Deny"}
    /\ verdict = "Allow" => Authorized(call, hookSays, userSays)
    /\ verdict = "Deny"  => ~Authorized(call, hookSays, userSays)

LEMMA VerdictHolds == CallSpec => []VerdictInv
<1>1. AnyCall => VerdictInv
  BY DEF AnyCall, VerdictInv
<1>2. VerdictInv /\ [Decide]_callVars => VerdictInv'
  <2> SUFFICES ASSUME VerdictInv, [Decide]_callVars PROVE VerdictInv'
    OBVIOUS
  <2>1. CASE Decide
    <3>1. UNCHANGED <<call, hookSays, userSays>> /\ call' \in CallPolicies
      BY <2>1 DEF Decide, VerdictInv
    <3>2. Authorized(call, hookSays, userSays)' <=> Authorized(call, hookSays, userSays)
      BY <3>1
    <3>3. verdict' = IF Authorized(call, hookSays, userSays) THEN "Allow" ELSE "Deny"
      BY <2>1 DEF Decide
    <3> QED
      BY <3>1, <3>2, <3>3 DEF VerdictInv
  <2>2. CASE UNCHANGED callVars
    BY <2>2 DEF callVars, VerdictInv
  <2> QED
    BY <2>1, <2>2
<1> QED
  BY <1>1, <1>2, PTL DEF CallSpec

\* No hook, rule, mode, classification or user brings back a call that a deny
\* rule or a missing registration has refused.
THEOREM DenialsAreFinal == CallSpec => []DenialIsFinal
<1>1. VerdictInv => DenialIsFinal
  BY DEF VerdictInv, DenialIsFinal, Authorized
<1> QED
  BY <1>1, VerdictHolds, PTL

\* A call that an ask rule matches needs the user's grant, hooks or not.
THEOREM AskRulesAsk == CallSpec => []AskRuleNeedsTheUser
<1>1. VerdictInv => AskRuleNeedsTheUser
  BY DEF VerdictInv, AskRuleNeedsTheUser, Authorized, OverrideAllows,
         ModeAllows, Granted
<1> QED
  BY <1>1, VerdictHolds, PTL

\* Where nobody can be asked, nothing depends on what a user would have said,
\* and the second gate agrees with the first.
THEOREM UnattendedCalls == CallSpec => []UnattendedCallsAreCovered
<1>1. ASSUME NEW p, NEW over, NEW given, Authorized(p, over, "NoPrompter")
      PROVE  /\ Authorized(p, over, given)
             /\ p.trust = "Safe" \/ Covered(p)
             /\ EnforcerAllows(p)
  BY <1>1 DEF Authorized, OverrideAllows, ModeAllows, Granted, EnforcerAllows
<1>2. VerdictInv => UnattendedCallsAreCovered
  BY <1>1 DEF VerdictInv, UnattendedCallsAreCovered
<1> QED
  BY <1>2, VerdictHolds, PTL

\* A hook's Allow changes no decision of the policy.
THEOREM HooksGrantNothing == CallSpec => []HookAllowGrantsNothing
<1>1. ASSUME NEW p, NEW given
      PROVE  OverrideAllows(p, "Allow", given) <=> OverrideAllows(p, "None", given)
  BY DEF OverrideAllows, ModeAllows
<1>2. VerdictInv => HookAllowGrantsNothing
  BY <1>1 DEF VerdictInv, HookAllowGrantsNothing, Authorized
<1> QED
  BY <1>2, VerdictHolds, PTL

=============================================================================
