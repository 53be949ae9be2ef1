-------------------------- MODULE McpManagerProofs --------------------------
(***************************************************************************)
(* Proofs about McpManager, for any number of servers, calls, pages and    *)
(* faults.                                                                 *)
(***************************************************************************)
EXTENDS McpManager, SequenceTheorems, TLAPS

Waiting == {"handshake", "waiting"}

Loops == [method : Methods \cup {"shutdown"}, server : Servers]

TypeInv ==
    /\ process \in [Servers -> Processes]
    /\ initialized \in [Servers -> BOOLEAN]
    /\ tool_index \subseteq Servers
    /\ todo \in Seq(Loops)
    /\ pc \in Waits \cup {"idle", "closing", "closed"}
    /\ op \in IF pc \in Waits THEN Operations ELSE {Idle}
    /\ asked \in 0 .. MaxRequests
    /\ faults \in 0 .. MaxFaults
    /\ unreclaimed \in BOOLEAN
    /\ status \in [Calls -> {"idle", "called", "ok", "error"}]
    /\ effects \in [Calls -> Nat]

\* A pending request is the one the manager waits for, and nothing on its pipe
\* can be taken for the answer.
PendingInv ==
    \A s \in Servers : process[s].inbox # <<>> =>
        /\ pc \in Waiting /\ s = op.server
        /\ Len(process[s].inbox) = 1
        /\ process[s].inbox[1].id = op.id
        /\ process[s].inbox[1].call = op.call
        /\ process[s].inbox[1].method = IF pc = "handshake" THEN "initialize" ELSE op.method
        /\ \A i \in DOMAIN process[s].outbox : process[s].outbox[i].id # op.id

\* Once the request was taken, its answer is on the pipe.
AnsweredInv ==
    pc \in Waiting =>
        /\ op.id > 0
        /\ process[op.server].inbox = <<>> =>
              \E i \in DOMAIN process[op.server].outbox : process[op.server].outbox[i].id = op.id

\* The first frame with the id of the request is its answer, and what it says is so.
FirstAnswer(s, i) ==
    /\ process[s].outbox[i].id = op.id
    /\ \A j \in 1 .. i - 1 : process[s].outbox[j].id # op.id
TruthInv ==
    pc \in Waiting => \A i \in DOMAIN process[op.server].outbox :
        FirstAnswer(op.server, i) /\ process[op.server].outbox[i].reply = "result" =>
            IF pc = "handshake" THEN process[op.server].shook
            ELSE op.call # 0 => effects[op.call] = 1

ShookInv ==
    /\ \A s \in Servers : initialized[s] => process[s].shook
    /\ pc \in {"ready", "waiting"} => process[op.server].shook

CallInv ==
    /\ \A c \in Calls : c > asked => status[c] = "idle"
    /\ \A c \in Calls : status[c] = "idle" => effects[c] = 0
    /\ \A c \in Calls : effects[c] \in {0, 1}
    /\ \A c \in Calls : status[c] = "called" => pc \in Waits /\ op.call = c
    /\ pc \in Waits =>
          /\ op.call # 0 <=> op.method = "tools/call"
          /\ op.call # 0 =>
                /\ status[op.call] = "called"
                /\ pc # "waiting" => effects[op.call] = 0
                /\ pc = "waiting" /\ process[op.server].inbox # <<>> =>
                      effects[op.call] = IF process[op.server].inbox[1].done THEN 1 ELSE 0

SpawnInv ==
    pc \in Waits =>
        /\ op.method = "tools/call" => ~op.retried
        /\ op.spawns <= (IF op.retried THEN 2 ELSE 0) + (IF op.again THEN 1 ELSE 0)
                           + (IF pc = "ensure" THEN 0 ELSE 1)

\* shutdown is in the list only while the manager stops, and a tool call never.
LoopInv == pc \notin {"closing", "closed"} => \A i \in DOMAIN todo : todo[i].method \in Repeated

StopInv ==
    /\ pc = "closed" => todo = <<>>
    /\ pc \in {"closing", "closed"} /\ ~unreclaimed =>
          \A s \in Servers : process[s].alive => \E i \in DOMAIN todo : todo[i].server = s

IInv == TypeInv /\ PendingInv /\ AnsweredInv /\ TruthInv /\ ShookInv /\ CallInv /\ SpawnInv /\ LoopInv /\ StopInv

-----------------------------------------------------------------------------
(* Types                                                                   *)

LEMMA LoopTyped ==
    ASSUME NEW method \in Methods \cup {"shutdown"}
    PROVE  ForAll(method) \in Seq(Loops)
<1> DEFINE S == Loops
           n == Len(ServerNames)
<1>1. n \in Nat /\ DOMAIN ServerNames = 1 .. n
  BY ServerNamesAssumption
<1>2. ForAll(method) \in [1 .. n -> S]
  BY <1>1 DEF ForAll, Servers, Range, Loops
<1>3. Seq(S) = UNION {[1 .. k -> S] : k \in Nat}
  BY SeqDef, Zenon
<1> HIDE DEF S, n
<1>4. ForAll(method) \in UNION {[1 .. k -> S] : k \in Nat}
  BY <1>1, <1>2
<1>5. ForAll(method) \in Seq(S)
  BY <1>3, <1>4, Zenon
<1> QED BY <1>5 DEF S

LEMMA InitTypes == Init => TypeInv
<1> SUFFICES ASSUME Init PROVE TypeInv
  OBVIOUS
<1>1. todo \in Seq(Loops)
  BY LoopTyped DEF Init, Methods
<1>2. process \in [Servers -> Processes]
  BY DEF Init, NoProcess, Processes
<1>3. asked \in 0 .. MaxRequests /\ faults \in 0 .. MaxFaults
  BY BoundsAssumption DEF Init
<1>4. op \in IF pc \in Waits THEN Operations ELSE {Idle}
  BY DEF Init, Waits
<1> QED BY <1>1, <1>2, <1>3, <1>4 DEF Init, TypeInv

\* The id of the next request is one the process does not hold.
LEMMA Fresh ==
    ASSUME NEW p, FreshIds(p) # {}
    PROVE  /\ FreshId(p) \in Nat \ {0}
           /\ FreshId(p) # p.last
           /\ \A i \in DOMAIN p.outbox : p.outbox[i].id # FreshId(p)
<1>1. FreshId(p) \in FreshIds(p)
  BY DEF FreshId
<1> QED BY <1>1, BoundsAssumption DEF FreshIds, Held

LEMMA FinishTypes ==
    ASSUME TypeInv, pc \in Waits, NEW outcome \in {"ok", "error"}, Finish(outcome)
    PROVE  /\ pc' \in Waits \cup {"idle", "closing", "closed"}
           /\ op' \in IF pc' \in Waits THEN Operations ELSE {Idle}
           /\ tool_index' \subseteq Servers
           /\ status' \in [Calls -> {"idle", "called", "ok", "error"}]
BY DEF TypeInv, Finish, Waits, Operations

LEMMA ResetTypes ==
    ASSUME TypeInv, NEW s \in Servers, Reset(s)
    PROVE  /\ process' \in [Servers -> Processes]
           /\ initialized' \in [Servers -> BOOLEAN]
BY DEF TypeInv, Reset, Processes, NoProcess

LEMMA TodoTypes ==
    ASSUME TypeInv, todo # <<>>
    PROVE  /\ Tail(todo) \in Seq(Loops)
           /\ Head(todo).server \in Servers /\ Head(todo).method \in Methods \cup {"shutdown"}
<1>1. todo \in Seq(Loops)
  BY DEF TypeInv
<1>2. Head(todo) \in Loops /\ Tail(todo) \in Seq(Loops)
  BY <1>1
<1> QED BY <1>2 DEF Loops

LEMMA SpawnedTypes == NoProcess \in Processes /\ Spawned \in Processes
<1>1. NoProcess \in Processes
  BY DEF NoProcess, Processes
<1>2. Spawned \in Processes
  BY <1>1 DEF Spawned, Processes
<1> QED BY <1>1, <1>2

\* An operation stays one whichever of its fields is set.
LEMMA FieldTypes ==
    ASSUME NEW o \in Operations, NEW n \in Nat, NEW b \in BOOLEAN
    PROVE  /\ [o EXCEPT !.id = n] \in Operations
           /\ [o EXCEPT !.pages = n] \in Operations
           /\ [o EXCEPT !.spawns = n] \in Operations
           /\ [o EXCEPT !.retried = b] \in Operations
           /\ [o EXCEPT !.again = b] \in Operations
BY DEF Operations

LEMMA SentTypes ==
    ASSUME NEW p \in Processes, NEW method \in Methods \cup {"initialize"},
           op \in Operations, FreshIds(p) # {}
    PROVE  Sent(p, method) \in Processes
<1> DEFINE r == [id |-> FreshId(p), method |-> method, call |-> op.call, done |-> FALSE]
<1>1. r \in Requests
  BY Fresh DEF Operations, Requests
<1>2. FreshId(p) \in Nat
  BY Fresh
<1> HIDE DEF r
<1>3. Append(p.inbox, r) \in Seq(Requests)
  BY <1>1 DEF Processes
<1>4. Sent(p, method) = [p EXCEPT !.last = FreshId(p), !.inbox = Append(@, r)]
  BY DEF Sent, r
<1> QED BY <1>2, <1>3, <1>4 DEF Processes

LEMMA TookTypes ==
    ASSUME TypeInv, pc \in Waits, Answered, Took(op.server)
    PROVE  process' \in [Servers -> Processes]
<1>1. op \in Operations /\ op.server \in Servers
  BY DEF TypeInv, Operations
<1>2. process[op.server] \in Processes
  BY <1>1 DEF TypeInv
<1>3. Tail(process[op.server].outbox) \in Seq(Frames)
  BY <1>2 DEF Answered, Processes
<1> QED BY <1>1, <1>2, <1>3 DEF TypeInv, Took, Processes

LEMMA TypeStep ==
    ASSUME IInv, [Next]_vars
    PROVE  TypeInv'
<1> USE DEF TypeInv
<1>a. /\ TypeInv
      /\ pc \in Waits => op \in Operations /\ op.server \in Servers
      /\ pc \in {"ensure", "handshake", "ready", "waiting"} => pc \in Waits
  BY DEF IInv, Waits, Operations
<1>1. CASE AlreadyReady
  BY <1>a, <1>1 DEF AlreadyReady, Proceed, Rest, Waits
<1>2. CASE SpawnFails
  BY <1>a, <1>2, FinishTypes, ResetTypes DEF SpawnFails, Rest
<1>3. CASE Initialize
  <2> DEFINE p == IF ~process[op.server].alive THEN Spawned ELSE process[op.server]
  <2>1. p \in Processes /\ FreshIds(p) # {}
    BY <1>a, <1>3, SpawnedTypes DEF Initialize
  <2>2. Sent(p, "initialize") \in Processes
    BY <1>a, <1>3, <2>1, SentTypes DEF Initialize
  <2>3. process' = [process EXCEPT ![op.server] = Sent(p, "initialize")]
    BY <1>3 DEF Initialize
  <2>4. /\ op' = [op EXCEPT !.id = FreshId(p), !.spawns = @ + IF ~process[op.server].alive THEN 1 ELSE 0]
        /\ op \in Operations
    BY <1>a, <1>3 DEF Initialize
  <2> HIDE DEF p
  <2>6. FreshId(p) \in Nat
    BY <2>1, Fresh
  <2> DEFINE o == [op EXCEPT !.id = FreshId(p)]
             n == op.spawns + IF ~process[op.server].alive THEN 1 ELSE 0
  <2>8. o \in Operations /\ n \in Nat
    BY <2>4, <2>6, FieldTypes DEF Operations
  <2>9. op' = [o EXCEPT !.spawns = n]
    BY <2>4
  <2> HIDE DEF o, n
  <2>7. op' \in Operations
    BY <2>8, <2>9, FieldTypes
  <2>5. process' \in [Servers -> Processes]
    BY <1>a, <1>3, <2>2, <2>3 DEF Initialize
  <2> QED BY <1>a, <1>3, <2>7, <2>5 DEF Initialize, Proceed, Rest, Waits
<1>4. CASE HandshakeAnswered
  <2>0. pc \in Waits /\ Answered /\ Rest
    BY <1>a, <1>4 DEF HandshakeAnswered
  <2>1. CASE Took(op.server) /\ initialized' = [initialized EXCEPT ![op.server] = TRUE]
             /\ Proceed("ready") /\ UNCHANGED op
    BY <1>a, <2>0, <2>1, TookTypes DEF Proceed, Rest, Waits
  <2>2. CASE Refusal(op.server)
    BY <1>a, <2>0, <2>2, TookTypes, FinishTypes DEF Refusal, Rest
  <2>3. CASE Discard(op.server)
    BY <1>a, <2>0, <2>3, ResetTypes, FinishTypes DEF Discard, Rest
  <2> QED BY <1>4, <2>1, <2>2, <2>3 DEF HandshakeAnswered
<1>b. ASSUME RetryOnce, pc \in Waits, Rest PROVE TypeInv'
  <2>1. CASE op.method \in Repeated /\ ~op.retried
    <3>1. op' \in Operations
      <4> DEFINE o == [op EXCEPT !.retried = TRUE]
                 q == [o EXCEPT !.again = FALSE]
      <4>1. o \in Operations
        BY <1>a, <1>b, FieldTypes
      <4>2. op' = [q EXCEPT !.pages = 0]
        BY <1>b, <2>1 DEF RetryOnce
      <4> HIDE DEF o
      <4>3. q \in Operations
        BY <4>1, FieldTypes
      <4> HIDE DEF q
      <4> QED BY <4>2, <4>3, FieldTypes
    <3> QED BY <1>a, <1>b, <2>1, <3>1, ResetTypes DEF RetryOnce, Proceed, Rest, Waits
  <2>2. CASE ~(op.method \in Repeated /\ ~op.retried)
    BY <1>a, <1>b, <2>2, ResetTypes, FinishTypes DEF RetryOnce, Rest
  <2> QED BY <2>1, <2>2
<1>5. CASE HandshakeInterrupted
  <2>1. CASE op.again
    BY <1>a, <1>b, <1>5, <2>1 DEF HandshakeInterrupted
  <2>2. CASE ~op.again
    <3>1. op' \in Operations
      BY <1>a, <1>5, <2>2 DEF HandshakeInterrupted, OnceMore, Operations
    <3> QED BY <1>a, <1>5, <2>2, <3>1, ResetTypes DEF HandshakeInterrupted, Proceed, Rest, Waits
  <2> QED BY <2>1, <2>2
<1>6. CASE SendRequest
  <2>1. process[op.server] \in Processes
    BY <1>a, <1>6 DEF SendRequest
  <2>2. Sent(process[op.server], op.method) \in Processes /\ op' \in Operations
    BY <1>a, <1>6, <2>1, SentTypes, Fresh DEF SendRequest, Operations
  <2> QED BY <1>a, <1>6, <2>2 DEF SendRequest, Proceed, Rest, Waits
<1>7. CASE RequestAnswered
  <2>0. pc \in Waits /\ Answered /\ Rest
    BY <1>a, <1>7 DEF RequestAnswered
  <2>1. CASE Took(op.server) /\ UNCHANGED initialized /\ (Finish("ok") \/ Finish("error"))
    BY <1>a, <2>0, <2>1, TookTypes, FinishTypes DEF Rest
  <2>2. CASE Took(op.server) /\ UNCHANGED initialized /\ op' = [op EXCEPT !.pages = @ + 1] /\ Proceed("ready")
    <3>1. op' \in Operations
      <4>1. op \in Operations /\ op.pages + 1 \in Nat
        BY <1>a, <2>0 DEF Operations
      <4> QED BY <2>2, <4>1, FieldTypes
    <3> QED BY <1>a, <2>0, <2>2, <3>1, TookTypes DEF Proceed, Rest, Waits
  <2>3. CASE Discard(op.server)
    BY <1>a, <2>0, <2>3, ResetTypes, FinishTypes DEF Discard, Rest
  <2> QED BY <1>7, <2>1, <2>2, <2>3 DEF RequestAnswered
<1>8. CASE RequestInterrupted
  BY <1>a, <1>b, <1>8 DEF RequestInterrupted
<1>c. ASSUME NEW method \in Methods, NEW s \in Servers, NEW c \in Calls \cup {0}
      PROVE  Begun(method, s, c) \in Operations
  BY DEF Begun, Operations
<1>9. CASE NextServer
  <2>1. Head(todo).method \in Methods
    BY <1>9, <1>a DEF IInv, LoopInv, NextServer, Repeated
  <2>2. op' \in Operations /\ Tail(todo) \in Seq(Loops)
    BY <1>a, <1>c, <1>9, <2>1, TodoTypes DEF NextServer, Begin
  <2> QED BY <1>a, <1>9, <2>2 DEF NextServer, Begin, Waits
<1>10. CASE ListAll
  <2>1. todo' \in Seq(Loops)
    BY <1>10, LoopTyped DEF ListAll, Methods
  <2>2. asked' \in 0 .. MaxRequests
    BY <1>a, <1>10, BoundsAssumption DEF ListAll, MayAsk
  <2> QED BY <1>a, <1>10, <2>1, <2>2 DEF ListAll, calls
<1>11. ASSUME NEW s \in Servers, CallTool(s) \/ UnknownTool(s) PROVE TypeInv'
  <2>1. asked' \in 0 .. MaxRequests /\ asked + 1 \in Calls
    BY <1>a, <1>11, BoundsAssumption DEF CallTool, UnknownTool, MayAsk, Calls
  <2>2. CASE CallTool(s)
    <3>1. op' \in Operations
      BY <1>c, <2>1, <2>2 DEF CallTool, Begin, Methods
    <3> QED BY <1>a, <2>1, <2>2, <3>1 DEF CallTool, Begin, Waits
  <2>3. CASE UnknownTool(s)
    BY <1>a, <2>1, <2>3 DEF UnknownTool
  <2> QED BY <1>11, <2>2, <2>3
<1>12. ASSUME NEW s \in Servers, ListResources(s) \/ ReadResource(s) PROVE TypeInv'
  BY <1>a, <1>c, <1>12, BoundsAssumption DEF ListResources, ReadResource, OneServer, MayAsk, Begin, Waits, Methods
<1>13. CASE Shutdown
  BY <1>a, <1>13, LoopTyped DEF Shutdown, Settled, calls, Waits
<1>14. CASE ServerStops
  BY <1>a, <1>14, ResetTypes, TodoTypes DEF ServerStops, Settled, calls
<1>15. CASE ReclaimFails
  <2>1. Head(todo).server \in Servers
    BY <1>a, <1>15, TodoTypes DEF ReclaimFails
  <2>2. process' \in [Servers -> Processes]
    <3>1. [process[Head(todo).server] EXCEPT !.alive = FALSE] \in Processes
      BY <1>a, <2>1 DEF Processes
    <3> QED BY <1>a, <1>15, <2>1, <3>1 DEF ReclaimFails
  <2>3. todo' \in Seq(Loops)
    BY <1>15 DEF ReclaimFails
  <2> QED BY <1>a, <1>15, <2>2, <2>3 DEF ReclaimFails, Settled, calls
<1>16. CASE Closed
  BY <1>a, <1>16 DEF Closed, Settled, calls, Waits
<1>17. ASSUME NEW s \in Servers, Execute(s) PROVE TypeInv'
  <2> DEFINE b == process[s].inbox
  <2>1. /\ b \in Seq(Requests) /\ b # <<>>
        /\ process' = [process EXCEPT ![s].inbox = [b EXCEPT ![1].done = TRUE]]
        /\ b[1].call \in Calls
    <3>1. process[s] \in Processes
      BY <1>a
    <3>2. b \in Seq(Requests) /\ b # <<>>
      BY <1>17, <3>1 DEF Execute, Pending, Processes
    <3>3. Head(b) = b[1] /\ b[1] \in Requests
      BY <3>2
    <3>4. b[1].call \in Calls
      BY <1>17, <3>3 DEF Execute, Request, Requests
    <3> QED BY <1>17, <3>2, <3>4 DEF Execute
  <2> HIDE DEF b
  <2>2. [b EXCEPT ![1].done = TRUE] \in Seq(Requests)
    <3>1. 1 \in DOMAIN b /\ b[1] \in Requests
      BY <2>1
    <3>2. [b[1] EXCEPT !.done = TRUE] \in Requests
      BY <3>1 DEF Requests
    <3> QED BY <2>1, <3>1, <3>2
  <2>3. process' \in [Servers -> Processes]
    BY <1>a, <2>1, <2>2 DEF Processes
  <2>4. effects' \in [Calls -> Nat]
    BY <1>a, <1>17, <2>1 DEF Execute, Request, b
  <2> QED BY <1>a, <1>17, <2>3, <2>4 DEF Execute, Manager, client
<1>18. ASSUME NEW s \in Servers, NEW reply \in Replies, Answer(s, reply) PROVE TypeInv'
  <2> DEFINE p == process[s]
             f == [id |-> Request(s).id, reply |-> reply]
  <2>1. /\ p \in Processes /\ p.inbox # <<>>
        /\ f \in Frames
    <3>1. p \in Processes
      BY <1>a
    <3>2. p.inbox \in Seq(Requests) /\ p.inbox # <<>>
      BY <1>18, <3>1 DEF Answer, Pending, Processes
    <3>3. Head(p.inbox).id \in Nat
      <4>1. Head(p.inbox) \in Requests
        BY <3>2
      <4> QED BY <4>1 DEF Requests
    <3>4. f \in Frames
      BY <3>3 DEF Frames, Request
    <3> QED BY <3>1, <3>2, <3>4
  <2>2. Tail(p.inbox) \in Seq(Requests) /\ Append(p.outbox, f) \in Seq(Frames)
    <3> HIDE DEF p, f
    <3> QED BY <2>1 DEF Processes
  <2>3. process' = [process EXCEPT ![s] = [p EXCEPT !.inbox = Tail(p.inbox),
               !.outbox = Append(p.outbox, f),
               !.shook = @ \/ (Request(s).method = "initialize" /\ reply = "result")]]
    BY <1>a, <1>18 DEF Answer
  <2> HIDE DEF p, f
  <2>4. process' \in [Servers -> Processes]
    BY <1>a, <2>1, <2>2, <2>3 DEF Processes
  <2> QED BY <1>a, <1>18, <2>4 DEF Answer, Manager, client
<1>19. ASSUME NEW s \in Servers, Stray(s) \/ Die(s) PROVE TypeInv'
  <2>1. faults' \in 0 .. MaxFaults
    BY <1>a, <1>19, BoundsAssumption DEF Stray, Die
  <2>2. CASE Stray(s)
    <3> DEFINE f == [id |-> IF process[s].inbox = <<>> THEN process[s].last ELSE 0, reply |-> "result"]
    <3>1. f \in Frames /\ process[s] \in Processes
      BY <1>a DEF Frames, Replies, Processes
    <3>2. process' = [process EXCEPT ![s].outbox = Append(@, f)]
      BY <2>2 DEF Stray
    <3> HIDE DEF f
    <3>3. Append(process[s].outbox, f) \in Seq(Frames)
      BY <3>1 DEF Processes
    <3>4. process' \in [Servers -> Processes]
      BY <1>a, <3>2, <3>3 DEF Processes
    <3> QED BY <1>a, <2>1, <2>2, <3>4 DEF Stray, Manager, client
  <2>3. CASE Die(s)
    <3>1. process' \in [Servers -> Processes]
      BY <1>a, <2>3 DEF Die, Processes
    <3> QED BY <1>a, <2>1, <2>3, <3>1 DEF Die, Manager, client
  <2> QED BY <1>19, <2>2, <2>3
<1>20. CASE UNCHANGED vars
  BY <1>a, <1>20 DEF vars, client, calls
<1> QED BY <1>1, <1>2, <1>3, <1>4, <1>5, <1>6, <1>7, <1>8, <1>9, <1>10, <1>11, <1>12, <1>13,
           <1>14, <1>15, <1>16, <1>17, <1>18, <1>19, <1>20 DEF Next, ManagerStep

-----------------------------------------------------------------------------
(* What is on the pipes                                                    *)

LEMMA Typed ==
    ASSUME TypeInv
    PROVE  /\ \A s \in Servers : /\ process[s] \in Processes
                                 /\ process[s].inbox \in Seq(Requests)
                                 /\ process[s].outbox \in Seq(Frames)
                                 /\ process[s].shook \in BOOLEAN /\ process[s].alive \in BOOLEAN
           /\ pc \in Waits => /\ op \in Operations /\ op.server \in Servers
                              /\ op.call \in Calls \cup {0} /\ op.method \in Methods
                              /\ op.id \in Nat /\ op.spawns \in Nat
BY DEF TypeInv, Processes, Operations

\* The steps that neither write a request nor are a server's.
Steps ==
    \/ AlreadyReady \/ SpawnFails \/ HandshakeAnswered \/ HandshakeInterrupted
    \/ RequestAnswered \/ RequestInterrupted \/ NextServer \/ ListAll
    \/ \E s \in Servers : CallTool(s) \/ UnknownTool(s) \/ ListResources(s) \/ ReadResource(s)
    \/ Shutdown \/ ServerStops \/ ReclaimFails \/ Closed

Quiet == \A s \in Servers : process[s].inbox = <<>>

LEMMA StartsQuiet ==
    ASSUME IInv, pc \notin Waiting
    PROVE  Quiet
BY DEF IInv, PendingInv, Quiet

LEMMA MineIsQuiet ==
    ASSUME IInv, pc \in Waiting, Answered, Mine
    PROVE  Quiet
<1>1. /\ op.server \in Servers /\ process[op.server].outbox \in Seq(Frames)
      /\ PendingInv
  BY Typed DEF IInv, Waiting, Waits
<1>2. 1 \in DOMAIN process[op.server].outbox /\ process[op.server].outbox[1].id = op.id
  BY <1>1 DEF Answered, Mine, Frame
<1> QED BY <1>1, <1>2 DEF PendingInv, Quiet

LEMMA TookQuiet ==
    ASSUME IInv, Quiet, NEW s \in Servers, Took(s)
    PROVE  Quiet'
<1>1. process \in [Servers -> Processes]
  BY DEF IInv, TypeInv
<1> QED BY <1>1 DEF Quiet, Took, Processes

LEMMA ResetQuiet ==
    ASSUME IInv, pc \in Waits, Reset(op.server)
    PROVE  Quiet'
<1>1. process \in [Servers -> Processes] /\ op.server \in Servers /\ PendingInv
  BY Typed DEF IInv, TypeInv
<1> QED BY <1>1 DEF Quiet, Reset, NoProcess, PendingInv

LEMMA StepsQuiet ==
    ASSUME IInv, Steps
    PROVE  Quiet' /\ pc' \notin Waiting
<1>a. pc \in Waiting => pc \in Waits
  BY DEF Waiting, Waits
<1>b. pc \in Waits => op.server \in Servers
  BY Typed DEF IInv
<1>c. ASSUME NEW outcome, Finish(outcome) PROVE pc' \notin Waiting
  BY <1>c DEF Finish, Waiting
<1>d. ASSUME NEW where \in {"ensure", "ready"}, Proceed(where) PROVE pc' \notin Waiting
  BY <1>d DEF Proceed, Waiting
<1>e. ASSUME RetryOnce, pc \in Waits PROVE Quiet' /\ pc' \notin Waiting
  BY <1>c, <1>d, <1>e, ResetQuiet DEF RetryOnce
<1>1. CASE AlreadyReady
  BY <1>1, <1>d, StartsQuiet DEF AlreadyReady, Quiet, Waiting
<1>2. CASE SpawnFails
  BY <1>2, <1>c, ResetQuiet DEF SpawnFails, Waits
<1>3. CASE HandshakeAnswered
  <2>1. CASE Mine /\ Took(op.server) /\ (Proceed("ready") \/ Finish("error"))
    BY <1>a, <1>b, <1>c, <1>d, <1>3, <2>1, MineIsQuiet, TookQuiet DEF HandshakeAnswered, Waiting
  <2>2. CASE Discard(op.server)
    BY <1>c, <1>3, <2>2, ResetQuiet DEF HandshakeAnswered, Discard, Waits
  <2> QED BY <1>3, <2>1, <2>2 DEF HandshakeAnswered, Refusal
<1>4. CASE HandshakeInterrupted
  BY <1>4, <1>d, <1>e, ResetQuiet DEF HandshakeInterrupted, Waits
<1>5. CASE RequestAnswered
  <2>1. CASE Mine /\ Took(op.server) /\ (Proceed("ready") \/ Finish("ok") \/ Finish("error"))
    BY <1>a, <1>b, <1>c, <1>d, <1>5, <2>1, MineIsQuiet, TookQuiet DEF RequestAnswered, Waiting
  <2>2. CASE Discard(op.server)
    BY <1>c, <1>5, <2>2, ResetQuiet DEF RequestAnswered, Discard, Waits
  <2> QED BY <1>5, <2>1, <2>2 DEF RequestAnswered
<1>6. CASE RequestInterrupted
  BY <1>6, <1>e DEF RequestInterrupted, Waits
<1>7. CASE NextServer \/ ListAll \/ Shutdown \/ Closed
  BY <1>7, StartsQuiet DEF NextServer, ListAll, MayAsk, Shutdown, Closed, Begin, Quiet, Waiting
<1>8. ASSUME NEW s \in Servers, CallTool(s) \/ UnknownTool(s) \/ ListResources(s) \/ ReadResource(s)
      PROVE Quiet' /\ pc' \notin Waiting
  BY <1>8, StartsQuiet DEF CallTool, UnknownTool, ListResources, ReadResource, OneServer, MayAsk,
                           Begin, Quiet, Waiting
<1>9. CASE ServerStops
  <2>1. Quiet /\ Head(todo).server \in Servers /\ process \in [Servers -> Processes]
    BY <1>9, StartsQuiet, TodoTypes DEF ServerStops, IInv, TypeInv, Waiting
  <2> QED BY <1>9, <2>1 DEF ServerStops, Reset, Quiet, NoProcess, Waiting
<1>10. CASE ReclaimFails
  <2>1. Quiet /\ Head(todo).server \in Servers /\ process \in [Servers -> Processes]
    BY <1>10, StartsQuiet, TodoTypes DEF ReclaimFails, IInv, TypeInv, Waiting
  <2> QED BY <1>10, <2>1 DEF ReclaimFails, Quiet, Processes, Waiting
<1> QED BY <1>1, <1>2, <1>3, <1>4, <1>5, <1>6, <1>7, <1>8, <1>9, <1>10 DEF Steps

\* The two steps that write a request.
Sends == Initialize \/ SendRequest

\* The request is the only one, and no frame on the pipe has its id.
LEMMA Sending ==
    ASSUME IInv, Sends
    PROVE  LET q == process'[op.server] IN
           /\ pc' = IF pc = "ensure" THEN "handshake" ELSE "waiting"
           /\ op.server \in Servers /\ op' \in Operations
           /\ op'.server = op.server /\ op'.call = op.call /\ op'.method = op.method
           /\ op'.id \in Nat \ {0}
           /\ Len(q.inbox) = 1
           /\ q.inbox[1] = [id |-> op'.id, done |-> FALSE, call |-> op.call,
                            method |-> IF pc = "ensure" THEN "initialize" ELSE op.method]
           /\ \A i \in DOMAIN q.outbox : q.outbox[i].id # op'.id
           /\ \A s \in Servers \ {op.server} : process'[s] = process[s] /\ process[s].inbox = <<>>
           /\ pc = "ready" => q.shook = process[op.server].shook
           /\ UNCHANGED <<status, effects, asked, tool_index, todo, unreclaimed>>
<1>1. /\ Quiet /\ op \in Operations /\ op.server \in Servers
      /\ process \in [Servers -> Processes]
  BY StartsQuiet, Typed DEF Sends, Initialize, SendRequest, IInv, TypeInv, Waiting, Waits
<1> DEFINE p == IF pc = "ensure" /\ ~process[op.server].alive THEN Spawned ELSE process[op.server]
           m == IF pc = "ensure" THEN "initialize" ELSE op.method
           n == FreshId(p)
<1>2. /\ process' = [process EXCEPT ![op.server] = Sent(p, m)]
      /\ FreshIds(p) # {}
      /\ pc \in {"ensure", "ready"}
      /\ pc' = IF pc = "ensure" THEN "handshake" ELSE "waiting"
      /\ op'.server = op.server /\ op'.call = op.call /\ op'.method = op.method /\ op'.id = n
      /\ UNCHANGED <<status, effects, asked, tool_index, todo, unreclaimed>>
  <2>1. CASE Initialize
    BY <1>1, <2>1 DEF Initialize, Proceed, Rest, Operations
  <2>2. CASE SendRequest
    <3>1. p = process[op.server] /\ m = op.method
      BY <2>2 DEF SendRequest
    <3>2. op' = [op EXCEPT !.id = n] /\ FreshIds(p) # {}
      BY <2>2, <3>1 DEF SendRequest
    <3>3. process' = [process EXCEPT ![op.server] = Sent(p, m)]
      BY <2>2, <3>1 DEF SendRequest
    <3> HIDE DEF n, m, p
    <3>4. op'.server = op.server /\ op'.call = op.call /\ op'.method = op.method /\ op'.id = n
      BY <1>1, <3>2 DEF Operations
    <3> QED BY <2>2, <3>2, <3>3, <3>4 DEF SendRequest, Proceed, Rest
  <2> QED BY <2>1, <2>2 DEF Sends
<1>3. p \in Processes /\ p.inbox = <<>> /\ (pc = "ready" => p = process[op.server])
  BY <1>1, <1>2, SpawnedTypes DEF Quiet, Spawned, NoProcess
<1>4. op' \in Operations
  BY TypeStep, <1>2 DEF TypeInv, Waits, Sends, Next, ManagerStep
<1> DEFINE r == [id |-> n, method |-> m, call |-> op.call, done |-> FALSE]
<1>5. Sent(p, m) = [p EXCEPT !.last = n, !.inbox = Append(p.inbox, r)]
  BY DEF Sent
<1>6. n \in Nat \ {0} /\ \A i \in DOMAIN p.outbox : p.outbox[i].id # n
  BY <1>2, Fresh
<1>7. r = [id |-> op'.id, done |-> FALSE, call |-> op.call,
           method |-> IF pc = "ensure" THEN "initialize" ELSE op.method]
  BY <1>2
<1> HIDE DEF p, m, n, r
<1>8. Append(p.inbox, r) = <<r>>
  BY <1>3
<1>9. process'[op.server] = [p EXCEPT !.last = n, !.inbox = <<r>>]
  BY <1>1, <1>2, <1>5, <1>8
<1>10. /\ process'[op.server].inbox = <<r>> /\ process'[op.server].outbox = p.outbox
       /\ process'[op.server].shook = p.shook
  BY <1>3, <1>9 DEF Processes
<1>11. \A s \in Servers \ {op.server} : process'[s] = process[s] /\ process[s].inbox = <<>>
  BY <1>1, <1>2 DEF Quiet
<1> DEFINE q == process'[op.server]
<1>12. Len(q.inbox) = 1 /\ q.inbox[1] = r
  <2> HIDE DEF q
  <2>1. q.inbox = <<r>>
    BY <1>10 DEF q
  <2> QED BY <2>1
<1>13. \A i \in DOMAIN q.outbox : q.outbox[i].id # op'.id
  BY <1>2, <1>6, <1>10
<1>14. pc = "ready" => q.shook = process[op.server].shook
  BY <1>3, <1>10
<1>15. op'.id \in Nat \ {0}
  BY <1>2, <1>6
<1> QED BY <1>1, <1>2, <1>4, <1>7, <1>11, <1>12, <1>13, <1>14, <1>15

\* The steps of the servers.
Serves == \E s \in Servers : Execute(s) \/ Stray(s) \/ Die(s) \/ \E reply \in Replies : Answer(s, reply)

LEMMA Serving ==
    ASSUME IInv, Serves
    PROVE  UNCHANGED <<pc, op, client, status, unreclaimed>>
BY DEF Serves, Execute, Stray, Die, Answer, Manager

LEMMA NextCases ==
    ASSUME [Next]_vars
    PROVE  Steps \/ Sends \/ Serves \/ UNCHANGED vars
BY DEF Next, ManagerStep, Steps, Sends, Serves

-----------------------------------------------------------------------------
(* The steps of the servers, read with what is on the pipes                *)

LEMMA OthersKept ==
    ASSUME IInv, NEW s \in Servers,
           Execute(s) \/ Stray(s) \/ Die(s) \/ \E reply \in Replies : Answer(s, reply)
    PROVE  \A t \in Servers \ {s} : process'[t] = process[t]
BY DEF Execute, Stray, Die, Answer, IInv, TypeInv

LEMMA Served ==
    ASSUME IInv, NEW s \in Servers, process[s].inbox # <<>>
    PROVE  /\ pc \in Waiting /\ s = op.server
           /\ Request(s) = process[s].inbox[1] /\ Request(s) \in Requests
           /\ Request(s).id = op.id /\ Request(s).call = op.call
           /\ Request(s).method = IF pc = "handshake" THEN "initialize" ELSE op.method
           /\ \A i \in DOMAIN process[s].outbox : process[s].outbox[i].id # op.id
<1>1. process[s].inbox \in Seq(Requests) /\ PendingInv
  BY Typed DEF IInv
<1>2. Request(s) = process[s].inbox[1] /\ Request(s) \in Requests
  BY <1>1 DEF Request
<1> QED BY <1>1, <1>2 DEF PendingInv

LEMMA Executed ==
    ASSUME IInv, NEW s \in Servers, Execute(s)
    PROVE  /\ process[s].inbox # <<>> /\ pc = "waiting" /\ s = op.server
           /\ op.call \in Calls /\ ~process[s].inbox[1].done
           /\ process'[s].inbox # <<>> /\ Len(process'[s].inbox) = Len(process[s].inbox)
           /\ process'[s].inbox[1] = [process[s].inbox[1] EXCEPT !.done = TRUE]
           /\ process'[s].inbox[1].done
           /\ process'[s].outbox = process[s].outbox
           /\ process'[s].shook = process[s].shook /\ process'[s].alive = process[s].alive
           /\ effects' = [effects EXCEPT ![op.call] = @ + 1]
<1> DEFINE b == process[s].inbox
<1>1. b # <<>> /\ b \in Seq(Requests) /\ process \in [Servers -> Processes]
  BY Typed DEF Execute, Pending, IInv, TypeInv
<1>2. /\ process'[s].inbox = [b EXCEPT ![1].done = TRUE]
      /\ process'[s].outbox = process[s].outbox
      /\ process'[s].shook = process[s].shook /\ process'[s].alive = process[s].alive
  BY <1>1 DEF Execute, Processes
<1>3. Request(s).method = "tools/call" /\ Request(s).call # 0 /\ ~Request(s).done
      /\ effects' = [effects EXCEPT ![Request(s).call] = @ + 1]
  BY DEF Execute
<1>4. pc = "waiting" /\ Request(s).call \in Calls
  BY <1>1, <1>3, Served DEF Requests, Waiting
<1> HIDE DEF b
<1>5. 1 \in DOMAIN b /\ b[1] \in Requests
  BY <1>1
<1> DEFINE e == [b[1] EXCEPT !.done = TRUE]
<1>6. e \in Requests /\ e.done
  BY <1>5 DEF Requests
<1>7. process'[s].inbox = [b EXCEPT ![1] = e]
  BY <1>2
<1> HIDE DEF e
<1>8. Len(process'[s].inbox) = Len(b) /\ process'[s].inbox[1] = e
  BY <1>1, <1>5, <1>6, <1>7, ExceptSeq
<1>9. process'[s].inbox # <<>>
  BY <1>1, <1>8, EmptySeq
<1> QED BY <1>1, <1>2, <1>3, <1>4, <1>6, <1>8, <1>9, Served DEF b, e

LEMMA AnswerSent ==
    ASSUME IInv, NEW s \in Servers, NEW reply \in Replies, Answer(s, reply)
    PROVE  /\ process[s].inbox # <<>> /\ pc \in Waiting /\ s = op.server
           /\ process'[s].inbox = <<>>
           /\ process'[s].outbox = Append(process[s].outbox, [id |-> op.id, reply |-> reply])
           /\ process'[s].shook = (process[s].shook \/ (pc = "handshake" /\ reply = "result"))
           /\ process'[s].alive = process[s].alive
           /\ reply = "result" /\ pc = "waiting" /\ op.method = "tools/call" => process[s].inbox[1].done
           /\ UNCHANGED effects
<1> DEFINE b == process[s].inbox
<1>1. /\ b # <<>> /\ b \in Seq(Requests) /\ process \in [Servers -> Processes]
      /\ Len(b) = 1
  BY Typed DEF Answer, Pending, IInv, TypeInv, PendingInv
<1>2. /\ process'[s].inbox = Tail(b)
      /\ process'[s].outbox = Append(process[s].outbox, [id |-> Request(s).id, reply |-> reply])
      /\ process'[s].shook = (process[s].shook \/ (Request(s).method = "initialize" /\ reply = "result"))
      /\ process'[s].alive = process[s].alive
  BY <1>1 DEF Answer, Processes
<1>3. Request(s).method = IF pc = "handshake" THEN "initialize" ELSE op.method
  BY <1>1, Served
<1>4. pc \in Waiting /\ s = op.server /\ Request(s).id = op.id /\ Request(s) = b[1]
  BY <1>1, Served
<1>5. op.method \in Methods
  BY <1>4, Typed DEF IInv, Waiting, Waits
<1>6. (Request(s).method = "initialize") = (pc = "handshake")
  BY <1>3, <1>5 DEF Methods
<1>7. reply = "result" /\ pc = "waiting" /\ op.method = "tools/call" => b[1].done
  BY <1>3, <1>4 DEF Answer
<1>8. Tail(b) = <<>>
  <2> HIDE DEF b
  <2>1. Len(Tail(b)) = 0 /\ Tail(b) \in Seq(Requests)
    BY <1>1
  <2> QED BY <2>1, EmptySeq
<1>9. process'[s].shook = (process[s].shook \/ (pc = "handshake" /\ reply = "result"))
  BY <1>2, <1>6
<1>10. process'[s].outbox = Append(process[s].outbox, [id |-> op.id, reply |-> reply])
  BY <1>2, <1>4
<1>11. UNCHANGED effects
  BY DEF Answer
<1>12. process'[s].inbox = <<>> /\ process[s].inbox # <<>> /\ process'[s].alive = process[s].alive
  BY <1>1, <1>2, <1>8
<1> QED BY <1>4, <1>7, <1>9, <1>10, <1>11, <1>12

LEMMA Strayed ==
    ASSUME IInv, NEW s \in Servers, Stray(s)
    PROVE  /\ process'[s].inbox = process[s].inbox
           /\ \E f \in Frames :
                 /\ process'[s].outbox = Append(process[s].outbox, f)
                 /\ process[s].inbox # <<>> => f.id = 0
           /\ process'[s].shook = process[s].shook /\ process'[s].alive = process[s].alive
           /\ UNCHANGED effects
<1> DEFINE f == [id |-> IF process[s].inbox = <<>> THEN process[s].last ELSE 0, reply |-> "result"]
<1>1. process \in [Servers -> Processes] /\ process[s] \in Processes
  BY DEF IInv, TypeInv
<1>2. f \in Frames
  BY <1>1 DEF Processes, Frames, Replies
<1>3. process'[s].outbox = Append(process[s].outbox, f)
  BY <1>1 DEF Stray, Processes
<1>4. process'[s].inbox = process[s].inbox /\ process'[s].shook = process[s].shook
      /\ process'[s].alive = process[s].alive
  BY <1>1 DEF Stray, Processes
<1> QED BY <1>2, <1>3, <1>4 DEF Stray

LEMMA Died ==
    ASSUME IInv, NEW s \in Servers, Die(s)
    PROVE  /\ process'[s].inbox = process[s].inbox /\ process'[s].outbox = process[s].outbox
           /\ process'[s].shook = process[s].shook
           /\ UNCHANGED effects
BY DEF IInv, TypeInv, Die, Processes

LEMMA Longer ==
    ASSUME NEW S, NEW q \in Seq(S), NEW e \in S
    PROVE  /\ DOMAIN q = 1 .. Len(q) /\ Len(q) \in Nat
           /\ DOMAIN Append(q, e) = 1 .. Len(q) + 1
           /\ \A i \in 1 .. Len(q) : Append(q, e)[i] = q[i]
           /\ Append(q, e)[Len(q) + 1] = e
OBVIOUS

-----------------------------------------------------------------------------
(* Each part of the invariant is kept                                      *)

LEMMA PendingStep ==
    ASSUME IInv, [Next]_vars
    PROVE  PendingInv'
<1>0. PendingInv /\ TypeInv /\ \A s \in Servers : process[s] \in Processes
  BY DEF IInv, TypeInv
<1>1. CASE Steps
  BY <1>1, StepsQuiet DEF Quiet, PendingInv
<1>2. CASE Sends
  BY <1>2, Sending DEF PendingInv, Waiting
<1>3. CASE Serves
  <2>1. PICK s \in Servers : Execute(s) \/ Stray(s) \/ Die(s) \/ \E reply \in Replies : Answer(s, reply)
    BY <1>3 DEF Serves
  <2>2. pc' = pc /\ op' = op
    BY <1>3, Serving
  <2>3. \A t \in Servers \ {s} : process'[t] = process[t]
    BY <1>0, <2>1 DEF Execute, Stray, Die, Answer, TypeInv
  <2>4. SUFFICES ASSUME process'[s].inbox # <<>>
                 PROVE  /\ pc \in Waiting /\ s = op.server
                        /\ Len(process'[s].inbox) = 1
                        /\ process'[s].inbox[1].id = op.id
                        /\ process'[s].inbox[1].call = op.call
                        /\ process'[s].inbox[1].method =
                              IF pc = "handshake" THEN "initialize" ELSE op.method
                        /\ \A i \in DOMAIN process'[s].outbox : process'[s].outbox[i].id # op.id
    BY <1>0, <2>2, <2>3 DEF PendingInv
  <2>5. CASE Execute(s)
    <3>1. process[s].inbox # <<>> /\ Request(s) \in Requests /\ process[s].inbox[1] = Request(s)
      BY <2>5, Executed, Served
    <3>2. /\ Len(process'[s].inbox) = Len(process[s].inbox)
          /\ process'[s].inbox[1] = [process[s].inbox[1] EXCEPT !.done = TRUE]
          /\ process'[s].outbox = process[s].outbox
      BY <2>5, Executed
    <3>3. /\ process'[s].inbox[1].id = Request(s).id /\ process'[s].inbox[1].call = Request(s).call
          /\ process'[s].inbox[1].method = Request(s).method
      BY <3>1, <3>2 DEF Requests
    <3> QED BY <1>0, <3>1, <3>2, <3>3, Served DEF PendingInv
  <2>6. CASE \E reply \in Replies : Answer(s, reply)
    BY <2>4, <2>6, AnswerSent
  <2>7. CASE Stray(s)
    <3>1. process[s].inbox # <<>> /\ process'[s].inbox = process[s].inbox
      BY <2>4, <2>7, Strayed
    <3>2. PICK f \in Frames : process'[s].outbox = Append(process[s].outbox, f) /\ f.id = 0
      BY <2>7, <3>1, Strayed
    <3>3. \A i \in DOMAIN process'[s].outbox : process'[s].outbox[i] = f
             \/ (i \in DOMAIN process[s].outbox /\ process'[s].outbox[i] = process[s].outbox[i])
      <4>1. process[s].outbox \in Seq(Frames)
        BY <1>0, Typed
      <4> DEFINE q == process[s].outbox
      <4> HIDE DEF q
      <4>2. \A i \in DOMAIN Append(q, f) : Append(q, f)[i] = f \/ (i \in DOMAIN q /\ Append(q, f)[i] = q[i])
        BY <4>1, Longer DEF q
      <4> QED BY <3>2, <4>2 DEF q
    <3>4. op.id \in Nat \ {0}
      BY <1>0, <3>1, Served, Typed DEF IInv, AnsweredInv, Waiting, Waits
    <3> QED BY <1>0, <3>1, <3>2, <3>3, <3>4 DEF PendingInv
  <2>8. CASE Die(s)
    BY <1>0, <2>4, <2>8, Died DEF PendingInv
  <2> QED BY <2>1, <2>5, <2>6, <2>7, <2>8
<1>4. CASE UNCHANGED vars
  BY <1>0, <1>4 DEF PendingInv, vars
<1> QED BY <1>1, <1>2, <1>3, <1>4, NextCases

LEMMA AnsweredStep ==
    ASSUME IInv, [Next]_vars
    PROVE  AnsweredInv'
<1>0. AnsweredInv /\ TypeInv
  BY DEF IInv
<1>1. CASE Steps
  BY <1>1, StepsQuiet DEF AnsweredInv
<1>2. CASE Sends
  <2>1. process'[op.server].inbox # <<>> /\ op'.server = op.server /\ op'.id \in Nat \ {0}
    <3>1. Len(process'[op.server].inbox) = 1
      BY <1>2, Sending
    <3>2. Len(<<>>) = 0
      BY EmptySeq
    <3> QED BY <1>2, <3>1, <3>2, Sending
  <2> QED BY <2>1 DEF AnsweredInv
<1>3. CASE Serves
  <2>1. PICK s \in Servers : Execute(s) \/ Stray(s) \/ Die(s) \/ \E reply \in Replies : Answer(s, reply)
    BY <1>3 DEF Serves
  <2>2. pc' = pc /\ op' = op
    BY <1>3, Serving
  <2>3. SUFFICES ASSUME pc \in Waiting, s = op.server, process'[s].inbox = <<>>
                 PROVE  \E i \in DOMAIN process'[s].outbox : process'[s].outbox[i].id = op.id
    <3>1. pc \in Waiting => op.server \in Servers
      BY <1>0, Typed DEF Waiting, Waits
    <3> QED BY <1>0, <2>1, <2>2, <3>1, OthersKept DEF AnsweredInv
  <2>4. process[s].outbox \in Seq(Frames) /\ op.id \in Nat
    BY <1>0, <2>3, Typed DEF Waiting, Waits
  <2>5. CASE Execute(s)
    BY <2>3, <2>5, Executed
  <2>6. CASE \E reply \in Replies : Answer(s, reply)
    <3>1. PICK f \in Frames : process'[s].outbox = Append(process[s].outbox, f) /\ f.id = op.id
      <4>1. PICK reply \in Replies : Answer(s, reply)
        BY <2>6
      <4>2. process'[s].outbox = Append(process[s].outbox, [id |-> op.id, reply |-> reply])
        BY <4>1, AnswerSent
      <4>3. [id |-> op.id, reply |-> reply] \in Frames
        BY <2>4 DEF Frames
      <4> QED BY <4>2, <4>3
    <3> DEFINE q == process[s].outbox
    <3> HIDE DEF q
    <3>2. Len(q) + 1 \in DOMAIN Append(q, f) /\ Append(q, f)[Len(q) + 1] = f
      BY <2>4, Longer DEF q
    <3> QED BY <3>1, <3>2 DEF q
  <2>7. CASE Stray(s)
    <3>1. PICK f \in Frames : process'[s].outbox = Append(process[s].outbox, f)
      BY <2>7, Strayed
    <3>2. PICK i \in DOMAIN process[s].outbox : process[s].outbox[i].id = op.id
      BY <1>0, <2>3, <2>7, Strayed DEF AnsweredInv
    <3> DEFINE q == process[s].outbox
    <3>3. i \in DOMAIN q /\ q[i].id = op.id
      BY <3>2
    <3> HIDE DEF q
    <3>4. i \in DOMAIN Append(q, f) /\ Append(q, f)[i] = q[i]
      BY <2>4, <3>3, Longer DEF q
    <3> QED BY <3>1, <3>3, <3>4 DEF q
  <2>8. CASE Die(s)
    BY <1>0, <2>3, <2>8, Died DEF AnsweredInv
  <2> QED BY <2>1, <2>5, <2>6, <2>7, <2>8
<1>4. CASE UNCHANGED vars
  BY <1>0, <1>4 DEF AnsweredInv, vars
<1> QED BY <1>1, <1>2, <1>3, <1>4, NextCases

LEMMA TruthStep ==
    ASSUME IInv, [Next]_vars
    PROVE  TruthInv'
<1>0. TruthInv /\ TypeInv
  BY DEF IInv
<1>1. CASE Steps
  BY <1>1, StepsQuiet DEF TruthInv
<1>2. CASE Sends
  <2>1. \A i \in DOMAIN process'[op.server].outbox : process'[op.server].outbox[i].id # op'.id
    BY <1>2, Sending
  <2>2. op'.server = op.server
    BY <1>2, Sending
  <2> QED BY <2>1, <2>2 DEF TruthInv, FirstAnswer
<1>3. CASE Serves
  <2>1. PICK s \in Servers : Execute(s) \/ Stray(s) \/ Die(s) \/ \E reply \in Replies : Answer(s, reply)
    BY <1>3 DEF Serves
  <2>2. pc' = pc /\ op' = op
    BY <1>3, Serving
  <2>3. CASE pc \in Waiting /\ s # op.server
    <3>1. op.server \in Servers
      BY <1>0, <2>3, Typed DEF Waiting, Waits
    <3>2. process'[op.server] = process[op.server]
      BY <2>1, <2>3, <3>1, OthersKept
    <3>3. effects' = effects
      BY <2>1, <2>3, Executed, Strayed, Died, AnswerSent
    <3> QED BY <1>0, <2>2, <3>2, <3>3 DEF TruthInv, FirstAnswer
  <2>4. CASE pc \in Waiting /\ s = op.server
    <3> DEFINE q == process[s].outbox
               r == process'[s].outbox
               Worth == IF pc = "handshake" THEN process'[s].shook ELSE op.call # 0 => effects'[op.call] = 1
    <3>1. /\ q \in Seq(Frames) /\ op.id \in Nat
          /\ op.call \in Calls \cup {0} /\ op.method \in Methods
      BY <1>0, <2>4, Typed DEF Waiting, Waits
    <3>2. SUFFICES ASSUME NEW i \in DOMAIN r, r[i].id = op.id, \A j \in 1 .. i - 1 : r[j].id # op.id,
                          r[i].reply = "result"
                   PROVE  Worth
      BY <2>2, <2>4 DEF TruthInv, FirstAnswer
    <3>3. CASE Execute(s)
      <4>1. r = q /\ process[s].inbox # <<>>
        BY <3>3, Executed
      <4>2. \A j \in DOMAIN q : q[j].id # op.id
        BY <4>1, Served
      <4> QED BY <3>2, <4>1, <4>2
    <3>4. ASSUME NEW reply \in Replies, Answer(s, reply) PROVE Worth
      <4> DEFINE f == [id |-> op.id, reply |-> reply]
      <4>1. /\ r = Append(q, f) /\ f \in Frames
            /\ \A j \in DOMAIN q : q[j].id # op.id
        BY <3>1, <3>4, AnswerSent, Served DEF Frames
      <4>2. f.reply = reply
        OBVIOUS
      <4>3. reply = "result"
        <5> HIDE DEF q, r, f
        <5> QED BY <3>1, <3>2, <4>1, <4>2, Longer
      <4>4. CASE pc = "handshake"
        BY <3>4, <4>3, <4>4, AnswerSent
      <4>5. CASE pc = "waiting" /\ op.call # 0
        <5>1. op.method = "tools/call"
          BY <4>5 DEF IInv, CallInv, Waits
        <5>2. process[s].inbox # <<>> /\ process[s].inbox[1].done
          BY <3>4, <4>3, <4>5, <5>1, AnswerSent
        <5>3. effects' = effects /\ effects[op.call] = 1
          BY <2>4, <3>4, <4>5, <5>2, AnswerSent DEF IInv, CallInv, Waits
        <5> QED BY <4>5, <5>3
      <4> QED BY <2>4, <4>4, <4>5 DEF Waiting
    <3>5. CASE Stray(s)
      <4>1. PICK f \in Frames : r = Append(q, f) /\ (process[s].inbox # <<>> => f.id = 0)
        BY <3>5, Strayed
      <4>2. op.id > 0
        BY <2>4 DEF IInv, AnsweredInv
      <4>3. process[s].inbox # <<>> => \A j \in DOMAIN q : q[j].id # op.id
        BY Served
      <4>4. process[s].inbox = <<>> => \E j \in DOMAIN q : q[j].id = op.id
        BY <2>4 DEF IInv, AnsweredInv
      <4>5. i \in DOMAIN q /\ q[i] = r[i] /\ \A j \in 1 .. i - 1 : q[j] = r[j]
        <5> HIDE DEF q, r
        <5>1. i \in 1 .. Len(q) + 1 /\ Len(q) \in Nat /\ DOMAIN q = 1 .. Len(q)
          BY <3>1, <3>2, <4>1, Longer
        <5>2. \A j \in 1 .. Len(q) : r[j] = q[j]
          BY <3>1, <4>1, Longer
        <5>3. CASE i = Len(q) + 1
          <6>1. r[i] = f
            BY <3>1, <4>1, <5>3, Longer
          <6>2. \A j \in DOMAIN q : q[j].id # op.id
            BY <3>2, <5>1, <5>2, <5>3
          <6> QED BY <3>2, <4>1, <4>2, <4>4, <6>1, <6>2
        <5> QED BY <5>1, <5>2, <5>3
      <4>6. FirstAnswer(s, i) /\ q[i].reply = "result"
        BY <3>2, <4>5 DEF FirstAnswer
      <4>7. process'[s].shook = process[s].shook /\ effects' = effects
        BY <3>5, Strayed
      <4> QED BY <1>0, <2>4, <4>5, <4>6, <4>7 DEF TruthInv
    <3>6. CASE Die(s)
      BY <1>0, <2>4, <3>2, <3>6, Died DEF TruthInv, FirstAnswer
    <3> QED BY <2>1, <3>3, <3>4, <3>5, <3>6
  <2>5. CASE pc \notin Waiting
    BY <2>2, <2>5 DEF TruthInv
  <2> QED BY <2>3, <2>4, <2>5
<1>4. CASE UNCHANGED vars
  BY <1>0, <1>4 DEF TruthInv, FirstAnswer, vars, calls
<1> QED BY <1>1, <1>2, <1>3, <1>4, NextCases

LEMMA ShookStep ==
    ASSUME IInv, [Next]_vars
    PROVE  ShookInv'
<1>0. /\ ShookInv /\ TypeInv /\ process \in [Servers -> Processes]
      /\ initialized \in [Servers -> BOOLEAN]
      /\ pc \in Waits => op.server \in Servers
  BY Typed DEF IInv, TypeInv
<1>a. ASSUME NEW s \in Servers, Reset(s), pc' \notin {"ready", "waiting"}
      PROVE  ShookInv'
  BY <1>0, <1>a DEF Reset, ShookInv
<1>b. ASSUME pc \in Waits, Took(op.server), UNCHANGED initialized,
             pc' \in {"ready", "waiting"} => op'.server = op.server /\ pc = "waiting"
      PROVE  ShookInv'
  <2>1. \A s \in Servers : process'[s].shook = process[s].shook
    BY <1>0, <1>b DEF Took, Processes
  <2> QED BY <1>0, <1>b, <2>1 DEF ShookInv
<1>c. ASSUME RetryOnce, pc \in Waits PROVE ShookInv'
  BY <1>0, <1>a, <1>c DEF RetryOnce, Finish, Proceed
<1>d. ASSUME pc \in Waits, Discard(op.server) PROVE ShookInv'
  BY <1>0, <1>a, <1>d DEF Discard, Finish
<1>e. ASSUME UNCHANGED <<process, initialized>>, pc' \notin {"ready", "waiting"} PROVE ShookInv'
  BY <1>0, <1>e DEF ShookInv
<1>1. CASE AlreadyReady
  BY <1>0, <1>1 DEF AlreadyReady, Ready, Proceed, ShookInv, Waits
<1>2. CASE SpawnFails
  BY <1>0, <1>a, <1>2 DEF SpawnFails, Finish, Waits
<1>3. CASE HandshakeAnswered
  <2>1. CASE /\ Mine /\ Frame.reply = "result" /\ Took(op.server) /\ Proceed("ready") /\ op' = op
             /\ initialized' = [initialized EXCEPT ![op.server] = TRUE]
    <3>1. pc = "handshake" /\ op.server \in Servers /\ Answered
      BY <1>0, <1>3 DEF HandshakeAnswered, Waits
    <3>2. process[op.server].outbox \in Seq(Frames)
      BY <1>0, <3>1, Typed
    <3>3. 1 \in DOMAIN process[op.server].outbox /\ Frame = process[op.server].outbox[1]
      BY <3>1, <3>2 DEF Frame, Answered
    <3>4. FirstAnswer(op.server, 1)
      BY <2>1, <3>3 DEF FirstAnswer, Mine
    <3>5. process[op.server].shook
      BY <2>1, <3>1, <3>3, <3>4 DEF IInv, TruthInv, Waiting
    <3>6. \A s \in Servers : process'[s].shook = process[s].shook
      BY <1>0, <2>1 DEF Took, Processes
    <3> QED BY <1>0, <2>1, <3>1, <3>5, <3>6 DEF ShookInv, Proceed
  <2>2. CASE Refusal(op.server)
    BY <1>0, <1>b, <1>3, <2>2 DEF HandshakeAnswered, Refusal, Finish, Waits
  <2>3. CASE Discard(op.server)
    BY <1>d, <1>3, <2>3 DEF HandshakeAnswered, Waits
  <2> QED BY <1>3, <2>1, <2>2, <2>3 DEF HandshakeAnswered
<1>4. CASE HandshakeInterrupted
  BY <1>0, <1>a, <1>c, <1>4 DEF HandshakeInterrupted, Proceed, Waits
<1>5. CASE RequestAnswered
  <2>1. CASE Took(op.server) /\ UNCHANGED initialized /\ (Finish("ok") \/ Finish("error"))
    BY <1>b, <1>5, <2>1 DEF RequestAnswered, Finish, Waits
  <2>2. CASE /\ Took(op.server) /\ UNCHANGED initialized /\ Proceed("ready")
             /\ op' = [op EXCEPT !.pages = @ + 1]
    <3>1. op'.server = op.server /\ pc = "waiting"
      BY <1>5, <2>2, Typed DEF RequestAnswered, IInv, Operations, Waits
    <3> QED BY <1>b, <2>2, <3>1 DEF Waits
  <2>3. CASE Discard(op.server)
    BY <1>d, <1>5, <2>3 DEF RequestAnswered, Waits
  <2> QED BY <1>5, <2>1, <2>2, <2>3 DEF RequestAnswered
<1>6. CASE RequestInterrupted
  BY <1>c, <1>6 DEF RequestInterrupted, Waits
<1>7. CASE NextServer \/ ListAll \/ Shutdown \/ Closed
  BY <1>e, <1>7 DEF NextServer, ListAll, MayAsk, Shutdown, Closed, Begin
<1>8. ASSUME NEW s \in Servers, CallTool(s) \/ UnknownTool(s) \/ ListResources(s) \/ ReadResource(s)
      PROVE ShookInv'
  BY <1>e, <1>8 DEF CallTool, UnknownTool, ListResources, ReadResource, OneServer, MayAsk, Begin
<1>9. CASE ServerStops
  BY <1>0, <1>a, <1>9, TodoTypes DEF ServerStops
<1>10. CASE ReclaimFails
  <2>1. \A s \in Servers : process'[s].shook = process[s].shook
    BY <1>0, <1>10 DEF ReclaimFails, Processes
  <2> QED BY <1>0, <1>10, <2>1 DEF ReclaimFails, ShookInv
<1>11. CASE Sends
  <2>1. /\ op.server \in Servers /\ op'.server = op.server
        /\ \A s \in Servers \ {op.server} : process'[s] = process[s]
        /\ pc = "ready" => process'[op.server].shook = process[op.server].shook
        /\ pc' = IF pc = "ensure" THEN "handshake" ELSE "waiting"
    BY <1>11, Sending
  <2>2. CASE Initialize
    <3>1. initialized' = [initialized EXCEPT ![op.server] = FALSE] /\ pc' = "handshake"
      BY <2>2 DEF Initialize, Proceed
    <3> QED BY <1>0, <2>1, <3>1 DEF ShookInv
  <2>3. CASE SendRequest
    <3>1. pc = "ready" /\ UNCHANGED initialized
      BY <2>3 DEF SendRequest
    <3> QED BY <1>0, <2>1, <3>1 DEF ShookInv
  <2> QED BY <1>11, <2>2, <2>3 DEF Sends
<1>12. CASE Serves
  <2>1. PICK s \in Servers : Execute(s) \/ Stray(s) \/ Die(s) \/ \E reply \in Replies : Answer(s, reply)
    BY <1>12 DEF Serves
  <2>2. pc' = pc /\ op' = op /\ initialized' = initialized
    BY <1>12, Serving DEF client
  <2>3. \A t \in Servers : process[t].shook => process'[t].shook
    <3>1. process[s].shook => process'[s].shook
      BY <2>1, Executed, Strayed, Died, AnswerSent
    <3> QED BY <2>1, <3>1, OthersKept
  <2>4. pc \in {"ready", "waiting"} => op.server \in Servers
    BY <1>0 DEF Waits
  <2> QED BY <1>0, <2>2, <2>3, <2>4 DEF ShookInv
<1>13. CASE UNCHANGED vars
  BY <1>0, <1>13 DEF ShookInv, vars, client
<1> QED BY <1>1, <1>2, <1>3, <1>4, <1>5, <1>6, <1>7, <1>8, <1>9, <1>10,
           <1>11, <1>12, <1>13, NextCases DEF Steps

LEMMA CallStep ==
    ASSUME IInv, [Next]_vars
    PROVE  CallInv'
<1>0. /\ CallInv
      /\ status \in [Calls -> {"idle", "called", "ok", "error"}]
      /\ effects \in [Calls -> Nat] /\ asked \in Nat
      /\ pc \in Waits => op \in Operations /\ op.call \in Calls \cup {0} /\ op.method \in Methods
      /\ Calls \subseteq Nat \ {0}
      /\ Waits = {"ensure", "handshake", "ready", "waiting"}
  BY Typed DEF IInv, TypeInv, Calls, Waits
\* An operation ends.
<1>a. ASSUME pc \in Waits, NEW outcome \in {"ok", "error"}, Finish(outcome), UNCHANGED <<asked, effects>>
      PROVE  CallInv'
  <2>1. /\ pc' = "idle"
        /\ status' = IF op.call = 0 THEN status ELSE [status EXCEPT ![op.call] = outcome]
    BY <1>a DEF Finish
  <2>2. \A c \in Calls : /\ c = op.call => status'[c] = outcome /\ status[c] = "called"
                         /\ c # op.call => status'[c] = status[c] /\ status[c] # "called"
    BY <1>0, <1>a, <2>1 DEF CallInv
  <2> QED BY <1>0, <1>a, <2>1, <2>2 DEF CallInv
\* It goes on.
<1>b. ASSUME pc \in Waits, pc' \in Waits \ {"waiting"}, op'.call = op.call, op'.method = op.method,
             UNCHANGED <<asked, effects, status>>, pc = "waiting" => op.method # "tools/call"
      PROVE  CallInv'
  BY <1>0, <1>b DEF CallInv
\* One that is no tool call begins.
<1>c. ASSUME pc = "idle", pc' = "ensure", op'.call = 0, op'.method # "tools/call",
             asked' \in {asked, asked + 1}, UNCHANGED <<effects, status>>
      PROVE  CallInv'
  BY <1>0, <1>c DEF CallInv
\* None is under way.
<1>d. ASSUME pc \notin Waits, pc' \notin Waits, asked' \in {asked, asked + 1}, UNCHANGED <<effects, status>>
      PROVE  CallInv'
  BY <1>0, <1>d DEF CallInv
<1>e. ASSUME pc \in Waits, RetryOnce, UNCHANGED <<asked, effects>>
      PROVE  CallInv'
  <2>1. CASE op.method \in Repeated /\ ~op.retried
    <3>1. op'.call = op.call /\ op'.method = op.method /\ pc' = "ensure" /\ UNCHANGED status
      BY <1>0, <1>e, <2>1 DEF RetryOnce, Operations, Proceed
    <3> QED BY <1>0, <1>b, <1>e, <2>1, <3>1 DEF Repeated
  <2>2. CASE ~(op.method \in Repeated /\ ~op.retried)
    BY <1>a, <1>e, <2>2 DEF RetryOnce
  <2> QED BY <2>1, <2>2
<1>f. ASSUME Rest PROVE UNCHANGED <<asked, effects>>
  BY <1>f DEF Rest
<1>1. CASE AlreadyReady
  BY <1>0, <1>b, <1>f, <1>1 DEF AlreadyReady, Proceed
<1>2. CASE SpawnFails
  BY <1>0, <1>a, <1>f, <1>2 DEF SpawnFails
<1>3. CASE HandshakeAnswered
  <2>0. pc = "handshake" /\ Rest
    BY <1>3 DEF HandshakeAnswered
  <2>1. CASE Proceed("ready") /\ UNCHANGED op
    BY <1>0, <1>b, <1>f, <2>0, <2>1 DEF Proceed
  <2>2. CASE Finish("error")
    BY <1>0, <1>a, <1>f, <2>0, <2>2
  <2> QED BY <1>3, <2>1, <2>2 DEF HandshakeAnswered, Refusal, Discard
<1>4. CASE HandshakeInterrupted
  <2>0. pc = "handshake" /\ Rest
    BY <1>4 DEF HandshakeInterrupted
  <2>1. CASE RetryOnce
    BY <1>0, <1>e, <1>f, <2>0, <2>1
  <2>2. CASE op' = OnceMore /\ Proceed("ensure")
    <3>1. op'.call = op.call /\ op'.method = op.method
      BY <1>0, <2>0, <2>2 DEF OnceMore, Operations
    <3> QED BY <1>0, <1>b, <1>f, <2>0, <2>2, <3>1 DEF Proceed
  <2> QED BY <1>4, <2>1, <2>2 DEF HandshakeInterrupted
<1>5. CASE RequestAnswered
  <2>0. pc = "waiting" /\ Rest
    BY <1>5 DEF RequestAnswered
  <2>1. CASE op.method \in Paged /\ op' = [op EXCEPT !.pages = @ + 1] /\ Proceed("ready")
    <3>1. op'.call = op.call /\ op'.method = op.method
      BY <1>0, <2>0, <2>1 DEF Operations
    <3> QED BY <1>0, <1>b, <1>f, <2>0, <2>1, <3>1 DEF Proceed, Paged
  <2>2. CASE Finish("ok") \/ Finish("error")
    BY <1>0, <1>a, <1>f, <2>0, <2>2
  <2> QED BY <1>5, <2>1, <2>2 DEF RequestAnswered, Discard
<1>6. CASE RequestInterrupted
  BY <1>0, <1>e, <1>f, <1>6 DEF RequestInterrupted
<1>7. CASE NextServer
  <2>1. Head(todo).method \in Repeated
    BY <1>7 DEF NextServer, IInv, TypeInv, LoopInv
  <2> QED BY <1>c, <1>7, <2>1 DEF NextServer, Begin, Begun, Repeated
<1>8. CASE ListAll \/ Shutdown \/ Closed \/ ServerStops \/ ReclaimFails
  BY <1>0, <1>d, <1>8 DEF ListAll, MayAsk, Shutdown, Closed, ServerStops, ReclaimFails, Settled, calls
<1>9. ASSUME NEW s \in Servers, CallTool(s)
      PROVE  CallInv'
  <2>1. /\ pc = "idle" /\ asked < MaxRequests /\ asked' = asked + 1
        /\ status' = [status EXCEPT ![asked + 1] = "called"]
        /\ op' = Begun("tools/call", s, asked + 1) /\ pc' = "ensure" /\ UNCHANGED effects
    BY <1>9 DEF CallTool, MayAsk, Begin
  <2>2. asked + 1 \in Calls /\ asked + 1 # 0
    BY <1>0, <2>1, BoundsAssumption DEF Calls
  <2>3. status[asked + 1] = "idle" /\ effects[asked + 1] = 0
    BY <1>0, <2>2 DEF CallInv
  <2>4. op'.call = asked + 1 /\ op'.method = "tools/call"
    BY <2>1 DEF Begun
  <2>5. \A c \in Calls : /\ c = asked + 1 => status'[c] = "called"
                         /\ c # asked + 1 => status'[c] = status[c] /\ status[c] # "called"
    BY <1>0, <2>1, <2>2 DEF CallInv
  <2> QED BY <1>0, <2>1, <2>2, <2>3, <2>4, <2>5 DEF CallInv
<1>10. ASSUME NEW s \in Servers, UnknownTool(s)
       PROVE  CallInv'
  <2>1. /\ pc = "idle" /\ pc' = "idle" /\ asked < MaxRequests /\ asked' = asked + 1
        /\ status' = [status EXCEPT ![asked + 1] = "error"] /\ UNCHANGED effects
    BY <1>10 DEF UnknownTool, MayAsk
  <2>2. \A c \in Calls : /\ c = asked + 1 => status'[c] = "error"
                         /\ c # asked + 1 => status'[c] = status[c]
    BY <1>0, <2>1
  <2>3. pc \notin Waits /\ pc' \notin Waits
    BY <1>0, <2>1
  <2> QED BY <1>0, <2>1, <2>2, <2>3 DEF CallInv
<1>11. ASSUME NEW s \in Servers, ListResources(s) \/ ReadResource(s)
       PROVE  CallInv'
  BY <1>c, <1>11 DEF ListResources, ReadResource, OneServer, MayAsk, Begin, Begun
<1>12. CASE Sends
  <2>0. op.server \in Servers /\ op'.server = op.server /\ op'.call = op.call /\ op'.method = op.method
        /\ UNCHANGED <<status, effects, asked>>
        /\ pc' = IF pc = "ensure" THEN "handshake" ELSE "waiting"
    BY <1>12, Sending
  <2>1. CASE Initialize
    BY <1>0, <1>b, <2>0, <2>1 DEF Initialize
  <2>2. CASE SendRequest
    <3>1. pc = "ready" /\ pc' = "waiting"
      BY <2>0, <2>2 DEF SendRequest
    <3>2. process'[op.server].inbox[1].done = FALSE
      BY <1>12, Sending
    <3> QED BY <1>0, <2>0, <3>1, <3>2 DEF CallInv
  <2> QED BY <1>12, <2>1, <2>2 DEF Sends
<1>13. CASE Serves
  <2>1. PICK s \in Servers : Execute(s) \/ Stray(s) \/ Die(s) \/ \E reply \in Replies : Answer(s, reply)
    BY <1>13 DEF Serves
  <2>2. pc' = pc /\ op' = op /\ status' = status /\ asked' = asked
    BY <1>13, Serving DEF client
  <2>3. pc \in Waits => op.server \in Servers
    BY Typed DEF IInv
  <2>4. CASE Execute(s)
    <3>1. /\ pc = "waiting" /\ s = op.server /\ op.call \in Calls
          /\ process[s].inbox # <<>> /\ ~process[s].inbox[1].done
          /\ process'[s].inbox[1].done
          /\ effects' = [effects EXCEPT ![op.call] = @ + 1]
      BY <2>4, Executed
    <3>2. effects[op.call] = 0 /\ status[op.call] = "called"
      BY <1>0, <3>1 DEF CallInv
    <3>3. effects'[op.call] = 1 /\ \A c \in Calls \ {op.call} : effects'[c] = effects[c]
      BY <1>0, <3>1, <3>2
    <3> QED BY <1>0, <2>2, <3>1, <3>2, <3>3 DEF CallInv
  <2>5. CASE Stray(s) \/ Die(s) \/ \E reply \in Replies : Answer(s, reply)
    <3>1. effects' = effects
      BY <2>5, AnswerSent, Strayed, Died
    <3>2. \A t \in Servers : process'[t].inbox # <<>> => process'[t].inbox = process[t].inbox
      <4>1. process'[s].inbox # <<>> => process'[s].inbox = process[s].inbox
        <5>1. CASE \E reply \in Replies : Answer(s, reply)
          BY <5>1, AnswerSent
        <5>2. CASE Stray(s) \/ Die(s)
          BY <5>2, Strayed, Died
        <5> QED BY <2>5, <5>1, <5>2
      <4> QED BY <2>1, <4>1, OthersKept
    <3> QED BY <1>0, <2>2, <2>3, <3>1, <3>2 DEF CallInv
  <2> QED BY <2>1, <2>4, <2>5
<1>14. CASE UNCHANGED vars
  BY <1>0, <1>14 DEF CallInv, vars, client, calls
<1> QED BY <1>1, <1>2, <1>3, <1>4, <1>5, <1>6, <1>7, <1>8, <1>9, <1>10,
           <1>11, <1>12, <1>13, <1>14, NextCases DEF Steps

LEMMA SpawnStep ==
    ASSUME IInv, [Next]_vars
    PROVE  SpawnInv'
<1>0. /\ SpawnInv
      /\ pc \in Waits => op \in Operations /\ op.spawns \in Nat
      /\ Waits = {"ensure", "handshake", "ready", "waiting"}
  BY Typed DEF IInv, Waits
<1>a. ASSUME pc' \notin Waits PROVE SpawnInv'
  BY <1>a DEF SpawnInv
<1>b. ASSUME NEW outcome, Finish(outcome) PROVE SpawnInv'
  BY <1>0, <1>a, <1>b DEF Finish
\* From where the spawn is counted.
<1>c. ASSUME pc \in Waits, op'.method = op.method, op'.retried = op.retried, op'.again = op.again,
             op'.spawns = op.spawns, pc' # "ensure"
      PROVE  SpawnInv'
  BY <1>0, <1>c DEF SpawnInv
<1>d. ASSUME pc = "idle", op'.retried = FALSE, op'.again = FALSE, op'.spawns = 0
      PROVE  SpawnInv'
  BY <1>d DEF SpawnInv
<1>e. ASSUME RetryOnce, pc \in Waits PROVE SpawnInv'
  <2>1. CASE op.method \in Repeated /\ ~op.retried
    <3>1. op' = [op EXCEPT !.retried = TRUE, !.again = FALSE, !.pages = 0] /\ pc' = "ensure"
      BY <1>e, <2>1 DEF RetryOnce, Proceed
    <3>2. op'.method = op.method /\ op'.retried /\ op'.spawns = op.spawns /\ ~op'.again
      BY <1>0, <1>e, <3>1 DEF Operations
    <3>3. op.spawns <= 2
      BY <1>0, <1>e, <2>1 DEF SpawnInv
    <3> QED BY <1>0, <1>e, <2>1, <3>1, <3>2, <3>3 DEF SpawnInv, Repeated
  <2>2. CASE ~(op.method \in Repeated /\ ~op.retried)
    BY <1>b, <1>e, <2>2 DEF RetryOnce
  <2> QED BY <2>1, <2>2
<1>1. CASE AlreadyReady
  BY <1>0, <1>c, <1>1 DEF AlreadyReady, Proceed
<1>2. CASE SpawnFails
  BY <1>b, <1>2 DEF SpawnFails
<1>3. CASE HandshakeAnswered
  <2>1. CASE Proceed("ready") /\ UNCHANGED op
    BY <1>0, <1>c, <1>3, <2>1 DEF HandshakeAnswered, Proceed
  <2>2. CASE Finish("error")
    BY <1>b, <2>2
  <2> QED BY <1>3, <2>1, <2>2 DEF HandshakeAnswered, Refusal, Discard
<1>4. CASE HandshakeInterrupted
  <2>1. CASE RetryOnce
    BY <1>0, <1>e, <1>4, <2>1 DEF HandshakeInterrupted
  <2>2. CASE op' = OnceMore /\ Proceed("ensure") /\ ~op.again
    <3>1. /\ op'.method = op.method /\ op'.retried = op.retried /\ op'.again /\ op'.spawns = op.spawns
          /\ pc = "handshake" /\ pc' = "ensure"
      BY <1>0, <1>4, <2>2 DEF HandshakeInterrupted, OnceMore, Operations, Proceed
    <3> QED BY <1>0, <2>2, <3>1 DEF SpawnInv
  <2> QED BY <1>4, <2>1, <2>2 DEF HandshakeInterrupted
<1>5. CASE RequestAnswered
  <2>1. CASE op' = [op EXCEPT !.pages = @ + 1] /\ Proceed("ready")
    <3>1. /\ op'.method = op.method /\ op'.retried = op.retried /\ op'.again = op.again
          /\ op'.spawns = op.spawns
      BY <1>0, <1>5, <2>1 DEF RequestAnswered, Operations
    <3> QED BY <1>0, <1>c, <1>5, <2>1, <3>1 DEF RequestAnswered, Proceed
  <2>2. CASE Finish("ok") \/ Finish("error")
    BY <1>b, <2>2
  <2> QED BY <1>5, <2>1, <2>2 DEF RequestAnswered, Discard
<1>6. CASE RequestInterrupted
  BY <1>0, <1>e, <1>6 DEF RequestInterrupted
<1>7. CASE NextServer
  BY <1>d, <1>7 DEF NextServer, Begin, Begun
<1>8. CASE ListAll \/ Shutdown \/ Closed \/ ServerStops \/ ReclaimFails
  BY <1>0, <1>a, <1>8 DEF ListAll, MayAsk, Shutdown, Closed, ServerStops, ReclaimFails
<1>9. ASSUME NEW s \in Servers, CallTool(s) \/ UnknownTool(s) \/ ListResources(s) \/ ReadResource(s)
      PROVE  SpawnInv'
  <2>1. CASE UnknownTool(s)
    BY <1>0, <1>a, <2>1 DEF UnknownTool, MayAsk
  <2>2. ASSUME NEW method, NEW c, op' = Begun(method, s, c), pc = "idle"
        PROVE  SpawnInv'
    BY <1>d, <2>2 DEF Begun
  <2>3. CASE CallTool(s) \/ ListResources(s) \/ ReadResource(s)
    BY <2>2, <2>3 DEF CallTool, ListResources, ReadResource, OneServer, MayAsk, Begin
  <2> QED BY <1>9, <2>1, <2>3
<1>10. CASE Initialize
  <2> DEFINE n == FreshId(IF ~process[op.server].alive THEN Spawned ELSE process[op.server])
             k == IF ~process[op.server].alive THEN 1 ELSE 0
  <2>1. /\ op' = [op EXCEPT !.id = n, !.spawns = @ + k]
        /\ pc = "ensure" /\ pc' = "handshake"
    BY <1>10 DEF Initialize, Proceed
  <2> HIDE DEF n
  <2>2. op'.method = op.method /\ op'.retried = op.retried /\ op'.again = op.again
    BY <1>0, <2>1 DEF Operations
  <2>3. op'.spawns <= op.spawns + 1
    BY <1>0, <2>1 DEF Operations
  <2>4. op'.spawns \in Nat
    BY <1>0, <2>1 DEF Operations
  <2> QED BY <1>0, <2>1, <2>2, <2>3, <2>4 DEF SpawnInv
<1>11. CASE SendRequest
  <2> DEFINE n == FreshId(process[op.server])
  <2>1. op' = [op EXCEPT !.id = n] /\ pc = "ready" /\ pc' = "waiting"
    BY <1>11 DEF SendRequest, Proceed
  <2> HIDE DEF n
  <2>2. /\ op'.method = op.method /\ op'.retried = op.retried /\ op'.again = op.again
        /\ op'.spawns = op.spawns
    BY <1>0, <2>1 DEF Operations
  <2> QED BY <1>0, <1>c, <2>1, <2>2
<1>12. CASE Serves \/ UNCHANGED vars
  <2>1. pc' = pc /\ op' = op
    BY <1>12, Serving DEF vars
  <2> QED BY <1>0, <2>1 DEF SpawnInv
<1> QED BY <1>1, <1>2, <1>3, <1>4, <1>5, <1>6, <1>7, <1>8, <1>9, <1>10,
           <1>11, <1>12, NextCases DEF Steps, Sends

LEMMA TailElements ==
    ASSUME NEW S, NEW q \in Seq(S), q # <<>>
    PROVE  /\ DOMAIN q = 1 .. Len(q) /\ Len(q) \in Nat \ {0}
           /\ DOMAIN Tail(q) = 1 .. Len(q) - 1
           /\ \A i \in 1 .. Len(q) - 1 : Tail(q)[i] = q[i + 1]
           /\ Head(q) = q[1]
OBVIOUS

LEMMA LoopOver ==
    ASSUME NEW method
    PROVE  /\ \A i \in DOMAIN ForAll(method) : ForAll(method)[i].method = method
           /\ \A s \in Servers : \E i \in DOMAIN ForAll(method) : ForAll(method)[i].server = s
BY DEF ForAll, Servers, Range

LEMMA LoopStep ==
    ASSUME IInv, [Next]_vars
    PROVE  LoopInv'
<1>0. LoopInv /\ todo \in Seq(Loops) /\ Waits = {"ensure", "handshake", "ready", "waiting"}
      /\ pc \in Waits \cup {"idle", "closing", "closed"}
  BY DEF IInv, TypeInv, Waits
<1>1. CASE UNCHANGED todo /\ pc \notin {"closing", "closed"}
  BY <1>0, <1>1 DEF LoopInv
<1>2. CASE NextServer
  <2> DEFINE q == todo
  <2>1. q # <<>> /\ todo' = Tail(q) /\ \A i \in DOMAIN q : q[i].method \in Repeated
    BY <1>0, <1>2 DEF NextServer, LoopInv
  <2>2. \A i \in DOMAIN Tail(q) : Tail(q)[i].method \in Repeated
    <3> HIDE DEF q
    <3>1. q \in Seq(Loops)
      BY <1>0 DEF q
    <3> QED BY <2>1, <3>1, TailElements
  <2> QED BY <2>1, <2>2 DEF LoopInv
<1>3. CASE ListAll
  BY <1>3, LoopOver DEF ListAll, LoopInv, Repeated, Methods
<1>4. CASE Shutdown \/ ServerStops \/ ReclaimFails \/ Closed
  BY <1>4 DEF Shutdown, ServerStops, ReclaimFails, Closed, LoopInv
<1>5. CASE Serves \/ UNCHANGED vars
  BY <1>0, <1>5, Serving DEF LoopInv, vars, client
<1>6. CASE Sends
  BY <1>0, <1>1, <1>6, Sending DEF Sends, Initialize, SendRequest
<1>7. ASSUME NEW s \in Servers, CallTool(s) \/ UnknownTool(s) \/ ListResources(s) \/ ReadResource(s)
      PROVE  LoopInv'
  BY <1>1, <1>7 DEF CallTool, UnknownTool, ListResources, ReadResource, OneServer, MayAsk
<1>8. CASE AlreadyReady \/ SpawnFails \/ HandshakeAnswered \/ HandshakeInterrupted
           \/ RequestAnswered \/ RequestInterrupted
  BY <1>1, <1>8 DEF AlreadyReady, SpawnFails, HandshakeAnswered, HandshakeInterrupted,
                    RequestAnswered, RequestInterrupted, Rest
<1> QED BY <1>2, <1>3, <1>4, <1>5, <1>6, <1>7, <1>8, NextCases DEF Steps

LEMMA StopStep ==
    ASSUME IInv, [Next]_vars
    PROVE  StopInv'
<1>0. /\ StopInv /\ todo \in Seq(Loops) /\ process \in [Servers -> Processes]
      /\ Waits = {"ensure", "handshake", "ready", "waiting"}
      /\ unreclaimed \in BOOLEAN
  BY DEF IInv, TypeInv, Waits
<1>1. CASE pc' \notin {"closing", "closed"}
  BY <1>1 DEF StopInv
<1>2. CASE Shutdown
  BY <1>2, LoopOver DEF Shutdown, StopInv
<1>3. CASE ServerStops
  <2> DEFINE q == todo
  <2>1. /\ pc = "closing" /\ pc' = "closing" /\ q # <<>> /\ todo' = Tail(q) /\ unreclaimed' = unreclaimed
        /\ process' = [process EXCEPT ![Head(q).server] = NoProcess]
    BY <1>3 DEF ServerStops, Reset
  <2>2. ASSUME ~unreclaimed, NEW s \in Servers, process'[s].alive
        PROVE  \E i \in DOMAIN Tail(q) : Tail(q)[i].server = s
    <3>1. s # Head(q).server /\ process[s].alive
      BY <1>0, <2>1, <2>2 DEF NoProcess
    <3>2. PICK i \in DOMAIN q : q[i].server = s
      BY <1>0, <2>1, <2>2, <3>1 DEF StopInv
    <3>3. q \in Seq(Loops)
      BY <1>0
    <3> HIDE DEF q
    <3>4. i # 1 /\ i - 1 \in 1 .. Len(q) - 1 /\ Tail(q)[i - 1] = q[i]
      BY <2>1, <3>1, <3>2, <3>3, TailElements
    <3> QED BY <2>1, <3>2, <3>3, <3>4, TailElements
  <2> QED BY <2>1, <2>2 DEF StopInv
<1>4. CASE ReclaimFails
  BY <1>4 DEF ReclaimFails, StopInv
<1>5. CASE Closed
  BY <1>0, <1>5 DEF Closed, StopInv
<1>6. CASE Serves
  <2>1. PICK s \in Servers : Execute(s) \/ Stray(s) \/ Die(s) \/ \E reply \in Replies : Answer(s, reply)
    BY <1>6 DEF Serves
  <2>2. process'[s].alive => process[s].alive
    BY <2>1 DEF Execute, Stray, Die, Answer, Pending
  <2>3. \A t \in Servers : process'[t].alive => process[t].alive
    BY <2>1, <2>2, OthersKept
  <2> QED BY <1>0, <1>6, <2>3, Serving DEF StopInv, client
<1>7. CASE UNCHANGED vars
  BY <1>0, <1>7 DEF StopInv, vars, client
<1>8. CASE Sends
  BY <1>1, <1>8, Sending
<1>9. ASSUME NEW s \in Servers, CallTool(s) \/ UnknownTool(s) \/ ListResources(s) \/ ReadResource(s)
      PROVE  StopInv'
  BY <1>1, <1>9 DEF CallTool, UnknownTool, ListResources, ReadResource, OneServer, MayAsk, Begin
<1>10. CASE AlreadyReady \/ SpawnFails \/ HandshakeAnswered \/ HandshakeInterrupted
            \/ RequestAnswered \/ RequestInterrupted
  BY <1>1, <1>10 DEF AlreadyReady, SpawnFails, HandshakeAnswered, HandshakeInterrupted,
             RequestAnswered, RequestInterrupted, RetryOnce, Refusal, Discard, Finish, Proceed
<1>11. CASE NextServer \/ ListAll
  BY <1>1, <1>11 DEF NextServer, ListAll, MayAsk, Begin
<1> QED BY <1>2, <1>3, <1>4, <1>5, <1>6, <1>7, <1>8, <1>9, <1>10, <1>11, NextCases DEF Steps

-----------------------------------------------------------------------------
(* The theorems                                                            *)

LEMMA InitInv == Init => IInv
<1> SUFFICES ASSUME Init PROVE IInv
  OBVIOUS
<1>1. TypeInv
  BY InitTypes
<1>2. PendingInv
  BY DEF Init, PendingInv, NoProcess
<1>3. AnsweredInv /\ TruthInv /\ SpawnInv
  BY DEF Init, AnsweredInv, TruthInv, SpawnInv, Waiting, Waits
<1>4. ShookInv
  BY DEF Init, ShookInv
<1>5. CallInv
  BY DEF Init, CallInv, Waits
<1>6. LoopInv
  BY LoopOver DEF Init, LoopInv, Repeated, Methods
<1>7. StopInv
  BY DEF Init, StopInv
<1> QED BY <1>1, <1>2, <1>3, <1>4, <1>5, <1>6, <1>7 DEF IInv

\* In every state the pipe of each server holds at most the request the manager
\* waits for, the answers on it are truthful, and the books on tool calls, spawns
\* and shutdown agree with the processes.
THEOREM InvariantHolds == Spec => []IInv
<1>1. IInv /\ [Next]_vars => IInv'
  BY TypeStep, PendingStep, AnsweredStep, TruthStep, ShookStep, CallStep, SpawnStep,
     LoopStep, StopStep DEF IInv
<1> QED BY <1>1, InitInv, PTL DEF Spec

\* The manager's types, and at most one request on a pipe at a time.
THEOREM TypeCorrect == Spec => []TypeOK
<1>1. IInv => TypeOK
  <2> SUFFICES ASSUME IInv PROVE TypeOK
    OBVIOUS
  <2>1. \A s \in Servers : Len(process[s].inbox) <= 1
    <3>1. \A s \in Servers : process[s].inbox = <<>> => Len(process[s].inbox) = 0
      BY EmptySeq
    <3>2. \A s \in Servers : process[s].inbox # <<>> => Len(process[s].inbox) = 1
      BY DEF IInv, PendingInv
    <3> TAKE s \in Servers
    <3> DEFINE n == Len(process[s].inbox)
    <3>3. n \in {0, 1}
      BY <3>1, <3>2
    <3> HIDE DEF n
    <3>4. n <= 1
      BY <3>3
    <3> QED BY <3>4 DEF n
  <2> QED BY <2>1 DEF IInv, TypeInv, TypeOK, Loops
<1> QED BY <1>1, InvariantHolds, PTL

\* No request but initialize reaches a process that has not accepted initialize.
THEOREM HandshakeComesFirst == Spec => []HandshakeFirst
<1>1. IInv => HandshakeFirst
  <2> SUFFICES ASSUME IInv, NEW s \in Servers, process[s].inbox # <<>>, ~process[s].shook
               PROVE  Request(s).method = "initialize"
    BY DEF HandshakeFirst
  <2>1. /\ pc \in Waiting /\ s = op.server
        /\ Request(s).method = IF pc = "handshake" THEN "initialize" ELSE op.method
    BY Served
  <2>2. pc # "waiting"
    BY <2>1 DEF IInv, ShookInv
  <2> QED BY <2>1, <2>2 DEF Waiting
<1> QED BY <1>1, InvariantHolds, PTL

\* Between operations no server the manager kept has a request to answer.
THEOREM NothingLeftPending == Spec => []GivenUpIsKilled
<1>1. IInv => GivenUpIsKilled
  BY StartsQuiet DEF GivenUpIsKilled, Quiet, Waiting
<1> QED BY <1>1, InvariantHolds, PTL

\* Two nested retries start four processes for an operation at most, two for a tool call.
THEOREM SpawnsStayBounded == Spec => []SpawnsBounded
<1>1. IInv => SpawnsBounded
  BY Typed DEF IInv, SpawnInv, SpawnsBounded
<1> QED BY <1>1, InvariantHolds, PTL

\* Shutdown leaves no server running, unless it could not reclaim a process tree.
THEOREM ShutdownIsComplete == Spec => []ShutdownStopsAll
<1>1. IInv => ShutdownStopsAll
  BY DEF IInv, StopInv, ShutdownStopsAll
<1> QED BY <1>1, InvariantHolds, PTL

LEMMA FinishKeepsPromise ==
    ASSUME IInv, pc \in Waits, NEW outcome \in {"ok", "error"}, Finish(outcome), UNCHANGED effects,
           outcome = "ok" /\ op.call # 0 => effects[op.call] = 1
    PROVE  [Promise!Next]_calls
<1>1. op.call \in Calls \cup {0} /\ (op.call # 0 => status[op.call] = "called")
  BY Typed DEF IInv, CallInv
<1>2. status' = IF op.call = 0 THEN status ELSE [status EXCEPT ![op.call] = outcome]
  BY DEF Finish
<1>3. CASE op.call = 0
  BY <1>2, <1>3 DEF calls
<1>4. CASE op.call # 0
  BY <1>1, <1>2, <1>4 DEF Promise!Next, Promise!Return
<1> QED BY <1>3, <1>4

LEMMA StepKeepsPromise ==
    ASSUME IInv, [Next]_vars
    PROVE  [Promise!Next]_calls
<1>0. pc \in Waits => op.call \in Calls \cup {0}
  BY Typed DEF IInv
<1>a. ASSUME pc \in Waits, Finish("error"), Rest PROVE [Promise!Next]_calls
  BY <1>a, FinishKeepsPromise DEF Rest
<1>b. ASSUME NEW where, Proceed(where), Rest PROVE [Promise!Next]_calls
  BY <1>b DEF Proceed, Rest, calls
<1>c. ASSUME pc \in Waits, RetryOnce, Rest PROVE [Promise!Next]_calls
  BY <1>a, <1>b, <1>c DEF RetryOnce
<1>1. CASE AlreadyReady \/ Initialize \/ SendRequest
  BY <1>b, <1>1 DEF AlreadyReady, Initialize, SendRequest
<1>2. CASE SpawnFails
  BY <1>a, <1>2 DEF SpawnFails, Waits
<1>3. CASE HandshakeAnswered
  BY <1>a, <1>b, <1>3 DEF HandshakeAnswered, Refusal, Discard, Waits
<1>4. CASE HandshakeInterrupted
  BY <1>b, <1>c, <1>4 DEF HandshakeInterrupted, Waits
<1>5. CASE RequestAnswered
  <2>0. pc = "waiting" /\ pc \in Waits /\ Rest /\ Answered /\ op.server \in Servers
    BY <1>5, Typed DEF RequestAnswered, IInv, Waits
  <2>1. CASE Mine /\ Frame.reply = "result" /\ Finish("ok")
    <3>1. process[op.server].outbox \in Seq(Frames)
      BY <2>0, Typed DEF IInv
    <3>2. 1 \in DOMAIN process[op.server].outbox /\ Frame = process[op.server].outbox[1]
      BY <2>0, <3>1 DEF Frame, Answered
    <3>3. FirstAnswer(op.server, 1)
      BY <2>1, <3>2 DEF FirstAnswer, Mine
    <3>4. op.call # 0 => effects[op.call] = 1
      BY <2>0, <2>1, <3>2, <3>3 DEF IInv, TruthInv, Waiting
    <3> QED BY <2>0, <2>1, <3>4, FinishKeepsPromise DEF Rest
  <2>2. CASE Proceed("ready") \/ Finish("error")
    BY <1>a, <1>b, <2>0, <2>2
  <2> QED BY <1>5, <2>1, <2>2 DEF RequestAnswered, Discard
<1>6. CASE RequestInterrupted
  BY <1>c, <1>6 DEF RequestInterrupted, Waits
<1>7. CASE NextServer \/ ListAll \/ Shutdown \/ ServerStops \/ ReclaimFails \/ Closed
  BY <1>7 DEF NextServer, ListAll, Begin, Shutdown, ServerStops, ReclaimFails, Closed, Settled, calls
<1>8. ASSUME NEW s \in Servers, CallTool(s) \/ UnknownTool(s)
      PROVE  [Promise!Next]_calls
  <2>1. asked + 1 \in Calls /\ status[asked + 1] = "idle"
    <3>1. asked < MaxRequests
      BY <1>8 DEF CallTool, UnknownTool, MayAsk
    <3>2. asked + 1 \in Calls /\ asked + 1 > asked
      BY <3>1, BoundsAssumption DEF Calls, IInv, TypeInv
    <3> QED BY <3>2 DEF IInv, CallInv
  <2>2. UNCHANGED effects
    BY <1>8 DEF CallTool, UnknownTool, Begin
  <2>3. CASE CallTool(s)
    BY <2>1, <2>2, <2>3 DEF CallTool, Promise!Next, Promise!Invoke
  <2>4. CASE UnknownTool(s)
    BY <2>1, <2>2, <2>4 DEF UnknownTool, Promise!Next, Promise!Refuse
  <2> QED BY <1>8, <2>3, <2>4
<1>9. ASSUME NEW s \in Servers, ListResources(s) \/ ReadResource(s)
      PROVE  [Promise!Next]_calls
  BY <1>9 DEF ListResources, ReadResource, OneServer, Begin, calls
<1>10. CASE Serves
  <2>1. PICK s \in Servers : Execute(s) \/ Stray(s) \/ Die(s) \/ \E reply \in Replies : Answer(s, reply)
    BY <1>10 DEF Serves
  <2>2. UNCHANGED status
    BY <1>10, Serving
  <2>3. CASE Execute(s)
    <3>1. /\ pc = "waiting" /\ s = op.server /\ op.call \in Calls /\ op.call # 0
          /\ process[s].inbox # <<>> /\ ~process[s].inbox[1].done
          /\ effects' = [effects EXCEPT ![op.call] = @ + 1]
      <4>1. \A c \in Calls : c # 0
        BY DEF Calls
      <4> QED BY <2>3, <4>1, Executed
    <3>2. status[op.call] = "called" /\ effects[op.call] = 0
      BY <3>1 DEF IInv, CallInv, Waits
    <3>3. effects' = [effects EXCEPT ![op.call] = 1]
      BY <3>1, <3>2 DEF IInv, TypeInv
    <3> QED BY <2>2, <3>1, <3>2, <3>3 DEF Promise!Next, Promise!Execute
  <2>4. CASE Stray(s) \/ Die(s) \/ \E reply \in Replies : Answer(s, reply)
    BY <2>2, <2>4, Strayed, Died, AnswerSent DEF calls
  <2> QED BY <2>1, <2>3, <2>4
<1>11. CASE UNCHANGED vars
  BY <1>11 DEF vars
<1> QED BY <1>1, <1>2, <1>3, <1>4, <1>5, <1>6, <1>7, <1>8, <1>9, <1>10, <1>11,
           NextCases DEF Steps, Sends

\* The manager implements McpCall: whatever a server says, does or leaves undone,
\* a tool call is carried out at most once, never after the caller was told it
\* failed, and told ok only when it was carried out.
THEOREM CallPromise == Spec => PromiseKept
<1>1. Init => Promise!Init
  BY DEF Init, Promise!Init
<1>2. calls = Promise!vars
  BY DEF calls, Promise!vars
<1>3. IInv /\ [Next]_vars => [Promise!Next]_(Promise!vars)
  BY <1>2, StepKeepsPromise DEF calls, Promise!vars
<1> QED BY <1>1, <1>3, InvariantHolds, PTL DEF Spec, PromiseKept, Promise!Spec
=============================================================================
