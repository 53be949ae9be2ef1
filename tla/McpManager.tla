----------------------------- MODULE McpManager -----------------------------
(***************************************************************************)
(* The MCP client of one turn runtime: RuntimeMcpState (cli_args.rs) over  *)
(* McpServerManager (runtime/src/mcp_stdio.rs), and the server processes   *)
(* at the other end of the pipes.  The manager runs one operation at a     *)
(* time to its end (a mutex and block_on around &mut self); the servers    *)
(* run beside it: they may carry out a request and never answer, answer    *)
(* with an error, say something nobody asked for, or die.  A deadline may  *)
(* pass at every wait.                                                     *)
(***************************************************************************)
EXTENDS Naturals, Sequences, Functions

CONSTANTS ServerNames,  \* the configured stdio servers, in key order
          MaxRequests,  \* bound: operations the model asks for after discovery
          MaxPages,     \* bound: times a server says a list goes on
          MaxFaults     \* bound: stray frames and deaths of servers

ASSUME ServerNamesAssumption == ServerNames \in Seq(STRING)
ASSUME BoundsAssumption == MaxRequests \in Nat /\ MaxPages \in Nat /\ MaxFaults \in Nat

VARIABLES process,        \* the child and the two ends of its pipes
          initialized,    \* the manager holds its handshake done
          tool_index,     \* servers whose tools have a route
          todo,           \* rest of the loop over server_names
          op,             \* the operation under way
          pc,             \* where in it the manager waits
          asked,          \* operations begun after discovery
          faults,
          unreclaimed,    \* shutdown gave up on a process tree (history)
          status, effects \* what became of each tool call (history)

client == <<initialized, tool_index, todo, asked>>
calls == <<status, effects>>
vars == <<process, op, pc, faults, unreclaimed, client, calls>>

Servers == Range(ServerNames)
Calls == 1 .. MaxRequests

Methods == {"tools/list", "tools/call", "resources/list", "resources/read"}
Paged == {"tools/list", "resources/list"}     \* follow next_cursor
\* Mutant: a tool call is tried again like the rest.
RepeatedAll == Methods
Repeated == Methods \ {"tools/call"}          \* the outer loop tries these again
Replies == {"result", "more", "error", "empty"}

Requests == [id : Nat, method : Methods \cup {"initialize"}, call : Calls \cup {0}, done : BOOLEAN]
Frames == [id : Nat, reply : Replies]

\* shook: the server accepted initialize; last: the id of the latest request to it.
Processes == [alive : BOOLEAN, shook : BOOLEAN, last : Nat,
              inbox : Seq(Requests), outbox : Seq(Frames)]
NoProcess == [alive |-> FALSE, shook |-> FALSE, last |-> 0, inbox |-> <<>>, outbox |-> <<>>]
Spawned == [NoProcess EXCEPT !.alive = TRUE]

\* retried: the operation is in its second attempt; again: its handshake is;
\* call: the number of the tool call, 0 for the rest; spawns: processes started for it.
Operations == [method : Methods, server : Servers, call : Calls \cup {0}, id : Nat,
               retried : BOOLEAN, again : BOOLEAN, pages : Nat, spawns : Nat]
Idle == [method |-> "none"]
Begun(method, s, c) ==
    [method |-> method, server |-> s, call |-> c, id |-> 0,
     retried |-> FALSE, again |-> FALSE, pages |-> 0, spawns |-> 0]

Waits == {"ensure", "handshake", "ready", "waiting"}

TypeOK ==
    /\ process \in [Servers -> Processes]
    /\ \A s \in Servers : Len(process[s].inbox) <= 1
    /\ initialized \in [Servers -> BOOLEAN]
    /\ tool_index \subseteq Servers
    /\ todo \in Seq([method : Methods \cup {"shutdown"}, server : Servers])
    /\ pc \in Waits \cup {"idle", "closing", "closed"}
    /\ op \in IF pc \in Waits THEN Operations ELSE {Idle}
    /\ asked \in 0 .. MaxRequests
    /\ faults \in 0 .. MaxFaults
    /\ unreclaimed \in BOOLEAN
    /\ status \in [Calls -> {"idle", "called", "ok", "error"}]
    /\ effects \in [Calls -> Nat]

ForAll(method) == [i \in DOMAIN ServerNames |-> [method |-> method, server |-> ServerNames[i]]]

\* RuntimeMcpState::new: discovery of every server comes first.
Init ==
    /\ process = [s \in Servers |-> NoProcess]
    /\ initialized = [s \in Servers |-> FALSE]
    /\ tool_index = {}
    /\ todo = ForAll("tools/list")
    /\ pc = "idle" /\ op = Idle
    /\ asked = 0 /\ faults = 0 /\ unreclaimed = FALSE
    /\ status = [c \in Calls |-> "idle"]
    /\ effects = [c \in Calls |-> 0]

-----------------------------------------------------------------------------
(* Operations begin                                                        *)

Begin(method, s, c) ==
    /\ op' = Begun(method, s, c)
    /\ pc' = "ensure"
    /\ UNCHANGED <<process, initialized, tool_index, faults, unreclaimed, effects>>

\* The next server of a loop over server_names.
NextServer ==
    /\ pc = "idle" /\ todo # <<>>
    /\ todo' = Tail(todo)
    /\ Begin(Head(todo).method, Head(todo).server, 0)
    /\ UNCHANGED <<asked, status>>

MayAsk == pc = "idle" /\ todo = <<>> /\ asked < MaxRequests

CallTool(s) ==
    /\ MayAsk /\ s \in tool_index
    /\ asked' = asked + 1
    /\ status' = [status EXCEPT ![asked + 1] = "called"]
    /\ Begin("tools/call", s, asked + 1)
    /\ UNCHANGED todo

UnknownTool(s) ==
    /\ MayAsk /\ s \notin tool_index
    /\ asked' = asked + 1
    /\ status' = [status EXCEPT ![asked + 1] = "error"]
    /\ UNCHANGED <<process, initialized, tool_index, todo, op, pc,
                   faults, unreclaimed, effects>>

OneServer(method, s) ==
    /\ MayAsk
    /\ asked' = asked + 1
    /\ Begin(method, s, 0)
    /\ UNCHANGED <<todo, status>>

ListResources(s) == OneServer("resources/list", s)
ReadResource(s) == OneServer("resources/read", s)

\* list_resources_for_all_servers
ListAll ==
    /\ MayAsk
    /\ asked' = asked + 1
    /\ todo' = ForAll("resources/list")
    /\ UNCHANGED <<process, initialized, tool_index, op, pc,
                   faults, unreclaimed, calls>>

-----------------------------------------------------------------------------
(* Operations end                                                          *)

\* reset_server: forget the handshake, take the process and kill its tree.
Reset(s) ==
    /\ process' = [process EXCEPT ![s] = NoProcess]
    /\ initialized' = [initialized EXCEPT ![s] = FALSE]

Took(s) == process' = [process EXCEPT ![s].outbox = Tail(@)]

Finish(outcome) ==
    /\ pc' = "idle" /\ op' = Idle
    /\ tool_index' = IF op.method # "tools/list" THEN tool_index
                     ELSE IF outcome = "ok" THEN tool_index \cup {op.server}
                     ELSE tool_index \ {op.server}
    /\ status' = IF op.call = 0 THEN status ELSE [status EXCEPT ![op.call] = outcome]

Proceed(where) ==
    /\ pc' = where
    /\ UNCHANGED <<tool_index, status>>

\* Mutant: an invalid response does not end the process.
DiscardKeeps(s) == Took(s) /\ UNCHANGED initialized /\ Finish("error")

\* An invalid response: the process is not trusted any more, and nothing is repeated.
Discard(s) == Reset(s) /\ Finish("error")

\* An error of the pipe or a deadline: reset, and once more unless it is a tool call.
RetryOnce ==
    /\ Reset(op.server)
    /\ IF op.method \in Repeated /\ ~op.retried
       THEN /\ op' = [op EXCEPT !.retried = TRUE, !.again = FALSE, !.pages = 0]
            /\ Proceed("ensure")
       ELSE Finish("error")

-----------------------------------------------------------------------------
(* ensure_server_ready                                                     *)

Rest == UNCHANGED <<todo, asked, faults, unreclaimed, effects>>

\* has_exited: the handshake of a process that is gone no longer counts.
Ready(s) == initialized[s] /\ process[s].alive

AlreadyReady ==
    /\ pc = "ensure" /\ Ready(op.server)
    /\ Proceed("ready")
    /\ UNCHANGED <<op, process, initialized>> /\ Rest

SpawnFails ==
    /\ pc = "ensure" /\ ~process[op.server].alive
    /\ Reset(op.server)
    /\ Finish("error")
    /\ Rest

\* take_request_id never gives a number twice.  Ids are only compared, and only with
\* those this process may still send, so any id it does not hold stands for the next.
Held(p) == {p.last} \cup {p.outbox[i].id : i \in DOMAIN p.outbox}
FreshIds(p) == (1 .. MaxFaults + 2) \ Held(p)
FreshId(p) == CHOOSE id \in FreshIds(p) : TRUE

Sent(p, method) ==
    [p EXCEPT !.last = FreshId(p),
              !.inbox = Append(@, [id |-> FreshId(p), method |-> method,
                                   call |-> op.call, done |-> FALSE])]

\* Spawn where there is no process, and write the initialize request.
Initialize ==
    LET s == op.server
        fresh == ~process[s].alive
        p == IF fresh THEN Spawned ELSE process[s] IN
    /\ pc = "ensure" /\ ~Ready(s) /\ FreshIds(p) # {}
    /\ process' = [process EXCEPT ![s] = Sent(p, "initialize")]
    /\ initialized' = [initialized EXCEPT ![s] = FALSE]
    /\ op' = [op EXCEPT !.id = FreshId(p), !.spawns = @ + IF fresh THEN 1 ELSE 0]
    /\ Proceed("handshake") /\ Rest

\* The next frame on the pipe is taken for the answer.
Frame == Head(process[op.server].outbox)
Answered == process[op.server].outbox # <<>>
Mine == Frame.id = op.id

\* Mutant: any answer to initialize will do.
RefusalIgnored(s) ==
    /\ Took(s)
    /\ initialized' = [initialized EXCEPT ![s] = TRUE]
    /\ Proceed("ready")
    /\ UNCHANGED op

\* initialize was refused: the process stays, to be asked again by the next operation.
Refusal(s) ==
    /\ Took(s)
    /\ UNCHANGED initialized
    /\ Finish("error")

HandshakeAnswered ==
    LET s == op.server IN
    /\ pc = "handshake" /\ Answered
    /\ \/ /\ Mine /\ Frame.reply = "result"
          /\ Took(s)
          /\ initialized' = [initialized EXCEPT ![s] = TRUE]
          /\ Proceed("ready")
          /\ UNCHANGED op
       \/ Mine /\ Frame.reply = "error" /\ Refusal(s)
       \/ (~Mine \/ Frame.reply = "empty") /\ Discard(s)
    /\ Rest

\* Mutant: the attempts of the handshake are not counted.
OnceMoreAlways == [op EXCEPT !.again = FALSE]
OnceMore == [op EXCEPT !.again = TRUE]

\* Deadline or broken pipe: the handshake itself is tried twice.
HandshakeInterrupted ==
    /\ pc = "handshake"
    /\ IF op.again
       THEN RetryOnce
       ELSE /\ Reset(op.server)
            /\ op' = OnceMore
            /\ Proceed("ensure")
    /\ Rest

-----------------------------------------------------------------------------
(* One request                                                             *)

SendRequest ==
    LET p == process[op.server] IN
    /\ pc = "ready" /\ FreshIds(p) # {}
    /\ process' = [process EXCEPT ![op.server] = Sent(p, op.method)]
    /\ op' = [op EXCEPT !.id = FreshId(p)]
    /\ Proceed("waiting")
    /\ UNCHANGED initialized /\ Rest

RequestAnswered ==
    LET s == op.server IN
    /\ pc = "waiting" /\ Answered
    /\ \/ /\ Mine /\ Frame.reply = "result"
          /\ Took(s) /\ UNCHANGED initialized
          /\ Finish("ok")
       \/ /\ Mine /\ Frame.reply = "more" /\ op.method \in Paged
          /\ Took(s) /\ UNCHANGED initialized
          /\ op' = [op EXCEPT !.pages = @ + 1]
          /\ Proceed("ready")
       \/ /\ Mine
          /\ Frame.reply = "error" \/ (Frame.reply = "empty" /\ op.method = "tools/call")
          /\ Took(s) /\ UNCHANGED initialized
          /\ Finish("error")
       \/ /\ ~Mine \/ (Frame.reply = "empty" /\ op.method # "tools/call")
          /\ Discard(s)
    /\ Rest

\* Mutant: tool calls have no deadline.
RequestInterruptedLists ==
    /\ pc = "waiting" /\ op.method # "tools/call"
    /\ RetryOnce
    /\ Rest

RequestInterrupted ==
    /\ pc = "waiting"
    /\ RetryOnce
    /\ Rest

-----------------------------------------------------------------------------
(* Shutdown, when the runtime is dropped                                   *)

Settled == UNCHANGED <<op, tool_index, asked, faults, calls>>

Shutdown ==
    /\ pc = "idle" /\ todo = <<>>
    /\ pc' = "closing"
    /\ todo' = ForAll("shutdown")
    /\ UNCHANGED <<process, initialized, unreclaimed>> /\ Settled

\* Mutant: only initialized servers are stopped.
ServerStopsIfReady ==
    LET s == Head(todo).server IN
    /\ pc = "closing" /\ todo # <<>>
    /\ IF initialized[s] THEN Reset(s) ELSE UNCHANGED <<process, initialized>>
    /\ todo' = Tail(todo)
    /\ UNCHANGED <<pc, unreclaimed>> /\ Settled

ServerStops ==
    /\ pc = "closing" /\ todo # <<>>
    /\ Reset(Head(todo).server)
    /\ todo' = Tail(todo)
    /\ UNCHANGED <<pc, unreclaimed>> /\ Settled

\* The tree could not be reclaimed: the child is killed, and the rest left.
ReclaimFails ==
    LET s == Head(todo).server IN
    /\ pc = "closing" /\ todo # <<>> /\ process[s].alive
    /\ process' = [process EXCEPT ![s].alive = FALSE]
    /\ todo' = <<>>
    /\ unreclaimed' = TRUE
    /\ UNCHANGED <<pc, initialized>> /\ Settled

Closed ==
    /\ pc = "closing" /\ todo = <<>>
    /\ pc' = "closed"
    /\ UNCHANGED <<process, initialized, todo, unreclaimed>> /\ Settled

-----------------------------------------------------------------------------
(* The servers                                                             *)

Manager == UNCHANGED <<op, pc, unreclaimed, client, status>>
Pending(s) == process[s].alive /\ process[s].inbox # <<>>
Request(s) == Head(process[s].inbox)

Execute(s) ==
    /\ Pending(s) /\ Request(s).call # 0 /\ Request(s).method = "tools/call" /\ ~Request(s).done
    /\ process' = [process EXCEPT ![s].inbox[1].done = TRUE]
    /\ effects' = [effects EXCEPT ![Request(s).call] = @ + 1]
    /\ UNCHANGED faults /\ Manager

Answer(s, reply) ==
    /\ Pending(s)
    /\ reply = "result" /\ Request(s).method = "tools/call" => Request(s).done
    /\ reply = "more" => Request(s).method \in Paged /\ op.pages < MaxPages
    /\ process' = [process EXCEPT
          ![s].inbox = Tail(@),
          ![s].outbox = Append(@, [id |-> Request(s).id, reply |-> reply]),
          ![s].shook = @ \/ (Request(s).method = "initialize" /\ reply = "result")]
    /\ UNCHANGED <<faults, effects>> /\ Manager

\* A notification, a line of log or a second copy of the latest answer.
Stray(s) ==
    /\ process[s].alive /\ faults < MaxFaults
    /\ faults' = faults + 1
    /\ LET id == IF process[s].inbox = <<>> THEN process[s].last ELSE 0 IN
       process' = [process EXCEPT ![s].outbox = Append(@, [id |-> id, reply |-> "result"])]
    /\ UNCHANGED effects /\ Manager

Die(s) ==
    /\ process[s].alive /\ faults < MaxFaults
    /\ faults' = faults + 1
    /\ process' = [process EXCEPT ![s].alive = FALSE]
    /\ UNCHANGED effects /\ Manager

-----------------------------------------------------------------------------

\* What the manager does by itself while an operation is under way.
ManagerStep ==
    \/ AlreadyReady \/ SpawnFails \/ Initialize
    \/ HandshakeAnswered \/ HandshakeInterrupted
    \/ SendRequest \/ RequestAnswered \/ RequestInterrupted

Next ==
    \/ ManagerStep
    \/ NextServer \/ ListAll
    \/ \E s \in Servers : CallTool(s) \/ UnknownTool(s) \/ ListResources(s) \/ ReadResource(s)
    \/ Shutdown \/ ServerStops \/ ReclaimFails \/ Closed
    \/ \E s \in Servers : Execute(s) \/ Stray(s) \/ Die(s) \/ \E reply \in Replies : Answer(s, reply)

Spec == Init /\ [][Next]_vars

\* Every wait has a deadline, and block_on polls the operation until it ends.
FairSpec == Spec /\ WF_vars(ManagerStep)

-----------------------------------------------------------------------------
(* Properties                                                              *)

\* A call of an MCP tool keeps the promise of McpCall: the server carries it out
\* at most once, an ok answer is the answer of this call, and a call the caller
\* was told had failed (deadline, broken pipe, a frame with another id) is not
\* carried out afterwards.
Promise == INSTANCE McpCall WITH Calls <- Calls, status <- status, effects <- effects
PromiseKept == Promise!Spec

\* No request but initialize reaches a process that has not accepted initialize,
\* across exits, respawns, refused handshakes and retries.
HandshakeFirst ==
    \A s \in Servers : process[s].inbox # <<>> /\ ~process[s].shook
                          => Request(s).method = "initialize"

\* Between operations no process that is kept still has a request to answer:
\* what the manager gave up on is killed with its process.
GivenUpIsKilled ==
    pc = "idle" => \A s \in Servers : process[s].inbox = <<>>

\* The two nested retries start at most four processes for an operation, and two
\* for a tool call.
SpawnsBounded ==
    pc \in Waits => op.spawns <= IF op.method = "tools/call" THEN 2 ELSE 4

\* Unless a process tree could not be reclaimed, shutdown leaves no server
\* running, a server whose handshake was refused included.
ShutdownStopsAll ==
    pc = "closed" /\ ~unreclaimed => \A s \in Servers : ~process[s].alive

\* Every tool call is answered, whatever its server does: no server that hangs
\* holds the turn for ever.
EveryCallReturns ==
    \A c \in Calls : status[c] = "called" ~> status[c] \in {"ok", "error"}
=============================================================================
