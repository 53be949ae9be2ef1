----------------------------- MODULE RunLedger -----------------------------
(***************************************************************************)
(* The ledger of a workspace: active_task.json and recovery_prompt.md      *)
(* (runtime/src/active_task.rs), the processes recorded in it              *)
(* (process_tree.rs, mcp_stdio.rs, tools/src/lib.rs), exit-state.json      *)
(* (recovery.rs), and the runs that keep them (rusty-claude-cli main.rs).  *)
(* Every update loads the file, changes the copy and writes it back, with  *)
(* no lock between the main thread, a subagent's thread and other programs *)
(* of the workspace; a program may die at any step.                        *)
(***************************************************************************)
EXTENDS Integers, FiniteSets

CONSTANTS Programs,   \* programs a user may start in the workspace
          Children,   \* processes they may spawn
          Nobody,     \* no process, no thread
          MaxRuns,    \* bound: runs started in all
          MaxThreads, \* bound: threads at work at once
          Kinds,      \* bound: what they may start: a REPL, or one prompt, review or --resume
          FullShared  \* bound: whether goals are noted, and writes of the prompt and of the
                      \* record fail, also once a run has begun beside another

ASSUME BoundsAssumption == MaxRuns \in Nat /\ MaxThreads \in Nat /\ FullShared \in BOOLEAN
ASSUME KindsAssumption == Kinds \subseteq {"repl", "once"}
ASSUME NobodyAssumption == Nobody \notin Children

VARIABLES task,      \* active_task.json
          prompt,    \* recovery_prompt.md
          exit,      \* exit-state.json
          pc,        \* where each program is
          kind,      \* what each was started for; a REPL is in "talk" once it has its goal
          current,   \* the run each program is
          agents,    \* programs in which a subagent was started
          call,      \* the ledger call each thread is in
          awaited,   \* the command each thread waits for
          child,     \* the processes spawned
          runs,      \* runs started (history)
          ended,     \* how the last run ended (history)
          shared,    \* two programs were up together (history)
          missed,    \* the last write of the prompt or the record failed (history)
          lost       \* a call was overtaken, refused or cut short (history)

files == <<task, prompt, exit>>
programs == <<pc, kind, current, agents>>
threads == <<call, awaited>>
history == <<runs, ended, shared, missed>>
vars == <<files, programs, threads, child, history, lost>>

Actors == Programs \X {"main", "agent"}
Program(a) == a[1]
Main(p) == <<p, "main">>

NoProcesses == [c \in {} |-> "running"]
NoEntry(why) == [run |-> 0, goal |-> "none", status |-> why, listed |-> NoProcesses]
Absent == NoEntry("absent")
Unreadable == NoEntry("unreadable")

\* A task entry; listed: what it says of the processes it names.
Entry(run) ==
    [run |-> run, goal |-> "launch", status |-> "running", listed |-> NoProcesses]
Entries ==
    [run : 1 .. MaxRuns, goal : {"launch", "words"}, status : {"running", "completed"},
     listed : UNION {[cs -> {"running", "stopped"}] : cs \in SUBSET Children}]

\* write_recovery_prompt: the goal, the status and the processes that run.
Rendered(entry) ==
    [run |-> entry.run, goal |-> entry.goal, status |-> entry.status,
     running |-> {c \in DOMAIN entry.listed : entry.listed[c] = "running"}]

\* exit-state.json; cut short it cannot be parsed.
Record(run, state) == [run |-> run, state |-> state]
CutRecord == Record(0, "unreadable")

\* A call of the store; stale: the file has been written since it was read.
NewCall(what, c) ==
    [what |-> what, child |-> c, at |-> "load", copy |-> Absent, stale |-> FALSE]
Idle == NewCall("none", Nobody)

\* A process and the thread that spawned it; under: the run it is recorded in.
Process(state, a, server) == [state |-> state, by |-> a, under |-> 0, server |-> server]
Unused == Process("unused", Nobody, FALSE)
Spawned(a, server) == Process("alive", a, server)
Gone == Process("gone", Nobody, FALSE)

Init ==
    /\ task = Absent /\ prompt = Rendered(Absent) /\ exit = Record(0, "none")
    /\ pc = [p \in Programs |-> "off"]
    /\ kind = [p \in Programs |-> "none"]
    /\ current = [p \in Programs |-> 0]
    /\ agents = {}
    /\ call = [a \in Actors |-> Idle]
    /\ awaited = [a \in Actors |-> Nobody]
    /\ child = [c \in Children |-> Unused]
    /\ runs = 0 /\ ended = "none" /\ shared = FALSE /\ missed = {} /\ lost = FALSE

Free(a) == call[a] = Idle /\ awaited[a] = Nobody
Up(p) == pc[p] # "off"

\* A subagent's thread runs from its start in a turn until the program ends.
Working(a) ==
    IF a[2] = "main" THEN pc[Program(a)] = "running" ELSE Program(a) \in agents

-----------------------------------------------------------------------------
(* The calls of ActiveTaskStore, one step for each access to a file.       *)

Calling(a, what, c) == call' = [call EXCEPT ![a] = NewCall(what, c)]

\* Mutant: the goal is noted by starting the entry again.
UpdatedAfresh(entry, what, c) ==
    CASE what = "track" ->
            [entry EXCEPT !.listed = [d \in DOMAIN @ \cup {c} |-> IF d = c THEN "running" ELSE @[d]]]
      [] what = "untrack" ->
            [entry EXCEPT !.listed = [d \in DOMAIN @ |-> IF d = c THEN "stopped" ELSE @[d]]]
      [] what = "goal" -> [Entry(entry.run) EXCEPT !.goal = "words"]
      [] what = "complete" -> [entry EXCEPT !.status = "completed"]

\* What update_task is given: track_process, untrack_process, note_run_goal, complete_task.
Updated(entry, what, c) ==
    CASE what = "track" ->
            [entry EXCEPT !.listed = [d \in DOMAIN @ \cup {c} |-> IF d = c THEN "running" ELSE @[d]]]
      [] what = "untrack" ->
            [entry EXCEPT !.listed = [d \in DOMAIN @ |-> IF d = c THEN "stopped" ELSE @[d]]]
      [] what = "goal" -> [entry EXCEPT !.goal = "words"]
      [] what = "complete" -> [entry EXCEPT !.status = "completed"]

\* A write makes the copies of the others stale.
Overtaking(a, mine) ==
    [b \in Actors |-> IF b = a THEN mine
                      ELSE [call[b] EXCEPT !.stale = call[b].at # "load"]]

\* load_task; without a task file nothing is recorded, with one that cannot be
\* parsed the update fails and its error is dropped.
Load(a) ==
    /\ call[a].what # "none" /\ call[a].at = "load"
    /\ IF task \in {Absent, Unreadable}
       THEN /\ call' = [call EXCEPT ![a] = Idle]
            /\ lost' = (lost \/ task = Unreadable)
       ELSE /\ call' = [call EXCEPT ![a].at = "truncate",
                                    ![a].copy = Updated(task, call[a].what, call[a].child)]
            /\ UNCHANGED lost
    /\ UNCHANGED <<files, programs, awaited, child, history>>

\* fs::write empties the file and then fills it, and fails at either.
Truncate(a) ==
    /\ call[a].at = "truncate"
    /\ task' = Unreadable
    /\ call' = Overtaking(a, [call[a] EXCEPT !.at = "write"])
    /\ UNCHANGED <<prompt, exit, programs, awaited, child, history, lost>>

WriteFails(a) ==
    /\ call[a].at \in {"truncate", "write"}
    /\ call' = [call EXCEPT ![a] = Idle]
    /\ lost' = TRUE
    /\ UNCHANGED <<files, programs, awaited, child, history>>

\* A new entry owes nothing to the calls before it.
Write(a) ==
    /\ call[a].at = "write"
    /\ task' = call[a].copy
    /\ call' = Overtaking(a, [call[a] EXCEPT !.at = "prompt", !.stale = FALSE])
    /\ lost' = IF call[a].what = "start" THEN call[a].stale ELSE lost \/ call[a].stale
    /\ child' = IF call[a].what # "track" THEN child
                ELSE [child EXCEPT ![call[a].child].under = call[a].copy.run]
    /\ UNCHANGED <<prompt, exit, programs, awaited, history>>

\* Nobody reads prompt and record while they are written, so a step has the outcomes of
\* one fs::write: the new contents, the old ones, or an emptied file that was not filled;
\* death in the middle is the last of these and then Die.
Attempted(file, success) ==
    /\ success \/ ~shared \/ FullShared
    /\ missed' = IF success THEN missed \ {file} ELSE missed \cup {file}

\* The prompt follows, and its errors are dropped: an update renders its copy,
\* begin_run_task loads the file again.
WritePrompt(a) ==
    LET start == call[a].what = "start"
    IN  /\ call[a].at = "prompt"
        /\ \E done \in BOOLEAN :
              /\ Attempted("prompt", done)
              /\ IF ~done THEN prompt' \in {prompt, Rendered(Unreadable)}
                 ELSE IF start THEN task \notin {Absent, Unreadable} /\ prompt' = Rendered(task)
                 ELSE prompt' = Rendered(call[a].copy)
        /\ call' = [call EXCEPT ![a] = Idle]
        /\ lost' = (lost \/ call[a].stale)
        /\ UNCHANGED <<task, exit, programs, awaited, child, runs, ended, shared>>

-----------------------------------------------------------------------------
(* Processes.                                                              *)

\* A command of the PowerShell or REPL tool: spawn, then record_spawn.
RunCommand(a, c) ==
    /\ Working(a) /\ Free(a)
    /\ child[c].state = "unused"
    /\ child' = [child EXCEPT ![c] = Spawned(a, FALSE)]
    /\ awaited' = [awaited EXCEPT ![a] = c]
    /\ Calling(a, "track", c)
    /\ UNCHANGED <<files, programs, history, lost>>

ChildExits(c) ==
    /\ child[c].state \in {"alive", "refused"}
    /\ child' = [child EXCEPT ![c] = Gone]
    /\ UNCHANGED <<files, programs, threads, history, lost>>

\* Mutant: the exit is recorded when the time is up, before the child is killed.
CommandOverEarly(a) ==
    LET c == awaited[a]
    IN  /\ c # Nobody /\ call[a] = Idle
        /\ UNCHANGED child
        /\ awaited' = [awaited EXCEPT ![a] = Nobody]
        /\ Calling(a, "untrack", c)
        /\ UNCHANGED <<files, programs, history, lost>>

\* It exited, or its time was up and its tree and itself were killed: record_exit.
CommandOver(a) ==
    LET c == awaited[a]
    IN  /\ c # Nobody /\ call[a] = Idle
        /\ child' = [child EXCEPT ![c] = Gone]
        /\ awaited' = [awaited EXCEPT ![a] = Nobody]
        /\ Calling(a, "untrack", c)
        /\ UNCHANGED <<files, programs, history, lost>>

\* McpStdioProcess::spawn, when a runtime is built: the first one in LiveCli::new,
\* before the run has an entry of its own.
SpawnServer(p, c) ==
    /\ pc[p] \in {"setup", "running"} /\ Free(Main(p))
    /\ child[c].state = "unused"
    /\ child' = [child EXCEPT ![c] = Spawned(Main(p), TRUE)]
    /\ Calling(Main(p), "track", c)
    /\ UNCHANGED <<files, programs, awaited, history, lost>>

Serving(p) ==
    {c \in Children : child[c].server /\ child[c].by = Main(p) /\ child[c].state = "alive"}

\* reclaim_tree: the tree is killed, or that is refused; record_exit either way.
ReclaimServer(p, c) ==
    /\ pc[p] \in {"running", "closing"} /\ Free(Main(p))
    /\ c \in Serving(p)
    /\ \/ child' = [child EXCEPT ![c] = Gone]
       \/ child' = [child EXCEPT ![c].state = "refused"]
    /\ Calling(Main(p), "untrack", c)
    /\ UNCHANGED <<files, programs, awaited, history, lost>>

\* Then child.kill.
KillServer(p, c) ==
    /\ pc[p] \in {"running", "closing"} /\ Free(Main(p))
    /\ child[c].state = "refused" /\ child[c].by = Main(p)
    /\ child' = [child EXCEPT ![c] = Gone]
    /\ UNCHANGED <<files, programs, threads, history, lost>>

-----------------------------------------------------------------------------
(* Runs.                                                                   *)

Crowd == Cardinality({p \in Programs : Up(p)}) + Cardinality(agents)

Launch(p) ==
    /\ ~Up(p) /\ runs < MaxRuns /\ Crowd < MaxThreads
    /\ runs' = runs + 1
    /\ pc' = [pc EXCEPT ![p] = "setup"]
    /\ \E k \in Kinds : kind' = [kind EXCEPT ![p] = k]
    /\ current' = [current EXCEPT ![p] = runs + 1]
    /\ shared' = \E q \in Programs \ {p} : Up(q)
    /\ ended' = "none" /\ missed' = {}
    /\ UNCHANGED <<files, agents, threads, child, lost>>

\* The Agent tool: spawn_agent_job.
StartAgent(p) ==
    /\ pc[p] = "running" /\ Free(Main(p))
    /\ p \notin agents /\ Crowd < MaxThreads
    /\ agents' = agents \cup {p}
    /\ UNCHANGED <<files, pc, kind, current, threads, child, history, lost>>

Opening(run) ==
    [what |-> "start", child |-> Nobody, at |-> "truncate", copy |-> Entry(run), stale |-> FALSE]

\* persist_recovery_for_cli; with an error, of latest-session.json too, which comes first,
\* the run goes on.
Records(p, state) ==
    \E done \in BOOLEAN :
        /\ Attempted("record", done)
        /\ IF done THEN exit' = Record(current[p], state) ELSE exit' \in {exit, CutRecord}

\* persist_recovery_for_cli(Active), then begin_run_task: start_task replaces whatever
\* entry is there.
Open(p) ==
    /\ pc[p] = "setup" /\ Free(Main(p))
    /\ Records(p, "active")
    /\ pc' = [pc EXCEPT ![p] = "running"]
    /\ call' = [call EXCEPT ![Main(p)] = Opening(current[p])]
    /\ UNCHANGED <<task, prompt, kind, current, agents, awaited, child, runs, ended, shared, lost>>

\* The first input of a REPL that reaches the model.
NoteGoal(p) ==
    /\ pc[p] = "running" /\ Free(Main(p)) /\ kind[p] = "repl" /\ (~shared \/ FullShared)
    /\ kind' = [kind EXCEPT ![p] = "talk"]
    /\ Calling(Main(p), "goal", Nobody)
    /\ UNCHANGED <<files, pc, current, agents, awaited, child, history, lost>>

\* Mutant: the entry is closed before the recovery record.
LeaveLedgerFirst(p) ==
    /\ Free(Main(p))
    /\ \/ /\ pc[p] = "running"
          /\ pc' = [pc EXCEPT ![p] = "completing"]
          /\ Calling(Main(p), "complete", Nobody)
          /\ UNCHANGED <<exit, missed>>
       \/ /\ pc[p] = "completing"
          /\ pc' = [pc EXCEPT ![p] = "closing"]
          /\ exit' = Record(current[p], "graceful")
          /\ UNCHANGED <<call, missed>>
    /\ ended' = "well"
    /\ UNCHANGED <<task, prompt, kind, current, agents, awaited, child, runs, shared, lost>>

\* Mutant: complete_run_task is forgotten.
LeaveOpen(p) ==
    /\ Free(Main(p))
    /\ pc[p] = "running"
    /\ Records(p, "graceful")
    /\ pc' = [pc EXCEPT ![p] = "closing"]
    /\ ended' = "well"
    /\ UNCHANGED <<task, prompt, kind, current, agents, threads, child, runs, shared, lost>>

\* persist_recovery_for_cli(Graceful), then complete_run_task, whatever became of the record.
Leave(p) ==
    /\ Free(Main(p))
    /\ \/ /\ pc[p] = "running"
          /\ Records(p, "graceful")
          /\ pc' = [pc EXCEPT ![p] = "completing"]
          /\ UNCHANGED <<call, ended>>
       \/ /\ pc[p] = "completing"
          /\ pc' = [pc EXCEPT ![p] = "closing"]
          /\ Calling(Main(p), "complete", Nobody)
          /\ ended' = "well"
          /\ UNCHANGED <<exit, missed>>
    /\ UNCHANGED <<task, prompt, kind, current, agents, awaited, child, runs, shared, lost>>

\* "exit" said in plain words: the branch of handle_nl_intent does not close the entry.
LeaveByRequest(p) ==
    /\ pc[p] = "running" /\ Free(Main(p)) /\ kind[p] \in {"repl", "talk"}
    /\ Records(p, "graceful")
    /\ pc' = [pc EXCEPT ![p] = "closing"]
    /\ ended' = "asked"
    /\ UNCHANGED <<task, prompt, kind, current, agents, threads, child, runs, shared, lost>>

\* An error ends the run.
Fail(p) ==
    /\ pc[p] = "running" /\ Free(Main(p))
    /\ pc' = [pc EXCEPT ![p] = "closing"]
    /\ ended' = "failed"
    /\ UNCHANGED <<files, kind, current, agents, threads, child, runs, shared, missed, lost>>

\* The process ends and its threads with it: a subagent may be in the middle of a call.
Threads(p) == {a \in Actors : Program(a) = p}
\* A process it spawned goes on, as nobody's.
Orphaned(process) == [process EXCEPT !.by = Nobody, !.server = FALSE]
CutShort(p) == \E a \in Threads(p) : call[a].at \in {"write", "prompt"} \/ call[a].what = "untrack"
Stopped(p) ==
    /\ pc' = [pc EXCEPT ![p] = "off"]
    /\ kind' = [kind EXCEPT ![p] = "none"]
    /\ current' = [current EXCEPT ![p] = 0]
    /\ agents' = agents \ {p}
    /\ call' = [a \in Actors |-> IF Program(a) = p THEN Idle ELSE call[a]]
    /\ awaited' = [a \in Actors |-> IF Program(a) = p THEN Nobody ELSE awaited[a]]
    /\ child' = [c \in Children |-> IF child[c].by \in Threads(p) THEN Orphaned(child[c]) ELSE child[c]]
    /\ lost' = (lost \/ CutShort(p))
    /\ UNCHANGED <<files, runs, shared, missed>>

\* Dropping the runtime has shut its servers down.
End(p) ==
    /\ pc[p] = "closing" /\ Free(Main(p)) /\ Serving(p) = {}
    /\ Stopped(p)
    /\ UNCHANGED ended

Die(p) ==
    /\ Up(p)
    /\ Stopped(p)
    /\ ended' = "died"

Next ==
    \/ \E a \in Actors :
          \/ Load(a) \/ Truncate(a) \/ WriteFails(a) \/ Write(a) \/ WritePrompt(a)
          \/ CommandOver(a)
          \/ \E c \in Children : RunCommand(a, c)
    \/ \E c \in Children : ChildExits(c)
    \/ \E p \in Programs, c \in Children : SpawnServer(p, c) \/ ReclaimServer(p, c) \/ KillServer(p, c)
    \/ \E p \in Programs :
          \/ Launch(p) \/ Open(p) \/ StartAgent(p) \/ NoteGoal(p)
          \/ Leave(p) \/ LeaveByRequest(p) \/ Fail(p) \/ End(p) \/ Die(p)

Spec == Init /\ [][Next]_vars

-----------------------------------------------------------------------------
Readable == task \notin {Absent, Unreadable}
AllOff == \A p \in Programs : ~Up(p)
Listed(c) == IF Readable /\ c \in DOMAIN task.listed THEN task.listed[c] ELSE "no"

TypeOK ==
    /\ task \in Entries \cup {Absent, Unreadable}
    /\ exit.run \in 0 .. MaxRuns /\ exit.state \in {"none", "active", "graceful", "unreadable"}
    /\ pc \in [Programs -> {"off", "setup", "running", "completing", "closing"}]
    /\ kind \in [Programs -> Kinds \cup {"talk", "none"}]
    /\ current \in [Programs -> 0 .. MaxRuns]
    /\ agents \subseteq Programs
    /\ runs \in 0 .. MaxRuns /\ missed \subseteq {"record", "prompt"}
    /\ \A a \in Actors :
          /\ call[a].what \in {"none", "start", "goal", "complete", "track", "untrack"}
          /\ call[a].at \in {"load", "truncate", "write", "prompt"}
          /\ call[a].copy \in Entries \cup {Absent}
          /\ awaited[a] \in Children \cup {Nobody}

\* No interleaving of updates, of programs or with a crash makes the ledger call a
\* process stopped that is running, but for a server whose tree could not be killed
\* (untrack_process, reclaim_tree): an entry written from an old copy forgets, it
\* never invents.
StoppedIsGone ==
    \A c \in Children : Listed(c) = "stopped" => child[c].state \in {"gone", "refused"}

\* A process that was recorded and still runs is listed as running in the entry it was
\* recorded in, also after a crash: only an update that overtook another, met an
\* unreadable file or was cut short can have dropped it (track_process).
LiveIsListed ==
    Readable /\ ~lost =>
        \A c \in Children :
            child[c].state = "alive" /\ child[c].under = task.run => Listed(c) = "running"

\* When the last run of a workspace has ended well and had it for itself, its entry is
\* closed, the recovery prompt says so, and nothing invites to recover it
\* (complete_run_task); a REPL left by a request in plain words is the exception, and
\* of prompt and record each may be behind if its own last write failed.
FinishedReadsFinished ==
    AllOff /\ ended = "well" /\ ~shared /\ ~lost =>
        /\ Readable /\ task.run = runs /\ task.status = "completed"
        /\ "prompt" \notin missed => prompt = Rendered(task)
        /\ "record" \notin missed => exit = Record(runs, "graceful")

\* The entry of a run that had the workspace for itself is closed only after its
\* recovery record was written, or could not be: wherever the run died, its entry is not
\* closed while the record still waits to be written (persist_recovery_for_cli, then
\* complete_run_task).
ClosedAfterRecord ==
    Readable /\ ~shared /\ task.run = runs /\ task.status = "completed" =>
        "record" \in missed \/ exit = Record(runs, "graceful")

\* A graceful exit and a closed entry come in pairs, however the REPL was left
\* (the comment on complete_run_task).
GracefulIsClosed ==
    AllOff /\ ended \in {"well", "asked"} /\ ~shared /\ ~lost =>
        Readable /\ task.status = "completed"

\* A server that serves a run is in the run's entry: it is exactly the kind of process a
\* crash leaves behind (the comment on McpStdioProcess::spawn).
ServersAreListed ==
    Readable /\ ~shared /\ ~lost =>
        \A p \in Programs, c \in Children :
            pc[p] = "running" /\ Free(Main(p)) /\ c \in Serving(p) => Listed(c) = "running"
=============================================================================
