---------------------------- MODULE ChildCommand ----------------------------
(* One external command, from the call that spawns it to the result its      *)
(* caller gets: a hook (CommandWithStdin::output_with_stdin), a plugin tool   *)
(* (PluginTool::execute), the REPL and PowerShell tools (execute_repl,        *)
(* execute_shell_command), the bash tool (execute_bash) or a command in the   *)
(* background.  The caller and the command are joined by pipes of bounded     *)
(* size: writing to a full one blocks, reading ends when nobody holds the     *)
(* other end, and a process the command started may hold it longer than the   *)
(* command lives.  The processes follow the rules of Unix.  Contents of input *)
(* and output are counted in units of which a pipe takes PipeSize; stdout and *)
(* stderr, which are read together, are one pipe.                             *)
EXTENDS Naturals

CONSTANTS
    PipeSize,       \* units a pipe takes before its writer blocks
    MaxPayload,     \* bound on the input of hooks and plugin tools
    MaxOutput       \* bound on what a command writes

ASSUME PipeAssumption ==
    /\ PipeSize \in Nat \ {0}
    /\ MaxPayload \in Nat \ {0}
    /\ MaxOutput \in Nat

VARIABLES
    cmd,            \* the command and how it is run
    pc,             \* where the caller is
    child,          \* the process that was spawned
    helper,         \* a process it started in its turn
    unsent,         \* input the caller has not written yet
    inPipe,         \* input in the pipe to the command
    toWrite,        \* output the command has not written yet
    outPipe,        \* output in the pipe from the command
    collected,      \* output the caller has read
    aborted,        \* HookAbortSignal
    late,           \* the deadline has passed
    receipt,        \* the tree kill failed, and the result says so
    result

vars == <<cmd, pc, child, helper, unsent, inPipe, toWrite, outPipe, collected,
          aborted, late, receipt, result>>

input == <<unsent, inPipe>>
output == <<toWrite, outPipe, collected>>
signals == <<aborted, late>>

-----------------------------------------------------------------------------

(* Hooks and plugin tools get their input through a pipe; the REPL, the       *)
(* shells and bash may have a deadline.  ends: left alone, and unless a pipe   *)
(* blocks them, the command and what it started come to an end.                *)
Commands ==
    {c \in [kind : {"hook", "plugin", "shell", "bash", "background"},
            deadline : BOOLEAN, ends : BOOLEAN,
            payload : 0..MaxPayload, output : 0..MaxOutput] :
        /\ c.kind \in {"hook", "plugin"} <=> c.payload > 0
        /\ c.deadline => c.kind \in {"shell", "bash"}}

Helpers == [state : {"none", "running", "gone"}, inGroup : BOOLEAN, holds : BOOLEAN]

NoHelper == [state |-> "none", inGroup |-> FALSE, holds |-> FALSE]

(* The helper has the command's ends of the pipes, as children inherit them   *)
(* unless their own are redirected.                                            *)
HelperHolds == helper.state = "running" /\ helper.holds

(* Somebody may still read the input and write output.                        *)
Held == child = "running" \/ HelperHolds

Killed(p) == IF p = "running" THEN "killed" ELSE p

Return(r) == pc' = "done" /\ result' = r

-----------------------------------------------------------------------------
(* The caller.                                                                *)

Init ==
    /\ cmd \in Commands
    /\ pc = "start" /\ result = "none"
    /\ child = "none" /\ helper = NoHelper
    /\ unsent = cmd.payload /\ inPipe = 0
    /\ toWrite = cmd.output /\ outPipe = 0 /\ collected = 0
    /\ aborted = FALSE /\ late = FALSE /\ receipt = FALSE

\* Mutant: a run without a deadline polls too, and reads when it has ended.
AfterSpawnPolls ==
    CASE cmd.kind \in {"hook", "plugin"}        -> "writing"
      [] cmd.kind = "shell"                     -> "polling"
      [] cmd.kind = "background"                -> "done"
      [] OTHER                                  -> "draining"

(* Where the caller goes from the spawn.                                      *)
AfterSpawn ==
    CASE cmd.kind \in {"hook", "plugin"}        -> "writing"
      [] cmd.kind = "shell" /\ cmd.deadline     -> "polling"
      [] cmd.kind = "background"                -> "done"
      [] OTHER                                  -> "draining"

Spawn ==
    /\ pc = "start"
    /\ child' = "running"
    /\ pc' = AfterSpawn
    /\ result' = IF cmd.kind = "background" THEN "background" ELSE result
    /\ UNCHANGED <<cmd, helper, input, output, signals, receipt>>

SpawnFails ==
    /\ pc = "start"
    /\ Return("failed")
    /\ UNCHANGED <<cmd, child, helper, input, output, signals, receipt>>

(* write_all writes as the pipe takes it, and looks at nothing else.          *)
WritePayload ==
    /\ pc = "writing" /\ unsent > 0
    /\ Held /\ inPipe < PipeSize
    /\ unsent' = unsent - 1 /\ inPipe' = inPipe + 1
    /\ UNCHANGED <<cmd, pc, child, helper, output, signals, receipt, result>>

PayloadWritten ==
    /\ pc = "writing" /\ unsent = 0
    /\ pc' = IF cmd.kind = "hook" THEN "polling" ELSE "draining"
    /\ UNCHANGED <<cmd, child, helper, input, output, signals, receipt, result>>

(* Nobody is left to read the input: write_all fails and so does the call.    *)
PayloadRefused ==
    /\ pc = "writing" /\ unsent > 0
    /\ ~Held
    /\ Return("failed")
    /\ UNCHANGED <<cmd, child, helper, input, output, signals, receipt>>

(* The loop around try_wait.  A hook's loop looks at the abort signal before, *)
(* the others' at the clock after try_wait, so whatever became true between    *)
(* the two looks may be missed: both exits are open when both hold.            *)
SeesExit ==
    /\ pc = "polling" /\ child # "running"
    /\ pc' = "draining" /\ result' = "finished"
    /\ UNCHANGED <<cmd, child, helper, input, output, signals, receipt>>

\* Mutant: the cancelled hook is waited for but not killed.
SeesAbortWaits ==
    /\ pc = "polling" /\ cmd.kind = "hook" /\ aborted
    /\ pc' = "draining" /\ result' = "cancelled"
    /\ UNCHANGED <<cmd, child, helper, input, output, signals, receipt>>

SeesAbort ==
    /\ pc = "polling" /\ cmd.kind = "hook" /\ aborted
    /\ child' = Killed(child)
    /\ pc' = "draining" /\ result' = "cancelled"
    /\ UNCHANGED <<cmd, helper, input, output, signals, receipt>>

\* Mutant: the deadline ends the process that was spawned and no other.
SeesDeadlineKillsOne ==
    /\ pc = "polling" /\ cmd.kind = "shell" /\ late
    /\ receipt' = FALSE
    /\ child' = Killed(child)
    /\ pc' = "killing"
    /\ UNCHANGED <<cmd, helper, input, output, signals, result>>

(* kill_process_tree signals the group, or is refused.                        *)
SeesDeadline ==
    /\ pc = "polling" /\ cmd.kind = "shell" /\ late
    /\ receipt' \in BOOLEAN
    /\ child' = IF receipt' THEN child ELSE Killed(child)
    /\ helper' = IF ~receipt' /\ helper.state = "running" /\ helper.inGroup
                 THEN [helper EXCEPT !.state = "gone"] ELSE helper
    /\ pc' = "killing"
    /\ UNCHANGED <<cmd, input, output, signals, result>>

\* Mutant: the tree kill is taken to have reached the process itself.
KillChildSkipped ==
    /\ pc = "killing"
    /\ pc' = "draining" /\ result' = "timeout"
    /\ UNCHANGED <<cmd, child, helper, input, output, signals, receipt>>

KillChild ==
    /\ pc = "killing"
    /\ child' = Killed(child)
    /\ pc' = "draining" /\ result' = "timeout"
    /\ UNCHANGED <<cmd, helper, input, output, signals, receipt>>

(* wait_with_output reads until nobody holds the pipe, then waits for the     *)
(* process; tokio's output does both at once.                                  *)
Drain ==
    /\ pc = "draining" /\ outPipe > 0
    /\ collected' = collected + outPipe /\ outPipe' = 0
    /\ UNCHANGED <<cmd, pc, child, helper, input, toWrite, signals, receipt, result>>

\* Mutant: the output is complete when the process has ended.
EofAtExit ==
    /\ pc = "draining" /\ outPipe = 0 /\ child # "running"
    /\ Return(IF result = "none" THEN "finished" ELSE result)
    /\ UNCHANGED <<cmd, child, helper, input, output, signals, receipt>>

Eof ==
    /\ pc = "draining" /\ outPipe = 0 /\ ~Held
    /\ Return(IF result = "none" THEN "finished" ELSE result)
    /\ UNCHANGED <<cmd, child, helper, input, output, signals, receipt>>

(* The deadline of the bash tool drops the future that waits; the processes   *)
(* are left as they are.                                                       *)
BashGivesUp ==
    /\ pc = "draining" /\ cmd.kind = "bash" /\ late
    /\ Return("timeout")
    /\ UNCHANGED <<cmd, child, helper, input, output, signals, receipt>>

Caller ==
    \/ Spawn \/ SpawnFails
    \/ WritePayload \/ PayloadWritten \/ PayloadRefused
    \/ SeesExit \/ SeesAbort \/ SeesDeadline \/ KillChild
    \/ Drain \/ Eof \/ BashGivesUp

-----------------------------------------------------------------------------
(* The command, what it starts, the user and the clock.                       *)

Reads ==
    /\ Held /\ inPipe > 0
    /\ inPipe' = inPipe - 1
    /\ UNCHANGED <<cmd, pc, child, helper, unsent, output, signals, receipt, result>>

Writes ==
    /\ Held /\ toWrite > 0
    /\ pc # "done" /\ outPipe < PipeSize
    /\ toWrite' = toWrite - 1 /\ outPipe' = outPipe + 1
    /\ UNCHANGED <<cmd, pc, child, helper, input, collected, signals, receipt, result>>

(* A daemon leaves the group; the outputs of a helper may be redirected.      *)
Forks ==
    /\ child = "running" /\ helper.state = "none"
    /\ \E inGroup, holds \in BOOLEAN :
           helper' = [state |-> "running", inGroup |-> inGroup, holds |-> holds]
    /\ UNCHANGED <<cmd, pc, child, input, output, signals, receipt, result>>

(* Who has the last hold of the pipe writes the rest before it ends, unless   *)
(* the caller has let go of the other end.                                     *)
MayEnd == toWrite = 0 \/ pc = "done"

ChildEnds ==
    /\ child = "running"
    /\ MayEnd \/ HelperHolds
    /\ child' = "exited"
    /\ UNCHANGED <<cmd, pc, helper, input, output, signals, receipt, result>>

HelperEnds ==
    /\ helper.state = "running"
    /\ MayEnd \/ child = "running" \/ ~helper.holds
    /\ helper' = [helper EXCEPT !.state = "gone"]
    /\ UNCHANGED <<cmd, pc, child, input, output, signals, receipt, result>>

Abort ==
    /\ cmd.kind = "hook" /\ pc # "done" /\ ~aborted
    /\ aborted' = TRUE
    /\ UNCHANGED <<cmd, pc, child, helper, input, output, late, receipt, result>>

DeadlinePasses ==
    /\ cmd.deadline /\ pc \notin {"start", "done"} /\ ~late
    /\ late' = TRUE
    /\ UNCHANGED <<cmd, pc, child, helper, input, output, aborted, receipt, result>>

Next ==
    \/ Caller
    \/ Reads \/ Writes \/ Forks \/ ChildEnds \/ HelperEnds
    \/ Abort \/ DeadlinePasses

(* The calling thread goes on when it is not blocked, and time passes.  A     *)
(* command that ends goes on too; nothing is assumed of any other.             *)
Fairness ==
    /\ WF_vars(Caller)
    /\ WF_vars(DeadlinePasses)
    /\ WF_vars(cmd.ends /\ Writes)
    /\ WF_vars(cmd.ends /\ ChildEnds)
    /\ WF_vars(cmd.ends /\ HelperEnds)

Spec == Init /\ [][Next]_vars
FairSpec == Spec /\ Fairness

-----------------------------------------------------------------------------

TypeOK ==
    /\ cmd \in Commands
    /\ pc \in {"start", "writing", "polling", "killing", "draining", "done"}
    /\ child \in {"none", "running", "exited", "killed"}
    /\ helper \in Helpers
    /\ unsent \in 0..MaxPayload /\ inPipe \in 0..PipeSize
    /\ toWrite \in 0..MaxOutput /\ outPipe \in 0..PipeSize /\ collected \in 0..MaxOutput
    /\ aborted \in BOOLEAN /\ late \in BOOLEAN /\ receipt \in BOOLEAN
    /\ result \in {"none", "finished", "failed", "cancelled", "timeout", "background"}

(* A result that says the command finished comes with all that the command    *)
(* and what it started in the background wrote, and the process is gone.       *)
OutputComplete ==
    pc = "done" /\ result = "finished" => collected = cmd.output /\ child = "exited"

(* After the deadline of a REPL or shell run nothing of its process group     *)
(* runs any more, unless the result carries the receipt of a failed kill.      *)
DeadlineReclaims ==
    pc = "done" /\ cmd.kind = "shell" /\ result = "timeout" =>
        /\ child # "running"
        /\ helper.state = "running" => receipt \/ ~helper.inGroup

(* Out of the reach of the tree kill, with a hold on the output: the kill was *)
(* refused, the helper left the group, or it outlived the process, whose end   *)
(* is the end of the loop that looks at the clock.                             *)
OutOfReach ==
    /\ cmd.kind = "shell" /\ HelperHolds
    /\ receipt \/ ~helper.inGroup \/ result = "finished"

(* A run with a deadline returns, whatever the command does; the REPL and the *)
(* shells wait longer only for a helper that the tree kill does not reach.     *)
DeadlinesHold ==
    (cmd.deadline /\ pc \notin {"start", "done"}) ~> (pc = "done" \/ OutOfReach)

(* Ctrl-C ends a hook that has got its input, unless a process the hook       *)
(* started goes on holding its output.                                         *)
InterruptsEndHooks ==
    (cmd.kind = "hook" /\ aborted /\ pc \in {"polling", "draining"})
        ~> (pc = "done" \/ HelperHolds)

(* No pipe can fill up while both ends wait: a hook's output is read only     *)
(* after the hook has ended, a plugin tool's after its input is written.       *)
Fits ==
    CASE cmd.kind = "hook"   -> cmd.output <= PipeSize
      [] cmd.kind = "plugin" -> cmd.output <= PipeSize \/ cmd.payload <= PipeSize
      [] OTHER               -> TRUE

(* A command that ends gets its caller a result, with or without deadline,    *)
(* whatever it reads, as long as its output fits.                              *)
EndingCommandsReturn ==
    (pc # "start" /\ cmd.ends /\ Fits) ~> (pc = "done")

(* A hook that runs and exits with status 0 is not reported as failed.        *)
SuccessIsNotFailure ==
    ~(pc = "done" /\ cmd.kind = "hook" /\ child = "exited" /\ result = "failed")

=============================================================================
