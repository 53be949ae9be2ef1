----------------------------- MODULE ProcessProofs -----------------------------
(***************************************************************************)
(* Proofs about the processes of the program.  ChildCommand, for pipes of  *)
(* any size and any amount of input and output: what a result says about   *)
(* the output and about the processes is so.  WorkerBoot, for every set of *)
(* prompts: what the registry says of a worker is so.                      *)
(***************************************************************************)
EXTENDS ChildCommand, WorkerBoot, TLAPS

\* Output is written, in the pipe or read, and nowhere else.
ConservedInv == collected + outPipe + toWrite = cmd.output

\* The result is settled when the loop is left; a process is killed only on
\* the way to a cancelled or timed-out result.
ResultInv ==
    /\ pc \in {"start", "writing", "polling", "killing"} => result = "none"
    /\ pc \in {"writing", "polling"} => child \in {"running", "exited"}
    /\ pc = "draining" => result \in {"none", "finished", "cancelled", "timeout"}
    /\ pc = "draining" /\ result = "none" => child \in {"running", "exited"}
    /\ result = "finished" => child = "exited"

\* Whoever had the last hold of the output wrote the rest of it.
RestInv ==
    pc \in {"writing", "polling", "draining"} /\ result \in {"none", "finished"}
        => (child = "exited" => HelperHolds \/ toWrite = 0)

\* After the tree kill, and until the result is returned.
GroupGone == helper.state = "running" => receipt \/ ~helper.inGroup

KillInv ==
    /\ pc = "killing" => cmd.kind = "shell" /\ GroupGone /\ (receipt \/ child # "running")
    /\ result = "timeout" /\ cmd.kind = "shell" => GroupGone /\ child # "running"

IInv == TypeOK /\ ConservedInv /\ ResultInv /\ RestInv /\ KillInv /\ OutputComplete

LEMMA CommandType ==
    ASSUME NEW c \in Commands
    PROVE  /\ c.kind \in {"hook", "plugin", "shell", "bash", "background"}
           /\ c.output \in 0..MaxOutput /\ c.payload \in 0..MaxPayload
BY DEF Commands

LEMMA InitInv == Init => IInv
<1> SUFFICES ASSUME Init PROVE IInv
    OBVIOUS
<1>1. cmd.output \in 0..MaxOutput /\ cmd.payload \in 0..MaxPayload
  BY CommandType DEF Init
<1>2. TypeOK
  <2>1. helper \in Helpers
    BY DEF Init, NoHelper, Helpers
  <2>2. inPipe \in 0..PipeSize /\ outPipe \in 0..PipeSize /\ collected \in 0..MaxOutput
    BY PipeAssumption DEF Init
  <2> QED
    BY <1>1, <2>1, <2>2 DEF Init, TypeOK
<1>3. ConservedInv
  BY <1>1, PipeAssumption DEF Init, ConservedInv
<1> QED
  BY <1>2, <1>3 DEF Init, IInv, ResultInv, RestInv, KillInv, OutputComplete

\* Steps of the caller that leave output and processes alone.
Plain == Spawn \/ SpawnFails \/ WritePayload \/ PayloadWritten \/ PayloadRefused

LEMMA PlainKeeps == ASSUME IInv, Plain PROVE IInv'
<1> USE DEF Plain, Spawn, SpawnFails, WritePayload, PayloadWritten, PayloadRefused, Return,
            AfterSpawn, input, output, signals
<1>1. TypeOK'
  <2>1. CASE Spawn
    BY <2>1 DEF IInv, TypeOK
  <2>2. CASE SpawnFails \/ PayloadWritten \/ PayloadRefused
    BY <2>2 DEF IInv, TypeOK
  <2>3. CASE WritePayload
    BY <2>3, PipeAssumption DEF IInv, TypeOK
  <2> QED
    BY <2>1, <2>2, <2>3
<1>2. ConservedInv'
  BY DEF IInv, ConservedInv
<1>3. ResultInv'
  BY DEF IInv, ResultInv
<1>4. RestInv'
  BY DEF IInv, ResultInv, RestInv, HelperHolds
<1>5. KillInv'
  BY DEF IInv, ResultInv, KillInv, GroupGone
<1>6. OutputComplete'
  BY DEF IInv, ResultInv, OutputComplete
<1> QED
  BY <1>1, <1>2, <1>3, <1>4, <1>5, <1>6 DEF IInv

\* Leaving the loop, and what follows it up to the wait for the output.
Leaving == SeesExit \/ SeesAbort \/ SeesDeadline \/ KillChild

LEMMA LeavingKeeps == ASSUME IInv, Leaving PROVE IInv'
<1> USE DEF Leaving, SeesExit, SeesAbort, SeesDeadline, KillChild, Killed, input, output, signals
<1>1. TypeOK'
  <2>1. CASE SeesExit \/ SeesAbort \/ KillChild
    BY <2>1 DEF IInv, TypeOK
  <2>2. CASE SeesDeadline
    BY <2>2 DEF IInv, TypeOK, Helpers
  <2> QED
    BY <2>1, <2>2
<1>2. ConservedInv'
  BY DEF IInv, ConservedInv
<1>3. ResultInv'
  BY DEF IInv, ResultInv
<1>4. RestInv'
  BY DEF IInv, ResultInv, RestInv, HelperHolds
<1>5. KillInv'
  <2>1. CASE SeesExit \/ SeesAbort \/ KillChild
    BY <2>1 DEF IInv, ResultInv, KillInv, GroupGone
  <2>2. CASE SeesDeadline
    BY <2>2 DEF IInv, TypeOK, Helpers, ResultInv, KillInv, GroupGone
  <2> QED
    BY <2>1, <2>2
<1>6. OutputComplete'
  BY DEF OutputComplete
<1> QED
  BY <1>1, <1>2, <1>3, <1>4, <1>5, <1>6 DEF IInv

\* The wait for the output and its end.
Collecting == Drain \/ Eof \/ BashGivesUp

LEMMA CollectingKeeps == ASSUME IInv, Collecting PROVE IInv'
<1> USE DEF Collecting, Drain, Eof, BashGivesUp, Return, input, output, signals
<1>1. collected \in Nat /\ outPipe \in Nat /\ toWrite \in Nat /\ cmd.output \in 0..MaxOutput
  BY CommandType, PipeAssumption DEF IInv, TypeOK
<1>2. ConservedInv'
  BY <1>1 DEF IInv, ConservedInv
<1>3. TypeOK'
  <2>1. CASE Drain
    BY <1>1, <2>1, PipeAssumption DEF IInv, TypeOK, ConservedInv
  <2>2. CASE Eof
    BY <2>2 DEF IInv, TypeOK, ResultInv
  <2>3. CASE BashGivesUp
    BY <2>3 DEF IInv, TypeOK
  <2> QED
    BY <2>1, <2>2, <2>3
<1>4. ResultInv'
  BY DEF IInv, ResultInv, Held
<1>5. RestInv'
  BY DEF IInv, RestInv, HelperHolds
<1>6. KillInv'
  BY DEF IInv, ResultInv, KillInv, GroupGone
<1>7. OutputComplete'
  <2>1. CASE Eof
    <3>1. CASE result' = "finished"
      <4>1. result \in {"none", "finished"} /\ child = "exited" /\ ~HelperHolds
        BY <2>1, <3>1 DEF IInv, ResultInv, Held
      <4>2. toWrite = 0 /\ outPipe = 0
        BY <2>1, <4>1 DEF IInv, RestInv
      <4> QED
        BY <1>1, <2>1, <4>1, <4>2 DEF IInv, ConservedInv, OutputComplete
    <3>2. CASE result' # "finished"
      BY <3>2 DEF OutputComplete
    <3> QED
      BY <3>1, <3>2
  <2>2. CASE Drain \/ BashGivesUp
    BY <2>2 DEF OutputComplete
  <2> QED
    BY <2>1, <2>2
<1> QED
  BY <1>2, <1>3, <1>4, <1>5, <1>6, <1>7 DEF IInv

\* The command and what it started.
Outside == Reads \/ Writes \/ Forks \/ ChildEnds \/ HelperEnds \/ Abort \/ DeadlinePasses

LEMMA OutsideKeeps == ASSUME IInv, Outside PROVE IInv'
<1> USE DEF Outside, Reads, Writes, Forks, ChildEnds, HelperEnds, MayEnd, Abort, DeadlinePasses,
            input, output, signals
<1>1. collected \in Nat /\ outPipe \in Nat /\ toWrite \in Nat /\ cmd.output \in 0..MaxOutput
  BY CommandType, PipeAssumption DEF IInv, TypeOK
<1>2. ConservedInv'
  BY <1>1 DEF IInv, ConservedInv
<1>3. TypeOK'
  <2>1. CASE Reads \/ Writes
    BY <1>1, <2>1, PipeAssumption DEF IInv, TypeOK
  <2>2. CASE Forks \/ HelperEnds
    BY <2>2 DEF IInv, TypeOK, Helpers
  <2>3. CASE ChildEnds \/ Abort \/ DeadlinePasses
    BY <2>3 DEF IInv, TypeOK
  <2> QED
    BY <2>1, <2>2, <2>3
<1>4. ResultInv'
  BY DEF IInv, ResultInv
<1>5. RestInv'
  BY <1>1 DEF IInv, TypeOK, Helpers, ResultInv, RestInv, Held, HelperHolds
<1>6. KillInv'
  BY DEF IInv, TypeOK, Helpers, KillInv, GroupGone
<1>7. OutputComplete'
  BY DEF IInv, OutputComplete
<1> QED
  BY <1>2, <1>3, <1>4, <1>5, <1>6, <1>7 DEF IInv

LEMMA NextKeeps == ASSUME IInv, [Next]_vars PROVE IInv'
<1>1. CASE UNCHANGED vars
  BY <1>1 DEF vars, input, output, signals, IInv, TypeOK, ConservedInv, ResultInv, RestInv, KillInv,
     GroupGone, HelperHolds, OutputComplete
<1>2. CASE Next
  BY <1>2, PlainKeeps, LeavingKeeps, CollectingKeeps, OutsideKeeps
     DEF Next, Caller, Plain, Leaving, Collecting, Outside
<1> QED
  BY <1>1, <1>2

THEOREM Invariance == Spec => []IInv
BY InitInv, NextKeeps, PTL DEF Spec

(* Every reachable state of a command and its caller has its type; what is    *)
(* read never exceeds what the command had to write.                           *)
THEOREM TypeCorrect == Spec => []TypeOK
BY Invariance, PTL DEF IInv

(* A finished result comes with the whole output, for pipes of any size and   *)
(* whatever the command leaves running behind it.                              *)
THEOREM FinishedOutputIsComplete == Spec => []OutputComplete
BY Invariance, PTL DEF IInv

(* A timed-out REPL or shell run leaves nothing of its group running, or      *)
(* says that the kill failed.                                                  *)
THEOREM DeadlinesReclaimTheGroup == Spec => []DeadlineReclaims
<1>1. IInv => DeadlineReclaims
  BY DEF IInv, KillInv, GroupGone, DeadlineReclaims
<1> QED
  BY <1>1, Invariance, PTL

-----------------------------------------------------------------------------
(* The worker registry, for every set of prompts and every number of         *)
(* deliveries.                                                               *)

\* in_flight says what the screens say: the last prompt left and nothing came back.
FlightInv ==
    /\ worker.inFlight <=> fate = "sent"
    /\ fate = "lost" => worker.last \in Prompts

\* While a trust prompt stands unanswered the worker is never offered for a prompt.
GateInv == shown => worker.status # "ready_for_prompt"

WorkerIInv == /\ WorkerTypeOK /\ FlightInv /\ GateInv
        /\ ReplayIffLost /\ OneInFlight /\ LogFollowsStatus /\ BlockedSaysWhy

-----------------------------------------------------------------------------
(* What one screen does to the entry, stage by stage.                      *)

\* The trust stage leaves the prompt alone.
LEMMA TrustStage ==
    ASSUME NEW w \in Workers, NEW screen \in Screens,
           NEW t, t = TrustSeen(w, screen)
    PROVE  /\ t \in Workers
           /\ t.inFlight = w.inFlight /\ t.last = w.last /\ t.replay = w.replay
           /\ t.autoRecover = w.autoRecover
           /\ t = w \/ t.status \in {"spawning", "trust_required"}
           /\ t = w \/ t.logged = t.status
           /\ t.status = "trust_required" /\ t # w => t.lastError = "trust_gate"
BY DEF TrustSeen, TrustResolved, AsksForTrust, Workers, Screens, Statuses, Failures

\* The running stage only takes a prompt out of flight.
LEMMA RunningStage ==
    ASSUME NEW w \in Workers, NEW screen \in Screens,
           NEW t, t = SeenRunning(w, screen)
    PROVE  /\ t \in Workers
           /\ t.last = w.last /\ t.replay = w.replay /\ t.autoRecover = w.autoRecover
           /\ t.attempts = w.attempts
           /\ t.inFlight <=> w.inFlight /\ ~screen.running
           /\ t = w \/ (t.status = "running" /\ w.inFlight)
<1> USE DEF Workers
<1>0. w.inFlight \in BOOLEAN /\ screen.running \in BOOLEAN
  BY DEF Screens
<1>1. CASE screen.running /\ w.inFlight
  <2>1. t = [w EXCEPT !.inFlight = FALSE, !.status = "running", !.lastError = "none"]
    BY <1>1 DEF SeenRunning
  <2>2. t \in Workers
    BY <2>1 DEF Statuses, Failures
  <2> QED BY <1>1, <2>1, <2>2
<1>2. CASE ~(screen.running /\ w.inFlight)
  <2>1. t = w
    BY <1>2 DEF SeenRunning
  <2> QED BY <1>0, <1>2, <2>1
<1> QED BY <1>1, <1>2

\* So does the ready stage, when what it offers is not on offer already.
LEMMA ReadyStage ==
    ASSUME NEW w \in Workers, NEW screen \in Screens,
           w.inFlight => w.status # "ready_for_prompt",
           NEW t, t = SeenReady(w, screen)
    PROVE  /\ t \in Workers
           /\ t.last = w.last /\ t.replay = w.replay /\ t.autoRecover = w.autoRecover
           /\ t.attempts = w.attempts
           /\ t.inFlight <=> w.inFlight /\ ~screen.ready
           /\ t = w \/ (/\ t.status = "ready_for_prompt"
                        /\ t.logged = "ready_for_prompt"
                        /\ ~t.inFlight)
<1> USE DEF Workers
<1>0. w.inFlight \in BOOLEAN /\ screen.ready \in BOOLEAN
  BY DEF Screens
<1>1. CASE screen.ready /\ w.status # "ready_for_prompt"
  <2> DEFINE e == IF w.lastError = "trust_gate" THEN "none" ELSE w.lastError
  <2>1. t = [w EXCEPT !.status = "ready_for_prompt", !.logged = "ready_for_prompt",
                      !.inFlight = FALSE, !.lastError = e]
    BY <1>1 DEF SeenReady
  <2>2. e \in Failures
    BY DEF Failures
  <2> HIDE DEF e
  <2>3. t \in Workers
    BY <2>1, <2>2 DEF Statuses
  <2> QED BY <1>1, <2>1, <2>3
<1>2. CASE ~(screen.ready /\ w.status # "ready_for_prompt")
  <2>1. t = w
    BY <1>2 DEF SeenReady
  <2> QED BY <1>0, <1>2, <2>1
<1> QED BY <1>1, <1>2

-----------------------------------------------------------------------------

LEMMA InitWorkerIInv == WorkerInit => WorkerIInv
<1> SUFFICES ASSUME WorkerInit PROVE WorkerIInv
  OBVIOUS
<1>1. PICK t \in BOOLEAN, r \in BOOLEAN : worker = Created(t, r)
  BY DEF WorkerInit
<1> QED
  BY <1>1 DEF WorkerInit, Created, WorkerIInv, WorkerTypeOK, Workers, Statuses, Failures, FlightInv,
              GateInv, ReplayIffLost, OneInFlight, LogFollowsStatus, BlockedSaysWhy

LEMMA StepWorkerIInv == WorkerIInv /\ [WorkerNext]_workerVars => WorkerIInv'
<1> SUFFICES ASSUME WorkerIInv, [WorkerNext]_workerVars PROVE WorkerIInv'
  OBVIOUS
<1> USE DEF WorkerIInv, WorkerTypeOK, FlightInv, GateInv, ReplayIffLost, OneInFlight,
            LogFollowsStatus, BlockedSaysWhy
<1>1. ASSUME NEW screen \in Screens, ObserveTrust(screen) PROVE WorkerIInv'
  <2> DEFINE t == TrustSeen(worker, screen)
  <2>1. t.status = "trust_required"
    BY <1>1 DEF ObserveTrust, Blocks, AsksForTrust, TrustSeen, Workers
  <2>2. worker' = t /\ fate' = fate /\ shown' = TRUE
    BY <1>1 DEF ObserveTrust
  <2>3. /\ t \in Workers
        /\ t.inFlight = worker.inFlight /\ t.last = worker.last
        /\ t.replay = worker.replay /\ t.autoRecover = worker.autoRecover
        /\ t = worker \/ t.logged = t.status
        /\ t.status = "trust_required" /\ t # worker => t.lastError = "trust_gate"
    BY TrustStage
  <2> HIDE DEF t
  <2> QED BY <2>1, <2>2, <2>3
<1>2. ASSUME NEW screen \in Screens, ObserveMisdelivery(screen) PROVE WorkerIInv'
  <2> DEFINE t == TrustSeen(worker, screen)
  <2>1. /\ t \in Workers
        /\ t.last = worker.last /\ t.replay = worker.replay
        /\ t.autoRecover = worker.autoRecover
    BY TrustStage
  <2>2. /\ worker.inFlight /\ worker.last \in Prompts
        /\ worker' = ReplayArmed(t) /\ fate' = "lost"
    BY <1>2 DEF ObserveMisdelivery, Misdelivered
  <2>3. worker.replay = NoPrompt
    BY <2>2
  <2>4. shown' = FALSE
    BY <1>2, <2>2 DEF ObserveMisdelivery, Blocks, AsksForTrust, TrustSeen,
                      TrustResolved, ReplayArmed, Workers
  <2> HIDE DEF t
  <2>5. CASE t.autoRecover
    BY <2>1, <2>2, <2>3, <2>4, <2>5, PromptsAssumption
       DEF ReplayArmed, Workers, Statuses, Failures
  <2>6. CASE ~t.autoRecover
    BY <2>1, <2>2, <2>3, <2>4, <2>6, PromptsAssumption
       DEF ReplayArmed, Workers, Statuses, Failures
  <2> QED BY <2>5, <2>6
<1>3. ASSUME NEW screen \in Screens, ObserveCues(screen) PROVE WorkerIInv'
  <2> DEFINE t == TrustSeen(worker, screen)
             r == SeenRunning(t, screen)
             c == SeenReady(r, screen)
  <2>1. /\ t \in Workers
        /\ t.inFlight = worker.inFlight /\ t.last = worker.last
        /\ t.replay = worker.replay /\ t.autoRecover = worker.autoRecover
        /\ t = worker \/ t.status \in {"spawning", "trust_required"}
        /\ t = worker \/ t.logged = t.status
        /\ t.status = "trust_required" /\ t # worker => t.lastError = "trust_gate"
    BY TrustStage
  <2>2. /\ r \in Workers
        /\ r.last = t.last /\ r.replay = t.replay /\ r.autoRecover = t.autoRecover
        /\ r.inFlight <=> t.inFlight /\ ~screen.running
        /\ r = t \/ (r.status = "running" /\ t.inFlight)
    BY <2>1, RunningStage
  <2>3. /\ c \in Workers
        /\ c.last = r.last /\ c.replay = r.replay /\ c.autoRecover = r.autoRecover
        /\ c.inFlight <=> r.inFlight /\ ~screen.ready
        /\ c = r \/ (/\ c.status = "ready_for_prompt"
                     /\ c.logged = "ready_for_prompt"
                     /\ ~c.inFlight)
    <3>1. r.inFlight => r.status # "ready_for_prompt"
      BY <2>1, <2>2
    <3> HIDE DEF r
    <3> QED BY <2>2, <3>1, ReadyStage
  <2>4. /\ worker' = c
        /\ fate' = IF fate = "sent" /\ (screen.running \/ screen.ready)
                   THEN "delivered" ELSE fate
        /\ shown' = AsksForTrust(worker', screen)
    BY <1>3 DEF ObserveCues
  <2>5. shown' = FALSE
    BY <1>3, <2>4 DEF ObserveCues, Blocks, AsksForTrust, TrustSeen, TrustResolved,
                      SeenReady, SeenRunning, Workers
  <2> HIDE DEF c, r, t
  <2>6. c.inFlight \in BOOLEAN /\ worker.inFlight \in BOOLEAN
    BY <2>3 DEF Workers
  <2>7. /\ worker'.inFlight <=> worker.inFlight /\ ~screen.running /\ ~screen.ready
        /\ worker'.last = worker.last /\ worker'.replay = worker.replay
        /\ worker'.autoRecover = worker.autoRecover
        /\ worker' \in Workers
    BY <2>1, <2>2, <2>3, <2>4
  <2>9. WorkerTypeOK'
    BY <2>4, <2>5, <2>7
  <2>10. FlightInv' /\ GateInv' /\ ReplayIffLost'
    BY <2>4, <2>5, <2>7
  <2>8. OneInFlight' /\ LogFollowsStatus' /\ BlockedSaysWhy'
    BY <2>1, <2>2, <2>3, <2>4, <2>6
  <2> QED BY <2>8, <2>9, <2>10
<1>4. ASSUME ResolveTrust PROVE WorkerIInv'
  BY <1>4, PromptsAssumption DEF ResolveTrust, TrustResolved, Workers, Statuses, Failures
<1>5. ASSUME NEW prompt \in Prompts \cup {worker.replay}, SendPrompt(prompt) PROVE WorkerIInv'
  <2>1. /\ worker.status = "ready_for_prompt" /\ prompt \in Prompts
        /\ worker' = [worker EXCEPT !.attempts = @ + 1, !.inFlight = TRUE,
                                    !.last = prompt, !.replay = NoPrompt,
                                    !.lastError = "none", !.status = "running",
                                    !.logged = "running"]
        /\ fate' = "sent" /\ shown' = shown
    BY <1>5 DEF SendPrompt
  <2>2. worker.attempts + 1 \in Nat
    BY DEF Workers
  <2>3. worker' \in Workers
    BY <2>1, <2>2 DEF Workers, Statuses, Failures
  <2>4. /\ worker'.inFlight = TRUE /\ worker'.last = prompt
        /\ worker'.replay = NoPrompt /\ worker'.status = "running"
    BY <2>1 DEF Workers
  <2> QED BY <2>1, <2>3, <2>4, PromptsAssumption
<1>6. ASSUME Restart PROVE WorkerIInv'
  BY <1>6, PromptsAssumption DEF Restart, Restarted, Created, Workers, Statuses, Failures
<1>7. ASSUME Terminate PROVE WorkerIInv'
  BY <1>7, PromptsAssumption DEF Terminate, Closed, Workers, Statuses, Failures
<1>8. ASSUME NEW failed \in BOOLEAN, ObserveCompletion(failed) PROVE WorkerIInv'
  <2>1. CASE failed
    BY <1>8, <2>1, PromptsAssumption
       DEF ObserveCompletion, Closed, Workers, Statuses, Failures
  <2>2. CASE ~failed
    BY <1>8, <2>2, PromptsAssumption
       DEF ObserveCompletion, Closed, Workers, Statuses, Failures
  <2> QED BY <2>1, <2>2
<1>9. CASE UNCHANGED workerVars
  BY <1>9 DEF workerVars
<1> QED
  BY <1>1, <1>2, <1>3, <1>4, <1>5, <1>6, <1>7, <1>8, <1>9 DEF WorkerNext

THEOREM WorkerInv == WorkerSpec => []WorkerIInv
<1> QED BY InitWorkerIInv, StepWorkerIInv, PTL DEF WorkerSpec

\* The worker's entry keeps its type, and a prompt in flight is a real prompt.
THEOREM WorkerTypeCorrect == WorkerSpec => []WorkerTypeOK
<1>1. WorkerIInv => WorkerTypeOK
  BY DEF WorkerIInv
<1> QED BY WorkerInv, <1>1, PTL

\* A prompt is armed for replay exactly when it was lost and recovery is on.
THEOREM ReplaysAreLosses == WorkerSpec => []ReplayIffLost
<1>1. WorkerIInv => ReplayIffLost
  BY DEF WorkerIInv
<1> QED BY WorkerInv, <1>1, PTL

\* No screen, however late, leaves two prompts in flight.
THEOREM SinglePrompt == WorkerSpec => []OneInFlight
<1>1. WorkerIInv => OneInFlight
  BY DEF WorkerIInv
<1> QED BY WorkerInv, <1>1, PTL

\* The event log never contradicts the worker's status, except while it runs.
THEOREM LogIsCurrent == WorkerSpec => []LogFollowsStatus
<1>1. WorkerIInv => LogFollowsStatus
  BY DEF WorkerIInv
<1> QED BY WorkerInv, <1>1, PTL

\* A blocked worker has an error that says what blocks it.
THEOREM BlockedWorkersExplain == WorkerSpec => []BlockedSaysWhy
<1>1. WorkerIInv => BlockedSaysWhy
  BY DEF WorkerIInv
<1> QED BY WorkerInv, <1>1, PTL

\* No prompt is dispatched past a trust prompt that stands.
THEOREM TrustBeforePrompts == WorkerSpec => TrustComesFirst
<1>1. WorkerIInv /\ [WorkerNext]_workerVars => [Dispatches => ~shown]_workerVars
  <2> SUFFICES ASSUME WorkerIInv, WorkerNext, Dispatches PROVE ~shown
    BY DEF workerVars, Dispatches
  <2> USE DEF Dispatches, WorkerIInv, WorkerTypeOK
  <2>0. worker.attempts \in Nat
    BY DEF Workers
  <2>1. ASSUME NEW prompt, SendPrompt(prompt) PROVE ~shown
    BY <2>1 DEF SendPrompt, GateInv
  <2>2. ASSUME NEW screen \in Screens, ObserveTrust(screen) PROVE FALSE
    BY <2>0, <2>2 DEF ObserveTrust, TrustSeen, TrustResolved, Workers
  <2>3. ASSUME NEW screen \in Screens, ObserveMisdelivery(screen) PROVE FALSE
    BY <2>0, <2>3 DEF ObserveMisdelivery, ReplayArmed, TrustSeen, TrustResolved, Workers
  <2>4. ASSUME NEW screen \in Screens, ObserveCues(screen) PROVE FALSE
    BY <2>0, <2>4 DEF ObserveCues, SeenReady, SeenRunning, TrustSeen, TrustResolved, Workers
  <2>5. ASSUME ResolveTrust PROVE FALSE
    BY <2>0, <2>5 DEF ResolveTrust, TrustResolved, Workers
  <2>8. ASSUME Terminate PROVE FALSE
    BY <2>0, <2>8 DEF Terminate, Workers
  <2>6. ASSUME Restart PROVE FALSE
    BY <2>0, <2>6 DEF Restart, Restarted, Created, Workers
  <2>7. ASSUME NEW failed \in BOOLEAN, ObserveCompletion(failed) PROVE FALSE
    BY <2>0, <2>7 DEF ObserveCompletion, Workers
  <2> QED BY <2>1, <2>2, <2>3, <2>4, <2>5, <2>6, <2>7, <2>8 DEF WorkerNext
<1> QED BY WorkerInv, <1>1, PTL DEF WorkerSpec, TrustComesFirst

=============================================================================
