----------------------------- MODULE WorkerBoot -----------------------------
(***************************************************************************)
(* The control plane's view of one worker terminal                         *)
(* (runtime/src/worker_boot.rs).  Every operation of WorkerRegistry holds  *)
(* the registry's mutex from start to end and touches one worker, so it is *)
(* one action, and one worker stands for all.  The terminal behind it is   *)
(* seen only through the screens that are passed to observe: any screen    *)
(* may come at any time, late or twice.                                    *)
(***************************************************************************)
EXTENDS Naturals

CONSTANTS Prompts,    \* prompts a caller may send
          NoPrompt,
          MaxAttempts \* bound: deliveries between two restarts

ASSUME PromptsAssumption == NoPrompt \notin Prompts
ASSUME AttemptsAssumption == MaxAttempts \in Nat

VARIABLES worker,  \* the registry's entry
          fate,    \* what became of last_prompt, as far as screens tell (history)
          shown    \* the latest screen asks for trust nobody gave (history)

workerVars == <<worker, fate, shown>>

Statuses == {"spawning", "trust_required", "ready_for_prompt", "running",
             "finished", "failed"}
Failures == {"none", "trust_gate", "prompt_delivery", "provider"}

\* logged is the status in the newest event of the worker's log.
Workers ==
    [status : Statuses, logged : Statuses, lastError : Failures,
     autoTrust : BOOLEAN, autoRecover : BOOLEAN, cleared : BOOLEAN,
     attempts : Nat, inFlight : BOOLEAN,
     last : Prompts \cup {NoPrompt}, replay : Prompts \cup {NoPrompt}]

\* What the detect_ functions find on a screen; lost: the prompts it shows in a
\* shell error or behind the shell prompt of another directory.
Screens == [trust : BOOLEAN, running : BOOLEAN, ready : BOOLEAN,
            lost : SUBSET Prompts]

WorkerTypeOK ==
    /\ worker \in Workers
    /\ worker.inFlight => worker.last \in Prompts
    /\ fate \in {"none", "sent", "delivered", "lost", "closed"}
    /\ shown \in BOOLEAN

\* create
Created(autoTrust, autoRecover) ==
    [status |-> "spawning", logged |-> "spawning", lastError |-> "none",
     autoTrust |-> autoTrust, autoRecover |-> autoRecover, cleared |-> FALSE,
     attempts |-> 0, inFlight |-> FALSE, last |-> NoPrompt, replay |-> NoPrompt]

WorkerInit ==
    /\ worker \in {Created(t, r) : t, r \in BOOLEAN}
    /\ fate = "none"
    /\ shown = FALSE

-----------------------------------------------------------------------------
(* observe                                                                 *)

AsksForTrust(w, screen) == ~w.cleared /\ screen.trust

\* Mutant: a trust prompt does not end the reading of its screen.
BlocksNever(w, screen) == FALSE
Blocks(w, screen) == AsksForTrust(w, screen) /\ ~w.autoTrust

TrustResolved(w) ==
    [w EXCEPT !.cleared = TRUE, !.lastError = "none",
              !.status = "spawning", !.logged = "spawning"]

TrustSeen(w, screen) ==
    IF ~AsksForTrust(w, screen) THEN w
    ELSE IF w.autoTrust THEN TrustResolved(w)
    ELSE [w EXCEPT !.status = "trust_required", !.logged = "trust_required",
                   !.lastError = "trust_gate"]

\* prompt_misdelivery_is_relevant and detect_prompt_misdelivery
Misdelivered(w, screen) == w.inFlight /\ w.last \in screen.lost

ReplayArmed(w) ==
    IF w.autoRecover
    THEN [w EXCEPT !.lastError = "prompt_delivery", !.inFlight = FALSE,
                   !.replay = w.last, !.status = "ready_for_prompt",
                   !.logged = "ready_for_prompt"]
    ELSE [w EXCEPT !.lastError = "prompt_delivery", !.inFlight = FALSE,
                   !.status = "failed", !.logged = "failed"]

\* Mutants: the prompt stays in flight; the status is forgotten.
SeenRunningInFlight(w, screen) ==
    IF screen.running /\ w.inFlight
    THEN [w EXCEPT !.status = "running", !.lastError = "none"]
    ELSE w

\* This transition pushes no event.
SeenRunning(w, screen) ==
    IF screen.running /\ w.inFlight
    THEN [w EXCEPT !.inFlight = FALSE, !.status = "running", !.lastError = "none"]
    ELSE w

SeenReady(w, screen) ==
    IF screen.ready /\ w.status # "ready_for_prompt"
    THEN [w EXCEPT !.status = "ready_for_prompt", !.logged = "ready_for_prompt",
                   !.inFlight = FALSE,
                   !.lastError = IF @ = "trust_gate" THEN "none" ELSE @]
    ELSE w

ObserveTrust(screen) ==
    /\ Blocks(worker, screen)
    /\ worker' = TrustSeen(worker, screen)
    /\ shown' = TRUE
    /\ UNCHANGED fate

ObserveMisdelivery(screen) ==
    /\ ~Blocks(worker, screen)
    /\ Misdelivered(worker, screen)
    /\ worker' = ReplayArmed(TrustSeen(worker, screen))
    /\ fate' = IF fate = "sent" THEN "lost" ELSE fate
    /\ shown' = AsksForTrust(worker', screen)

ObserveCues(screen) ==
    /\ ~Blocks(worker, screen)
    /\ ~Misdelivered(worker, screen)
    /\ worker' = SeenReady(SeenRunning(TrustSeen(worker, screen), screen), screen)
    /\ fate' = IF fate = "sent" /\ (screen.running \/ screen.ready)
               THEN "delivered" ELSE fate
    /\ shown' = AsksForTrust(worker', screen)

-----------------------------------------------------------------------------

ResolveTrust ==
    /\ worker.status = "trust_required"
    /\ worker' = TrustResolved(worker)
    /\ shown' = FALSE
    /\ UNCHANGED fate

\* send_prompt with a prompt, or with none: then the armed replay goes out.
SendPrompt(prompt) ==
    /\ worker.status = "ready_for_prompt"
    /\ prompt \in Prompts
    /\ worker.attempts < MaxAttempts
    /\ worker' = [worker EXCEPT !.attempts = @ + 1, !.inFlight = TRUE,
                                !.last = prompt, !.replay = NoPrompt,
                                !.lastError = "none", !.status = "running",
                                !.logged = "running"]
    /\ fate' = "sent"
    /\ UNCHANGED shown

Restarted == Created(worker.autoTrust, worker.autoRecover)

Restart ==
    /\ worker' = Restarted
    /\ fate' = "none"
    /\ shown' = FALSE

Closed == IF fate = "sent" THEN "closed" ELSE fate

Terminate ==
    /\ worker' = [worker EXCEPT !.status = "finished", !.logged = "finished",
                                !.inFlight = FALSE]
    /\ fate' = Closed
    /\ UNCHANGED shown

\* observe_completion; the provider failed, or the session ended normally.
ObserveCompletion(failed) ==
    /\ worker' = [worker EXCEPT !.status = IF failed THEN "failed" ELSE "finished",
                                !.logged = IF failed THEN "failed" ELSE "finished",
                                !.lastError = IF failed THEN "provider" ELSE "none",
                                !.inFlight = FALSE]
    /\ fate' = Closed
    /\ UNCHANGED shown

WorkerNext ==
    \/ \E screen \in Screens :
          ObserveTrust(screen) \/ ObserveMisdelivery(screen) \/ ObserveCues(screen)
    \/ ResolveTrust
    \/ \E prompt \in Prompts \cup {worker.replay} : SendPrompt(prompt)
    \/ Restart
    \/ Terminate
    \/ \E failed \in BOOLEAN : ObserveCompletion(failed)

WorkerSpec == WorkerInit /\ [][WorkerNext]_workerVars

-----------------------------------------------------------------------------

\* Replay and loss go together: a prompt is armed for replay exactly when
\* recovery is on and it was seen to go astray before anything showed that it
\* had arrived; so a prompt the worker took is never sent a second time, and a
\* lost one is not forgotten by trust prompts, completions or terminate.
ReplayIffLost ==
    worker.replay # NoPrompt <=>
        fate = "lost" /\ worker.autoRecover /\ worker.replay = worker.last

\* A worker that is offered for a prompt, or at rest, has none on its way: two
\* prompts are never in flight at once, whatever screens come in between.
OneInFlight ==
    worker.status \in {"ready_for_prompt", "finished", "failed"} => ~worker.inFlight

\* Who reads the event log instead of the worker sees the same status.  Running is
\* the exception: a running cue after a trust prompt moves the worker silently.
LogFollowsStatus == worker.status # "running" => worker.logged = worker.status

\* await_ready calls trust_required and failed blocked, and then has an error to show.
BlockedSaysWhy ==
    worker.status \in {"trust_required", "failed"} => worker.lastError # "none"

Dispatches == worker'.attempts > worker.attempts

\* No prompt goes to a terminal whose latest screen asks for trust that neither the
\* allowlist nor resolve_trust gave.
TrustComesFirst == [][Dispatches => ~shown]_workerVars

\* observe_completion "transition[s] worker to appropriate terminal state": a worker
\* that finished stays finished until it is restarted.  It does not: a late screen
\* with a ready cue makes it ready for prompts again.
FinishedIsTerminal ==
    [][worker.status = "finished" /\ worker'.status # "finished"
          => worker' = Restarted]_workerVars

=============================================================================
