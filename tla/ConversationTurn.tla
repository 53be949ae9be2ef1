-------------------------- MODULE ConversationTurn --------------------------
(***************************************************************************)
(* ConversationRuntime::run_turn (runtime/src/conversation.rs): the loop   *)
(* that sends the transcript to the provider, runs the tools the answer    *)
(* asks for, and starts over until an answer asks for none.  Around it,    *)
(* LiveCli::run_turn (rusty-claude-cli/src/main.rs): a turn works on a     *)
(* clone of the session, which replaces the session only when the turn     *)
(* succeeds.  Ctrl-C is another thread that sets the two abort flags, one  *)
(* after the other, at any moment of the turn.                             *)
(***************************************************************************)
EXTENDS ProviderRequest, PermissionPolicy, Integers

CONSTANTS MaxIterations,    \* with_max_iterations
          MaxCalls,         \* DeclaredBudget::max_provider_calls
          MaxTokens,        \* DeclaredBudget::max_input_tokens, in responses
          MaxFetches,       \* DeclaredBudget::max_fetches
          AutoCompactAt,    \* auto_compaction_input_tokens_threshold, likewise
          Policy,           \* the permission policy, by tool
          PromptAnswers,    \* what the prompter, or its absence, may answer
          PreHooks,         \* whether PreToolUse hooks are configured
          PersistMayFail,   \* whether appending to the session file may fail
          MaxUses,          \* bound: tool uses in one answer
          MaxTurns          \* bound: turns of the REPL

Unlimited == -1             \* a dimension the budget does not declare
Limits    == Nat \cup {Unlimited}

ASSUME LimitsAssumption ==
    /\ MaxIterations \in Nat
    /\ MaxCalls \in Limits /\ MaxTokens \in Limits /\ MaxFetches \in Limits
    /\ AutoCompactAt \in Nat
    /\ MaxUses \in Nat /\ MaxTurns \in Nat
ASSUME PolicyAssumption ==
    /\ Policy \in [Tools -> CallPolicies]
    /\ PromptAnswers \subseteq Answers
    /\ PreHooks \in BOOLEAN /\ PersistMayFail \in BOOLEAN

VARIABLES base,        \* LiveCli's session: the transcript of finished turns
          session,     \* the running turn's transcript
          pc,          \* where run_turn is
          iteration,   \* iterations
          tokens,      \* usage_tracker.cumulative_usage().input_tokens
          pending,     \* tool uses of the last answer not yet answered
          hook,        \* what the PreToolUse hooks said of Head(pending)
          answer,      \* the prompter's answer for Head(pending), if asked
          hookAbort,   \* hook_abort_signal
          turnAbort,   \* turn_abort_signal
          outcome,     \* how the last turn ended
          turns,       \* turns begun
          nextId,      \* next id the provider gives a tool use
          started,     \* the tool uses this turn began to execute (history)
          fetches      \* fetches begun since the program started (history)

turnVars == <<session, pc, iteration, tokens, pending, hook, answer, started>>
vars == <<base, turnVars, hookAbort, turnAbort, outcome, turns, nextId, fetches>>

\* HookRunResult: the run is vetoed, or carries a permission override.
HookVetoes  == {"denied", "failed", "cancelled"}
HookResults == HookVetoes \cup Overrides

\* The places at which run_turn looks at turn_abort_signal.
Checkpoints == {"head", "request", "streaming", "tool", "execute", "running"}
Locations   == Checkpoints \cup {"idle", "hook", "authorize", "posthook"}

\* run_repl goes on after a turn that completed or was cancelled; any other
\* error, and a second Ctrl-C, end the program.
Fatal    == {"failed", "budget", "exited"}
Outcomes == {"none", "completed", "cancelled"} \cup Fatal

TypeOK ==
    /\ base \in Seq(Message) /\ session \in Seq(Message)
    /\ pc \in Locations
    /\ iteration \in Nat /\ tokens \in Nat
    /\ pending \in Seq(Use)
    /\ hook \in HookResults
    /\ answer \in Answers
    /\ hookAbort \in BOOLEAN /\ turnAbort \in BOOLEAN
    /\ outcome \in Outcomes
    /\ turns \in Nat /\ nextId \in Nat \ {0}
    /\ started \in Seq(Use)
    /\ fetches \in Nat

Init ==
    /\ base = <<>> /\ session = <<>>
    /\ pc = "idle" /\ iteration = 0 /\ tokens = 0 /\ pending = <<>>
    /\ hook = "None" /\ answer = "NoPrompter"
    /\ hookAbort = FALSE /\ turnAbort = FALSE
    /\ outcome = "none" /\ turns = 0 /\ nextId = 1
    /\ started = <<>> /\ fetches = 0

-----------------------------------------------------------------------------
(* The declared budget.                                                    *)

Reached(limit, used) == limit # Unlimited /\ used >= limit

\* Mutant: for fetches, the comparison an earlier version of the code made.
ExceededFetchLate(calls, used, fetched) ==
    \/ Reached(MaxCalls, calls)
    \/ Reached(MaxTokens, used)
    \/ MaxFetches # Unlimited /\ fetched > MaxFetches

\* DeclaredBudget::exceeded, with the iterations completed before this one.
Exceeded(calls, used, fetched) ==
    \/ Reached(MaxCalls, calls)
    \/ Reached(MaxTokens, used)
    \/ Reached(MaxFetches, fetched)

-----------------------------------------------------------------------------
(* The end of a turn: the runtime that ran it is dropped, or replaces the  *)
(* session's.  Its flags go with it.                                       *)

EndTurn(why, transcript) ==
    /\ base' = transcript /\ session' = transcript
    /\ pc' = "idle" /\ outcome' = why
    /\ iteration' = 0 /\ tokens' = 0 /\ pending' = <<>>
    /\ hook' = "None" /\ answer' = "NoPrompter" /\ started' = <<>>
    /\ hookAbort' = FALSE /\ turnAbort' = FALSE
    /\ UNCHANGED <<turns, nextId, fetches>>

\* maybe_auto_compact, on the way out of a turn that succeeded.
AutoCompacted(s, used) == IF used < AutoCompactAt THEN s ELSE Compact(s)

\* Mutant: a cancelled turn keeps what it has of the transcript.
CancelledKeeps ==
    /\ pc \in Checkpoints
    /\ turnAbort
    /\ EndTurn("cancelled", session)

Cancelled ==
    /\ pc \in Checkpoints
    /\ turnAbort
    /\ EndTurn("cancelled", base)

\* Session::push_message undoes the push when the record cannot be appended
\* to the session file, and run_turn returns the error.
PushFails ==
    /\ PersistMayFail
    /\ EndTurn("failed", base)

-----------------------------------------------------------------------------
(* The steps of run_turn.                                                  *)

BeginTurn ==
    /\ pc = "idle" /\ outcome \notin Fatal
    /\ turns < MaxTurns
    /\ turns' = turns + 1
    /\ session' = Append(base, UserInput)
    /\ tokens' = UsageOf(base)
    /\ pc' = "head"
    /\ UNCHANGED <<base, iteration, pending, hook, answer, hookAbort, turnAbort,
                   outcome, nextId, started, fetches>>

\* The user's message cannot be appended to the session file.
InputPushFails ==
    /\ pc = "idle" /\ outcome \notin Fatal
    /\ PersistMayFail
    /\ turns < MaxTurns
    /\ turns' = turns + 1
    /\ outcome' = "failed"
    /\ UNCHANGED <<base, turnVars, hookAbort, turnAbort, nextId, fetches>>

\* The ceilings, then the compaction before the first request of the turn,
\* which the size of the transcript decides.
LoopHead ==
    /\ pc = "head" /\ ~turnAbort
    /\ iteration < MaxIterations
    /\ ~Exceeded(iteration, tokens, FetchesSoFar(session))
    /\ iteration' = iteration + 1
    /\ \/ session' = session
       \/ iteration = 0 /\ session' = Compact(session)
    /\ pc' = "request"
    /\ UNCHANGED <<base, tokens, pending, hook, answer, hookAbort, turnAbort,
                   outcome, turns, nextId, started, fetches>>

TooManyIterations ==
    /\ pc = "head" /\ ~turnAbort
    /\ iteration >= MaxIterations
    /\ EndTurn("failed", base)

\* Mutant: the turn the budget stops is committed.
BudgetStopKeeps ==
    /\ pc = "head" /\ ~turnAbort
    /\ iteration < MaxIterations
    /\ Exceeded(iteration, tokens, FetchesSoFar(session))
    /\ EndTurn("budget", session)

BudgetStop ==
    /\ pc = "head" /\ ~turnAbort
    /\ iteration < MaxIterations
    /\ Exceeded(iteration, tokens, FetchesSoFar(session))
    /\ EndTurn("budget", base)

\* Mutant: the flag is not looked at between the ceilings and the request.
SendRequestUnchecked ==
    /\ pc = "request"
    /\ pc' = "streaming"
    /\ UNCHANGED <<base, session, iteration, tokens, pending, hook, answer,
                   hookAbort, turnAbort, outcome, turns, nextId, started, fetches>>

SendRequest ==
    /\ pc = "request" /\ ~turnAbort
    /\ pc' = "streaming"
    /\ UNCHANGED <<base, session, iteration, tokens, pending, hook, answer,
                   hookAbort, turnAbort, outcome, turns, nextId, started, fetches>>

\* The stream fails, or what it delivered is no complete message.
StreamFails ==
    /\ pc = "streaming"
    /\ EndTurn("failed", base)

\* The answers the provider may give: tool uses with fresh ids.
NewUses == UNION { {[k \in 1..n |-> [id |-> nextId + k - 1, tool |-> names[k]]] :
                      names \in [1..n -> Tools]} : n \in 0..MaxUses }

Recorded(billed) == tokens + (IF billed THEN 1 ELSE 0)

\* Mutant: the tool uses are taken from the end of the answer.
StreamReturnsReversed(uses, billed) ==
    /\ pc = "streaming" /\ ~turnAbort
    /\ uses # <<>>
    /\ session' = Append(session, Assistant(uses, billed))
    /\ tokens' = Recorded(billed)
    /\ pending' = Reverse(uses)
    /\ nextId' = nextId + Len(uses)
    /\ pc' = "tool"
    /\ UNCHANGED <<base, iteration, hook, answer, hookAbort, turnAbort, outcome,
                   turns, started, fetches>>

StreamReturns(uses, billed) ==
    /\ pc = "streaming" /\ ~turnAbort
    /\ uses # <<>>
    /\ session' = Append(session, Assistant(uses, billed))
    /\ tokens' = Recorded(billed)
    /\ pending' = uses
    /\ nextId' = nextId + Len(uses)
    /\ pc' = "tool"
    /\ UNCHANGED <<base, iteration, hook, answer, hookAbort, turnAbort, outcome,
                   turns, started, fetches>>

\* An answer without tool uses completes the turn.
TurnCompletes(billed) ==
    /\ pc = "streaming" /\ ~turnAbort
    /\ EndTurn("completed",
               AutoCompacted(Append(session, Assistant(<<>>, billed)),
                             Recorded(billed)))

AnswerPushFails ==
    /\ pc = "streaming" /\ ~turnAbort
    /\ PushFails

\* The hooks of a turn whose hook flag is up are cancelled before they start.
StartTool ==
    /\ pc = "tool" /\ ~turnAbort
    /\ \/ PreHooks /\ ~hookAbort /\ pc' = "hook" /\ hook' = "None"
       \/ PreHooks /\ hookAbort /\ pc' = "authorize" /\ hook' = "cancelled"
       \/ ~PreHooks /\ pc' = "authorize" /\ hook' = "None"
    /\ UNCHANGED <<base, session, iteration, tokens, pending, answer, hookAbort,
                   turnAbort, outcome, turns, nextId, started, fetches>>

\* Mutant: a hook whose flag goes up while it runs is waited for in vain.
PreHookHangs(result) ==
    /\ pc = "hook" /\ ~hookAbort
    /\ result # "cancelled"
    /\ hook' = result
    /\ pc' = "authorize"
    /\ UNCHANGED <<base, session, iteration, tokens, pending, answer, hookAbort,
                   turnAbort, outcome, turns, nextId, started, fetches>>

PreHookReturns(result) ==
    /\ pc = "hook"
    /\ result = "cancelled" => hookAbort
    /\ hook' = result
    /\ pc' = "authorize"
    /\ UNCHANGED <<base, session, iteration, tokens, pending, answer, hookAbort,
                   turnAbort, outcome, turns, nextId, started, fetches>>

\* Mutant: a hook that failed or was cancelled counts as one without a verdict.
PermittedDespiteHook(given) ==
    Authorized(Policy[Head(pending).tool],
               IF hook \in HookVetoes THEN "None" ELSE hook, given)

\* The permission outcome of the tool at the head of the queue.
Permitted(given) ==
    hook \notin HookVetoes /\ Authorized(Policy[Head(pending).tool], hook, given)

Allow(given) ==
    /\ pc = "authorize"
    /\ Permitted(given)
    /\ answer' = given
    /\ pc' = "execute"
    /\ UNCHANGED <<base, session, iteration, tokens, pending, hook, hookAbort,
                   turnAbort, outcome, turns, nextId, started, fetches>>

\* The result of the tool at the head of the queue joins the transcript.
RecordResult ==
    /\ session' = Append(session, ToolResult(Head(pending)))
    /\ pending' = Tail(pending)
    /\ pc' = IF Tail(pending) = <<>> THEN "head" ELSE "tool"
    /\ hook' = "None" /\ answer' = "NoPrompter"
    /\ UNCHANGED <<base, iteration, tokens, hookAbort, turnAbort, outcome, turns,
                   nextId, started, fetches>>

Deny(given) ==
    /\ pc = "authorize"
    /\ ~Permitted(given)
    /\ RecordResult \/ PushFails

Execute ==
    /\ pc = "execute" /\ ~turnAbort
    /\ started' = Append(started, Head(pending))
    /\ fetches' = IF Head(pending).tool \in FetchTools THEN fetches + 1 ELSE fetches
    /\ pc' = "running"
    /\ UNCHANGED <<base, session, iteration, tokens, pending, hook, answer,
                   hookAbort, turnAbort, outcome, turns, nextId>>

\* The tool returns, well or with an error; the matching hooks run next.
ToolReturns ==
    /\ pc = "running" /\ ~turnAbort
    /\ pc' = "posthook"
    /\ UNCHANGED <<base, session, iteration, tokens, pending, hook, answer,
                   hookAbort, turnAbort, outcome, turns, nextId, started, fetches>>

\* Mutant: no result is recorded once the hooks are cancelled.
PostHookDropsResult ==
    /\ pc = "posthook"
    /\ \/ ~hookAbort /\ RecordResult
       \/ /\ hookAbort
          /\ pending' = Tail(pending)
          /\ pc' = IF Tail(pending) = <<>> THEN "head" ELSE "tool"
          /\ hook' = "None" /\ answer' = "NoPrompter"
          /\ UNCHANGED <<base, session, iteration, tokens, hookAbort, turnAbort,
                         outcome, turns, nextId, started, fetches>>

PostHookReturns ==
    /\ pc = "posthook"
    /\ RecordResult \/ PushFails

-----------------------------------------------------------------------------
(* The user.                                                               *)

\* Ctrl-C: HookAbortMonitor raises one flag, then the other.
InterruptHooks ==
    /\ pc # "idle" /\ ~hookAbort
    /\ hookAbort' = TRUE
    /\ UNCHANGED <<base, turnVars, turnAbort, outcome, turns, nextId, fetches>>

InterruptTurn ==
    /\ pc # "idle" /\ hookAbort /\ ~turnAbort
    /\ turnAbort' = TRUE
    /\ UNCHANGED <<base, turnVars, hookAbort, outcome, turns, nextId, fetches>>

\* A second Ctrl-C exits the process.
ForceExit ==
    /\ pc # "idle" /\ turnAbort
    /\ EndTurn("exited", base)

\* /compact between turns, on a transcript large enough for it.
CompactCommand ==
    /\ pc = "idle" /\ outcome \notin Fatal
    /\ Compactable(base)
    /\ base' = Compact(base) /\ session' = Compact(base)
    /\ UNCHANGED <<pc, iteration, tokens, pending, hook, answer, started,
                   hookAbort, turnAbort, outcome, turns, nextId, fetches>>

TurnStep ==
    \/ Cancelled
    \/ LoopHead \/ TooManyIterations \/ BudgetStop
    \/ SendRequest
    \/ StreamFails
    \/ \E uses \in NewUses, billed \in BOOLEAN : StreamReturns(uses, billed)
    \/ \E billed \in BOOLEAN : TurnCompletes(billed)
    \/ AnswerPushFails
    \/ StartTool
    \/ \E result \in HookResults : PreHookReturns(result)
    \/ \E given \in PromptAnswers : Allow(given) \/ Deny(given)
    \/ Execute \/ ToolReturns \/ PostHookReturns

Next ==
    \/ TurnStep
    \/ BeginTurn \/ InputPushFails \/ CompactCommand
    \/ InterruptHooks \/ InterruptTurn \/ ForceExit

Spec == Init /\ [][Next]_vars

\* Streams, tools, hooks and the prompter return, and a raised first flag is
\* followed by the second.
FairSpec == Spec /\ WF_vars(TurnStep) /\ WF_vars(InterruptTurn)

-----------------------------------------------------------------------------
(* Properties.                                                             *)

AnswerTo(m, use) == m.role = "tool" /\ m.id = use.id /\ m.tool = use.tool

\* Position i + j of s, or of the queue of unanswered uses once s ends, holds
\* the answer to the j-th tool use of the assistant message at i.
AnsweredOrQueued(s, queue) ==
    \A i \in DOMAIN s : \A j \in DOMAIN s[i].uses :
       IF i + j <= Len(s)
       THEN AnswerTo(s[i+j], s[i].uses[j])
       ELSE /\ i + j - Len(s) \in DOMAIN queue
            /\ queue[i + j - Len(s)] = s[i].uses[j]

Answered(s) == AnsweredOrQueued(s, <<>>)

\* Whatever is cancelled, denied, vetoed or compacted, the transcript of the
\* finished turns and every transcript the provider is sent answer each tool
\* use, in order, right after the message that asks for it.
EveryToolUseAnswered ==
    /\ Answered(base)
    /\ pc = "streaming" => Answered(session)

\* What convert_messages makes of the transcript is a request the provider
\* accepts, also when compaction cut between a tool use and its result, and
\* so is what the OpenAI-compatible client makes of that.
RequestWellFormed ==
    pc = "streaming" =>
        LET request == ConvertMessages(session)
        IN  WellFormed(request) /\ ChatWellFormed(Translate(request))

\* "A ceiling of N has to stop at N already made to permit exactly N calls":
\* no turn makes more provider calls than the budget declares.
ProviderCallCeiling ==
    pc = "streaming" /\ MaxCalls # Unlimited => iteration <= MaxCalls

FetchesStarted ==
    Cardinality({i \in DOMAIN started : started[i].tool \in FetchTools})

\* A turn that has begun as many fetches as the budget declares sends no
\* further request, so it overshoots by one answer's fetches at most.
TurnFetchCeiling ==
    MaxFetches # Unlimited =>
      /\ pc = "streaming" => FetchesStarted < MaxFetches
      /\ started # <<>> => FetchesStarted <= MaxFetches - 1 + MaxUses

\* Tools run in the order the model asked for them, none of them twice.
ToolsRunInOrder ==
    \A i, j \in DOMAIN started : i < j => started[i].id < started[j].id

\* A tool the turn ran is never kept from the model: the next request holds
\* its result.
NoSilentExecution ==
    pc = "streaming" =>
      \A i \in DOMAIN started :
        \E k \in DOMAIN session : AnswerTo(session[k], started[i])

StopStep ==
    turnAbort => /\ ~(pc' = "streaming" /\ pc # "streaming")
                 /\ Len(started') <= Len(started)
                 /\ base' = base

\* Once the turn's abort flag is up, the turn sends no request, starts no tool
\* and leaves nothing in the finished transcript, unless the answer that
\* completes it is already in.
AbortStopsTheTurn == [][StopStep]_vars

AuthorizedStep ==
    Len(started') > Len(started) =>
      LET p == Policy[Head(pending).tool]
      IN  /\ ~Denied(p) /\ hook \notin HookVetoes
          /\ p.askRule /\ p.trust = "NotBash" => answer = "Allow"

\* A deny rule, a missing registration or a hook's veto keeps a tool from
\* running whatever the user answers; an ask rule needs the user's grant
\* whatever the hook says, unless review-trust classified the call as safe.
OnlyAuthorizedToolsRun == [][AuthorizedStep]_vars

CommitStep == base' # base => \/ pc = "idle"
                              \/ outcome' = "completed" /\ pc = "streaming"

\* Only a turn that completes, or /compact, changes the finished transcript;
\* a turn that is cancelled, fails or hits its budget leaves no message in it.
OnlyCompletedTurnsCommit == [][CommitStep]_vars

\* Every turn ends, cancelled ones included.
EveryTurnEnds == pc # "idle" ~> pc = "idle"

-----------------------------------------------------------------------------
(* The inductive invariants behind the properties.                         *)

\* The phases of a tool use that is not yet answered.
ToolPhases == {"tool", "hook", "authorize", "execute", "running", "posthook"}

\* The queue of tool uses is empty exactly between two answers.
QueueInv == pc \in ToolPhases <=> pending # <<>>

\* The tool uses not in the transcript yet are those in the queue.
TranscriptInv == Answered(base) /\ AnsweredOrQueued(session, pending)

\* A request that is out was sent below the ceiling.
CallsInv == pc \in {"request", "streaming"} /\ MaxCalls # Unlimited =>
              iteration <= MaxCalls

\* Ids grow along the queue, and the tools that ran are older than those in
\* it; only once the tool has started is the head of the queue among them.
OrderInv ==
    /\ \A k \in DOMAIN pending : pending[k].id < nextId
    /\ \A k, l \in DOMAIN pending : k < l => pending[k].id < pending[l].id
    /\ \A i \in DOMAIN started : started[i].id < nextId
    /\ \A i \in DOMAIN started, k \in DOMAIN pending :
          IF pc \in {"running", "posthook"}
          THEN started[i].id <= pending[k].id
          ELSE started[i].id < pending[k].id
    /\ ToolsRunInOrder

\* The abort flags belong to a running turn.
IdleInv == pc = "idle" => ~hookAbort /\ ~turnAbort

\* What is about to run was permitted with the answer on record.
PermitInv == pc = "execute" => Permitted(answer)

IndInv == TypeOK /\ QueueInv /\ TranscriptInv /\ CallsInv /\ OrderInv

\* A tool that has run is on record, unless it is the one running; the
\* compaction inside a turn comes before its first tool.
ResultInv ==
    /\ pc = "idle" => iteration = 0
    /\ pc \notin {"idle", "head"} => iteration # 0
    /\ iteration = 0 => started = <<>>
    /\ \A i \in DOMAIN started :
          \/ pc \in {"running", "posthook"} /\ started[i] = Head(pending)
          \/ \E k \in DOMAIN session : AnswerTo(session[k], started[i])

\* Whoever asked for a result stands before it with the results of its earlier
\* uses between them, unless a compaction cut it off, and then no other answer
\* is before the result; and the queue is of the last answer.
ResultsAsked(s, queue) ==
    /\ \A i \in DOMAIN s : s[i].uses # <<>> => s[i].role = "assistant"
    /\ \A k \in DOMAIN s : s[k].role = "tool" =>
          \/ \E i \in 1 .. k - 1 : k - i \in DOMAIN s[i].uses
          \/ \A i \in 1 .. k : s[i].role # "assistant"
    /\ queue # <<>> =>
          \E i \in DOMAIN s : Len(s[i].uses) = Len(s) - i + Len(queue)
AskedInv == ResultsAsked(base, <<>>) /\ ResultsAsked(session, pending)

\* The tool uses that may still be started before the next look at the ceiling.
Startable == Len(pending) - (IF pc \in {"running", "posthook"} THEN 1 ELSE 0)

\* The fetches begun, and those an answer may add, before the next request.
FetchInv ==
    MaxFetches # Unlimited =>
      /\ pc \in {"request", "streaming"} => FetchesStarted < MaxFetches
      /\ pc \in ToolPhases \/ started # <<>> =>
            FetchesStarted + Startable <= MaxFetches - 1 + MaxUses

-----------------------------------------------------------------------------
(* Statements of the source's comments.                                    *)

\* conversation.rs: "The declared ceiling stops the run"; fetches are those
\* "this session has performed".  A request is sent only below the ceiling.
SessionFetchCeiling ==
    pc = "streaming" /\ MaxFetches # Unlimited => fetches < MaxFetches

=============================================================================
