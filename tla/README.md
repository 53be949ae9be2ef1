# Sego Agent: TLA+ specifications

Sego Agent is a coding agent for the terminal, written in Rust (`src/rust/crates`).
This directory holds TLA+ models of the parts of it whose correctness is a matter of
order, interruption and failure, the TLC runs that check them and the theorems that
TLAPS proves about them. `PROJECT.json` maps every definition to the lines it models.

- [Inventory](#inventory): the system, its parts, what makes each correct
- [Modules](#modules): what is modelled, and how it corresponds to the code
- [Runs](#runs): what is checked, in which bounds, under which fairness
- [Proofs](#proofs): what is proved, and along which argument
- [Disagreements](#disagreements) between the code and what is said of it
- [Not modelled](#not-modelled), and [the plan](#plan)

Run `tlc -config TurnTools.cfg MCConversationTurn.tla` and so on to check, and
`tlapm ConversationTurnProofs.tla` to prove.

## Inventory

A **REPL** (`rusty-claude-cli/src/main.rs`, `LiveCli`) reads a line, which is a slash
command or the input of a *turn*.  A turn clones the session into a
**ConversationRuntime** (`runtime/src/conversation.rs`) that talks to a **provider
client** (`api`), asks the **permission policy** (`permissions.rs`) and the **hooks**
(`hooks.rs`) about every tool use and calls the **tool executor** (`tools`).  The
tools reach the shell, the file system, **MCP servers** and in-memory **registries**
(workers, tasks, teams, cron, LSP).  Messages are appended to the **session file** as
the turn goes, and a **recovery record** beside it says how the last run ended.

| Component | State | Operations | Hard behaviour | Correct when |
|---|---|---|---|---|
| Turn loop (`conversation.rs`) | transcript, usage, iteration count | `run_turn`: request, stream, hooks, permission, execute, record | a second thread raises two abort flags one after the other; twelve ways to fail half way; ceilings | each tool use is answered in place; tools run in order and only when allowed; nothing starts after the abort; only completed turns change the session; ceilings hold; turns end |
| Provider request (`main.rs` `convert_messages`, `compact.rs`) | none | convert, compact | compaction cuts anywhere | tool uses and results still pair |
| Permissions (`permissions.rs`, `permission_enforcer.rs`) | rules, modes | `authorize_with_context`, `check` | six sources of a verdict and their order | denials are final, asks are asked, hooks add nothing |
| Session store (`session.rs`, `recovery.rs`, `main.rs`) | files, rotated logs, recovery record | append, save (rotate, write, clean up), resume, switch, fork, clear, exit | death between any two file operations; torn appends; what a cancelled turn leaves behind | nothing saved is lost; a graceful end leaves just what was saved; finished turns are on disk |
| Worker boot (`worker_boot.rs`) | one record per worker, event log | create, observe, resolve_trust, send_prompt, restart, terminate, observe_completion | screens come late, twice or mixed | a prompt is replayed only if lost, never two in flight, never into a trust prompt |
| MCP manager (`mcp_stdio.rs`, `cli_args.rs`) | processes, handshakes, routes, request ids | discover, call, list and read resources, shutdown | deadlines, two nested retries, resets, stray frames, servers that hang, refuse or die | a tool call is carried out at most once and gets its own answer; nothing precedes the handshake; what was given up is killed; shutdown stops every server |
| Provider clients (`api`, `main.rs`, `tools`) | attempts, stream buffer, the open blocks of an answer | send with retry, cut frames, decode, read events, fall back | retry bounds, chunks that split frames anywhere, bodies that stall or break off, parallel tool calls | a bounded number of requests per call, none after it returned; frames do not depend on chunks; a whole answer arrives whole; every call returns |
| Task ledger (`active_task.rs`, `process_tree.rs`, `recovery.rs`, `main.rs`) | one task file, its recovery prompt, one exit record per workspace | start, goal, track, untrack, complete | threads and programs load, change and rewrite the file without a lock; death at every step | no running process is called stopped or forgotten; a good end reads as one; a run that did not end well can be recovered |
| Plugins (`plugins`, `commands`) | install directories, `installed.json`, `enabledPlugins` | install, update, uninstall, enable, disable, the pass every start makes | several files per command, no lock, death between them | what a command said is so; a start repairs what it can |
| Child commands (`bash.rs`, `hooks.rs`, `plugins`, `tools`, `process_tree.rs`) | pipes, process groups | spawn, feed, wait, kill | full pipes, helpers that hold them, deadlines, Ctrl-C, refused kills | finished output is complete; deadlines end the call and its group; ending commands return |
| Code review (`code_review`, `sidecar.rs`, `main.rs`) | artifact and report per review, `index.jsonl`, `status.jsonl` | review, save, list, mark, summarise | two reviews with one id, death between files, appends cut short | what is listed is whole, what was reported is listed, counts agree with artifacts |
| Task, team, cron registries | maps under a mutex | create, stop, set status, record run | guards differ by operation | terminal states stay |
| Recipes, policy engine, stale branch, green contract | attempt counters | pure decisions | few | enumerated by the unit tests |
| Configuration, prompts, OAuth, reports, workflow, telemetry | files | load, merge, render | I/O | not a matter of interleaving |

The hazards, each at its line and with the properties that would catch it, are listed
in `PROJECT.json`.

## Modules

**`PermissionPolicy`** translates `PermissionPolicy::authorize_with_context` into
operators. A policy is seen from one call: the mode, what the tool requires, whether
a deny, ask or allow rule matches, and the class the bash classifier gives under
review-trust. `Authorized(p, override, answer)` is the verdict when hooks say
`override` and the user, if asked, `answer`. `Rank` is the derived order of
`PermissionMode`. `EnforcerAllows` is the second gate of subagents.
**`PermissionCall`** is a one-step machine that puts every input before TLC.

**`ProviderRequest`** holds the operators on transcripts: the messages, the counts
`run_turn` takes from them, `Compact` and `ConvertMessages`. A message is its role,
the tool uses in it (id and tool), the tool use it answers and whether it was billed;
texts are left out. `Merge` and `Lone` are the two ways in which `convert_messages`
places a tool result.

**`ConversationTurn`** extends both. `pc` is the place in `run_turn`, `session` the
running turn's transcript, `base` LiveCli's session, which `EndTurn` replaces when the
turn completes. There is an action per step between two points at which the abort flag
is read or something outside (stream, hook, prompter, tool, disk) answers:

| Action | Code |
|---|---|
| `BeginTurn`, `InputPushFails` | the user's message is pushed |
| `LoopHead`, `TooManyIterations`, `BudgetStop` | the head of the loop: ceilings, then the compaction before the first request |
| `SendRequest`, `StreamReturns`, `TurnCompletes`, `StreamFails`, `AnswerPushFails` | the request and its answer; an answer without tool uses ends the turn, and `maybe_auto_compact` is part of that |
| `StartTool`, `PreHookReturns`, `Allow`, `Deny` | PreToolUse hooks and the permission outcome |
| `Execute`, `ToolReturns`, `PostHookReturns` | the tool, the PostToolUse hooks, the result message |
| `Cancelled` | the six reads of `turn_abort_signal` that find it raised |
| `InterruptHooks`, `InterruptTurn`, `ForceExit` | `HookAbortMonitor`: Ctrl-C raises one flag, then the other; a second Ctrl-C exits |
| `CompactCommand` | `/compact` between turns |

**`SessionStore`** has the files, their rotated logs and the recovery record as disk
state, and the program (`pc`, the session it works on, its transcripts) as memory that
`Crash` and `BrokenAppend` lose. A save is three steps (`Rotate`, `Write`, `Cleanup`),
as the two renames and the removals are in `save_to_path`; `after` tells what the
code does when the save returns. `BrokenAppend` leaves part of a record, or all but
its newline. A failed write of the recovery record leaves it as it was or truncated,
and is ignored, as in `persist_recovery_for_cli`. The offline commands of
`sego --resume` are `ResumeOffline`, `OfflineCommand` (`/compact`, `/clear --confirm`;
all others save nothing) and `OfflineEnds`. A message is a number. The backup that an
offline `/clear` writes first is a file of its own that is never read and is left out.

**`WorkerBoot`** has an action per operation of `WorkerRegistry`, on one worker: each
holds the registry's mutex throughout and touches no other. `observe` is three
actions, for the screens that end in the trust gate, in a misdelivery, and in the
running and ready cues. A screen is what the detectors find on it; every screen may
come at any time. `fate` and `shown` are history: what the screens have told about the
last prompt, and whether the latest one asks for trust nobody gave.

**`McpCall`** is the promise of `call_tool`: a tool call is idle, called, ok or in
error, a server carries it out at most once and only while it is called, and ok means
that it was carried out. **`McpManager`** implements it (`Promise == INSTANCE McpCall`
maps `status` and `effects` to themselves, which the manager only records). The
manager runs one operation at a time behind a mutex and `block_on`, so its state is
`op`, the operation, and `pc`, where it waits; beside it runs each server, with the
requests on its stdin and the frames on its stdout.

| Action | Code |
|---|---|
| `NextServer`, `ListAll` | the loops over `server_names` of discovery and of listing all resources |
| `CallTool`, `UnknownTool`, `ListResources`, `ReadResource` | `execute_runtime_tool` and the operation it chooses |
| `AlreadyReady`, `SpawnFails`, `Initialize` | the head of `ensure_server_ready`, up to the initialize request |
| `HandshakeAnswered`, `HandshakeInterrupted` | its answer, or the deadline or broken pipe; the inner retry |
| `SendRequest`, `RequestAnswered`, `RequestInterrupted` | a request of the `_once` functions or `call_tool`, pages included; the outer retry and the resets |
| `Shutdown`, `ServerStops`, `ReclaimFails`, `Closed` | the drop of `BuiltRuntime` |
| `Execute`, `Answer`, `Stray`, `Die` | the server process |

A reply is what the manager tells apart: a result, a page with a cursor, an error, or
neither. A frame that cannot be read is treated as one with another id. A server is one
process: what it left behind when the kill of its tree failed is not represented. A deadline
or a broken pipe may come at every wait, also when the answer is already there. Ids
come from a counter that is never reset; since they are only compared, and only with
those the same process may still send, the model takes any id the process does not
hold for the next one. The tools of a server share one route. The registry that
bridges tools to the manager (`mcp_tool_bridge.rs`) is filled by nobody.

**`SseFraming`** cuts a byte stream into frames as both SSE parsers do; a byte is a line
feed, a carriage return, or a piece of a line. **`StreamDecoder`** goes on from frames:
the OpenAI-compatible decoder that turns chunks into content-block events, and the two
readers of those events, which differ: the terminal client has one slot for the open
tool call, the subagents' client one per index. **`ProviderCall`** is the promise of a
call: at least one request and at most `Ceiling`, and none once it has returned.
**`ProviderStream`** composes the three and implements the promise (`Promise ==
INSTANCE ProviderCall`).

| Action | Code |
|---|---|
| `SendRequest`, `Succeeds`, `FailsForNow`, `FailsForGood` | `send_with_retry` of both clients, with the shift of the backoff in `ShiftBits` bits |
| `ProviderWrites` | the provider (external), which may write any frame its protocol allows next |
| `ChunkArrives` | `next_event`: chunks of any size, parsed, decoded and read |
| `BodyEnds`, `BodyBreaks` | the end of the body, orderly or not; what was read so far is the answer, or the fallback begins |
| `WholeMessage`, `MessageUnreadable` | the request without streaming |

**`RunLedger`** has the task file, the recovery prompt and the exit record, the programs
of a workspace with a subagent thread each, and the processes they start. A call to the
ledger is `Load`, `Truncate`, `Write` or `WriteFails`, and `WritePrompt`, as
`update_task` makes them; what it changes is `Updated`. The writes of the prompt and of the
record, which nobody reads meanwhile, are one step each with the outcomes of an `fs::write`:
the new contents, the old ones, or a file that was emptied and not filled; their errors are
dropped, and the run goes on (`persist_recovery_for_cli`, `begin_run_task`). Two such writes
that overlap and leave a mixture are left out. `Launch`, `Open`, `NoteGoal`,
`Leave`, `LeaveByRequest`, `Fail` and `Die` are the life of a run in `main.rs`;
`RunCommand`, `CommandOver`, `SpawnServer`, `ReclaimServer` and `KillServer` are what
records processes; a process outlives a program that dies, and is then nobody's to kill. `lost`, `shared`, `missed` (whether the last write of prompt or record
failed) and `ended` are history.

**`PluginManager`** has an install directory per plugin, the registry, the settings, and
what each program is doing. How far a directory is filled is told by three landmarks with
their version: its `plugin.json` is there, perhaps cut short; it is whole, and the files it
names are there, which is what `load_plugin_from_directory` looks for; all other files are
there too, and whole. `Copy` lands them one by one, the rest before or after the others as
`read_dir` has it, `CopyOver` empties a file that another program had copied, and `Clear`
removes in any order. A command goes through
`Fetch` or `Find`, `Known`, `Clear`, `Copy`, `Load`, `Store` and `Fill`, and for the
settings `Settings`, `Empty` and `Write`: `fs::write` empties a file before it fills it.
`Sync`, `SyncOne` and `Discover` are the pass over bundled and installed plugins that
every start and every listing makes. `Published` is the author of an external plugin, whose
new version may be there at any time but during a copy; since only `Fetch` reads it, it is put
off until a program is about to fetch. `Stop` is an error and a death alike. `word` (what
the last finished command said of a plugin) and `torn` (the bundled plugins whose last copy
was given up halfway) are history.

**`ChildCommand`** is one command in any of the ways the program runs one (`cmd.kind`:
hook, plugin tool, REPL tool, PowerShell, bash, background). The caller's actions are
`Spawn`, `WritePayload`, `SeesExit`, `SeesAbort`, `SeesDeadline`, `KillChild`, `Drain`,
`Eof` and `BashGivesUp`; `AfterSpawn` says which of them a kind goes through. The
command reads, writes, forks a helper (which may leave the group) and exits; pipes are
bounded and close when nobody holds them.

**`ReviewStore`** has the artifact and the report of every id, the two logs, and how far
each review and each marking is. `Collect`, `Answered`, `Create`, `Write` and `List` are
a review from `collect_review_target` to the line in the index; `Resolve`, `Check` and
`Record` are `mark_code_review_finding`. A log is a sequence of appends: one that is cut
short lacks its newline, and the next goes on in the same line, which then no reader
accepts (`Readable`). `ListCut` and `Record` with a cut are a full disk or death in the
middle of the append. `Stop` and `GiveUp` are errors and death alike. What a program has
written stays written: the code never calls fsync, and what a power failure takes away
is not modelled, here or elsewhere. The findings of a review are a sequence of ids, as
`assign_finding_ids` leaves them: it keeps what the model gave and does not make ids
unique.

`ConvertMessages` of `ProviderRequest` is the Anthropic form of a request. `Translate`
is what the OpenAI-compatible client makes of it, and `ChatWellFormed` what such a
provider accepts; `RequestWellFormed` asks for both.

`MCConversationTurn`, `MCSessionStore`, `MCMcpManager`, `MCProviderStream`, `MCRunLedger`,
`MCPluginManager` and `MCReviewStore` give the constants their values. `PermissionCall`,
`WorkerBoot` and `ChildCommand` need no such module. Definitions marked as mutants are
plausible bugs that stand next to the definition they change; no specification uses
them. They show that each property can fail.

## Runs

| Run | Configuration | Distinct states | What it shows |
|---|---|---|---|
| `turn_tools` | `TurnTools.cfg` | 176,233 | One turn: two requests, up to two tool uses each, tools that are open, ask or are denied, every hook verdict, Ctrl-C and failing appends everywhere |
| `turn_sequence` | `TurnSequence.cfg` | 49,239 | Three turns in a row, cancelled, failed, over budget or compacted |
| `permission_call` | `PermissionCall.cfg` | 15,360 | every input of `authorize_with_context` |
| `session_store` | `SessionStore.cfg` | 1,189,701 | two sessions, three starts, three messages, death at every step |
| `worker_boot` | `WorkerBoot.cfg` | 1,406 | one worker, two prompts, every screen |
| `mcp_manager` | `McpManager.cfg` | 325,514 | two servers, discovery, two operations, shutdown; deadlines everywhere, one stray frame or death |
| `provider_stream` | `ProviderStream.cfg` | 271,968 | both clients, both protocols, an answer of every shape, cut and broken anywhere |
| `run_ledger` | `RunLedger.cfg` | 1,405,400 | two programs with a subagent each, one process, two runs, failing writes, death at every step |
| `plugin_manager` | `PluginManager.cfg` | 846,478 | two programs, a bundled plugin and two external ones, two versions, four commands |
| `child_command` | `ChildCommand.cfg` | 11,436 | every kind of command, pipes that fill, helpers, Ctrl-C, deadlines |
| `review_store` | `ReviewStore.cfg` | 2,413,920 | two reviews that may get one id, a program that marks, every stop and cut |
| `parallel_calls` | `ParallelCalls.cfg` | | a [disagreement](#disagreements) |

What the properties say is in the comment before each. In short:

- **Turn**: `EveryToolUseAnswered`, `ToolsRunInOrder`, `NoSilentExecution` (what ran
  has its result in the next request), `AbortStopsTheTurn`,
  `OnlyAuthorizedToolsRun`, `EveryTurnEnds`; `RequestWellFormed`, `TurnFetchCeiling`,
  `OnlyCompletedTurnsCommit`.
- **Permission**: `AskRuleNeedsTheUser`, `UnattendedCallsAreCovered`.
- **Sessions**: `CompletedTurnsOnDisk`, `NothingSavedIsLost`, `GracefulExitIsClean`.
- **Worker**: `ReplayIffLost`, `TrustComesFirst`.
- **MCP**: `PromiseKept` (the refinement of `McpCall`), `HandshakeFirst`,
  `GivenUpIsKilled`, `SpawnsBounded`, `ShutdownStopsAll`, `EveryCallReturns`.
- **Provider**: `FramesAsSent` (whatever the chunks), `ToolCallsIntact`,
  `RequestsAsPromised` (the refinement of `ProviderCall`), `EveryCallReturns`.
- **Ledger**: `StoppedIsGone`, `LiveIsListed`, `FinishedReadsFinished`,
  `ClosedAfterRecord` (prompt and record each may lag if its own last write failed, which
  the code only warns of or drops).
- **Plugins**: `LastWordHolds` (what the last command said is so, unless others changed
  the files meanwhile), `PassRepairs` (after a pass the bundled plugins load at their
  version; what is not whole then is being copied, or a copy of it was given up halfway).
- **Commands**: `OutputComplete`, `DeadlineReclaims`, `DeadlinesHold`,
  `InterruptsEndHooks`, `EndingCommandsReturn`.
- **Reviews**: `ListedAreComplete` (an entry has its files, whole and its own, also when
  its line lacks the newline), `ReportedAreListed` (reading the index fails or shows all
  that was reported), `CountsAddUp` (the summary counts at least the unsettled findings as
  open, and no others unless two findings have one id).

Defined in the modules and checked by hand with the same configurations:
`PluginManager.RefusedForCause`; and, which are also proved, the `TypeOK` of
`PluginManager` and `ReviewStore`, `ReviewStore.LatestNeverGoesBack`, `WorkerBoot.OneInFlight`,
`ConversationTurn.ProviderCallCeiling` and `ConversationTurn.AskedInv`.

**Bounds.** Two tool uses per answer are the least at which order matters, two
requests per turn the least at which a result is sent back. `turn_tools` has hooks,
permission and failing appends; `turn_sequence` has one open tool, no hooks and a disk
that works, and in return three turns, so that a turn starts from a transcript that a
cancelled, a failed and a compacted turn left behind. `PreserveRecent` is the code's
four (one in `session_store`, where only the cut matters). `AutoCompactAt`, the ceilings
and `MaxIterations` are small enough to be reached; an answer with
two fetches reaches their ceiling of two before the calls reach theirs; billed responses stand for tokens.
Sizes of files are counted in messages and `RotateAt` is two, so that every second save
rotates; `MaxRotated` is one instead of three, so that a crash before the cleanup
exceeds it. With two sessions and three starts a program can start anew, be resumed
offline and switch between sessions; three sessions with two messages, and three
sessions with two starts, were checked as well. `MaxAttempts` lets a prompt be lost,
replayed and lost again. `mcp_manager` has two servers, so that one fails while the
other works and a loop over servers goes on, two operations, so that the second meets
what the first left behind, and one page and one fault; deadlines are not bounded.

`provider_stream` has one retry (the comparison with `max_retries` matters at both
values of the attempt), two content frames and two blocks, so that two calls can be
open at once, and one frame that is none of a message's. `run_ledger` has two runs, so that
a second one overtakes the first in the same workspace. The only `Kinds` of run there is the
REPL, which may do all that a single prompt does, and once a run has begun beside another,
goals are no longer noted and writes of prompt and record no longer fail (`FullShared`): the
properties about prompt and record speak only of runs that began alone, and a goal is noted by
the same read and write as every other update, so those of the other updates still overtake each
other. The theorems hold without either bound. `plugin_manager` has two versions and four starts, upgrades and
commands, which suffice for a program to start on what another left half done. `child_command`
has a pipe of one unit with input and output of up to two, so that both fit, fill and
exceed it; a pipe of two with four (70,860 states) was checked as well. `review_store`
has two seconds and two diffs, so that ids clash or come in the other order, and up to
two findings, which may be one id twice; three reviews with one finding were checked as well.

**Deadlock** is not checked where the system may stop: a REPL that ended, a decided
call, a manager that was dropped, a command that is over or blocked for good (which the
liveness properties of `ChildCommand` are about), a bound that is reached.

**Fairness.** In `turn_tools`, for `EveryTurnEnds`, `WF(TurnStep)` says that the thread
that runs the turn goes on, which includes that streams, tools, hooks and the prompter
return: the code waits for them without limit, and `ProviderStream` and `ChildCommand`
say when they do. `WF(InterruptTurn)` says that the monitor thread, between its two
assignments, goes on. No fairness is assumed of Ctrl-C, of the user or of starting a
turn. The turn ends without Ctrl-C because `MaxIterations` bounds the loop. Subagents
set that bound (32); the REPL leaves it at `usize::MAX`, so there a turn ends by a
declared ceiling or by the user, and a provider that asks for tools forever is answered
forever if neither stops it. `turn_tools` therefore has an iteration bound and no
ceilings, `turn_sequence` the ceilings.

In `mcp_manager`, for `EveryCallReturns`, `WF(ManagerStep)`: `block_on` polls the
operation to its end, and each of its waits for a server is under a `timeout`, whose
passing is one of its steps (the wait for a child it killed is not; the operating system
ends it). Nothing is assumed of the servers. That the property is stated of tool calls
matters: lists page for as long as a server says there is more, and only `MaxPages` ends
that here.

In `provider_stream`, for `EveryCallReturns`, a request is sent, gets some outcome
(`WF(Succeeds \/ FailsForNow \/ FailsForGood)`), and a body that stalls is broken off
(`WF(BodyBreaks)`), because the HTTP client has a timeout of 600 seconds for the whole
of a request. Nothing is assumed of the provider.

In `child_command` the caller goes on (`WF(Caller)`) and deadlines pass
(`WF(DeadlinePasses)`). That the command and its helper write and exit is assumed only
of commands that end by themselves (`cmd.ends`), and `DeadlinesHold` and
`InterruptsEndHooks` are about those that do not.

## Proofs

All are checked by `tlapm` from the assumptions named in the modules: constants have
their types, `Policy` is any policy, `PromptAnswers` any set of answers, the bounds
any natural numbers.

- **`ConversationTurnProofs`** (`TypeCorrect`, `ToolUsesAreAnswered`,
  `CallCeilingHolds`, `FetchCeilingHolds`, `ExecutionsAreReported`, `ToolOrder`,
  `FailedTurnsLeaveNothing`, `AbortStops`, `AuthorizedToolsOnly`). That each tool use is
  answered does not carry itself: in the middle of a tool round the transcript ends in
  uses without results. `IndInv` therefore says that position `i + j`, *or the queue of
  pending uses once the transcript ends*, holds the answer to the `j`-th use of message
  `i` (`TranscriptInv`), together with where the queue is empty (`QueueInv`) and that
  ids grow along what was started and what is pending (`OrderInv`). The lemmas show
  what appending a plain message, a message with uses, and a result do to it, and
  that compaction, which cuts at any place, keeps it. `AbortStops` and
  `AuthorizedToolsOnly` are action properties; the second needs that what the
  prompter said is remembered until the tool starts (`PermitInv`). Two more invariants
  stand on `IndInv`. `ResultInv`: whatever was started, but the tool in hand, is on
  record in the transcript. `FetchInv`: the fetches begun and those that may still be
  started in this answer are at most `MaxFetches - 1 + MaxUses`; its crucial lemma
  (`FetchesOnRecord`) maps the fetches begun injectively to the results the code counts.
  `RequestsAreWellFormed` is about both forms of every request. The folds that build them
  are unfolded into their prefix states, and an induction over the positions of the
  transcript says of each prefix what `convert_messages` has put together so far and
  which uses are still without a result. It needs, beyond `IndInv`, that a result answers
  the use at its distance in a message before it, unless compaction cut that message off,
  and then no other answer of the model stands before the result (`AskedInv`). At the end of the
  module stand the theorems about `PermissionCall` (`DenialsAreFinal`, `AskRulesAsk`,
  `UnattendedCalls`, `HooksGrantNothing`): the verdict is `Authorized` of the inputs, and
  the rest is propositional.
- **`SessionStoreProofs`** (`TypeCorrect`, `FinishedTurnsOnDisk`, `SavedIsKept`,
  `GracefulExits`, `LogsStayBounded`). `IInv` says of every place of a save where what was
  saved last is: in the file, or, between the renames, in the newest rotated log
  (`FileInv`, `SavedInv`); what the recovery record may say there (`RecordInv`); and how many
  logs there are (`LogsInv`). Finished turns are a prefix of what the file holds, and lemmas
  say what appends, compaction and cuts do to prefixes.
- **`ProcessProofs`**. For workers (`WorkerTypeCorrect`, `ReplaysAreLosses`,
  `SinglePrompt`, `LogIsCurrent`, `BlockedWorkersExplain`, `TrustBeforePrompts`) the
  invariant adds to the four state properties how `fate` and `inFlight` go together, and
  what an open trust gate means for the status; a lemma per stage of `observe` says what
  the stage keeps. For child commands (`TypeCorrect`, `FinishedOutputIsComplete`,
  `DeadlinesReclaimTheGroup`), with pipes, inputs and outputs of any size, output is
  conserved (`ConservedInv`: what is to be written, in the pipe and collected adds up), a
  result fits the state of the processes (`ResultInv`, `RestInv`), and a kill leaves
  nothing of the group unless it is on the receipt (`KillInv`).
- **`McpManagerProofs`** (`TypeCorrect`, `HandshakeComesFirst`, `NothingLeftPending`,
  `SpawnsStayBounded`, `ShutdownIsComplete`, `CallPromise`), for any list of servers
  and any bounds. `IInv` has a part per idea. A pending request is the one the manager
  waits for, and no frame on its pipe has its id (`PendingInv`); once it was taken, a
  frame with its id is there (`AnsweredInv`), so that a stray copy of the answer comes
  after it; and the first such frame says what is so: that the server accepted
  initialize, or that it carried the call out (`TruthInv`). That is what makes taking
  the next frame for the answer right. `ShookInv` carries the handshake across exits
  and resets, `CallInv` ties `status` and `effects` to the operation, `SpawnInv` counts
  spawns by the two attempt counters, `LoopInv` and `StopInv` are about the loops over
  servers. All steps but the two that write a request and those of the servers leave
  every pipe without a request (`StepsQuiet`), which disposes of them at once.
  `CallPromise` is the refinement: `CallTool` invokes, `Execute` executes, the end of a
  call returns, and every other step stutters.
- **`ProviderStreamProofs`** (`TypeCorrect`, `RequestsBounded`, `CallRefinesPromise`,
  `FramesArriveAsSent`, `CallsArriveIntact`), for any number of retries and any bounds on the answer. `CountInv` ties the requests
  made to the phase and the attempt; the refinement maps the opening of a request to
  `Request`, the two ends of a call to `Return`, and all of framing, decoding and reading
  to stutters. `FramesArriveAsSent` says that where the network cuts a stream makes no
  difference. First, `Cut` is what its definition says (`CutUnfold`): a function with that
  equation exists up to every length of a buffer, and there is one only. Then, a frame is
  found at its blank line and nowhere earlier, whatever follows (`NotYet`, `CutAtBlank`),
  for both line ends, with and without an event line (`WrittenFramed`). `ReadInv` says that buffer and
  wire together are the bytes of the frames after the first `a`, whatever their boundary, and that the
  loop holds what those `a` have made of a fresh one; a chunk cuts off no frame, one or two
  (`ChunkCut`). `CallsArriveIntact` goes on from there to the answer, for any finite set of
  call indices and any number of blocks and pieces. `SentInv` says what the provider has
  written: a prefix of a message of its protocol, frame by frame (`Continues`: a delta
  belongs to the one block that is open and has its type; `ContinuesChunks`: the first entry
  of a call names it, nothing follows the finish reason), and that its guards, which only
  count frames, amount to that (`Counts`). `Holds` says of a loop over events which calls it
  holds open, which it has said, and that the text of each is its pieces so far, in order and
  once. Every frame takes `Holds` to the next prefix: for Anthropic streams at once
  (`AnthropicStep`), for chat completions through the decoder, entry by entry (`DeltaStep`,
  `EntriesTaken`), with the stops of `finish_reason` and of the end of the body (`AllStop`,
  `FinishHolds`), which come in the order of the keys (`OrderExists`). What keeps calls apart
  is that no two of them share a slot (`ApartBy`): true of the subagents' client always, of
  the terminal client over Anthropic streams because blocks do not overlap, and over chat
  completions only when there is one call, which is the hypothesis of the property. The
  last frame of an Anthropic stream may lack its blank line (`LastFrame`), and after the
  provider's own end nothing is missing (`ChunksOver`, `BlocksOver`).
- **`RunLedgerProofs`** (`TypeCorrect`, `StoppedProcessesAreGone`,
  `LiveProcessesAreListed`, `ClosedEntriesAreRecorded`, `FinishedRunsReadFinished`). The copies that
  threads hold while they update the file are what makes this hard: `TruthInv` says of the
  file *and of every copy* that a process they call stopped is gone. `ListInv` needs the same
  of what is alive, except in copies that were overtaken (`lost`). For a run that has the
  workspace for itself (`SoloInv`) file, prompt and record, written or missed, are followed through
  opening and closing
  (`AloneInv`, `SettledInv`, `SetupInv`, `CloseInv`, `FinishInv`).
- **`ReviewStoreProofs`** (`ReviewTypeCorrect`, `ListedReviewsAreComplete`, `ReportedReviewsAreListed`,
  `SummaryCountsAddUp`, `LatestIsMonotone`). `OwnInv` follows the two files of a review from
  `create_new` on, when they are its own, to the line in the index; `ListedInv` says of every
  line, cut short or not, that the review is over and its files whole; that ids are unique
  (`UniqueInv`) follows because the artifact of an id has one owner, and an owner that is over
  lists nothing more. For `CountsAddUp`, what is settled is among the ids of the artifact,
  and ids are at most as many as the places they stand at (`PlacesOfValues`), and as many when they
  are distinct; that the latest review never is an earlier one needs that a
  largest text exists of every prefix of the index.
- **`PluginManagerProofs`** (`PluginTypeCorrect`, `PassesRepair`, `LastWordKept`).
  `PassRepairs` speaks of passes that nobody disturbed, so what such a pass has done so far
  is still so (`PhaseInv`); that a bundled directory at the recorded version is
  whole, but for what is being copied or was given up, rests on `KeepInv`, what is in a
  directory that is current is of the source's version, and `WholeInv`, what it lacks some
  copy in hand awaits. For `LastWordHolds`, a write that overtook another casts doubt on every word
  (`RivalInv`), and otherwise the copies that other programs hold while they rewrite
  registry and settings differ from the files in their own plugin only (`HeldInv`,
  `HeldSettingsInv`); `ChangeInv` follows a command on its plugin stage by stage to its word
  (`WordInv`).

**Model-checked only**: liveness (`EveryTurnEnds`, `EveryCallReturns` of the manager and of the
provider call, `DeadlinesHold`, `InterruptsEndHooks`, `EndingCommandsReturn`), since the prover does
not handle fairness and `ENABLED`. Every invariant and action property of the passing runs
is proved. Induction over data is possible only for the operators
of one model at a time, as a least counterexample among natural numbers (`LeastNumber`,
from `WFMin`): that is how the folds above are unfolded, and no general lemma on folds is stated.

## Disagreements

Between the code and what is said of it. The first has a run. The properties of the next eight are
defined in their modules; adding one to the module's configuration shows the counterexample.

- **Parallel tool calls** (`parallel_calls`, `ParallelCallsIntact`). `SegoRuntimeClient` keeps one
  `pending_tool`, which the start of the next block overwrites, and the decoder of
  OpenAI-compatible streams ends tool blocks only at the end: of two parallel calls the
  first is lost, or its input goes into the second. The subagents' client keeps them by
  index, and a test of it says so.
- **Hooks that do not read** (`ChildCommand.SuccessIsNotFailure`). A hook that exits with
  0 before it has taken its input breaks the pipe, and `output_with_stdin` reports that
  error as "failed to start", which vetoes the tool; a test says that exit code zero allows.
- **The fetch ceiling** (`ConversationTurn.SessionFetchCeiling`). `fetches_so_far` counts
  the results in the transcript, its comment speaks of the fetches "this session has
  performed" and warns of under-counting. Cancelled turns and compaction take results out
  of the transcript, and the session makes more fetches than declared. Within a turn the
  ceiling holds up to the answer in hand (`TurnFetchCeiling`).
- **Prompt mode** (`PermissionCall.PromptModeAsks`). `PermissionMode` derives its order,
  in which `Prompt` is above `DangerFullAccess`; the policy therefore allows in Prompt
  mode what the enforcer's comments say needs a confirmation.
- **Crashes** (`SessionStore.SessionSurvivesCrash`). The README says that session state
  survives crashes. A torn append, or a death between the two renames of a save, leaves
  a recovery record that names a file which does not load. What was saved is still there
  (`NothingSavedIsLost`), in a rotated log that nothing reads.
- **Finished workers** (`WorkerBoot.FinishedIsTerminal`). `observe_completion` speaks of
  a terminal state; a late screen with a ready cue ends it.
- **Findings with one id** (`ReviewStore.SummaryIsStatus`). The ids of findings are the
  model's, and nothing makes them unique. Of two findings with one id that is marked as
  fixed, `/review status` shows both as fixed, and the summary, which subtracts one for
  the id from `finding_count`, counts one as open.
- **Leaving by request** (`RunLedger.GracefulIsClosed`). A REPL left by a request in plain
  words records a graceful exit but does not complete its entry, against the comment on
  `complete_run_task`.
- **Servers in the ledger** (`RunLedger.ServersAreListed`). `LiveCli::new` spawns the MCP
  servers before `begin_run_task`, so that they are recorded in the previous entry or
  nowhere, against the comments in `mcp_stdio.rs` and `process_tree.rs`.

Smaller ones, met while modelling:

- *Provider*: `provider_calls` of a review counts iterations, though retries and the
  fallback open more requests; an OpenAI-compatible stream that ends early hands over a
  call with part of its arguments; with mixed line endings the frames depend on the
  chunks (`next_frame` looks for LF LF first).
- *Commands*: timed REPL and PowerShell runs poll without reading, so that output larger
  than the pipe always ends in the deadline; a helper that holds the output of an
  interpreter makes the call outlast its deadline (`OutOfReach`); the deadline of bash
  leaves the command running; a plugin tool whose input and output both exceed the
  pipe blocks for good.
- *Ledger*: bash commands are never recorded, although `process_tree.rs` says so; `start_task`
  after a crash forgets the children of the run before; `/resume` and the like leave the recovery
  record naming the session before until exit.
- *Plugins*: the copy of a bundled plugin that was given up halfway is taken as valid, and
  never completed, when its record is of the same version and what its manifest names is
  there (`installed_copy_is_valid`; `PluginManager.PassCompletes` is violated); a directory that an interrupted command broke makes every start fail, and no
  command is left to repair it; settings that were cut short read as empty, and the next
  write loses them; the two runtimes a REPL builds per turn leave `shutdown` the
  last lifecycle command of a plugin that is in use.
- *Reviews*: a line of `index.jsonl` that was cut short makes every later load of the index
  fail, so that no review is found until someone edits the file. `latest` is the newest by
  second and id, the summary takes the last listed of the newest second, and the contract's
  fallback for agents the last line; with reviews of the same second, or listed out of
  order, these are three. A review whose Markdown failed leaves a JSON that no entry names, and
  whose id refuses a second try within the second. `data_egress_class` counts `WebFetch` only,
  while `WebSearch` reaches a third party too.

## Not modelled

Each component left out is in `PROJECT.json` with its reason. Text in and text out
(parsing, rendering, reports, prompt assembly, the bash classifier), one-shot I/O
(configuration, OAuth, telemetry) and pure decision tables (recipes, policy engine, stale
branch) gain little from a model checker. The branch lock registry is never constructed,
the MCP tool bridge never filled, and the task, team and cron registries are maps behind
a mutex of which no protocol is built. Of what is modelled partly, the rest is named in
`PROJECT.json`: recognition of screens and of commands, git sources of plugins, parsing of review
answers, refresh of credentials.

## Plan

Done: the turn loop with permissions and provider requests, the session store, worker
boot, the MCP manager, provider calls, the task ledger, plugins, child commands and reviews,
all with runs and proofs. What is left:

1. The resume of what a crash left behind, `SessionStore` under `ConversationTurn`: a
   resumed transcript may hold tool uses without results, which today is a hazard without a
   property (`main.rs`, `convert_messages`).
2. The tools that switch to plan mode and back, which rewrite `settings.local.json`
   beside the configuration that is loaded over it.
3. Reading of review answers, from raw text to findings, against what the contract says
   of `parse_status`.
