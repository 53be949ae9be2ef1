--------------------------- MODULE ProviderRequest ---------------------------
(***************************************************************************)
(* The transcript of a session, its compaction (runtime/src/compact.rs),   *)
(* the counts the conversation loop reads off it, and the messages the CLI *)
(* sends to the provider for it (convert_messages in main.rs).             *)
(*                                                                         *)
(* A message keeps what the loop and the conversion look at: its role, the *)
(* tool uses an assistant message asks for, the use a tool message answers,*)
(* and whether the provider reported usage for it.  Text is left out.      *)
(***************************************************************************)
EXTENDS Naturals, Sequences, FiniteSets, SequencesExt

CONSTANTS Tools,            \* names of the tools the model may call
          FetchTools,       \* those of them named WEB_FETCH_TOOL_NAME
          PreserveRecent    \* CompactionConfig::preserve_recent_messages

ASSUME ToolsAssumption == FetchTools \subseteq Tools /\ "none" \notin Tools
ASSUME PreserveAssumption == PreserveRecent \in Nat

\* A tool use carries the id the provider gave it.
Use == [id : Nat, tool : Tools]

Message == [role : {"system", "user", "assistant", "tool"}, uses : Seq(Use),
            id : Nat, tool : Tools \cup {"none"}, billed : BOOLEAN]

Plain(role) == [role |-> role, uses |-> <<>>, id |-> 0, tool |-> "none",
                billed |-> FALSE]
Summary     == Plain("system")     \* the continuation message of a compaction
UserInput   == Plain("user")
Assistant(uses, billed) ==
    [role |-> "assistant", uses |-> uses, id |-> 0, tool |-> "none",
     billed |-> billed]
ToolResult(use) ==
    [role |-> "tool", uses |-> <<>>, id |-> use.id, tool |-> use.tool,
     billed |-> FALSE]

-----------------------------------------------------------------------------
(* What the loop counts.  One response's reported usage is one unit.       *)

\* UsageTracker::from_session, and what recording a response adds to it.
UsageOf(s) == Cardinality({i \in DOMAIN s : s[i].billed})

\* fetches_so_far: the results of the fetch tool the transcript still holds.
FetchesSoFar(s) ==
    Cardinality({i \in DOMAIN s : s[i].role = "tool" /\ s[i].tool \in FetchTools})

-----------------------------------------------------------------------------
(* Compaction.                                                             *)

\* A transcript compacted before starts with the summary, which is not
\* counted among the messages to compact.
SummaryPrefix(s) == IF s # <<>> /\ s[1].role = "system" THEN 1 ELSE 0

Compactable(s) == Len(s) - SummaryPrefix(s) > PreserveRecent

\* compact_session with max_estimated_tokens = 0: the last PreserveRecent
\* messages survive behind one summary.
Compact(s) ==
    IF Compactable(s)
    THEN <<Summary>> \o SubSeq(s, Len(s) - PreserveRecent + 1, Len(s))
    ELSE s

-----------------------------------------------------------------------------
(* convert_messages: one pass over the transcript.  While "merging", the   *)
(* results that directly follow an assistant message are gathered into one *)
(* user message; "pending" holds the ids of the last assistant message,    *)
(* and a result whose id is not among them is dropped.                     *)

Wire(role, uses, results) == [role |-> role, uses |-> uses, results |-> results]

IdsOf(uses) == [k \in DOMAIN uses |-> uses[k].id]

Merge(c, m) ==
    LET last == c.out[Len(c.out)]
    IN  CASE m.id \notin c.pending -> c
          [] m.id \in c.pending /\ last.role = "user" ->
               [c EXCEPT !.out[Len(c.out)].results = Append(@, m.id)]
          [] OTHER -> [c EXCEPT !.out = Append(@, Wire("user", <<>>, <<m.id>>))]

\* Mutant: results are sent whether or not the assistant message is still there.
LoneKept(c, m) == [c EXCEPT !.out = Append(@, Wire("user", <<>>, <<m.id>>))]

\* A result outside a merge: kept alone if its id is still pending.
Lone(c, m) ==
    IF m.id \in c.pending
    THEN [c EXCEPT !.out = Append(@, Wire("user", <<>>, <<m.id>>))]
    ELSE c

Convert(c, m) ==
    CASE m.role = "assistant" ->
           [out     |-> Append(c.out, Wire("assistant", IdsOf(m.uses), <<>>)),
            pending |-> Range(IdsOf(m.uses)),
            merging |-> m.uses # <<>>]
      [] m.role = "tool" /\ c.merging  -> Merge(c, m)
      [] m.role = "tool" /\ ~c.merging -> Lone(c, m)
      [] OTHER -> [c EXCEPT !.out = Append(@, Wire("user", <<>>, <<>>)),
                            !.merging = FALSE]

ConvertMessages(s) ==
    FoldLeft(Convert, [out |-> <<>>, pending |-> {}, merging |-> FALSE], s).out

\* What the provider requires of a request: each assistant message's tool
\* uses are answered, in order, by the user message right after it, and
\* results occur nowhere else.
WellFormed(w) ==
    /\ \A i \in DOMAIN w :
         w[i].uses # <<>> =>
           /\ i < Len(w)
           /\ w[i+1].results = w[i].uses
    /\ \A i \in DOMAIN w :
         w[i].results # <<>> => i > 1 /\ w[i-1].uses = w[i].results

-----------------------------------------------------------------------------
(* The OpenAI-compatible client sends another form of the same request:    *)
(* results are messages of their own (build_chat_completion_request).      *)

Chat(role, calls, id) == [role |-> role, calls |-> calls, id |-> id]

\* translate_message, of one message of the request.
TranslateMessage(m) ==
    CASE m.role = "assistant"                -> <<Chat("assistant", m.uses, 0)>>
      [] m.role = "user" /\ m.results = <<>> -> <<Chat("user", <<>>, 0)>>
      [] OTHER -> [k \in DOMAIN m.results |-> Chat("tool", <<>>, m.results[k])]

Translate(w) == FlattenSeq([i \in DOMAIN w |-> TranslateMessage(w[i])])

\* What such a provider requires: the calls of an assistant message are
\* answered, in order, by the tool messages right after it, and a tool
\* message occurs nowhere else.
ChatWellFormed(c) ==
    /\ \A i \in DOMAIN c : \A k \in DOMAIN c[i].calls :
         i + k \in DOMAIN c /\ c[i+k] = Chat("tool", <<>>, c[i].calls[k])
    /\ \A j \in DOMAIN c : c[j].role = "tool" =>
         \E i \in 1..(j-1) : j - i \in DOMAIN c[i].calls
=============================================================================
