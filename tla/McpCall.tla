------------------------------- MODULE McpCall -------------------------------
(***************************************************************************)
(* What call_tool of the MCP manager (runtime/src/mcp_stdio.rs) promises   *)
(* for each call of an MCP tool: the server carries it out at most once,   *)
(* an ok answer means that it did, and once the caller has been answered   *)
(* nothing more happens on its behalf.  An error says nothing of whether   *)
(* the tool ran.                                                           *)
(***************************************************************************)
EXTENDS Naturals

CONSTANT Calls

VARIABLES status,   \* what the caller knows of a call
          effects   \* times a server carried it out

vars == <<status, effects>>

Statuses == {"idle", "called", "ok", "error"}

TypeOK ==
    /\ status \in [Calls -> Statuses]
    /\ effects \in [Calls -> Nat]

Init ==
    /\ status = [c \in Calls |-> "idle"]
    /\ effects = [c \in Calls |-> 0]

Invoke(c) ==
    /\ status[c] = "idle"
    /\ status' = [status EXCEPT ![c] = "called"]
    /\ UNCHANGED effects

\* The tool is known to no server.
Refuse(c) ==
    /\ status[c] = "idle"
    /\ status' = [status EXCEPT ![c] = "error"]
    /\ UNCHANGED effects

Execute(c) ==
    /\ status[c] = "called"
    /\ effects[c] = 0
    /\ effects' = [effects EXCEPT ![c] = 1]
    /\ UNCHANGED status

Return(c) ==
    /\ status[c] = "called"
    /\ \/ /\ effects[c] = 1
          /\ status' = [status EXCEPT ![c] = "ok"]
       \/ status' = [status EXCEPT ![c] = "error"]
    /\ UNCHANGED effects

Next == \E c \in Calls : Invoke(c) \/ Refuse(c) \/ Execute(c) \/ Return(c)

Spec == Init /\ [][Next]_vars
=============================================================================
