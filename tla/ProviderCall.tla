---------------------------- MODULE ProviderCall ----------------------------
(***************************************************************************)
(* What one call of ApiClient::stream promises the conversation loop: it   *)
(* opens a bounded number of requests, at least one before it says         *)
(* anything, and once it has answered or failed it opens no more.          *)
(***************************************************************************)
EXTENDS Naturals

CONSTANT Ceiling   \* requests one call may open

VARIABLES requests, status

vars == <<requests, status>>

Init == requests = 0 /\ status = "open"

Request ==
    /\ status = "open"
    /\ requests < Ceiling
    /\ requests' = requests + 1
    /\ UNCHANGED status

Return ==
    /\ status = "open"
    /\ requests > 0
    /\ status' \in {"answered", "failed"}
    /\ UNCHANGED requests

Next == Request \/ Return

Spec == Init /\ [][Next]_vars
=============================================================================
