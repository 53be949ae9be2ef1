---------------------------- MODULE MCMcpManager ----------------------------
(* Values for checking McpManager with TLC.                                *)
EXTENDS McpManager

\* Two servers, in the order of their names.
TwoServers == <<"alpha", "beta">>
=============================================================================
