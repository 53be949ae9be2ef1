-------------------------- MODULE MCProviderStream --------------------------
(***************************************************************************)
(* Small instances of ProviderStream.                                      *)
(***************************************************************************)
EXTENDS ProviderStream

BothProviders == {"anthropic", "openai"}
BothConsumers == {"cli", "agent"}
OpenAiOnly == {"openai"}
CliOnly == {"cli"}
TwoCalls == {0, 1}
=============================================================================
