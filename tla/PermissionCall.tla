---------------------------- MODULE PermissionCall ----------------------------
(***************************************************************************)
(* One permission decision: any policy, any hook override, any answer of   *)
(* the prompter.  The state machine puts every input of                    *)
(* authorize_with_context before TLC.                                      *)
(***************************************************************************)
EXTENDS PermissionPolicy

VARIABLES call,      \* what the policy knows of the call
          hookSays,  \* the override the PreToolUse hooks report
          userSays,  \* what the prompter, or its absence, answers if asked
          verdict

callVars == <<call, hookSays, userSays, verdict>>

AnyCall ==
    /\ call \in CallPolicies /\ hookSays \in Overrides /\ userSays \in Answers
    /\ verdict = "Undecided"

Decide ==
    /\ verdict = "Undecided"
    /\ verdict' = IF Authorized(call, hookSays, userSays) THEN "Allow" ELSE "Deny"
    /\ UNCHANGED <<call, hookSays, userSays>>

CallSpec == AnyCall /\ [][Decide]_callVars

-----------------------------------------------------------------------------

\* A deny rule and a missing registration are final: no hook, allow rule,
\* mode, bash classification or user brings the call back.
DenialIsFinal == verdict = "Allow" => ~Denied(call)

\* A call an ask rule matches runs only with the user's grant, also when a
\* hook allows it or an allow rule matches too; only review-trust is asked
\* before the rules.
AskRuleNeedsTheUser ==
    verdict = "Allow" /\ call.askRule /\ call.trust = "NotBash" =>
       userSays = "Allow"

\* A hook's Allow grants nothing the policy would not grant without it, and
\* takes nothing away.
HookAllowGrantsNothing ==
    verdict # "Undecided" /\ hookSays = "Allow" =>
       (verdict = "Allow" <=> Authorized(call, "None", userSays))

\* What is allowed with nobody to ask is allowed whatever the user would say,
\* only a mode that covers the call, an allow rule or review-trust does it, and
\* the second gate of a subagent refuses nothing that got past without a hook
\* that asked.
UnattendedCallsAreCovered ==
    verdict = "Allow" /\ userSays = "NoPrompter" =>
       /\ \A given \in Answers : Authorized(call, hookSays, given)
       /\ call.trust = "Safe" \/ Covered(call)
       /\ EnforcerAllows(call)

\* permission_enforcer.rs leaves Prompt mode "to the caller's interactive
\* prompt flow": bash "requires confirmation in prompt mode".
PromptModeAsks ==
    verdict = "Allow" /\ call.mode = "Prompt" /\ call.trust = "NotBash"
      /\ call.required = "DangerFullAccess" /\ ~call.allowRule =>
       userSays = "Allow"
=============================================================================
