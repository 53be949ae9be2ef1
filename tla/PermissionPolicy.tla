-------------------------- MODULE PermissionPolicy --------------------------
(***************************************************************************)
(* The decision PermissionPolicy::authorize_with_context takes for one     *)
(* tool call (runtime/src/permissions.rs), as a pure function.             *)
(*                                                                         *)
(* A rule is abstracted to whether it matches this tool and input; the     *)
(* verdict of the review-trust classifier of bash commands is an input.    *)
(***************************************************************************)
EXTENDS Naturals

\* PermissionMode in the order its derived Ord gives: Prompt and Allow are
\* above every requirement a tool declares.
Modes == {"ReadOnly", "WorkspaceWrite", "DangerFullAccess", "Prompt", "Allow"}

Rank == [m \in Modes |->
           CASE m = "ReadOnly"         -> 1
             [] m = "WorkspaceWrite"   -> 2
             [] m = "DangerFullAccess" -> 3
             [] m = "Prompt"           -> 4
             [] m = "Allow"            -> 5]

AtLeast(mode, required) == Rank[mode] >= Rank[required]

Unregistered == "Unregistered"    \* no entry in tool_requirements
Requirements == {"ReadOnly", "WorkspaceWrite", "DangerFullAccess", Unregistered}

\* What the review-trust profile makes of a call: "NotBash" stands for every
\* tool but bash, and for every tool when the profile is off.
TrustClasses == {"NotBash", "Safe", "Dangerous", "Ask"}

\* What the policy knows of one call: the active mode, the tool's declared
\* requirement, which kinds of rule match it, and the bash classification.
CallPolicies ==
    [mode : Modes, required : Requirements, trust : TrustClasses,
     denyRule : BOOLEAN, askRule : BOOLEAN, allowRule : BOOLEAN]

\* The permission override a PreToolUse hook may report.
Overrides == {"None", "Allow", "Deny", "Ask"}

\* The prompter's decision, should it be asked; "NoPrompter" when there is none.
Answers == {"Allow", "Deny", "NoPrompter"}

Denied(p) == p.denyRule \/ p.required = Unregistered

\* The mode or an allow rule covers the call without asking anybody.
Covered(p) == p.allowRule \/ p.mode = "Allow" \/ AtLeast(p.mode, p.required)

\* Not covered, but the policy lets the user grant it.
Escalates(p) ==
    \/ p.mode = "Prompt"
    \/ p.mode = "WorkspaceWrite" /\ p.required = "DangerFullAccess"

\* Mutant: having no prompter counts as consent.
GrantedByDefault(answer) == answer # "Deny"

\* prompt_or_deny: the prompter decides, and having none is a denial.
Granted(answer) == answer = "Allow"

\* The decision of the mode and the rules, when no hook overrides it.
ModeAllows(p, answer) ==
    IF p.askRule THEN Granted(answer)
    ELSE Covered(p) \/ (Escalates(p) /\ Granted(answer))

\* Mutant: a hook's Allow is looked at before the ask rules.
OverrideAllowSkipsAsk(p, override, answer) ==
    \/ override = "Ask" /\ Granted(answer)
    \/ override = "Allow" /\ (Covered(p) \/ ModeAllows(p, answer))
    \/ override = "None" /\ ModeAllows(p, answer)

\* A hook's Ask always prompts; its Allow skips the prompt only of a call that
\* the mode or a rule covers, and falls through to the mode's decision else.
OverrideAllows(p, override, answer) ==
    \/ override = "Ask" /\ Granted(answer)
    \/ override = "Allow" /\ p.askRule /\ Granted(answer)
    \/ override = "Allow" /\ ~p.askRule /\ (Covered(p) \/ ModeAllows(p, answer))
    \/ override = "None" /\ ModeAllows(p, answer)

\* authorize_with_context: deny rules and registration first, then the
\* review-trust classification, then hooks, rules and mode.
Authorized(p, override, answer) ==
    /\ ~Denied(p)
    /\ \/ p.trust = "Safe"
       \/ p.trust = "Ask" /\ Granted(answer)
       \/ p.trust = "NotBash" /\ OverrideAllows(p, override, answer)

\* PermissionEnforcer::check, the second gate a subagent's tools go through:
\* it has no prompter, and leaves Prompt mode to the caller's own prompt.
EnforcerAllows(p) == p.mode = "Prompt" \/ Authorized(p, "None", "NoPrompter")
=============================================================================
