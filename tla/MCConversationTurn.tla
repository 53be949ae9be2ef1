------------------------ MODULE MCConversationTurn ------------------------
(* Values for checking ConversationTurn with TLC.                        *)
EXTENDS ConversationTurn

CONSTANTS fetch, bash, edit

OnlyFetch     == {fetch}
AllThree      == {fetch, edit, bash}

NotDeclared == Unlimited

Base == [mode |-> "WorkspaceWrite", required |-> "ReadOnly", trust |-> "NotBash",
         denyRule |-> FALSE, askRule |-> FALSE, allowRule |-> FALSE]

\* fetch is covered by the mode, edit matches an ask rule, bash a deny rule.
MixedPolicy == [t \in Tools |-> [Base EXCEPT !.askRule = t = edit,
                                             !.denyRule = t = bash]]
OpenPolicy  == [t \in Tools |-> Base]

UserPrompter == {"Allow", "Deny"}
NoPrompter   == {"NoPrompter"}
=============================================================================
