\* Every input of authorize_with_context.
SPECIFICATION CallSpec
CHECK_DEADLOCK FALSE

INVARIANTS
    AskRuleNeedsTheUser
    UnattendedCallsAreCovered
