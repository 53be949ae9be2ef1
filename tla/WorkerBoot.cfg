\* One worker, two prompts, every screen in every order.
CONSTANTS
    Prompts = {p1, p2}
    NoPrompt = NoPrompt
    MaxAttempts = 3

SPECIFICATION WorkerSpec
CHECK_DEADLOCK FALSE

INVARIANTS
    ReplayIffLost
PROPERTIES
    TrustComesFirst
