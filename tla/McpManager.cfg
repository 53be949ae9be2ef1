\* Two servers, two operations after discovery, one list that goes on once,
\* one stray frame or death.
CONSTANTS
    ServerNames <- TwoServers
    MaxRequests = 2
    MaxPages = 1
    MaxFaults = 1

SPECIFICATION FairSpec
\* The manager is dropped after shutdown.
CHECK_DEADLOCK FALSE

INVARIANTS
    HandshakeFirst
    GivenUpIsKilled
    SpawnsBounded
    ShutdownStopsAll
PROPERTIES
    PromiseKept
    EveryCallReturns
