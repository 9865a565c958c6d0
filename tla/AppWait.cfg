SPECIFICATION FairSpec
CONSTANTS
    MAX_UNAUTHENTICATED_HANDSHAKES = 1
    MAX_ACCEPT_FAILURES = 2
    EVENT_QUEUE = 1
    CONTROL_QUEUE = 1
    MAX_CONNECTIONS = 2
    MAX_LISTENERS = 1
    MAX_NETS = 1
    USES <- Waiting
INVARIANT PromptsExact
PROPERTIES PromptsResolve ShutdownDrains
CHECK_DEADLOCK FALSE
