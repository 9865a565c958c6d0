SPECIFICATION Spec
CONSTANTS
    MAX_UNAUTHENTICATED_HANDSHAKES = 2
    MAX_ACCEPT_FAILURES = 1
    EVENT_QUEUE = 1
    CONTROL_QUEUE = 1
    MAX_CONNECTIONS = 2
    MAX_LISTENERS = 1
    MAX_NETS = 2
    USES <- Talking
INVARIANTS
    PermitsBalance PromptsExact ConnectedWasApproved NothingStale Indexed
CHECK_DEADLOCK FALSE
