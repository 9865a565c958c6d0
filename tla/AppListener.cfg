SPECIFICATION Spec
CONSTANTS
    MAX_UNAUTHENTICATED_HANDSHAKES = 1
    MAX_ACCEPT_FAILURES = 1
    EVENT_QUEUE = 1
    CONTROL_QUEUE = 1
    MAX_CONNECTIONS = 0
    MAX_LISTENERS = 2
    MAX_NETS = 2
    USES <- Listening
PROPERTY
    SwitchWithoutListener
CHECK_DEADLOCK FALSE
