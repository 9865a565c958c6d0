SPECIFICATION Spec
CONSTANTS
    REPLAY_WINDOW_SIZE = 3
    WORD_BITS = 3
    MAX_SKIPPED_KEYS = 2
    MAX_PREPARED_KEYS = 4
    COUNTER_MAX = 1
    LATE_REKEY_FRAME_GRACE = 1
    REKEY_REJECTION_WARNING_THRESHOLD = 1
    REKEY_MESSAGE_LIMIT = 9
    MESSAGES_MAX = 9
    LOCAL_IDENTITY = 1
    PEER_IDENTITY = 2
    EVENT_QUEUE = 1
    CONTROL_QUEUE = 1
    MESSAGE_QUEUE = 1
    USES <- Rekeying
    MAX_BUFFERED = 1
    MAX_RUNS = 3
INVARIANT DeadlinesAgree
PROPERTIES EventsInOrder FailedRekeyWaits
CHECK_DEADLOCK FALSE
