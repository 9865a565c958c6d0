SPECIFICATION Spec
CONSTANTS
    REPLAY_WINDOW_SIZE = 3
    WORD_BITS = 3
    MAX_SKIPPED_KEYS = 2
    MAX_PREPARED_KEYS = 4
    COUNTER_MAX = 3
    LATE_REKEY_FRAME_GRACE = 8
    REKEY_REJECTION_WARNING_THRESHOLD = 3
    REKEY_MESSAGE_LIMIT = 2
    MESSAGES_MAX = 3
    DIALER_IDENTITY = 1
    LISTENER_IDENTITY = 2
    EXPIRING <- EveryDeadline
    MAX_RUNS = 2
    MAX_SENDS = 1
    MAX_FAULTS = 0
INVARIANT OldSessionUsable
CHECK_DEADLOCK FALSE
