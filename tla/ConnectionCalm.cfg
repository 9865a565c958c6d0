SPECIFICATION Spec
CONSTANTS
    REPLAY_WINDOW_SIZE = 3
    WORD_BITS = 3
    MAX_SKIPPED_KEYS = 2
    MAX_PREPARED_KEYS = 4
    COUNTER_MAX = 3
    LATE_REKEY_FRAME_GRACE = 8
    REKEY_REJECTION_WARNING_THRESHOLD = 3
    REKEY_MESSAGE_LIMIT = 2
    MESSAGES_MAX = 3
    DIALER_IDENTITY = 1
    LISTENER_IDENTITY = 2
    EXPIRING <- RekeyTimer
    MAX_RUNS = 3
    MAX_SENDS = 2
    MAX_FAULTS = 0
INVARIANTS NothingLost QuietMeansAgreed NoRekeyFails
CHECK_DEADLOCK FALSE
