SPECIFICATION Spec
CONSTANTS
    REPLAY_WINDOW_SIZE = 3
    WORD_BITS = 3
    MAX_SKIPPED_KEYS = 2
    MAX_PREPARED_KEYS = 4
    COUNTER_MAX = 7
INVARIANTS TypeOK DeliveredOnce WindowExact OnlyLossesFillCache
PROPERTY AcceptanceKept
CHECK_DEADLOCK FALSE
