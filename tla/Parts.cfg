SPECIFICATION Spec
CONSTANTS
    PROCESSES = {p, q}
    PROFILES = {a, b}
    SEEDS = {s, t}
    Nothing = Nothing
    Garbage = Garbage
    MAX_LOSSES = 1
    READ_CHUNK = 16
    MAX_PAYLOAD <- Limits
    SENT <- UpToTwo
    TAILS <- Tails
    CONTENTS <- Contents
    MAX_CBOR_NESTING = 3
    PAYLOADS <- Payloads
    MAX_ENTRIES = 3
    MAX_BYTES = 8
    MAX_ENTRY_BYTES = 4
    MESSAGE_QUEUE = 1
    PAGE = 2
    HEIGHT = 2
    TEXTS = {1, 5, 6}
    WIDE_CHARS = {6}
    MAX_PUSHED = 4
    MAX_CONFIG_BYTES = 2
    FILES <- Files
    LETTERS = {"c", "d", "f", "r"}
    MAX_EDITS = 1
INVARIANTS
    SameAcrossLaunches FramesAsSent PaddingLeast AcceptedCanonical
    HistoryExact ScreenInRange KeysMeanOneThing
PROPERTIES IdentityNeverReplaced
CHECK_DEADLOCK FALSE
