\* Two threads, lines of three bytes, stored two at a time, up to three bytes each, a buffer of two.
CONSTANTS
    Threads = {t1, t2}
    Nobody = Nobody
    LineLength = 3
    BufferSize = 2
    MaxLine = 3
    MaxBytes = 3
SPECIFICATION FairSpec
CONSTRAINT Uncrossed
INVARIANTS
    TypeOK
    OwnBytes
PROPERTIES
    BytesDelivered
