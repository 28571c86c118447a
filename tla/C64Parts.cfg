\* Three parts at the C64's end of the line, one at a time.
CONSTANTS
    Slots = 3
    Stored = 7
    AckLen = 3
    FrameLen = 3
    Burst = 2
    Bytes = 6
    Prints = TRUE
    Acks = 2
    Frames = 1
    Ids = {1, 9, 50}
    Chars = {97, 124, 8364}
    Losses = 1

SPECIFICATION PartsSpec

INVARIANTS
    PartsTypeOK RingInv FrameOutsideAck FramesIntact

PROPERTIES
    AckSentOrHooked BackInStep

CHECK_DEADLOCK FALSE
