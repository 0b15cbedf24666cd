\* Two frames, empty, short, longer than the buffer and too long, cut anywhere.
SPECIFICATION FairSpec
CONSTANTS
    HeaderSize = 2
    MaxPayload = 3
    BufferLimit = 4
    PayloadSize = {0, 1, 3, 4}
    MaxFrames = 2
    Chunk = 3
CHECK_DEADLOCK FALSE
INVARIANTS
    TypeOK
PROPERTIES
    ImplementsChannel
    AllDelivered
