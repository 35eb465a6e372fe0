SPECIFICATION FairSpec
CONSTANTS
    Cap = 2
    MaxPackets = 4
    MaxWriters = 2
INVARIANTS
    TypeOK
    ReadEventCoversRing
    NoLostWakeup
    PumpResourcesHeld
    StreamEndsWithAdapter
    NoPacketLost
PROPERTIES
    StreamSpec
    ReadsComplete
    DropCompletesUnlessFull
CHECK_DEADLOCK FALSE
