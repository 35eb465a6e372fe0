SPECIFICATION FairSpec
CONSTANTS
    Reader = reader
    Senders = {s1, s2}
    Cap = 2
    Mod = 4
    Sizes = {1, 5}
    MaxSends = 2
    MaxPackets = 1
INVARIANTS
    TypeOK
    TransmitsWholeInOrder
    LossOnlyByOverflow
PROPERTIES
    ReadsAreNotInterrupted
    SendRingDrains
    BlockedReadEnds
CHECK_DEADLOCK FALSE
