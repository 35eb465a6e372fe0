SPECIFICATION Spec
CONSTANTS
    Packets <- MCPackets
    Widths = {0, 2}
    IovMax = 4
    MaxBufs = 4
    MaxQueue = 2
CHECK_DEADLOCK FALSE
INVARIANTS
    WritesArriveWhole
PROPERTIES
    ReadsGiveThePacket
    PacketInformationInvisible
