SPECIFICATION FairSpec
CONSTANTS
    Cap = 2
    MaxPackets = 4
    MaxWriters = 1
PROPERTIES
    DropCompletes
CHECK_DEADLOCK FALSE
