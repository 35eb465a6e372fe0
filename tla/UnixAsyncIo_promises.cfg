SPECIFICATION FairSpec
CONSTANTS
    Reader = reader
    Writers = {w1, w2}
    None = None
    MaxRx = 1
    MaxTx = 1
INVARIANTS
    TypeOK
    NoLostReadiness
    NoLostWakeup
PROPERTIES
    OperationCompletes
