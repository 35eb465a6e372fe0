SPECIFICATION Spec
CONSTANTS
    MaxFd = 3
    Writers = {w1, w2}
SYMMETRY Clones
INVARIANTS
    TypeOK
    HandlesReachTun
    CtlReachesCtl
    NothingLeaks
PROPERTIES
    ClosesOnlyItsOwn
CHECK_DEADLOCK FALSE
