SPECIFICATION Spec
CONSTANTS
    MaxFd = 2
    Writers = {w1, w2}
PROPERTIES
    IntoRawFdFindsUniqueOwner
CHECK_DEADLOCK FALSE
