SPECIFICATION Spec
CONSTANTS
    a1 = a1
    a2 = a2
    wide = wide
    narrow = narrow
    holey = holey
    shared = shared
    Addrs = {a1, a2}
    Dests = {d1, d2}
    Masks = {wide, narrow, holey}
    HoleyMasks = {holey}
    Net <- MCNet
    DefaultAddr = a1
    DefaultDest = d1
    DefaultMask = wide
    Unset = Unset
CHECK_DEADLOCK FALSE
INVARIANTS
    TypeOK
    RouteIsRemembered
    RouteFollowsUntilFailure
