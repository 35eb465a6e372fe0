SPECIFICATION Spec
CONSTANTS
    Unset = Unset
    Ip4s = {a1, m1, defaultAddr, defaultMask}
    Ip6 = ip6
    Names = {wintun0, wintun1}
    DefaultAddr = defaultAddr
    DefaultMask = defaultMask
    MaxCalls = 1
CHECK_DEADLOCK FALSE
INVARIANTS
    TypeOK
    OnlySignatureOutlives
    LibraryIsTheCheckedFile
    NewDeviceHasItsAddresses
