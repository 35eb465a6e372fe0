SPECIFICATION Spec
CONSTANTS
    Unset = Unset
    Names = {tun0, tun1}
    LongName = LongName
    Inputs <- MCInputs
    Values <- MCValues
    Before <- MCBefore
    DefaultMtu = 1500
    MinMtu = 68
    MaxCalls = 2
CHECK_DEADLOCK FALSE
INVARIANTS
    TypeOK
    NewDeviceAnswersItsOptions
PROPERTIES
    OthersUntouched
