SPECIFICATION Spec
CONSTANTS
    uA = uA  uB = uB  fa = fa  fb = fb  fc = fc
    None = None  NoPath = NoPath
    Updates = {uA, uB}
    UFs <- MCUFs
    File <- MCFile
    NoUrl = {fb}
    MaxIds = 8
    MaxCalls = 1
    MaxCrashes = 0
    MaxFaults = 0
    MaxEvents = 1
INVARIANTS SuccessIsComplete
