SPECIFICATION FairSpec
CONSTANTS
    uA = uA  uB = uB  fa = fa  fb = fb  fc = fc
    None = None  NoPath = NoPath
    Updates = {uA, uB}
    UFs <- MCUFs
    File <- MCFile
    NoUrl = {}
    MaxIds = 12
    MaxCalls = 2
    MaxCrashes = 1
    MaxFaults = 2
    MaxEvents = 3
INVARIANTS TypeOK SuccessIsComplete ListMatchesDisk SomeoneAnswers
PROPERTIES DownloadImplemented 
