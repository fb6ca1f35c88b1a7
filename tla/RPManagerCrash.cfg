SPECIFICATION FairSpec
CONSTANTS
    MaxUF = 3
    Configs <- MCConfigs
    Absent = Absent
    MaxCrashes = 3
    MaxFaults = 2
    MaxFailures = 5
INVARIANTS TypeOK IndexBehindImages NoTornForgotten OkMeansDone
PROPERTIES CommitNeedsImages RollbackRestores PhaseOrder TxnImplemented RecordKept CallReturns
