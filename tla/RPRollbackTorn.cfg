SPECIFICATION Spec
CONSTANTS
    MaxUF = 3
    Configs <- MCGood
    Absent = Absent
    MaxCrashes = 1
    MaxFaults = 1
    MaxFailures = 5
PROPERTY RollbackSuccessMeansRestored
