SPECIFICATION Spec
CONSTANTS
    MaxUF = 3
    Configs <- MCGood
    Absent = Absent
    MaxCrashes = 1
    MaxFaults = 0
    MaxFailures = 5
INVARIANT ResumeRecovers
