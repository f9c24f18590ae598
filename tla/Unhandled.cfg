CONSTANTS
    r1 = r1
    r2 = r2
    r3 = r3
    Requests = {r1, r2, r3}
    Errors <- MCErrors
    Groups <- MCGroups
    GroupOf <- MCGroupOf
    ClientErrors = {"404"}
    DownloadErrors = {"DL-ERR"}
    MaxGroups = 2
    MaxReports = 5
    MaxClock = 1
SPECIFICATION Spec
INVARIANT UnhandledReported
SYMMETRY MCSymmetry
CHECK_DEADLOCK FALSE
