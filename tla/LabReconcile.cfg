CONSTANTS
    Labs = {a, b}
    Wants <- MCWants
    SweepOn = TRUE
    AutoApply = TRUE
    None = None
    MaxFaults = 1
    MaxRequests = 1
SPECIFICATION LabSpec
INVARIANTS
    OverlapNeverBuilt
    ReportedIsBuilt
    LockIsReleased
PROPERTIES
    LabConverges
