SPECIFICATION Spec
CONSTANTS
    Jobs = {j1, j2}
    RUN_ATTEMPTS = 1
    REPORT_ATTEMPTS = 2
    MAX_PENDING = 2
    MAX_ENTRIES = 2
    RETENTION = 1
    Faults = {}
    MaxClaims = 1
    MaxCrashes = 0
    MaxDays = 0
INVARIANTS ReportSurvives
CHECK_DEADLOCK FALSE
