SPECIFICATION GrantSpec
CONSTANTS
    NATIVE_LEASE_SECS = 3
    MAX_OVERLAP_SECS = 6
    VALID_FROM_SKEW_GRACE_SECS = 1
    MAX_LIVE_GRANTS_PER_CLASS = 2
    Horizon = 10
    MaxIssues = 4
INVARIANTS ViewsAgree
CHECK_DEADLOCK FALSE
