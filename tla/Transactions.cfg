SPECIFICATION MCSpec
CONSTANTS
    Jobs = {"j1"}
    RUN_ATTEMPTS = 2
    REPORT_ATTEMPTS = 2
    MAX_PENDING = 1
    MAX_ENTRIES = 2
    RETENTION = 1
    Faults = {"vpn-admin", "timeout", "claim", "network", "queue", "log"}
    MaxClaims = 2
    MaxCrashes = 1
    MaxDays = 1
    Commands = {"init", "rotate", "obfs", "set", "clear", "backup", "restore"}
    MaxCommands = 2
    MaxFaults = 2
    MaxKills = 1
INVARIANTS
    CompletionMatchesNode CalmAppliedOnce FilesBounded
    CommittedIsLive RestoredIsPrevious PreviousKept
PROPERTIES CalmRetriesAreFinite TimerHeals
CHECK_DEADLOCK FALSE
