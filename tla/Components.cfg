SPECIFICATION MCSpec
CONSTANTS
    Base = 1
    Cap = 5
    MAX_RETRY_AFTER = 3
    Tps = 2
    MaxTime = 8
    MaxFailures = 3
    Headers <- MCHeaders
    Peers = {"p"}
    Statics = {}
    Outcomes <- MCOutcomes
    RepublishEvery = 2
    MaxRounds = 3
    MaxDrops = 1
    PairLabels = {l1}
    Users = {alice}
    Ids = {e1}
    MaxIssued = 2
    MaxKeys = 2
    MaxFaults = 1
    MaxKills = 1
    MaxRestarts = 1
    NATIVE_LEASE_SECS = 3
    MAX_OVERLAP_SECS = 6
    VALID_FROM_SKEW_GRACE_SECS = 1
    MAX_LIVE_GRANTS_PER_CLASS = 2
    Horizon = 6
    MaxIssues = 3
    Procs = {p1, p2}
    Creds = {c1}
    Free = Free
    Commands <- MCCommands
    MaxCommands = 3
INVARIANTS
    
    SilenceBounded
    ReportsAreFaithful
    CredentialFitsRoute
    NoOrphan
PROPERTIES
    PairingTakesEffect
    RenewalIsSilent
    TimerRepairs
CHECK_DEADLOCK FALSE
