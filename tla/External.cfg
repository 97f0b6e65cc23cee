SPECIFICATION FairSpec
CONSTANTS
    Creds = {c1}
    Contents <- TimedContents
    Faults = {"fetch", "stale", "legacy", "resume", "vpn-admin", "save", "ack"}
    MaxChanges = 2
    MaxCrashes = 1
PROPERTIES NeverWidens AckedInFull ExpiryEnforced Converges
