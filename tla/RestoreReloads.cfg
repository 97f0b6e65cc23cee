CONSTANTS
    Commands = {"restore"}
    MaxCommands = 1
    MaxFaults = 2
    MaxKills = 0
SPECIFICATION KeySpec
INVARIANT RestoreReloads
