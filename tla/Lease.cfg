CONSTANTS
    Slots <- MCSlots
    Pools <- MCPools
    Grid = 2
    Lifetime = 5
    MinRemaining = 2
    MaxTime = 5
    MaxRevokes = 1
    MaxFaults = 1
    MaxCrashes = 1
SPECIFICATION Spec
INVARIANTS  WithinHorizon
PROPERTIES LeaseKept PoolReplenishes
