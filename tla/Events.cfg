CONSTANTS
    Order <- MCOrder
    MaxChanges = 2
    MaxFailures = 1
SPECIFICATION Spec
INVARIANTS Remembered NoLostWakeup
PROPERTIES EverythingIsFetched
