SPECIFICATION Spec
SYMMETRY AnyProcess
CONSTANTS
  Procs = {p1, p2}
  Creds = {c1}
  c1 = c1
  Free = Free
  Faults = {"keys", "service", "invalid", "systemctl", "inactive", "rejected", "restore", "save", "restart"}
  Commands <- LocalCommands
  MaxCommands = 2
  MaxKills = 0
INVARIANTS SuccessIsLive FailureLeavesPrevious
PROPERTIES ImplementsSerialStore PublishedIsAccepted
