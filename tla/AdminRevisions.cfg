SPECIFICATION Spec
SYMMETRY AnyProcess
CONSTANTS
  Procs = {p1, p2}
  Creds = {c1}
  c1 = c1
  Free = Free
  Faults = {"stamp", "inactive", "save"}
  Commands <- RevisionCommands
  MaxCommands = 2
  MaxKills = 1
 
PROPERTIES NewestSnapshotWins
