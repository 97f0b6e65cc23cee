SPECIFICATION Spec
CONSTANTS
  Procs = {p1, p2}
  Creds = {c1}
  c1 = c1
  Free = Free
  Faults = {}
  Commands <- EgressCommands
  MaxCommands = 1
  MaxKills = 0
INVARIANTS SettingsAreLive
