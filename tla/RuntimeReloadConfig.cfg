SPECIFICATION Spec
CONSTANTS
  p1 = p1
  p2 = p2
  f1 = f1
  f2 = f2
  None = None
  Procs = {p1}
  Others = FALSE
  Files = {f1}
  MaxChanges = 1
  MaxEdits = 1
  MaxFaults = 0
PROPERTIES
  ConfigConverges
