SPECIFICATION Spec
CONSTANTS
  p1 = p1
  p2 = p2
  f1 = f1
  f2 = f2
  None = None
  Procs = {p1}
  Others = TRUE
  Files = {f1, f2}
  MaxChanges = 2
  MaxEdits = 2
  MaxFaults = 1
INVARIANTS
  TypeOK
  NoTornCandidate
PROPERTIES
  LifecycleConverges
