SPECIFICATION WorkspaceSpec
CONSTANTS
  Worker = {w1, w2}
  Browser = {b1, b2}
  Flow = {f1, f2}
  Press = {p1, p2}
  Reaction = {r1}
  MaxIssued = 2
  MaxFaults = 1
  None = None
INVARIANTS Provisioned OwnCacheFresh PickWorkedOn
VIEW View
SYMMETRY Symmetry
CHECK_DEADLOCK FALSE
