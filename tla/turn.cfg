SPECIFICATION AgentTurnSpec
CONSTANTS
  Turn = {a1, a2}
  c1 = c1
  c2 = c2
  Channel = {c1, c2}
  Named = {c2}
  User = {u1}
  Repo = {r1}
  Config <- Rows
  Gated = {"propose_pr"}
  MaxCalls = 1
  MaxEdits = 1
  None = None
SYMMETRY Symmetry
INVARIANTS SiloKept HintWhereWritten ReachGranted AuditComplete
CHECK_DEADLOCK FALSE
