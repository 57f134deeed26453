SPECIFICATION ConnectorsSpec
CONSTANTS
  Tenant = {t1}
  Offered = {"jira", "notion"}
  Req = {r1, r2}
  Call = {c1}
  Worker = {w1, w2}
  MaxGen = 2
  MaxKey = 2
  None = None
INVARIANTS PairedCredentials ConnectWorks ListedIsProvisioned
PROPERTY FreshTokenAccepted
VIEW View
SYMMETRY Symmetry
CHECK_DEADLOCK FALSE
