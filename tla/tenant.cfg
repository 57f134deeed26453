\* Two tenants, two installations, three requests of any kind.
SPECIFICATION TenantSpec
CONSTANTS
  Tenant = {t1, t2}
  Installation = {i1, i2}
  Req = {q1, q2, q3}
  None = None
SYMMETRY Symm
INVARIANTS
  InstallationHeldOnce
  BindingFinal
  NothingLost
\* The requests are answered and no more come.
CHECK_DEADLOCK FALSE
