SPECIFICATION DashboardsSpec
CONSTANTS
  Worker = {w1}
  Source = {s1, s2}
  Request = {r1, r2}
  Board = {d1}
  Capacity = 2
  Period = 3
  MaxKeys = 1
  Slots = 1
  Lifetime = 3
  MaxTime = 6
  None = None
INVARIANTS RateBounded RetryAfterKept LinkHonest
SYMMETRY Symmetry
CHECK_DEADLOCK FALSE
