\* Three invocations and a job, a cap of two cents, three months, one fault.
SPECIFICATION SpendSpec
CONSTANTS
  a = a
  b = b
  c3 = c3
  j = j
  Invocation = {a, b, c3}
  Job = {j}
  Parent <- OneParent
  Cost <- Costs
  Cap = 2
  Resends = 2
  Months = 3
  Faults = {"read", "old", "write", "again"}
  MaxFaults = 1
INVARIANTS
  CountedExactly
  OverspendBounded
  BlockedOnlyOverCap
\* The charges end.
CHECK_DEADLOCK FALSE
