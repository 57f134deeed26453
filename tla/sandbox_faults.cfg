\* Two jobs with different thresholds, every kind of fault, one fault.
SPECIFICATION Spec
CONSTANTS
  j1 = j1
  j2 = j2
  Task <- TwoJobs
  Threshold <- Thresholds
  Cost <- Costs
  Resends = 2
  Faults <- FaultKinds
  MaxFaults = 1
INVARIANTS
  HeartbeatOwned
  IdleShutdownSafe
  SuccessHasPR
  SpendCharged
  AuditBeforeRelease
PROPERTY ImplementsContract
\* Jobs end and no new ones are asked for.
CHECK_DEADLOCK FALSE
