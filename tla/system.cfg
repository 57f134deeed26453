\* One fault of the job and one of the link to the thread.
SPECIFICATION SystemFairSpec
CONSTANTS
  job = job
  Ceiling = 2
  Spend = 1
  Resends = 1
  JobFaults = {"lost_ack", "ecs", "sdk", "thread", "ddb", "crash", "kill"}
  MaxJobFaults = 1
  LinkFaults = {"net", "timeout", "stale", "ddb", "slack", "slack_ack"}
  MaxLinkFaults = 1
INVARIANT ThreadSuccessIsReal
PROPERTIES
  PartsBehave
  OpenPRIsShown
  BridgeCannotPin
  RowSettles
\* The job ends.
CHECK_DEADLOCK FALSE
