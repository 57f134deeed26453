\* Three faults of any kind.
SPECIFICATION TrackerSpec
CONSTANTS
  Faults = {"net", "timeout", "stale", "ddb", "slack", "slack_ack"}
  MaxFaults = 3
INVARIANTS
  TrackersBounded
  ResultShown
PROPERTY NoStepBack
\* The container posts its result and is done.
CHECK_DEADLOCK FALSE
