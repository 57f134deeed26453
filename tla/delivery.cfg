\* One event, delivered up to three times, an answer of up to three units,
\* any three faults.
SPECIFICATION DeliveryFairSpec
CONSTANTS
  MaxLength = 3
  MaxDelivery = 3
  CatchUp = 1
  Burst = 2
  Faults = {"net", "slow", "dedup", "dedup_again", "lookup", "token", "agent", "conn", "slack", "slack_ack", "crash"}
  MaxFaults = 3
INVARIANTS
  StreamFaithful
  RetriesNeverRunTwice
  StreamsClosed
PROPERTY
  Answered
\* The event is dealt with.
CHECK_DEADLOCK FALSE
