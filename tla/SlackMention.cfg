CONSTANTS
  MaxDeliveries = 3
  MaxFailures = 1
  MaxLies = 1
  MaxCrashes = 1
  Durable = TRUE
  MaxTroubles = 1
  Slices = {s1}
  Notes = {n1}
  Wordings = {v1, v2}
SPECIFICATION FairSpec
CHECK_DEADLOCK FALSE
INVARIANTS
  QueuedOnce
  AckedIsNotLost
PROPERTIES
  QueuedIsAnswered
