SPECIFICATION FairSpec
CONSTANTS
  Deliveries = {d1}
  Lenient = {}
  NumTriggers = 2
  Replicas = {p1, p2}
  MaxAttempts = 3
  MaxSends = 2
  MaxCrashes = 1
INVARIANTS FirstHandlingExclusive UnfinishedIsHandled CompletedActed
PROPERTIES RetriedOncePerFailure EverySentSettles
CHECK_DEADLOCK FALSE
