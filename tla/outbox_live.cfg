SPECIFICATION FairSpec
CONSTANTS
  Deliveries = {d1, d2}
  SpawnTask = {}
  Replicas = {p1, p2}
  MaxAttempts = 2
  ClaimLimit = 2
  LeaseItems = 1
  MaxResets = 0
  MaxEffects = 1
PROPERTIES EveryDeliverySettles
CHECK_DEADLOCK FALSE
