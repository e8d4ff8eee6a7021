SPECIFICATION Spec
CONSTANTS
  q1 = q1
  q2 = q2
  k1 = k1
  Requests = {q1, q2}
  KeyOf <- SenderRetry
  NoKey = NoKey
  Replicas = {p1, p2}
  MaxAttempts = 2
  ClaimLimit = 2
  MaxPending = 1
  MaxResets = 1
INVARIANTS OneTaskPerDelivery AcceptedIsRecorded LinkedTaskExists
PROPERTIES ImplementsDurableWork
SYMMETRY ReplicaSymmetry
CHECK_DEADLOCK FALSE
