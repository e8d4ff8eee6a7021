SPECIFICATION Spec
CONSTANTS
  Replicas = {p1, p2}
  NoReplica = NoReplica
  Definitions <- TwoDefinitions
  MaxTime = 2
  MaxDrafts = 0
  MaxEdits = 1
  MaxCrashes = 1
INVARIANTS RepeatsOnlyAfterLostMarker
PROPERTIES MarkerNeverReturns DisableReachesAllReplicas
SYMMETRY ReplicaSymmetry
CHECK_DEADLOCK FALSE
