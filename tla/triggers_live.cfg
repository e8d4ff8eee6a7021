SPECIFICATION FairSpec
CONSTANTS
  Replicas = {p1, p2}
  NoReplica = NoReplica
  Definitions <- TwoDefinitions
  MaxTime = 0
  MaxDrafts = 1
  MaxEdits = 2
  MaxCrashes = 1
PROPERTIES DefinitionsConverge
CHECK_DEADLOCK FALSE
