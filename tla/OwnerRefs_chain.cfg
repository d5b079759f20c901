SPECIFICATION FairSpec
CONSTANTS
  Applied = {"cluster", "ktcluster", "cpTemplate"}
  MaxUID = 2
  Gone = Gone
  Disturbances = {"updateFails", "edit", "delete", "crash"}
  MaxDisturbances = 1
INVARIANTS
  TypeOK
  OwnedWhenQuiet
PROPERTIES
  ChainSettles
CHECK_DEADLOCK FALSE
