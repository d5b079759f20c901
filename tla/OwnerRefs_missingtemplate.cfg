SPECIFICATION Spec
CONSTANTS
  Applied = {"cluster", "ktcluster", "cpTemplate"}
  MaxUID = 2
  Gone = Gone
  Disturbances = {"updateFails", "edit", "delete", "crash"}
  MaxDisturbances = 1
INVARIANTS
  MissingTemplateRequeued
CHECK_DEADLOCK FALSE
