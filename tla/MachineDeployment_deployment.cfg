SPECIFICATION FairSpec
CONSTANTS
  Sizes = {1, 2}
  MaxUID = 2
  MaxMachines = 3
  Disturbances = {"createFails", "crash", "scale", "touch", "deleteMachine", "deleteDeployment"}
  MaxDisturbances = 2
INVARIANTS
  TypeOK
  NoLostWakeUp
PROPERTIES
  ReplicasReached
CHECK_DEADLOCK FALSE
