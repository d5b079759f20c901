SPECIFICATION Spec
CONSTANTS
  Sizes = {4}
  MaxUID = 1
  MaxMachines = 23
  Disturbances = {"createFails", "crash", "touch"}
  MaxDisturbances = 3
INVARIANTS
  OvershootBounded
CHECK_DEADLOCK FALSE
