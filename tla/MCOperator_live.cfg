SPECIFICATION OperatorFairSpec
CONSTANTS
  cp1 = cp1  cp2 = cp2  w1 = w1  c1 = c1  v1 = v1  v2 = v2
  Machines = {cp1, cp2, w1}
  ControlPlanes = {cp1, cp2}
  Clusters = {c1}
  ClusterOf <- InOneCluster
  ExternalNet = {c1}
  FirewallRules = {}
  VMs = {v1, v2}
  PublicIPs = {p1}
  NoVM = NoVM  NoMachine = NoMachine  NoIP = NoIP  Gone = Gone  Leftover = Leftover
  Replicas = 1
  NameOf <- Numbered
  Disturbances = {"refused", "callFails", "lostReply", "crash", "stop"}
  MaxDisturbances = 1
INVARIANTS
  DeploymentServed
PROPERTIES
  ClusterComesUp
  WorkerComesUp
CONSTRAINT InOrder
CHECK_DEADLOCK FALSE
