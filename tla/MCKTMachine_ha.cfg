SPECIFICATION Spec
CONSTANTS
  cp1 = cp1  cp2 = cp2  w1 = w1  c1 = c1  c2 = c2
  Machines = {cp1, cp2}
  ControlPlanes = {cp1, cp2}
  Clusters = {c1}
  ClusterOf <- InOneCluster
  ExternalNet = {c1}
  FirewallRules = {}
  VMs = {v1, v2, v3}
  PublicIPs = {p1, p2}
  NoVM = NoVM  NoMachine = NoMachine  NoIP = NoIP  Gone = Gone  Leftover = Leftover
  Disturbances = {"refused", "callFails", "lostReply", "stale", "crash", "edit", "delete", "stop"}
  MaxDisturbances = 2
SYMMETRY Symmetry
INVARIANTS
  OneReadyControlPlane
  RecordedIPRoutesHome
PROPERTIES
  ImplementsBootstrapLock
CHECK_DEADLOCK FALSE
