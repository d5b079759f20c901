SPECIFICATION Spec
CONSTANTS
  cp1 = cp1  cp2 = cp2  w1 = w1  c1 = c1  c2 = c2
  Machines = {cp1, w1}
  ControlPlanes = {cp1}
  Clusters = {c1}
  ClusterOf <- InOneCluster
  ExternalNet = {c1}
  FirewallRules = {c1}
  VMs = {v1, v2, v3}
  PublicIPs = {p1, p2}
  NoVM = NoVM  NoMachine = NoMachine  NoIP = NoIP  Gone = Gone  Leftover = Leftover
  Disturbances = {"refused", "callFails", "lostReply", "stale", "crash", "edit", "delete", "stop", "expire"}
  MaxDisturbances = 3
SYMMETRY Symmetry
INVARIANTS
  TypeOK
  BootstrapHasIP
  FirewallBeforeBootstrap
  JoinTargetBootstrapped
PROPERTIES
  IdStable
  JoinedIsFinal
CHECK_DEADLOCK FALSE
