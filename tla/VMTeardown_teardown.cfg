SPECIFICATION FairSpec
CONSTANTS
  VMs = {v1}
  PublicIPs = {p1, p2}
  NoVM = NoVM  NoMachine = NoMachine  NoIP = NoIP
  Machine = cp1
  Disturbances = {"callFails", "lostReply", "crash", "deletedByHand"}
  MaxDisturbances = 3
INVARIANTS
  TypeOK
  PoliciesStayOnRecord
PROPERTIES
  ServerGoesLast
  TornDownOrStuck
CHECK_DEADLOCK FALSE
