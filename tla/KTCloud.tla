------------------------------- MODULE KTCloud -------------------------------
(***************************************************************************)
(* KT Cloud as the operator's HTTP calls use it: servers, static NAT       *)
(* entries that pair a public IP with the private address of a server, and *)
(* firewall policies that open a static NAT entry.  It is not part of the  *)
(* repository; each operator names the call of cmd/httpapi it stands for.  *)
(***************************************************************************)
EXTENDS FiniteSets

CONSTANTS
  VMs,         \* the servers the account may hold (its quota)
  PublicIPs,   \* the public IPs of the account
  NoVM,        \* no server
  NoMachine    \* no KTMachine: the owner of a server not created yet

VARIABLES
  vms,         \* [VMs -> [owner, state, serving, joins]]
  nat,         \* [PublicIPs -> VMs \cup {NoVM}], the static NAT entries
  policies     \* the public IPs for whose static NAT entry a firewall policy
               \* was accepted

cloudVars == <<vms, nat, policies>>

VMStates == {"none", "BUILD", "ACTIVE", "SHUTOFF"}

NoServer ==
  [owner |-> NoMachine, state |-> "none", serving |-> FALSE, joins |-> NoVM]

CloudInit ==
  /\ vms = [v \in VMs |-> NoServer]
  /\ nat = [p \in PublicIPs |-> NoVM]
  /\ policies = {}

FreeServers == {v \in VMs : vms[v] = NoServer}

\* Variant of FreeIPs: the type of a public IP is not looked at.
AnyIPs == PublicIPs

\* GetAvailablePublicIpAddresses: the public IPs of type ASSOCIATE.
FreeIPs == {p \in PublicIPs : nat[p] = NoVM}

\* POST /server/servers: server v is created for machine m; its user data
\* makes it join the cluster of server u, or none.
PostServer(v, m, u) ==
  vms' = [vms EXCEPT ![v] = [owner |-> m, state |-> "BUILD",
                             serving |-> FALSE, joins |-> u]]

\* POST /nsm/v1/staticNat
PostStaticNat(p, v) == nat' = [nat EXCEPT ![p] = v]

\* POST /nsm/v1/firewall/policy: the policy is accepted.  The reply names a job
\* that carries it out, in its own time.
PostPolicy(p) == policies' = policies \cup {p}

\* POST /server/servers/<id>/action
DeleteServer(v) == vms' = [vms EXCEPT ![v] = NoServer]

\* DELETE /nsm/v1/staticNat/<id>
DeleteStaticNat(p) == nat' = [nat EXCEPT ![p] = NoVM]

\* DELETE /nsm/v1/firewall/policy/<id>
DeletePolicy(p) == policies' = policies \ {p}

\* A GET on port 8000 of public IP p is answered, if its policy has taken
\* effect; "open" says whether the port is reachable without a policy.
Answers(p, open) ==
  /\ nat[p] # NoVM
  /\ vms[nat[p]].state = "ACTIVE"
  /\ vms[nat[p]].serving
  /\ open \/ p \in policies

\* The cloud finishes building a server.
BuildServer(v) ==
  /\ vms[v].state = "BUILD"
  /\ vms' = [vms EXCEPT ![v].state = "ACTIVE"]
  /\ UNCHANGED <<nat, policies>>

\* The user data of a server that joins no other has run: port 8000 serves
\* the kubeconfig of the new control plane.
ServeKubeconfig(v) ==
  /\ vms[v].state = "ACTIVE"
  /\ vms[v].joins = NoVM
  /\ ~vms[v].serving
  /\ vms' = [vms EXCEPT ![v].serving = TRUE]
  /\ UNCHANGED <<nat, policies>>

\* A server stops, by the user or by a failure of its host.
StopServer(v) ==
  /\ vms[v].state = "ACTIVE"
  /\ vms' = [vms EXCEPT ![v].state = "SHUTOFF", ![v].serving = FALSE]
  /\ UNCHANGED <<nat, policies>>

RestartServer(v) ==
  /\ vms[v].state = "SHUTOFF"
  /\ vms' = [vms EXCEPT ![v].state = "ACTIVE"]
  /\ UNCHANGED <<nat, policies>>
=============================================================================
