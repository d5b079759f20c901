------------------------------- MODULE Operator -------------------------------
(***************************************************************************)
(* The operator at work on one cluster: the user applies a deployment of   *)
(* control planes, the MachineDeployment controller makes their KTMachines *)
(* and the KTMachine controller turns these, and the workers that are      *)
(* there already, into servers.  Both controllers run in one manager, over *)
(* one informer of KTMachines: what one of them writes is an event for     *)
(* both, and a crash hits both.                                            *)
(*                                                                         *)
(* KTMachine is extended and MachineDeployment is instantiated; its        *)
(* sequence of sets of machines is what the informer has yet to deliver.   *)
(* Machines are not edited or deleted here, tokens do not expire, and no   *)
(* name is used twice.                                                     *)
(***************************************************************************)
EXTENDS KTMachine

CONSTANTS
  Replicas,    \* Spec.Replicas of the deployment of the control planes
  NameOf       \* the control planes, numbered

ASSUME OperatorAssumption ==
  /\ Replicas \in Nat
  /\ Cardinality(ControlPlanes) \in Nat
  /\ NameOf \in [ControlPlanes -> 1..Cardinality(ControlPlanes)]
  /\ \A m1, m2 \in ControlPlanes : NameOf[m1] = NameOf[m2] => m1 = m2
  /\ Disturbances \cap {"edit", "delete", "expire"} = {}

VARIABLES
  deployments,   \* as in MachineDeployment
  template,
  queued,
  batch,         \* its job
  owned,         \* the KTMachineTemplate controller has written its owner
                 \* reference into the deployment
  pending        \* the machines of the events the informer has yet to deliver

deploymentVars == <<deployments, template, queued, batch, owned>>

operatorVars == <<vars, deploymentVars, pending>>

-----------------------------------------------------------------------------
(* The machines as MachineDeployment sees them *)

\* The control planes after the first n events are delivered.
View(n) ==
  LET Delivered(m) == Cardinality({i \in 1..n : pending[i] = m})
  IN {[name |-> NameOf[m], owner |-> 1] :
        m \in {x \in ControlPlanes : versions[x][1 + Delivered(x)] # Gone}}

\* One view now, and one after each event of a control plane.
Views ==
  LET events == {i \in DOMAIN pending : pending[i] \in ControlPlanes}
      Event(k) == CHOOSE i \in events : Cardinality({j \in events : j <= i}) = k
  IN [k \in 1..(Cardinality(events) + 1) |-> IF k = 1 THEN View(0) ELSE View(Event(k - 1))]

Deployment == INSTANCE MachineDeployment WITH
  Sizes <- {Replicas}, MaxUID <- 1, MaxMachines <- Cardinality(ControlPlanes),
  Disturbances <- (Disturbances \cap {"crash"}) \cup
                    {d \in {"createFails"} : "callFails" \in Disturbances},
  machines <- Views, job <- batch

OperatorInit ==
  /\ InitWith(Machines \ ControlPlanes)
  /\ deployments = <<Deployment!NoDeployment>>
  /\ template = FALSE
  /\ queued = FALSE
  /\ batch = Deployment!Idle
  /\ owned = FALSE
  /\ pending = <<>>

-----------------------------------------------------------------------------
(* The steps *)

\* Whatever is written of a machine is an event of the one informer.
Notify ==
  LET written == {m \in Machines : Len(versions'[m]) > Len(versions[m])}
  IN pending' = IF written = {} THEN pending
                ELSE Append(pending, CHOOSE m \in written : TRUE)

Alone(A) == A /\ Notify /\ UNCHANGED deploymentVars

\* The KTMachine controller, the cloud, and the user.
MachineStep ==
  \/ \E m \in Machines : Alone(Reconcile(m))
  \/ Alone(JobStep)
  \/ Alone(CallFails)
  \/ \E c \in Clusters : Alone(SupplyToken(c)) \/ Alone(DeleteLeftover(c))
  \/ \E v \in VMs : Alone(Cloud(v))

\* The MachineDeployment controller, but for its creates; one may fail where
\* calls may.
DeploymentStep ==
  /\ UNCHANGED <<kubeVars, cloudVars, tokens, job, owned, pending>>
  /\ Deployment!Reconcile \/ Deployment!CountChildren \/ Deployment!CreateFails

\* The create of a KTMachine, whose status is empty; its name was never used.
CreateMachine ==
  /\ \E m \in ControlPlanes : versions[m] = <<Gone>> /\ Put(m, NewStatus)
  /\ Notify
  /\ UNCHANGED <<secrets, fw, cloudVars, tokens, job, owned>>
  /\ Deployment!CreateMachine

\* The informer delivers the next event; that of a control plane also queues
\* the deployment, its owner.
DeliverMachine ==
  \E m \in Machines :
    /\ pending # <<>>
    /\ m = Head(pending)
    /\ WatchEvent(m)
    /\ pending' = Tail(pending)
    /\ IF m \in ControlPlanes
       THEN Deployment!WatchMachines /\ UNCHANGED owned
       ELSE UNCHANGED deploymentVars

DeliverDeployment ==
  /\ UNCHANGED <<vars, owned, pending>>
  /\ Deployment!WatchDeployment

\* The user applies the deployment and, at any time, its template.
Apply ==
  /\ UNCHANGED <<vars, owned, pending>>
  /\ Deployment!CreateDeployment(Replicas) \/ Deployment!CreateTemplate

\* The KTMachineTemplate controller finds the deployment of its name.  (Where
\* it does not, or its update is refused, it changes nothing and comes back
\* after a minute.)
AddOwnerRef ==
  /\ template
  /\ ~owned
  /\ Deployment!Stored(deployments).exists
  /\ owned' = TRUE
  /\ UNCHANGED <<vars, pending>>
  /\ Deployment!WriteDeployment(Deployment!Stored(deployments))

\* The manager dies, with both controllers and the informers.
CrashOperator ==
  /\ Crash
  /\ pending' = <<>>
  /\ UNCHANGED owned
  /\ Deployment!Crash

OperatorNext ==
  \/ MachineStep
  \/ DeploymentStep \/ CreateMachine
  \/ DeliverMachine \/ DeliverDeployment
  \/ Apply \/ AddOwnerRef
  \/ CrashOperator

OperatorSpec == OperatorInit /\ [][OperatorNext]_operatorVars

\* As in KTMachine and MachineDeployment; and the user applies the objects.
OperatorFairness ==
  /\ WF_operatorVars(Alone(JobStep))
  /\ \A m \in Machines : SF_operatorVars(Alone(Reconcile(m)))
  /\ WF_operatorVars(DeliverMachine)
  /\ \A c \in Clusters :
       /\ WF_operatorVars(Alone(SupplyToken(c)))
       /\ WF_operatorVars(Alone(DeleteLeftover(c)))
  /\ \A v \in VMs : WF_operatorVars(Alone(CloudProgress(v)))
  /\ WF_operatorVars(DeploymentStep \/ CreateMachine)
  /\ WF_operatorVars(DeliverDeployment)
  /\ WF_operatorVars(Apply)
  /\ WF_operatorVars(AddOwnerRef)

OperatorFairSpec == OperatorSpec /\ OperatorFairness

-----------------------------------------------------------------------------
(* Properties *)

\* The MachineDeployment controller sleeps, and no event will wake it.
Asleep ==
  /\ ~queued
  /\ batch = Deployment!Idle
  /\ Len(deployments) = 1
  /\ \A i \in DOMAIN pending : pending[i] \notin ControlPlanes

\* With all the events of the one informer that are not its own, and crashes
\* that hit both controllers, the MachineDeployment controller never sleeps
\* while the deployment lacks control planes.
DeploymentServed ==
  Asleep /\ Deployment!Stored(deployments).exists
    => Cardinality({m \in ControlPlanes : Exists(m)}) >= Replicas

\* No reconcile of control plane m gets it any further: the quota of servers
\* or of public IPs is spent, or a call failed between the record of its IP
\* and the BootstrapReady mark.
Blocked(m) ==
  \/ Stored(m).id = NoVM /\ FreeServers = {}
  \/ Stored(m).id # NoVM /\ Stored(m).ip = NoIP /\ FreeIPs = {}
  \/ Stored(m).ip # NoIP /\ ~Stored(m).bootstrap

Stuck(c) ==
  \/ Phase(c) = "spent"
  \/ \A m \in ControlPlanes : Exists(m) /\ ClusterOf[m] = c => Blocked(m)

\* From the deployment to the kubeconfig: the cluster has, for good, one ready
\* control plane in the end, however many the deployment has made, also when a
\* call fails, a server stops or the manager crashes on the way; or the lock is
\* spent, or every one of them is blocked.
ClusterComesUp ==
  \A c \in ExternalNet :
    <>[](/\ \E m \in ControlPlanes : Exists(m)
         /\ Cardinality(ReadyControlPlanes(c)) = 1 \/ Stuck(c))

\* Every worker records a running server in the end or, when its create call
\* was refused, the joined flag; unless no control plane is ready.  A ready one
\* that does not answer, because its server was stopped, makes JoinControlPlane
\* panic, and must not keep the worker from its server for ever.
WorkerComesUp ==
  \A m \in Machines \ ControlPlanes :
    <>[](Stored(m).status = "ACTIVE" \/ Stored(m).joined \/ BootstrapReady = {})
=============================================================================
