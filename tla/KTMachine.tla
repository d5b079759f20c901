------------------------------ MODULE KTMachine ------------------------------
(***************************************************************************)
(* The KTMachine controller: what one manager does, call by call, to turn  *)
(* KTMachine objects into servers, public IPs, firewall policies, a        *)
(* kubeconfig secret per cluster and joined workers                        *)
(* (internal/controller/ktmachine_controller.go and cmd/httpapi).          *)
(*                                                                         *)
(* The controller has one worker (MaxConcurrentReconciles is left at 1),   *)
(* so there is one job; but a reconcile is a sequence of HTTP calls, and   *)
(* between two of them the cloud, the cache, the user and a crash act.     *)
(***************************************************************************)
EXTENDS KubeStore, KTCloud

CONSTANTS
  ControlPlanes,    \* the machines whose name contains "control-plane"
  Clusters,
  ClusterOf,        \* Spec.ClusterName
  ExternalNet,      \* clusters with Spec.ControlPlaneExternalNetworkEnable
  FirewallRules,    \* clusters whose ControlPlaneRules.Direction is not ""
  NoIP,             \* no public IP
  Leftover,         \* a kubeconfig secret of an earlier cluster of this name
  Disturbances,     \* the kinds of disturbance that may happen
  MaxDisturbances   \* a bound on how many happen in one behaviour

ASSUME MachinesAssumption ==
  /\ ControlPlanes \subseteq Machines
  /\ ClusterOf \in [Machines -> Clusters]
  /\ ExternalNet \subseteq Clusters
  /\ FirewallRules \subseteq Clusters

ASSUME SentinelsAssumption ==
  /\ NoVM \notin VMs
  /\ NoIP \notin PublicIPs
  /\ NoMachine \notin Machines
  /\ Leftover \notin Machines
  /\ Leftover # NoMachine

ASSUME DisturbancesAssumption ==
  /\ Disturbances \subseteq {"refused", "callFails", "lostReply", "stale",
                             "crash", "edit", "delete", "stop", "expire"}
  /\ MaxDisturbances \in Nat

VARIABLES
  tokens,      \* [Clusters -> Tokens], Spec.SubjectToken of the KTSubjectToken
  secrets,     \* [Clusters -> ...], the machine whose kubeconfig the secret holds
  fw,          \* [Machines -> ...], the KTNetworkFirewall object of the machine
  job,         \* the reconcile that is running, or Idle
  disturbed    \* how many disturbances have happened

vars == <<versions, vms, nat, policies, tokens, secrets, fw, job, disturbed>>

-----------------------------------------------------------------------------
(* The data *)

\* KTMachineStatus.  AssignedPublicIps is appended to only when it is empty,
\* so it is one IP or none: its first and its last element are the same.
Status == [id        : VMs \cup {NoVM},
           status    : {"", "Creating"} \cup (VMStates \ {"none"}),
           ip        : PublicIPs \cup {NoIP},
           bootstrap : BOOLEAN,   \* ControlPlaneRef.Type = "BootstrapReady"
           ready     : BOOLEAN,   \* ControlPlaneRef.Status
           joined    : BOOLEAN]   \* WorkerRef.JoinedControlPlane

ASSUME GoneAssumption == Gone \notin Status

NewStatus == [id |-> NoVM, status |-> "", ip |-> NoIP,
              bootstrap |-> FALSE, ready |-> FALSE, joined |-> FALSE]

\* What GetCreatedVM and the two create calls decode from the cloud's JSON:
\* the fields the operator itself adds to a status are absent from it.
ServerResponse(v, state) == [NewStatus EXCEPT !.id = v, !.status = state]

NoFirewall == [exists |-> FALSE, rules |-> {}, jobs |-> {}]

Firewall == [exists : BOOLEAN, rules : SUBSET PublicIPs, jobs : SUBSET PublicIPs]

\* A subject token as the cloud sees it; "none": the object or its token is
\* missing.
Tokens == {"none", "valid", "expired"}

Steps == {"createVM", "recordVM", "findControlPlane", "createWorkerVM",
          "markJoined", "getVM", "syncStatus", "attachIP", "recordIP",
          "addFirewall", "createFirewall", "recordJob", "markBootstrap",
          "probe", "createSecret", "markReady"}

\* A running reconcile: its next call, its machine, its copy of the object and
\* whether the copy carries the stored resourceVersion; whether the cloud still
\* accepts the token it read; and, between a call and the use of its answer, a
\* server (the one created, or the one a worker is to join) and the public IP
\* just attached.
Job == [pc : Steps, m : Machines, obj : Status, fresh : BOOLEAN, auth : BOOLEAN,
        vm : VMs \cup {NoVM}, ip : PublicIPs \cup {NoIP}]

Idle == [pc |-> "idle", m |-> NoMachine, obj |-> NewStatus, fresh |-> FALSE,
         auth |-> FALSE, vm |-> NoVM, ip |-> NoIP]

\* The machines of present exist, just created; the others do not.
InitWith(present) ==
  /\ versions = [m \in Machines |->
                   IF m \in present THEN <<NewStatus>> ELSE <<Gone>>]
  /\ CloudInit
  /\ tokens = [c \in Clusters |-> "none"]
  /\ secrets \in [Clusters -> {NoMachine, Leftover}]
  /\ fw = [m \in Machines |-> NoFirewall]
  /\ job = Idle
  /\ disturbed = 0

Init == InitWith(Machines)

-----------------------------------------------------------------------------
(* The steps of a reconcile *)

kubeVars == <<versions, secrets, fw>>

\* A disturbance of an enabled kind, within the bound; or none.
Disturb(kind) ==
  /\ kind \in Disturbances
  /\ disturbed < MaxDisturbances
  /\ disturbed' = disturbed + 1

Calm == UNCHANGED disturbed

\* The reconcile ends, with or without an error: the machine is queued again
\* either way, after a minute or with back-off.
Return == job' = Idle

\* Variant of Continue: a finished reconcile keeps its copy of the object.
ContinueKeepsJob(pc, obj) == job' = [job EXCEPT !.pc = pc, !.obj = obj]

\* The reconcile goes on with step pc ("idle": it has nothing more to do).
Continue(pc, obj) ==
  IF pc = "idle" THEN Return ELSE job' = [job EXCEPT !.pc = pc, !.obj = obj]

Goto(pc) == Continue(pc, job.obj)

\* Variant of Update: the last write wins, whatever it is based on.
UpdateUnconditionally(obj, pc) == Put(job.m, obj) /\ Continue(pc, obj)

\* r.Status().Update of obj: refused with a conflict unless the copy carries
\* the stored resourceVersion.
Update(obj, pc) ==
  \/ /\ job.fresh
     /\ Put(job.m, obj)
     /\ Continue(pc, obj)
  \/ /\ ~job.fresh
     /\ Return
     /\ UNCHANGED versions

\* Variant of FirstStep: the joined flag is tested the wrong way round.
FirstStepInverted(m, obj) ==
  IF m \in ControlPlanes
  THEN IF obj.id = NoVM THEN "createVM" ELSE "getVM"
  ELSE IF obj.status = "" /\ obj.joined THEN "findControlPlane" ELSE "getVM"

FirstStep(m, obj) ==
  IF m \in ControlPlanes
  THEN IF obj.id = NoVM THEN "createVM" ELSE "getVM"
  ELSE IF obj.status = "" /\ ~obj.joined THEN "findControlPlane" ELSE "getVM"

\* Variant of NetworkStep: a control plane is probed only once it is ready.
NetworkStepInverted(m, obj) ==
  IF m \notin ControlPlanes \/ obj.status # "ACTIVE" THEN "idle"
  ELSE IF ClusterOf[m] \in ExternalNet /\ obj.ip = NoIP THEN "attachIP"
  ELSE IF obj.bootstrap /\ obj.ready THEN "probe"
  ELSE "idle"

\* What follows once the status agrees with the cloud.
NetworkStep(m, obj) ==
  IF m \notin ControlPlanes \/ obj.status # "ACTIVE" THEN "idle"
  ELSE IF ClusterOf[m] \in ExternalNet /\ obj.ip = NoIP THEN "attachIP"
  ELSE IF obj.bootstrap /\ ~obj.ready THEN "probe"
  ELSE "idle"

\* getSubjectToken: the token of the cluster that Spec.ClusterName names.
SubjectToken(m) == tokens[ClusterOf[m]]

\* Reconcile takes m from the queue and reads it from the cache; it uses the
\* token it reads now until it ends.
Reconcile(m) ==
  /\ job = Idle
  /\ Cached(m) # Gone
  /\ SubjectToken(m) # "none"
  /\ IF InSync(m) THEN Calm ELSE Disturb("stale")
  /\ job' = [pc |-> FirstStep(m, Cached(m)), m |-> m, obj |-> Cached(m),
             fresh |-> InSync(m), auth |-> SubjectToken(m) = "valid",
             vm |-> NoVM, ip |-> NoIP]
  /\ UNCHANGED <<kubeVars, cloudVars, tokens>>

\* POST of a new server that is to join server u: created, created but the
\* reply is lost (an error is returned), or refused (a status outside 2xx), as
\* it is for want of quota or with a token that has expired.
SubmitServer(u, created, refused) ==
  \/ \E v \in FreeServers :
       /\ job.auth
       /\ PostServer(v, job.m, u)
       /\ \/ Calm /\ job' = [job EXCEPT !.pc = created, !.vm = v]
          \/ Disturb("lostReply") /\ Return
  \/ /\ IF FreeServers = {} \/ ~job.auth THEN Calm ELSE Disturb("refused")
     /\ Goto(refused)
     /\ UNCHANGED vms

\* A refused create is not an error of CreateVM: it returns nil.
CreateVM ==
  /\ job.pc = "createVM"
  /\ SubmitServer(NoVM, "recordVM", "idle")
  /\ UNCHANGED <<kubeVars, nat, policies, tokens>>

\* Variant of UpdateVMStatus: JoinControlPlane is given the machine itself.
UpdateVMStatusInPlace ==
  /\ job.pc = "recordVM"
  /\ Update(ServerResponse(job.vm, "Creating"),
            IF job.m \in ControlPlanes THEN "idle" ELSE "markJoined")
  /\ UNCHANGED <<secrets, fw, cloudVars, tokens, disturbed>>

\* updateVMStatus with the reply of the create call.  JoinControlPlane works
\* on a copy of the machine: the worker's own object keeps its old version.
UpdateVMStatus ==
  /\ job.pc = "recordVM"
  /\ \/ /\ job.m \in ControlPlanes
        /\ Update(ServerResponse(job.vm, "Creating"), "idle")
     \/ /\ job.m \notin ControlPlanes
        /\ job.fresh
        /\ Put(job.m, ServerResponse(job.vm, "Creating"))
        /\ job' = [job EXCEPT !.pc = "markJoined", !.fresh = FALSE, !.vm = NoVM]
     \/ /\ job.m \notin ControlPlanes
        /\ ~job.fresh
        /\ Return
        /\ UNCHANGED versions
  /\ UNCHANGED <<secrets, fw, cloudVars, tokens, disturbed>>

\* Variant of BootstrapReady: ControlPlaneRef.Status is not looked at.
BootstrapMarked ==
  {m \in ControlPlanes :
     /\ Cached(m) # Gone
     /\ Cached(m).status = "ACTIVE"
     /\ Cached(m).bootstrap}

\* GetBootstrapReadyMachineControlPlane: every ready control plane of the
\* namespace, as the cache shows them.  The cluster is not looked at.
BootstrapReady ==
  {m \in ControlPlanes :
     /\ Cached(m) # Gone
     /\ Cached(m).status = "ACTIVE"
     /\ Cached(m).bootstrap
     /\ Cached(m).ready}

Reachable(m, ip) == Answers(ip, ClusterOf[m] \notin FirewallRules)

\* The cloud accepts a policy with a job and nobody waits for it: the policy
\* may have no effect yet, or never, so that machine m does not answer.
MayBeClosed(m) == ClusterOf[m] \in FirewallRules

\* JoinControlPlane picks the first that answers.  None ready: the reconcile
\* returns.  None of them answers: it panics on an empty list of addresses,
\* and the panic is recovered as an error.
JoinControlPlane ==
  LET candidates == {m \in BootstrapReady : Reachable(m, Cached(m).ip)}
  IN /\ job.pc = "findControlPlane"
     /\ \/ \E m \in candidates :
               job' = [job EXCEPT !.pc = "createWorkerVM", !.vm = Cached(m).id]
        \/ (\A m \in candidates : MayBeClosed(m)) /\ Return
     /\ UNCHANGED <<kubeVars, cloudVars, tokens, disturbed>>

\* As CreateVM; but its caller takes nil for a successful join.
CreateWorkerVM ==
  /\ job.pc = "createWorkerVM"
  /\ SubmitServer(job.vm, "recordVM", "markJoined")
  /\ UNCHANGED <<kubeVars, nat, policies, tokens>>

MarkJoined ==
  /\ job.pc = "markJoined"
  /\ Update([job.obj EXCEPT !.joined = TRUE], "getVM")
  /\ UNCHANGED <<secrets, fw, cloudVars, tokens, disturbed>>

\* GetCreatedVM; without an ID the URL is that of the list of servers, whose
\* reply decodes to an empty status.  An expired token is an error.  A status
\* that differs from the cloud's is replaced as a whole.  (The worker's joined
\* flag, set in memory before the comparison, is either replaced with it or
\* not written at all.)
GetCreatedVM ==
  LET server == IF job.obj.id = NoVM THEN NewStatus
                ELSE ServerResponse(job.obj.id, vms[job.obj.id].state)
  IN /\ job.pc = "getVM"
     /\ IF ~job.auth THEN Return
        ELSE IF job.obj.status # server.status
        THEN Continue("syncStatus", server)
        ELSE Goto(NetworkStep(job.m, job.obj))
     /\ UNCHANGED <<kubeVars, cloudVars, tokens, disturbed>>

SyncStatus ==
  /\ job.pc = "syncStatus"
  /\ Update(job.obj, NetworkStep(job.m, job.obj))
  /\ UNCHANGED <<secrets, fw, cloudVars, tokens, disturbed>>

\* Variant of AttachPublicIP: the error of a lost reply is only logged.
AttachPublicIPSwallowsError ==
  /\ job.pc = "attachIP"
  /\ \/ \E p \in FreeIPs :
          /\ job.auth
          /\ PostStaticNat(p, job.obj.id)
          /\ \/ Calm /\ job' = [job EXCEPT !.pc = "recordIP", !.ip = p]
             \/ Disturb("lostReply") /\ Goto("markBootstrap")
     \/ /\ FreeIPs = {} \/ ~job.auth
        /\ Return /\ Calm /\ UNCHANGED nat
  /\ UNCHANGED <<kubeVars, vms, policies, tokens>>

\* AttachPublicIP up to its POST: the first available IP of the account, in
\* the cloud's order, is paired with the private address of the server.  (The
\* list and the POST are one step: the controller has one worker, and nobody
\* else pairs the IPs of the account.)
AttachPublicIP ==
  /\ job.pc = "attachIP"
  /\ \/ \E p \in FreeIPs :
          /\ job.auth
          /\ PostStaticNat(p, job.obj.id)
          /\ \/ Calm /\ job' = [job EXCEPT !.pc = "recordIP", !.ip = p]
             \/ Disturb("lostReply") /\ Return
     \/ /\ FreeIPs = {} \/ ~job.auth
        /\ Return /\ Calm /\ UNCHANGED nat
  /\ UNCHANGED <<kubeVars, vms, policies, tokens>>

\* Variant of RecordPublicIP: the firewall is left for later.
RecordPublicIPSkipsFirewall ==
  /\ job.pc = "recordIP"
  /\ Update([job.obj EXCEPT !.ip = job.ip], "markBootstrap")
  /\ UNCHANGED <<secrets, fw, cloudVars, tokens, disturbed>>

\* updateVMStatus with the IP appended; then the firewall, if it is wanted.
RecordPublicIP ==
  /\ job.pc = "recordIP"
  /\ Update([job.obj EXCEPT !.ip = job.ip],
            IF ClusterOf[job.m] \in FirewallRules THEN "addFirewall"
                                                  ELSE "markBootstrap")
  /\ UNCHANGED <<secrets, fw, cloudVars, tokens, disturbed>>

\* AddFirewallSettings up to its POST.  The reply is that of a job, whose end
\* is not waited for (the call of GetNetworkingJobId is a comment).
AddFirewallSettings ==
  /\ job.pc = "addFirewall"
  /\ \/ /\ job.auth
        /\ PostPolicy(job.obj.ip)
        /\ \/ Calm /\ Goto("createFirewall")
           \/ Disturb("lostReply") /\ Return
     \/ ~job.auth /\ Return /\ Calm /\ UNCHANGED policies
  /\ UNCHANGED <<kubeVars, vms, nat, tokens>>

\* createFirewallObjectInK8s.  Only the status of an existing object is
\* written: the rule appended to its spec is lost.
CreateFirewallObject ==
  LET ip == job.obj.ip
  IN /\ job.pc = "createFirewall"
     /\ \/ /\ ~fw[job.m].exists
           /\ fw' = [fw EXCEPT ![job.m] =
                       [exists |-> TRUE, rules |-> {ip}, jobs |-> {}]]
           /\ Goto("recordJob")
        \/ /\ fw[job.m].exists
           /\ fw' = [fw EXCEPT ![job.m].jobs = @ \cup {ip}]
           /\ Goto("markBootstrap")
     /\ UNCHANGED <<versions, secrets, cloudVars, tokens, disturbed>>

\* The status of the object just created, written after it was read back.
RecordFirewallJob ==
  /\ job.pc = "recordJob"
  /\ \/ /\ fw[job.m].exists
        /\ fw' = [fw EXCEPT ![job.m].jobs = @ \cup {job.obj.ip}]
        /\ Goto("markBootstrap")
     \/ ~fw[job.m].exists /\ Return /\ UNCHANGED fw
  /\ UNCHANGED <<versions, secrets, cloudVars, tokens, disturbed>>

MarkBootstrap ==
  LET obj == [job.obj EXCEPT !.bootstrap = TRUE, !.ready = FALSE]
  IN /\ job.pc = "markBootstrap"
     /\ Update(obj, NetworkStep(job.m, obj))
     /\ UNCHANGED <<secrets, fw, cloudVars, tokens, disturbed>>

CheckControlPlaneMachineReady ==
  /\ job.pc = "probe"
  /\ \/ Reachable(job.m, job.obj.ip) /\ Goto("createSecret")
     \/ (~Reachable(job.m, job.obj.ip) \/ MayBeClosed(job.m)) /\ Return
  /\ UNCHANGED <<kubeVars, cloudVars, tokens, disturbed>>

\* Variant of FetchAndCreateKubeconfigSecret: an existing secret is replaced.
CreateOrReplaceSecret ==
  /\ job.pc = "createSecret"
  /\ IF Reachable(job.m, job.obj.ip)
     THEN /\ secrets' = [secrets EXCEPT ![ClusterOf[job.m]] = job.m]
          /\ Goto("markReady")
     ELSE Return /\ UNCHANGED secrets
  /\ UNCHANGED <<versions, fw, cloudVars, tokens, disturbed>>

\* Variant: "already exists" is taken for success.
CreateSecretOnce ==
  LET c == ClusterOf[job.m]
  IN /\ job.pc = "createSecret"
     /\ IF Reachable(job.m, job.obj.ip)
        THEN /\ secrets' = [secrets EXCEPT ![c] =
                              IF @ = NoMachine THEN job.m ELSE @]
             /\ Goto("markReady")
        ELSE Return /\ UNCHANGED secrets
     /\ UNCHANGED <<versions, fw, cloudVars, tokens, disturbed>>

\* The kubeconfig is fetched (24 attempts, then an error) and the secret
\* created; a secret that exists already is an error.
FetchAndCreateKubeconfigSecret ==
  LET c == ClusterOf[job.m]
  IN /\ job.pc = "createSecret"
     /\ \/ /\ Reachable(job.m, job.obj.ip)
           /\ secrets[c] = NoMachine
           /\ secrets' = [secrets EXCEPT ![c] = job.m]
           /\ Goto("markReady")
        \/ /\ \/ ~Reachable(job.m, job.obj.ip)
              \/ MayBeClosed(job.m)
              \/ secrets[c] # NoMachine
           /\ Return
           /\ UNCHANGED secrets
     /\ UNCHANGED <<versions, fw, cloudVars, tokens, disturbed>>

MarkReady ==
  /\ job.pc = "markReady"
  /\ Update([job.obj EXCEPT !.bootstrap = TRUE, !.ready = TRUE], "idle")
  /\ UNCHANGED <<secrets, fw, cloudVars, tokens, disturbed>>

\* A call fails before it has an effect; every such error ends the reconcile.
CallFails ==
  /\ job # Idle
  /\ Disturb("callFails")
  /\ Return
  /\ UNCHANGED <<kubeVars, cloudVars, tokens>>

JobStep ==
  \/ CreateVM \/ UpdateVMStatus
  \/ JoinControlPlane \/ CreateWorkerVM \/ MarkJoined
  \/ GetCreatedVM \/ SyncStatus
  \/ AttachPublicIP \/ RecordPublicIP
  \/ AddFirewallSettings \/ CreateFirewallObject \/ RecordFirewallJob
  \/ MarkBootstrap
  \/ CheckControlPlaneMachineReady \/ FetchAndCreateKubeconfigSecret \/ MarkReady

-----------------------------------------------------------------------------
(* What happens around a reconcile *)

\* The user applies the KTSubjectToken of the cluster, for the first time or
\* because the last token has expired; a running reconcile keeps the old one.
SupplyToken(c) ==
  /\ tokens[c] # "valid"
  /\ tokens' = [tokens EXCEPT ![c] = "valid"]
  /\ UNCHANGED <<kubeVars, cloudVars, job, disturbed>>

\* The token expires at the cloud, also for a reconcile that has read it.
ExpireToken(c) ==
  /\ tokens[c] = "valid"
  /\ Disturb("expire")
  /\ tokens' = [tokens EXCEPT ![c] = "expired"]
  /\ job' = IF job # Idle /\ ClusterOf[job.m] = c
            THEN [job EXCEPT !.auth = FALSE] ELSE job
  /\ UNCHANGED <<kubeVars, cloudVars>>

\* "if it already exits before cluster creation, delete it"
DeleteLeftover(c) ==
  /\ secrets[c] = Leftover
  /\ secrets' = [secrets EXCEPT ![c] = NoMachine]
  /\ UNCHANGED <<versions, fw, cloudVars, tokens, job, disturbed>>

WatchEvent(m) ==
  /\ Deliver(m)
  /\ UNCHANGED <<secrets, fw, cloudVars, tokens, job, disturbed>>

\* Somebody else writes m (obj): the copy of a running reconcile is outdated.
OutsideWrite(m, obj) ==
  /\ Exists(m)
  /\ Put(m, obj)
  /\ job' = IF job.m = m THEN [job EXCEPT !.fresh = FALSE] ELSE job
  /\ UNCHANGED <<secrets, fw, cloudVars, tokens>>

\* The spec or the labels of m are edited; its status stays.
UserEdit(m) == Disturb("edit") /\ OutsideWrite(m, Stored(m))

\* m is deleted, by the user or with its owner.  The finalizer is disabled.
DeleteMachine(m) == Disturb("delete") /\ OutsideWrite(m, Gone)

\* The garbage collector removes the firewall object of a deleted machine.
CollectFirewall(m) ==
  /\ ~Exists(m)
  /\ fw[m].exists
  /\ fw' = [fw EXCEPT ![m] = NoFirewall]
  /\ UNCHANGED <<versions, secrets, cloudVars, tokens, job, disturbed>>

\* The manager dies and another takes over, with an empty queue.
Crash ==
  /\ Disturb("crash")
  /\ Return
  /\ Resync
  /\ UNCHANGED <<secrets, fw, cloudVars, tokens>>

Cloud(v) ==
  /\ \/ (BuildServer(v) \/ ServeKubeconfig(v) \/ RestartServer(v)) /\ Calm
     \/ StopServer(v) /\ Disturb("stop")
  /\ UNCHANGED <<kubeVars, tokens, job>>

Next ==
  \/ \E m \in Machines : Reconcile(m)
  \/ JobStep
  \/ CallFails
  \/ Crash
  \/ \E m \in Machines :
       WatchEvent(m) \/ UserEdit(m) \/ DeleteMachine(m) \/ CollectFirewall(m)
  \/ \E c \in Clusters : SupplyToken(c) \/ ExpireToken(c) \/ DeleteLeftover(c)
  \/ \E v \in VMs : Cloud(v)

Spec == Init /\ [][Next]_vars

-----------------------------------------------------------------------------
(* Fairness *)

\* A server is built, runs its user data and is started again if it stopped.
CloudProgress(v) ==
  /\ BuildServer(v) \/ ServeKubeconfig(v) \/ RestartServer(v)
  /\ Calm
  /\ UNCHANGED <<kubeVars, tokens, job>>

\* A running reconcile ends (every call has a timeout).  The queue is FIFO and
\* every reconcile of an existing machine queues it again, so a machine that
\* can be reconciled again and again is (SF).  The watch delivers, the cloud
\* acts, and the user does what the README asks for.
Fairness ==
  /\ WF_vars(JobStep)
  /\ \A m \in Machines : SF_vars(Reconcile(m)) /\ WF_vars(WatchEvent(m))
  /\ \A c \in Clusters : WF_vars(SupplyToken(c)) /\ WF_vars(DeleteLeftover(c))
  /\ \A v \in VMs : WF_vars(CloudProgress(v))

FairSpec == Spec /\ Fairness

-----------------------------------------------------------------------------
(* Properties *)

\* Every variable has its type; no object is without a version; and the job
\* is either idle or a complete reconcile.
TypeOK ==
  /\ versions \in [Machines -> Seq(Status \cup {Gone})]
  /\ \A m \in Machines : versions[m] # <<>>
  /\ vms \in [VMs -> [owner : Machines \cup {NoMachine}, state : VMStates,
                      serving : BOOLEAN, joins : VMs \cup {NoVM}]]
  /\ nat \in [PublicIPs -> VMs \cup {NoVM}]
  /\ policies \subseteq PublicIPs
  /\ tokens \in [Clusters -> Tokens]
  /\ secrets \in [Clusters -> Machines \cup {NoMachine, Leftover}]
  /\ fw \in [Machines -> Firewall]
  /\ job \in Job \cup {Idle}
  /\ disturbed \in 0..MaxDisturbances

ReadyControlPlanes(c) ==
  {m \in Machines : ClusterOf[m] = c /\ Exists(m) /\ Stored(m).ready}

\* A cluster never has two control planes with ControlPlaneRef.Status true:
\* the create of the kubeconfig secret, which fails when the secret exists,
\* is the lock that only one of them passes.
OneReadyControlPlane ==
  \A c \in Clusters :
    \A m1, m2 \in ReadyControlPlanes(c) : m1 = m2

\* AssignedPublicIps[0] is read without a look at the length of the list:
\* neither CheckControlPlaneMachineReady nor FetchAndCreateKubeconfigSecret
\* panics on it, however often the status was replaced.  They read it in the
\* copy of the running reconcile; and the former also in every control plane
\* that JoinControlPlane is given, which is any version the cache shows with
\* the BootstrapReady mark.  (JoinControlPlane's own read does panic, when none
\* of them answers.)
BootstrapHasIP ==
  /\ job.pc \in {"probe", "createSecret"} => job.obj.ip # NoIP
  /\ \A m \in Machines : \A i \in DOMAIN versions[m] :
       versions[m][i] # Gone /\ versions[m][i].bootstrap
         => versions[m][i].ip # NoIP

\* A control plane is marked BootstrapReady only once the cloud has accepted a
\* firewall policy for its present public IP, and with the policy's job
\* recorded in its KTNetworkFirewall object (so that a later delete can find
\* the policy).  Whether the job succeeds is not looked at by anybody.
FirewallBeforeBootstrap ==
  \A m \in Machines :
    Exists(m) /\ Stored(m).bootstrap /\ ClusterOf[m] \in FirewallRules
      => Stored(m).ip \in policies \cap fw[m].jobs

\* The public IP a machine records leads to the server it records, and that
\* server was created for it: two machines never share a server or an IP.
RecordedIPRoutesHome ==
  \A m \in Machines :
    Exists(m) /\ Stored(m).ip # NoIP
      => /\ nat[Stored(m).ip] = Stored(m).id
         /\ vms[Stored(m).id].owner = m

\* A worker's server is created only to join the server of a control plane
\* that holds the kubeconfig secret of its cluster: nobody joins a server
\* that was not bootstrapped, also when the list read from the cache is old.
JoinTargetBootstrapped ==
  \A v \in VMs :
    vms[v].joins # NoVM
      => \E m \in ControlPlanes :
           /\ vms[vms[v].joins].owner = m
           /\ secrets[ClusterOf[m]] = m

\* The server a machine records is never exchanged for another one or
\* forgotten, whatever duplicate servers were created for it meanwhile.
IdStable ==
  [][\A m \in Machines :
       Exists(m) /\ Stored(m).id # NoVM
         => ~Exists(m)' \/ Stored(m)'.id = Stored(m).id]_vars

\* A stored joined flag is the end of a worker: it is written only when the
\* create call was refused, and then no later reconcile, old or new, changes
\* the status again.
JoinedIsFinal ==
  [][\A m \in Machines :
       Exists(m) /\ Stored(m).joined
         => ~Exists(m)' \/ Stored(m)' = Stored(m)]_vars

-----------------------------------------------------------------------------
(* The lock that the kubeconfig secret is *)

Holder(c) == IF secrets[c] = Leftover THEN NoMachine ELSE secrets[c]

Phase(c) ==
  LET m == Holder(c)
  IN IF m = NoMachine THEN "free"
     ELSE IF Exists(m) /\ Stored(m).ready THEN "announced"
     ELSE IF job.pc = "markReady" /\ job.m = m /\ job.fresh THEN "claimed"
     ELSE "spent"

Lock == INSTANCE BootstrapLock WITH
          holder <- [c \in Clusters |-> Holder(c)],
          phase <- [c \in Clusters |-> Phase(c)]

\* The controller implements BootstrapLock: a cluster's ready control plane is
\* announced at most once and only by the machine whose kubeconfig the secret
\* holds; once its status was replaced (after a stop of its server), or its
\* reconcile ended between the secret and MarkReady, no control plane of the
\* cluster is ever ready again.
ImplementsBootstrapLock == Lock!Spec

-----------------------------------------------------------------------------
(* What documents and comments of the repository say, and the code does not *)

\* "this is for worker nodes to make sure it joined its respective cluster"
\* (ktmachine_types.go): a worker marked as joined has a server.
JoinedWorkerHasServer ==
  \A m \in Machines :
    Exists(m) /\ Stored(m).joined => Stored(m).id # NoVM

\* "we have to get one control-plane machine associated with the cluster"
\* (reconcileInfrastructure): a worker joins a server of its own cluster.
WorkerJoinsOwnCluster ==
  \A v \in VMs :
    vms[v].joins # NoVM
      => ClusterOf[vms[v].owner] = ClusterOf[vms[vms[v].joins].owner]

\* "if it exists and the job id is different, update the object"
\* (createFirewallObjectInK8s): every job recorded has its rule recorded.
EveryJobHasItsRule ==
  \A m \in Machines : fw[m].jobs \subseteq fw[m].rules

\* "don't worry the reconciler is just checking the CP, it will reconcile to
\* check if the API server is ready on port 8000" (README.md): a control plane
\* that has its public IP is checked again and again until it is ready.
CheckedUntilReady ==
  \A m \in ControlPlanes :
    []<>(Exists(m) /\ Stored(m).ip # NoIP
           => Stored(m).ready \/ (job.pc = "probe" /\ job.m = m))
=============================================================================
