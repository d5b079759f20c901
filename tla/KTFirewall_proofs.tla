-------------------------- MODULE KTFirewall_proofs --------------------------
(***************************************************************************)
(* FirewallBeforeBootstrap, for every instance of KTMachine.               *)
(*                                                                         *)
(* On top of IInv, WallInv says of every version the cache may show and of *)
(* the copy of a running reconcile that what it marks as BootstrapReady is *)
(* behind its wall: the policy and the recorded job of its public IP.      *)
(* Policies are never removed, and a firewall object only after its        *)
(* machine, which never comes back (Growing).                              *)
(***************************************************************************)
EXTENDS KTMachine_proofs

Walled(m, ip) == ip \in policies \cap fw[m].jobs

Guarded(m) == Exists(m) /\ ClusterOf[m] \in FirewallRules

ShownWalled ==
  \A m \in Machines : Guarded(m) =>
    \A o \in Shown(m) : o # Gone /\ o.bootstrap => Walled(m, o.ip)

\* What a reconcile j of a guarded machine knows at its step.
JobWalled(j) ==
  Guarded(j.m) =>
    /\ j.obj.bootstrap => Walled(j.m, j.obj.ip)
    /\ j.pc \in {"attachIP", "recordIP"} => ~j.obj.bootstrap
    /\ j.pc \in {"createFirewall", "recordJob"} => j.obj.ip \in policies
    /\ j.pc = "markBootstrap" => Walled(j.m, j.obj.ip)

FirewallsMade == \A m \in Machines : fw[m].exists \/ fw[m] = NoFirewall

WallInv ==
  /\ FirewallsMade
  /\ ShownWalled
  /\ job # Idle => JobWalled(job)

-----------------------------------------------------------------------------
(* What a step leaves standing *)

Growing ==
  /\ policies \subseteq policies'
  /\ \A m \in Machines :
       Exists(m)' => Exists(m) /\ fw[m].jobs \subseteq fw'[m].jobs

\* A write of a reconcile: its machine exists, since its copy is fresh.
LEMMA FreshExists ==
  ASSUME IInv, job.pc \in Steps, job.fresh
  PROVE  Exists(job.m)
BY RunningJob DEF FreshSound, Exists

LEMMA JobStepExists ==
  ASSUME IInv, JobStep, NEW m \in Machines, Exists(m)'
  PROVE  Exists(m)
<1>1. CASE versions'[m] = versions[m]
  BY <1>1 DEF Exists, Stored
<1>2. CASE versions'[m] # versions[m]
  BY <1>2, JobStepWrites, FreshExists
<1>. QED
  BY <1>1, <1>2

LEMMA NextExists ==
  ASSUME IInv, [Next]_vars, NEW m \in Machines, Exists(m)'
  PROVE  Exists(m)
<1>1. CASE JobStep
  BY <1>1, JobStepExists
<1>2. CASE Crash
  BY <1>2, ResyncLemma DEF Crash, IInv, Exists
<1>3. ASSUME NEW n \in Machines, WatchEvent(n)
      PROVE  Exists(m)
  <2>1. Deliver(n)
    BY <1>3 DEF WatchEvent
  <2>2. Stored(n)' = Stored(n) /\ \A k \in Machines \ {n} : versions'[k] = versions[k]
    BY <2>1, DeliverLemma DEF IInv
  <2>. QED
    BY <2>2 DEF Stored, Exists
<1>4. ASSUME NEW n \in Machines, UserEdit(n) \/ DeleteMachine(n)
      PROVE  Exists(m)
  <2>1. Exists(n) /\ \E obj : Put(n, obj)
    BY <1>4 DEF UserEdit, DeleteMachine, OutsideWrite
  <2>2. m # n => versions'[m] = versions[m]
    BY <2>1 DEF Put, IInv, TypeOK
  <2>. QED
    BY <2>1, <2>2 DEF Stored, Exists
<1>5. CASE UNCHANGED versions
  BY <1>5 DEF Stored, Exists
<1>. QED
  BY <1>1, <1>2, <1>3, <1>4, <1>5
  DEF Next, vars, Reconcile, CallFails, CollectFirewall, SupplyToken,
      ExpireToken, DeleteLeftover, Cloud, kubeVars

LEMMA FirewallObjectGrows ==
  ASSUME IInv, FirewallsMade, CreateFirewallObject \/ RecordFirewallJob
  PROVE  /\ FirewallsMade'
         /\ \A m \in Machines : fw[m].jobs \subseteq fw'[m].jobs
         /\ job' = Idle \/ job.obj.ip \in fw'[job.m].jobs \/ job'.pc = "recordJob"
<1>1. job.m \in Machines /\ job \in Job
  BY RunningJob DEF CreateFirewallObject, RecordFirewallJob, Steps
<1>2. fw[job.m] \in Firewall /\ fw \in [Machines -> Firewall]
  BY <1>1 DEF IInv, TypeOK
<1>3. CASE UNCHANGED fw /\ job' = Idle
  BY <1>3 DEF FirewallsMade
<1>4. CASE /\ ~fw[job.m].exists
           /\ fw' = [fw EXCEPT ![job.m] =
                       [exists |-> TRUE, rules |-> {job.obj.ip}, jobs |-> {}]]
           /\ job'.pc = "recordJob"
  <2>1. fw[job.m].jobs = {}
    BY <1>1, <1>4 DEF FirewallsMade, NoFirewall
  <2>. QED
    BY <1>1, <1>2, <1>4, <2>1 DEF FirewallsMade
<1>5. CASE /\ fw[job.m].exists
           /\ fw' = [fw EXCEPT ![job.m].jobs = @ \cup {job.obj.ip}]
  <2>1. fw'[job.m].exists /\ fw'[job.m].jobs = fw[job.m].jobs \cup {job.obj.ip}
    BY <1>1, <1>2, <1>5 DEF Firewall
  <2>2. \A m \in Machines \ {job.m} : fw'[m] = fw[m]
    BY <1>1, <1>2, <1>5
  <2>. QED
    BY <1>1, <2>1, <2>2 DEF FirewallsMade
<1>6. job'.pc = "recordJob" \/ ~Goto("recordJob")
  BY <1>1 DEF Goto, Continue, Job
<1>. QED
  BY <1>3, <1>4, <1>5, <1>6
  DEF CreateFirewallObject, RecordFirewallJob, Return

LEMMA StepGrows ==
  ASSUME IInv, FirewallsMade, [Next]_vars
  PROVE  Growing /\ FirewallsMade'
<1>1. \A m \in Machines : Exists(m)' => Exists(m)
  BY NextExists
<1>2. policies \subseteq policies'
  BY DEF Next, vars, Reconcile, JobStep, CallFails, Crash, WatchEvent, UserEdit,
         DeleteMachine, OutsideWrite, CollectFirewall, SupplyToken, ExpireToken,
         DeleteLeftover, Cloud, BuildServer, ServeKubeconfig, RestartServer,
         StopServer, CreateVM, UpdateVMStatus, JoinControlPlane, CreateWorkerVM,
         MarkJoined, GetCreatedVM, SyncStatus, AttachPublicIP, RecordPublicIP,
         AddFirewallSettings, PostPolicy, CreateFirewallObject,
         RecordFirewallJob, MarkBootstrap, CheckControlPlaneMachineReady,
         FetchAndCreateKubeconfigSecret, MarkReady, kubeVars, cloudVars
<1>3. CASE CreateFirewallObject \/ RecordFirewallJob
  BY <1>1, <1>2, <1>3, FirewallObjectGrows DEF Growing
<1>4. CASE UNCHANGED fw
  BY <1>1, <1>2, <1>4 DEF Growing, FirewallsMade
<1>5. ASSUME NEW n \in Machines, CollectFirewall(n)
      PROVE  Growing /\ FirewallsMade'
  <2>1. ~Exists(n) /\ fw' = [fw EXCEPT ![n] = NoFirewall]
    BY <1>5 DEF CollectFirewall
  <2>2. fw'[n] = NoFirewall /\ \A m \in Machines \ {n} : fw'[m] = fw[m]
    BY <2>1 DEF IInv, TypeOK
  <2>. QED
    BY <1>1, <1>2, <2>1, <2>2 DEF Growing, FirewallsMade
<1>. QED
  BY <1>3, <1>4, <1>5
  DEF Next, vars, Reconcile, JobStep, CallFails, Crash, WatchEvent, UserEdit,
      DeleteMachine, OutsideWrite, SupplyToken, ExpireToken,
      DeleteLeftover, Cloud, CreateVM, UpdateVMStatus, JoinControlPlane,
      CreateWorkerVM, MarkJoined, GetCreatedVM, SyncStatus, AttachPublicIP,
      RecordPublicIP, AddFirewallSettings, MarkBootstrap,
      CheckControlPlaneMachineReady, FetchAndCreateKubeconfigSecret, MarkReady,
      kubeVars

-----------------------------------------------------------------------------
(* How WallInv is re-established *)

LEMMA WallKept ==
  ASSUME Growing, NEW m \in Machines, Guarded(m)', NEW ip, Walled(m, ip)
  PROVE  Walled(m, ip)'
BY DEF Growing, Guarded, Walled

LEMMA GuardKept ==
  ASSUME Growing, NEW m \in Machines, Guarded(m)'
  PROVE  Guarded(m)
BY DEF Growing, Guarded

\* Each version shown after the step was shown before, or is walled.
LEMMA ShownKept ==
  ASSUME ShownWalled, Growing,
         \A m \in Machines : Guarded(m)' =>
           \A o \in Shown(m)' :
             o \in Shown(m) \/ o = Gone \/ ~o.bootstrap \/ Walled(m, o.ip)
  PROVE  ShownWalled'
<1>. SUFFICES ASSUME NEW m \in Machines, Guarded(m)',
                     NEW o \in Shown(m)', o # Gone, o.bootstrap
              PROVE  Walled(m, o.ip)'
  BY DEF ShownWalled
<1>1. Guarded(m)
  BY GuardKept
<1>2. Walled(m, o.ip)
  BY <1>1 DEF ShownWalled
<1>. QED
  BY <1>2, WallKept

LEMMA JobWallKept ==
  ASSUME Growing, NEW j, j.m \in Machines, JobWalled(j)
  PROVE  JobWalled(j)'
<1>. SUFFICES ASSUME Guarded(j.m)'
              PROVE  /\ j.obj.bootstrap => Walled(j.m, j.obj.ip)'
                     /\ j.pc \in {"attachIP", "recordIP"} => ~j.obj.bootstrap
                     /\ j.pc \in {"createFirewall", "recordJob"} => j.obj.ip \in policies'
                     /\ j.pc = "markBootstrap" => Walled(j.m, j.obj.ip)'
  BY DEF JobWalled
<1>1. Guarded(j.m)
  BY GuardKept
<1>2. \A ip : Walled(j.m, ip) => Walled(j.m, ip)'
  BY WallKept
<1>. QED
  BY <1>1, <1>2 DEF JobWalled, Growing

\* The steps after which the cache shows no version that it did not show.
LEMMA MoveWalled ==
  ASSUME WallInv, Growing, FirewallsMade',
         \A m \in Machines : Shown(m)' \subseteq Shown(m),
         job' # Idle => JobWalled(job)'
  PROVE  WallInv'
<1>1. ShownWalled'
  BY ShownKept DEF WallInv
<1>. QED
  BY <1>1 DEF WallInv

\* A reconcile goes on to step pc with the copy it has.
LEMMA GotoWalled ==
  ASSUME IInv, WallInv, Growing, FirewallsMade', UNCHANGED versions,
         job.pc \in Steps,
         NEW j \in Job, job' = j, j.m = job.m, j.obj = job.obj,
         j.pc = "attachIP" => ~j.obj.bootstrap,
         j.pc = "recordIP" => job.pc = "attachIP",
         j.pc \in {"createFirewall", "recordJob"} => j.obj.ip \in policies',
         Guarded(j.m)' /\ j.pc = "markBootstrap" => Walled(j.m, j.obj.ip)'
  PROVE  WallInv'
<1>1. job # Idle /\ job.m \in Machines
  BY RunningJob
<1>2. \A m \in Machines : Shown(m)' = Shown(m)
  BY DEF Shown
<1>3. JobWalled(j)'
  <2>1. SUFFICES ASSUME Guarded(j.m)'
                 PROVE  /\ j.obj.bootstrap => Walled(j.m, j.obj.ip)'
                        /\ j.pc = "recordIP" => ~j.obj.bootstrap
    BY DEF JobWalled
  <2>2. Guarded(job.m)
    BY <1>1, <2>1, GuardKept
  <2>3. /\ job.obj.bootstrap => Walled(job.m, job.obj.ip)
        /\ job.pc = "attachIP" => ~job.obj.bootstrap
    BY <1>1, <2>2 DEF WallInv, JobWalled
  <2>. QED
    BY <1>1, <2>1, <2>3, WallKept
<1>. QED
  BY <1>2, <1>3, MoveWalled

\* A status update, successful or refused, and what follows it.
LEMMA UpdateWalled ==
  ASSUME IInv, WallInv, Growing, FirewallsMade', job.pc \in Steps,
         NEW obj \in Status, NEW pc \in Steps \cup {"idle"}, Update(obj, pc),
         pc \notin {"recordIP", "createFirewall", "recordJob"},
         Guarded(job.m) =>
           /\ obj.bootstrap \/ pc = "markBootstrap" => Walled(job.m, obj.ip)
           /\ pc = "attachIP" => ~obj.bootstrap
  PROVE  WallInv'
<1>1. job # Idle /\ job \in Job /\ job.m \in Machines
  BY RunningJob
<1>2. CASE UNCHANGED versions /\ Return
  BY <1>2, MoveWalled DEF Return, Shown
<1>3. CASE Put(job.m, obj) /\ Continue(pc, obj)
  <2>1. PICK n \in Machines : n = job.m
    BY <1>1
  <2>2. Put(n, obj)
    BY <1>3, <2>1
  <2>3. /\ Shown(n)' = Shown(n) \cup {obj}
        /\ \A k \in Machines \ {n} : versions'[k] = versions[k]
    BY <2>2, PutLemma DEF IInv
  <2>4. \A k \in Machines \ {n} : Shown(k)' = Shown(k)
    BY <2>3 DEF Shown
  <2>5. ShownWalled'
    <3>1. Guarded(n)' /\ obj.bootstrap => Walled(n, obj.ip)
      BY <2>1, GuardKept
    <3>. QED
      BY <2>3, <2>4, <3>1, ShownKept DEF WallInv
  <2>6. CASE pc = "idle"
    BY <1>3, <2>5, <2>6 DEF WallInv, Continue, Return
  <2>7. CASE pc # "idle"
    <3>1. PICK j \in Job : j = [job EXCEPT !.pc = pc, !.obj = obj]
      BY <1>1, <2>7 DEF Job
    <3>2. job' = j /\ j.m = n /\ j.obj = obj /\ j.pc = pc
      BY <1>1, <1>3, <2>1, <2>7, <3>1 DEF Continue, Job
    <3>3. JobWalled(j)
      BY <2>1, <3>2 DEF JobWalled
    <3>4. JobWalled(j)'
      BY <3>2, <3>3, JobWallKept
    <3>. QED
      BY <2>5, <3>2, <3>4 DEF WallInv
  <2>. QED
    BY <2>6, <2>7
<1>. QED
  BY <1>2, <1>3 DEF Update

-----------------------------------------------------------------------------
(* The steps of a reconcile *)

LEMMA NetworkStepCases ==
  ASSUME NEW m, NEW obj
  PROVE  /\ NetworkStep(m, obj) \in {"idle", "attachIP", "probe"}
         /\ NetworkStep(m, obj) = "attachIP" => obj.ip = NoIP
BY DEF NetworkStep

LEMMA UpdatesWalled ==
  ASSUME IInv, WallInv, Growing, FirewallsMade',
         MarkJoined \/ SyncStatus \/ RecordPublicIP \/ MarkBootstrap \/ MarkReady
  PROVE  WallInv'
<1>1. job.pc \in Steps
  BY DEF MarkJoined, SyncStatus, RecordPublicIP, MarkBootstrap, MarkReady, Steps
<1>2. /\ job \in Job /\ job # Idle /\ job.m \in Machines /\ job.obj \in Status
      /\ Sound(job.m, job.obj) /\ StepSound(job)
  BY <1>1, RunningJob
<1>3. Guarded(job.m) => /\ job.obj.bootstrap => Walled(job.m, job.obj.ip)
                        /\ job.pc = "recordIP" => ~job.obj.bootstrap
                        /\ job.pc = "markBootstrap" => Walled(job.m, job.obj.ip)
  BY <1>2 DEF WallInv, JobWalled
<1>4. CASE MarkJoined
  <2>1. PICK obj \in Status : obj = [job.obj EXCEPT !.joined = TRUE]
    BY <1>2 DEF Status
  <2>2. obj.bootstrap = job.obj.bootstrap /\ obj.ip = job.obj.ip
    BY <1>2, <2>1 DEF Status
  <2>. QED
    BY <1>1, <1>3, <1>4, <2>1, <2>2, UpdateWalled DEF MarkJoined, Steps
<1>5. CASE SyncStatus
  <2>1. PICK pc \in {"idle", "attachIP", "probe"} :
          pc = NetworkStep(job.m, job.obj)
    BY NetworkStepCases
  <2>2. Update(job.obj, pc)
    BY <1>5, <2>1 DEF SyncStatus
  <2>3. pc = "attachIP" => ~job.obj.bootstrap
    BY <1>2, <2>1, NetworkStepCases DEF Sound
  <2>4. pc \in Steps \cup {"idle"}
        /\ pc \notin {"recordIP", "createFirewall", "recordJob", "markBootstrap"}
    BY DEF Steps
  <2>. QED
    BY <1>1, <1>2, <1>3, <2>2, <2>3, <2>4, UpdateWalled
<1>6. CASE RecordPublicIP
  <2>1. PICK obj \in Status : obj = [job.obj EXCEPT !.ip = job.ip]
    BY <1>2 DEF Status, Job
  <2>2. obj.bootstrap = job.obj.bootstrap
    BY <1>2, <2>1 DEF Status
  <2>3. PICK pc \in {"addFirewall", "markBootstrap"} :
          /\ Update(obj, pc)
          /\ pc = "markBootstrap" => ClusterOf[job.m] \notin FirewallRules
    BY <1>6, <2>1 DEF RecordPublicIP
  <2>4. Guarded(job.m) => ~obj.bootstrap /\ pc # "markBootstrap"
    BY <1>3, <1>6, <2>2, <2>3 DEF RecordPublicIP, Guarded
  <2>5. pc \in Steps \cup {"idle"}
        /\ pc \notin {"recordIP", "createFirewall", "recordJob", "attachIP"}
    BY DEF Steps
  <2>. QED
    BY <1>1, <2>3, <2>4, <2>5, UpdateWalled
<1>7. CASE MarkBootstrap
  <2>1. PICK obj \in Status :
          obj = [job.obj EXCEPT !.bootstrap = TRUE, !.ready = FALSE]
    BY <1>2 DEF Status
  <2>2. obj.ip = job.obj.ip /\ obj.ip # NoIP
    BY <1>2, <1>7, <2>1 DEF Status, MarkBootstrap, StepSound
  <2>3. PICK pc \in {"idle", "attachIP", "probe"} : pc = NetworkStep(job.m, obj)
    BY NetworkStepCases
  <2>4. Update(obj, pc) /\ job.pc = "markBootstrap"
    BY <1>7, <2>1, <2>3 DEF MarkBootstrap
  <2>5. pc \in Steps \cup {"idle"} /\ pc \notin {"recordIP", "createFirewall",
          "recordJob", "markBootstrap", "attachIP"}
    BY <2>2, <2>3, NetworkStepCases DEF Steps
  <2>. QED
    BY <1>1, <1>3, <2>2, <2>4, <2>5, UpdateWalled
<1>8. CASE MarkReady
  <2>1. PICK obj \in Status :
          obj = [job.obj EXCEPT !.bootstrap = TRUE, !.ready = TRUE]
    BY <1>2 DEF Status
  <2>2. obj.ip = job.obj.ip /\ job.obj.bootstrap
    BY <1>2, <1>8, <2>1 DEF Status, MarkReady, StepSound
  <2>. QED
    BY <1>1, <1>3, <1>8, <2>1, <2>2, UpdateWalled DEF MarkReady, Steps
<1>. QED
  BY <1>4, <1>5, <1>6, <1>7, <1>8

\* The status of a server just created marks nothing.
LEMMA UpdateVMStatusWalled ==
  ASSUME IInv, WallInv, Growing, FirewallsMade', UpdateVMStatus
  PROVE  WallInv'
<1>1. /\ job \in Job /\ job # Idle /\ job.m \in Machines /\ job.obj \in Status
      /\ StepSound(job) /\ job.pc = "recordVM" /\ job.pc \in Steps
  BY RunningJob DEF UpdateVMStatus, Steps
<1>2. job.vm \in VMs
  BY <1>1 DEF StepSound
<1>3. PICK obj \in Status :
        obj = ServerResponse(job.vm, "Creating") /\ ~obj.bootstrap
  <2>1. ServerResponse(job.vm, "Creating") \in Status
    BY <1>2, SentinelsAssumption DEF ServerResponse, NewStatus, Status
  <2>2. ~ServerResponse(job.vm, "Creating").bootstrap
    BY DEF ServerResponse, NewStatus
  <2>. QED
    BY <2>1, <2>2
<1>4. CASE Update(obj, "idle")
  BY <1>1, <1>3, <1>4, UpdateWalled
<1>5. CASE Return /\ UNCHANGED versions
  BY <1>5, MoveWalled DEF Return, Shown
<1>6. CASE /\ Put(job.m, obj)
           /\ job' = [job EXCEPT !.pc = "markJoined", !.fresh = FALSE, !.vm = NoVM]
  <2>1. PICK n \in Machines : n = job.m
    BY <1>1
  <2>2. Put(n, obj)
    BY <1>6, <2>1
  <2>3. /\ Shown(n)' = Shown(n) \cup {obj}
        /\ \A k \in Machines \ {n} : versions'[k] = versions[k]
    BY <2>2, PutLemma DEF IInv
  <2>4. \A k \in Machines \ {n} : Shown(k)' = Shown(k)
    BY <2>3 DEF Shown
  <2>5. ShownWalled'
    BY <1>3, <2>3, <2>4, ShownKept DEF WallInv
  <2>6. PICK j : j = [job EXCEPT !.pc = "markJoined", !.fresh = FALSE, !.vm = NoVM]
    OBVIOUS
  <2>7. job' = j /\ j.m = job.m /\ j.obj = job.obj /\ j.pc = "markJoined"
    BY <1>1, <1>6, <2>6 DEF Job
  <2>8. JobWalled(j)
    BY <1>1, <2>7 DEF WallInv, JobWalled
  <2>9. JobWalled(j)'
    BY <1>1, <2>7, <2>8, JobWallKept
  <2>. QED
    BY <2>5, <2>7, <2>9 DEF WallInv
<1>. QED
  BY <1>3, <1>4, <1>5, <1>6 DEF UpdateVMStatus

\* A reconcile ends, and nothing that WallInv speaks of shrinks or is written.
LEMMA ReturnWalled ==
  ASSUME WallInv, Growing, FirewallsMade', UNCHANGED versions, Return
  PROVE  WallInv'
<1>1. \A m \in Machines : Shown(m)' = Shown(m)
  BY DEF Shown
<1>. QED
  BY <1>1, MoveWalled DEF Return

\* The steps that prepare a server, and those that follow the mark.
LEMMA PassWalled ==
  ASSUME IInv, WallInv, Growing, FirewallsMade',
         \/ CreateVM \/ CreateWorkerVM \/ JoinControlPlane
         \/ CheckControlPlaneMachineReady \/ FetchAndCreateKubeconfigSecret
  PROVE  WallInv'
<1>1. job.pc \in Steps /\ UNCHANGED versions
  BY DEF CreateVM, CreateWorkerVM, JoinControlPlane,
         CheckControlPlaneMachineReady, FetchAndCreateKubeconfigSecret, Steps,
         kubeVars
<1>2. job \in Job
  BY <1>1, RunningJob
<1>3. CASE Return
  BY <1>1, <1>3, ReturnWalled
<1>4. ASSUME NEW pc \in {"recordVM", "createWorkerVM", "markJoined",
                         "createSecret", "markReady"},
             NEW vm, job' = [job EXCEPT !.pc = pc, !.vm = vm] \/ Goto(pc)
      PROVE  WallInv'
  <2>1. PICK j : job' = j
    OBVIOUS
  <2>2. j.m = job.m /\ j.obj = job.obj /\ j.pc = pc
    <3>1. CASE job' = [job EXCEPT !.pc = pc, !.vm = vm]
      BY <1>2, <2>1, <3>1 DEF Job
    <3>2. CASE Goto(pc)
      BY <1>2, <1>4, <2>1, <3>2 DEF Goto, Continue, Job
    <3>. QED
      BY <1>4, <3>1, <3>2
  <2>3. job.m \in Machines /\ JobWalled(job)
    BY <1>1, RunningJob DEF WallInv
  <2>4. JobWalled(j)
    BY <2>2, <2>3 DEF JobWalled
  <2>5. JobWalled(j)'
    BY <2>2, <2>3, <2>4, JobWallKept
  <2>6. \A m \in Machines : Shown(m)' = Shown(m)
    BY <1>1 DEF Shown
  <2>. QED
    BY <2>1, <2>5, <2>6, MoveWalled
<1>5. CASE CreateVM
  BY <1>3, <1>4, <1>5 DEF CreateVM, SubmitServer, Goto, Continue
<1>6. CASE CreateWorkerVM
  BY <1>3, <1>4, <1>6 DEF CreateWorkerVM, SubmitServer
<1>7. CASE JoinControlPlane
  BY <1>3, <1>4, <1>7 DEF JoinControlPlane
<1>8. CASE CheckControlPlaneMachineReady \/ FetchAndCreateKubeconfigSecret
  BY <1>3, <1>4, <1>8
  DEF CheckControlPlaneMachineReady, FetchAndCreateKubeconfigSecret
<1>. QED
  BY <1>5, <1>6, <1>7, <1>8

\* GetCreatedVM: the status it decodes carries no mark; one that equals the
\* stored one is kept, and attachIP follows only without a public IP.
LEMMA GetCreatedVMWalled ==
  ASSUME IInv, WallInv, Growing, FirewallsMade', GetCreatedVM
  PROVE  WallInv'
<1>1. /\ job \in Job /\ job # Idle /\ job.m \in Machines /\ job.obj \in Status
      /\ Sound(job.m, job.obj) /\ job.pc = "getVM" /\ UNCHANGED versions
  BY RunningJob DEF GetCreatedVM, Steps, kubeVars
<1>2. \A m \in Machines : Shown(m)' = Shown(m)
  BY <1>1 DEF Shown
<1>3. CASE Return
  BY <1>1, <1>3, ReturnWalled
<1>4. ASSUME NEW obj, ~obj.bootstrap, Continue("syncStatus", obj)
      PROVE  WallInv'
  <2>1. PICK j : j = [job EXCEPT !.pc = "syncStatus", !.obj = obj]
    OBVIOUS
  <2>2. job' = j /\ j.m = job.m /\ j.obj = obj /\ j.pc = "syncStatus"
    BY <1>1, <1>4, <2>1 DEF Continue, Job
  <2>3. JobWalled(j)'
    BY <1>4, <2>2 DEF JobWalled
  <2>. QED
    BY <1>2, <2>2, <2>3, MoveWalled
<1>5. ASSUME NEW pc \in {"attachIP", "probe"}, Goto(pc),
             pc = "attachIP" => job.obj.ip = NoIP
      PROVE  WallInv'
  <2>1. PICK j \in Job : j = [job EXCEPT !.pc = pc, !.obj = job.obj]
    BY <1>1 DEF Job, Steps
  <2>2. job' = j /\ j.m = job.m /\ j.obj = job.obj /\ j.pc = pc
    BY <1>1, <1>5, <2>1 DEF Goto, Continue, Job
  <2>3. pc = "attachIP" => ~j.obj.bootstrap
    BY <1>1, <1>5, <2>2 DEF Sound
  <2>. QED
    BY <1>1, <2>2, <2>3, GotoWalled DEF Steps
<1>6. CASE Continue("syncStatus", NewStatus)
  <2>1. ~NewStatus.bootstrap
    BY DEF NewStatus
  <2>. QED
    BY <1>4, <1>6, <2>1
<1>7. CASE Continue("syncStatus",
                    ServerResponse(job.obj.id, vms[job.obj.id].state))
  <2>1. ~ServerResponse(job.obj.id, vms[job.obj.id].state).bootstrap
    BY DEF ServerResponse, NewStatus
  <2>. QED
    BY <1>4, <1>7, <2>1
<1>8. CASE Goto(NetworkStep(job.m, job.obj))
  <2>1. PICK pc \in {"idle", "attachIP", "probe"} :
          pc = NetworkStep(job.m, job.obj)
    BY NetworkStepCases
  <2>2. pc = "attachIP" => job.obj.ip = NoIP
    BY <2>1, NetworkStepCases
  <2>3. CASE pc = "idle"
    BY <1>3, <1>8, <2>1, <2>3 DEF Goto, Continue
  <2>. QED
    BY <1>5, <1>8, <2>1, <2>2, <2>3
<1>. QED
  BY <1>3, <1>6, <1>7, <1>8 DEF GetCreatedVM

\* From the public IP to the mark: the policy first, then its job, then the
\* mark; a reconcile that ends in between has marked nothing.
LEMMA WallBuilt ==
  ASSUME IInv, WallInv, Growing, FirewallsMade',
         \/ AttachPublicIP \/ AddFirewallSettings
         \/ CreateFirewallObject \/ RecordFirewallJob
  PROVE  WallInv'
<1>1. job.pc \in Steps /\ UNCHANGED versions
  BY DEF AttachPublicIP, AddFirewallSettings, CreateFirewallObject,
         RecordFirewallJob, Steps, kubeVars
<1>2. job \in Job /\ job # Idle /\ job.m \in Machines /\ JobWalled(job)
  BY <1>1, RunningJob DEF WallInv
<1>3. CASE Return
  BY <1>1, <1>3, ReturnWalled
<1>4. ASSUME NEW p \in PublicIPs, job.pc = "attachIP",
             job' = [job EXCEPT !.pc = "recordIP", !.ip = p]
      PROVE  WallInv'
  <2>1. PICK j \in Job : j = [job EXCEPT !.pc = "recordIP", !.ip = p]
    BY <1>2 DEF Job, Steps
  <2>2. job' = j /\ j.m = job.m /\ j.obj = job.obj /\ j.pc = "recordIP"
    BY <1>2, <1>4, <2>1 DEF Job
  <2>. QED
    BY <1>1, <1>4, <2>2, GotoWalled
<1>5. ASSUME NEW pc \in {"createFirewall", "recordJob", "markBootstrap"},
             Goto(pc), Guarded(job.m) => job.obj.ip \in policies',
             pc = "markBootstrap" => job.obj.ip \in fw'[job.m].jobs
      PROVE  WallInv'
  <2>1. PICK j : j = [job EXCEPT !.pc = pc, !.obj = job.obj]
    OBVIOUS
  <2>2. job' = j /\ j.m = job.m /\ j.obj = job.obj /\ j.pc = pc
    BY <1>2, <1>5, <2>1 DEF Goto, Continue, Job
  <2>3. JobWalled(j)'
    <3>1. SUFFICES ASSUME Guarded(j.m)'
                   PROVE  /\ j.obj.bootstrap => Walled(j.m, j.obj.ip)'
                          /\ j.obj.ip \in policies'
                          /\ pc = "markBootstrap" => Walled(j.m, j.obj.ip)'
      BY <2>2 DEF JobWalled
    <3>2. Guarded(job.m)
      BY <1>2, <2>2, <3>1, GuardKept
    <3>3. j.obj.bootstrap => Walled(j.m, j.obj.ip)'
      BY <1>2, <2>2, <3>1, <3>2, WallKept DEF JobWalled
    <3>4. j.obj.ip \in policies' /\ (pc = "markBootstrap" => Walled(j.m, j.obj.ip)')
      BY <1>5, <2>2, <3>2 DEF Walled
    <3>. QED
      BY <3>3, <3>4
  <2>4. \A m \in Machines : Shown(m)' = Shown(m)
    BY <1>1 DEF Shown
  <2>. QED
    BY <2>2, <2>3, <2>4, MoveWalled
<1>6. CASE AttachPublicIP
  BY <1>3, <1>4, <1>6 DEF AttachPublicIP, FreeIPs
<1>7. CASE AddFirewallSettings
  <2>1. PostPolicy(job.obj.ip) => job.obj.ip \in policies'
    BY DEF PostPolicy
  <2>2. Return \/ (Goto("createFirewall") /\ PostPolicy(job.obj.ip))
    BY <1>7 DEF AddFirewallSettings
  <2>. QED
    BY <1>2, <1>3, <1>5, <2>1, <2>2
<1>8. CASE CreateFirewallObject \/ RecordFirewallJob
  <2>1. \/ Return
        \/ \E pc \in {"recordJob", "markBootstrap"} : Goto(pc)
    BY <1>8 DEF CreateFirewallObject, RecordFirewallJob
  <2>2. Guarded(job.m) => job.obj.ip \in policies /\ policies' = policies
    BY <1>2, <1>8 DEF JobWalled, CreateFirewallObject, RecordFirewallJob, cloudVars
  <2>3. ASSUME Goto("markBootstrap")
        PROVE  job.obj.ip \in fw'[job.m].jobs
    <3>1. job'.pc = "markBootstrap"
      BY <1>2, <2>3 DEF Goto, Continue, Job
    <3>2. job' # Idle
      BY <3>1 DEF Idle
    <3>. QED
      BY <1>8, <3>1, <3>2, FirewallObjectGrows DEF WallInv
  <2>. QED
    BY <1>3, <1>5, <2>1, <2>2, <2>3
<1>. QED
  BY <1>6, <1>7, <1>8

LEMMA JobStepWalled ==
  ASSUME IInv, WallInv, Growing, FirewallsMade', JobStep
  PROVE  WallInv'
BY PassWalled, UpdatesWalled, UpdateVMStatusWalled, GetCreatedVMWalled, WallBuilt
DEF JobStep

-----------------------------------------------------------------------------
(* The steps around a reconcile *)

\* A reconcile starts with a version the cache shows.
LEMMA ReconcileWalled ==
  ASSUME IInv, WallInv, Growing, FirewallsMade', NEW m \in Machines, Reconcile(m)
  PROVE  WallInv'
<1>1. Cached(m) \in Shown(m) /\ Cached(m) # Gone /\ UNCHANGED versions
  BY StoredIsShown DEF IInv, Reconcile, kubeVars
<1>2. PICK j : j = [pc |-> FirstStep(m, Cached(m)), m |-> m, obj |-> Cached(m),
                    fresh |-> InSync(m), auth |-> SubjectToken(m) = "valid",
                    vm |-> NoVM, ip |-> NoIP]
  OBVIOUS
<1>3. job' = j
  BY <1>2 DEF Reconcile
<1>4. j.m = m /\ j.obj = Cached(m)
      /\ j.pc \in {"createVM", "getVM", "findControlPlane"}
  BY <1>2 DEF FirstStep
<1>5. JobWalled(j)
  BY <1>1, <1>4 DEF JobWalled, WallInv, ShownWalled
<1>6. JobWalled(j)'
  BY <1>4, <1>5, JobWallKept
<1>7. \A n \in Machines : Shown(n)' = Shown(n)
  BY <1>1 DEF Shown
<1>. QED
  BY <1>3, <1>6, <1>7, MoveWalled

\* The reconcile, if there is one, stays at its step with its copy.
LEMMA StayWalled ==
  ASSUME IInv, WallInv, Growing, FirewallsMade',
         \A m \in Machines : \A o \in Shown(m)' : o \in Shown(m) \/ o = Gone,
         \/ job' = job
         \/ job # Idle /\ \E b \in BOOLEAN :
              \/ job' = [job EXCEPT !.fresh = b]
              \/ job' = [job EXCEPT !.auth = b]
  PROVE  WallInv'
<1>1. ShownWalled'
  BY ShownKept DEF WallInv
<1>2. CASE job = Idle
  BY <1>1, <1>2 DEF WallInv
<1>3. CASE job # Idle
  <2>1. job \in Job /\ job.m \in Machines /\ JobWalled(job)
    BY <1>3 DEF IInv, TypeOK, WallInv, Job
  <2>2. PICK j : job' = j
    OBVIOUS
  <2>3. j.m = job.m /\ j.obj = job.obj /\ j.pc = job.pc
    BY <1>3, <2>1, <2>2 DEF Job
  <2>4. JobWalled(j)
    BY <2>1, <2>3 DEF JobWalled
  <2>5. JobWalled(j)'
    BY <2>1, <2>3, <2>4, JobWallKept
  <2>. QED
    BY <1>1, <2>2, <2>5 DEF WallInv
<1>. QED
  BY <1>2, <1>3

LEMMA OutsideWriteWalled ==
  ASSUME IInv, WallInv, Growing, FirewallsMade', NEW m \in Machines,
         UserEdit(m) \/ DeleteMachine(m)
  PROVE  WallInv'
<1>1. PICK obj \in {Stored(m), Gone} : OutsideWrite(m, obj)
  BY DEF UserEdit, DeleteMachine
<1>2. Stored(m) \in Shown(m) /\ obj \in Status \cup {Gone}
  BY StoredIsShown DEF IInv
<1>3. /\ Shown(m)' = Shown(m) \cup {obj}
      /\ \A n \in Machines \ {m} : versions'[n] = versions[n]
  BY <1>1, <1>2, PutLemma DEF OutsideWrite, IInv
<1>4. \A n \in Machines \ {m} : Shown(n)' = Shown(n)
  BY <1>3 DEF Shown
<1>5. \A n \in Machines : \A o \in Shown(n)' : o \in Shown(n) \/ o = Gone
  BY <1>2, <1>3, <1>4
<1>6. job.m = m => job # Idle
  BY SentinelsAssumption DEF Idle
<1>. QED
  BY <1>1, <1>5, <1>6, StayWalled DEF OutsideWrite

LEMMA WatchEventWalled ==
  ASSUME IInv, WallInv, Growing, FirewallsMade', NEW m \in Machines, WatchEvent(m)
  PROVE  WallInv'
<1>1. /\ Shown(m)' \subseteq Shown(m)
      /\ \A n \in Machines \ {m} : versions'[n] = versions[n]
      /\ job' = job
  BY DeliverLemma DEF WatchEvent, IInv
<1>2. \A n \in Machines \ {m} : Shown(n)' = Shown(n)
  BY <1>1 DEF Shown
<1>. QED
  BY <1>1, <1>2, StayWalled

LEMMA NextWalled ==
  ASSUME IInv, WallInv, [Next]_vars
  PROVE  WallInv'
<1>1. Growing /\ FirewallsMade'
  BY StepGrows DEF WallInv
<1>2. CASE JobStep
  BY <1>1, <1>2, JobStepWalled
<1>3. ASSUME NEW m \in Machines, Reconcile(m)
      PROVE  WallInv'
  BY <1>1, <1>3, ReconcileWalled
<1>4. CASE CallFails
  BY <1>1, <1>4, ReturnWalled DEF CallFails, kubeVars
<1>5. CASE Crash
  <2>1. \A m \in Machines : Shown(m)' \subseteq Shown(m)
    BY <1>5, ResyncLemma DEF Crash, IInv
  <2>. QED
    BY <1>1, <1>5, <2>1, MoveWalled DEF Crash, Return
<1>6. ASSUME NEW m \in Machines, WatchEvent(m)
      PROVE  WallInv'
  BY <1>1, <1>6, WatchEventWalled
<1>7. ASSUME NEW m \in Machines, UserEdit(m) \/ DeleteMachine(m)
      PROVE  WallInv'
  BY <1>1, <1>7, OutsideWriteWalled
<1>8. CASE UNCHANGED <<versions, job>>
  BY <1>1, <1>8, StayWalled DEF Shown
<1>9. ASSUME NEW c \in Clusters, ExpireToken(c)
      PROVE  WallInv'
  <2>1. UNCHANGED versions /\ (job' = job \/ (job # Idle
                                  /\ job' = [job EXCEPT !.auth = FALSE]))
    BY <1>9 DEF ExpireToken, kubeVars
  <2>. QED
    BY <1>1, <2>1, StayWalled DEF Shown
<1>. QED
  BY <1>2, <1>3, <1>4, <1>5, <1>6, <1>7, <1>8, <1>9
  DEF Next, vars, CollectFirewall, SupplyToken, DeleteLeftover, Cloud, kubeVars

\* Whatever machines there are at the start.
LEMMA WallInit ==
  ASSUME NEW present, InitWith(present)
  PROVE  WallInv
<1>1. ASSUME NEW m \in Machines, NEW o \in Shown(m)
      PROVE  o = Gone \/ ~o.bootstrap
  <2>1. versions[m] \in {<<NewStatus>>, <<Gone>>}
    BY DEF InitWith
  <2>2. \A i \in DOMAIN versions[m] : versions[m][i] \in {NewStatus, Gone}
    BY <2>1
  <2>3. o \in {NewStatus, Gone}
    BY <2>2 DEF Shown
  <2>4. ~NewStatus.bootstrap
    BY DEF NewStatus
  <2>. QED
    BY <2>3, <2>4
<1>2. FirewallsMade /\ job = Idle
  BY DEF InitWith, FirewallsMade
<1>. QED
  BY <1>1, <1>2 DEF WallInv, ShownWalled

LEMMA WalledByInvariant ==
  ASSUME IInv, WallInv
  PROVE  FirewallBeforeBootstrap
BY StoredIsShown
DEF IInv, WallInv, ShownWalled, Guarded, Walled, Exists, FirewallBeforeBootstrap

-----------------------------------------------------------------------------
(* Theorems *)

\* Every control plane marked BootstrapReady in a cluster with firewall rules
\* has the policy of its public IP at the cloud and that policy's job on
\* record, although the two are made in two calls that may fail, and the
\* record in one of two ways.
THEOREM WalledBeforeBootstrap == Spec => []FirewallBeforeBootstrap
<1>1. Init => IInv /\ WallInv
  BY InitSound, WallInit DEF Init
<1>2. IInv /\ WallInv /\ [Next]_vars => (IInv /\ WallInv)'
  BY NextSound, NextWalled
<1>. QED
  BY <1>1, <1>2, WalledByInvariant, PTL DEF Spec
=============================================================================
