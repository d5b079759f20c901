---------------------------- MODULE KTLock_proofs ----------------------------
(***************************************************************************)
(* KTMachine implements BootstrapLock, for every instance.                 *)
(*                                                                         *)
(* A step of KTMachine is of one of three kinds.  The create of the        *)
(* kubeconfig secret is a Claim; MarkReady, if its update is accepted, an  *)
(* Announce; and every other step is Lapsing: it gives no secret away,     *)
(* announces nobody and concerns one machine at most, so that it is a      *)
(* Spend of this machine's cluster or a stutter.                           *)
(***************************************************************************)
EXTENDS KTMachine_proofs

\* m is announced as the ready control plane.
Ready(m) == Exists(m) /\ Stored(m).ready

\* A reconcile of m that can still announce it is under way.
Claims(m) == job.pc = "markReady" /\ job.m = m /\ job.fresh

\* A kubeconfig secret is that of a machine of its own cluster.
OwnSecret == \A c \in Clusters : secrets[c] \in Machines => ClusterOf[secrets[c]] = c

LockInv == IInv /\ OwnSecret

\* Nobody but n is concerned, and n can only lose.
LapsingFor(n) ==
  /\ \A c \in Clusters : Holder(c)' = Holder(c)
  /\ \A m \in Machines :
       /\ Ready(m)' => Ready(m)
       /\ Claims(m)' => Claims(m) /\ (Ready(m) => Ready(m)')
       /\ m # n => (Ready(m) => Ready(m)') /\ (Claims(m) => Claims(m)')

Lapsing == \E n \in Machines \cup {NoMachine} : LapsingFor(n)

-----------------------------------------------------------------------------
(* The phase of a lock *)

\* The phase, from what becomes of the holder.
LEMMA PhaseIs ==
  TypeOK => \A c \in Clusters :
    /\ Holder(c) \in Machines \cup {NoMachine}
    /\ Holder(c) \in Machines => secrets[c] = Holder(c)
    /\ Holder(c) = NoMachine => Phase(c) = "free"
    /\ \A m \in Machines : Holder(c) = m =>
         /\ Ready(m) => Phase(c) = "announced"
         /\ ~Ready(m) /\ Claims(m) => Phase(c) = "claimed"
         /\ ~Ready(m) /\ ~Claims(m) => Phase(c) = "spent"
BY SentinelsAssumption DEF TypeOK, Holder, Phase, Ready, Claims

LEMMA PhaseIsNext ==
  TypeOK' => \A c \in Clusters :
    /\ Holder(c)' \in Machines \cup {NoMachine}
    /\ Holder(c)' = NoMachine => Phase(c)' = "free"
    /\ \A m \in Machines : Holder(c)' = m =>
         /\ Ready(m)' => Phase(c)' = "announced"
         /\ ~Ready(m)' /\ Claims(m)' => Phase(c)' = "claimed"
         /\ ~Ready(m)' /\ ~Claims(m)' => Phase(c)' = "spent"
BY SentinelsAssumption DEF TypeOK, Holder, Phase, Ready, Claims

\* The lock that a machine may hold is that of its own cluster.
LEMMA HolderOf ==
  ASSUME LockInv, NEW c \in Clusters, NEW m \in Machines, Holder(c) = m
  PROVE  ClusterOf[m] = c
BY PhaseIs DEF LockInv, IInv, OwnSecret

\* What changes the phase of one cluster, or none, is a step of the lock.
LEMMA PhaseStep ==
  ASSUME NEW c \in Clusters,
         \A d \in Clusters : Holder(d)' = Holder(d),
         \A d \in Clusters \ {c} : Phase(d)' = Phase(d),
         \/ Phase(c)' = Phase(c)
         \/ Phase(c) \in {"claimed", "announced"} /\ Phase(c)' = "spent"
         \/ Phase(c) = "claimed" /\ Phase(c)' = "announced"
  PROVE  [Lock!Next]_(Lock!vars)
<1> DEFINE holder == [d \in Clusters |-> Holder(d)]
           phase == [d \in Clusters |-> Phase(d)]
<1>1. holder' = holder
  OBVIOUS
<1>2. phase' = [phase EXCEPT ![c] = Phase(c)']
  OBVIOUS
<1>3. phase[c] = Phase(c)
  OBVIOUS
<1>4. CASE Phase(c)' = Phase(c)
  <2>1. phase' = phase
    BY <1>4
  <2>. QED
    BY <1>1, <2>1 DEF Lock!vars
<1>5. CASE Phase(c) \in {"claimed", "announced"} /\ Phase(c)' = "spent"
  <2>1. Lock!Spend(c)
    BY <1>1, <1>2, <1>3, <1>5 DEF Lock!Spend
  <2>. QED
    BY <2>1 DEF Lock!Next
<1>6. CASE Phase(c) = "claimed" /\ Phase(c)' = "announced"
  <2>1. Lock!Announce(c)
    BY <1>1, <1>2, <1>3, <1>6 DEF Lock!Announce
  <2>. QED
    BY <2>1 DEF Lock!Next
<1>. QED
  BY <1>4, <1>5, <1>6

\* A lapsing step spends a lock, or none.
LEMMA LapsingSimulates ==
  ASSUME LockInv, TypeOK', NEW n \in Machines \cup {NoMachine}, LapsingFor(n)
  PROVE  [Lock!Next]_(Lock!vars)
<1>1. \A d \in Clusters : Holder(d)' = Holder(d)
  BY DEF LapsingFor
<1>2. ASSUME NEW d \in Clusters, n \notin Machines \/ ClusterOf[n] # d
      PROVE  Phase(d)' = Phase(d)
  <2>1. CASE Holder(d) = NoMachine
    BY <1>1, <2>1, PhaseIs, PhaseIsNext DEF LockInv, IInv
  <2>2. CASE Holder(d) # NoMachine
    <3>1. PICK m \in Machines : Holder(d) = m /\ Holder(d)' = m
      BY <1>1, <2>2, PhaseIs DEF LockInv, IInv
    <3>2. m # n
      BY <1>2, <3>1, HolderOf
    <3>3. (Ready(m) <=> Ready(m)') /\ (Claims(m) <=> Claims(m)')
      BY <3>2 DEF LapsingFor
    <3>. QED
      BY <3>1, <3>3, PhaseIs, PhaseIsNext DEF LockInv, IInv
  <2>. QED
    BY <2>1, <2>2
<1>3. CASE n \notin Machines
  <2>1. \A d \in Clusters : Phase(d)' = Phase(d)
    BY <1>2, <1>3
  <2>. QED
    BY <1>1, <2>1 DEF Lock!vars
<1>4. CASE n \in Machines
  <2>1. PICK c \in Clusters : c = ClusterOf[n]
    BY <1>4, MachinesAssumption
  <2>2. \A d \in Clusters \ {c} : Phase(d)' = Phase(d)
    BY <1>2, <2>1
  <2>3. Phase(c)' = Phase(c)
        \/ (Phase(c) \in {"claimed", "announced"} /\ Phase(c)' = "spent")
    <3>1. CASE Holder(c) = NoMachine
      BY <1>1, <3>1, PhaseIs, PhaseIsNext DEF LockInv, IInv
    <3>2. CASE Holder(c) # NoMachine
      <4>1. PICK m \in Machines : Holder(c) = m /\ Holder(c)' = m
        BY <1>1, <3>2, PhaseIs DEF LockInv, IInv
      <4>2. /\ Ready(m)' => Ready(m)
            /\ Claims(m)' => Claims(m) /\ (Ready(m) => Ready(m)')
        BY DEF LapsingFor
      <4>. QED
        BY <4>1, <4>2, PhaseIs, PhaseIsNext DEF LockInv, IInv
    <3>. QED
      BY <3>1, <3>2
  <2>. QED
    BY <1>1, <2>2, <2>3, PhaseStep
<1>. QED
  BY <1>3, <1>4

-----------------------------------------------------------------------------
(* The steps of a reconcile *)

\* A reconcile that goes on elsewhere can announce nobody.
LEMMA ContinueElsewhere ==
  ASSUME job \in Job, NEW pc, pc # "markReady", NEW obj, Continue(pc, obj)
  PROVE  job'.pc # "markReady"
<1>1. CASE pc = "idle"
  BY <1>1 DEF Continue, Return, Idle
<1>2. CASE pc # "idle"
  <2>1. job' = [job EXCEPT !.pc = pc, !.obj = obj]
    BY <1>2 DEF Continue
  <2>. QED
    BY <2>1 DEF Job
<1>. QED
  BY <1>1, <1>2

LEMMA NetworkStepElsewhere ==
  ASSUME NEW m, NEW obj PROVE NetworkStep(m, obj) # "markReady"
BY DEF NetworkStep

LEMMA ReturnElsewhere == Return => job'.pc # "markReady"
BY DEF Return, Idle

\* An accepted update is based on the stored status.
LEMMA FreshIsStored ==
  ASSUME IInv, job.pc \in Steps \ {"syncStatus"}, job.fresh, job.obj.ready
  PROVE  Ready(job.m)
BY RunningJob DEF FreshSound, Ready, Exists

Accepted(obj) == job.fresh /\ Put(job.m, obj) /\ (obj.ready => Ready(job.m))

\* No step but MarkReady announces, and none but the create of the secret leads
\* to MarkReady.
LEMMA JobStepAnnouncesNone ==
  ASSUME IInv, JobStep, job.pc \notin {"createSecret", "markReady"}
  PROVE  /\ UNCHANGED secrets
         /\ job.pc \in Steps
         /\ job'.pc # "markReady"
         /\ UNCHANGED versions \/ \E obj \in Status : Accepted(obj)
<1>1. job.pc \in Steps
  BY DEF JobStep, CreateVM, UpdateVMStatus, JoinControlPlane, CreateWorkerVM,
         MarkJoined, GetCreatedVM, SyncStatus, AttachPublicIP, RecordPublicIP,
         AddFirewallSettings, CreateFirewallObject, RecordFirewallJob,
         MarkBootstrap, CheckControlPlaneMachineReady,
         FetchAndCreateKubeconfigSecret, MarkReady, Steps
<1>2. /\ job \in Job /\ job.obj \in Status
      /\ Sound(job.m, job.obj) /\ StepSound(job)
  BY <1>1, RunningJob
<1>3. ASSUME NEW obj \in Status, NEW pc, pc # "markReady", Update(obj, pc),
             job.fresh => (obj.ready => Ready(job.m))
      PROVE  /\ job'.pc # "markReady"
             /\ UNCHANGED versions \/ \E o \in Status : Accepted(o)
  BY <1>2, <1>3, ContinueElsewhere, ReturnElsewhere DEF Update, Accepted
<1>4. ASSUME NEW u, NEW created, NEW refused, SubmitServer(u, created, refused),
             created # "markReady", refused # "markReady"
      PROVE  job'.pc # "markReady"
  <2>1. CASE \E v \in FreeServers : job' = [job EXCEPT !.pc = created, !.vm = v]
    BY <1>2, <1>4, <2>1 DEF Job
  <2>2. CASE Goto(refused)
    BY <1>2, <1>4, <2>2, ContinueElsewhere DEF Goto
  <2>. QED
    BY <1>4, <2>1, <2>2, ReturnElsewhere DEF SubmitServer
<1>5. CASE CreateVM \/ CreateWorkerVM
  BY <1>1, <1>4, <1>5 DEF CreateVM, CreateWorkerVM, kubeVars
<1>6. CASE UpdateVMStatus
  <2>1. PICK obj : obj = ServerResponse(job.vm, "Creating")
    OBVIOUS
  <2>2. job.vm \in VMs
    BY <1>2, <1>6 DEF StepSound, UpdateVMStatus
  <2>3. obj \in Status /\ ~obj.ready
    BY <2>1, <2>2 DEF ServerResponse, NewStatus, Status
  <2>4. CASE Update(obj, "idle")
    BY <1>1, <1>3, <1>6, <2>3, <2>4 DEF UpdateVMStatus
  <2>5. CASE /\ job.fresh /\ Put(job.m, obj)
             /\ job' = [job EXCEPT !.pc = "markJoined", !.fresh = FALSE, !.vm = NoVM]
    <3>1. job'.pc = "markJoined"
      BY <1>2, <2>5 DEF Job
    <3>. QED
      BY <1>1, <1>6, <2>3, <2>5, <3>1 DEF UpdateVMStatus, Accepted
  <2>6. CASE Return /\ UNCHANGED versions
    BY <1>1, <1>6, <2>6, ReturnElsewhere DEF UpdateVMStatus
  <2>. QED
    BY <1>6, <2>1, <2>4, <2>5, <2>6 DEF UpdateVMStatus
<1>7. CASE MarkJoined
  <2>1. PICK obj : obj = [job.obj EXCEPT !.joined = TRUE]
    OBVIOUS
  <2>2. obj \in Status /\ obj.ready = job.obj.ready
    BY <1>2, <2>1 DEF Status
  <2>3. job.fresh => (obj.ready => Ready(job.m))
    BY <1>1, <1>7, <2>2, FreshIsStored DEF MarkJoined
  <2>. QED
    BY <1>1, <1>3, <1>7, <2>1, <2>2, <2>3 DEF MarkJoined
<1>8. CASE SyncStatus
  <2>1. ~job.obj.ready
    BY <1>2, <1>8 DEF Sound, StepSound, SyncStatus
  <2>. QED
    BY <1>1, <1>2, <1>3, <1>8, <2>1, NetworkStepElsewhere DEF SyncStatus
<1>9. CASE RecordPublicIP
  <2>1. PICK obj : obj = [job.obj EXCEPT !.ip = job.ip]
    OBVIOUS
  <2>2. obj \in Status /\ obj.ready = job.obj.ready
    BY <1>2, <2>1 DEF Status, Job
  <2>3. job.fresh => (obj.ready => Ready(job.m))
    BY <1>1, <1>9, <2>2, FreshIsStored DEF RecordPublicIP
  <2>. QED
    BY <1>1, <1>3, <1>9, <2>1, <2>2, <2>3 DEF RecordPublicIP
<1>10. CASE MarkBootstrap
  <2>1. PICK obj : obj = [job.obj EXCEPT !.bootstrap = TRUE, !.ready = FALSE]
    OBVIOUS
  <2>2. obj \in Status /\ ~obj.ready
    BY <1>2, <2>1 DEF Status
  <2>. QED
    BY <1>1, <1>3, <1>10, <2>1, <2>2, NetworkStepElsewhere DEF MarkBootstrap
<1>11. CASE JoinControlPlane
  <2>1. CASE Return
    BY <1>1, <1>11, <2>1, ReturnElsewhere DEF JoinControlPlane, kubeVars
  <2>2. CASE \E m \in BootstrapReady :
               job' = [job EXCEPT !.pc = "createWorkerVM", !.vm = Cached(m).id]
    <3>1. job'.pc = "createWorkerVM"
      BY <1>2, <2>2 DEF Job
    <3>. QED
      BY <1>1, <1>11, <3>1 DEF JoinControlPlane, kubeVars
  <2>. QED
    BY <1>11, <2>1, <2>2 DEF JoinControlPlane
<1>12. CASE AttachPublicIP
  <2>1. CASE Return
    BY <1>1, <1>12, <2>1, ReturnElsewhere DEF AttachPublicIP, kubeVars
  <2>2. CASE \E p \in FreeIPs : job' = [job EXCEPT !.pc = "recordIP", !.ip = p]
    <3>1. job'.pc = "recordIP"
      BY <1>2, <2>2 DEF Job
    <3>. QED
      BY <1>1, <1>12, <3>1 DEF AttachPublicIP, kubeVars
  <2>. QED
    BY <1>12, <2>1, <2>2 DEF AttachPublicIP
<1>13. CASE GetCreatedVM
  <2>1. job'.pc # "markReady"
    BY <1>2, <1>13, ContinueElsewhere, ReturnElsewhere, NetworkStepElsewhere
    DEF GetCreatedVM, Goto
  <2>. QED
    BY <1>1, <1>13, <2>1 DEF GetCreatedVM, kubeVars
<1>14. CASE AddFirewallSettings \/ CreateFirewallObject \/ RecordFirewallJob
            \/ CheckControlPlaneMachineReady
  <2>1. job'.pc # "markReady"
    BY <1>2, <1>14, ContinueElsewhere, ReturnElsewhere
    DEF AddFirewallSettings, CreateFirewallObject, RecordFirewallJob,
        CheckControlPlaneMachineReady, Goto
  <2>. QED
    BY <1>1, <1>14, <2>1
    DEF AddFirewallSettings, CreateFirewallObject, RecordFirewallJob,
        CheckControlPlaneMachineReady, kubeVars
<1>. QED
  BY <1>5, <1>6, <1>7, <1>8, <1>9, <1>10, <1>11, <1>12, <1>13, <1>14
  DEF JobStep, FetchAndCreateKubeconfigSecret, MarkReady

\* Such a step concerns its own machine, and announces not even that.
LEMMA JobStepLapsing ==
  ASSUME IInv, JobStep, job.pc \notin {"createSecret", "markReady"}
  PROVE  job.m \in Machines /\ LapsingFor(job.m)
<1>1. /\ UNCHANGED secrets /\ job.pc \in Steps /\ job'.pc # "markReady"
      /\ UNCHANGED versions \/ \E obj \in Status : Accepted(obj)
  BY JobStepAnnouncesNone
<1>2. job.m \in Machines
  BY <1>1, RunningJob
<1>3. \A c \in Clusters : Holder(c)' = Holder(c)
  BY <1>1 DEF Holder
<1>4. \A m \in Machines : ~Claims(m) /\ ~Claims(m)'
  BY <1>1 DEF Claims
<1>5. \A m \in Machines :
        /\ Ready(m)' => Ready(m)
        /\ m # job.m => (Ready(m) => Ready(m)')
  <2>1. CASE UNCHANGED versions
    BY <2>1 DEF Ready, Exists, Stored
  <2>2. ASSUME NEW obj \in Status, Accepted(obj)
        PROVE  \A m \in Machines :
                 /\ Ready(m)' => Ready(m)
                 /\ m # job.m => (Ready(m) => Ready(m)')
    <3>1. PICK n \in Machines : n = job.m
      BY <1>2
    <3>2. Put(n, obj) /\ (obj.ready => Ready(n))
      BY <2>2, <3>1 DEF Accepted
    <3>3. Stored(n)' = obj /\ \A m \in Machines \ {n} : versions'[m] = versions[m]
      BY <3>2, PutLemma DEF IInv
    <3>4. Ready(n)' => Ready(n)
      BY <3>2, <3>3 DEF Ready
    <3>5. \A m \in Machines \ {n} : Ready(m)' <=> Ready(m)
      BY <3>3 DEF Ready, Exists, Stored
    <3>. QED
      BY <3>1, <3>4, <3>5
  <2>. QED
    BY <1>1, <2>1, <2>2
<1>. QED
  BY <1>2, <1>3, <1>4, <1>5 DEF LapsingFor

\* The create of the secret claims the lock, and its failure changes nothing.
LEMMA CreateSecretSimulates ==
  ASSUME LockInv, TypeOK', FetchAndCreateKubeconfigSecret
  PROVE  [Lock!Next]_(Lock!vars)
<1>1. job.pc = "createSecret" /\ job.pc \in Steps /\ UNCHANGED versions
  BY DEF FetchAndCreateKubeconfigSecret, Steps
<1>2. /\ job \in Job /\ job.m \in Machines
  BY <1>1, RunningJob DEF LockInv
<1>3. \A m \in Machines : Ready(m)' = Ready(m) /\ ~Claims(m)
  BY <1>1 DEF Ready, Claims, Exists, Stored
<1>4. CASE UNCHANGED secrets /\ Return
  <2>1. \A m \in Machines : ~Claims(m)'
    BY <1>4, ReturnElsewhere DEF Claims
  <2>2. \A c \in Clusters : Holder(c)' = Holder(c)
    BY <1>4 DEF Holder
  <2>3. LapsingFor(job.m)
    BY <1>3, <2>1, <2>2 DEF LapsingFor
  <2>. QED
    BY <1>2, <2>3, LapsingSimulates
<1>5. CASE /\ secrets[ClusterOf[job.m]] = NoMachine
           /\ secrets' = [secrets EXCEPT ![ClusterOf[job.m]] = job.m]
           /\ Goto("markReady")
  <2>1. PICK n \in Machines, c \in Clusters : n = job.m /\ c = ClusterOf[n]
    BY <1>2, MachinesAssumption
  <2>2. /\ Holder(c) = NoMachine /\ Holder(c)' = n
        /\ \A d \in Clusters \ {c} : Holder(d)' = Holder(d)
    BY <1>5, <2>1, SentinelsAssumption DEF Holder, LockInv, IInv, TypeOK
  <2>3. job'.m = n
    BY <1>2, <1>5, <2>1 DEF Goto, Continue, Job
  <2>4. ~Ready(n)
    <3>1. secrets[c] # n
      BY <1>5, <2>1, SentinelsAssumption
    <3>. QED
      BY <2>1, <3>1, ReadyHoldsSecret DEF Ready, LockInv
  <2>5. Phase(c) = "free" /\ Phase(c)' \in {"claimed", "spent"}
    BY <1>3, <2>2, <2>4, PhaseIs, PhaseIsNext DEF LockInv, IInv
  <2>6. ASSUME NEW d \in Clusters \ {c}
        PROVE  Phase(d)' = Phase(d)
    <3>1. CASE Holder(d) = NoMachine
      BY <2>2, <3>1, PhaseIs, PhaseIsNext DEF LockInv, IInv
    <3>2. CASE Holder(d) # NoMachine
      <4>1. PICK m \in Machines : Holder(d) = m /\ Holder(d)' = m
        BY <2>2, <3>2, PhaseIs DEF LockInv, IInv
      <4>2. m # n
        BY <2>1, <4>1, HolderOf
      <4>3. ~Claims(m) /\ ~Claims(m)' /\ (Ready(m)' <=> Ready(m))
        BY <1>3, <2>3, <4>2 DEF Claims
      <4>. QED
        BY <4>1, <4>3, PhaseIs, PhaseIsNext DEF LockInv, IInv
    <3>. QED
      BY <3>1, <3>2
  <2> DEFINE holder == [d \in Clusters |-> Holder(d)]
             phase == [d \in Clusters |-> Phase(d)]
  <2>7. holder' = [holder EXCEPT ![c] = n]
    BY <2>2
  <2>8. phase' = [phase EXCEPT ![c] = Phase(c)']
    BY <2>6
  <2>9. Lock!Claim(c, n)
    BY <2>1, <2>5, <2>7, <2>8 DEF Lock!Claim
  <2>. QED
    BY <2>9 DEF Lock!Next
<1>. QED
  BY <1>4, <1>5 DEF FetchAndCreateKubeconfigSecret

\* An accepted MarkReady announces the holder, unless it is announced already.
LEMMA MarkReadySimulates ==
  ASSUME LockInv, TypeOK', MarkReady
  PROVE  [Lock!Next]_(Lock!vars)
<1>1. job.pc = "markReady" /\ job.pc \in Steps /\ UNCHANGED secrets
  BY DEF MarkReady, Steps
<1>2. /\ job \in Job /\ job.m \in Machines /\ job.obj \in Status
      /\ secrets[ClusterOf[job.m]] = job.m
  BY <1>1, RunningJob DEF LockInv, StepSound
<1>3. PICK n \in Machines, c \in Clusters : n = job.m /\ c = ClusterOf[n]
  BY <1>2, MachinesAssumption
<1>4. \A d \in Clusters : Holder(d)' = Holder(d)
  BY <1>1 DEF Holder
<1>5. Holder(c) = n /\ Holder(c)' = n
  BY <1>2, <1>3, <1>4, SentinelsAssumption DEF Holder
<1>6. \A m \in Machines : m # n => ~Claims(m)
  BY <1>3 DEF Claims
<1>7. PICK obj : obj = [job.obj EXCEPT !.bootstrap = TRUE, !.ready = TRUE]
  OBVIOUS
<1>8. obj \in Status /\ obj.ready
  BY <1>2, <1>7 DEF Status
<1>9. Update(obj, "idle")
  BY <1>7 DEF MarkReady
<1>10. \A m \in Machines : ~Claims(m)'
  <2>1. job'.pc = "idle"
    BY <1>9 DEF Update, Continue, Return, Idle
  <2>. QED
    BY <2>1 DEF Claims
<1>11. CASE job.fresh /\ Put(n, obj)
  <2>1. Stored(n)' = obj /\ \A m \in Machines \ {n} : versions'[m] = versions[m]
    BY <1>8, <1>11, PutLemma DEF LockInv, IInv
  <2>2. Ready(n)'
    BY <1>8, <2>1, GoneAssumption DEF Ready, Exists
  <2>3. \A m \in Machines \ {n} : Ready(m)' <=> Ready(m)
    BY <2>1 DEF Ready, Exists, Stored
  <2>4. Claims(n)
    BY <1>1, <1>3, <1>11 DEF Claims
  <2>5. Phase(c)' = "announced" /\ Phase(c) \in {"announced", "claimed"}
    BY <1>5, <2>2, <2>4, PhaseIs, PhaseIsNext DEF LockInv, IInv
  <2>6. ASSUME NEW d \in Clusters \ {c}
        PROVE  Phase(d)' = Phase(d)
    <3>1. CASE Holder(d) = NoMachine
      BY <1>4, <3>1, PhaseIs, PhaseIsNext DEF LockInv, IInv
    <3>2. CASE Holder(d) # NoMachine
      <4>1. PICK m \in Machines : Holder(d) = m /\ Holder(d)' = m
        BY <1>4, <3>2, PhaseIs DEF LockInv, IInv
      <4>2. m # n
        BY <1>3, <4>1, HolderOf
      <4>3. ~Claims(m) /\ ~Claims(m)' /\ (Ready(m)' <=> Ready(m))
        BY <1>6, <1>10, <2>3, <4>2
      <4>. QED
        BY <4>1, <4>3, PhaseIs, PhaseIsNext DEF LockInv, IInv
    <3>. QED
      BY <3>1, <3>2
  <2>. QED
    BY <1>4, <2>5, <2>6, PhaseStep
<1>12. CASE UNCHANGED versions
  <2>1. \A m \in Machines : Ready(m)' <=> Ready(m)
    BY <1>12 DEF Ready, Exists, Stored
  <2>2. LapsingFor(n)
    BY <1>4, <1>6, <1>10, <2>1 DEF LapsingFor
  <2>. QED
    BY <2>2, LapsingSimulates
<1>. QED
  BY <1>3, <1>9, <1>11, <1>12 DEF Update

-----------------------------------------------------------------------------
(* The steps around a reconcile *)

\* A step that leaves the secrets, the stored statuses and the claims alone.
LEMMA NothingLapses ==
  ASSUME \A c \in Clusters : Holder(c)' = Holder(c),
         \A m \in Machines : Stored(m)' = Stored(m),
         \A m \in Machines : Claims(m)' <=> Claims(m)
  PROVE  Lapsing
BY DEF Lapsing, LapsingFor, Ready, Exists

\* A step that ends the running reconcile, if there is one.
LEMMA ReturnLapses ==
  ASSUME LockInv, Return, UNCHANGED secrets,
         \A m \in Machines : Stored(m)' = Stored(m)
  PROVE  Lapsing
<1>1. PICK n \in Machines \cup {NoMachine} : n = job.m
  BY DEF LockInv, IInv, TypeOK, Job, Idle
<1>2. \A m \in Machines : ~Claims(m)' /\ (m # n => ~Claims(m))
  BY <1>1, ReturnElsewhere DEF Claims
<1>3. \A m \in Machines : Ready(m)' <=> Ready(m)
  BY DEF Ready, Exists
<1>4. LapsingFor(n)
  BY <1>2, <1>3 DEF LapsingFor, Holder
<1>. QED
  BY <1>4 DEF Lapsing

\* A write of somebody else makes the copy of a reconcile outdated: no claim
\* survives a status that it did not see.
LEMMA OutsideWriteLapses ==
  ASSUME LockInv, NEW n \in Machines, NEW obj \in {Stored(n), Gone},
         OutsideWrite(n, obj)
  PROVE  Lapsing
<1>1. PICK o \in Status \cup {Gone} : o = obj
  BY StoredIsShown DEF LockInv, IInv
<1>2. Put(n, o) /\ UNCHANGED secrets
  BY <1>1 DEF OutsideWrite
<1>3. Stored(n)' = o /\ \A m \in Machines \ {n} : versions'[m] = versions[m]
  BY <1>2, PutLemma DEF LockInv, IInv
<1>4. \A m \in Machines \ {n} : Ready(m)' <=> Ready(m)
  BY <1>3 DEF Ready, Exists, Stored
<1>5. Ready(n)' => Ready(n)
  BY <1>1, <1>3 DEF Ready, Exists
<1>6. (job.m # n => job' = job) /\ (job.m = n => job' = [job EXCEPT !.fresh = FALSE])
  BY DEF OutsideWrite
<1>7. ~Claims(n)'
  <2>1. CASE job.m = n
    <3>1. job \in Job \cup {Idle}
      BY DEF LockInv, IInv, TypeOK
    <3>2. ~job'.fresh
      BY <1>6, <2>1, <3>1 DEF Job, Idle
    <3>. QED
      BY <3>2 DEF Claims
  <2>2. CASE job.m # n
    BY <1>6, <2>2 DEF Claims
  <2>. QED
    BY <2>1, <2>2
<1>8. \A m \in Machines \ {n} : Claims(m)' <=> Claims(m)
  <2>1. CASE job.m = n
    <3>1. job \in Job \cup {Idle}
      BY DEF LockInv, IInv, TypeOK
    <3>2. job'.m = n
      BY <1>6, <2>1, <3>1 DEF Job, Idle
    <3>. QED
      BY <2>1, <3>2 DEF Claims
  <2>2. CASE job.m # n
    BY <1>6, <2>2 DEF Claims
  <2>. QED
    BY <2>1, <2>2
<1>9. LapsingFor(n)
  BY <1>2, <1>4, <1>5, <1>7, <1>8 DEF LapsingFor, Holder
<1>. QED
  BY <1>9 DEF Lapsing

\* Nobody but a reconcile claims or announces.
LEMMA AroundLapses ==
  ASSUME LockInv, Next, ~JobStep
  PROVE  Lapsing
<1>1. ASSUME NEW m \in Machines, Reconcile(m) PROVE Lapsing
  <2>1. job = Idle /\ UNCHANGED <<versions, secrets>>
    BY <1>1 DEF Reconcile, kubeVars
  <2>2. job'.pc # "markReady"
    BY <1>1 DEF Reconcile, FirstStep
  <2>3. \A n \in Machines : ~Claims(n) /\ ~Claims(n)'
    BY <2>1, <2>2 DEF Claims, Idle
  <2>. QED
    BY <2>1, <2>3, NothingLapses DEF Holder, Stored
<1>2. CASE CallFails
  BY <1>2, ReturnLapses DEF CallFails, kubeVars, Stored
<1>3. CASE Crash
  BY <1>3, ReturnLapses, ResyncLemma DEF Crash, LockInv, IInv
<1>4. ASSUME NEW m \in Machines, WatchEvent(m) PROVE Lapsing
  <2>1. \A n \in Machines : Stored(n)' = Stored(n)
    BY <1>4, DeliverLemma DEF WatchEvent, LockInv, IInv, Stored
  <2>. QED
    BY <1>4, <2>1, NothingLapses DEF WatchEvent, Holder, Claims
<1>5. ASSUME NEW m \in Machines, UserEdit(m) \/ DeleteMachine(m) PROVE Lapsing
  BY <1>5, OutsideWriteLapses DEF UserEdit, DeleteMachine
<1>6. ASSUME NEW m \in Machines, CollectFirewall(m) PROVE Lapsing
  BY <1>6, NothingLapses DEF CollectFirewall, Holder, Claims, Stored
<1>7. ASSUME NEW c \in Clusters, SupplyToken(c) PROVE Lapsing
  BY <1>7, NothingLapses DEF SupplyToken, kubeVars, Holder, Claims, Stored
<1>8. ASSUME NEW c \in Clusters, ExpireToken(c) PROVE Lapsing
  <2>1. UNCHANGED <<versions, secrets>>
    BY <1>8 DEF ExpireToken, kubeVars
  <2>2. job' = job \/ (job # Idle /\ job' = [job EXCEPT !.auth = FALSE])
    BY <1>8 DEF ExpireToken
  <2>3. job' = job \/ (/\ job'.pc = job.pc /\ job'.m = job.m
                       /\ job'.fresh = job.fresh)
    BY <2>2 DEF LockInv, IInv, TypeOK, Job
  <2>4. \A m \in Machines : Claims(m)' <=> Claims(m)
    BY <2>3 DEF Claims
  <2>. QED
    BY <2>1, <2>4, NothingLapses DEF Holder, Stored
<1>9. ASSUME NEW c \in Clusters, DeleteLeftover(c) PROVE Lapsing
  <2>1. \A d \in Clusters : Holder(d)' = Holder(d)
    BY <1>9, SentinelsAssumption DEF DeleteLeftover, Holder, LockInv, IInv, TypeOK
  <2>. QED
    BY <1>9, <2>1, NothingLapses DEF DeleteLeftover, Claims, Stored
<1>10. ASSUME NEW v \in VMs, Cloud(v) PROVE Lapsing
  BY <1>10, NothingLapses DEF Cloud, kubeVars, Holder, Claims, Stored
<1>. QED
  BY <1>1, <1>2, <1>3, <1>4, <1>5, <1>6, <1>7, <1>8, <1>9, <1>10 DEF Next

-----------------------------------------------------------------------------
(* The theorem *)

LEMMA NextSimulates ==
  ASSUME LockInv, TypeOK', [Next]_vars
  PROVE  [Lock!Next]_(Lock!vars)
<1>1. CASE UNCHANGED vars
  <2>1. Lapsing
    BY <1>1, NothingLapses DEF vars, Holder, Claims, Stored
  <2>. QED
    BY <2>1, LapsingSimulates DEF Lapsing
<1>2. CASE JobStep /\ job.pc \notin {"createSecret", "markReady"}
  BY <1>2, JobStepLapsing, LapsingSimulates DEF LockInv
<1>3. CASE JobStep /\ job.pc \in {"createSecret", "markReady"}
  <2>1. FetchAndCreateKubeconfigSecret \/ MarkReady
    BY <1>3 DEF JobStep, CreateVM, UpdateVMStatus, JoinControlPlane, CreateWorkerVM,
         MarkJoined, GetCreatedVM, SyncStatus, AttachPublicIP, RecordPublicIP,
         AddFirewallSettings, CreateFirewallObject, RecordFirewallJob,
         MarkBootstrap, CheckControlPlaneMachineReady
  <2>. QED
    BY <2>1, CreateSecretSimulates, MarkReadySimulates
<1>4. CASE Next /\ ~JobStep
  BY <1>4, AroundLapses, LapsingSimulates DEF Lapsing
<1>. QED
  BY <1>1, <1>2, <1>3, <1>4

\* Whatever machines there are at the start.
LEMMA InitSimulates ==
  ASSUME NEW present, InitWith(present)
  PROVE  Lock!Init
<1>1. \A c \in Clusters : Holder(c) = NoMachine
  BY DEF InitWith, Holder
<1>2. \A c \in Clusters : Phase(c) = "free"
  BY <1>1 DEF Phase
<1>. QED
  BY <1>1, <1>2 DEF Lock!Init

LEMMA OwnSecretInit ==
  ASSUME NEW present, InitWith(present)
  PROVE  OwnSecret
BY SentinelsAssumption DEF InitWith, OwnSecret

LEMMA OwnSecretKept ==
  ASSUME IInv, OwnSecret, [Next]_vars
  PROVE  OwnSecret'
<1>1. CASE UNCHANGED secrets
  BY <1>1 DEF OwnSecret
<1>2. CASE FetchAndCreateKubeconfigSecret
  <2>1. job.m \in Machines
    BY <1>2, RunningJob DEF FetchAndCreateKubeconfigSecret, Steps
  <2>2. PICK n \in Machines, c \in Clusters : n = job.m /\ c = ClusterOf[n]
    BY <2>1, MachinesAssumption
  <2>3. UNCHANGED secrets \/ secrets' = [secrets EXCEPT ![c] = n]
    BY <1>2, <2>2 DEF FetchAndCreateKubeconfigSecret
  <2>4. \A d \in Clusters : secrets'[d] = secrets[d] \/ (d = c /\ secrets'[d] = n)
    BY <2>3 DEF IInv, TypeOK
  <2>. QED
    BY <2>2, <2>4 DEF OwnSecret
<1>3. ASSUME NEW c \in Clusters, DeleteLeftover(c) PROVE OwnSecret'
  BY <1>3, SentinelsAssumption DEF DeleteLeftover, OwnSecret, IInv, TypeOK
<1>4. \/ UNCHANGED secrets \/ FetchAndCreateKubeconfigSecret
      \/ \E c \in Clusters : DeleteLeftover(c)
  BY DEF Next, vars, Reconcile, JobStep, CallFails, Crash, WatchEvent, UserEdit,
         DeleteMachine, OutsideWrite, CollectFirewall, SupplyToken, ExpireToken,
         Cloud, kubeVars, CreateVM, UpdateVMStatus, JoinControlPlane,
         CreateWorkerVM, MarkJoined, GetCreatedVM, SyncStatus, AttachPublicIP,
         RecordPublicIP, AddFirewallSettings, CreateFirewallObject,
         RecordFirewallJob, MarkBootstrap, CheckControlPlaneMachineReady, MarkReady
<1>. QED
  BY <1>1, <1>2, <1>3, <1>4

\* On top of IInv: a kubeconfig secret is created by a machine of its cluster.
THEOREM LockInvariance == Spec => []LockInv
<1>1. Init => LockInv
  BY InitSound, OwnSecretInit DEF LockInv, Init
<1>2. LockInv /\ [Next]_vars => LockInv'
  BY NextSound, OwnSecretKept DEF LockInv
<1>. QED
  BY <1>1, <1>2, PTL DEF Spec

\* The controller implements the lock: whatever fails, crashes, is edited or
\* deleted between the create of the kubeconfig secret and MarkReady, a cluster
\* announces one machine at most, and never again once it is not announced.
THEOREM LockImplemented == Spec => ImplementsBootstrapLock
<1>1. LockInv /\ LockInv' /\ [Next]_vars => [Lock!Next]_(Lock!vars)
  <2>1. LockInv' => TypeOK'
    BY DEF LockInv, IInv
  <2>. QED
    BY <2>1, NextSimulates
<1>2. Init => Lock!Init
  BY InitSimulates DEF Init
<1>. QED
  BY <1>1, <1>2, LockInvariance, PTL DEF Spec, ImplementsBootstrapLock, Lock!Spec
=============================================================================
