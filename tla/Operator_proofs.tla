--------------------------- MODULE Operator_proofs ---------------------------
(***************************************************************************)
(* What is proved of KTMachine holds in the composed operator: machines    *)
(* made by the MachineDeployment controller while others are bootstrapped  *)
(* disturb nothing that the KTMachine controller relies on.                *)
(*                                                                         *)
(* A step of the operator is, as far as the variables of KTMachine go, a   *)
(* step of KTMachine, the create of a machine that never existed, or a     *)
(* step that KTMachine does not notice (Elsewhere).  Two facts make the    *)
(* create harmless: its machine has no version but Gone in the cache, and  *)
(* no reconcile is running for it (NothingRemoved).                        *)
(*                                                                         *)
(* The MachineDeployment controller sees more than in its own module: a    *)
(* status write of the KTMachine controller is an event of the informer    *)
(* they share.  The events on their way are as many as the versions the    *)
(* cache does not show (EventsMatch); so when none is left the cache shows *)
(* what is stored, and the controller sleeps only if that is enough        *)
(* (Awake).                                                                *)
(***************************************************************************)
EXTENDS Operator, KTLock_proofs, KTFirewall_proofs, FiniteSetTheorems

\* Machines are never deleted here: one that does not exist never did.
NothingRemoved ==
  /\ \A m \in Machines : Exists(m) \/ versions[m] = <<Gone>>
  /\ job # Idle => Exists(job.m)

-----------------------------------------------------------------------------
(* The steps of the operator *)

\* The MachineDeployment controller reads, counts, or has a create refused: for
\* KTMachine nothing happens, but that one disturbance less may be to come.
Elsewhere ==
  /\ UNCHANGED <<kubeVars, cloudVars, tokens, job>>
  /\ disturbed' \in 0..MaxDisturbances

LEMMA DeploymentStepElsewhere ==
  ASSUME TypeOK, DeploymentStep
  PROVE  Elsewhere
<1>1. disturbed' = disturbed \/ (disturbed < MaxDisturbances /\ disturbed' = disturbed + 1)
  BY DEF DeploymentStep, Deployment!Reconcile, Deployment!CountChildren,
         Deployment!CreateFails, Deployment!Disturb, Deployment!Calm
<1>2. disturbed' \in 0..MaxDisturbances
  BY <1>1, DisturbancesAssumption DEF TypeOK
<1>. QED
  BY <1>2 DEF DeploymentStep, Elsewhere

LEMMA OperatorSteps ==
  ASSUME TypeOK, [OperatorNext]_operatorVars
  PROVE  [Next]_vars \/ CreateMachine \/ Elsewhere
<1>1. DeploymentStep => Elsewhere
  BY DeploymentStepElsewhere
<1>2. ~DeploymentStep => [Next]_vars \/ CreateMachine
  BY DEF OperatorNext, operatorVars, MachineStep, Alone, DeliverMachine,
         DeliverDeployment, Apply, AddOwnerRef, CrashOperator, Next
<1>. QED
  BY <1>1, <1>2

LEMMA NewStatusType == NewStatus \in Status
BY DEF NewStatus, Status

\* A create adds a machine of which nothing is recorded, and changes nothing
\* else that the KTMachine controller sees.
LEMMA CreateMachineLemma ==
  ASSUME TypeOK, CreateMachine
  PROVE  /\ UNCHANGED <<secrets, fw, cloudVars, tokens, job, disturbed>>
         /\ versions' \in [Machines -> Seq(Status \cup {Gone})]
         /\ \A n \in Machines : versions'[n] # <<>>
         /\ \E m \in Machines :
              /\ m \in ControlPlanes
              /\ versions[m] = <<Gone>>
              /\ Put(m, NewStatus)
              /\ Stored(m) = Gone /\ Shown(m) = {Gone}
              /\ Stored(m)' = NewStatus /\ Shown(m)' = {Gone, NewStatus}
              /\ \A n \in Machines \ {m} :
                   /\ versions'[n] = versions[n]
                   /\ Stored(n)' = Stored(n)
                   /\ Shown(n)' = Shown(n)
<1>1. PICK m \in ControlPlanes : versions[m] = <<Gone>> /\ Put(m, NewStatus)
  BY DEF CreateMachine
<1>2. UNCHANGED <<secrets, fw, cloudVars, tokens, job, disturbed>>
  BY DEF CreateMachine, Deployment!CreateMachine, Deployment!Calm, cloudVars
<1>3. m \in Machines
  BY MachinesAssumption
<1>4. Stored(m) = Gone /\ Shown(m) = {Gone}
  <2>1. Len(<<Gone>>) = 1 /\ DOMAIN <<Gone>> = {1} /\ <<Gone>>[1] = Gone
    OBVIOUS
  <2>. QED
    BY <1>1, <2>1 DEF Stored, Shown
<1>5. /\ versions' \in [Machines -> Seq(Status \cup {Gone})]
      /\ \A n \in Machines : versions'[n] # <<>>
      /\ Stored(m)' = NewStatus
      /\ Shown(m)' = Shown(m) \cup {NewStatus}
      /\ \A n \in Machines \ {m} : versions'[n] = versions[n]
  BY <1>1, <1>3, NewStatusType, PutLemma
<1>6. \A n \in Machines \ {m} : Stored(n)' = Stored(n) /\ Shown(n)' = Shown(n)
  BY <1>5 DEF Stored, Shown
<1>. QED
  BY <1>1, <1>2, <1>3, <1>4, <1>5, <1>6

-----------------------------------------------------------------------------
(* The invariant of KTMachine *)

\* A reconcile that runs is of another machine, or its copy is outdated.
LEMMA CreateMachineSound ==
  ASSUME IInv, CreateMachine
  PROVE  IInv'
<1>1. /\ UNCHANGED <<secrets, fw, vms, nat, policies, tokens, job, disturbed>>
      /\ versions' \in [Machines -> Seq(Status \cup {Gone})]
      /\ \A n \in Machines : versions'[n] # <<>>
  BY CreateMachineLemma DEF IInv, cloudVars
<1>2. PICK m \in Machines :
        /\ Stored(m) = Gone
        /\ Shown(m) = {Gone} /\ Shown(m)' = {Gone, NewStatus}
        /\ \A n \in Machines \ {m} :
             Stored(n)' = Stored(n) /\ Shown(n)' = Shown(n)
  BY CreateMachineLemma DEF IInv
<1>3. Monotone
  BY <1>1 DEF Monotone
<1>4. TypeOK'
  BY <1>1 DEF IInv, TypeOK
<1>5. ServersSound'
  BY <1>1, <1>3, ServersKept DEF IInv, ServersSound
<1>6. VersionsSound'
  <2>1. Sound(m, NewStatus)
    BY DEF Sound, NewStatus
  <2>. QED
    BY <1>2, <1>3, <2>1, NewStatusType, VersionsKept DEF IInv
<1>7. JobSound'
  <2>1. CASE job = Idle
    BY <1>1, <2>1 DEF JobSound
  <2>2. CASE job # Idle
    <3>1. PICK j \in Job : j = job /\ Sound(j.m, j.obj) /\ StepSound(j) /\ FreshSound(j)
      BY <2>2 DEF IInv, TypeOK, JobSound
    <3>2. j.m \in Machines /\ (j.fresh => j.m # m)
      BY <1>2, <3>1 DEF Job, FreshSound
    <3>3. FreshSound(j)'
      BY <1>2, <3>1, <3>2 DEF FreshSound
    <3>. QED
      BY <1>1, <1>3, <3>1, <3>3, JobKept DEF IInv
  <2>. QED
    BY <2>1, <2>2
<1>. QED
  BY <1>4, <1>5, <1>6, <1>7 DEF IInv

LEMMA ElsewhereSound ==
  ASSUME IInv, Elsewhere
  PROVE  IInv'
<1>1. /\ UNCHANGED <<versions, vms, nat, secrets, policies, tokens, fw, job>>
      /\ disturbed' \in 0..MaxDisturbances
  BY DEF Elsewhere, kubeVars, cloudVars
<1>2. PICK j \in Job \cup {Idle} : j = job
  BY DEF IInv, TypeOK
<1>3. j # Idle => Sound(j.m, j.obj) /\ StepSound(j) /\ FreshSound(j)
  BY <1>2 DEF IInv, JobSound
<1>. QED
  BY <1>1, <1>2, <1>3, JobMoves DEF IInv, TypeOK

LEMMA OperatorNextSound == IInv /\ [OperatorNext]_operatorVars => IInv'
BY OperatorSteps, NextSound, CreateMachineSound, ElsewhereSound DEF IInv

LEMMA OperatorInvariance == OperatorSpec => []IInv
<1>1. OperatorInit => IInv
  BY InitWithSound DEF OperatorInit
<1>. QED
  BY <1>1, OperatorNextSound, PTL DEF OperatorSpec

\* A create does not touch a machine that exists.
LEMMA OperatorKeepsServer ==
  ASSUME IInv, [OperatorNext]_operatorVars, NEW m \in Machines, Exists(m)
  PROVE  \/ Stored(m)' = Stored(m)
         \/ Stored(m)' = Gone
         \/ /\ ~Stored(m).joined
            /\ Stored(m).id # NoVM => Stored(m)'.id = Stored(m).id
<1>1. CASE [Next]_vars
  BY <1>1, StepKeepsServer
<1>2. CASE CreateMachine
  BY <1>2, CreateMachineLemma DEF IInv, Exists
<1>3. CASE Elsewhere
  BY <1>3 DEF Elsewhere, kubeVars, Stored
<1>. QED
  BY <1>1, <1>2, <1>3, OperatorSteps DEF IInv

-----------------------------------------------------------------------------
(* The lock *)

LEMMA OperatorOwnSecret ==
  ASSUME IInv, OwnSecret, [OperatorNext]_operatorVars
  PROVE  OwnSecret'
<1>1. CASE [Next]_vars
  BY <1>1, OwnSecretKept
<1>2. CASE CreateMachine
  BY <1>2 DEF CreateMachine, OwnSecret
<1>3. CASE Elsewhere
  BY <1>3 DEF Elsewhere, kubeVars, OwnSecret
<1>. QED
  BY <1>1, <1>2, <1>3, OperatorSteps DEF IInv

\* The create of a machine claims nothing and announces nobody.
LEMMA CreateMachineLapses ==
  ASSUME IInv, CreateMachine
  PROVE  LapsingFor(NoMachine)
<1>1. UNCHANGED <<secrets, job>>
  BY CreateMachineLemma DEF IInv
<1>2. PICK m \in Machines :
        /\ Stored(m) = Gone /\ Stored(m)' = NewStatus
        /\ \A n \in Machines \ {m} : Stored(n)' = Stored(n)
  BY CreateMachineLemma DEF IInv
<1>3. ~Ready(m) /\ ~Ready(m)'
  <2>1. ~NewStatus.ready
    BY DEF NewStatus
  <2>. QED
    BY <1>2, <2>1 DEF Ready, Exists
<1>4. \A n \in Machines \ {m} : Ready(n)' <=> Ready(n)
  BY <1>2 DEF Ready, Exists
<1>5. \A n \in Machines : Claims(n)' <=> Claims(n)
  BY <1>1 DEF Claims
<1>. QED
  BY <1>1, <1>3, <1>4, <1>5 DEF LapsingFor, Holder

LEMMA OperatorSimulates ==
  ASSUME LockInv, TypeOK', [OperatorNext]_operatorVars
  PROVE  [Lock!Next]_(Lock!vars)
<1>1. CASE [Next]_vars
  BY <1>1, NextSimulates
<1>2. CASE CreateMachine
  BY <1>2, CreateMachineLapses, LapsingSimulates DEF LockInv
<1>3. CASE Elsewhere
  <2>1. UNCHANGED <<versions, secrets, job>>
    BY <1>3 DEF Elsewhere, kubeVars
  <2>2. /\ \A c \in Clusters : Holder(c)' = Holder(c)
        /\ \A m \in Machines : Stored(m)' = Stored(m)
        /\ \A m \in Machines : Claims(m)' <=> Claims(m)
    BY <2>1 DEF Holder, Stored, Claims
  <2>3. PICK n \in Machines \cup {NoMachine} : LapsingFor(n)
    BY <2>2, NothingLapses DEF Lapsing
  <2>. QED
    BY <2>3, LapsingSimulates
<1>. QED
  BY <1>1, <1>2, <1>3, OperatorSteps DEF LockInv, IInv

-----------------------------------------------------------------------------
(* Nothing is removed *)

\* A reconcile works on one machine to its end.
LEMMA ContinueSame ==
  ASSUME job \in Job, NEW pc, NEW obj, Continue(pc, obj) \/ Update(obj, pc)
  PROVE  job' = Idle \/ job'.m = job.m
BY DEF Continue, Update, Return, Job

LEMMA JobStepSame ==
  ASSUME IInv, JobStep
  PROVE  /\ job # Idle /\ job.m \in Machines
         /\ job' = Idle \/ job'.m = job.m
<1>1. job.pc \in Steps
  BY DEF JobStep, CreateVM, UpdateVMStatus, JoinControlPlane, CreateWorkerVM,
         MarkJoined, GetCreatedVM, SyncStatus, AttachPublicIP, RecordPublicIP,
         AddFirewallSettings, CreateFirewallObject, RecordFirewallJob,
         MarkBootstrap, CheckControlPlaneMachineReady,
         FetchAndCreateKubeconfigSecret, MarkReady, Steps
<1>2. job \in Job /\ job # Idle /\ job.m \in Machines
  BY <1>1, RunningJob
<1>3. ASSUME NEW pc, NEW obj, Continue(pc, obj) \/ Update(obj, pc)
      PROVE  job' = Idle \/ job'.m = job.m
  BY <1>2, <1>3, ContinueSame
<1>4. ASSUME NEW u, NEW created, NEW refused, SubmitServer(u, created, refused)
      PROVE  job' = Idle \/ job'.m = job.m
  <2>1. CASE \E v \in FreeServers : job' = [job EXCEPT !.pc = created, !.vm = v]
    BY <1>2, <2>1 DEF Job
  <2>. QED
    BY <1>3, <1>4, <2>1 DEF SubmitServer, Goto, Return
<1>5. CASE CreateVM \/ CreateWorkerVM
  BY <1>2, <1>4, <1>5 DEF CreateVM, CreateWorkerVM
<1>6. CASE UpdateVMStatus
  <2>1. CASE job' = [job EXCEPT !.pc = "markJoined", !.fresh = FALSE, !.vm = NoVM]
    BY <1>2, <2>1 DEF Job
  <2>. QED
    BY <1>2, <1>3, <1>6, <2>1 DEF UpdateVMStatus, Return
<1>7. CASE MarkJoined \/ SyncStatus \/ RecordPublicIP \/ MarkBootstrap \/ MarkReady
  BY <1>2, <1>3, <1>7
  DEF MarkJoined, SyncStatus, RecordPublicIP, MarkBootstrap, MarkReady
<1>8. CASE JoinControlPlane
  <2>1. CASE \E n \in BootstrapReady :
               job' = [job EXCEPT !.pc = "createWorkerVM", !.vm = Cached(n).id]
    BY <1>2, <2>1 DEF Job
  <2>. QED
    BY <1>2, <1>8, <2>1 DEF JoinControlPlane, Return
<1>9. CASE AttachPublicIP
  <2>1. CASE \E p \in FreeIPs : job' = [job EXCEPT !.pc = "recordIP", !.ip = p]
    BY <1>2, <2>1 DEF Job
  <2>. QED
    BY <1>2, <1>9, <2>1 DEF AttachPublicIP, Return
<1>10. CASE GetCreatedVM
  BY <1>2, <1>3, <1>10 DEF GetCreatedVM, Goto, Return
<1>11. CASE AddFirewallSettings \/ CreateFirewallObject \/ RecordFirewallJob
  BY <1>2, <1>3, <1>11
  DEF AddFirewallSettings, CreateFirewallObject, RecordFirewallJob, Goto, Return
<1>12. CASE CheckControlPlaneMachineReady \/ FetchAndCreateKubeconfigSecret
  BY <1>2, <1>3, <1>12
  DEF CheckControlPlaneMachineReady, FetchAndCreateKubeconfigSecret, Goto, Return
<1>. QED
  BY <1>2, <1>5, <1>6, <1>7, <1>8, <1>9, <1>10, <1>11, <1>12 DEF JobStep

LEMMA OperatorKeepsMachines ==
  ASSUME IInv, NothingRemoved, [OperatorNext]_operatorVars
  PROVE  NothingRemoved'
<1>1. \A m \in Machines : Exists(m) \/ versions[m] = <<Gone>>
  BY DEF NothingRemoved
<1>2. job # Idle => Exists(job.m) /\ job.m \in Machines
  BY DEF NothingRemoved, IInv, TypeOK, Job
<1>3. Job \cap {Idle} = {} /\ (job' = Idle \/ job' # Idle)
  BY IdleNotJob
<1>4. CASE JobStep
  <2>1. ASSUME NEW m \in Machines, Exists(m)
        PROVE  Exists(m)'
    <3>1. Stored(m)' = Stored(m) \/ Stored(m)' \in Status
      BY <1>4, <2>1, JobStepKeepsServer
    <3>. QED
      BY <2>1, <3>1, GoneAssumption DEF Exists
  <2>2. ASSUME NEW m \in Machines, versions[m] = <<Gone>>, ~Exists(m)
        PROVE  versions'[m] = versions[m]
    <3>1. job.m # m
      BY <1>2, <1>4, <2>2, JobStepSame
    <3>. QED
      BY <1>4, <3>1, JobStepWrites
  <2>3. (job # Idle => Exists(job.m))'
    <3>1. PICK n \in Machines : n = job.m /\ Exists(n)
      BY <1>2, <1>4, JobStepSame
    <3>2. Exists(n)'
      BY <2>1, <3>1
    <3>3. job' = Idle \/ job'.m = n
      BY <1>4, <3>1, JobStepSame
    <3>. QED
      BY <3>2, <3>3
  <2>. QED
    BY <1>1, <2>1, <2>2, <2>3 DEF NothingRemoved
<1>5. ASSUME NEW m \in Machines, Reconcile(m)
      PROVE  NothingRemoved'
  <2>1. Exists(m)
    <3>1. versions[m] # <<Gone>>
      <4>1. Head(<<Gone>>) = Gone
        OBVIOUS
      <4>. QED
        BY <1>5, <4>1 DEF Reconcile, Cached
    <3>. QED
      BY <1>1, <3>1
  <2>2. job'.m = m /\ UNCHANGED versions
    BY <1>5 DEF Reconcile, kubeVars
  <2>. QED
    BY <1>1, <2>1, <2>2 DEF NothingRemoved, Exists, Stored
<1>6. ASSUME NEW n \in Machines, WatchEvent(n)
      PROVE  NothingRemoved'
  <2>1. /\ job' = job /\ ~InSync(n) /\ Stored(n)' = Stored(n)
        /\ \A m \in Machines \ {n} : versions'[m] = versions[m]
    BY <1>6, DeliverLemma DEF WatchEvent, Deliver, IInv
  <2>2. Exists(n)
    <3>1. Len(<<Gone>>) = 1
      OBVIOUS
    <3>. QED
      BY <1>1, <2>1, <3>1 DEF InSync
  <2>3. \A m \in Machines : Exists(m)' <=> Exists(m)
    BY <2>1 DEF Exists, Stored
  <2>. QED
    BY <1>1, <1>2, <2>1, <2>2, <2>3 DEF NothingRemoved
<1>7. CASE Crash
  <2>1. \A m \in Machines : Exists(m)' <=> Exists(m)
    BY <1>7, ResyncLemma DEF Crash, IInv, Exists
  <2>2. \A m \in Machines : ~Exists(m) => versions'[m] = <<Gone>>
    BY <1>7 DEF Crash, Resync, Exists
  <2>. QED
    BY <1>7, <2>1, <2>2 DEF NothingRemoved, Crash, Return
<1>8. CASE CreateMachine
  <2>1. job' = job
    BY <1>8, CreateMachineLemma DEF IInv
  <2>2. PICK m \in Machines :
          /\ Stored(m)' = NewStatus
          /\ \A n \in Machines \ {m} :
               versions'[n] = versions[n] /\ Stored(n)' = Stored(n)
    BY <1>8, CreateMachineLemma DEF IInv
  <2>3. Exists(m)'
    BY <2>2, NewStatusType, GoneAssumption DEF Exists
  <2>4. \A n \in Machines \ {m} : Exists(n)' <=> Exists(n)
    BY <2>2 DEF Exists
  <2>5. \A n \in Machines : Exists(n) => Exists(n)'
    BY <2>3, <2>4
  <2>6. job # Idle => Exists(job.m)'
    <3>1. CASE job = Idle
      BY <3>1
    <3>2. CASE job # Idle
      <4>1. PICK n \in Machines : n = job.m /\ Exists(n)
        BY <1>2, <3>2
      <4>2. Exists(n)'
        BY <2>5, <4>1
      <4>. QED
        BY <2>1, <4>1, <4>2
    <3>. QED
      BY <3>1, <3>2
  <2>. QED
    BY <1>1, <2>1, <2>2, <2>3, <2>5, <2>6 DEF NothingRemoved
<1>9. CASE UNCHANGED versions /\ (job' = job \/ job' = Idle)
  BY <1>1, <1>9 DEF NothingRemoved, Exists, Stored
<1>10. \/ JobStep \/ Crash \/ CreateMachine
       \/ \E m \in Machines : Reconcile(m) \/ WatchEvent(m)
       \/ UNCHANGED versions /\ (job' = job \/ job' = Idle)
  BY DEF OperatorNext, operatorVars, vars, MachineStep, Alone, DeploymentStep,
         DeliverMachine, DeliverDeployment, Apply, AddOwnerRef, CrashOperator,
         CallFails, Return, SupplyToken, DeleteLeftover, Cloud, kubeVars
<1>. QED
  BY <1>4, <1>5, <1>6, <1>7, <1>8, <1>9, <1>10

LEMMA OperatorInitRemovesNone ==
  ASSUME OperatorInit
  PROVE  NothingRemoved
<1>1. job = Idle /\ \A m \in Machines : versions[m] \in {<<NewStatus>>, <<Gone>>}
  BY DEF OperatorInit, InitWith
<1>2. <<NewStatus>>[Len(<<NewStatus>>)] = NewStatus
  OBVIOUS
<1>. QED
  BY <1>1, <1>2, NewStatusType, GoneAssumption DEF NothingRemoved, Exists, Stored

-----------------------------------------------------------------------------
(* The firewall *)

\* The new machine is not marked; the running reconcile is of another one.
LEMMA CreateMachineWalled ==
  ASSUME IInv, WallInv, NothingRemoved, CreateMachine
  PROVE  WallInv'
<1>1. UNCHANGED <<policies, fw, job>>
  BY CreateMachineLemma DEF IInv, cloudVars
<1>2. PICK m \in Machines :
        /\ Stored(m) = Gone /\ Shown(m)' = {Gone, NewStatus}
        /\ \A n \in Machines \ {m} :
             Stored(n)' = Stored(n) /\ Shown(n)' = Shown(n)
  BY CreateMachineLemma DEF IInv
<1>3. \A n \in Machines : \A ip : Walled(n, ip)' <=> Walled(n, ip)
  BY <1>1 DEF Walled
<1>4. \A n \in Machines \ {m} : Guarded(n)' <=> Guarded(n)
  BY <1>2 DEF Guarded, Exists
<1>5. ShownWalled'
  <2>1. ASSUME NEW n \in Machines \ {m}, Guarded(n)', NEW o \in Shown(n)',
               o # Gone, o.bootstrap
        PROVE  Walled(n, o.ip)'
    BY <1>2, <1>3, <1>4, <2>1 DEF WallInv, ShownWalled
  <2>2. ~NewStatus.bootstrap
    BY DEF NewStatus
  <2>3. ASSUME NEW o \in Shown(m)'
        PROVE  o = Gone \/ ~o.bootstrap
    BY <1>2, <2>2, <2>3
  <2>. QED
    BY <2>1, <2>3 DEF ShownWalled
<1>6. job # Idle => JobWalled(job)'
  <2>1. CASE job = Idle
    BY <2>1
  <2>2. CASE job # Idle
    <3>1. PICK j \in Job : j = job /\ Exists(j.m) /\ JobWalled(j)
      BY <2>2 DEF NothingRemoved, WallInv, IInv, TypeOK
    <3>2. j.m \in Machines \ {m}
      BY <1>2, <3>1 DEF Exists, Job
    <3>3. JobWalled(j)'
      BY <1>1, <1>3, <1>4, <3>1, <3>2 DEF JobWalled
    <3>. QED
      BY <1>1, <3>1, <3>3
  <2>. QED
    BY <2>1, <2>2
<1>7. FirewallsMade'
  BY <1>1 DEF WallInv, FirewallsMade
<1>. QED
  BY <1>1, <1>5, <1>6, <1>7 DEF WallInv

LEMMA OperatorWalled ==
  ASSUME IInv, WallInv, NothingRemoved, [OperatorNext]_operatorVars
  PROVE  WallInv'
<1>1. CASE Elsewhere
  <2>1. UNCHANGED <<versions, policies, fw, job>>
    BY <1>1 DEF Elsewhere, kubeVars, cloudVars
  <2>2. /\ ShownWalled' <=> ShownWalled
        /\ FirewallsMade' <=> FirewallsMade
    BY <2>1 DEF ShownWalled, FirewallsMade, Guarded, Walled, Shown, Exists, Stored
  <2>3. JobWalled(job)' <=> JobWalled(job)
    BY <2>1 DEF JobWalled, Guarded, Walled, Exists, Stored
  <2>. QED
    BY <2>1, <2>2, <2>3 DEF WallInv
<1>. QED
  BY <1>1, OperatorSteps, NextWalled, CreateMachineWalled DEF IInv

-----------------------------------------------------------------------------
(* The events of the informer *)

\* Where x stands in the sequence s.
Places(s, x) == {i \in DOMAIN s : s[i] = x}

EventsOf(m) == Places(pending, m)

\* Each version of a machine that the cache does not show yet has its event,
\* and there are no other events.
EventsMatch ==
  /\ pending \in Seq(Machines)
  /\ \A m \in Machines : Len(versions[m]) = 1 + Cardinality(EventsOf(m))

\* The places of x in a sequence are finitely many; one more element adds its
\* place.
LEMMA PlacesAppend ==
  ASSUME NEW S, NEW s \in Seq(S), NEW e \in S, NEW x \in S
  PROVE  /\ Cardinality(Places(s, x)) \in Nat
         /\ Cardinality(Places(Append(s, e), x)) =
              Cardinality(Places(s, x)) + (IF x = e THEN 1 ELSE 0)
<1> DEFINE places == Places(s, x)
           after == Places(Append(s, e), x)
<1>1. Len(s) \in Nat /\ DOMAIN s = 1..Len(s)
  BY LenProperties
<1>2. PICK t \in Seq(S) : t = Append(s, e)
  BY AppendProperties
<1>3. /\ Len(t) = Len(s) + 1 /\ DOMAIN t = 1..(Len(s) + 1)
      /\ \A i \in 1..Len(s) : t[i] = s[i]
      /\ t[Len(s) + 1] = e
  BY <1>2, AppendProperties, LenProperties
<1>4. /\ places = {i \in DOMAIN s : s[i] = x}
      /\ after = {i \in DOMAIN t : t[i] = x}
  BY <1>2 DEF Places
<1>. HIDE DEF places, after
<1>5. IsFiniteSet(places) /\ Cardinality(places) \in Nat
  <2>1. IsFiniteSet(1..Len(s))
    BY <1>1, FS_Interval
  <2>2. places \in SUBSET (1..Len(s))
    BY <1>1, <1>4
  <2>. QED
    BY <2>1, <2>2, FS_Subset, FS_CardinalityType
<1>6. Len(s) + 1 \notin places
  BY <1>1, <1>4
<1>7. CASE x = e
  <2>1. after = places \cup {Len(s) + 1}
    BY <1>1, <1>3, <1>4, <1>7
  <2>. QED
    BY <1>5, <1>6, <1>7, <2>1, FS_AddElement DEF places, after
<1>8. CASE x # e
  <2>1. after = places
    BY <1>1, <1>3, <1>4, <1>8
  <2>. QED
    BY <1>5, <1>8, <2>1 DEF places, after
<1>. QED
  BY <1>5, <1>7, <1>8 DEF places, after

\* The tail has one place of the head less; the others move up.
LEMMA PlacesTail ==
  ASSUME NEW S, NEW s \in Seq(S), s # <<>>, NEW x \in S
  PROVE  /\ Cardinality(Places(Tail(s), x)) \in Nat
         /\ Cardinality(Places(s, x)) =
              Cardinality(Places(Tail(s), x)) + (IF x = Head(s) THEN 1 ELSE 0)
<1> DEFINE places == Places(s, x)
           after == Places(Tail(s), x)
<1>1. Len(s) \in Nat \ {0} /\ DOMAIN s = 1..Len(s) /\ Head(s) = s[1]
  BY LenProperties, EmptySeq
<1>2. PICK t \in Seq(S) : t = Tail(s)
  BY HeadTailProperties
<1>3. /\ Len(t) = Len(s) - 1 /\ DOMAIN t = 1..(Len(s) - 1)
      /\ \A i \in 1..(Len(s) - 1) : t[i] = s[i + 1]
  BY <1>2, HeadTailProperties, LenProperties
<1>4. /\ places = {i \in DOMAIN s : s[i] = x}
      /\ after = {i \in DOMAIN t : t[i] = x}
  BY <1>2 DEF Places
<1>. HIDE DEF places, after
<1>5. IsFiniteSet(after) /\ Cardinality(after) \in Nat
  <2>1. IsFiniteSet(1..(Len(s) - 1))
    BY <1>1, FS_Interval
  <2>2. after \in SUBSET (1..(Len(s) - 1))
    BY <1>3, <1>4
  <2>. QED
    BY <2>1, <2>2, FS_Subset, FS_CardinalityType
<1>6. PICK moved : moved = places \ {1}
  OBVIOUS
<1>7. IsFiniteSet(moved) /\ Cardinality(moved) = Cardinality(after)
  <2>1. PICK f : f = [i \in after |-> i + 1]
    OBVIOUS
  <2>2. \A i \in after : f[i] \in moved
    BY <1>1, <1>3, <1>4, <1>6, <2>1
  <2>3. \A j \in moved : j - 1 \in after /\ f[j - 1] = j
    BY <1>1, <1>3, <1>4, <1>6, <2>1
  <2>4. \A i, j \in after : f[i] = f[j] => i = j
    BY <1>1, <1>3, <1>4, <2>1
  <2>5. f \in Bijection(after, moved)
    BY <2>1, <2>2, <2>3, <2>4
    DEF Bijection, Injection, Surjection, IsInjective
  <2>. QED
    BY <1>5, <2>5, FS_Bijection DEF ExistsBijection
<1>8. CASE x = Head(s)
  <2>1. places = moved \cup {1} /\ 1 \notin moved
    BY <1>1, <1>4, <1>6, <1>8
  <2>. QED
    BY <1>5, <1>7, <1>8, <2>1, FS_AddElement DEF places, after
<1>9. CASE x # Head(s)
  <2>1. places = moved
    BY <1>1, <1>4, <1>6, <1>9
  <2>. QED
    BY <1>5, <1>7, <1>9, <2>1 DEF places, after
<1>. QED
  BY <1>5, <1>8, <1>9 DEF places, after

\* A write has its event.
LEMMA PutNotifies ==
  ASSUME TypeOK, EventsMatch, NEW m \in Machines, NEW obj \in Status \cup {Gone},
         Put(m, obj), Notify
  PROVE  /\ EventsMatch'
         /\ Len(versions'[m]) \in Nat \ {0, 1}
<1>1. /\ Len(versions[m]) \in Nat \ {0}
      /\ Len(versions'[m]) = Len(versions[m]) + 1
      /\ \A n \in Machines \ {m} : versions'[n] = versions[n]
  <2>1. versions[m] \in Seq(Status \cup {Gone}) /\ versions[m] # <<>>
    BY DEF TypeOK
  <2>2. versions'[m] = Append(versions[m], obj)
    BY DEF TypeOK, Put
  <2>3. \A n \in Machines \ {m} : versions'[n] = versions[n]
    BY PutLemma
  <2>. QED
    BY <2>1, <2>2, <2>3, SeqLength, AppendProperties
<1>2. \A n \in Machines : Len(versions[n]) \in Nat
  BY SeqLength DEF TypeOK
<1>3. {n \in Machines : Len(versions'[n]) > Len(versions[n])} = {m}
  BY <1>1, <1>2
<1>4. pending' = Append(pending, m)
  BY <1>3 DEF Notify
<1>5. pending' \in Seq(Machines)
  BY <1>4, AppendProperties DEF EventsMatch
<1>6. ASSUME NEW n \in Machines
      PROVE  Len(versions'[n]) = 1 + Cardinality(EventsOf(n)')
  <2>1. /\ Cardinality(EventsOf(n)) \in Nat
        /\ Cardinality(EventsOf(n)') =
             Cardinality(EventsOf(n)) + (IF n = m THEN 1 ELSE 0)
    BY <1>4, PlacesAppend DEF EventsMatch, EventsOf
  <2>2. Len(versions[n]) = 1 + Cardinality(EventsOf(n))
    BY DEF EventsMatch
  <2>. QED
    BY <1>1, <2>1, <2>2
<1>. QED
  BY <1>1, <1>5, <1>6 DEF EventsMatch

\* What writes no machine is no event.
LEMMA NothingNotifies ==
  ASSUME TypeOK, UNCHANGED versions, Notify
  PROVE  pending' = pending
<1>1. \A n \in Machines : Len(versions[n]) \in Nat
  BY SeqLength DEF TypeOK
<1>. QED
  BY <1>1 DEF Notify

\* A delivery uses up the oldest event.
LEMMA DeliverEvents ==
  ASSUME TypeOK, EventsMatch, NEW m \in Machines, pending # <<>>,
         m = Head(pending), Deliver(m), pending' = Tail(pending)
  PROVE  EventsMatch'
<1>1. pending' \in Seq(Machines)
  BY HeadTailProperties DEF EventsMatch
<1>2. /\ versions[m] \in Seq(Status \cup {Gone}) /\ versions[m] # <<>>
      /\ versions'[m] = Tail(versions[m])
  BY DEF TypeOK, Deliver
<1>3. Len(versions'[m]) = Len(versions[m]) - 1 /\ Len(versions[m]) \in Nat
  BY <1>2, SeqLength, HeadTailProperties
<1>4. \A n \in Machines \ {m} : versions'[n] = versions[n]
  BY DeliverLemma
<1>5. ASSUME NEW n \in Machines
      PROVE  Len(versions'[n]) = 1 + Cardinality(EventsOf(n)')
  <2>1. /\ Cardinality(EventsOf(n)') \in Nat
        /\ Cardinality(EventsOf(n)) =
             Cardinality(EventsOf(n)') + (IF n = m THEN 1 ELSE 0)
    BY PlacesTail DEF EventsMatch, EventsOf
  <2>2. Len(versions[n]) = 1 + Cardinality(EventsOf(n))
    BY DEF EventsMatch
  <2>. QED
    BY <1>3, <1>4, <2>1, <2>2
<1>. QED
  BY <1>1, <1>5 DEF EventsMatch

\* A restarted informer has seen everything.
LEMMA ResyncEvents ==
  ASSUME Resync, pending' = <<>>
  PROVE  EventsMatch'
<1>1. <<>> \in Seq(Machines) /\ DOMAIN <<>> = {}
  OBVIOUS
<1>2. ASSUME NEW m \in Machines
      PROVE  Len(versions'[m]) = 1 + Cardinality(EventsOf(m)')
  <2>1. EventsOf(m)' = {}
    BY <1>1 DEF EventsOf, Places
  <2>2. Cardinality(EventsOf(m)') = 0
    BY <2>1, FS_EmptySet
  <2>3. Len(versions'[m]) = 1
    BY DEF Resync
  <2>. QED
    BY <2>2, <2>3
<1>. QED
  BY <1>1, <1>2 DEF EventsMatch

-----------------------------------------------------------------------------
(* The MachineDeployment controller is not left asleep *)

Applied == [exists |-> TRUE, uid |-> 1, replicas |-> Replicas]

Batches == [pc : {"count", "create"}, uid : {1}, replicas : {Replicas}, todo : Int]

\* There is one deployment, with one size.
DeploymentSound ==
  /\ deployments \in Seq({Deployment!NoDeployment, Applied})
  /\ deployments # <<>>
  /\ batch \in Batches \cup {Deployment!Idle}

\* The control planes the cache shows.
Known == {m \in ControlPlanes : Cached(m) # Gone}

\* It runs or will be woken, by an event of the deployment or of a control
\* plane; or the control planes it saw were enough.
Awake ==
  \/ queued
  \/ batch # Deployment!Idle
  \/ Len(deployments) > 1
  \/ \E m \in ControlPlanes : ~InSync(m)
  \/ Deployment!Cached(deployments).exists => Cardinality(Known) >= Replicas

ServedInv == IInv /\ EventsMatch /\ DeploymentSound /\ Awake

LEMMA KnownFinite == IsFiniteSet(Known) /\ Cardinality(Known) \in Nat
<1>1. NameOf \in Injection(ControlPlanes, 1..Cardinality(ControlPlanes))
  BY OperatorAssumption DEF Injection, IsInjective
<1>2. IsFiniteSet(1..Cardinality(ControlPlanes))
  BY OperatorAssumption, FS_Interval
<1>3. IsFiniteSet(ControlPlanes)
  BY <1>1, <1>2, FS_Injection
<1>. QED
  BY <1>3, FS_Subset, FS_CardinalityType DEF Known

\* The instance of MachineDeployment counts as everybody does.
LEMMA SameCardinality ==
  ASSUME NEW S
  PROVE  Deployment!Cardinality(S) = Cardinality(S)
BY DEF Deployment!Cardinality, Cardinality

\* The list that the reconciler counts is that of the control planes in the
\* one cache.
LEMMA CountIsKnown ==
  ASSUME TypeOK, EventsMatch
  PROVE  Deployment!Cardinality(Deployment!Cached(Views)) = Cardinality(Known)
<1>1. Deployment!Cached(Views) = View(0)
  <2>1. PICK events : events = {i \in DOMAIN pending : pending[i] \in ControlPlanes}
    OBVIOUS
  <2>2. Cardinality(events) \in Nat
    <3>1. Len(pending) \in Nat /\ DOMAIN pending = 1..Len(pending)
      BY LenProperties DEF EventsMatch
    <3>2. IsFiniteSet(1..Len(pending)) /\ events \in SUBSET (1..Len(pending))
      BY <2>1, <3>1, FS_Interval
    <3>. QED
      BY <3>2, FS_Subset, FS_CardinalityType
  <2>3. PICK n \in Nat : n = Cardinality(events) + 1 /\ n > 0
    BY <2>2
  <2>4. DOMAIN Views = 1..n /\ Views[1] = View(0)
    BY <2>1, <2>3 DEF Views
  <2>5. Head(Views) = Views[1]
    OBVIOUS
  <2>. QED
    BY <2>4, <2>5 DEF Deployment!Cached
<1>2. View(0) = {[name |-> NameOf[m], owner |-> 1] : m \in Known}
  <2>1. ASSUME NEW m \in Machines
        PROVE  versions[m][1 + Cardinality({i \in 1..0 : pending[i] = m})] = Cached(m)
    <3>1. {i \in 1..0 : pending[i] = m} = {}
      OBVIOUS
    <3>2. Cardinality({i \in 1..0 : pending[i] = m}) = 0
      BY <3>1, FS_EmptySet
    <3>3. Head(versions[m]) = versions[m][1]
      BY DEF TypeOK
    <3>. QED
      BY <3>2, <3>3 DEF Cached
  <2>2. Known = {x \in ControlPlanes :
                   versions[x][1 + Cardinality({i \in 1..0 : pending[i] = x})] # Gone}
    BY <2>1, MachinesAssumption DEF Known
  <2>. QED
    BY <2>2 DEF View
<1>3. ExistsBijection(Known, View(0))
  <2>1. PICK f : f = [m \in Known |-> [name |-> NameOf[m], owner |-> 1]]
    OBVIOUS
  <2>2. \A m1, m2 \in Known : f[m1] = f[m2] => m1 = m2
    BY <2>1, OperatorAssumption DEF Known
  <2>3. f \in Bijection(Known, View(0))
    BY <1>2, <2>1, <2>2 DEF Bijection, Injection, Surjection, IsInjective
  <2>. QED
    BY <2>3 DEF ExistsBijection
<1>. QED
  BY <1>1, <1>3, KnownFinite, FS_Bijection, SameCardinality

\* The MachineDeployment controller: a reconcile ends without another one in
\* sight only when it saw the deployment gone or the control planes enough.
LEMMA DeploymentStepServes ==
  ASSUME ServedInv, DeploymentStep
  PROVE  ServedInv'
<1>1. IInv' /\ EventsMatch' /\ Known' = Known
  <2>1. UNCHANGED <<versions, pending>>
    BY DEF DeploymentStep, kubeVars
  <2>2. IInv'
    BY DeploymentStepElsewhere, ElsewhereSound DEF ServedInv, IInv
  <2>. QED
    BY <2>1, <2>2 DEF ServedInv, EventsMatch, EventsOf, Known, Cached
<1>2. /\ deployments' = deployments
      /\ Deployment!Cached(deployments) \in {Deployment!NoDeployment, Applied}
  BY HeadTailProperties
  DEF DeploymentStep, Deployment!Reconcile, Deployment!CountChildren,
      Deployment!CreateFails, Deployment!objectVars, Deployment!Cached,
      ServedInv, DeploymentSound
<1>3. batch \in Batches \cup {Deployment!Idle}
  BY DEF ServedInv, DeploymentSound
<1>4. PICK count \in Nat : /\ count = Cardinality(Known)
                           /\ count = Deployment!Cardinality(Deployment!Cached(Views))
  BY KnownFinite, CountIsKnown DEF ServedInv, IInv
<1>5. SUFFICES /\ batch' \in Batches \cup {Deployment!Idle}
               /\ \/ queued'
                  \/ batch' # Deployment!Idle
                  \/ Deployment!Cached(deployments).exists => count >= Replicas
  BY <1>1, <1>2, <1>4 DEF ServedInv, DeploymentSound, Awake
<1>6. CASE Deployment!Reconcile
  <2>1. PICK d \in {Deployment!NoDeployment, Applied} : d = Deployment!Cached(deployments)
    BY <1>2
  <2>2. CASE d = Applied
    <3>1. PICK b : b = [pc |-> "count", uid |-> 1, replicas |-> Replicas, todo |-> 0]
      OBVIOUS
    <3>2. b \in Batches /\ b # Deployment!Idle
      BY <3>1 DEF Batches, Deployment!Idle
    <3>3. batch' = b
      BY <1>6, <2>1, <2>2, <3>1 DEF Deployment!Reconcile, Applied
    <3>. QED
      BY <3>2, <3>3
  <2>3. CASE d = Deployment!NoDeployment
    <3>1. ~d.exists
      BY <2>3 DEF Deployment!NoDeployment
    <3>. QED
      BY <1>6, <2>1, <3>1 DEF Deployment!Reconcile
  <2>. QED
    BY <2>2, <2>3
<1>7. CASE Deployment!CountChildren
  <2>1. batch \in Batches /\ batch.replicas = Replicas
    BY <1>3, <1>7 DEF Deployment!CountChildren, Deployment!Idle, Batches
  <2>2. CASE Deployment!Retry
    BY <2>2 DEF Deployment!Retry
  <2>3. CASE count >= batch.replicas /\ Deployment!Return
    BY <2>1, <2>3 DEF Deployment!Return
  <2>4. CASE batch' = [batch EXCEPT !.pc = "create", !.todo = batch.replicas - count]
    <3>1. PICK b : b = [batch EXCEPT !.pc = "create", !.todo = batch.replicas - count]
      OBVIOUS
    <3>2. batch.replicas - count \in Int
      BY <2>1, OperatorAssumption
    <3>3. b \in Batches /\ b.pc = "create"
      BY <2>1, <3>1, <3>2 DEF Batches
    <3>4. b # Deployment!Idle
      BY <3>3 DEF Deployment!Idle
    <3>. QED
      BY <2>4, <3>1, <3>3, <3>4
  <2>. QED
    BY <1>4, <1>7, <2>2, <2>3, <2>4 DEF Deployment!CountChildren
<1>8. CASE Deployment!CreateFails
  BY <1>8 DEF Deployment!CreateFails, Deployment!Retry
<1>. QED
  BY <1>6, <1>7, <1>8 DEF DeploymentStep

\* A control plane that is written, or created, has its event on the way.
LEMMA WrittenServes ==
  ASSUME ServedInv, IInv', NEW m \in Machines, NEW obj \in Status \cup {Gone},
         Put(m, obj), Notify, DeploymentSound',
         UNCHANGED <<deployments, queued, batch>> \/ m \in ControlPlanes
  PROVE  ServedInv'
<1>1. EventsMatch' /\ Len(versions'[m]) \in Nat \ {0, 1}
  BY PutNotifies DEF ServedInv, IInv
<1>2. \A n \in Machines \ {m} : versions'[n] = versions[n]
  BY PutLemma DEF ServedInv, IInv
<1>3. CASE m \in ControlPlanes
  <2>1. ~InSync(m)'
    BY <1>1 DEF InSync
  <2>. QED
    BY <1>1, <1>3, <2>1 DEF ServedInv, Awake
<1>4. CASE m \notin ControlPlanes /\ UNCHANGED <<deployments, queued, batch>>
  <2>1. \A n \in ControlPlanes : versions'[n] = versions[n]
    BY <1>2, <1>4, MachinesAssumption
  <2>2. Known' = Known /\ \A n \in ControlPlanes : InSync(n)' <=> InSync(n)
    BY <2>1 DEF Known, Cached, InSync
  <2>. QED
    BY <1>1, <1>4, <2>2 DEF ServedInv, Awake
<1>. QED
  BY <1>3, <1>4

\* No version and no event is written: what matters is the controller.
LEMMA QuietServes ==
  ASSUME ServedInv, IInv', UNCHANGED <<versions, pending>>, DeploymentSound',
         queued' \/ Len(deployments') > 1 \/ UNCHANGED <<deployments, queued, batch>>
  PROVE  ServedInv'
<1>1. EventsMatch' /\ Known' = Known
  BY DEF ServedInv, EventsMatch, EventsOf, Known, Cached
<1>2. \A n \in ControlPlanes : InSync(n)' <=> InSync(n)
  BY DEF InSync
<1>. QED
  BY <1>1, <1>2 DEF ServedInv, Awake

LEMMA MachineStepServes ==
  ASSUME ServedInv, IInv', MachineStep
  PROVE  ServedInv'
<1>1. Notify /\ UNCHANGED <<deployments, queued, batch>>
  BY DEF MachineStep, Alone, deploymentVars
<1>2. DeploymentSound'
  BY <1>1 DEF ServedInv, DeploymentSound
<1>3. CASE UNCHANGED versions
  <2>1. pending' = pending
    BY <1>1, <1>3, NothingNotifies DEF ServedInv, IInv
  <2>. QED
    BY <1>1, <1>2, <1>3, <2>1, QuietServes
<1>4. CASE versions' # versions
  <2>1. JobStep
    BY <1>4 DEF MachineStep, Alone, Reconcile, CallFails, SupplyToken,
                DeleteLeftover, Cloud, kubeVars
  <2>2. PICK m \in Machines : versions'[m] # versions[m]
    BY <1>4 DEF ServedInv, IInv, TypeOK
  <2>3. PICK obj \in Status : Put(m, obj)
    BY <2>1, <2>2, JobStepWrites DEF ServedInv
  <2>. QED
    BY <1>1, <1>2, <2>3, WrittenServes
<1>. QED
  BY <1>3, <1>4

\* The batch goes on, or ends: its machine is an event of a control plane.
LEMMA CreateMachineServes ==
  ASSUME ServedInv, IInv', CreateMachine
  PROVE  ServedInv'
<1>1. PICK m \in ControlPlanes : Put(m, NewStatus)
  BY DEF CreateMachine
<1>2. Notify /\ deployments' = deployments
  BY DEF CreateMachine, Deployment!CreateMachine
<1>3. batch' \in Batches \cup {Deployment!Idle}
  <2>1. batch.pc = "create" /\ (\/ batch' = Deployment!Idle
                                \/ batch' = [batch EXCEPT !.todo = @ - 1])
    BY DEF CreateMachine, Deployment!CreateMachine, Deployment!Return
  <2>2. batch \in Batches
    BY <2>1 DEF ServedInv, DeploymentSound, Deployment!Idle
  <2>. QED
    BY <2>1, <2>2 DEF Batches
<1>4. DeploymentSound'
  BY <1>2, <1>3 DEF ServedInv, DeploymentSound
<1>. QED
  BY <1>1, <1>2, <1>4, WrittenServes, NewStatusType, MachinesAssumption

\* The event of a control plane queues the deployment.
LEMMA DeliverMachineServes ==
  ASSUME ServedInv, IInv', DeliverMachine
  PROVE  ServedInv'
<1>1. PICK m \in Machines :
        /\ pending # <<>> /\ m = Head(pending) /\ WatchEvent(m)
        /\ pending' = Tail(pending)
        /\ IF m \in ControlPlanes
           THEN Deployment!WatchMachines /\ UNCHANGED owned
           ELSE UNCHANGED deploymentVars
  BY DEF DeliverMachine
<1>2. Deliver(m)
  BY <1>1 DEF WatchEvent
<1>3. EventsMatch'
  BY <1>1, <1>2, DeliverEvents DEF ServedInv, IInv
<1>4. DeploymentSound'
  BY <1>1 DEF Deployment!WatchMachines, deploymentVars, ServedInv, DeploymentSound
<1>5. CASE m \in ControlPlanes
  BY <1>1, <1>3, <1>4, <1>5 DEF Deployment!WatchMachines, ServedInv, Awake
<1>6. CASE m \notin ControlPlanes
  <2>1. \A n \in ControlPlanes : versions'[n] = versions[n]
    BY <1>2, <1>6, DeliverLemma, MachinesAssumption DEF ServedInv, IInv
  <2>2. Known' = Known /\ \A n \in ControlPlanes : InSync(n)' <=> InSync(n)
    BY <2>1 DEF Known, Cached, InSync
  <2>. QED
    BY <1>1, <1>3, <1>4, <1>6, <2>2 DEF deploymentVars, ServedInv, Awake
<1>. QED
  BY <1>5, <1>6

\* A write of the deployment is an event of its own; its delivery queues it.
LEMMA DeploymentEventServes ==
  ASSUME ServedInv, IInv', DeliverDeployment \/ Apply \/ AddOwnerRef
  PROVE  ServedInv'
<1>1. UNCHANGED versions /\ pending' = pending /\ batch' = batch
  BY DEF DeliverDeployment, Apply, AddOwnerRef, vars, kubeVars,
         Deployment!WatchDeployment, Deployment!CreateDeployment,
         Deployment!CreateTemplate, Deployment!WriteDeployment
<1>2. PICK s \in Seq({Deployment!NoDeployment, Applied}) : s = deployments /\ s # <<>>
  BY DEF ServedInv, DeploymentSound
<1>3. /\ Len(s) \in Nat \ {0}
      /\ s[Len(s)] \in {Deployment!NoDeployment, Applied}
  BY <1>2, SeqLength, LenProperties, ElementOfSeq
<1>4. ASSUME NEW d \in {Deployment!NoDeployment, Applied},
             deployments' = Append(deployments, d)
      PROVE  ServedInv'
  <2>1. /\ deployments' \in Seq({Deployment!NoDeployment, Applied})
        /\ deployments' # <<>> /\ Len(deployments') > 1
    BY <1>2, <1>3, <1>4, AppendProperties
  <2>2. DeploymentSound'
    BY <1>1, <2>1 DEF ServedInv, DeploymentSound
  <2>. QED
    BY <1>1, <2>1, <2>2, QuietServes
<1>5. CASE DeliverDeployment
  <2>1. deployments' = Tail(deployments) /\ Len(deployments) > 1 /\ queued' = TRUE
    BY <1>5 DEF DeliverDeployment, Deployment!WatchDeployment
  <2>2. deployments' \in Seq({Deployment!NoDeployment, Applied}) /\ deployments' # <<>>
    <3>1. Len(s) > 1 /\ deployments' = Tail(s)
      BY <1>2, <2>1
    <3>2. /\ Tail(s) \in Seq({Deployment!NoDeployment, Applied})
          /\ Len(Tail(s)) = Len(s) - 1
      BY <1>2, HeadTailProperties
    <3>3. Len(Tail(s)) # 0
      BY <1>3, <3>1, <3>2
    <3>. QED
      BY <3>1, <3>2, <3>3, SeqLength
  <2>3. DeploymentSound'
    BY <1>1, <2>2 DEF ServedInv, DeploymentSound
  <2>. QED
    BY <1>1, <2>1, <2>3, QuietServes
<1>6. CASE Apply
  <2>1. CASE Deployment!CreateTemplate
    <3>1. UNCHANGED <<deployments, queued, batch>>
      BY <2>1 DEF Deployment!CreateTemplate
    <3>2. DeploymentSound'
      BY <3>1 DEF ServedInv, DeploymentSound
    <3>. QED
      BY <1>1, <3>1, <3>2, QuietServes
  <2>2. CASE Deployment!CreateDeployment(Replicas)
    <3>1. PICK d : d = s[Len(s)]
      OBVIOUS
    <3>2. /\ ~d.exists
          /\ deployments' = Append(deployments,
               [exists |-> TRUE, uid |-> d.uid + 1, replicas |-> Replicas])
      BY <1>2, <2>2, <3>1
      DEF Deployment!CreateDeployment, Deployment!Stored, Deployment!WriteDeployment
    <3>3. d = Deployment!NoDeployment
      BY <1>3, <3>1, <3>2 DEF Applied
    <3>4. [exists |-> TRUE, uid |-> d.uid + 1, replicas |-> Replicas] = Applied
      BY <3>3 DEF Applied, Deployment!NoDeployment
    <3>. QED
      BY <1>4, <3>2, <3>4
  <2>. QED
    BY <1>6, <2>1, <2>2 DEF Apply
<1>7. CASE AddOwnerRef
  BY <1>2, <1>3, <1>4, <1>7
  DEF AddOwnerRef, Deployment!Stored, Deployment!WriteDeployment
<1>. QED
  BY <1>5, <1>6, <1>7

\* Whoever takes over after a crash queues the deployment, if there is one.
LEMMA CrashServes ==
  ASSUME ServedInv, IInv', CrashOperator
  PROVE  ServedInv'
<1>1. PICK s \in Seq({Deployment!NoDeployment, Applied}) : s = deployments /\ s # <<>>
  BY DEF ServedInv, DeploymentSound
<1>2. PICK d \in {Deployment!NoDeployment, Applied} : d = s[Len(s)]
  BY <1>1, SeqLength, LenProperties, ElementOfSeq
<1>3. /\ deployments' = <<d>> /\ queued' = d.exists
      /\ batch' = Deployment!Idle /\ Resync /\ pending' = <<>>
  BY <1>1, <1>2 DEF CrashOperator, Crash, Deployment!Crash, Deployment!Stored
<1>4. EventsMatch'
  BY <1>3, ResyncEvents
<1>5. /\ <<d>> \in Seq({Deployment!NoDeployment, Applied})
      /\ <<d>> # <<>> /\ Head(<<d>>) = d
  OBVIOUS
<1>6. DeploymentSound'
  BY <1>3, <1>5 DEF DeploymentSound
<1>7. Awake'
  BY <1>3, <1>5 DEF Awake, Deployment!Cached
<1>. QED
  BY <1>4, <1>6, <1>7 DEF ServedInv

LEMMA OperatorNextServes ==
  ASSUME ServedInv, [OperatorNext]_operatorVars
  PROVE  ServedInv'
<1>1. IInv'
  BY OperatorNextSound DEF ServedInv
<1>2. CASE UNCHANGED operatorVars
  <2>1. UNCHANGED <<versions, pending, deployments, queued, batch>>
    BY <1>2 DEF operatorVars, vars, kubeVars, deploymentVars
  <2>2. DeploymentSound'
    BY <2>1 DEF ServedInv, DeploymentSound
  <2>. QED
    BY <1>1, <2>1, <2>2, QuietServes
<1>. QED
  BY <1>1, <1>2, DeploymentStepServes, MachineStepServes, CreateMachineServes,
     DeliverMachineServes, DeploymentEventServes, CrashServes DEF OperatorNext

LEMMA OperatorInitServes ==
  ASSUME OperatorInit
  PROVE  ServedInv
<1>1. IInv
  BY InitWithSound DEF OperatorInit
<1>2. EventsMatch
  <2>1. pending = <<>> /\ <<>> \in Seq(Machines) /\ DOMAIN <<>> = {}
    BY DEF OperatorInit
  <2>2. ASSUME NEW m \in Machines
        PROVE  Len(versions[m]) = 1 + Cardinality(EventsOf(m))
    <3>1. EventsOf(m) = {}
      BY <2>1 DEF EventsOf, Places
    <3>2. Cardinality(EventsOf(m)) = 0
      BY <3>1, FS_EmptySet
    <3>3. versions[m] \in {<<NewStatus>>, <<Gone>>}
      BY DEF OperatorInit, InitWith
    <3>4. Len(versions[m]) = 1
      BY <3>3
    <3>. QED
      BY <3>2, <3>4
  <2>. QED
    BY <2>1, <2>2 DEF EventsMatch
<1>3. PICK d : d = Deployment!NoDeployment
  OBVIOUS
<1>4. deployments = <<d>> /\ batch = Deployment!Idle
  BY <1>3 DEF OperatorInit
<1>5. <<d>> \in Seq({d, Applied}) /\ <<d>> # <<>> /\ Head(<<d>>) = d
  OBVIOUS
<1>6. DeploymentSound
  BY <1>3, <1>4, <1>5 DEF DeploymentSound
<1>7. Awake
  BY <1>3, <1>4, <1>5 DEF Awake, Deployment!Cached, Deployment!NoDeployment
<1>. QED
  BY <1>1, <1>2, <1>6, <1>7 DEF ServedInv

\* Without an event of a control plane under way the cache shows all of them.
LEMMA ServedByInvariant ==
  ASSUME ServedInv
  PROVE  DeploymentServed
<1>. SUFFICES ASSUME Asleep, Deployment!Stored(deployments).exists
              PROVE  Cardinality({m \in ControlPlanes : Exists(m)}) >= Replicas
  BY DEF DeploymentServed
<1>1. ASSUME NEW m \in ControlPlanes
      PROVE  InSync(m) /\ Cached(m) = Stored(m)
  <2>1. m \in Machines
    BY MachinesAssumption
  <2>2. EventsOf(m) = {}
    BY DEF Asleep, EventsOf, Places
  <2>3. Cardinality(EventsOf(m)) = 0
    BY <2>2, FS_EmptySet
  <2>4. Len(versions[m]) = 1 + Cardinality(EventsOf(m))
    BY <2>1 DEF ServedInv, EventsMatch
  <2>5. Len(versions[m]) = 1
    BY <2>3, <2>4
  <2>. QED
    BY <2>1, <2>5, StoredIsShown DEF InSync, ServedInv, IInv
<1>2. {m \in ControlPlanes : Exists(m)} = Known
  BY <1>1 DEF Known, Exists
<1>3. Deployment!Cached(deployments) = Deployment!Stored(deployments)
  <2>1. PICK s \in Seq({Deployment!NoDeployment, Applied}) :
          s = deployments /\ s # <<>> /\ Len(s) = 1
    BY DEF ServedInv, DeploymentSound, Asleep
  <2>. QED
    BY <2>1 DEF Deployment!Cached, Deployment!Stored
<1>4. Cardinality(Known) >= Replicas
  BY <1>1, <1>3 DEF ServedInv, Awake, Asleep
<1>. QED
  BY <1>2, <1>4

-----------------------------------------------------------------------------
(* Theorems *)

\* However many control planes the deployment controller makes too many, the
\* cluster has one ready control plane at most.
THEOREM OneReadyInOperator == OperatorSpec => []OneReadyControlPlane
BY OperatorInvariance, OneReadyByInvariant, PTL

\* CheckControlPlaneMachineReady and FetchAndCreateKubeconfigSecret find an
\* address wherever they index the list, also in a machine made while others
\* were bootstrapped and the quota of public IPs was spent on them.
THEOREM HasPublicIPInOperator == OperatorSpec => []BootstrapHasIP
BY OperatorInvariance, BootstrapHasIPByInvariant, PTL

\* The surplus control planes share no server and no public IP.
THEOREM RoutesHomeInOperator == OperatorSpec => []RecordedIPRoutesHome
BY OperatorInvariance, RoutesHomeByInvariant, PTL

\* The workers join a control plane that was bootstrapped, whichever of those
\* the deployment made that is.
THEOREM JoinsBootstrappedInOperator == OperatorSpec => []JoinTargetBootstrapped
BY OperatorInvariance, JoinTargetByInvariant, PTL

\* No create, and nothing else the operator does, exchanges or forgets the
\* server a machine records.
THEOREM ServerIsKeptInOperator == OperatorSpec => IdStable
<1>1. IInv /\ [OperatorNext]_operatorVars
        => [\A m \in Machines :
              Exists(m) /\ Stored(m).id # NoVM
                => ~Exists(m)' \/ Stored(m)'.id = Stored(m).id]_vars
  BY OperatorKeepsServer DEF Exists
<1>. QED
  BY <1>1, OperatorInvariance, PTL DEF OperatorSpec, IdStable

\* A joined worker stays as it is, also while control planes are still made.
THEOREM JoinedIsKeptInOperator == OperatorSpec => JoinedIsFinal
<1>1. IInv /\ [OperatorNext]_operatorVars
        => [\A m \in Machines :
              Exists(m) /\ Stored(m).joined
                => ~Exists(m)' \/ Stored(m)' = Stored(m)]_vars
  BY OperatorKeepsServer DEF Exists
<1>. QED
  BY <1>1, OperatorInvariance, PTL DEF OperatorSpec, JoinedIsFinal

\* The MachineDeployment controller never sleeps for good while the deployment
\* lacks control planes, although all that wakes it is the informer it shares.
THEOREM ServedInOperator == OperatorSpec => []DeploymentServed
BY OperatorInitServes, OperatorNextServes, ServedByInvariant, PTL DEF OperatorSpec

\* The composed operator implements the lock: control planes that compete from
\* the moment they are made get at most one announcement out of it.
THEOREM LockInOperator == OperatorSpec => ImplementsBootstrapLock
<1>1. OperatorInit => LockInv /\ Lock!Init
  BY InitWithSound, OwnSecretInit, InitSimulates DEF OperatorInit, LockInv
<1>2. LockInv /\ [OperatorNext]_operatorVars
        => LockInv' /\ [Lock!Next]_(Lock!vars)
  <2>1. LockInv /\ [OperatorNext]_operatorVars => LockInv'
    BY OperatorNextSound, OperatorOwnSecret DEF LockInv
  <2>2. LockInv' => TypeOK'
    BY DEF LockInv, IInv
  <2>. QED
    BY <2>1, <2>2, OperatorSimulates
<1>. QED
  BY <1>1, <1>2, PTL DEF OperatorSpec, ImplementsBootstrapLock, Lock!Spec

\* Machines that are made while others are being bootstrapped are not marked
\* BootstrapReady before their firewall policy is there and on record, either.
THEOREM WalledInOperator == OperatorSpec => []FirewallBeforeBootstrap
<1>1. OperatorInit => IInv /\ WallInv /\ NothingRemoved
  BY InitWithSound, WallInit, OperatorInitRemovesNone DEF OperatorInit
<1>2. IInv /\ WallInv /\ NothingRemoved /\ [OperatorNext]_operatorVars
        => (IInv /\ WallInv /\ NothingRemoved)'
  BY OperatorNextSound, OperatorWalled, OperatorKeepsMachines
<1>. QED
  BY <1>1, <1>2, WalledByInvariant, PTL DEF OperatorSpec
=============================================================================
