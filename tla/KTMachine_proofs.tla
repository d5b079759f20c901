--------------------------- MODULE KTMachine_proofs ---------------------------
(***************************************************************************)
(* Proofs about KTMachine, for every set of machines, clusters, servers    *)
(* and public IPs, and every bound on the disturbances.                    *)
(*                                                                         *)
(* The inductive invariant IInv says, of every version of an object that   *)
(* the cache may still show and of the copy a running reconcile holds,     *)
(* that what it records of the cloud and of the secrets is so (Sound).     *)
(* Sound is stable because servers, static NAT entries and kubeconfig      *)
(* secrets are never taken away or given to another machine (Monotone).    *)
(***************************************************************************)
EXTENDS KTMachine, SequenceTheorems, TLAPS

-----------------------------------------------------------------------------
(* The inductive invariant *)

\* The versions of m from the one in the cache to the stored one.
Shown(m) == {versions[m][i] : i \in DOMAIN versions[m]}

\* What a status o of machine m records is so.
Sound(m, o) ==
  /\ o.id = NoVM <=> o.status = ""
  /\ o.id # NoVM => vms[o.id].owner = m
  /\ o.ip # NoIP => o.id # NoVM /\ nat[o.ip] = o.id
  /\ o.bootstrap => o.ip # NoIP
  /\ o.ready => o.bootstrap /\ m \in ControlPlanes /\ secrets[ClusterOf[m]] = m
  /\ o.joined => o.id = NoVM /\ m \notin ControlPlanes

VersionsSound ==
  \A m \in Machines : \A o \in Shown(m) : o # Gone => Sound(m, o)

\* Server u is that of a control plane that holds its cluster's secret.
JoinTarget(u) ==
  /\ u \in VMs
  /\ \E m \in ControlPlanes : vms[u].owner = m /\ secrets[ClusterOf[m]] = m

ServersSound ==
  \A v \in VMs :
    /\ vms[v].owner = NoMachine <=> vms[v].state = "none"
    /\ vms[v].joins # NoVM => JoinTarget(vms[v].joins)

CreateSteps == {"createVM", "findControlPlane", "createWorkerVM", "recordVM",
                "markJoined"}

NetworkSteps == {"attachIP", "recordIP", "addFirewall", "createFirewall",
                 "recordJob", "markBootstrap", "probe", "createSecret",
                 "markReady"}

\* What a reconcile j knows at its step.
StepSound(j) ==
  /\ j.pc \in CreateSteps => j.obj.id = NoVM /\ ~j.obj.joined
  /\ j.pc \in {"findControlPlane", "createWorkerVM", "markJoined"}
       => j.m \notin ControlPlanes
  /\ j.pc \in {"createVM"} \cup NetworkSteps => j.m \in ControlPlanes
  /\ j.pc = "createWorkerVM" => JoinTarget(j.vm)
  /\ j.pc = "recordVM" => j.vm \in VMs /\ vms[j.vm].owner = j.m
  /\ j.pc \in {"syncStatus"} \cup NetworkSteps => j.obj.id # NoVM
  /\ j.pc = "syncStatus" => ~j.obj.bootstrap
  /\ j.pc = "recordIP" => j.ip \in PublicIPs /\ nat[j.ip] = j.obj.id
  /\ j.pc \in {"addFirewall", "createFirewall", "recordJob", "markBootstrap",
               "probe", "createSecret", "markReady"} => j.obj.ip # NoIP
  /\ j.pc \in {"probe", "createSecret", "markReady"} => j.obj.bootstrap
  /\ j.pc = "markReady" => secrets[ClusterOf[j.m]] = j.m

\* A copy with the stored resourceVersion is the stored status, or the cloud's
\* newer state of the same server that is about to replace it.
FreshSound(j) ==
  j.fresh => /\ Stored(j.m) # Gone
             /\ IF j.pc = "syncStatus" THEN Stored(j.m).id = j.obj.id
                                       ELSE Stored(j.m) = j.obj

JobSound ==
  job # Idle => Sound(job.m, job.obj) /\ StepSound(job) /\ FreshSound(job)

IInv == TypeOK /\ ServersSound /\ VersionsSound /\ JobSound

-----------------------------------------------------------------------------
(* The versions of an object *)

LEMMA SeqLength ==
  ASSUME NEW S, NEW s \in Seq(S)
  PROVE  /\ Len(s) \in Nat
         /\ s # <<>> <=> Len(s) # 0
  BY EmptySeq, LenProperties

LEMMA SingletonSeq ==
  ASSUME NEW S, NEW x \in S
  PROVE  <<x>> \in Seq(S)
  OBVIOUS

LEMMA StoredIsShown ==
  ASSUME TypeOK, NEW m \in Machines
  PROVE  /\ Stored(m) \in Shown(m)
         /\ Cached(m) \in Shown(m)
         /\ Stored(m) \in Status \cup {Gone}
         /\ Cached(m) \in Status \cup {Gone}
         /\ InSync(m) => Cached(m) = Stored(m)
<1>1. /\ versions[m] \in Seq(Status \cup {Gone})
      /\ versions[m] # <<>>
  BY DEF TypeOK
<1>2. Len(versions[m]) \in Nat \ {0}
  BY <1>1
<1>3. /\ 1 \in DOMAIN versions[m]
      /\ Len(versions[m]) \in DOMAIN versions[m]
      /\ Head(versions[m]) = versions[m][1]
  BY <1>1, <1>2
<1>. QED
  BY <1>1, <1>2, <1>3 DEF Stored, Cached, Shown, InSync

\* A write adds its object as the newest version, and nothing else.
LEMMA PutLemma ==
  ASSUME TypeOK, NEW m \in Machines, NEW obj \in Status \cup {Gone}, Put(m, obj)
  PROVE  /\ versions' \in [Machines -> Seq(Status \cup {Gone})]
         /\ \A n \in Machines : versions'[n] # <<>>
         /\ Stored(m)' = obj
         /\ Shown(m)' = Shown(m) \cup {obj}
         /\ \A n \in Machines \ {m} : versions'[n] = versions[n]
<1>1. /\ versions \in [Machines -> Seq(Status \cup {Gone})]
      /\ \A n \in Machines : versions[n] # <<>>
  BY DEF TypeOK
<1>2. versions' = [versions EXCEPT ![m] = Append(@, obj)]
  BY DEF Put
<1>3. versions'[m] = Append(versions[m], obj)
  BY <1>1, <1>2
<1>4. /\ Append(versions[m], obj) \in Seq(Status \cup {Gone})
      /\ Len(Append(versions[m], obj)) = Len(versions[m]) + 1
      /\ Append(versions[m], obj)[Len(versions[m]) + 1] = obj
      /\ \A i \in 1..Len(versions[m]) :
           Append(versions[m], obj)[i] = versions[m][i]
  BY <1>1
<1>5. DOMAIN versions[m] = 1..Len(versions[m])
  BY <1>1
<1>6. DOMAIN versions'[m] = 1..(Len(versions[m]) + 1)
  BY <1>3, <1>4
<1>7. Len(versions[m]) \in Nat
  BY <1>1
<1>8. Shown(m)' = Shown(m) \cup {obj}
  BY <1>3, <1>4, <1>5, <1>6, <1>7 DEF Shown
<1>. QED
  BY <1>1, <1>2, <1>3, <1>4, <1>7, <1>8 DEF Stored

\* A watch event takes versions away from the cache's end only.
LEMMA DeliverLemma ==
  ASSUME TypeOK, NEW m \in Machines, Deliver(m)
  PROVE  /\ versions' \in [Machines -> Seq(Status \cup {Gone})]
         /\ \A n \in Machines : versions'[n] # <<>>
         /\ Stored(m)' = Stored(m)
         /\ Shown(m)' \subseteq Shown(m)
         /\ \A n \in Machines \ {m} : versions'[n] = versions[n]
<1>1. /\ versions \in [Machines -> Seq(Status \cup {Gone})]
      /\ \A n \in Machines : versions[n] # <<>>
  BY DEF TypeOK
<1>2. versions' = [versions EXCEPT ![m] = Tail(@)] /\ Len(versions[m]) # 1
  BY DEF Deliver, InSync
<1>3. versions'[m] = Tail(versions[m])
  BY <1>1, <1>2
<1>4. PICK s \in Seq(Status \cup {Gone}) :
        s = versions[m] /\ s # <<>> /\ Len(s) # 1
  BY <1>1, <1>2
<1>5. s # <<>> /\ Len(s) \in Nat \ {0, 1}
  BY <1>4, SeqLength
<1>6. /\ Tail(s) \in Seq(Status \cup {Gone})
      /\ Len(Tail(s)) = Len(s) - 1
      /\ \A i \in 1..Len(Tail(s)) : Tail(s)[i] = s[i + 1]
  BY <1>5, HeadTailProperties
<1>7. Tail(s) # <<>>
  <2>1. Len(Tail(s)) # 0
    BY <1>5, <1>6
  <2>. QED
    BY <1>6, <2>1, SeqLength
<1>8. Shown(m)' \subseteq Shown(m)
  <2>1. \A i \in 1..Len(Tail(s)) : i + 1 \in 1..Len(s)
    BY <1>5, <1>6
  <2>2. DOMAIN s = 1..Len(s) /\ DOMAIN Tail(s) = 1..Len(Tail(s))
    BY <1>6, LenProperties
  <2>. QED
    BY <1>3, <1>4, <1>6, <2>1, <2>2 DEF Shown
<1>9. Stored(m)' = Stored(m)
  <2>1. Tail(s)[Len(Tail(s))] = s[Len(s)]
    BY <1>5, <1>6
  <2>. QED
    BY <1>3, <1>4, <2>1 DEF Stored
<1>. QED
  BY <1>1, <1>2, <1>3, <1>4, <1>6, <1>7, <1>8, <1>9

\* A restart leaves each object its stored version.
LEMMA ResyncLemma ==
  ASSUME TypeOK, Resync
  PROVE  /\ versions' \in [Machines -> Seq(Status \cup {Gone})]
         /\ \A n \in Machines : /\ versions'[n] # <<>>
                                /\ Stored(n)' = Stored(n)
                                /\ Shown(n)' \subseteq Shown(n)
<1>1. \A n \in Machines : Stored(n) \in Shown(n) /\ Stored(n) \in Status \cup {Gone}
  BY StoredIsShown
<1>2. \A n \in Machines : versions'[n] = <<Stored(n)>>
  BY DEF Resync
<1>3. \A n \in Machines : /\ Len(versions'[n]) = 1
                          /\ DOMAIN versions'[n] = {1}
                          /\ versions'[n][1] = Stored(n)
  BY <1>2
<1>4. \A n \in Machines : Shown(n)' = {Stored(n)}
  BY <1>3 DEF Shown
<1>5. \A n \in Machines : Stored(n)' = Stored(n)
  BY <1>3 DEF Stored
<1>6. \A n \in Machines : <<Stored(n)>> \in Seq(Status \cup {Gone})
  BY <1>1, SingletonSeq
<1>7. versions' \in [Machines -> Seq(Status \cup {Gone})]
  BY <1>6 DEF Resync
<1>8. \A n \in Machines : versions'[n] # <<>>
  BY <1>3, EmptySeq
<1>. QED
  BY <1>1, <1>4, <1>5, <1>7, <1>8

-----------------------------------------------------------------------------
(* What is never taken back *)

Monotone ==
  /\ \A v \in VMs : vms[v].owner # NoMachine => vms'[v].owner = vms[v].owner
  /\ \A p \in PublicIPs : nat[p] # NoVM => nat'[p] = nat[p]
  /\ \A c \in Clusters : secrets[c] \in Machines => secrets'[c] = secrets[c]

LEMMA SubmitMonotone ==
  ASSUME TypeOK, NEW u, NEW created, NEW refused,
         SubmitServer(u, created, refused)
  PROVE  \A v \in VMs : vms[v].owner # NoMachine => vms'[v] = vms[v]
<1>1. CASE UNCHANGED vms
  BY <1>1
<1>2. CASE \E v \in FreeServers : PostServer(v, job.m, u)
  <2>1. PICK v \in FreeServers : PostServer(v, job.m, u)
    BY <1>2
  <2>2. v \in VMs /\ vms[v].owner = NoMachine
    BY DEF FreeServers, NoServer
  <2>3. \A w \in VMs : w # v => vms'[w] = vms[w]
    BY <2>1, <2>2 DEF PostServer, TypeOK
  <2>. QED
    BY <2>2, <2>3
<1>. QED
  BY <1>1, <1>2 DEF SubmitServer

LEMMA CloudMonotone ==
  ASSUME TypeOK, NEW v \in VMs, Cloud(v)
  PROVE  Monotone
<1>1. UNCHANGED <<nat, secrets>>
  BY DEF Cloud, BuildServer, ServeKubeconfig, RestartServer, StopServer, kubeVars
<1>. USE DEF TypeOK
<1>2. \A w \in VMs : vms'[w].owner = vms[w].owner
  <2>1. CASE BuildServer(v)
    BY <2>1 DEF BuildServer
  <2>2. CASE ServeKubeconfig(v)
    BY <2>2 DEF ServeKubeconfig
  <2>3. CASE RestartServer(v)
    BY <2>3 DEF RestartServer
  <2>4. CASE StopServer(v)
    BY <2>4 DEF StopServer
  <2>. QED
    BY <2>1, <2>2, <2>3, <2>4 DEF Cloud
<1>. QED
  BY <1>1, <1>2 DEF Monotone

LEMMA JobStepMonotone ==
  ASSUME TypeOK, JobStep
  PROVE  Monotone
<1>1. CASE CreateVM
  BY <1>1, SubmitMonotone DEF CreateVM, Monotone, kubeVars
<1>2. CASE CreateWorkerVM
  BY <1>2, SubmitMonotone DEF CreateWorkerVM, Monotone, kubeVars
<1>3. CASE AttachPublicIP
  BY <1>3 DEF AttachPublicIP, PostStaticNat, FreeIPs, Monotone, TypeOK, kubeVars
<1>4. CASE FetchAndCreateKubeconfigSecret
  BY <1>4, SentinelsAssumption
  DEF FetchAndCreateKubeconfigSecret, Monotone, TypeOK, cloudVars
<1>5. CASE UNCHANGED <<vms, nat, secrets>>
  BY <1>5 DEF Monotone
<1>6. \/ CreateVM \/ CreateWorkerVM \/ AttachPublicIP
      \/ FetchAndCreateKubeconfigSecret \/ UNCHANGED <<vms, nat, secrets>>
  BY DEF JobStep, UpdateVMStatus, JoinControlPlane, MarkJoined, GetCreatedVM,
         SyncStatus, RecordPublicIP, AddFirewallSettings, CreateFirewallObject,
         RecordFirewallJob, MarkBootstrap, CheckControlPlaneMachineReady,
         MarkReady, kubeVars, cloudVars
<1>. QED
  BY <1>1, <1>2, <1>3, <1>4, <1>5, <1>6

\* Servers keep their owner, static NAT entries their server and kubeconfig
\* secrets their machine in every step.
LEMMA NextMonotone ==
  ASSUME TypeOK, [Next]_vars
  PROVE  Monotone
<1>1. CASE JobStep
  BY <1>1, JobStepMonotone
<1>2. CASE \E v \in VMs : Cloud(v)
  BY <1>2, CloudMonotone
<1>3. CASE \E c \in Clusters : DeleteLeftover(c)
  BY <1>3, SentinelsAssumption DEF DeleteLeftover, Monotone, TypeOK, cloudVars
<1>4. CASE UNCHANGED <<vms, nat, secrets>>
  BY <1>4 DEF Monotone
<1>5. CASE \E m \in Machines :
             WatchEvent(m) \/ UserEdit(m) \/ DeleteMachine(m) \/ CollectFirewall(m)
  BY <1>5, <1>4 DEF WatchEvent, UserEdit, DeleteMachine, OutsideWrite,
                    CollectFirewall, cloudVars
<1>. QED
  BY <1>1, <1>2, <1>3, <1>4, <1>5
  DEF Next, vars, Reconcile, CallFails, Crash, SupplyToken, ExpireToken, kubeVars,
      cloudVars

LEMMA SoundStable ==
  ASSUME TypeOK, Monotone, NEW m \in Machines, NEW o \in Status, Sound(m, o)
  PROVE  Sound(m, o)'
<1>1. o.id # NoVM => vms'[o.id].owner = m
  BY SentinelsAssumption DEF Sound, Monotone, Status
<1>2. o.ip # NoIP => nat'[o.ip] = o.id
  BY DEF Sound, Monotone, Status
<1>3. o.ready => secrets'[ClusterOf[m]] = m
  BY MachinesAssumption DEF Sound, Monotone
<1>. QED
  BY <1>1, <1>2, <1>3 DEF Sound

LEMMA JoinTargetStable ==
  ASSUME TypeOK, Monotone, NEW u, JoinTarget(u)
  PROVE  JoinTarget(u)'
<1>1. PICK m \in ControlPlanes : vms[u].owner = m /\ secrets[ClusterOf[m]] = m
  BY DEF JoinTarget
<1>2. m \in Machines /\ ClusterOf[m] \in Clusters /\ m # NoMachine
  BY MachinesAssumption, SentinelsAssumption
<1>3. vms'[u].owner = m /\ secrets'[ClusterOf[m]] = m
  BY <1>1, <1>2 DEF Monotone, JoinTarget
<1>. QED
  BY <1>3 DEF JoinTarget

LEMMA StepSoundStable ==
  ASSUME TypeOK, Monotone, NEW j \in Job, StepSound(j)
  PROVE  StepSound(j)'
<1>1. j.pc = "createWorkerVM" => JoinTarget(j.vm)'
  BY JoinTargetStable DEF StepSound
<1>2. j.pc = "recordVM" => j.vm \in VMs /\ vms'[j.vm].owner = j.m
  BY SentinelsAssumption DEF StepSound, Monotone, Job
<1>3. j.pc = "recordIP" => j.ip \in PublicIPs /\ nat'[j.ip] = j.obj.id
  BY DEF StepSound, Monotone, NetworkSteps
<1>4. j.pc = "markReady" => secrets'[ClusterOf[j.m]] = j.m
  BY MachinesAssumption DEF StepSound, Monotone, Job
<1>. QED
  BY <1>1, <1>2, <1>3, <1>4 DEF StepSound

-----------------------------------------------------------------------------
(* How the parts of the invariant are re-established *)

LEMMA VersionsKept ==
  ASSUME TypeOK, Monotone, VersionsSound,
         \A m \in Machines : \A o \in Shown(m)' :
           o \in Shown(m) \/ o = Gone \/ (o \in Status /\ Sound(m, o))
  PROVE  VersionsSound'
<1>1. SUFFICES ASSUME NEW m \in Machines, NEW o \in Shown(m)', o # Gone
               PROVE  Sound(m, o)'
  BY DEF VersionsSound
<1>2. o \in Shown(m) => o \in Status
  BY <1>1, ElementOfSeq, LenProperties DEF Shown, TypeOK
<1>3. o \in Status /\ Sound(m, o)
  BY <1>1, <1>2 DEF VersionsSound
<1>. QED
  BY <1>3, SoundStable

LEMMA ServersKept ==
  ASSUME TypeOK, Monotone, ServersSound,
         \A v \in VMs :
           /\ vms'[v].owner = NoMachine <=> vms'[v].state = "none"
           /\ \/ vms'[v].joins = vms[v].joins
              \/ vms'[v].joins = NoVM
              \/ JoinTarget(vms'[v].joins)
  PROVE  ServersSound'
<1>1. ASSUME NEW v \in VMs, NEW u, u = vms'[v].joins, u # NoVM
      PROVE  JoinTarget(u)'
  <2>1. JoinTarget(u)
    BY <1>1 DEF ServersSound
  <2>. QED
    BY <2>1, JoinTargetStable
<1>2. \A v \in VMs : vms'[v].joins # NoVM => JoinTarget(vms[v].joins)'
  BY <1>1 DEF JoinTarget
<1>. QED
  BY <1>2 DEF ServersSound

LEMMA JobKept ==
  ASSUME TypeOK, Monotone, NEW j \in Job, job' = j,
         Sound(j.m, j.obj), StepSound(j), FreshSound(j)'
  PROVE  JobSound'
<1>1. Sound(j.m, j.obj)' /\ StepSound(j)'
  BY SoundStable, StepSoundStable DEF Job
<1>. QED
  BY <1>1 DEF JobSound

LEMMA IdleNotJob == Idle \notin Job
BY DEF Idle, Job, Steps

LEMMA DisturbType ==
  ASSUME TypeOK, NEW kind, Disturb(kind) \/ Calm
  PROVE  disturbed' \in 0..MaxDisturbances
BY DisturbancesAssumption DEF Disturb, Calm, TypeOK

\* A step that moves the reconcile on and leaves the objects, the servers, the
\* static NAT entries and the secrets alone.
LEMMA JobMoves ==
  ASSUME IInv, NEW j \in Job \cup {Idle}, job' = j,
         j # Idle => Sound(j.m, j.obj) /\ StepSound(j) /\ FreshSound(j),
         UNCHANGED <<versions, vms, nat, secrets>>,
         policies' \subseteq PublicIPs,
         tokens' \in [Clusters -> Tokens],
         fw' \in [Machines -> Firewall],
         disturbed' \in 0..MaxDisturbances
  PROVE  IInv'
<1>1. Monotone
  BY DEF Monotone
<1>2. TypeOK'
  BY DEF IInv, TypeOK
<1>3. ServersSound'
  BY <1>1, ServersKept DEF IInv, ServersSound
<1>4. \A m \in Machines : Shown(m)' = Shown(m) /\ Stored(m)' = Stored(m)
  BY DEF Shown, Stored
<1>5. VersionsSound'
  BY <1>1, <1>4, VersionsKept DEF IInv
<1>6. JobSound'
  <2>1. CASE j = Idle
    BY <2>1 DEF JobSound
  <2>2. CASE j # Idle
    <3>1. j \in Job /\ j.m \in Machines
      BY <2>2 DEF Job
    <3>2. FreshSound(j)'
      BY <2>2, <3>1, <1>4 DEF FreshSound
    <3>. QED
      BY <2>2, <3>1, <3>2, <1>1, JobKept DEF IInv
  <2>. QED
    BY <2>1, <2>2
<1>. QED
  BY <1>2, <1>3, <1>5, <1>6 DEF IInv

\* A status update, successful or refused.
LEMMA UpdateSound ==
  ASSUME IInv, job \in Job, NEW obj \in Status, NEW pc \in Steps \cup {"idle"},
         pc # "syncStatus", Sound(job.m, obj),
         pc # "idle" => StepSound([job EXCEPT !.pc = pc, !.obj = obj]),
         Update(obj, pc),
         UNCHANGED <<secrets, fw, cloudVars, tokens, disturbed>>
  PROVE  IInv'
<1>1. Monotone
  BY DEF Monotone, cloudVars
<1>2. ServersSound'
  BY <1>1, ServersKept DEF IInv, ServersSound, cloudVars
<1>3. job.m \in Machines
  BY DEF Job
<1>4. CASE UNCHANGED versions /\ Return
  BY <1>4, JobMoves DEF IInv, TypeOK, Return, cloudVars
<1>5. CASE job.fresh /\ Put(job.m, obj) /\ Continue(pc, obj)
  <2>1. PICK n \in Machines : n = job.m
    BY <1>3
  <2>2. Put(n, obj)
    BY <1>5, <2>1
  <2>3. /\ versions' \in [Machines -> Seq(Status \cup {Gone})]
        /\ \A k \in Machines : versions'[k] # <<>>
        /\ \A k \in Machines \ {n} : versions'[k] = versions[k]
    BY <2>2, PutLemma DEF IInv
  <2>4. Stored(n)' = obj /\ Shown(n)' = Shown(n) \cup {obj}
    BY <2>2, PutLemma DEF IInv
  <2>5. \A k \in Machines \ {n} : Shown(k)' = Shown(k)
    BY <2>3 DEF Shown
  <2>6. VersionsSound'
    BY <1>1, <2>1, <2>4, <2>5, VersionsKept DEF IInv
  <2>7. CASE pc = "idle"
    <3>1. job' = Idle
      BY <1>5, <2>7 DEF Continue, Return
    <3>2. TypeOK'
      BY <2>3, <3>1 DEF IInv, TypeOK, cloudVars
    <3>3. JobSound'
      BY <3>1 DEF JobSound
    <3>. QED
      BY <1>2, <2>6, <3>2, <3>3 DEF IInv
  <2>8. CASE pc # "idle"
    <3>1. PICK j \in Job : j = [job EXCEPT !.pc = pc, !.obj = obj]
      BY <2>8 DEF Job
    <3>2. job' = j /\ j.m = n /\ j.obj = obj /\ j.pc = pc
      BY <1>5, <2>1, <2>8, <3>1 DEF Continue, Job
    <3>3. FreshSound(j)'
      BY <2>4, <3>2, GoneAssumption DEF FreshSound
    <3>4. JobSound'
      BY <1>1, <2>1, <2>8, <3>1, <3>2, <3>3, JobKept DEF IInv
    <3>5. TypeOK'
      BY <2>3, <3>2 DEF IInv, TypeOK, cloudVars
    <3>. QED
      BY <1>2, <2>6, <3>4, <3>5 DEF IInv
  <2>. QED
    BY <2>7, <2>8
<1>. QED
  BY <1>4, <1>5 DEF Update

-----------------------------------------------------------------------------
(* The steps of a reconcile *)

LEMMA RunningJob ==
  ASSUME IInv, job.pc \in Steps
  PROVE  /\ job \in Job /\ job # Idle /\ job.m \in Machines /\ job.obj \in Status
         /\ Sound(job.m, job.obj) /\ StepSound(job) /\ FreshSound(job)
<1>1. job # Idle
  BY DEF Idle, Steps
<1>2. job \in Job
  BY <1>1 DEF IInv, TypeOK
<1>3. job.m \in Machines /\ job.obj \in Status
  BY <1>2 DEF Job
<1>. QED
  BY <1>1, <1>2, <1>3 DEF IInv, JobSound

LEMMA NetworkStepSound ==
  ASSUME job \in Job, NEW obj \in Status, Sound(job.m, obj),
         NEW pc, pc = NetworkStep(job.m, obj)
  PROVE  /\ pc \in {"idle", "attachIP", "probe"}
         /\ pc # "idle" => StepSound([job EXCEPT !.pc = pc, !.obj = obj])
<1>1. pc \in {"idle", "attachIP", "probe"}
  BY DEF NetworkStep
<1>2. pc # "idle" => job.m \in ControlPlanes /\ obj.id # NoVM
  BY DEF NetworkStep, Sound
<1>3. pc = "probe" => obj.bootstrap /\ obj.ip # NoIP
  BY DEF NetworkStep, Sound
<1>4. PICK j : j = [job EXCEPT !.pc = pc, !.obj = obj]
  OBVIOUS
<1>5. j.pc = pc /\ j.obj = obj /\ j.m = job.m
  BY <1>4 DEF Job
<1>6. pc # "idle" => StepSound(j)
  BY <1>1, <1>2, <1>3, <1>5 DEF StepSound, CreateSteps, NetworkSteps
<1>. QED
  BY <1>1, <1>4, <1>6

LEMMA SubmitSound ==
  ASSUME IInv, job.pc \in {"createVM", "createWorkerVM"},
         NEW u, u = NoVM \/ JoinTarget(u),
         NEW refused \in {"idle", "markJoined"},
         refused = "markJoined" => job.m \notin ControlPlanes,
         SubmitServer(u, "recordVM", refused),
         UNCHANGED <<kubeVars, nat, policies, tokens>>
  PROVE  IInv'
<1>1. /\ job \in Job /\ job # Idle /\ job.m \in Machines /\ job.obj \in Status
      /\ Sound(job.m, job.obj) /\ StepSound(job) /\ FreshSound(job)
  BY RunningJob DEF Steps
<1>2. job.obj.id = NoVM /\ ~job.obj.joined
  BY <1>1 DEF StepSound, CreateSteps
<1>3. disturbed' \in 0..MaxDisturbances
  BY DisturbType DEF SubmitServer, IInv
<1>4. CASE Goto(refused) /\ UNCHANGED vms
  <2>1. CASE refused = "idle"
    <3>1. job' = Idle
      BY <1>4, <2>1 DEF Goto, Continue, Return
    <3>. QED
      BY <1>3, <1>4, <3>1, JobMoves DEF IInv, TypeOK, kubeVars
  <2>2. CASE refused = "markJoined"
    <3>1. PICK j \in Job : j = [job EXCEPT !.pc = "markJoined", !.obj = job.obj]
      BY <1>1 DEF Job, Steps
    <3>2. job' = j /\ j.pc = "markJoined" /\ j.m = job.m /\ j.obj = job.obj
          /\ j.fresh = job.fresh
      BY <1>1, <1>4, <2>2, <3>1 DEF Goto, Continue, Job
    <3>3. StepSound(j)
      BY <1>2, <2>2, <3>2 DEF StepSound, NetworkSteps
    <3>4. FreshSound(j)
      BY <1>1, <3>2 DEF FreshSound
    <3>. QED
      BY <1>1, <1>3, <1>4, <3>2, <3>3, <3>4, JobMoves DEF IInv, TypeOK, kubeVars
  <2>. QED
    BY <2>1, <2>2
<1>5. CASE \E v \in FreeServers :
             /\ PostServer(v, job.m, u)
             /\ job' = [job EXCEPT !.pc = "recordVM", !.vm = v] \/ Return
  <2>1. PICK v \in FreeServers :
             /\ PostServer(v, job.m, u)
             /\ job' = [job EXCEPT !.pc = "recordVM", !.vm = v] \/ Return
    BY <1>5
  <2>2. v \in VMs /\ u \in VMs \cup {NoVM}
    BY DEF FreeServers, JoinTarget
  <2>3. /\ vms'[v] = [owner |-> job.m, state |-> "BUILD",
                      serving |-> FALSE, joins |-> u]
        /\ \A w \in VMs \ {v} : vms'[w] = vms[w]
        /\ vms' \in [VMs -> [owner : Machines \cup {NoMachine}, state : VMStates,
                      serving : BOOLEAN, joins : VMs \cup {NoVM}]]
    BY <1>1, <2>1, <2>2 DEF PostServer, IInv, TypeOK, VMStates
  <2>4. Monotone
    BY SubmitMonotone DEF Monotone, IInv, kubeVars
  <2>5. ServersSound'
    <3>1. job.m # NoMachine
      BY <1>1, SentinelsAssumption
    <3>. QED
      BY <2>2, <2>3, <2>4, <3>1, ServersKept DEF IInv, ServersSound
  <2>6. VersionsSound'
    BY <2>4, VersionsKept DEF IInv, Shown, kubeVars
  <2>7. CASE Return
    <3>1. TypeOK'
      BY <1>3, <2>3, <2>7 DEF IInv, TypeOK, Return, kubeVars
    <3>. QED
      BY <2>5, <2>6, <2>7, <3>1 DEF IInv, JobSound, Return
  <2>8. CASE job' = [job EXCEPT !.pc = "recordVM", !.vm = v]
    <3>1. PICK j \in Job : j = [job EXCEPT !.pc = "recordVM", !.vm = v]
      BY <1>1, <2>2 DEF Job, Steps
    <3>2. job' = j /\ j.pc = "recordVM" /\ j.m = job.m /\ j.obj = job.obj
          /\ j.fresh = job.fresh /\ j.vm = v
      BY <1>1, <2>8, <3>1 DEF Job
    <3>3. StepSound(j)'
      BY <1>2, <2>2, <2>3, <3>2 DEF StepSound, NetworkSteps
    <3>4. FreshSound(j)'
      BY <1>1, <3>2 DEF FreshSound, kubeVars, Stored
    <3>5. Sound(j.m, j.obj)'
      BY <1>1, <2>4, <3>2, SoundStable DEF IInv
    <3>6. TypeOK'
      BY <1>3, <2>3, <3>2 DEF IInv, TypeOK, kubeVars
    <3>. QED
      BY <2>5, <2>6, <3>2, <3>3, <3>4, <3>5, <3>6 DEF IInv, JobSound
  <2>. QED
    BY <2>1, <2>7, <2>8
<1>. QED
  BY <1>4, <1>5 DEF SubmitServer

LEMMA UpdateVMStatusSound ==
  ASSUME IInv, UpdateVMStatus
  PROVE  IInv'
<1>1. /\ job \in Job /\ job # Idle /\ job.m \in Machines /\ job.obj \in Status
      /\ Sound(job.m, job.obj) /\ StepSound(job) /\ FreshSound(job)
  BY RunningJob DEF UpdateVMStatus, Steps
<1>2. job.vm \in VMs /\ vms[job.vm].owner = job.m /\ job.obj.id = NoVM
  BY <1>1 DEF UpdateVMStatus, StepSound, CreateSteps
<1>3. PICK obj \in Status : obj = ServerResponse(job.vm, "Creating")
  BY <1>2 DEF ServerResponse, NewStatus, Status
<1>4. Sound(job.m, obj)
  BY <1>2, <1>3, SentinelsAssumption DEF Sound, ServerResponse, NewStatus
<1>5. CASE Update(obj, "idle")
  BY <1>1, <1>4, <1>5, UpdateSound DEF UpdateVMStatus
<1>6. CASE Return /\ UNCHANGED versions
  BY <1>6, JobMoves DEF UpdateVMStatus, IInv, TypeOK, Return, cloudVars
<1>7. CASE /\ job.m \notin ControlPlanes
           /\ Put(job.m, obj)
           /\ job' = [job EXCEPT !.pc = "markJoined", !.fresh = FALSE, !.vm = NoVM]
  <2>1. Monotone
    BY DEF UpdateVMStatus, Monotone, cloudVars
  <2>2. ServersSound'
    BY <2>1, ServersKept DEF UpdateVMStatus, IInv, ServersSound, cloudVars
  <2>3. PICK n \in Machines : n = job.m
    BY <1>1
  <2>4. Put(n, obj)
    BY <1>7, <2>3
  <2>5. /\ versions' \in [Machines -> Seq(Status \cup {Gone})]
        /\ \A k \in Machines : versions'[k] # <<>>
        /\ \A k \in Machines \ {n} : versions'[k] = versions[k]
    BY <2>4, PutLemma DEF IInv
  <2>6. Shown(n)' = Shown(n) \cup {obj}
    BY <2>4, PutLemma DEF IInv
  <2>7. \A k \in Machines \ {n} : Shown(k)' = Shown(k)
    BY <2>5 DEF Shown
  <2>8. VersionsSound'
    BY <1>4, <2>1, <2>3, <2>6, <2>7, VersionsKept DEF IInv
  <2>9. PICK j \in Job :
          j = [job EXCEPT !.pc = "markJoined", !.fresh = FALSE, !.vm = NoVM]
    BY <1>1 DEF Job, Steps
  <2>10. job' = j /\ j.pc = "markJoined" /\ j.m = job.m /\ j.obj = job.obj
         /\ j.fresh = FALSE
    BY <1>1, <1>7, <2>9 DEF Job
  <2>11. StepSound(j)
    BY <1>1, <1>7, <2>10 DEF StepSound, CreateSteps, NetworkSteps, UpdateVMStatus
  <2>12. JobSound'
    BY <1>1, <2>1, <2>10, <2>11, JobKept DEF IInv, FreshSound
  <2>13. TypeOK'
    BY <2>5, <2>10 DEF UpdateVMStatus, IInv, TypeOK, cloudVars
  <2>. QED
    BY <2>2, <2>8, <2>12, <2>13 DEF IInv
<1>. QED
  BY <1>3, <1>5, <1>6, <1>7 DEF UpdateVMStatus

LEMMA JoinControlPlaneSound ==
  ASSUME IInv, JoinControlPlane
  PROVE  IInv'
<1>1. /\ job \in Job /\ job # Idle /\ job.m \in Machines /\ job.obj \in Status
      /\ Sound(job.m, job.obj) /\ StepSound(job) /\ FreshSound(job)
  BY RunningJob DEF JoinControlPlane, Steps
<1>2. CASE Return
  BY <1>2, JobMoves
  DEF JoinControlPlane, IInv, TypeOK, Return, kubeVars, cloudVars
<1>3. CASE \E m \in BootstrapReady :
             job' = [job EXCEPT !.pc = "createWorkerVM", !.vm = Cached(m).id]
  <2>1. PICK m \in BootstrapReady :
             job' = [job EXCEPT !.pc = "createWorkerVM", !.vm = Cached(m).id]
    BY <1>3
  <2>2. /\ m \in ControlPlanes /\ m \in Machines
        /\ Cached(m) # Gone /\ Cached(m).status = "ACTIVE" /\ Cached(m).ready
    BY MachinesAssumption DEF BootstrapReady
  <2>3. Cached(m) \in Shown(m) /\ Cached(m) \in Status
    BY <2>2, StoredIsShown DEF IInv
  <2>4. Sound(m, Cached(m))
    BY <2>2, <2>3 DEF IInv, VersionsSound
  <2>5. JoinTarget(Cached(m).id)
    BY <2>2, <2>3, <2>4 DEF Sound, JoinTarget, Status
  <2>6. PICK j \in Job : j = [job EXCEPT !.pc = "createWorkerVM", !.vm = Cached(m).id]
    BY <1>1, <2>5 DEF Job, Steps, JoinTarget
  <2>7. job' = j /\ j.pc = "createWorkerVM" /\ j.m = job.m /\ j.obj = job.obj
        /\ j.fresh = job.fresh /\ j.vm = Cached(m).id
    BY <1>1, <2>1, <2>6 DEF Job
  <2>8. StepSound(j)
    BY <1>1, <2>5, <2>7 DEF StepSound, CreateSteps, NetworkSteps, JoinControlPlane
  <2>9. FreshSound(j)
    BY <1>1, <2>7 DEF FreshSound, JoinControlPlane
  <2>. QED
    BY <1>1, <2>7, <2>8, <2>9, JobMoves
    DEF JoinControlPlane, IInv, TypeOK, kubeVars, cloudVars
<1>. QED
  BY <1>2, <1>3 DEF JoinControlPlane

LEMMA MarkJoinedSound ==
  ASSUME IInv, MarkJoined
  PROVE  IInv'
<1>1. /\ job \in Job /\ job.obj \in Status
      /\ Sound(job.m, job.obj) /\ StepSound(job)
  BY RunningJob DEF MarkJoined, Steps
<1>2. job.obj.id = NoVM /\ job.m \notin ControlPlanes
  BY <1>1 DEF MarkJoined, StepSound, CreateSteps
<1>3. PICK obj \in Status : obj = [job.obj EXCEPT !.joined = TRUE]
  BY <1>1 DEF Status
<1>4. Sound(job.m, obj)
  BY <1>1, <1>2, <1>3 DEF Sound, Status
<1>5. StepSound([job EXCEPT !.pc = "getVM", !.obj = obj])
  BY <1>1 DEF StepSound, CreateSteps, NetworkSteps, Job
<1>. QED
  BY <1>1, <1>3, <1>4, <1>5, UpdateSound DEF MarkJoined, Steps

LEMMA GetCreatedVMSound ==
  ASSUME IInv, GetCreatedVM
  PROVE  IInv'
<1>1. /\ job \in Job /\ job # Idle /\ job.m \in Machines /\ job.obj \in Status
      /\ Sound(job.m, job.obj) /\ StepSound(job) /\ FreshSound(job)
  BY RunningJob DEF GetCreatedVM, Steps
<1>2. UNCHANGED <<kubeVars, cloudVars, tokens, disturbed>>
  BY DEF GetCreatedVM
<1>3. ASSUME NEW pc \in Steps \cup {"idle"}, NEW obj \in Status, Continue(pc, obj),
             Sound(job.m, obj),
             pc # "idle" => StepSound([job EXCEPT !.pc = pc, !.obj = obj]),
             pc = "syncStatus" => obj.id = job.obj.id,
             pc # "syncStatus" => obj = job.obj
      PROVE  IInv'
  <2>1. CASE pc = "idle"
    BY <1>2, <1>3, <2>1, JobMoves
    DEF Continue, Return, IInv, TypeOK, kubeVars, cloudVars
  <2>2. CASE pc # "idle"
    <3>1. PICK j \in Job : j = [job EXCEPT !.pc = pc, !.obj = obj]
      BY <1>1, <1>3, <2>2 DEF Job
    <3>2. job' = j /\ j.pc = pc /\ j.m = job.m /\ j.obj = obj /\ j.fresh = job.fresh
      BY <1>1, <1>3, <2>2, <3>1 DEF Continue, Job
    <3>3. FreshSound(j)
      BY <1>1, <1>3, <3>2 DEF FreshSound, GetCreatedVM
    <3>. QED
      BY <1>2, <1>3, <2>2, <3>1, <3>2, <3>3, JobMoves
      DEF IInv, TypeOK, kubeVars, cloudVars
  <2>. QED
    BY <2>1, <2>2
<1>4. CASE Continue(NetworkStep(job.m, job.obj), job.obj)
  BY <1>1, <1>3, <1>4, NetworkStepSound DEF Steps
<1>5. CASE /\ job.obj.id # NoVM
           /\ Continue("syncStatus",
                       ServerResponse(job.obj.id, vms[job.obj.id].state))
  <2>1. PICK obj : obj = ServerResponse(job.obj.id, vms[job.obj.id].state)
    OBVIOUS
  <2>2. /\ job.obj.id \in VMs /\ vms[job.obj.id].owner = job.m
        /\ vms[job.obj.id].state \in VMStates \ {"none"}
    BY <1>1, <1>5, SentinelsAssumption DEF Sound, Status, IInv, TypeOK, ServersSound
  <2>3. obj \in Status /\ obj.id = job.obj.id /\ Sound(job.m, obj) /\ ~obj.bootstrap
    BY <1>1, <1>5, <2>1, <2>2
    DEF ServerResponse, NewStatus, Status, Sound, VMStates
  <2>4. StepSound([job EXCEPT !.pc = "syncStatus", !.obj = obj])
    BY <1>1, <1>5, <2>3 DEF StepSound, CreateSteps, NetworkSteps, Job
  <2>. QED
    BY <1>3, <1>5, <2>1, <2>3, <2>4 DEF Steps
<1>6. job.obj.id = NoVM => job.obj.status = NewStatus.status
  BY <1>1 DEF Sound, NewStatus
<1>7. CASE Return
  BY <1>2, <1>7, JobMoves DEF Return, IInv, TypeOK, kubeVars, cloudVars
<1>. QED
  BY <1>4, <1>5, <1>6, <1>7 DEF GetCreatedVM, Goto

LEMMA SyncStatusSound ==
  ASSUME IInv, SyncStatus
  PROVE  IInv'
<1>1. job \in Job /\ job.obj \in Status /\ Sound(job.m, job.obj)
  BY RunningJob DEF SyncStatus, Steps
<1>2. PICK pc : pc = NetworkStep(job.m, job.obj)
  OBVIOUS
<1>3. /\ pc \in {"idle", "attachIP", "probe"}
      /\ pc # "idle" => StepSound([job EXCEPT !.pc = pc, !.obj = job.obj])
  BY <1>1, <1>2, NetworkStepSound
<1>. QED
  BY <1>1, <1>2, <1>3, UpdateSound DEF SyncStatus, Steps

\* A step that only moves the reconcile from pc to another step on its copy.
LEMMA GotoSound ==
  ASSUME IInv, job.pc \in Steps \ {"syncStatus"},
         NEW pc \in Steps \ {"syncStatus"}, Goto(pc),
         StepSound([job EXCEPT !.pc = pc, !.obj = job.obj]),
         UNCHANGED <<versions, vms, nat, secrets, tokens>>,
         policies' \subseteq PublicIPs,
         fw' \in [Machines -> Firewall],
         disturbed' \in 0..MaxDisturbances
  PROVE  IInv'
<1>1. /\ job \in Job /\ job # Idle /\ job.m \in Machines /\ job.obj \in Status
      /\ Sound(job.m, job.obj) /\ FreshSound(job)
  BY RunningJob
<1>2. PICK j \in Job : j = [job EXCEPT !.pc = pc, !.obj = job.obj]
  BY <1>1 DEF Job
<1>3. pc # "idle"
  BY DEF Steps
<1>4. job' = j /\ j.pc = pc /\ j.m = job.m /\ j.obj = job.obj /\ j.fresh = job.fresh
  BY <1>1, <1>2, <1>3 DEF Goto, Continue, Job
<1>5. FreshSound(j)
  BY <1>1, <1>4 DEF FreshSound
<1>6. tokens' \in [Clusters -> Tokens]
  BY DEF IInv, TypeOK
<1>. QED
  BY <1>1, <1>2, <1>4, <1>5, <1>6, JobMoves

LEMMA ReturnSound ==
  ASSUME IInv, Return,
         UNCHANGED <<versions, vms, nat, secrets, tokens>>,
         policies' \subseteq PublicIPs,
         fw' \in [Machines -> Firewall],
         disturbed' \in 0..MaxDisturbances
  PROVE  IInv'
BY JobMoves DEF Return, IInv, TypeOK

LEMMA AttachPublicIPSound ==
  ASSUME IInv, AttachPublicIP
  PROVE  IInv'
<1>1. /\ job \in Job /\ job # Idle /\ job.m \in Machines /\ job.obj \in Status
      /\ Sound(job.m, job.obj) /\ StepSound(job) /\ FreshSound(job)
  BY RunningJob DEF AttachPublicIP, Steps
<1>2. job.obj.id # NoVM /\ job.m \in ControlPlanes /\ job.obj.id \in VMs
  BY <1>1 DEF AttachPublicIP, StepSound, NetworkSteps, Status
<1>3. disturbed' \in 0..MaxDisturbances
  BY DisturbType DEF AttachPublicIP, IInv
<1>4. CASE Return /\ UNCHANGED nat
  BY <1>3, <1>4, ReturnSound DEF AttachPublicIP, IInv, TypeOK, kubeVars
<1>5. CASE \E p \in FreeIPs :
             /\ PostStaticNat(p, job.obj.id)
             /\ job' = [job EXCEPT !.pc = "recordIP", !.ip = p] \/ Return
  <2>1. PICK p \in FreeIPs :
             /\ PostStaticNat(p, job.obj.id)
             /\ job' = [job EXCEPT !.pc = "recordIP", !.ip = p] \/ Return
    BY <1>5
  <2>2. p \in PublicIPs /\ nat[p] = NoVM
    BY DEF FreeIPs
  <2>3. /\ nat'[p] = job.obj.id
        /\ \A q \in PublicIPs \ {p} : nat'[q] = nat[q]
        /\ nat' \in [PublicIPs -> VMs \cup {NoVM}]
    BY <1>2, <2>1, <2>2 DEF PostStaticNat, IInv, TypeOK
  <2>4. Monotone
    BY <2>2, <2>3 DEF AttachPublicIP, Monotone, kubeVars
  <2>5. ServersSound'
    BY <2>4, ServersKept DEF AttachPublicIP, IInv, ServersSound
  <2>6. VersionsSound'
    BY <2>4, VersionsKept DEF AttachPublicIP, IInv, Shown, kubeVars
  <2>7. CASE Return
    <3>1. TypeOK'
      BY <1>3, <2>3, <2>7 DEF AttachPublicIP, IInv, TypeOK, Return, kubeVars
    <3>. QED
      BY <2>5, <2>6, <2>7, <3>1 DEF IInv, JobSound, Return
  <2>8. CASE job' = [job EXCEPT !.pc = "recordIP", !.ip = p]
    <3>1. PICK j \in Job : j = [job EXCEPT !.pc = "recordIP", !.ip = p]
      BY <1>1, <2>2 DEF Job, Steps
    <3>2. job' = j /\ j.pc = "recordIP" /\ j.m = job.m /\ j.obj = job.obj
          /\ j.fresh = job.fresh /\ j.ip = p
      BY <1>1, <2>8, <3>1 DEF Job
    <3>3. StepSound(j)'
      BY <1>2, <2>2, <2>3, <3>2 DEF StepSound, CreateSteps, NetworkSteps
    <3>4. FreshSound(j)'
      BY <1>1, <3>2 DEF AttachPublicIP, FreshSound, kubeVars, Stored
    <3>5. Sound(j.m, j.obj)'
      BY <1>1, <2>4, <3>2, SoundStable DEF IInv
    <3>6. TypeOK'
      BY <1>3, <2>3, <3>2 DEF AttachPublicIP, IInv, TypeOK, kubeVars
    <3>. QED
      BY <2>5, <2>6, <3>2, <3>3, <3>4, <3>5, <3>6 DEF IInv, JobSound
  <2>. QED
    BY <2>1, <2>7, <2>8
<1>. QED
  BY <1>4, <1>5 DEF AttachPublicIP

LEMMA RecordPublicIPSound ==
  ASSUME IInv, RecordPublicIP
  PROVE  IInv'
<1>1. /\ job \in Job /\ job.obj \in Status
      /\ Sound(job.m, job.obj) /\ StepSound(job)
  BY RunningJob DEF RecordPublicIP, Steps
<1>2. /\ job.ip \in PublicIPs /\ nat[job.ip] = job.obj.id
      /\ job.obj.id # NoVM /\ job.m \in ControlPlanes
  BY <1>1 DEF RecordPublicIP, StepSound, NetworkSteps
<1>3. PICK obj \in Status : obj = [job.obj EXCEPT !.ip = job.ip]
  BY <1>1, <1>2 DEF Status
<1>4. Sound(job.m, obj)
  BY <1>1, <1>2, <1>3, SentinelsAssumption DEF Sound, Status
<1>5. PICK pc \in {"addFirewall", "markBootstrap"} :
        pc = IF ClusterOf[job.m] \in FirewallRules THEN "addFirewall"
                                                   ELSE "markBootstrap"
  OBVIOUS
<1>6. obj.ip # NoIP /\ obj.id = job.obj.id
  BY <1>1, <1>2, <1>3, SentinelsAssumption DEF Status
<1>7. StepSound([job EXCEPT !.pc = pc, !.obj = obj])
  BY <1>1, <1>2, <1>6 DEF StepSound, CreateSteps, NetworkSteps, Job
<1>. QED
  BY <1>1, <1>3, <1>4, <1>5, <1>7, UpdateSound DEF RecordPublicIP, Steps

LEMMA FirewallSound ==
  ASSUME IInv, AddFirewallSettings \/ CreateFirewallObject \/ RecordFirewallJob
  PROVE  IInv'
<1>1. job.pc \in {"addFirewall", "createFirewall", "recordJob"}
  BY DEF AddFirewallSettings, CreateFirewallObject, RecordFirewallJob
<1>2. /\ job \in Job /\ job.m \in Machines /\ job.obj \in Status /\ StepSound(job)
  BY <1>1, RunningJob DEF Steps
<1>3. /\ job.obj.ip \in PublicIPs /\ job.obj.id # NoVM /\ job.m \in ControlPlanes
  BY <1>1, <1>2 DEF StepSound, NetworkSteps, Status
<1>4. \A pc \in {"createFirewall", "recordJob", "markBootstrap"} :
        StepSound([job EXCEPT !.pc = pc, !.obj = job.obj])
  BY <1>1, <1>2, <1>3 DEF StepSound, CreateSteps, NetworkSteps, Job
<1>5. CASE AddFirewallSettings
  <2>1. disturbed' \in 0..MaxDisturbances
    BY <1>5, DisturbType DEF AddFirewallSettings, IInv
  <2>2. policies' \subseteq PublicIPs
    BY <1>3, <1>5 DEF AddFirewallSettings, PostPolicy, IInv, TypeOK
  <2>3. UNCHANGED <<versions, vms, nat, secrets, tokens>> /\ fw' \in [Machines -> Firewall]
    BY <1>5 DEF AddFirewallSettings, IInv, TypeOK, kubeVars
  <2>4. Goto("createFirewall") \/ Return
    BY <1>5 DEF AddFirewallSettings
  <2>. QED
    BY <1>1, <1>4, <2>1, <2>2, <2>3, <2>4, GotoSound, ReturnSound DEF Steps
<1>6. CASE CreateFirewallObject \/ RecordFirewallJob
  <2>1. fw' \in [Machines -> Firewall]
    <3>1. fw[job.m] \in Firewall /\ fw \in [Machines -> Firewall]
      BY <1>2 DEF IInv, TypeOK
    <3>2. PICK f, g :
            /\ f = [exists |-> TRUE, rules |-> {job.obj.ip}, jobs |-> {}]
            /\ g = [fw[job.m] EXCEPT !.jobs = @ \cup {job.obj.ip}]
      OBVIOUS
    <3>3. f \in Firewall /\ g \in Firewall
      BY <1>3, <3>1, <3>2 DEF Firewall
    <3>4. \/ fw' = [fw EXCEPT ![job.m] = f]
          \/ fw' = [fw EXCEPT ![job.m] = g]
          \/ fw' = fw
      BY <1>6, <3>1, <3>2 DEF CreateFirewallObject, RecordFirewallJob
    <3>. QED
      BY <1>2, <3>1, <3>3, <3>4
  <2>2. /\ UNCHANGED <<versions, vms, nat, secrets, tokens>>
        /\ policies' \subseteq PublicIPs
        /\ disturbed' \in 0..MaxDisturbances
    BY <1>6 DEF CreateFirewallObject, RecordFirewallJob, IInv, TypeOK, cloudVars
  <2>3. Goto("recordJob") \/ Goto("markBootstrap") \/ Return
    BY <1>6 DEF CreateFirewallObject, RecordFirewallJob
  <2>. QED
    BY <1>1, <1>4, <2>1, <2>2, <2>3, GotoSound, ReturnSound DEF Steps
<1>. QED
  BY <1>5, <1>6

LEMMA MarkBootstrapSound ==
  ASSUME IInv, MarkBootstrap
  PROVE  IInv'
<1>1. /\ job \in Job /\ job.obj \in Status
      /\ Sound(job.m, job.obj) /\ StepSound(job)
  BY RunningJob DEF MarkBootstrap, Steps
<1>2. job.obj.ip # NoIP
  BY <1>1 DEF MarkBootstrap, StepSound
<1>3. PICK obj \in Status :
        obj = [job.obj EXCEPT !.bootstrap = TRUE, !.ready = FALSE]
  BY <1>1 DEF Status
<1>4. Sound(job.m, obj)
  BY <1>1, <1>2, <1>3 DEF Sound, Status
<1>5. PICK pc : pc = NetworkStep(job.m, obj)
  OBVIOUS
<1>6. /\ pc \in {"idle", "attachIP", "probe"}
      /\ pc # "idle" => StepSound([job EXCEPT !.pc = pc, !.obj = obj])
  BY <1>1, <1>4, <1>5, NetworkStepSound
<1>. QED
  BY <1>1, <1>3, <1>4, <1>5, <1>6, UpdateSound DEF MarkBootstrap, Steps

LEMMA CheckControlPlaneMachineReadySound ==
  ASSUME IInv, CheckControlPlaneMachineReady
  PROVE  IInv'
<1>1. job \in Job /\ StepSound(job) /\ job.pc = "probe"
  BY RunningJob DEF CheckControlPlaneMachineReady, Steps
<1>2. StepSound([job EXCEPT !.pc = "createSecret", !.obj = job.obj])
  BY <1>1 DEF StepSound, CreateSteps, NetworkSteps, Job
<1>. QED
  BY <1>1, <1>2, GotoSound, ReturnSound
  DEF CheckControlPlaneMachineReady, Steps, IInv, TypeOK, kubeVars, cloudVars

\* The one step in which a cluster's secret passes to a machine.
LEMMA FetchAndCreateKubeconfigSecretSound ==
  ASSUME IInv, FetchAndCreateKubeconfigSecret
  PROVE  IInv'
<1>1. /\ job \in Job /\ job # Idle /\ job.m \in Machines /\ job.obj \in Status
      /\ Sound(job.m, job.obj) /\ StepSound(job) /\ FreshSound(job)
  BY RunningJob DEF FetchAndCreateKubeconfigSecret, Steps
<1>2. CASE Return /\ UNCHANGED secrets
  BY <1>2, ReturnSound
  DEF FetchAndCreateKubeconfigSecret, IInv, TypeOK, cloudVars
<1>3. CASE /\ secrets[ClusterOf[job.m]] = NoMachine
           /\ secrets' = [secrets EXCEPT ![ClusterOf[job.m]] = job.m]
           /\ Goto("markReady")
  <2>1. ClusterOf[job.m] \in Clusters
    BY <1>1, MachinesAssumption
  <2>2. /\ secrets'[ClusterOf[job.m]] = job.m
        /\ secrets' \in [Clusters -> Machines \cup {NoMachine, Leftover}]
    BY <1>1, <1>3, <2>1 DEF IInv, TypeOK
  <2>3. Monotone
    BY <1>3, <2>1, SentinelsAssumption
    DEF FetchAndCreateKubeconfigSecret, Monotone, IInv, TypeOK, cloudVars
  <2>4. ServersSound'
    BY <2>3, ServersKept
    DEF FetchAndCreateKubeconfigSecret, IInv, ServersSound, cloudVars
  <2>5. VersionsSound'
    BY <2>3, VersionsKept DEF FetchAndCreateKubeconfigSecret, IInv, Shown
  <2>6. PICK j \in Job : j = [job EXCEPT !.pc = "markReady", !.obj = job.obj]
    BY <1>1 DEF Job, Steps
  <2>7. job' = j /\ j.pc = "markReady" /\ j.m = job.m /\ j.obj = job.obj
        /\ j.fresh = job.fresh
    BY <1>1, <1>3, <2>6 DEF Goto, Continue, Job
  <2>8. StepSound(j)'
    BY <1>1, <2>2, <2>7
    DEF FetchAndCreateKubeconfigSecret, StepSound, CreateSteps, NetworkSteps
  <2>9. FreshSound(j)'
    BY <1>1, <2>7 DEF FetchAndCreateKubeconfigSecret, FreshSound, Stored
  <2>10. Sound(j.m, j.obj)'
    BY <1>1, <2>3, <2>7, SoundStable DEF IInv
  <2>11. TypeOK'
    BY <2>2, <2>7 DEF FetchAndCreateKubeconfigSecret, IInv, TypeOK, cloudVars
  <2>. QED
    BY <2>4, <2>5, <2>7, <2>8, <2>9, <2>10, <2>11 DEF IInv, JobSound
<1>. QED
  BY <1>2, <1>3 DEF FetchAndCreateKubeconfigSecret

LEMMA MarkReadySound ==
  ASSUME IInv, MarkReady
  PROVE  IInv'
<1>1. /\ job \in Job /\ job.obj \in Status
      /\ Sound(job.m, job.obj) /\ StepSound(job)
  BY RunningJob DEF MarkReady, Steps
<1>2. /\ job.obj.ip # NoIP /\ job.m \in ControlPlanes
      /\ secrets[ClusterOf[job.m]] = job.m
  BY <1>1 DEF MarkReady, StepSound, NetworkSteps
<1>3. PICK obj \in Status :
        obj = [job.obj EXCEPT !.bootstrap = TRUE, !.ready = TRUE]
  BY <1>1 DEF Status
<1>4. Sound(job.m, obj)
  BY <1>1, <1>2, <1>3 DEF Sound, Status
<1>. QED
  BY <1>1, <1>3, <1>4, UpdateSound DEF MarkReady, Steps

LEMMA JobStepSound ==
  ASSUME IInv, JobStep
  PROVE  IInv'
<1>1. CASE CreateVM
  <2>1. job.pc = "createVM" /\ SubmitServer(NoVM, "recordVM", "idle")
    BY <1>1 DEF CreateVM
  <2>. QED
    BY <1>1, <2>1, SubmitSound DEF CreateVM
<1>2. CASE CreateWorkerVM
  <2>1. /\ job.pc = "createWorkerVM"
        /\ SubmitServer(job.vm, "recordVM", "markJoined")
    BY <1>2 DEF CreateWorkerVM
  <2>2. StepSound(job)
    BY <2>1, RunningJob DEF Steps
  <2>3. JoinTarget(job.vm) /\ job.m \notin ControlPlanes
    BY <2>1, <2>2 DEF StepSound
  <2>. QED
    BY <1>2, <2>1, <2>3, SubmitSound DEF CreateWorkerVM
<1>. QED
  BY <1>1, <1>2, UpdateVMStatusSound, JoinControlPlaneSound, MarkJoinedSound,
     GetCreatedVMSound, SyncStatusSound, AttachPublicIPSound,
     RecordPublicIPSound, FirewallSound, MarkBootstrapSound,
     CheckControlPlaneMachineReadySound, FetchAndCreateKubeconfigSecretSound,
     MarkReadySound
  DEF JobStep

LEMMA ReconcileSound ==
  ASSUME IInv, NEW m \in Machines, Reconcile(m)
  PROVE  IInv'
<1>1. disturbed' \in 0..MaxDisturbances
  <2>1. Calm \/ Disturb("stale")
    BY DEF Reconcile
  <2>. QED
    BY <2>1, DisturbType DEF IInv
<1>2. /\ Cached(m) \in Shown(m) /\ Cached(m) \in Status
      /\ InSync(m) => Cached(m) = Stored(m)
  BY StoredIsShown DEF Reconcile, IInv
<1>3. PICK o \in Status : o = Cached(m)
  BY <1>2
<1>4. Sound(m, o)
  BY <1>2, <1>3, GoneAssumption DEF IInv, VersionsSound
<1>5. PICK pc \in {"createVM", "getVM", "findControlPlane"} : pc = FirstStep(m, o)
  BY DEF FirstStep
<1>6. PICK b \in BOOLEAN, a \in BOOLEAN, j \in Job :
             /\ b = InSync(m)
             /\ a = (SubjectToken(m) = "valid")
             /\ j = [pc |-> pc, m |-> m, obj |-> o, fresh |-> b, auth |-> a,
                     vm |-> NoVM, ip |-> NoIP]
  <2>1. PICK b \in BOOLEAN : b = InSync(m)
    BY DEF InSync
  <2>2. PICK a \in BOOLEAN : a = (SubjectToken(m) = "valid")
    OBVIOUS
  <2>. QED
    BY <2>1, <2>2 DEF Job, Steps
<1>7. job' = j
  BY <1>3, <1>5, <1>6 DEF Reconcile
<1>8. StepSound(j)
  <2>1. pc = "createVM" => m \in ControlPlanes /\ o.id = NoVM
    BY <1>5 DEF FirstStep
  <2>2. pc = "findControlPlane" => m \notin ControlPlanes /\ o.status = "" /\ ~o.joined
    BY <1>5 DEF FirstStep
  <2>. QED
    BY <1>4, <1>6, <2>1, <2>2 DEF StepSound, CreateSteps, NetworkSteps, Sound
<1>9. FreshSound(j)
  BY <1>2, <1>3, <1>6, GoneAssumption DEF FreshSound
<1>10. j.m = m /\ j.obj = o
  BY <1>6
<1>. QED
  BY <1>1, <1>4, <1>7, <1>8, <1>9, <1>10, JobMoves
  DEF Reconcile, IInv, TypeOK, kubeVars, cloudVars

LEMMA CallFailsSound ==
  ASSUME IInv, CallFails
  PROVE  IInv'
<1>1. disturbed' \in 0..MaxDisturbances
  BY DisturbType DEF CallFails, IInv
<1>. QED
  BY <1>1, ReturnSound DEF CallFails, IInv, TypeOK, kubeVars, cloudVars

-----------------------------------------------------------------------------
(* What happens around a reconcile *)

LEMMA JobStays ==
  ASSUME IInv, Monotone, job' = job,
         \A m \in Machines : Stored(m)' = Stored(m)
  PROVE  JobSound'
<1>1. CASE job = Idle
  BY <1>1 DEF JobSound
<1>2. CASE job # Idle
  <2>1. PICK j \in Job : j = job
    BY <1>2 DEF IInv, TypeOK
  <2>2. Sound(j.m, j.obj) /\ StepSound(j) /\ FreshSound(j) /\ j.m \in Machines
    BY <1>2, <2>1 DEF IInv, JobSound, Job
  <2>3. FreshSound(j)'
    BY <2>2 DEF FreshSound
  <2>. QED
    BY <2>1, <2>2, <2>3, JobKept DEF IInv
<1>. QED
  BY <1>1, <1>2

LEMMA CrashSound ==
  ASSUME IInv, Crash
  PROVE  IInv'
<1>1. Monotone
  BY DEF Crash, Monotone, cloudVars
<1>2. disturbed' \in 0..MaxDisturbances
  BY DisturbType DEF Crash, IInv
<1>3. /\ versions' \in [Machines -> Seq(Status \cup {Gone})]
      /\ \A n \in Machines : versions'[n] # <<>> /\ Shown(n)' \subseteq Shown(n)
  BY ResyncLemma DEF Crash, IInv
<1>4. TypeOK'
  BY <1>2, <1>3 DEF Crash, Return, IInv, TypeOK, cloudVars
<1>5. ServersSound'
  BY <1>1, ServersKept DEF Crash, IInv, ServersSound, cloudVars
<1>6. VersionsSound'
  BY <1>1, <1>3, VersionsKept DEF IInv
<1>7. JobSound'
  BY DEF Crash, Return, JobSound
<1>. QED
  BY <1>4, <1>5, <1>6, <1>7 DEF IInv

LEMMA WatchEventSound ==
  ASSUME IInv, NEW m \in Machines, WatchEvent(m)
  PROVE  IInv'
<1>1. Monotone
  BY DEF WatchEvent, Monotone, cloudVars
<1>2. Deliver(m)
  BY DEF WatchEvent
<1>3. /\ versions' \in [Machines -> Seq(Status \cup {Gone})]
      /\ \A n \in Machines : versions'[n] # <<>>
      /\ Stored(m)' = Stored(m)
      /\ Shown(m)' \subseteq Shown(m)
      /\ \A n \in Machines \ {m} : versions'[n] = versions[n]
  BY <1>2, DeliverLemma DEF IInv
<1>4. \A n \in Machines : Stored(n)' = Stored(n) /\ Shown(n)' \subseteq Shown(n)
  BY <1>3 DEF Stored, Shown
<1>5. TypeOK'
  BY <1>3 DEF WatchEvent, IInv, TypeOK, cloudVars
<1>6. ServersSound'
  BY <1>1, ServersKept DEF WatchEvent, IInv, ServersSound, cloudVars
<1>7. VersionsSound'
  BY <1>1, <1>4, VersionsKept DEF IInv
<1>8. JobSound'
  BY <1>1, <1>4, JobStays DEF WatchEvent
<1>. QED
  BY <1>5, <1>6, <1>7, <1>8 DEF IInv

LEMMA OutsideWriteSound ==
  ASSUME IInv, NEW m \in Machines, NEW kind, Disturb(kind),
         NEW obj \in {Stored(m), Gone}, OutsideWrite(m, obj)
  PROVE  IInv'
<1>1. Monotone
  BY DEF OutsideWrite, Monotone, cloudVars
<1>2. disturbed' \in 0..MaxDisturbances
  BY DisturbType DEF IInv
<1>3. /\ Stored(m) \in Shown(m) /\ Stored(m) \in Status \cup {Gone}
  BY StoredIsShown DEF IInv
<1>4. PICK o \in Status \cup {Gone} : o = obj /\ o \in Shown(m) \cup {Gone}
  BY <1>3
<1>5. Put(m, o)
  BY <1>4 DEF OutsideWrite
<1>6. /\ versions' \in [Machines -> Seq(Status \cup {Gone})]
      /\ \A n \in Machines : versions'[n] # <<>>
      /\ \A n \in Machines \ {m} : versions'[n] = versions[n]
      /\ Shown(m)' = Shown(m) \cup {o}
  BY <1>5, PutLemma DEF IInv
<1>7. \A n \in Machines \ {m} : Stored(n)' = Stored(n) /\ Shown(n)' = Shown(n)
  BY <1>6 DEF Stored, Shown
<1>8. VersionsSound'
  BY <1>1, <1>4, <1>6, <1>7, VersionsKept DEF IInv
<1>9. ServersSound'
  BY <1>1, ServersKept DEF OutsideWrite, IInv, ServersSound, cloudVars
<1>10. CASE job = Idle
  <2>1. job' = Idle
    BY <1>10, SentinelsAssumption DEF OutsideWrite, Idle
  <2>2. TypeOK'
    BY <1>2, <1>6, <2>1 DEF OutsideWrite, IInv, TypeOK, cloudVars
  <2>. QED
    BY <1>8, <1>9, <2>1, <2>2 DEF IInv, JobSound
<1>11. CASE job # Idle
  <2>1. PICK i \in Job : i = job /\ Sound(i.m, i.obj) /\ StepSound(i) /\ FreshSound(i)
    BY <1>11 DEF IInv, TypeOK, JobSound
  <2>2. PICK j \in Job : j = IF i.m = m THEN [i EXCEPT !.fresh = FALSE] ELSE i
    BY DEF Job
  <2>3. /\ job' = j /\ j.m = i.m /\ j.pc = i.pc /\ j.obj = i.obj
        /\ j.vm = i.vm /\ j.ip = i.ip
        /\ j.fresh => i.fresh /\ j.m # m
    BY <2>1, <2>2 DEF OutsideWrite, Job
  <2>4. StepSound(j) /\ Sound(j.m, j.obj)
    BY <2>1, <2>3 DEF StepSound
  <2>5. FreshSound(j)'
    BY <1>7, <2>1, <2>3 DEF FreshSound, Job
  <2>6. JobSound'
    BY <1>1, <2>3, <2>4, <2>5, JobKept DEF IInv
  <2>7. TypeOK'
    BY <1>2, <1>6, <2>3 DEF OutsideWrite, IInv, TypeOK, cloudVars
  <2>. QED
    BY <1>8, <1>9, <2>6, <2>7 DEF IInv
<1>. QED
  BY <1>10, <1>11

\* The steps that touch neither the objects nor the reconcile.
LEMMA AroundSound ==
  ASSUME IInv, UNCHANGED <<versions, job>>, Monotone, TypeOK', ServersSound'
  PROVE  IInv'
<1>1. \A n \in Machines : Stored(n)' = Stored(n) /\ Shown(n)' = Shown(n)
  BY DEF Stored, Shown
<1>2. VersionsSound'
  BY <1>1, VersionsKept DEF IInv
<1>3. JobSound'
  BY <1>1, JobStays
<1>. QED
  BY <1>2, <1>3 DEF IInv

LEMMA CloudSound ==
  ASSUME IInv, NEW v \in VMs, Cloud(v)
  PROVE  IInv'
<1>1. Monotone
  BY CloudMonotone DEF IInv
<1>2. UNCHANGED <<versions, job, secrets, fw, tokens, nat, policies>>
  BY DEF Cloud, BuildServer, ServeKubeconfig, RestartServer, StopServer, kubeVars
<1>3. disturbed' \in 0..MaxDisturbances
  <2>1. Calm \/ Disturb("stop")
    BY DEF Cloud
  <2>. QED
    BY <2>1, DisturbType DEF IInv
<1>4. PICK w : w = vms[v]
  OBVIOUS
<1>5. w \in [owner : Machines \cup {NoMachine}, state : VMStates,
             serving : BOOLEAN, joins : VMs \cup {NoVM}]
  BY <1>4 DEF IInv, TypeOK
<1>6. PICK x : /\ x \in [owner : Machines \cup {NoMachine}, state : VMStates,
                         serving : BOOLEAN, joins : VMs \cup {NoVM}]
               /\ x.owner = w.owner /\ x.joins = w.joins
               /\ x.state # "none" /\ w.state # "none"
               /\ vms' = [vms EXCEPT ![v] = x]
  <2>1. CASE BuildServer(v)
    BY <1>4, <1>5, <2>1 DEF BuildServer, VMStates
  <2>2. CASE ServeKubeconfig(v)
    BY <1>4, <1>5, <2>2 DEF ServeKubeconfig, VMStates
  <2>3. CASE RestartServer(v)
    BY <1>4, <1>5, <2>3 DEF RestartServer, VMStates
  <2>4. CASE StopServer(v)
    BY <1>4, <1>5, <2>4 DEF StopServer, VMStates
  <2>. QED
    BY <2>1, <2>2, <2>3, <2>4 DEF Cloud
<1>7. /\ vms'[v] = x /\ \A u \in VMs \ {v} : vms'[u] = vms[u]
      /\ vms' \in [VMs -> [owner : Machines \cup {NoMachine}, state : VMStates,
                           serving : BOOLEAN, joins : VMs \cup {NoVM}]]
  BY <1>6 DEF IInv, TypeOK
<1>8. ServersSound'
  BY <1>1, <1>4, <1>6, <1>7, ServersKept DEF IInv, ServersSound
<1>9. TypeOK'
  BY <1>2, <1>3, <1>7 DEF IInv, TypeOK
<1>. QED
  BY <1>1, <1>2, <1>8, <1>9, AroundSound

\* A token that expires leaves the running reconcile all it knows.
LEMMA ExpireTokenSound ==
  ASSUME IInv, NEW c \in Clusters, ExpireToken(c)
  PROVE  IInv'
<1>1. disturbed' \in 0..MaxDisturbances
  BY DisturbType DEF ExpireToken, IInv
<1>2. tokens' \in [Clusters -> Tokens]
  BY DEF ExpireToken, IInv, TypeOK, Tokens
<1>3. UNCHANGED <<versions, secrets, fw, vms, nat, policies>>
  BY DEF ExpireToken, kubeVars, cloudVars
<1>4. CASE job' = job
  <2>1. Monotone
    BY <1>3 DEF Monotone
  <2>2. TypeOK' /\ ServersSound'
    BY <1>1, <1>2, <1>3, <1>4, <2>1, ServersKept DEF IInv, TypeOK, ServersSound
  <2>. QED
    BY <1>3, <1>4, <2>1, <2>2, AroundSound
<1>5. CASE job # Idle /\ job' = [job EXCEPT !.auth = FALSE]
  <2>1. PICK i \in Job : i = job /\ Sound(i.m, i.obj) /\ StepSound(i) /\ FreshSound(i)
    BY <1>5 DEF IInv, TypeOK, JobSound
  <2>2. PICK j \in Job : j = [i EXCEPT !.auth = FALSE]
    BY DEF Job
  <2>3. /\ job' = j /\ j.m = i.m /\ j.pc = i.pc /\ j.obj = i.obj
        /\ j.vm = i.vm /\ j.ip = i.ip /\ j.fresh = i.fresh
    BY <1>5, <2>1, <2>2 DEF Job
  <2>4. Sound(j.m, j.obj) /\ StepSound(j) /\ FreshSound(j)
    BY <2>1, <2>3 DEF StepSound, FreshSound
  <2>. QED
    BY <1>1, <1>2, <1>3, <2>3, <2>4, JobMoves DEF IInv, TypeOK
<1>. QED
  BY <1>4, <1>5 DEF ExpireToken

LEMMA UserSound ==
  ASSUME IInv,
         \/ \E c \in Clusters : SupplyToken(c) \/ DeleteLeftover(c)
         \/ \E m \in Machines : CollectFirewall(m)
  PROVE  IInv'
<1>1. Monotone
  BY SentinelsAssumption
  DEF SupplyToken, DeleteLeftover, CollectFirewall, Monotone, kubeVars, cloudVars,
      IInv, TypeOK
<1>2. UNCHANGED <<versions, job, vms, nat, policies, disturbed>>
  BY DEF SupplyToken, DeleteLeftover, CollectFirewall, kubeVars, cloudVars
<1>3. ServersSound'
  BY <1>1, <1>2, ServersKept DEF IInv, ServersSound
<1>4. /\ tokens' \in [Clusters -> Tokens]
      /\ secrets' \in [Clusters -> Machines \cup {NoMachine, Leftover}]
  BY DEF SupplyToken, DeleteLeftover, CollectFirewall, kubeVars, IInv, TypeOK, Tokens
<1>5. fw' \in [Machines -> Firewall]
  <2>1. NoFirewall \in Firewall /\ fw \in [Machines -> Firewall]
    BY DEF NoFirewall, Firewall, IInv, TypeOK
  <2>2. fw' = fw \/ \E m \in Machines : fw' = [fw EXCEPT ![m] = NoFirewall]
    BY DEF SupplyToken, DeleteLeftover, CollectFirewall, kubeVars
  <2>. QED
    BY <2>1, <2>2
<1>6. TypeOK'
  BY <1>2, <1>4, <1>5 DEF IInv, TypeOK
<1>. QED
  BY <1>1, <1>2, <1>3, <1>6, AroundSound

-----------------------------------------------------------------------------
(* The theorems *)

\* Whatever machines there are at the start.
LEMMA InitWithSound ==
  ASSUME NEW present, InitWith(present)
  PROVE  IInv
<1>1. NewStatus \in Status
  BY DEF NewStatus, Status
<1>2. versions \in [Machines -> Seq(Status \cup {Gone})]
  BY <1>1, SingletonSeq DEF InitWith
<1>3. \A m \in Machines : /\ versions[m] # <<>>
                          /\ DOMAIN versions[m] = {1}
                          /\ versions[m][1] \in {NewStatus, Gone}
  <2>1. \A m \in Machines : versions[m] \in {<<NewStatus>>, <<Gone>>}
    BY DEF InitWith
  <2>2. ASSUME NEW x \in Status \cup {Gone}
        PROVE  <<x>> # <<>> /\ DOMAIN <<x>> = {1} /\ <<x>>[1] = x
    <3>1. <<x>> \in Seq(Status \cup {Gone}) /\ Len(<<x>>) # 0
      BY SingletonSeq
    <3>. QED
      BY <3>1, SeqLength
  <2>. QED
    BY <1>1, <2>1, <2>2
<1>4. TypeOK
  BY <1>2, <1>3, DisturbancesAssumption
  DEF InitWith, TypeOK, CloudInit, NoServer, NoFirewall, Firewall, VMStates, Tokens
<1>5. ServersSound
  BY DEF InitWith, CloudInit, ServersSound, NoServer
<1>6. VersionsSound
  <2>1. \A m \in Machines : Shown(m) \subseteq {NewStatus, Gone}
    BY <1>3 DEF Shown
  <2>2. \A m \in Machines : Sound(m, NewStatus)
    BY DEF Sound, NewStatus
  <2>. QED
    BY <2>1, <2>2 DEF VersionsSound
<1>7. JobSound
  BY DEF InitWith, JobSound
<1>. QED
  BY <1>4, <1>5, <1>6, <1>7 DEF IInv

LEMMA InitSound == Init => IInv
BY InitWithSound DEF Init

LEMMA NextSound == IInv /\ [Next]_vars => IInv'
<1>. SUFFICES ASSUME IInv, [Next]_vars PROVE IInv'
  OBVIOUS
<1>1. CASE \E m \in Machines : Reconcile(m)
  BY <1>1, ReconcileSound
<1>2. CASE JobStep
  BY <1>2, JobStepSound
<1>3. CASE CallFails
  BY <1>3, CallFailsSound
<1>4. CASE Crash
  BY <1>4, CrashSound
<1>5. ASSUME NEW m \in Machines, WatchEvent(m) PROVE IInv'
  BY <1>5, WatchEventSound
<1>6. ASSUME NEW m \in Machines, UserEdit(m) PROVE IInv'
  <2>1. Disturb("edit") /\ OutsideWrite(m, Stored(m))
    BY <1>6 DEF UserEdit
  <2>. QED
    BY <2>1, OutsideWriteSound
<1>7. ASSUME NEW m \in Machines, DeleteMachine(m) PROVE IInv'
  <2>1. Disturb("delete") /\ OutsideWrite(m, Gone)
    BY <1>7 DEF DeleteMachine
  <2>. QED
    BY <2>1, OutsideWriteSound
<1>8. CASE \/ \E c \in Clusters : SupplyToken(c) \/ DeleteLeftover(c)
           \/ \E m \in Machines : CollectFirewall(m)
  BY <1>8, UserSound
<1>9. CASE \/ \E v \in VMs : Cloud(v)
           \/ \E c \in Clusters : ExpireToken(c)
  BY <1>9, CloudSound, ExpireTokenSound
<1>10. CASE UNCHANGED vars
  <2>1. Monotone
    BY <1>10 DEF vars, Monotone
  <2>2. TypeOK' /\ ServersSound'
    BY <1>10, <2>1, ServersKept DEF vars, IInv, TypeOK, ServersSound
  <2>. QED
    BY <1>10, <2>1, <2>2, AroundSound DEF vars
<1>. QED
  BY <1>1, <1>2, <1>3, <1>4, <1>5, <1>6, <1>7, <1>8, <1>9, <1>10 DEF Next

\* IInv holds in every behaviour of the controller.
THEOREM Invariance == Spec => []IInv
BY InitSound, NextSound, PTL DEF Spec

\* Every variable keeps its type: no reconcile holds a half-decoded copy, and
\* the cache of no object is empty.
THEOREM TypeCorrect == Spec => []TypeOK
BY Invariance, PTL DEF IInv

LEMMA ReadyHoldsSecret ==
  ASSUME IInv, NEW m \in Machines, Exists(m), Stored(m).ready
  PROVE  secrets[ClusterOf[m]] = m
<1>1. Sound(m, Stored(m))
  BY StoredIsShown DEF IInv, VersionsSound, Exists
<1>. QED
  BY <1>1 DEF Sound

LEMMA OneReadyByInvariant == IInv => OneReadyControlPlane
BY ReadyHoldsSecret DEF OneReadyControlPlane, ReadyControlPlanes

LEMMA BootstrapHasIPByInvariant == IInv => BootstrapHasIP
<1>. SUFFICES ASSUME IInv PROVE BootstrapHasIP
  OBVIOUS
<1>1. job.pc \in {"probe", "createSecret"} => job.obj.ip # NoIP
  BY DEF IInv, JobSound, StepSound, Idle
<1>2. \A m \in Machines : \A i \in DOMAIN versions[m] :
        versions[m][i] # Gone /\ versions[m][i].bootstrap
          => versions[m][i].ip # NoIP
  BY DEF IInv, VersionsSound, Sound, Shown
<1>. QED
  BY <1>1, <1>2 DEF BootstrapHasIP

LEMMA RoutesHomeByInvariant == IInv => RecordedIPRoutesHome
<1>. SUFFICES ASSUME IInv, NEW m \in Machines, Exists(m), Stored(m).ip # NoIP
              PROVE  /\ nat[Stored(m).ip] = Stored(m).id
                     /\ vms[Stored(m).id].owner = m
  BY DEF RecordedIPRoutesHome
<1>1. Sound(m, Stored(m))
  BY StoredIsShown DEF IInv, VersionsSound, Exists
<1>. QED
  BY <1>1 DEF Sound

LEMMA JoinTargetByInvariant == IInv => JoinTargetBootstrapped
BY DEF IInv, ServersSound, JoinTarget, JoinTargetBootstrapped

\* A cluster never has two ready control planes, because a ready one holds the
\* cluster's kubeconfig secret, which FetchAndCreateKubeconfigSecret creates
\* and nobody replaces.
THEOREM AtMostOneReady == Spec => []OneReadyControlPlane
BY OneReadyByInvariant, Invariance, PTL

\* AssignedPublicIps[0] exists wherever CheckControlPlaneMachineReady and
\* FetchAndCreateKubeconfigSecret read it: in the running reconcile's copy, and
\* in every version, marked BootstrapReady, of a control plane that the cache
\* may show to JoinControlPlane.
THEOREM BootstrappedHasPublicIP == Spec => []BootstrapHasIP
BY BootstrapHasIPByInvariant, Invariance, PTL

\* The public IP a machine records is paired with the machine's own server,
\* although AttachPublicIP picks any available one and its reply may be lost.
THEOREM PublicIPRoutesHome == Spec => []RecordedIPRoutesHome
BY RoutesHomeByInvariant, Invariance, PTL

\* Every server that joins another one joins that of a control plane which
\* holds its cluster's kubeconfig secret, however old the list was from which
\* JoinControlPlane took it.
THEOREM JoinsBootstrapped == Spec => []JoinTargetBootstrapped
BY JoinTargetByInvariant, Invariance, PTL

\* What a reconcile writes over the stored status keeps the server it records,
\* and it never writes over a joined one.
LEMMA WriteKeepsServer ==
  ASSUME IInv, NEW m \in Machines, Exists(m), NEW obj \in Status, NEW pc,
         job.pc \in Steps, job.m = m,
         job.pc \in CreateSteps \/ obj.id = job.obj.id,
         job.pc \in {"recordVM", "markJoined", "syncStatus"} \cup NetworkSteps,
         job.fresh, Put(m, obj)
  PROVE  /\ Stored(m)' \in Status
         /\ ~Stored(m).joined
         /\ Stored(m).id # NoVM => Stored(m)'.id = Stored(m).id
<1>1. /\ Sound(m, job.obj) /\ StepSound(job) /\ FreshSound(job)
  BY RunningJob
<1>2. Stored(m)' = obj
  BY PutLemma DEF IInv
<1>3. Sound(m, Stored(m))
  BY StoredIsShown DEF IInv, VersionsSound, Exists
<1>4. CASE job.pc \in {"recordVM", "markJoined"}
  BY <1>1, <1>2, <1>4 DEF StepSound, FreshSound, CreateSteps
<1>5. CASE job.pc \in {"syncStatus"} \cup NetworkSteps
  <2>1. Stored(m).id = job.obj.id /\ job.obj.id # NoVM
    BY <1>1, <1>5 DEF StepSound, FreshSound
  <2>2. obj.id = job.obj.id
    BY <1>5 DEF CreateSteps, NetworkSteps
  <2>. QED
    BY <1>2, <1>3, <2>1, <2>2 DEF Sound
<1>. QED
  BY <1>4, <1>5

\* What a step of a reconcile writes: a status of its machine, over the one it
\* has a fresh copy of.
LEMMA JobStepWrites ==
  ASSUME IInv, JobStep, NEW m \in Machines, versions'[m] # versions[m]
  PROVE  \E obj \in Status :
           /\ job.pc \in Steps /\ job.m = m /\ job.fresh /\ Put(m, obj)
           /\ job.pc \in CreateSteps \/ obj.id = job.obj.id
           /\ job.pc \in {"recordVM", "markJoined", "syncStatus"}
                           \cup NetworkSteps
<1>1. ASSUME NEW obj \in Status, NEW pc, job.pc \in Steps, Update(obj, pc)
      PROVE  job.m = m /\ job.fresh /\ Put(m, obj)
  <2>1. job.fresh /\ Put(job.m, obj)
    BY <1>1 DEF Update
  <2>2. job.m \in Machines
    BY <1>1, RunningJob
  <2>3. job.m = m
    BY <2>1, <2>2 DEF Put, IInv, TypeOK
  <2>. QED
    BY <2>1, <2>3
<1>2. job.pc \in Steps => job.obj \in Status /\ job \in Job /\ StepSound(job)
  BY RunningJob
<1>3. CASE UpdateVMStatus
  <2>1. job.pc = "recordVM" /\ job.pc \in Steps
    BY <1>3 DEF UpdateVMStatus, Steps
  <2>2. job.vm \in VMs
    BY <1>2, <2>1 DEF StepSound
  <2>3. PICK obj \in Status : obj = ServerResponse(job.vm, "Creating")
    BY <2>2 DEF ServerResponse, NewStatus, Status
  <2>4. job.fresh /\ Put(job.m, obj)
    BY <1>3, <2>3 DEF UpdateVMStatus, Update
  <2>5. job.m = m
    <3>1. job.m \in Machines
      BY <2>1, RunningJob
    <3>. QED
      BY <2>4, <3>1 DEF Put, IInv, TypeOK
  <2>. QED
    BY <2>1, <2>4, <2>5 DEF CreateSteps
<1>4. CASE MarkJoined
  <2>1. job.pc = "markJoined" /\ job.pc \in Steps
    BY <1>4 DEF MarkJoined, Steps
  <2>2. PICK obj \in Status : obj = [job.obj EXCEPT !.joined = TRUE]
    BY <1>2, <2>1 DEF Status
  <2>. QED
    BY <1>1, <1>4, <2>1, <2>2 DEF MarkJoined, CreateSteps
<1>5. CASE SyncStatus
  <2>1. job.pc = "syncStatus" /\ job.pc \in Steps
    BY <1>5 DEF SyncStatus, Steps
  <2>. QED
    BY <1>1, <1>2, <1>5, <2>1 DEF SyncStatus
<1>6. CASE RecordPublicIP
  <2>1. job.pc = "recordIP" /\ job.pc \in Steps
    BY <1>6 DEF RecordPublicIP, Steps
  <2>2. PICK obj \in Status : obj = [job.obj EXCEPT !.ip = job.ip]
    BY <1>2, <2>1 DEF Status, Job
  <2>3. obj.id = job.obj.id
    BY <1>2, <2>1, <2>2 DEF Status
  <2>. QED
    BY <1>1, <1>6, <2>1, <2>2, <2>3 DEF RecordPublicIP, NetworkSteps
<1>7. CASE MarkBootstrap
  <2>1. job.pc = "markBootstrap" /\ job.pc \in Steps
    BY <1>7 DEF MarkBootstrap, Steps
  <2>2. PICK obj \in Status :
          obj = [job.obj EXCEPT !.bootstrap = TRUE, !.ready = FALSE]
    BY <1>2, <2>1 DEF Status
  <2>3. obj.id = job.obj.id
    BY <1>2, <2>1, <2>2 DEF Status
  <2>. QED
    BY <1>1, <1>7, <2>1, <2>2, <2>3 DEF MarkBootstrap, NetworkSteps
<1>8. CASE MarkReady
  <2>1. job.pc = "markReady" /\ job.pc \in Steps
    BY <1>8 DEF MarkReady, Steps
  <2>2. PICK obj \in Status :
          obj = [job.obj EXCEPT !.bootstrap = TRUE, !.ready = TRUE]
    BY <1>2, <2>1 DEF Status
  <2>3. obj.id = job.obj.id
    BY <1>2, <2>1, <2>2 DEF Status
  <2>. QED
    BY <1>1, <1>8, <2>1, <2>2, <2>3 DEF MarkReady, NetworkSteps
<1>. QED
  BY <1>3, <1>4, <1>5, <1>6, <1>7, <1>8
  DEF JobStep, CreateVM, JoinControlPlane, CreateWorkerVM, GetCreatedVM,
      AttachPublicIP, AddFirewallSettings, CreateFirewallObject,
      RecordFirewallJob, CheckControlPlaneMachineReady,
      FetchAndCreateKubeconfigSecret, kubeVars

LEMMA JobStepKeepsServer ==
  ASSUME IInv, JobStep, NEW m \in Machines, Exists(m)
  PROVE  \/ Stored(m)' = Stored(m)
         \/ /\ Stored(m)' \in Status
            /\ ~Stored(m).joined
            /\ Stored(m).id # NoVM => Stored(m)'.id = Stored(m).id
<1>1. CASE versions'[m] = versions[m]
  BY <1>1 DEF Stored
<1>2. CASE versions'[m] # versions[m]
  BY <1>2, JobStepWrites, WriteKeepsServer
<1>. QED
  BY <1>1, <1>2

\* Every step leaves the stored status, deletes the object, or writes a status
\* that keeps the server recorded.
LEMMA StepKeepsServer ==
  ASSUME IInv, [Next]_vars, NEW m \in Machines, Exists(m)
  PROVE  \/ Stored(m)' = Stored(m)
         \/ Stored(m)' = Gone
         \/ /\ ~Stored(m).joined
            /\ Stored(m).id # NoVM => Stored(m)'.id = Stored(m).id
<1>1. CASE JobStep
  BY <1>1, JobStepKeepsServer
<1>2. CASE Crash
  BY <1>2, ResyncLemma DEF Crash, IInv
<1>3. ASSUME NEW n \in Machines, WatchEvent(n)
      PROVE  Stored(m)' = Stored(m)
  <2>1. Deliver(n)
    BY <1>3 DEF WatchEvent
  <2>2. Stored(n)' = Stored(n) /\ \A k \in Machines \ {n} : versions'[k] = versions[k]
    BY <2>1, DeliverLemma DEF IInv
  <2>. QED
    BY <2>2 DEF Stored
<1>4. ASSUME NEW n \in Machines, NEW obj \in {Stored(n), Gone}, OutsideWrite(n, obj)
      PROVE  Stored(m)' = Stored(m) \/ Stored(m)' = Gone
  <2>1. PICK o \in Status \cup {Gone} : o = obj
    BY StoredIsShown DEF IInv
  <2>2. Put(n, o)
    BY <1>4, <2>1 DEF OutsideWrite
  <2>3. Stored(n)' = o /\ \A k \in Machines \ {n} : versions'[k] = versions[k]
    BY <2>2, PutLemma DEF IInv
  <2>. QED
    BY <2>1, <2>3 DEF Stored
<1>5. ASSUME NEW n \in Machines, UserEdit(n) \/ DeleteMachine(n)
      PROVE  Stored(m)' = Stored(m) \/ Stored(m)' = Gone
  <2>1. CASE UserEdit(n)
    BY <1>4, <2>1 DEF UserEdit
  <2>2. CASE DeleteMachine(n)
    BY <1>4, <2>2 DEF DeleteMachine
  <2>. QED
    BY <1>5, <2>1, <2>2
<1>6. CASE UNCHANGED versions
  BY <1>6 DEF Stored
<1>7. \/ JobStep \/ Crash \/ UNCHANGED versions
      \/ \E n \in Machines : WatchEvent(n) \/ UserEdit(n) \/ DeleteMachine(n)
  BY DEF Next, vars, Reconcile, CallFails, CollectFirewall, SupplyToken,
         ExpireToken, DeleteLeftover, Cloud, kubeVars
<1>. QED
  BY <1>1, <1>2, <1>3, <1>5, <1>6, <1>7

\* The server a machine records is never exchanged or forgotten: a create call
\* is made only by a reconcile whose copy has no server, and the API server
\* refuses its update when another update came first.
THEOREM ServerIsKept == Spec => IdStable
<1>1. IInv /\ [Next]_vars
        => [\A m \in Machines :
              Exists(m) /\ Stored(m).id # NoVM
                => ~Exists(m)' \/ Stored(m)'.id = Stored(m).id]_vars
  BY StepKeepsServer DEF Exists
<1>. QED
  BY <1>1, Invariance, PTL DEF Spec, IdStable

\* A stored joined flag is never followed by another write of the status: the
\* reconciles that might write it hold an outdated copy, or have nothing to do.
THEOREM JoinedIsKept == Spec => JoinedIsFinal
<1>1. IInv /\ [Next]_vars
        => [\A m \in Machines :
              Exists(m) /\ Stored(m).joined
                => ~Exists(m)' \/ Stored(m)' = Stored(m)]_vars
  BY StepKeepsServer DEF Exists
<1>. QED
  BY <1>1, Invariance, PTL DEF Spec, JoinedIsFinal
=============================================================================
