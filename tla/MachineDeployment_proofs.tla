----------------------- MODULE MachineDeployment_proofs -----------------------
(***************************************************************************)
(* Proofs about MachineDeployment: the reconciler, which is only woken by  *)
(* events, never goes to sleep while its deployment is short of machines.  *)
(*                                                                         *)
(* What makes it inductive: a reconciler that sleeps has seen enough       *)
(* machines, or an event is on its way that will wake it (Awake); and a    *)
(* running reconcile whose key is not queued again works from a deployment *)
(* that the cache still shows (JobSound).                                  *)
(***************************************************************************)
EXTENDS MachineDeployment, SequenceTheorems, FiniteSetTheorems, TLAPS

-----------------------------------------------------------------------------
(* The inductive invariant *)

\* The deployment the cache shows has enough machines among those it shows.
Satisfied ==
  Cached(deployments).exists
    => Cardinality(Cached(machines)) >= Cached(deployments).replicas

Awake ==
  queued \/ job # Idle \/ Len(deployments) > 1 \/ Len(machines) > 1 \/ Satisfied

JobSound ==
  job # Idle =>
    /\ job.pc = "create" => job.todo > 0
    /\ ~queued => Cached(deployments).replicas = job.replicas

ObjectsSound ==
  /\ \A i \in DOMAIN deployments :
       deployments[i].exists
         => deployments[i].uid > 0 /\ deployments[i].replicas \in Sizes
  /\ \A i \in DOMAIN machines : IsFiniteSet(machines[i])

IInv == TypeOK /\ ObjectsSound /\ JobSound /\ Awake

-----------------------------------------------------------------------------
(* Sequences of versions *)

LEMMA VersionsLemma ==
  ASSUME NEW S, NEW s \in Seq(S), s # <<>>
  PROVE  /\ Len(s) \in Nat \ {0}
         /\ 1 \in DOMAIN s /\ Len(s) \in DOMAIN s
         /\ Cached(s) = s[1] /\ Stored(s) = s[Len(s)]
         /\ Cached(s) \in S /\ Stored(s) \in S
<1>1. Len(s) \in Nat \ {0} /\ DOMAIN s = 1..Len(s)
  BY EmptySeq, LenProperties
<1>2. Cached(s) = s[1]
  BY DEF Cached
<1>3. s[1] \in S /\ s[Len(s)] \in S
  BY <1>1, ElementOfSeq
<1>. QED
  BY <1>1, <1>2, <1>3 DEF Stored

LEMMA AppendLemma ==
  ASSUME NEW S, NEW s \in Seq(S), s # <<>>, NEW x \in S
  PROVE  /\ Append(s, x) \in Seq(S)
         /\ Append(s, x) # <<>>
         /\ Len(Append(s, x)) > 1
         /\ Cached(Append(s, x)) = Cached(s)
         /\ \A i \in DOMAIN Append(s, x) :
              Append(s, x)[i] = x \/ (i \in DOMAIN s /\ Append(s, x)[i] = s[i])
<1>1. Len(s) \in Nat \ {0} /\ 1 \in DOMAIN s /\ DOMAIN s = 1..Len(s)
  BY VersionsLemma, LenProperties
<1>2. PICK t \in Seq(S) : t = Append(s, x)
  BY AppendProperties
<1>3. /\ Len(t) = Len(s) + 1
      /\ \A i \in 1..Len(s) : t[i] = s[i]
      /\ t[Len(s) + 1] = x
  BY <1>2, AppendProperties
<1>4. t # <<>> /\ DOMAIN t = 1..(Len(s) + 1)
  BY <1>1, <1>3, EmptySeq, LenProperties
<1>5. Cached(t) = t[1] /\ Cached(s) = s[1]
  BY <1>4, VersionsLemma
<1>. QED
  BY <1>1, <1>2, <1>3, <1>4, <1>5

LEMMA TailLemma ==
  ASSUME NEW S, NEW s \in Seq(S), Len(s) > 1
  PROVE  /\ Tail(s) \in Seq(S)
         /\ Tail(s) # <<>>
         /\ \A i \in DOMAIN Tail(s) : i + 1 \in DOMAIN s /\ Tail(s)[i] = s[i + 1]
<1>1. Len(s) \in Nat /\ DOMAIN s = 1..Len(s) /\ s # <<>>
  BY EmptySeq, LenProperties
<1>2. PICK t \in Seq(S) : t = Tail(s) /\ Len(t) = Len(s) - 1
                          /\ \A i \in 1..Len(t) : t[i] = s[i + 1]
  BY <1>1, HeadTailProperties
<1>3. DOMAIN t = 1..Len(t) /\ t # <<>>
  BY <1>1, <1>2, EmptySeq, LenProperties
<1>4. \A i \in 1..Len(t) : i + 1 \in 1..Len(s)
  BY <1>1, <1>2
<1>. QED
  BY <1>1, <1>2, <1>3, <1>4

LEMMA SingletonLemma ==
  ASSUME NEW S, NEW x \in S
  PROVE  /\ <<x>> \in Seq(S) /\ <<x>> # <<>> /\ DOMAIN <<x>> = {1} /\ <<x>>[1] = x
         /\ Cached(<<x>>) = x
<1>1. PICK s \in Seq(S) : s = <<x>> /\ Len(s) = 1 /\ s[1] = x
  <2>1. <<x>> \in Seq(S) /\ Len(<<x>>) = 1 /\ <<x>>[1] = x
    OBVIOUS
  <2>. QED
    BY <2>1
<1>2. s # <<>> /\ DOMAIN s = 1..1
  BY <1>1, EmptySeq, LenProperties
<1>3. Cached(s) = x
  BY <1>1, <1>2, VersionsLemma
<1>. QED
  BY <1>1, <1>2, <1>3

LEMMA DisturbType ==
  ASSUME TypeOK, NEW kind, Disturb(kind) \/ Calm
  PROVE  disturbed' \in 0..MaxDisturbances
BY ConstantsAssumption DEF Disturb, Calm, TypeOK

-----------------------------------------------------------------------------
(* The reconciler *)

LEMMA JobStepSound ==
  ASSUME IInv, JobStep
  PROVE  IInv'
<1>1. disturbed' \in 0..MaxDisturbances
  <2>1. Calm \/ Disturb("createFails")
    BY DEF JobStep, Reconcile, CountChildren, CreateMachine, CreateFails
  <2>. QED
    BY <2>1, DisturbType DEF IInv
<1>2. /\ Cached(deployments) \in Deployment /\ Cached(deployments) = deployments[1]
      /\ 1 \in DOMAIN deployments
      /\ Cached(machines) \in SUBSET Machine /\ Cached(machines) = machines[1]
      /\ Stored(machines) \in SUBSET Machine
      /\ Stored(machines) = machines[Len(machines)]
      /\ 1 \in DOMAIN machines /\ Len(machines) \in DOMAIN machines
  BY VersionsLemma DEF IInv, TypeOK
<1>3. Cardinality(Cached(machines)) \in Nat
  BY <1>2, FS_CardinalityType DEF IInv, ObjectsSound
<1>4. job.pc \in {"count", "create"} => job \in Job /\ job # Idle
  BY DEF IInv, TypeOK, Idle
<1>5. Job \cap {Idle} = {}
  BY DEF Job, Idle
<1>6. CASE Reconcile
  <2>1. PICK d \in Deployment : d = Cached(deployments)
    BY <1>2
  <2>2. d.exists => d.uid \in 1..MaxUID /\ d.replicas \in Sizes
    BY <1>2, <2>1, ConstantsAssumption DEF IInv, ObjectsSound, Deployment
  <2>3. PICK j : j = [pc |-> "count", uid |-> d.uid, replicas |-> d.replicas,
                      todo |-> 0]
    OBVIOUS
  <2>4. d.exists => j \in Job /\ job' = j
    BY <1>6, <2>1, <2>2, <2>3 DEF Reconcile, Job
  <2>5. ~d.exists => job' = Idle
    BY <1>6, <2>1 DEF Reconcile
  <2>6. UNCHANGED <<deployments, machines, template>> /\ queued' = FALSE
    BY <1>6 DEF Reconcile, objectVars
  <2>7. TypeOK' /\ ObjectsSound'
    BY <1>1, <2>4, <2>5, <2>6 DEF IInv, TypeOK, ObjectsSound
  <2>8. JobSound'
    BY <2>1, <2>3, <2>4, <2>5, <2>6 DEF JobSound
  <2>9. Awake'
    BY <1>5, <2>1, <2>4, <2>6 DEF Awake, Satisfied
  <2>. QED
    BY <2>7, <2>8, <2>9 DEF IInv
<1>7. CASE CountChildren
  <2>1. job \in Job /\ job # Idle
    BY <1>4, <1>7 DEF CountChildren
  <2>2. UNCHANGED <<deployments, machines, template>>
    BY <1>7 DEF CountChildren, objectVars
  <2>3. CASE Retry
    BY <1>1, <2>2, <2>3 DEF Retry, IInv, TypeOK, ObjectsSound, JobSound, Awake
  <2>4. CASE Cardinality(Cached(machines)) >= job.replicas /\ Return
    <3>1. Awake'
      BY <2>1, <2>2, <2>4 DEF Return, Awake, Satisfied, IInv, JobSound
    <3>. QED
      BY <1>1, <2>2, <2>4, <3>1
      DEF Return, IInv, TypeOK, ObjectsSound, JobSound
  <2>5. CASE /\ ~(Cardinality(Cached(machines)) >= job.replicas)
             /\ job' = [job EXCEPT !.pc = "create",
                          !.todo = job.replicas - Cardinality(Cached(machines))]
             /\ UNCHANGED queued
    <3>1. job.replicas \in Nat
      BY <2>1, ConstantsAssumption DEF Job
    <3>2. /\ job.replicas - Cardinality(Cached(machines)) \in Nat
          /\ job.replicas - Cardinality(Cached(machines)) > 0
      BY <1>3, <2>5, <3>1
    <3>3. job' \in Job /\ job'.replicas = job.replicas /\ job'.todo > 0
      BY <2>1, <2>5, <3>2 DEF Job
    <3>4. JobSound'
      BY <2>1, <2>2, <2>5, <3>3 DEF IInv, JobSound
    <3>5. Awake'
      BY <1>5, <3>3 DEF Awake
    <3>. QED
      BY <1>1, <2>2, <2>5, <3>3, <3>4, <3>5 DEF IInv, TypeOK, ObjectsSound
  <2>. QED
    BY <1>7, <2>3, <2>4, <2>5 DEF CountChildren
<1>8. CASE CreateMachine
  <2>1. job \in Job /\ job # Idle /\ job.todo > 0
    BY <1>4, <1>8 DEF CreateMachine, IInv, JobSound
  <2>2. PICK n \in Names : n = CHOOSE k \in FreshNames : TRUE
    BY <1>8 DEF CreateMachine, FreshNames
  <2>3. PICK made \in Machine :
          made = [name |-> n, owner |-> job.uid]
    <3>1. job.uid \in 1..MaxUID
      BY <2>1 DEF Job
    <3>. QED
      BY <3>1 DEF Machine
  <2>4. PICK set \in SUBSET Machine :
          set = Stored(machines) \cup {made} /\ IsFiniteSet(set)
    <3>1. IsFiniteSet(Stored(machines))
      BY <1>2 DEF IInv, ObjectsSound
    <3>2. IsFiniteSet(Stored(machines) \cup {made})
      BY <3>1, FS_AddElement
    <3>. QED
      BY <1>2, <3>2
  <2>5. machines' = Append(machines, set)
    BY <1>8, <2>2, <2>3, <2>4 DEF CreateMachine
  <2>6. /\ machines' \in Seq(SUBSET Machine) /\ machines' # <<>> /\ Len(machines') > 1
        /\ \A i \in DOMAIN machines' : IsFiniteSet(machines'[i])
    BY <2>4, <2>5, AppendLemma DEF IInv, TypeOK, ObjectsSound
  <2>7. UNCHANGED <<deployments, template>>
    BY <1>8 DEF CreateMachine
  <2>8. ObjectsSound'
    BY <2>6, <2>7 DEF IInv, ObjectsSound
  <2>9. CASE Return
    BY <1>1, <2>6, <2>7, <2>8, <2>9 DEF Return, IInv, TypeOK, JobSound, Awake
  <2>10. CASE /\ job.todo # 1
              /\ job' = [job EXCEPT !.todo = @ - 1]
              /\ UNCHANGED queued
    <3>1. job.todo - 1 \in Nat /\ job.todo - 1 > 0
      BY <2>1, <2>10 DEF Job
    <3>2. PICK j \in Job : j = [job EXCEPT !.todo = job.todo - 1]
      BY <2>1, <3>1 DEF Job
    <3>3. job' = j /\ j.replicas = job.replicas /\ j.todo > 0
      BY <2>1, <2>10, <3>1, <3>2 DEF Job
    <3>4. JobSound'
      BY <2>1, <2>7, <2>10, <3>3 DEF IInv, JobSound
    <3>. QED
      BY <1>1, <2>6, <2>7, <2>8, <2>10, <3>3, <3>4 DEF IInv, TypeOK, Awake
  <2>. QED
    BY <1>8, <2>9, <2>10 DEF CreateMachine
<1>9. CASE CreateFails
  BY <1>1, <1>9
  DEF CreateFails, Retry, objectVars, IInv, TypeOK, ObjectsSound, JobSound, Awake
<1>. QED
  BY <1>6, <1>7, <1>8, <1>9 DEF JobStep

-----------------------------------------------------------------------------
(* What happens around it *)

\* Every write of the deployment brings an event.
LEMMA WriteDeploymentSound ==
  ASSUME IInv, NEW d \in Deployment, WriteDeployment(d),
         d.exists => d.uid > 0 /\ d.replicas \in Sizes,
         disturbed' \in 0..MaxDisturbances
  PROVE  IInv'
<1>1. deployments' = Append(deployments, d) /\ UNCHANGED <<machines, template, queued, job>>
  BY DEF WriteDeployment
<1>2. /\ deployments' \in Seq(Deployment) /\ deployments' # <<>>
      /\ Len(deployments') > 1
      /\ Cached(deployments') = Cached(deployments)
      /\ \A i \in DOMAIN deployments' :
           \/ deployments'[i] = d
           \/ i \in DOMAIN deployments /\ deployments'[i] = deployments[i]
  BY <1>1, AppendLemma DEF IInv, TypeOK
<1>3. TypeOK' /\ Awake'
  BY <1>1, <1>2 DEF IInv, TypeOK, Awake
<1>4. ObjectsSound'
  <2>1. \A i \in DOMAIN deployments' :
          deployments'[i].exists
            => deployments'[i].uid > 0 /\ deployments'[i].replicas \in Sizes
    BY <1>2 DEF IInv, ObjectsSound
  <2>. QED
    BY <1>1, <2>1 DEF IInv, ObjectsSound
<1>5. JobSound'
  BY <1>1, <1>2 DEF IInv, JobSound
<1>. QED
  BY <1>3, <1>4, <1>5 DEF IInv

\* So does every write of a machine.
LEMMA WriteMachinesSound ==
  ASSUME IInv, NEW set \in SUBSET Machine, IsFiniteSet(set),
         machines' = Append(machines, set),
         UNCHANGED <<deployments, template, queued, job>>,
         disturbed' \in 0..MaxDisturbances
  PROVE  IInv'
<1>1. /\ machines' \in Seq(SUBSET Machine) /\ machines' # <<>> /\ Len(machines') > 1
      /\ \A i \in DOMAIN machines' :
           \/ machines'[i] = set
           \/ i \in DOMAIN machines /\ machines'[i] = machines[i]
  BY AppendLemma DEF IInv, TypeOK
<1>2. ObjectsSound'
  BY <1>1 DEF IInv, ObjectsSound
<1>. QED
  BY <1>1, <1>2 DEF IInv, TypeOK, JobSound, Awake

LEMMA UserSound ==
  ASSUME IInv,
         \/ \E r \in Sizes : CreateDeployment(r) \/ Scale(r)
         \/ \E m \in Stored(machines) : DeleteMachine(m) \/ CollectMachine(m)
         \/ DeleteDeployment \/ Touch
  PROVE  IInv'
<1>1. disturbed' \in 0..MaxDisturbances
  <2>1. Calm \/ \E kind \in {"scale", "deleteMachine", "deleteDeployment", "touch"} :
                  Disturb(kind)
    BY DEF CreateDeployment, Scale, DeleteMachine, CollectMachine,
           DeleteDeployment, Touch
  <2>. QED
    BY <2>1, DisturbType DEF IInv
<1>2. PICK d \in Deployment : d = Stored(deployments)
  BY VersionsLemma DEF IInv, TypeOK
<1>3. d.exists => d.uid > 0 /\ d.replicas \in Sizes
  <2>1. d = deployments[Len(deployments)] /\ Len(deployments) \in DOMAIN deployments
    BY <1>2, VersionsLemma DEF IInv, TypeOK
  <2>. QED
    BY <2>1 DEF IInv, ObjectsSound
<1>4. PICK set \in SUBSET Machine : set = Stored(machines) /\ IsFiniteSet(set)
  <2>1. /\ Stored(machines) = machines[Len(machines)]
        /\ Len(machines) \in DOMAIN machines /\ Stored(machines) \in SUBSET Machine
    BY VersionsLemma DEF IInv, TypeOK
  <2>. QED
    BY <2>1 DEF IInv, ObjectsSound
<1>5. ASSUME NEW r \in Sizes, CreateDeployment(r) PROVE IInv'
  <2>1. PICK e \in Deployment :
          e = [exists |-> TRUE, uid |-> d.uid + 1, replicas |-> r] /\ e.uid > 0
    <3>1. d.uid \in 0..MaxUID /\ d.uid < MaxUID
      BY <1>2, <1>5 DEF CreateDeployment, Deployment
    <3>2. d.uid + 1 \in 0..MaxUID /\ d.uid + 1 > 0
      BY <3>1, ConstantsAssumption
    <3>3. PICK e : e = [exists |-> TRUE, uid |-> d.uid + 1, replicas |-> r]
      OBVIOUS
    <3>4. e \in Deployment /\ e.uid > 0
      BY <3>2, <3>3 DEF Deployment
    <3>. QED
      BY <3>3, <3>4
  <2>2. WriteDeployment(e)
    BY <1>2, <1>5, <2>1 DEF CreateDeployment
  <2>. QED
    BY <1>1, <2>1, <2>2, WriteDeploymentSound
<1>6. ASSUME NEW r \in Sizes, Scale(r) PROVE IInv'
  <2>1. PICK e \in Deployment : e = [d EXCEPT !.replicas = r]
    BY DEF Deployment
  <2>2. WriteDeployment(e) /\ e.uid > 0 /\ e.replicas \in Sizes
    BY <1>2, <1>3, <1>6, <2>1 DEF Scale, Deployment
  <2>. QED
    BY <1>1, <2>1, <2>2, WriteDeploymentSound
<1>7. CASE DeleteDeployment
  <2>1. PICK e \in Deployment : e = [d EXCEPT !.exists = FALSE]
    BY DEF Deployment
  <2>2. WriteDeployment(e) /\ ~e.exists
    BY <1>2, <1>7, <2>1 DEF DeleteDeployment, Deployment
  <2>. QED
    BY <1>1, <2>1, <2>2, WriteDeploymentSound
<1>8. CASE Touch
  <2>1. CASE WriteDeployment(d) /\ d.exists
    BY <1>1, <1>3, <2>1, WriteDeploymentSound
  <2>2. CASE /\ machines' = Append(machines, set)
             /\ UNCHANGED <<deployments, template, queued, job>>
    BY <1>1, <1>4, <2>2, WriteMachinesSound
  <2>. QED
    BY <1>2, <1>4, <1>8, <2>1, <2>2 DEF Touch
<1>9. ASSUME NEW m \in Stored(machines), DeleteMachine(m) \/ CollectMachine(m)
      PROVE  IInv'
  <2>1. RemoveMachine(m)
    BY <1>9 DEF DeleteMachine, CollectMachine
  <2>2. PICK rest \in SUBSET Machine : rest = set \ {m} /\ IsFiniteSet(rest)
    <3>1. IsFiniteSet(set \ {m})
      BY <1>4, FS_RemoveElement
    <3>. QED
      BY <3>1
  <2>. QED
    BY <1>1, <1>4, <2>1, <2>2, WriteMachinesSound DEF RemoveMachine
<1>. QED
  BY <1>5, <1>6, <1>7, <1>8, <1>9

LEMMA WatchSound ==
  ASSUME IInv, WatchMachines \/ WatchDeployment \/ CreateTemplate
  PROVE  IInv'
<1>1. CASE WatchMachines
  <2>1. /\ machines' \in Seq(SUBSET Machine) /\ machines' # <<>>
        /\ \A i \in DOMAIN machines' :
             i + 1 \in DOMAIN machines /\ machines'[i] = machines[i + 1]
    BY <1>1, TailLemma DEF WatchMachines, IInv, TypeOK
  <2>. QED
    BY <1>1, <2>1
    DEF WatchMachines, IInv, TypeOK, ObjectsSound, JobSound, Awake
<1>2. CASE WatchDeployment
  <2>1. /\ deployments' \in Seq(Deployment) /\ deployments' # <<>>
        /\ \A i \in DOMAIN deployments' :
             /\ i + 1 \in DOMAIN deployments
             /\ deployments'[i] = deployments[i + 1]
    BY <1>2, TailLemma DEF WatchDeployment, IInv, TypeOK
  <2>2. ObjectsSound'
    BY <1>2, <2>1 DEF WatchDeployment, IInv, ObjectsSound
  <2>. QED
    BY <1>2, <2>1, <2>2 DEF WatchDeployment, IInv, TypeOK, JobSound, Awake
<1>3. CASE CreateTemplate
  BY <1>3
  DEF CreateTemplate, IInv, TypeOK, ObjectsSound, JobSound, Awake, Satisfied
<1>. QED
  BY <1>1, <1>2, <1>3

LEMMA CrashSound ==
  ASSUME IInv, Crash
  PROVE  IInv'
<1>1. disturbed' \in 0..MaxDisturbances
  BY DisturbType DEF Crash, IInv
<1>2. PICK d \in Deployment : /\ d = Stored(deployments)
                              /\ d.exists => d.uid > 0 /\ d.replicas \in Sizes
  BY VersionsLemma DEF IInv, TypeOK, ObjectsSound
<1>3. PICK set \in SUBSET Machine : set = Stored(machines) /\ IsFiniteSet(set)
  BY VersionsLemma DEF IInv, TypeOK, ObjectsSound
<1>4. /\ deployments' = <<d>> /\ machines' = <<set>> /\ job' = Idle
      /\ queued' = d.exists /\ UNCHANGED template
  BY <1>2, <1>3 DEF Crash
<1>5. /\ deployments' \in Seq(Deployment) /\ deployments' # <<>>
      /\ DOMAIN deployments' = {1} /\ deployments'[1] = d
      /\ Cached(deployments') = d
  BY <1>4, SingletonLemma
<1>6. /\ machines' \in Seq(SUBSET Machine) /\ machines' # <<>>
      /\ DOMAIN machines' = {1} /\ machines'[1] = set
  BY <1>4, SingletonLemma
<1>7. queued' \in BOOLEAN
  BY <1>2, <1>4 DEF Deployment
<1>8. TypeOK' /\ ObjectsSound'
  BY <1>1, <1>2, <1>3, <1>4, <1>5, <1>6, <1>7 DEF IInv, TypeOK, ObjectsSound
<1>9. JobSound' /\ Awake'
  BY <1>4, <1>5 DEF JobSound, Awake, Satisfied
<1>. QED
  BY <1>8, <1>9 DEF IInv

-----------------------------------------------------------------------------
(* The theorems *)

LEMMA InitSound == Init => IInv
<1>. SUFFICES ASSUME Init PROVE IInv
  OBVIOUS
<1>1. NoDeployment \in Deployment
  BY ConstantsAssumption DEF NoDeployment, Deployment
<1>2. /\ deployments \in Seq(Deployment) /\ deployments # <<>>
      /\ DOMAIN deployments = {1} /\ deployments[1] = NoDeployment
      /\ Cached(deployments) = NoDeployment
  BY <1>1, SingletonLemma DEF Init
<1>3. PICK none \in SUBSET Machine : none = {} /\ IsFiniteSet(none)
  BY FS_EmptySet
<1>4. /\ machines \in Seq(SUBSET Machine) /\ machines # <<>>
      /\ DOMAIN machines = {1} /\ machines[1] = none
  <2>1. machines = <<none>>
    BY <1>3 DEF Init
  <2>. QED
    BY <2>1, SingletonLemma
<1>5. TypeOK
  <2>1. template \in BOOLEAN /\ queued \in BOOLEAN /\ job = Idle
    BY DEF Init
  <2>2. disturbed \in 0..MaxDisturbances
    BY ConstantsAssumption DEF Init
  <2>. QED
    BY <1>2, <1>4, <2>1, <2>2 DEF TypeOK
<1>6. ObjectsSound
  <2>1. ~deployments[1].exists
    BY <1>2 DEF NoDeployment
  <2>. QED
    BY <1>2, <1>3, <1>4, <2>1 DEF ObjectsSound
<1>7. JobSound /\ Awake
  BY <1>2 DEF Init, JobSound, Awake, Satisfied, NoDeployment
<1>. QED
  BY <1>5, <1>6, <1>7 DEF IInv

LEMMA NextSound == IInv /\ [Next]_vars => IInv'
<1>1. CASE UNCHANGED vars
  BY <1>1 DEF vars, IInv, TypeOK, ObjectsSound, JobSound, Awake, Satisfied
<1>. QED
  BY <1>1, JobStepSound, UserSound, WatchSound, CrashSound DEF Next, JobStep

\* IInv holds in every behaviour of the controller.
THEOREM Invariance == Spec => []IInv
BY InitSound, NextSound, PTL DEF Spec

\* Every variable keeps its type; in particular the size of a batch, which is
\* the difference of two counts, is never negative.
THEOREM TypeCorrect == Spec => []TypeOK
BY Invariance, PTL DEF IInv

\* No wake-up is lost, for every number of replicas and of disturbances: where
\* no key is queued, no reconcile runs and no event is on its way, the
\* deployment has the machines it asks for.
THEOREM NeverAsleepAndShort == Spec => []NoLostWakeUp
<1>1. IInv => NoLostWakeUp
  <2>. SUFFICES ASSUME IInv, Quiet, Stored(deployments).exists
                PROVE  Cardinality(Stored(machines)) >= Stored(deployments).replicas
    BY DEF NoLostWakeUp
  <2>1. ~(Len(deployments) > 1) /\ ~(Len(machines) > 1)
    BY DEF Quiet
  <2>2. Satisfied
    BY <2>1 DEF Quiet, IInv, Awake
  <2>3. Cached(deployments) = Stored(deployments) /\ Cached(machines) = Stored(machines)
    BY VersionsLemma DEF Quiet, IInv, TypeOK
  <2>. QED
    BY <2>2, <2>3 DEF Satisfied
<1>. QED
  BY <1>1, Invariance, PTL
=============================================================================
