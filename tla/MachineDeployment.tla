-------------------------- MODULE MachineDeployment --------------------------
(***************************************************************************)
(* The MachineDeployment controller: it counts the KTMachines of a         *)
(* deployment in its cache and creates what is missing, one by one         *)
(* (internal/controller/machinedeployment_controller.go).                  *)
(*                                                                         *)
(* The controller never asks to be called again when it succeeded: what    *)
(* wakes it is a watch event of the deployment or of a machine that names  *)
(* the deployment as its controller.  The manager has one cache and one    *)
(* watch per kind; each watch delivers the changes of its kind in the      *)
(* order in which the API server made them.                                *)
(***************************************************************************)
EXTENDS Integers, Sequences, FiniteSets

CONSTANTS
  Sizes,            \* the values of Spec.Replicas
  MaxUID,           \* how often the deployment may be created
  MaxMachines,      \* a bound on the machines that exist at a time
  Disturbances,     \* the kinds of disturbance that may happen
  MaxDisturbances   \* a bound on how many happen in one behaviour

ASSUME ConstantsAssumption ==
  /\ Sizes \subseteq Nat
  /\ MaxUID \in Nat
  /\ MaxMachines \in Nat
  /\ MaxDisturbances \in Nat
  /\ Disturbances \subseteq {"createFails", "crash", "scale", "touch",
                             "deleteMachine", "deleteDeployment"}

VARIABLES
  deployments,   \* versions of the deployment, from the cached to the stored
  machines,      \* sets of its KTMachines, from the cached to the stored
  template,      \* the KTMachineTemplate of the deployment's name exists
  queued,        \* the deployment's key is in the work queue
  job,           \* the reconcile that is running
  disturbed      \* how many disturbances have happened

vars == <<deployments, machines, template, queued, job, disturbed>>

objectVars == <<deployments, machines, template>>

-----------------------------------------------------------------------------
(* The data *)

Cached(views) == Head(views)

Stored(views) == views[Len(views)]

\* uid: the last UID the deployment had; a deleted one keeps it here.
Deployment == [exists : BOOLEAN, uid : 0..MaxUID, replicas : Sizes \cup {0}]

NoDeployment == [exists |-> FALSE, uid |-> 0, replicas |-> 0]

Names == 1..MaxMachines

\* A KTMachine: its random name and the UID in its owner reference.
Machine == [name : Names, owner : 1..MaxUID]

\* The names no cached, stored or coming machine has.
FreshNames ==
  Names \ UNION {{m.name : m \in machines[i]} : i \in DOMAIN machines}

Job == [pc : {"count", "create"}, uid : 1..MaxUID, replicas : Sizes, todo : Nat]

Idle == [pc |-> "idle", uid |-> 0, replicas |-> 0, todo |-> 0]

Init ==
  /\ deployments = <<NoDeployment>>
  /\ machines = <<{}>>
  /\ template = FALSE
  /\ queued = FALSE
  /\ job = Idle
  /\ disturbed = 0

-----------------------------------------------------------------------------
(* The reconciler *)

\* A disturbance of an enabled kind, within the bound; or none.
Disturb(kind) ==
  /\ kind \in Disturbances
  /\ disturbed < MaxDisturbances
  /\ disturbed' = disturbed + 1

Calm == UNCHANGED disturbed

\* The reconcile succeeds and does not ask to be called again.
Return == job' = Idle /\ UNCHANGED queued

\* The reconcile fails: its key is queued again, with back-off.
Retry == job' = Idle /\ queued' = TRUE

\* Reconcile takes the key from the queue, which may be queued again while it
\* runs, and reads the deployment from the cache.
Reconcile ==
  LET d == Cached(deployments)
  IN /\ queued
     /\ job = Idle
     /\ queued' = FALSE
     /\ job' = IF d.exists
               THEN [pc |-> "count", uid |-> d.uid, replicas |-> d.replicas,
                     todo |-> 0]
               ELSE Idle
     /\ Calm
     /\ UNCHANGED objectVars

\* Variant of CountChildren: any difference is made good by a batch.
CountChildrenAnyDifference ==
  LET count == Cardinality(Cached(machines))
  IN /\ job.pc = "count"
     /\ Calm
     /\ IF count = job.replicas THEN Return
        ELSE IF ~template THEN Retry
        ELSE /\ job' = [job EXCEPT !.pc = "create", !.todo = job.replicas - count]
             /\ UNCHANGED queued
     /\ UNCHANGED objectVars

\* Variant of CountChildren: the batch is always a full one.
CountChildrenFullBatch ==
  LET count == Cardinality(Cached(machines))
  IN /\ job.pc = "count"
     /\ Calm
     /\ IF count >= job.replicas THEN Return
        ELSE IF ~template THEN Retry
        ELSE /\ job' = [job EXCEPT !.pc = "create", !.todo = job.replicas]
             /\ UNCHANGED queued
     /\ UNCHANGED objectVars

\* Variant of CountChildren: a missing template is only logged.
CountChildrenGivesUp ==
  LET count == Cardinality(Cached(machines))
  IN /\ job.pc = "count"
     /\ Calm
     /\ IF count >= job.replicas \/ ~template THEN Return
        ELSE /\ job' = [job EXCEPT !.pc = "create", !.todo = job.replicas - count]
             /\ UNCHANGED queued
     /\ UNCHANGED objectVars

\* countChildMachinesByOwner and the size of the batch: the machines in the
\* cache are told by the name of their owner, not by its UID.  Too many are
\* left alone, but for them too the template has to be there.
CountChildren ==
  LET count == Cardinality(Cached(machines))
  IN /\ job.pc = "count"
     /\ Calm
     /\ IF count # job.replicas /\ ~template THEN Retry
        ELSE IF count >= job.replicas THEN Return
        ELSE /\ job' = [job EXCEPT !.pc = "create", !.todo = job.replicas - count]
             /\ UNCHANGED queued
     /\ UNCHANGED objectVars

\* The next machine of the batch; its name is random, and which one it is does
\* not matter.
CreateMachine ==
  LET made == [name |-> CHOOSE n \in FreshNames : TRUE, owner |-> job.uid]
  IN /\ job.pc = "create"
     /\ FreshNames # {}
     /\ machines' = Append(machines, Stored(machines) \cup {made})
     /\ IF job.todo = 1 THEN Return
        ELSE /\ job' = [job EXCEPT !.todo = @ - 1]
             /\ UNCHANGED queued
     /\ Calm
     /\ UNCHANGED <<deployments, template>>

\* Variant of CreateFails: the error is logged only.
CreateFailsQuietly ==
  /\ job.pc = "create"
  /\ IF FreshNames = {} THEN Calm ELSE Disturb("createFails")
  /\ Return
  /\ UNCHANGED objectVars

\* A create is refused, and with it the rest of the batch: the API server is
\* away, has its quota of objects, or refuses a name that ends in "-", which
\* RandomString may draw.
CreateFails ==
  /\ job.pc = "create"
  /\ IF FreshNames = {} THEN Calm ELSE Disturb("createFails")
  /\ Retry
  /\ UNCHANGED objectVars

JobStep == Reconcile \/ CountChildren \/ CreateMachine \/ CreateFails

-----------------------------------------------------------------------------
(* The user, the other controllers and the API machinery *)

\* A write of the deployment.
WriteDeployment(d) ==
  /\ deployments' = Append(deployments, d)
  /\ UNCHANGED <<machines, template, queued, job>>

CreateDeployment(r) ==
  LET d == Stored(deployments)
  IN /\ ~d.exists
     /\ d.uid < MaxUID
     /\ Calm
     /\ WriteDeployment([exists |-> TRUE, uid |-> d.uid + 1, replicas |-> r])

Scale(r) ==
  /\ Stored(deployments).exists
  /\ Disturb("scale")
  /\ WriteDeployment([Stored(deployments) EXCEPT !.replicas = r])

DeleteDeployment ==
  /\ Stored(deployments).exists
  /\ Disturb("deleteDeployment")
  /\ WriteDeployment([Stored(deployments) EXCEPT !.exists = FALSE])

\* An update that changes nothing the reconciler looks at: the owner reference
\* the KTMachineTemplate controller adds to the deployment, a machine's status.
Touch ==
  /\ Disturb("touch")
  /\ \/ /\ Stored(deployments).exists
        /\ WriteDeployment(Stored(deployments))
     \/ /\ Stored(machines) # {}
        /\ machines' = Append(machines, Stored(machines))
        /\ UNCHANGED <<deployments, template, queued, job>>

RemoveMachine(m) ==
  /\ m \in Stored(machines)
  /\ machines' = Append(machines, Stored(machines) \ {m})
  /\ UNCHANGED <<deployments, template, queued, job>>

DeleteMachine(m) == Disturb("deleteMachine") /\ RemoveMachine(m)

\* The garbage collector removes a machine whose owner is gone.
CollectMachine(m) ==
  /\ ~Stored(deployments).exists \/ m.owner # Stored(deployments).uid
  /\ RemoveMachine(m)
  /\ Calm

CreateTemplate ==
  /\ ~template
  /\ template' = TRUE
  /\ UNCHANGED <<deployments, machines, queued, job, disturbed>>

\* Variant of WatchMachines: only the deployment itself is watched.
WatchMachinesUnowned ==
  /\ Len(machines) > 1
  /\ machines' = Tail(machines)
  /\ UNCHANGED <<deployments, template, queued, job, disturbed>>

\* Owns: an event of a machine queues the deployment its owner reference names.
WatchMachines ==
  /\ Len(machines) > 1
  /\ machines' = Tail(machines)
  /\ queued' = TRUE
  /\ UNCHANGED <<deployments, template, job, disturbed>>

\* For: an event of the deployment queues it.
WatchDeployment ==
  /\ Len(deployments) > 1
  /\ deployments' = Tail(deployments)
  /\ queued' = TRUE
  /\ UNCHANGED <<machines, template, job, disturbed>>

\* The manager dies; the one that takes over lists all objects and queues them.
Crash ==
  /\ Disturb("crash")
  /\ deployments' = <<Stored(deployments)>>
  /\ machines' = <<Stored(machines)>>
  /\ job' = Idle
  /\ queued' = Stored(deployments).exists
  /\ UNCHANGED template

Next ==
  \/ Reconcile \/ CountChildren \/ CreateMachine \/ CreateFails
  \/ \E r \in Sizes : CreateDeployment(r) \/ Scale(r)
  \/ \E m \in Stored(machines) : DeleteMachine(m) \/ CollectMachine(m)
  \/ DeleteDeployment \/ Touch \/ CreateTemplate
  \/ WatchMachines \/ WatchDeployment
  \/ Crash

Spec == Init /\ [][Next]_vars

\* The reconciler runs, the watches deliver, the garbage collector works and
\* the user applies the template.
Fairness ==
  /\ WF_vars(JobStep)
  /\ WF_vars(WatchMachines)
  /\ WF_vars(WatchDeployment)
  /\ WF_vars(\E m \in Stored(machines) : CollectMachine(m))
  /\ WF_vars(CreateTemplate)

FairSpec == Spec /\ Fairness

-----------------------------------------------------------------------------
(* Properties *)

TypeOK ==
  /\ deployments \in Seq(Deployment) /\ deployments # <<>>
  /\ machines \in Seq(SUBSET Machine) /\ machines # <<>>
  /\ template \in BOOLEAN
  /\ queued \in BOOLEAN
  /\ job \in Job \cup {Idle}
  /\ disturbed \in 0..MaxDisturbances

\* Nothing is under way for the deployment: no key, no reconcile, no event.
Quiet ==
  /\ ~queued
  /\ job = Idle
  /\ Len(deployments) = 1
  /\ Len(machines) = 1

\* No wake-up is lost: when nothing is under way, a deployment that exists has
\* the machines it asks for.  Nobody would ever create the missing ones, since
\* a reconcile that succeeded does not ask to be called again.
NoLostWakeUp ==
  Quiet /\ Stored(deployments).exists
    => Cardinality(Stored(machines)) >= Stored(deployments).replicas

MaxSize == CHOOSE r \in Sizes : \A s \in Sizes : s <= r

\* A deployment of r replicas overshoots, because the cache shows its machines
\* one by one while each of them wakes the reconciler: but there are no more
\* than batches of r, r-1, ... 1 machines, and one more batch per failed create,
\* touch or crash.  (Where machines are deleted meanwhile it may be more.)
OvershootBounded ==
  2 * Cardinality(Stored(machines)) <= MaxSize * (MaxSize + 1 + 2 * disturbed)

\* In the end a deployment that is not deleted has, for good, the machines it
\* asks for, and they are its own: those a deleted deployment of the same name
\* left behind, which are counted with them, do not keep it short of machines.
ReplicasReached ==
  <>[](\/ ~Stored(deployments).exists
       \/ Cardinality({m \in Stored(machines) : m.owner = Stored(deployments).uid})
            >= Stored(deployments).replicas)
==============================================================================
