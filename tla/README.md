# kt-cloud-operator in TLA+

TLA+ modules, TLC configurations and TLAPS proofs for kt-cloud-operator, a
Kubernetes operator that builds Kubernetes clusters out of KT Cloud servers.
Paths below are relative to the repository (`src/`).

## The system

The manager (`cmd/main.go`) runs one reconciler per kind, each with one worker
(`MaxConcurrentReconciles` is left at 1), behind leader election, over one
informer cache. Reads of a reconciler come from the cache; the functions of
`cmd/httpapi` make a client of their own, without a cache, for every write.

| Part | State | Operations | Hard behaviour |
|---|---|---|---|
| KTMachine controller (`internal/controller/ktmachine_controller.go`) | `KTMachine.Status` | reconcile of a control plane: create the server, follow its state, attach a public IP, open the firewall, wait for port 8000, store the kubeconfig, announce it; of a worker: find a ready control plane, create a server that joins it | a chain of HTTP calls and status writes with no transaction around them; every call may fail before or after its effect; old reads; crashes |
| KT Cloud client (`cmd/httpapi/cp_vm.go`, `worker_vm.go`, `common.go`, `cp_bootstrap.go`, `network.go`) | none | the HTTP calls | creates are not idempotent; a refused server create is not an error |
| Kubeconfig secret (`cmd/httpapi/helpers.go`) | one secret per cluster | fetch and create | the create that fails when the secret exists is the only lock between control planes |
| KTNetworkFirewall objects (`network.go` 560-673) | rules, jobs | create, append | spec and status are separate writes |
| MachineDeployment controller (`machinedeployment_controller.go`) | none: it counts `KTMachine`s in the cache | create what is missing | counts from an old cache; broken-off batches; no periodic requeue |
| Cluster, KTCluster, KTMachineTemplate controllers | owner references | add an owner reference to the object of the next level | conflicts, missing objects, no requeue on some paths |
| Reconcilers of KTSubjectToken, KTNetworkFirewall, KTPublicNetwork, KubeadmConfigTemplate, KubeadmControlPlane | none | none | none |
| Login (`cmd/httpapi/login.go`) | KTSubjectToken objects | log in, make token objects | not called by the manager |
| API server, cache, KT Cloud | objects; servers, NAT entries, policies | outside the repository | everything else happens between two calls |

How they interact: a Cluster owns a KTCluster, which owns the templates, which
own the MachineDeployments, which own the KTMachines, which own their
KTNetworkFirewall; deletion follows the owner references through the garbage
collector. The MachineDeployment controller creates KTMachines; the KTMachine
controller turns each into a server. Workers find control planes through the
status of the latter's KTMachines only.

What makes each part correct:

* KTMachine: what a status records of the cloud is so (server, IP, route, join
  target), is recorded once, and is not lost through an old copy; a cluster has
  one ready control plane; a machine gets through to the end.
* Teardown of a machine: what it deletes stays on record until it is gone, the
  server goes last, and a broken-off teardown can be taken up again.
* MachineDeployment: a missing machine is always noticed, the surplus that old
  reads make is bounded, the wanted number is reached.
* Owner references: no parent is forgotten before it owns its child, and in the
  end every reference names an object that is there.

## Modules

| Module | What it models |
|---|---|
| `KubeStore` | the versions of each object from the one in the cache to the stored one: reads (`Cached`), writes (`Put`), the watch (`Deliver`), the list at start (`Resync`). External. |
| `KTCloud` | servers, static NAT entries, firewall policies, as the calls of `cmd/httpapi` use them. External, but for `FreeIPs` (the filter on type `ASSOCIATE`). |
| `KTMachine` | the KTMachine controller, call by call |
| `BootstrapLock` | abstract: what the kubeconfig secret promises as a lock |
| `MCKTMachine` | instances of `KTMachine` for TLC |
| `KTMachine_proofs`, `KTFirewall_proofs`, `KTLock_proofs` | theorems about `KTMachine` |
| `MachineDeployment` | the MachineDeployment controller with its queue, watches and cache |
| `MachineDeployment_proofs`, `Overshoot_proofs` | theorems about `MachineDeployment` |
| `Operator` | `KTMachine` and `MachineDeployment` in one manager, over one informer of KTMachines |
| `MCOperator` | instances of `Operator` for TLC |
| `Operator_proofs` | theorems about `Operator` |
| `VMTeardown` | `DeleteVM` and what it calls, as the disabled finalizer would call it |
| `VMTeardown_proofs` | theorems about `VMTeardown` |
| `OwnerRefs` | the Cluster, KTCluster and KTMachineTemplate controllers and the garbage collector |
| `OwnerRefs_proofs` | theorems about `OwnerRefs` |

`KTMachine` composes `KubeStore` and `KTCloud` (EXTENDS) and refines
`BootstrapLock` (INSTANCE). `Operator` composes `KTMachine` (EXTENDS) and
`MachineDeployment` (INSTANCE). `VMTeardown` extends `KTCloud`. `OwnerRefs` takes `KubeStore` with its own objects. A definition named after a variant ("Variant of
...") is a plausible bug of the operator defined after it; nothing uses it but
the check that the properties can fail.

### KTMachine

State: `versions` (KTMachine objects, from `KubeStore`), `vms`, `nat`,
`policies` (the cloud), `tokens` (each cluster's subject token as the cloud sees
it: none, valid, expired), `secrets`
(whose kubeconfig each cluster's secret holds), `fw` (KTNetworkFirewall
objects), `job` (the running reconcile: next call, machine, its copy of the
status, whether the copy carries the stored resourceVersion, whether the cloud
still accepts the token it has read) and `disturbed`.

One action per call of `reconcileInfrastructure`, in the order of the code;
`NetworkStep` and `FirstStep` are its branches between the calls:

| Action | Code |
|---|---|
| `Reconcile` | `Reconcile` to line 100, and the choice of the first call |
| `CreateVM`, `UpdateVMStatus` | `httpapi.CreateVM`: POST; write of the reply |
| `JoinControlPlane`, `CreateWorkerVM`, `MarkJoined` | the worker's branch, lines 424-452 |
| `GetCreatedVM`, `SyncStatus` | lines 329-343 and 461-479 |
| `AttachPublicIP`, `RecordPublicIP` | `httpapi.AttachPublicIP`: POST; write |
| `AddFirewallSettings`, `CreateFirewallObject`, `RecordFirewallJob` | `httpapi.AddFirewallSettings`: POST; object; its status |
| `MarkBootstrap` | lines 380-386 |
| `CheckControlPlaneMachineReady`, `FetchAndCreateKubeconfigSecret`, `MarkReady` | lines 391-411 |
| `CallFails` | any `return err` before the call has an effect |

Around the reconcile: the watch, edits and deletions by others, crash and
restart, the cloud building, stopping and restarting servers, a token that
expires between two calls (`ExpireToken`), the user supplying tokens and deleting a leftover secret (README.md, line 97).

Points of the code that shape the model:

* A status write (`Update`) is refused when the copy's resourceVersion is not
  the stored one. `JoinControlPlane` takes the machine by value: the write of
  the new server's status goes through the copy, and the caller's own object is
  outdated from then on. Hence `joined` is stored only when the create call was
  refused (and nothing was written in between).
* `SyncStatus` replaces the whole status by the cloud's reply, in which the
  operator's own fields (public IP, `ControlPlaneRef`, `WorkerRef`) are absent.
* A worker without an ID asks for `/server/servers/`: the reply is the list of
  servers and decodes to an empty status, which equals the recorded one.
* `AssignedPublicIps` is appended to only while it is empty, so it is a field
  `ip`; a panic on an empty list is recovered by controller-runtime and is an
  error like others.
* `changeKubeconfigDomain` decodes raw data as base64, fails, and its error is
  dropped; it has no effect on the state.
* A reconcile that ends is followed by another one of the same machine (after a
  minute or with back-off), as long as the machine exists: `Return` is `Idle`,
  and `Reconcile(m)` is always possible.
* The finalizer is commented out: a deleted machine is gone at once.
* A firewall policy is accepted with a job, and the wait for the job is commented
  out (`network.go` 532-546). `PostPolicy` is the acceptance; whether the policy
  has an effect by the time of a probe is left open: behind firewall rules a probe
  of an accepted policy may succeed or fail (`MayBeClosed`).
* The list of free public IPs and the POST that pairs one of them with the server
  are one step, `AttachPublicIP`: with one worker per controller nothing else of
  the operator takes an IP in between.
* `JoinControlPlane` indexes the addresses of an empty machine when none of the
  control planes it is given answers (`worker_vm.go:35`). That read does panic;
  the reconcile ends there, and `BootstrapHasIP` is not about it but about the
  reads of `CheckControlPlaneMachineReady` and `FetchAndCreateKubeconfigSecret`.
* The token is read once per reconcile and passed on. When it expires, a server
  create is refused (which is not an error, so a worker is marked as joined),
  every other call of the cloud is an error, and a token renewed meanwhile helps
  the next reconcile only. Port 8000 and the API server need no token.

Abstractions: names, addresses and payloads are model values; one private
network per server, so a server stands for its private address; the cloud's
order of public IPs is any order; servers do not vanish and have no state
`ERROR`; the user deletes a kubeconfig secret only when it is left over from an
earlier cluster; time is not modelled.

### BootstrapLock

`holder[c]` and `phase[c]`: free, claimed, announced, spent. In `KTMachine` the
holder is the machine whose kubeconfig the secret has (none for a leftover) and
the phase follows from the stored status and the running job. The refinement
says more than "at most one ready control plane": after a crash between the
secret and `MarkReady`, or after a stop of the server replaced the status, the
lock is spent and *no* control plane of the cluster is ever announced again.
That is what the code does; it is listed as a hazard.

### VMTeardown

State: `status` (ID and public IP of the machine's status), `fw` (its
KTNetworkFirewall object: the policies its jobs name), the cloud of `KTCloud`,
`job` (the running teardown: next call, policies yet to delete), two histories
(`failed`: the calls on policies and NAT entries that failed; `owed`: the
policies on record at the start) and `disturbed`.

| Action | Code (`cmd/httpapi/common.go`) |
|---|---|
| `GetCreatedVM` | the GET, whose 404 ends `DeleteVM` with success (22-39, 117-173); no recorded IP skips the rest (184) |
| `GetFirewallObject` | `DeleteFirewallSettings` reads the object; not found is an error (225-240) |
| `DeleteFirewallOnCloud` | the loop over the jobs; errors are only logged (242-249) |
| `DeleteFirewallObject` | the delete of the object (250-255) |
| `DeleteStaticNatOnCloud` | the NAT entry; an error is only logged (194-200) |
| `DeleteServerAction` | the POST of the delete action (48-112) |

The initial states are those the KTMachine controller may leave behind, spent NAT
entries and unrecorded policies included. The caller is the finalizer as it is
written inside the comment (`ktmachine_controller.go` 101-161): it calls again
after an error. `Call` is the outcome of a call that deletes: done, done with the
reply lost, or not done. The server may also be deleted by hand.

`TornDownOrStuck` says where the code cannot recover: the firewall object is
deleted before the NAT entry and the server, and a retry takes its absence for an
error (line 231), so a failure after that point, or a cluster without firewall
rules, leaves a server that no teardown ever deletes.

### Operator

`KTMachine` with the machines of a deployment: control planes do not exist at
first and come into being by `MachineDeployment`'s `CreateMachine`; workers are
there from the start. `Views` maps the state onto `MachineDeployment`'s variable
`machines`: the sets of control planes the informer will show as its pending
events (`pending`, one queue, since both controllers share the manager's informer
of KTMachine) are delivered one by one. `MachineDeployment`'s own operators act on
that mapping; `DeliverMachine` is a step of both modules, as is `CrashOperator`.
`AddOwnerRef` is the KTMachineTemplate controller's write of the deployment,
which queues its key: the count that follows may not show the creates of the last
batch, and a deployment of one then makes two control planes. The conflict and the
missing object that this controller may also meet (`OwnerRefs` has them) change
nothing here: it comes back after a minute. There is one set of disturbances and one
count of them for both controllers: where calls of the cloud may fail
(`callFails`), so may the creates of machines (`CreateFails`).

Left out here and covered by the modules on their own: edits and deletions of
machines, the expiry of tokens, the use of a name twice.

### MachineDeployment

State: `deployments` and `machines` (versions from the cached to the stored one,
one sequence per kind, as each kind has its own watch), `template` (the
KTMachineTemplate exists), `queued` (the key is in the work queue, which may
become so again while a reconcile runs), `job` and `disturbed`.

`Reconcile` takes the key and reads the deployment, `CountChildren` counts in
the cache (by the owner's *name*, as the code does) and sizes the batch,
`CreateMachine` is one round of the loop, `CreateFails` is its error path. The
watches of the deployment (`For`) and of its machines (`Owns`) queue the key;
success does not. `FreshNames` abstracts `RandomString`: names are fresh; a name
that ends in "-" is refused by the API server, which is one of the causes of
`CreateFails`. `MaxMachines` is a bound on the machines that exist or are still
shown by the cache: creates are refused beyond it, as with a quota of objects.

### OwnerRefs

State: `versions` (the objects of one cluster, from `KubeStore`; a version is a
UID and the UID in the owner reference), `created` (the last UID of each name),
`queued` (parents whose key is in a work queue or waits for a timer: what is
queued by `RequeueAfter` may come at any time), `jobs` (the running reconcile of
each of the three controllers) and `disturbed`.

The controllers have the same shape, so the actions are parameterised by the
parent: `Reconcile` reads it, `FindChild` reads the child of its name,
`AddOwnerRef` is `SetControllerReference` and `Update`, `UpdateFails` its refusal
(an old copy) or failure. They differ in what `WhenMissing` and `WhenRefused` do:
the KTCluster controller returns without an error when a template is missing
(line 144) and goes on when an update failed (line 179); the other two come back
after a minute. `Proceed` is the KTCluster's second template. A reference to an
earlier object of the same name is replaced, because `SetControllerReference`
compares kind and name, not the UID. The garbage collector (`Collect`) deletes an
object whose reference names a UID that is not there.

The KTCluster controller also watches KTSubjectTokens, and the Cluster
controller MachineDeployments; neither is ever given that owner, so these
watches wake nobody. The informers' periodic resync (10 hours by default) is not
modelled: it would hide each forgotten key for no more than that long.

## Runs

| Run | Properties | Instance |
|---|---|---|
| `worker` | `TypeOK`, `BootstrapHasIP`, `FirewallBeforeBootstrap`, `JoinTargetBootstrapped`, `IdStable`, `JoinedIsFinal` | a control plane and a worker, firewall rules, 3 servers, 2 IPs, 3 disturbances of any kind (490 thousand states) |
| `ha` | `OneReadyControlPlane`, `RecordedIPRoutesHome`, `ImplementsBootstrapLock` | two control planes of one cluster, 2 disturbances (1.4 million states) |
| `live` | `DeploymentServed`, `ClusterComesUp`, `WorkerComesUp` | `Operator`: a deployment of one control plane with room for two, a worker, 2 servers, 1 IP and one disturbance: a refused server, a call that fails or loses its reply, a refused create of a machine, a stopped server or a crash of the manager, under `OperatorFairSpec` (390 thousand states) |
| `teardown` | `TypeOK`, `PoliciesStayOnRecord`, `ServerGoesLast`, `TornDownOrStuck` | a machine with 2 IPs, each with or without a NAT entry, a policy and a record of it, 3 disturbances of any kind, under `FairSpec` (6.9 thousand states) |
| `deployment` | `TypeOK`, `NoLostWakeUp`, `ReplicasReached` | sizes 1 and 2, the deployment created twice, 3 machines, 2 disturbances of any kind, under `FairSpec` (590 thousand states) |
| `overshoot` | `OvershootBounded` | a deployment of 4, room for 23 machines, 3 disturbances other than deletions (40 thousand states) |
| `chain` | `TypeOK`, `OwnedWhenQuiet`, `ChainSettles` | a Cluster, its KTCluster and one template, each applied at most twice, one disturbance of any kind, under `FairSpec` (190 thousand states) |

The bounds are the smallest in which the interesting cases happen. Three
servers let two creates be lost and a third be used; two IPs let one be spent
by a lost reply and one be recorded. Three disturbances combine, say, a stale
read, a lost reply and a crash in one behaviour. `MaxDisturbances` is the only
bound on the length of a history in `KTMachine`: servers and IPs are resources,
whose exhaustion the code handles. Servers and IPs are symmetric in the safety
runs. No run with liveness uses symmetry, which TLC does not support there; the
constraint `InOrder` of `live` says instead that the first of the two servers is
created first, which loses nothing: they differ in their names only, and what
is cut off is the same step with the other server. In `overshoot`, 23 is more than the
greatest bound `OvershootBounded` allows (4 + 3 + 2 + 1 and three more batches of
four), so the limit itself never hides an overshoot. In `live` two servers and one IP are
too few for the control plane that is one too many and the worker together, and
leave it without an IP: what the overshoot takes away from the cluster is part of
the run. A stopped server that is not restarted yet is what lets
`JoinControlPlane` panic there, and the worker has to come up all the same. Reconciles
from an old copy (`stale`) are left to the other runs, as `live` outgrows five minutes
with them. `DeploymentServed` is
`NoLostWakeUp` for the informer that both controllers share, with every status
write of the KTMachine controller among the events. In `teardown` two
IPs let one be recorded and the other be spent, with a policy of its own. In
`chain` the middle object
is child and parent, the KTCluster has one template present and one missing, and
an object is deleted (by the user or the collector) and applied again.

`CHECK_DEADLOCK FALSE` is set where a behaviour may stop: when all machines are
deleted, when a teardown is done, or when a deployment or a chain has what it needs and nothing else
happens.

Disturbances of `KTMachine`: `refused` (a server create answered outside 2xx),
`callFails`, `lostReply`, `stale` (a reconcile starts from an old copy),
`crash`, `edit`, `delete`, `stop` (of a server), `expire` (of a token). Of
`VMTeardown`: `callFails`, `lostReply`, `crash`, `deletedByHand` (of the server).
Of `MachineDeployment`:
`createFails`, `crash`, `scale`, `touch`, `deleteMachine`, `deleteDeployment`. Of
`OwnerRefs`: `updateFails`, `edit`, `delete`, `crash`; conflicts are not counted.
`OvershootBounded` excludes deletions: a machine deleted and created again lets
the cache pass through the same count twice, so there is no bound of this form.

### Where the code and its documents differ

Each of these runs checks one statement of the repository, which TLC refutes:

| Run | Statement | What the code does |
|---|---|---|
| `othercluster` | "we have to get one control-plane machine associated with the cluster" (`ktmachine_controller.go:425`) | the list is that of the namespace; a worker of one cluster joins another |
| `refusedworker` | "to make sure it joined its respective cluster" (`ktmachine_types.go:109`) | a refused create (`worker_vm.go:206`) returns nil; the worker is marked as joined, without a server, for good |
| `halfattached` | "it will reconcile to check if the API server is ready" (`README.md:89`) | a call that fails after the IP was recorded leaves the control plane unmarked; it is not checked again and again until it is ready, but never |
| `lostrule` | "if it exists and the job id is different, update the object" (`network.go:567`) | the rule is appended to a spec of which only the status is written |
| `missingtemplate` | "One or more machine templates are missing. Requeuing..." (`ktcluster_controller.go:155`) | a missing template is an error, for which the reconcile ends at line 144 without a requeue; a template that comes later has no owner and wakes nobody |

`halfattached` is a temporal counterexample under `FairSpec`: one failed call,
after which everything is scheduled fairly.

## Fairness

`KTMachine`: a running reconcile takes its next step (each HTTP call has a
timeout of 30 s, the loop in `helpers.go` ends): weak fairness of `JobStep`. A
machine that can be reconciled again and again is: every reconcile of an
existing machine queues it again, and the queue is first-in first-out: strong
fairness of `Reconcile(m)`. The watch delivers. The cloud builds, runs and
restarts servers, and the user supplies the token and removes a leftover secret
as README.md asks: environment assumptions.

`MachineDeployment`: weak fairness of the reconciler's steps as one action, of
each watch, of the garbage collector and of the user applying the template. The
reconciler's fairness promises no successful create: that failures stop is the
bound on `createFails`.

`Operator`: the two together, each fairness condition on the composed action; and
the user applies the deployment and its template, and the KTMachineTemplate
controller writes its reference. No create or call is promised to succeed.

`VMTeardown`: weak fairness of the teardown's next step, the first one included
(the finalizer returns the error "so that it can be retried").

`OwnerRefs`: the watches deliver and the garbage collector works (weak fairness);
the queues are first-in first-out and a timer ends, so that a key that is queued
again and again is reconciled again and again (strong fairness of each parent's
steps). No update is promised to succeed.

## Proofs

All theorems hold for every value of the constants that satisfies the named
assumptions: any number of machines, clusters, servers, IPs and disturbances.

`KTMachine_proofs`, from `MachinesAssumption` (control planes are machines, every
machine has a cluster), `SentinelsAssumption` and `GoneAssumption` (the "none"
values are none of the real ones) and `DisturbancesAssumption`:

| Theorem | Property |
|---|---|
| `Invariance` | `IInv`, the inductive invariant |
| `TypeCorrect` | `TypeOK` |
| `AtMostOneReady` | `OneReadyControlPlane` |
| `BootstrappedHasPublicIP` | `BootstrapHasIP` |
| `PublicIPRoutesHome` | `RecordedIPRoutesHome` |
| `JoinsBootstrapped` | `JoinTargetBootstrapped` |
| `ServerIsKept` | `IdStable` |
| `JoinedIsKept` | `JoinedIsFinal` |

The argument. None of the properties is inductive by itself: the cache shows old
versions, and a reconcile goes on with a copy that may be old. `IInv` therefore
says of *every* version the cache may still show, and of the job's copy, that
what it records is so (`Sound`: the server is the machine's own, the IP routes
to it, ready implies that the secret is the machine's, and so on). `Sound` of an
old version stays true because the cloud and the secrets only grow: no action
gives a server, a NAT entry or a held secret to another machine (`Monotone`).
`StepSound` adds what the job knows at each step between a call and the use of
its answer, and `FreshSound` that a copy with the stored resourceVersion is the
stored status; the latter is what makes optimistic concurrency protect
`IdStable` and `JoinedIsFinal`.

`KTFirewall_proofs` (`WalledBeforeBootstrap`, for `FirewallBeforeBootstrap`) adds
`WallInv` to `IInv`: every version the cache may show, and the job's copy, that is
marked BootstrapReady is behind its wall (the policy of its IP and its job on
record); `JobWalled` is what the job knows between the calls that build it. It is
stable because policies are never removed and a firewall object only after its
machine (`Growing`): this is where it matters that a reconcile of a deleted
machine writes nothing.

`KTLock_proofs` (`LockImplemented`, for `ImplementsBootstrapLock`) is the
refinement. Its invariant adds to `IInv` that a secret is that of a machine of its
own cluster. `Init` maps to `Lock!Init`; the create of the secret to `Claim`; a
`MarkReady` whose update is accepted to `Announce`, or to a stutter when the
machine is announced already; every other step is `Lapsing` (it concerns one
machine at most, gives no secret away and announces nobody), hence `Spend` or a
stutter. What it rests on is that a status written by somebody else makes the
copy of the reconcile outdated, so that no claim survives it.

`Operator_proofs`, from the assumptions of `KTMachine` and `OperatorAssumption`
(finitely many control planes, each with a number of its own; machines are not
edited or deleted and tokens do not expire, since the composition has no such
steps), proves:

| Theorem | Property |
|---|---|
| `OneReadyInOperator` | `OneReadyControlPlane` |
| `HasPublicIPInOperator` | `BootstrapHasIP` |
| `RoutesHomeInOperator` | `RecordedIPRoutesHome` |
| `JoinsBootstrappedInOperator` | `JoinTargetBootstrapped` |
| `ServerIsKeptInOperator` | `IdStable` |
| `JoinedIsKeptInOperator` | `JoinedIsFinal` |
| `WalledInOperator` | `FirewallBeforeBootstrap` |
| `LockInOperator` | `ImplementsBootstrapLock` |
| `ServedInOperator` | `DeploymentServed` |

A step of `Operator` is, on the variables of `KTMachine`, a step of `KTMachine`,
the create of a machine, or one that `KTMachine` does not notice (`Elsewhere`: a
read, a count or a refused create, of which only the number of disturbances
shows). The first kind keeps `IInv`, `WallInv` and `LockInv`
by the lemmas above; the second keeps them because the new machine never existed:
its only version is `Gone` and no reconcile runs for it (`NothingRemoved`, which
holds because machines are not deleted in the composition). For `ServedInOperator`
the invariant counts: the versions of a machine that the cache does not show yet
are as many as its events on their way (`EventsMatch`), so a controller without
events sees what is stored; and it runs, or will be woken, or saw enough
(`Awake`). This is where the two controllers meet: a status write of the KTMachine
controller also wakes the MachineDeployment controller, at a moment when the cache
may still lack machines it has made, and the proof has to know how many.

`VMTeardown_proofs`, from `ConstantsAssumption`: `Invariance`, `TypeCorrect`
(`TypeOK`), `PoliciesRecorded` (`PoliciesStayOnRecord`), `ServerLast`
(`ServerGoesLast`). The invariant says for each step of the teardown which of the
record, the policies and the NAT entry the steps before it have dealt with.

`MachineDeployment_proofs`, from `ConstantsAssumption`: `Invariance`,
`TypeCorrect` (`TypeOK`) and `NeverAsleepAndShort` (`NoLostWakeUp`). The
invariant's core is `Awake`: when the job is idle, no key is queued and no event
is on its way, the cached machines are as many as the cached deployment asks
for. Each action that could break it queues the key, appends an event, or runs.

`Overshoot_proofs` proves `OvershootIsBounded` (`OvershootBounded`) from the same
assumption, for `Sizes` with a maximum (`SizesBounded`) and `Disturbances` without
deletions (`NothingDeleted`), as in the run: with deletions the bound is false, as
said of the runs above. Its invariant keeps an account: `Cost` is twice
the machines there are, those the running reconcile will create, those the
queued key will make it create, and a whole batch for each event on its way that
does not show a machine the cache lacks, plus the g(g-1) of the batches which
the events that do show one will start, where g is what the cache lacks.
`Cost` never exceeds `Budget`, to which only a disturbance and the create
of the deployment add, by one batch each: a create moves a machine from
planned to made, and its event, when delivered, buys a batch of g-1 with the
2(g-1) by which g(g-1) falls. The account is closed when no name is left, since
`MaxMachines` then ends the creates.

`OwnerRefs_proofs`, from `BoundsAssumption` and `GoneAssumption`: `Invariance`,
`TypeCorrect` (`TypeOK`) and `NoParentForgotten` (`OwnedWhenQuiet`).
`OwnedWhenQuiet` speaks of quiet states, so the invariant has to say what is
under way in the others: `Awake` (a parent that is neither queued nor being
reconciled owns its child, or the event of a version that names an owner is on
its way and will queue it) and `JobSound` (the UID a reconcile is about to write
is that of the cached parent, unless the parent is queued again).

Every safety invariant, action property and refinement that a passing run checks
is a theorem. Only model-checked: the liveness properties (`ClusterComesUp`,
`WorkerComesUp`, `ReplicasReached`, `TornDownOrStuck`, `ChainSettles`), which are
beyond the prover's treatment of fairness and ENABLED; the runs that
refute a statement are counterexamples and need no proof.

## Not modelled

* The composition of `OwnerRefs` with `MachineDeployment`: for the latter, the
  owner reference the KTMachineTemplate controller writes is a `Touch`.
* The finalizers themselves and `triggerClusterReconciliation`: commented-out
  code. `VMTeardown` models the functions they call.
* `login.go`, `internal/cloudapi`: called by nothing, and what they write (the
  status of an object `default/ktcloudtoken`) is read by nothing; the user makes
  the KTSubjectToken by hand, and its spec is what the controller reads.
* Edits and deletions of machines and the expiry of tokens in `Operator`, and old
  copies in its liveness run: the runs of `KTMachine` have them, but with them the
  liveness run of the composition outgrows five minutes.
* The end of a firewall policy's job, which the code does not wait for either:
  behind firewall rules a probe may fail for ever. `FirewallBeforeBootstrap` is
  about policies that were accepted.
* The clean-up of what a deleted machine, or a lost reply, leaves at the cloud:
  nothing in the code as it runs does that.
* Contents of specs, user data, kubeconfig; logging; flags of `cmd/main.go`;
  generated code; the reconcilers without a body.
* Time: requeue delays, back-off, the 24 attempts of
  `FetchAndCreateKubeconfigSecret` (their outcome is modelled).

## Plan

Done: every controller with a body, the client of KT Cloud including its delete
path, the composition of the two controllers that make machines and servers, and
the proofs above. Left, in this order:

1. `OwnerRefs` composed with `Operator`: the deletion of a whole cluster along
   the owner references while its machines are being made.
2. An abstract specification of what the MachineDeployment controller promises
   and the proof that it, and the controller inside `Operator`, implement it. (The
   module `MachineDeployment` itself cannot be that specification: `Operator`
   has one count of disturbances for both controllers, and the status writes that
   are events there are `Touch`es, hence disturbances, of the module.)
