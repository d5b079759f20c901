------------------------------ MODULE OwnerRefs ------------------------------
(***************************************************************************)
(* The chain of owner references of a cluster, along which the garbage     *)
(* collector deletes it, and the three controllers that write it           *)
(* (cluster_controller.go, ktcluster_controller.go and                     *)
(* ktmachinetemplate_controller.go under internal/controller):             *)
(*                                                                         *)
(*   Cluster <- KTCluster <- KTMachineTemplate (two) <- MachineDeployment  *)
(*                                                                         *)
(* The user applies the objects one by one, in any order.  A controller    *)
(* finds a child by its name and writes its owner reference, on a copy of  *)
(* the child from the cache.                                               *)
(***************************************************************************)
EXTENDS Naturals, Sequences

CONSTANTS
  Applied,          \* the objects that the user applies
  MaxUID,           \* how often each object may be created
  Gone,             \* the "version" of an object that is not there
  Disturbances,     \* the kinds of disturbance that may happen
  MaxDisturbances   \* a bound on how many happen in one behaviour

VARIABLES
  versions,    \* the objects, from the cached to the stored version
  created,     \* how often each object was created: the UID of the last one
  queued,      \* the parents whose key is in a work queue or waits for a timer
  jobs,        \* the reconcile each controller runs, or Idle
  disturbed    \* how many disturbances have happened

vars == <<versions, created, queued, jobs, disturbed>>

-----------------------------------------------------------------------------
(* The objects *)

\* The children of an object by their kind and their name: a KTCluster has two
\* templates, each of which has the MachineDeployment of its own name.
Children == [cluster    |-> <<"ktcluster">>,
             ktcluster  |-> <<"cpTemplate", "mdTemplate">>,
             cpTemplate |-> <<"cpDeployment">>,
             mdTemplate |-> <<"mdDeployment">>]

Controller == [cluster    |-> "Cluster",
               ktcluster  |-> "KTCluster",
               cpTemplate |-> "KTMachineTemplate",
               mdTemplate |-> "KTMachineTemplate"]

Parents == DOMAIN Children

Controllers == {Controller[p] : p \in Parents}

ChildrenOf(p) == {Children[p][i] : i \in DOMAIN Children[p]}

Objects == Parents \cup UNION {ChildrenOf(p) : p \in Parents}

INSTANCE KubeStore WITH Machines <- Objects

ASSUME BoundsAssumption ==
  /\ Applied \subseteq Objects
  /\ MaxUID \in Nat
  /\ MaxDisturbances \in Nat
  /\ Disturbances \subseteq {"updateFails", "edit", "delete", "crash"}

\* owner: the UID in the owner reference, whose kind and name are always those
\* of the parent; 0: there is none.
Version == [uid : 1..MaxUID, owner : 0..MaxUID]

ASSUME GoneAssumption == Gone \notin Version

\* A running reconcile: its parent and the UID of the copy it has read, the
\* place of the child it deals with, and whether its copy of the child is the
\* stored version.
Job == [pc : {"find", "update"}, parent : Parents, uid : 1..MaxUID,
        place : 1..2, fresh : BOOLEAN]

Idle == [pc |-> "idle", parent |-> "none", uid |-> 0, place |-> 0, fresh |-> FALSE]

Init ==
  /\ versions = [o \in Objects |-> <<Gone>>]
  /\ created = [o \in Objects |-> 0]
  /\ queued = {}
  /\ jobs = [k \in Controllers |-> Idle]
  /\ disturbed = 0

-----------------------------------------------------------------------------
(* The controllers *)

Disturb(kind) ==
  /\ kind \in Disturbances
  /\ disturbed < MaxDisturbances
  /\ disturbed' = disturbed + 1

Calm == UNCHANGED disturbed

SetJob(p, j) == jobs' = [jobs EXCEPT ![Controller[p]] = j]

JobOf(p) == jobs[Controller[p]]

Runs(p, pc) == JobOf(p).parent = p /\ JobOf(p).pc = pc

ChildOf(p) == Children[p][JobOf(p).place]

\* The reconcile of p ends and p is queued again, after a minute or at once.
Requeue(p) == SetJob(p, Idle) /\ queued' = queued \cup {p}

\* The reconcile of p ends for good.
Return(p) == SetJob(p, Idle) /\ UNCHANGED queued

\* Variant of Proceed: the loop runs once too often.
ProceedTooFar(p) ==
  IF JobOf(p).place <= Len(Children[p])
  THEN SetJob(p, [JobOf(p) EXCEPT !.pc = "find", !.place = @ + 1]) /\ UNCHANGED queued
  ELSE Return(p)

\* The next child of p, or the end of a successful reconcile.
Proceed(p) ==
  IF JobOf(p).place < Len(Children[p])
  THEN SetJob(p, [JobOf(p) EXCEPT !.pc = "find", !.place = @ + 1]) /\ UNCHANGED queued
  ELSE Return(p)

\* A controller takes p from its queue and reads it from the cache.
Reconcile(p) ==
  /\ p \in queued
  /\ JobOf(p) = Idle
  /\ queued' = queued \ {p}
  /\ SetJob(p, IF Cached(p) = Gone THEN Idle
               ELSE [pc |-> "find", parent |-> p, uid |-> Cached(p).uid,
                     place |-> 1, fresh |-> FALSE])
  /\ UNCHANGED <<versions, created, disturbed>>

\* Variant of WhenMissing: a missing child is nothing to wait for.
WhenMissingForget(p) == Return(p)

\* The child is not in the cache.  The Cluster and the KTMachineTemplate
\* controller ask to be called again after a minute; the KTCluster controller
\* returns without an error, and so is not.
WhenMissing(p) == IF p = "ktcluster" THEN Return(p) ELSE Requeue(p)

\* Variant of WhenRefused: an error is only logged, everywhere.
WhenRefusedProceed(p) == Proceed(p)

\* The update of the child failed.  fetchMachineTemplate only logs that.
WhenRefused(p) == IF p = "ktcluster" THEN Proceed(p) ELSE Requeue(p)

\* The child is read from the cache, by its name.
FindChild(p) ==
  /\ Runs(p, "find")
  /\ IF Cached(ChildOf(p)) = Gone THEN WhenMissing(p)
     ELSE /\ SetJob(p, [JobOf(p) EXCEPT !.pc = "update",
                                        !.fresh = InSync(ChildOf(p))])
          /\ UNCHANGED queued
  /\ UNCHANGED <<versions, created, disturbed>>

\* SetControllerReference and Update: a reference to an earlier object of the
\* same name is replaced.  An update that changes nothing makes no new version.
AddOwnerRef(p) ==
  LET c == ChildOf(p)
      new == [Stored(c) EXCEPT !.owner = JobOf(p).uid]
  IN /\ Runs(p, "update")
     /\ JobOf(p).fresh
     /\ IF Stored(c) = new THEN UNCHANGED versions ELSE Put(c, new)
     /\ Proceed(p)
     /\ UNCHANGED <<created, disturbed>>

\* The update is refused with a conflict, or fails for another reason.
UpdateFails(p) ==
  /\ Runs(p, "update")
  /\ IF JobOf(p).fresh THEN Disturb("updateFails") ELSE Calm
  /\ WhenRefused(p)
  /\ UNCHANGED <<versions, created>>

JobStep(p) == Reconcile(p) \/ FindChild(p) \/ AddOwnerRef(p) \/ UpdateFails(p)

-----------------------------------------------------------------------------
(* The user, the API machinery and the manager *)

\* Somebody else writes o: the copies of running reconciles are outdated.
OutsideWrite(o, version) ==
  /\ Put(o, version)
  /\ jobs' = [k \in Controllers |->
                [jobs[k] EXCEPT !.fresh =
                   @ /\ Children[jobs[k].parent][jobs[k].place] # o]]
  /\ UNCHANGED queued

\* The user applies o.
Create(o) ==
  /\ o \in Applied
  /\ ~Exists(o)
  /\ created[o] < MaxUID
  /\ created' = [created EXCEPT ![o] = @ + 1]
  /\ OutsideWrite(o, [uid |-> created[o] + 1, owner |-> 0])
  /\ Calm

Edit(o) ==
  /\ Exists(o)
  /\ Disturb("edit")
  /\ OutsideWrite(o, Stored(o))
  /\ UNCHANGED created

Delete(o) ==
  /\ Exists(o)
  /\ Disturb("delete")
  /\ OutsideWrite(o, Gone)
  /\ UNCHANGED created

\* c names the present p as its owner.
Owned(p, c) == Exists(p) /\ Exists(c) /\ Stored(c).owner = Stored(p).uid

\* The garbage collector deletes an object whose owner is not there.
Collect(p, c) ==
  /\ Exists(c)
  /\ Stored(c).owner # 0
  /\ ~Owned(p, c)
  /\ OutsideWrite(c, Gone)
  /\ UNCHANGED <<created, disturbed>>

\* An event of o reaches the cache.  It queues o itself, if o is a parent, and
\* the parent that the old or the new version of o names as its owner.
WatchEvent(o) ==
  LET named(version) == version # Gone /\ version.owner # 0
      owners == {p \in Parents : o \in ChildrenOf(p)}
  IN /\ Deliver(o)
     /\ queued' = queued \cup ({o} \cap Parents)
                    \cup IF named(Cached(o)) \/ named(versions[o][2])
                         THEN owners ELSE {}
     /\ UNCHANGED <<created, jobs, disturbed>>

\* The manager is restarted; it lists all objects and queues them.
Crash ==
  /\ Disturb("crash")
  /\ Resync
  /\ queued' = {p \in Parents : Exists(p)}
  /\ jobs' = [k \in Controllers |-> Idle]
  /\ UNCHANGED created

Next ==
  \/ \E p \in Parents : JobStep(p)
  \/ \E o \in Objects : Create(o) \/ Edit(o) \/ Delete(o) \/ WatchEvent(o)
  \/ \E p \in Parents : \E c \in ChildrenOf(p) : Collect(p, c)
  \/ Crash

Spec == Init /\ [][Next]_vars

\* The controllers run (their queues are first-in first-out), the watches
\* deliver and the garbage collector works.
Fairness ==
  /\ \A p \in Parents : SF_vars(JobStep(p))
  /\ \A o \in Objects : WF_vars(WatchEvent(o))
  /\ \A p \in Parents : \A c \in ChildrenOf(p) : WF_vars(Collect(p, c))

FairSpec == Spec /\ Fairness

-----------------------------------------------------------------------------
(* Properties *)

\* The values of the variables: a controller runs reconciles of its own kind
\* only, and never gets past the last child.
TypeOK ==
  /\ versions \in [Objects -> Seq(Version \cup {Gone})]
  /\ \A o \in Objects : versions[o] # <<>>
  /\ created \in [Objects -> 0..MaxUID]
  /\ queued \subseteq Parents
  /\ jobs \in [Controllers -> Job \cup {Idle}]
  /\ \A k \in Controllers : jobs[k] # Idle =>
       Controller[jobs[k].parent] = k /\ jobs[k].place \in DOMAIN Children[jobs[k].parent]
  /\ disturbed \in 0..MaxDisturbances

\* Nothing is under way for p: no key, no timer, no reconcile, no event.
Quiet(p) ==
  /\ p \notin queued
  /\ JobOf(p).parent # p
  /\ InSync(p)
  /\ \A c \in ChildrenOf(p) : InSync(c)

\* The Cluster and the KTMachineTemplate controllers lose no wake-up: as long
\* as a parent has no child of its own, something is under way for it, although
\* a reconcile that succeeded does not ask to be called again, and a child that
\* has no owner reference yet wakes nobody.
OwnedWhenQuiet ==
  \A p \in Parents \ {"ktcluster"} :
    Quiet(p) /\ Exists(p) => \A c \in ChildrenOf(p) : Owned(p, c)

\* In the end, for good, every owner reference names a parent that is there,
\* and every child whose parent is there has one (the templates of a KTCluster
\* excepted): nothing of what was owned outlives a deleted owner, and no
\* reference to an earlier parent of the name stays, however the deletions,
\* the new creations and the controllers' old copies overlap.
ChainSettles ==
  <>[](\A p \in Parents : \A c \in ChildrenOf(p) :
         Exists(c) =>
           IF Stored(c).owner = 0 THEN Exists(p) => p = "ktcluster"
           ELSE Owned(p, c))

-----------------------------------------------------------------------------
(* What a message of the repository says, and the code does not *)

\* "One or more machine templates are missing. Requeuing..."
\* (ktcluster_controller.go): as long as a KTCluster does not own both its
\* templates, something is under way for it.
MissingTemplateRequeued ==
  Quiet("ktcluster") /\ Exists("ktcluster")
    => \A c \in ChildrenOf("ktcluster") : Owned("ktcluster", c)
=============================================================================
