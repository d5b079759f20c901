--------------------------- MODULE OwnerRefs_proofs ---------------------------
(***************************************************************************)
(* TypeOK and OwnedWhenQuiet, for every instance of OwnerRefs.             *)
(*                                                                         *)
(* OwnedWhenQuiet speaks of quiet states only.  What the steps preserve is *)
(* Awake: a parent that is neither queued nor being reconciled owns its    *)
(* child, or an event that wakes it is on its way; and JobSound: the UID a *)
(* reconcile writes is that of the cached parent, unless the parent is     *)
(* queued again.  Settled asks only of parents whose cached copy is the    *)
(* stored one: the event of any other queues it.                           *)
(***************************************************************************)
EXTENDS OwnerRefs, SequenceTheorems, TLAPS

-----------------------------------------------------------------------------
(* The objects *)

\* The four parents, and their children.
LEMMA ParentsAre == Parents = {"cluster", "ktcluster", "cpTemplate", "mdTemplate"}
BY DEF Parents, Children

LEMMA ChildrenAre ==
  /\ Children["cluster"] = <<"ktcluster">>
  /\ Children["ktcluster"] = <<"cpTemplate", "mdTemplate">>
  /\ Children["cpTemplate"] = <<"cpDeployment">>
  /\ Children["mdTemplate"] = <<"mdDeployment">>
BY DEF Children

LEMMA PlacesAre ==
  ASSUME NEW p \in Parents
  PROVE  /\ p = "ktcluster" => Len(Children[p]) = 2 /\ DOMAIN Children[p] = {1, 2}
         /\ p # "ktcluster" => Len(Children[p]) = 1 /\ DOMAIN Children[p] = {1}
BY ParentsAre, ChildrenAre

LEMMA ControllersAre ==
  /\ Controller["cluster"] = "Cluster"
  /\ Controller["ktcluster"] = "KTCluster"
  /\ Controller["cpTemplate"] = "KTMachineTemplate"
  /\ Controller["mdTemplate"] = "KTMachineTemplate"
BY DEF Controller

LEMMA ChildIsObject ==
  ASSUME NEW p \in Parents, NEW i \in DOMAIN Children[p]
  PROVE  /\ Children[p][i] \in Objects /\ Children[p][i] \in ChildrenOf(p)
         /\ i \in 1..2 /\ p \in Objects
BY PlacesAre DEF Objects, ChildrenOf

\* Nobody has two parents, or two places.
LEMMA OneParent ==
  ASSUME NEW p \in Parents, NEW i \in DOMAIN Children[p],
         NEW q \in Parents, NEW j \in DOMAIN Children[q],
         Children[p][i] = Children[q][j]
  PROVE  p = q /\ i = j
BY ParentsAre, ChildrenAre, PlacesAre

-----------------------------------------------------------------------------
(* The inductive invariant *)

Shown(o) == {versions[o][i] : i \in DOMAIN versions[o]}

\* A version whose event wakes the parent.
Named(v) == v # Gone /\ v.owner # 0

\* An event that wakes the parent of c is on its way.
Waking(c) == ~InSync(c) /\ \E v \in Shown(c) : Named(v)

\* The copy of its parent that a reconcile j has is the cached one, unless the
\* parent is queued again; a copy of a child that is the stored version exists.
JobSound(j) ==
  j # Idle =>
    /\ \/ j.parent \in queued
       \/ Cached(j.parent) # Gone /\ Cached(j.parent).uid = j.uid
    /\ j.fresh /\ j.pc = "update" => Stored(Children[j.parent][j.place]) # Gone

JobsSound == \A k \in Controllers : JobSound(jobs[k])

Away(p) == p \notin queued /\ JobOf(p).parent # p

Settled(p, c) == Exists(p) /\ InSync(p) => Owned(p, c) \/ Waking(c)

Awake ==
  \A p \in Parents \ {"ktcluster"} : \A c \in ChildrenOf(p) :
    Away(p) => Settled(p, c)

IInv == TypeOK /\ JobsSound /\ Awake

-----------------------------------------------------------------------------
(* The versions of an object *)

LEMMA SeqLength ==
  ASSUME NEW S, NEW s \in Seq(S)
  PROVE  /\ Len(s) \in Nat
         /\ s # <<>> <=> Len(s) # 0
  BY EmptySeq, LenProperties

LEMMA SingletonSeq ==
  ASSUME NEW S, NEW x \in S
  PROVE  <<x>> \in Seq(S)
  OBVIOUS

LEMMA StoredIsShown ==
  ASSUME TypeOK, NEW o \in Objects
  PROVE  /\ Stored(o) \in Shown(o)
         /\ Stored(o) \in Version \cup {Gone}
         /\ Cached(o) \in Version \cup {Gone}
         /\ InSync(o) => Cached(o) = Stored(o)
<1>1. versions[o] \in Seq(Version \cup {Gone}) /\ versions[o] # <<>>
  BY DEF TypeOK
<1>2. Len(versions[o]) \in Nat \ {0}
  BY <1>1
<1>3. /\ 1 \in DOMAIN versions[o]
      /\ Len(versions[o]) \in DOMAIN versions[o]
      /\ Head(versions[o]) = versions[o][1]
  BY <1>1, <1>2
<1>. QED
  BY <1>1, <1>2, <1>3 DEF Stored, Cached, Shown, InSync

\* A write adds its object as the newest version, and nothing else.
LEMMA PutLemma ==
  ASSUME TypeOK, NEW o \in Objects, NEW v \in Version \cup {Gone}, Put(o, v)
  PROVE  /\ versions' \in [Objects -> Seq(Version \cup {Gone})]
         /\ \A n \in Objects : versions'[n] # <<>> /\ Cached(n)' = Cached(n)
         /\ Stored(o)' = v
         /\ ~InSync(o)'
         /\ Shown(o)' = Shown(o) \cup {v}
         /\ \A n \in Objects \ {o} : versions'[n] = versions[n]
<1>1. /\ versions \in [Objects -> Seq(Version \cup {Gone})]
      /\ \A n \in Objects : versions[n] # <<>>
  BY DEF TypeOK
<1>2. versions' = [versions EXCEPT ![o] = Append(@, v)]
  BY DEF Put
<1>3. /\ versions'[o] = Append(versions[o], v)
      /\ \A n \in Objects \ {o} : versions'[n] = versions[n]
  BY <1>1, <1>2
<1>4. PICK s \in Seq(Version \cup {Gone}) : s = versions[o] /\ s # <<>>
  BY <1>1
<1>5. /\ Append(s, v) \in Seq(Version \cup {Gone})
      /\ Len(Append(s, v)) = Len(s) + 1
      /\ Append(s, v)[Len(s) + 1] = v
      /\ \A i \in 1..Len(s) : Append(s, v)[i] = s[i]
  BY <1>4
<1>6. Len(s) \in Nat \ {0} /\ DOMAIN s = 1..Len(s)
      /\ DOMAIN Append(s, v) = 1..(Len(s) + 1)
  BY <1>4, <1>5, SeqLength, LenProperties
<1>7. Shown(o)' = Shown(o) \cup {v}
  BY <1>3, <1>4, <1>5, <1>6 DEF Shown
<1>8. Head(Append(s, v)) = Head(s) /\ Append(s, v) # <<>>
  BY <1>4, <1>5, <1>6
<1>9. ~InSync(o)' /\ Stored(o)' = v
  BY <1>3, <1>4, <1>5, <1>6 DEF InSync, Stored
<1>10. \A n \in Objects : versions'[n] # <<>> /\ Cached(n)' = Cached(n)
  BY <1>1, <1>3, <1>4, <1>8 DEF Cached
<1>11. versions' \in [Objects -> Seq(Version \cup {Gone})]
  BY <1>1, <1>2, <1>4, <1>5
<1>. QED
  BY <1>3, <1>7, <1>9, <1>10, <1>11

\* A watch event takes the oldest version away.  When it leaves but one, the
\* cache showed the other before it.
LEMMA DeliverLemma ==
  ASSUME TypeOK, NEW o \in Objects, Deliver(o)
  PROVE  /\ versions' \in [Objects -> Seq(Version \cup {Gone})]
         /\ \A n \in Objects : versions'[n] # <<>> /\ Stored(n)' = Stored(n)
         /\ \A n \in Objects \ {o} : versions'[n] = versions[n]
         /\ Waking(o) => \/ Waking(o)'
                         \/ Named(Cached(o)) \/ Named(versions[o][2])
<1>1. /\ versions \in [Objects -> Seq(Version \cup {Gone})]
      /\ \A n \in Objects : versions[n] # <<>>
  BY DEF TypeOK
<1>2. versions' = [versions EXCEPT ![o] = Tail(@)] /\ Len(versions[o]) # 1
  BY DEF Deliver, InSync
<1>3. /\ versions'[o] = Tail(versions[o])
      /\ \A n \in Objects \ {o} : versions'[n] = versions[n]
  BY <1>1, <1>2
<1>4. PICK s \in Seq(Version \cup {Gone}) :
        s = versions[o] /\ s # <<>> /\ Len(s) # 1
  BY <1>1, <1>2
<1>5. s # <<>> /\ Len(s) \in Nat \ {0, 1}
  BY <1>4, SeqLength
<1>6. /\ Tail(s) \in Seq(Version \cup {Gone})
      /\ Len(Tail(s)) = Len(s) - 1
      /\ \A i \in 1..Len(Tail(s)) : Tail(s)[i] = s[i + 1]
      /\ Head(s) = s[1]
  BY <1>5, HeadTailProperties
<1>7. Tail(s) # <<>>
  <2>1. Len(Tail(s)) # 0
    BY <1>5, <1>6
  <2>. QED
    BY <1>6, <2>1, SeqLength
<1>8. Stored(o)' = Stored(o)
  <2>1. Tail(s)[Len(Tail(s))] = s[Len(s)]
    BY <1>5, <1>6
  <2>. QED
    BY <1>3, <1>4, <2>1 DEF Stored
<1>9. DOMAIN s = 1..Len(s) /\ DOMAIN Tail(s) = 1..Len(Tail(s))
  BY <1>6, LenProperties
<1>10. ASSUME Waking(o), ~Named(Cached(o)), ~Named(versions[o][2])
       PROVE  Waking(o)'
  <2>1. PICK i \in 1..Len(s) : Named(s[i])
    BY <1>4, <1>9, <1>10 DEF Waking, Shown
  <2>2. i # 1 /\ i # 2
    BY <1>4, <1>6, <1>10, <2>1 DEF Cached
  <2>3. i - 1 \in 1..Len(Tail(s)) /\ Tail(s)[i - 1] = s[i] /\ Len(Tail(s)) # 1
    BY <1>5, <1>6, <2>2
  <2>4. Named(Tail(s)[i - 1])
    BY <2>1, <2>3
  <2>5. Tail(s)[i - 1] \in Shown(o)' /\ ~InSync(o)'
    BY <1>3, <1>4, <1>9, <2>3 DEF Shown, InSync
  <2>. QED
    BY <2>4, <2>5 DEF Waking, Named
<1>11. \A n \in Objects : versions'[n] # <<>> /\ Stored(n)' = Stored(n)
  BY <1>1, <1>3, <1>4, <1>7, <1>8 DEF Stored
<1>12. versions' \in [Objects -> Seq(Version \cup {Gone})]
  BY <1>1, <1>2, <1>4, <1>6
<1>. QED
  BY <1>3, <1>10, <1>11, <1>12

LEMMA ResyncLemma ==
  ASSUME TypeOK, Resync
  PROVE  /\ versions' \in [Objects -> Seq(Version \cup {Gone})]
         /\ \A n \in Objects : versions'[n] # <<>> /\ Stored(n)' = Stored(n)
<1>1. \A n \in Objects : Stored(n) \in Version \cup {Gone}
  BY StoredIsShown
<1>2. \A n \in Objects : versions'[n] = <<Stored(n)>>
  BY DEF Resync
<1>3. \A n \in Objects : Len(versions'[n]) = 1 /\ versions'[n][1] = Stored(n)
  BY <1>2
<1>4. \A n \in Objects : Stored(n)' = Stored(n)
  BY <1>3 DEF Stored
<1>5. \A n \in Objects : <<Stored(n)>> \in Seq(Version \cup {Gone})
  BY <1>1, SingletonSeq
<1>6. versions' \in [Objects -> Seq(Version \cup {Gone})]
  BY <1>5 DEF Resync
<1>7. \A n \in Objects : versions'[n] # <<>>
  BY <1>3, EmptySeq
<1>. QED
  BY <1>4, <1>6, <1>7

-----------------------------------------------------------------------------
(* How the invariant is re-established *)

LEMMA ControllerType == \A p \in Parents : Controller[p] \in Controllers
BY DEF Controllers

LEMMA IdleNotJob == Idle \notin Job
BY DEF Idle, Job

\* Idle is the only record of its shape, so that it cannot become outdated.
LEMMA OutdatedIdle == [Idle EXCEPT !.fresh = FALSE] = Idle
<1> DEFINE Shape == [pc : {"idle"}, parent : {"none"}, uid : {0}, place : {0},
                     fresh : {FALSE}]
<1>1. \A r \in Shape : r = [pc |-> r.pc, parent |-> r.parent, uid |-> r.uid,
                             place |-> r.place, fresh |-> r.fresh]
  OBVIOUS
<1>2. ASSUME NEW r \in Shape, NEW s \in Shape PROVE r = s
  <2>1. r.pc = s.pc /\ r.parent = s.parent /\ r.uid = s.uid /\ r.place = s.place
    OBVIOUS
  <2>2. r.fresh = s.fresh
    OBVIOUS
  <2>. QED
    BY <1>1, <2>1, <2>2, Zenon
<1>3. Idle \in Shape
  BY DEF Idle
<1>4. [Idle EXCEPT !.fresh = FALSE] \in Shape
  BY <1>3
<1>. QED
  BY <1>2, <1>3, <1>4

\* The reconcile r at its second child.
LEMMA NextPlace ==
  ASSUME NEW r \in Job, NEW j, j = [r EXCEPT !.pc = "find", !.place = 2]
  PROVE  /\ j \in Job
         /\ j.parent = r.parent /\ j.place = 2 /\ j.pc = "find" /\ j.uid = r.uid
<1>1. \A i \in 1..2 : [r EXCEPT !.pc = "find", !.place = i] \in Job
  BY DEF Job
<1>2. [r EXCEPT !.pc = "find", !.place = 2] \in Job
  BY <1>1
<1>3. j.parent = r.parent /\ j.place = 2 /\ j.pc = "find" /\ j.uid = r.uid
  BY DEF Job
<1>. QED
  BY <1>2, <1>3

\* The reconcile j that is running for p.
LEMMA RunningJob ==
  ASSUME IInv, NEW p \in Parents, NEW pc, Runs(p, pc)
  PROVE  /\ JobOf(p) \in Job /\ JobOf(p) # Idle
         /\ JobOf(p).parent = p /\ JobOf(p).pc = pc
         /\ JobOf(p).place \in DOMAIN Children[p]
         /\ ChildOf(p) \in ChildrenOf(p) /\ ChildOf(p) \in Objects
         /\ JobSound(JobOf(p))
<1>1. Controller[p] \in Controllers
  BY ControllerType
<1>2. JobOf(p).parent = p /\ JobOf(p).pc = pc
  BY DEF Runs
<1>3. p # "none"
  BY ParentsAre
<1>4. JobOf(p) # Idle
  BY <1>2, <1>3 DEF Idle
<1>5. JobOf(p) \in Job /\ JobOf(p).place \in DOMAIN Children[p]
  BY <1>1, <1>2, <1>4 DEF IInv, TypeOK, JobOf
<1>6. JobSound(JobOf(p))
  BY <1>1 DEF IInv, JobsSound, JobOf
<1>. QED
  BY <1>2, <1>4, <1>5, <1>6, ChildIsObject DEF ChildOf

\* SetJob changes what the controller of p runs, and nothing else.
LEMMA SetJobLemma ==
  ASSUME TypeOK, NEW p \in Parents, NEW j, SetJob(p, j)
  PROVE  /\ JobOf(p)' = j
         /\ jobs'[Controller[p]] = j
         /\ \A k \in Controllers \ {Controller[p]} : jobs'[k] = jobs[k]
         /\ j \in Job \cup {Idle} => jobs' \in [Controllers -> Job \cup {Idle}]
         /\ \A q \in Parents : JobOf(q)' = j \/ JobOf(q)' = JobOf(q)
<1>1. Controller[p] \in Controllers /\ jobs \in [Controllers -> Job \cup {Idle}]
  BY ControllerType DEF TypeOK
<1>2. jobs' = [jobs EXCEPT ![Controller[p]] = j]
  BY DEF SetJob
<1>3. \A k \in Controllers : jobs'[k] = IF k = Controller[p] THEN j ELSE jobs[k]
  BY <1>1, <1>2
<1>. QED
  BY <1>1, <1>2, <1>3, ControllerType DEF JobOf

\* A step of the controller of p sends no other parent away.
LEMMA OthersAway ==
  ASSUME IInv, NEW p \in Parents, JobOf(p) = Idle \/ JobOf(p).parent = p,
         NEW j, SetJob(p, j), queued \ {p} \subseteq queued',
         NEW q \in Parents, q # p, Away(q)'
  PROVE  Away(q)
<1>1. q \notin queued
  BY DEF Away
<1>2. JobOf(q).parent # q
  <2>1. CASE Controller[q] = Controller[p]
    BY <2>1, ParentsAre DEF JobOf, Idle
  <2>2. CASE Controller[q] # Controller[p]
    BY <2>2, SetJobLemma, ControllerType DEF Away, JobOf, IInv
  <2>. QED
    BY <2>1, <2>2
<1>. QED
  BY <1>1, <1>2 DEF Away

\* A step of the controller of p that keeps the versions: it ends the reconcile
\* of p, or goes on with j.
LEMMA StepKept ==
  ASSUME IInv, NEW p \in Parents, JobOf(p) = Idle \/ JobOf(p).parent = p,
         NEW j \in Job \cup {Idle}, SetJob(p, j), UNCHANGED versions,
         UNCHANGED created,
         queued' \subseteq Parents, queued \ {p} \subseteq queued',
         disturbed' \in 0..MaxDisturbances,
         j # Idle => /\ j.parent = p /\ j.place \in DOMAIN Children[p]
                     /\ JobSound(j)',
         j = Idle /\ p \notin queued' /\ p # "ktcluster"
           => \A c \in ChildrenOf(p) : Settled(p, c)
  PROVE  IInv'
<1>1. TypeOK'
  <2>1. jobs' \in [Controllers -> Job \cup {Idle}]
    BY SetJobLemma DEF IInv
  <2>2. ASSUME NEW k \in Controllers, jobs'[k] # Idle
        PROVE  /\ Controller[jobs'[k].parent] = k
               /\ jobs'[k].place \in DOMAIN Children[jobs'[k].parent]
    <3>1. CASE k = Controller[p]
      BY <2>2, <3>1, SetJobLemma DEF IInv
    <3>2. CASE k # Controller[p]
      BY <2>2, <3>2, SetJobLemma DEF IInv, TypeOK
    <3>. QED
      BY <3>1, <3>2
  <2>. QED
    BY <2>1, <2>2 DEF IInv, TypeOK
<1>2. JobsSound'
  <2>1. SUFFICES ASSUME NEW k \in Controllers, jobs'[k] # Idle
                 PROVE  JobSound(jobs[k])'
    BY DEF JobsSound, JobSound
  <2>2. CASE k = Controller[p]
    BY <2>1, <2>2, SetJobLemma DEF IInv, JobSound
  <2>3. CASE k # Controller[p]
    <3>1. jobs'[k] = jobs[k] /\ jobs[k] # Idle
      BY <2>1, <2>3, SetJobLemma DEF IInv
    <3>2. Controller[jobs[k].parent] = k
      BY <3>1 DEF IInv, TypeOK
    <3>3. jobs[k].parent # p
      BY <2>3, <3>2
    <3>. QED
      BY <3>1, <3>3 DEF IInv, JobsSound, JobSound, Cached, Stored
  <2>. QED
    BY <2>2, <2>3
<1>3. Awake'
  <2>1. SUFFICES ASSUME NEW q \in Parents \ {"ktcluster"}, NEW c \in ChildrenOf(q),
                        Away(q)'
                 PROVE  Settled(q, c)
    BY DEF Awake, Settled, Exists, Stored, InSync, Owned, Waking, Shown
  <2>2. CASE q # p
    <3>1. Away(q)
      BY <2>1, <2>2, OthersAway
    <3>. QED
      BY <2>1, <3>1 DEF IInv, Awake
  <2>3. CASE q = p
    <3>1. p \notin queued' /\ j.parent # p
      BY <2>1, <2>3, SetJobLemma DEF Away, IInv
    <3>2. j = Idle
      BY <3>1
    <3>. QED
      BY <2>1, <2>3, <3>1, <3>2
  <2>. QED
    BY <2>2, <2>3
<1>. QED
  BY <1>1, <1>2, <1>3 DEF IInv

\* A write keeps every pair of a parent and a child settled.
LEMMA PutSettled ==
  ASSUME TypeOK, NEW o \in Objects, NEW v \in Version \cup {Gone}, Put(o, v),
         NEW p \in Parents, NEW c \in ChildrenOf(p),
         Settled(p, c) \/ (o = c /\ Named(v))
  PROVE  Settled(p, c)'
<1>1. p \in Objects /\ c \in Objects
  BY DEF Objects
<1>2. SUFFICES ASSUME Exists(p)', InSync(p)'
               PROVE  Owned(p, c)' \/ Waking(c)'
  BY DEF Settled
<1>3. p # o
  BY <1>2, PutLemma
<1>4. versions'[p] = versions[p]
  BY <1>1, <1>3, PutLemma
<1>5. Exists(p) /\ InSync(p) /\ Stored(p)' = Stored(p)
  BY <1>2, <1>4 DEF Exists, InSync, Stored
<1>6. CASE o = c
  <2>1. ~InSync(c)' /\ Shown(c)' = Shown(c) \cup {v}
    BY <1>6, PutLemma
  <2>2. CASE Named(v)
    BY <2>1, <2>2 DEF Waking, Named
  <2>3. CASE Waking(c)
    BY <2>1, <2>3 DEF Waking, Named
  <2>4. CASE Owned(p, c)
    <3>1. Stored(p) \in Version /\ Stored(c) # Gone
      BY <1>1, <2>4, StoredIsShown DEF Owned, Exists
    <3>2. Stored(c).owner # 0
      BY <2>4, <3>1 DEF Owned, Version
    <3>3. Stored(c) \in Shown(c) /\ Named(Stored(c))
      BY <1>1, <3>1, <3>2, StoredIsShown DEF Named
    <3>. QED
      BY <2>1, <3>3 DEF Waking, Named
  <2>. QED
    BY <1>5, <1>6, <2>2, <2>3, <2>4 DEF Settled
<1>7. CASE o # c
  <2>1. versions'[c] = versions[c]
    BY <1>1, <1>7, PutLemma
  <2>2. Owned(p, c) \/ Waking(c)
    BY <1>5, <1>7 DEF Settled
  <2>3. Waking(c) => Waking(c)'
    BY <2>1 DEF Waking, InSync, Shown, Named
  <2>4. Owned(p, c) => Owned(p, c)'
    BY <1>4, <2>1 DEF Owned, Exists, Stored
  <2>. QED
    BY <2>2, <2>3, <2>4
<1>. QED
  BY <1>6, <1>7

\* A step that starts no reconcile: those that run keep parent, UID, place and
\* step, and their copies of children become outdated at most.
LEMMA OutsideKept ==
  ASSUME IInv, NEW o \in Objects, NEW v \in Version \cup {Gone},
         OutsideWrite(o, v), created' \in [Objects -> 0..MaxUID],
         disturbed' \in 0..MaxDisturbances
  PROVE  IInv'
<1>1. Put(o, v) /\ UNCHANGED queued
  BY DEF OutsideWrite
<1>2. \A k \in Controllers :
        jobs'[k] = [jobs[k] EXCEPT !.fresh =
                      @ /\ Children[jobs[k].parent][jobs[k].place] # o]
  BY DEF OutsideWrite
<1>3. ASSUME NEW k \in Controllers, jobs[k] = Idle
      PROVE  jobs'[k] = Idle
  <2>1. PICK b \in BOOLEAN :
          b = (jobs[k].fresh /\ Children[jobs[k].parent][jobs[k].place] # o)
    OBVIOUS
  <2>2. b = FALSE
    <3>1. jobs[k].fresh = FALSE
      BY <1>3 DEF Idle
    <3>. QED
      BY <2>1, <3>1
  <2>3. jobs'[k] = [jobs[k] EXCEPT !.fresh = FALSE]
    BY <1>2, <2>1, <2>2
  <2>. QED
    BY <1>3, <2>3, OutdatedIdle
<1>4. ASSUME NEW k \in Controllers, jobs[k] # Idle
      PROVE  /\ jobs[k] \in Job /\ jobs'[k] \in Job
             /\ jobs'[k].parent = jobs[k].parent /\ jobs'[k].pc = jobs[k].pc
             /\ jobs'[k].uid = jobs[k].uid /\ jobs'[k].place = jobs[k].place
             /\ jobs'[k].fresh => /\ jobs[k].fresh
                                  /\ Children[jobs[k].parent][jobs[k].place] # o
  <2>1. jobs[k] \in Job
    BY <1>4 DEF IInv, TypeOK
  <2>2. PICK b \in BOOLEAN :
          b = (jobs[k].fresh /\ Children[jobs[k].parent][jobs[k].place] # o)
    OBVIOUS
  <2>3. jobs'[k] = [jobs[k] EXCEPT !.fresh = b]
    BY <1>2, <2>2
  <2>. QED
    BY <2>1, <2>2, <2>3 DEF Job
<1>5. TypeOK'
  <2>1. \A k \in Controllers : jobs'[k] \in Job \cup {Idle}
    BY <1>3, <1>4
  <2>2. jobs' \in [Controllers -> Job \cup {Idle}]
    BY <2>1 DEF OutsideWrite
  <2>3. ASSUME NEW k \in Controllers, jobs'[k] # Idle
        PROVE  /\ Controller[jobs'[k].parent] = k
               /\ jobs'[k].place \in DOMAIN Children[jobs'[k].parent]
    BY <1>3, <1>4, <2>3 DEF IInv, TypeOK
  <2>. QED
    BY <1>1, <2>2, <2>3, PutLemma DEF IInv, TypeOK
<1>6. JobsSound'
  <2>1. SUFFICES ASSUME NEW k \in Controllers, jobs'[k] # Idle
                 PROVE  JobSound(jobs[k])'
    BY DEF JobsSound, JobSound
  <2>2. jobs[k] # Idle
    BY <1>3, <2>1
  <2>3. PICK j, j1 : j = jobs[k] /\ j1 = jobs'[k]
    OBVIOUS
  <2>4. PICK p, c : p = j.parent /\ c = Children[j.parent][j.place]
    OBVIOUS
  <2>5. p \in Objects /\ c \in Objects /\ JobSound(j)
    BY <1>4, <2>2, <2>3, <2>4, ChildIsObject DEF IInv, JobsSound, TypeOK, Job
  <2>6. Cached(p)' = Cached(p) /\ (c # o => Stored(c)' = Stored(c))
    BY <1>1, <2>5, PutLemma DEF IInv, Stored
  <2>7. /\ j1.parent = p /\ Children[j1.parent][j1.place] = c /\ j1.uid = j.uid
        /\ j1.pc = j.pc /\ (j1.fresh => j.fresh /\ c # o)
    BY <1>4, <2>2, <2>3, <2>4
  <2>8. JobSound(j1)'
    BY <1>1, <2>2, <2>3, <2>4, <2>5, <2>6, <2>7 DEF JobSound
  <2>. QED
    BY <2>3, <2>8
<1>7. Awake'
  <2>1. SUFFICES ASSUME NEW p \in Parents \ {"ktcluster"}, NEW c \in ChildrenOf(p),
                        Away(p)'
                 PROVE  Settled(p, c)'
    BY DEF Awake
  <2>2. Away(p)
    <3>1. Controller[p] \in Controllers
      BY ControllerType
    <3>. QED
      BY <1>1, <1>3, <1>4, <2>1, <3>1 DEF Away, JobOf
  <2>. QED
    BY <1>1, <2>2, PutSettled DEF IInv, Awake
<1>. QED
  BY <1>5, <1>6, <1>7 DEF IInv

-----------------------------------------------------------------------------
(* The steps *)

LEMMA InitSound == ASSUME Init PROVE IInv
<1>1. \A o \in Objects : versions[o] = <<Gone>>
  BY DEF Init
<1>2. versions \in [Objects -> Seq(Version \cup {Gone})]
  BY SingletonSeq DEF Init
<1>3. TypeOK
  BY <1>1, <1>2, BoundsAssumption DEF Init, TypeOK
<1>4. JobsSound
  BY DEF Init, JobsSound, JobSound
<1>5. \A p \in Parents : ~Exists(p)
  BY <1>1 DEF Exists, Stored, Objects
<1>. QED
  BY <1>3, <1>4, <1>5 DEF IInv, Awake, Settled

LEMMA ReconcileSound ==
  ASSUME IInv, NEW p \in Parents, Reconcile(p) PROVE IInv'
<1>1. /\ p \in queued /\ JobOf(p) = Idle /\ queued' = queued \ {p}
      /\ UNCHANGED <<versions, created, disturbed>>
  BY DEF Reconcile
<1>2. p \in Objects /\ 1 \in DOMAIN Children[p]
  BY PlacesAre DEF Objects
<1>3. disturbed' \in 0..MaxDisturbances /\ queued' \subseteq Parents
  BY <1>1 DEF IInv, TypeOK
<1>4. CASE Cached(p) = Gone
  <2>1. SetJob(p, Idle)
    BY <1>4 DEF Reconcile
  <2>2. \A c \in ChildrenOf(p) : Settled(p, c)
    BY <1>2, <1>4, StoredIsShown DEF IInv, Settled, Exists
  <2>. QED
    BY <1>1, <1>3, <2>1, <2>2, StepKept
<1>5. CASE Cached(p) # Gone
  <2> DEFINE j == [pc |-> "find", parent |-> p, uid |-> Cached(p).uid,
                   place |-> 1, fresh |-> FALSE]
  <2>1. SetJob(p, j)
    BY <1>5 DEF Reconcile
  <2>2. j \in Job
    BY <1>2, <1>5, StoredIsShown DEF IInv, Job, Version
  <2>3. /\ j.parent = p /\ j.place \in DOMAIN Children[p] /\ j # Idle
        /\ j.uid = Cached(p).uid /\ j.pc = "find"
    BY <1>2, <2>2, IdleNotJob
  <2>4. PICK r \in Job : r = j
    BY <2>2
  <2>5. JobSound(r)'
    BY <1>1, <1>5, <2>3, <2>4 DEF JobSound, Cached
  <2>. QED
    BY <1>1, <1>3, <2>1, <2>3, <2>4, <2>5, StepKept
<1>. QED
  BY <1>4, <1>5

\* A reconcile that is queued again.
LEMMA RequeueSound ==
  ASSUME IInv, NEW p \in Parents, NEW pc, Runs(p, pc), Requeue(p),
         UNCHANGED <<versions, created>>, disturbed' \in 0..MaxDisturbances
  PROVE  IInv'
<1>1. SetJob(p, Idle) /\ queued' = queued \cup {p}
  BY DEF Requeue
<1>2. queued' \subseteq Parents /\ queued \ {p} \subseteq queued' /\ p \in queued'
  BY <1>1 DEF IInv, TypeOK
<1>. QED
  BY <1>1, <1>2, RunningJob, StepKept

\* What a controller runs after Proceed: nothing, or the next child.
LEMMA ProceedLemma ==
  ASSUME IInv, NEW p \in Parents, NEW pc, Runs(p, pc), Proceed(p)
  PROVE  /\ UNCHANGED queued
         /\ \E j \in Job \cup {Idle} :
              /\ SetJob(p, j)
              /\ j # Idle => /\ j.parent = p /\ j.place \in DOMAIN Children[p]
                             /\ j.pc = "find" /\ j.uid = JobOf(p).uid
                             /\ p = "ktcluster"
<1>1. CASE JobOf(p).place < Len(Children[p])
  <2>1. p = "ktcluster" /\ JobOf(p).place = 1
    <3>1. PICK i : i = JobOf(p).place
      OBVIOUS
    <3>2. i \in DOMAIN Children[p] /\ i < Len(Children[p])
      BY <1>1, <3>1, RunningJob
    <3>3. CASE p = "ktcluster"
      <4>1. i \in {1, 2} /\ i < 2
        BY <3>2, <3>3, PlacesAre
      <4>2. i = 1
        BY <4>1
      <4>. QED
        BY <3>1, <3>3, <4>2
    <3>4. CASE p # "ktcluster"
      <4>1. i = 1 /\ i < 1
        BY <3>2, <3>4, PlacesAre
      <4>. QED
        BY <4>1
    <3>. QED
      BY <3>3, <3>4
  <2> DEFINE j == [JobOf(p) EXCEPT !.pc = "find", !.place = @ + 1]
  <2>2. j \in Job /\ j.parent = p /\ j.place = 2 /\ j.pc = "find"
        /\ j.uid = JobOf(p).uid
    <3>1. PICK r \in Job : r = JobOf(p)
      BY RunningJob
    <3>2. r.parent = p /\ r.place = 1
      BY <2>1, <3>1, RunningJob
    <3>3. j = [r EXCEPT !.pc = "find", !.place = 2]
      BY <3>1, <3>2
    <3>4. PICK n : n = j
      OBVIOUS
    <3>5. n \in Job /\ n.parent = r.parent /\ n.place = 2 /\ n.pc = "find"
          /\ n.uid = r.uid
      <4>1. n = [r EXCEPT !.pc = "find", !.place = 2] 
        BY <3>3, <3>4
      <4> HIDE DEF j
      <4>. QED
        BY <4>1, NextPlace
    <3> HIDE DEF j
    <3>. QED
      BY <3>1, <3>2, <3>4, <3>5
  <2>3. SetJob(p, j) /\ UNCHANGED queued
    BY <1>1 DEF Proceed
  <2>4. j.place \in DOMAIN Children[p]
    BY <2>1, <2>2, PlacesAre
  <2>. QED
    BY <2>1, <2>2, <2>3, <2>4
<1>2. CASE ~(JobOf(p).place < Len(Children[p]))
  BY <1>2 DEF Proceed, Return
<1>. QED
  BY <1>1, <1>2

\* A reconcile that goes on, or ends with the child its last.
LEMMA ProceedSound ==
  ASSUME IInv, NEW p \in Parents, NEW pc, Runs(p, pc), Proceed(p),
         UNCHANGED <<versions, created>>, disturbed' \in 0..MaxDisturbances,
         p \notin queued /\ p # "ktcluster"
           => \A c \in ChildrenOf(p) : Settled(p, c)
  PROVE  IInv'
<1>1. PICK j \in Job \cup {Idle} :
        /\ SetJob(p, j)
        /\ j # Idle => /\ j.parent = p /\ j.place \in DOMAIN Children[p]
                       /\ j.pc = "find" /\ j.uid = JobOf(p).uid
                       /\ p = "ktcluster"
  BY ProceedLemma
<1>2. UNCHANGED queued
  BY ProceedLemma
<1>3. ASSUME j # Idle PROVE JobSound(j)'
  <2>1. p \in queued \/ (Cached(p) # Gone /\ Cached(p).uid = j.uid)
    BY <1>1, <1>3, RunningJob DEF JobSound
  <2>2. j.parent = p /\ j.pc = "find"
    BY <1>1, <1>3
  <2>. QED
    BY <1>2, <2>1, <2>2 DEF JobSound, Cached
<1>4. queued' \subseteq Parents
  BY <1>2 DEF IInv, TypeOK
<1>. QED
  BY <1>1, <1>2, <1>3, <1>4, RunningJob, StepKept

LEMMA FindChildSound ==
  ASSUME IInv, NEW p \in Parents, FindChild(p) PROVE IInv'
<1>1. Runs(p, "find") /\ UNCHANGED <<versions, created, disturbed>>
  BY DEF FindChild
<1>2. disturbed' \in 0..MaxDisturbances /\ queued \subseteq Parents
  BY <1>1 DEF IInv, TypeOK
<1>3. JobOf(p).parent = p
  BY <1>1 DEF Runs
<1>4. CASE Cached(ChildOf(p)) = Gone /\ p = "ktcluster"
  <2>1. SetJob(p, Idle) /\ UNCHANGED queued
    BY <1>4 DEF FindChild, WhenMissing, Return
  <2>. QED
    BY <1>1, <1>2, <1>3, <1>4, <2>1, StepKept
<1>5. CASE Cached(ChildOf(p)) = Gone /\ p # "ktcluster"
  BY <1>1, <1>2, <1>5, RequeueSound DEF FindChild, WhenMissing
<1>6. CASE Cached(ChildOf(p)) # Gone
  <2>1. PICK b \in BOOLEAN : b = InSync(ChildOf(p))
    BY DEF InSync
  <2>2. PICK r \in Job : r = JobOf(p)
    BY <1>1, RunningJob
  <2>3. PICK j : j = [r EXCEPT !.pc = "update", !.fresh = b]
    OBVIOUS
  <2>4. SetJob(p, j) /\ UNCHANGED queued
    BY <1>6, <2>1, <2>2, <2>3 DEF FindChild
  <2>5. /\ j \in Job /\ j.parent = r.parent /\ j.place = r.place
        /\ j.pc = "update" /\ j.fresh = b /\ j.uid = r.uid
    BY <2>3 DEF Job
  <2>6. j # Idle /\ j.parent = p /\ j.place \in DOMAIN Children[p]
        /\ Children[p][j.place] = ChildOf(p)
    BY <1>1, <2>2, <2>5, RunningJob, IdleNotJob DEF ChildOf
  <2>7. p \in queued \/ (Cached(p) # Gone /\ Cached(p).uid = j.uid)
    BY <1>1, <2>2, <2>5, RunningJob DEF JobSound
  <2>8. b => Stored(ChildOf(p)) # Gone
    BY <1>1, <1>6, <2>1, RunningJob, StoredIsShown DEF IInv
  <2>9. JobSound(j)'
    BY <1>1, <2>4, <2>5, <2>6, <2>7, <2>8 DEF JobSound, Cached, Stored
  <2>. QED
    BY <1>1, <1>2, <1>3, <2>4, <2>5, <2>6, <2>9, StepKept
<1>. QED
  BY <1>4, <1>5, <1>6

LEMMA UpdateFailsSound ==
  ASSUME IInv, NEW p \in Parents, UpdateFails(p) PROVE IInv'
<1>1. Runs(p, "update") /\ WhenRefused(p) /\ UNCHANGED <<versions, created>>
  BY DEF UpdateFails
<1>2. disturbed' \in 0..MaxDisturbances
  BY BoundsAssumption DEF UpdateFails, Disturb, Calm, IInv, TypeOK
<1>3. CASE p = "ktcluster"
  BY <1>1, <1>2, <1>3, ProceedSound DEF WhenRefused
<1>4. CASE p # "ktcluster"
  BY <1>1, <1>2, <1>4, RequeueSound DEF WhenRefused
<1>. QED
  BY <1>3, <1>4

\* The reference is written for a copy of the parent that is the cached one,
\* unless the parent is queued again; and the version that holds it wakes the
\* parent when its event comes.
LEMMA AddOwnerRefSound ==
  ASSUME IInv, NEW p \in Parents, AddOwnerRef(p) PROVE IInv'
<1>1. /\ Runs(p, "update") /\ JobOf(p).fresh /\ Proceed(p)
      /\ UNCHANGED <<created, disturbed>>
  BY DEF AddOwnerRef
<1>2. PICK c, new :
        /\ c = ChildOf(p)
        /\ new = [Stored(c) EXCEPT !.owner = JobOf(p).uid]
        /\ IF Stored(c) = new THEN UNCHANGED versions ELSE Put(c, new)
  BY DEF AddOwnerRef
<1>3. c \in ChildrenOf(p) /\ c \in Objects /\ JobOf(p).parent = p
  BY <1>1, <1>2, RunningJob
<1>4. PICK u \in 1..MaxUID : u = JobOf(p).uid
  BY <1>1, RunningJob DEF Job
<1>5. Stored(c) \in Version
  <2>1. Stored(c) # Gone
    BY <1>1, <1>2, RunningJob DEF JobSound, ChildOf
  <2>. QED
    BY <1>3, <2>1, StoredIsShown DEF IInv
<1>6. new \in Version /\ new.owner = u /\ Named(new)
  BY <1>2, <1>4, <1>5, GoneAssumption DEF Version, Named
<1>7. disturbed' \in 0..MaxDisturbances
  BY <1>1 DEF IInv, TypeOK
<1>8. ASSUME p # "ktcluster", NEW d \in ChildrenOf(p)
      PROVE  d = c
  <2>1. PICK i \in DOMAIN Children[p] : d = Children[p][i]
    BY <1>8 DEF ChildrenOf
  <2>2. i = 1 /\ DOMAIN Children[p] = {1}
    BY <1>8, PlacesAre
  <2>3. JobOf(p).place = 1
    BY <1>1, <2>2, RunningJob
  <2>. QED
    BY <1>2, <2>1, <2>2, <2>3 DEF ChildOf
<1>9. CASE Stored(c) = new
  <2>1. ASSUME p \notin queued, p # "ktcluster", NEW d \in ChildrenOf(p),
               Exists(p), InSync(p)
        PROVE  Owned(p, d)
    <3>1. p \in Objects
      BY DEF Objects
    <3>2. Cached(p).uid = u
      BY <1>1, <1>4, <2>1, RunningJob DEF JobSound
    <3>3. Stored(p).uid = u
      BY <2>1, <3>1, <3>2, StoredIsShown DEF IInv
    <3>. QED
      BY <1>6, <1>8, <1>9, <2>1, <3>3 DEF Owned, Exists, Named
  <2>2. UNCHANGED versions
    BY <1>2, <1>9
  <2>3. p \notin queued /\ p # "ktcluster"
          => \A d \in ChildrenOf(p) : Settled(p, d)
    BY <2>1 DEF Settled
  <2>. QED
    BY <1>1, <1>7, <2>2, <2>3, ProceedSound
<1>10. CASE Stored(c) # new
  <2>1. Put(c, new)
    BY <1>2, <1>10
  <2>2. PICK j \in Job \cup {Idle} :
          /\ SetJob(p, j)
          /\ j # Idle => /\ j.parent = p /\ j.place \in DOMAIN Children[p]
                         /\ j.pc = "find" /\ j.uid = JobOf(p).uid
                         /\ p = "ktcluster"
    BY <1>1, ProceedLemma
  <2>3. UNCHANGED queued
    BY <1>1, ProceedLemma
  <2>4. TypeOK'
    <3>1. jobs' \in [Controllers -> Job \cup {Idle}]
      BY <2>2, SetJobLemma DEF IInv
    <3>2. ASSUME NEW k \in Controllers, jobs'[k] # Idle
          PROVE  /\ Controller[jobs'[k].parent] = k
                 /\ jobs'[k].place \in DOMAIN Children[jobs'[k].parent]
      <4>1. CASE k = Controller[p]
        BY <2>2, <3>2, <4>1, SetJobLemma DEF IInv
      <4>2. CASE k # Controller[p]
        BY <2>2, <3>2, <4>2, SetJobLemma DEF IInv, TypeOK
      <4>. QED
        BY <4>1, <4>2
    <3>3. /\ versions' \in [Objects -> Seq(Version \cup {Gone})]
          /\ \A o \in Objects : versions'[o] # <<>>
      BY <1>3, <1>6, <2>1, PutLemma DEF IInv
    <3>. QED
      BY <1>1, <2>3, <3>1, <3>2, <3>3 DEF IInv, TypeOK
  <2>5. \A n \in Objects : Cached(n)' = Cached(n)
    BY <1>3, <1>6, <2>1, PutLemma DEF IInv
  <2>6. JobsSound'
    <3>1. SUFFICES ASSUME NEW k \in Controllers, jobs'[k] # Idle
                   PROVE  JobSound(jobs[k])'
      BY DEF JobsSound, JobSound
    <3>2. CASE k = Controller[p]
      <4>1. jobs'[k] = j /\ j # Idle
        BY <2>2, <3>1, <3>2, SetJobLemma DEF IInv
      <4>2. j.parent = p /\ j.pc = "find" /\ p \in Objects
        BY <2>2, <4>1 DEF Objects
      <4>3. p \in queued \/ (Cached(p) # Gone /\ Cached(p).uid = j.uid)
        BY <1>1, <2>2, <4>1, RunningJob DEF JobSound
      <4>4. JobSound(j)'
        BY <2>3, <2>5, <4>2, <4>3 DEF JobSound
      <4>. QED
        BY <4>1, <4>4
    <3>3. CASE k # Controller[p]
      <4>1. PICK g : g = jobs[k] /\ g = jobs'[k] /\ g # Idle
        BY <2>2, <3>1, <3>3, SetJobLemma DEF IInv
      <4>2. PICK q \in Parents : q = g.parent
        BY <4>1 DEF IInv, TypeOK, Job
      <4>3. g.place \in DOMAIN Children[q] /\ Controller[q] = k
        BY <4>1, <4>2 DEF IInv, TypeOK
      <4>4. PICK d \in Objects : d = Children[g.parent][g.place]
        BY <4>2, <4>3, ChildIsObject
      <4>5. d # c
        BY <1>1, <1>2, <3>3, <4>2, <4>3, <4>4, OneParent, RunningJob DEF ChildOf
      <4>6. Stored(d)' = Stored(d)
        BY <1>3, <1>6, <2>1, <4>5, PutLemma DEF IInv, Stored
      <4>7. JobSound(g)
        BY <4>1 DEF IInv, JobsSound
      <4>8. q \in Objects
        BY DEF Objects
      <4>9. JobSound(g)'
        BY <2>3, <2>5, <4>2, <4>4, <4>6, <4>7, <4>8 DEF JobSound
      <4>. QED
        BY <4>1, <4>9
    <3>. QED
      BY <3>2, <3>3
  <2>7. Awake'
    <3>1. SUFFICES ASSUME NEW q \in Parents \ {"ktcluster"},
                          NEW d \in ChildrenOf(q), Away(q)'
                   PROVE  Settled(q, d)'
      BY DEF Awake
    <3>2. CASE q = p
      BY <1>3, <1>6, <1>8, <2>1, <3>2, PutSettled DEF IInv
    <3>3. CASE q # p
      <4>1. Away(q)
        BY <1>3, <2>2, <2>3, <3>1, <3>3, OthersAway
      <4>2. Settled(q, d)
        BY <4>1 DEF IInv, Awake
      <4>. QED
        BY <1>3, <1>6, <2>1, <4>2, PutSettled DEF IInv
    <3>. QED
      BY <3>2, <3>3
  <2>. QED
    BY <2>4, <2>6, <2>7 DEF IInv
<1>. QED
  BY <1>9, <1>10

LEMMA JobStepSound ==
  ASSUME IInv, NEW p \in Parents, JobStep(p) PROVE IInv'
BY ReconcileSound, FindChildSound, AddOwnerRefSound, UpdateFailsSound DEF JobStep

LEMMA CreateSound ==
  ASSUME IInv, NEW o \in Objects, Create(o) PROVE IInv'
<1>1. created[o] \in 0..MaxUID /\ created[o] < MaxUID
  BY DEF Create, IInv, TypeOK
<1>2. created[o] + 1 \in 1..MaxUID
  BY <1>1, BoundsAssumption
<1>3. PICK v : v = [uid |-> created[o] + 1, owner |-> 0]
  OBVIOUS
<1>4. v \in Version
  BY <1>2, <1>3, BoundsAssumption DEF Version
<1>5. created' \in [Objects -> 0..MaxUID]
  BY <1>2 DEF Create, IInv, TypeOK
<1>6. disturbed' \in 0..MaxDisturbances /\ OutsideWrite(o, v)
  BY <1>3 DEF Create, Calm, IInv, TypeOK
<1>. QED
  BY <1>4, <1>5, <1>6, OutsideKept

LEMMA DisturbType ==
  ASSUME TypeOK, NEW kind, Disturb(kind)
  PROVE  disturbed' \in 0..MaxDisturbances
BY BoundsAssumption DEF TypeOK, Disturb

LEMMA EditSound ==
  ASSUME IInv, NEW o \in Objects, Edit(o) PROVE IInv'
<1>1. Stored(o) \in Version \cup {Gone}
  BY StoredIsShown DEF IInv
<1>2. created' \in [Objects -> 0..MaxUID] /\ disturbed' \in 0..MaxDisturbances
  BY DisturbType DEF Edit, IInv, TypeOK
<1>. QED
  BY <1>1, <1>2, OutsideKept DEF Edit

LEMMA DeleteSound ==
  ASSUME IInv, NEW o \in Objects, Delete(o) PROVE IInv'
<1>1. created' \in [Objects -> 0..MaxUID] /\ disturbed' \in 0..MaxDisturbances
  BY DisturbType DEF Delete, IInv, TypeOK
<1>. QED
  BY <1>1, OutsideKept DEF Delete

LEMMA CollectSound ==
  ASSUME IInv, NEW p \in Parents, NEW c \in ChildrenOf(p), Collect(p, c)
  PROVE  IInv'
<1>1. c \in Objects
  BY DEF Objects
<1>2. created' \in [Objects -> 0..MaxUID] /\ disturbed' \in 0..MaxDisturbances
  BY DEF Collect, IInv, TypeOK
<1>. QED
  BY <1>1, <1>2, OutsideKept DEF Collect

\* The event of a version that names its owner queues the parent; the event of
\* a parent queues it, so that a copy that is no longer the cached one is read
\* again.
LEMMA WatchEventSound ==
  ASSUME IInv, NEW o \in Objects, WatchEvent(o) PROVE IInv'
<1>1. Deliver(o) /\ UNCHANGED <<created, jobs, disturbed>>
  BY DEF WatchEvent
<1>2. /\ queued \subseteq queued' /\ queued' \subseteq Parents
      /\ o \in Parents => o \in queued'
      /\ Named(Cached(o)) \/ Named(versions[o][2])
           => \A p \in Parents : o \in ChildrenOf(p) => p \in queued'
  BY DEF WatchEvent, Named, IInv, TypeOK
<1>3. /\ versions' \in [Objects -> Seq(Version \cup {Gone})]
      /\ \A n \in Objects : versions'[n] # <<>> /\ Stored(n)' = Stored(n)
      /\ \A n \in Objects \ {o} : versions'[n] = versions[n]
      /\ Waking(o) => \/ Waking(o)'
                      \/ Named(Cached(o)) \/ Named(versions[o][2])
  BY <1>1, DeliverLemma DEF IInv
<1>4. TypeOK'
  BY <1>1, <1>2, <1>3 DEF IInv, TypeOK
<1>5. JobsSound'
  <2>1. SUFFICES ASSUME NEW k \in Controllers, jobs[k] # Idle
                 PROVE  JobSound(jobs[k])'
    BY <1>1 DEF JobsSound, JobSound
  <2>2. PICK g \in Job : g = jobs[k] /\ g = jobs'[k] /\ g # Idle
    BY <1>1, <2>1 DEF IInv, TypeOK
  <2>3. PICK p \in Parents, d \in Objects :
          p = g.parent /\ d = Children[g.parent][g.place] /\ p \in Objects
    <3>1. PICK p \in Parents : p = g.parent
      BY <2>2 DEF Job
    <3>2. g.place \in DOMAIN Children[p]
      BY <2>2, <3>1 DEF IInv, TypeOK
    <3>. QED
      BY <3>1, <3>2, ChildIsObject
  <2>4. JobSound(g)
    BY <2>2 DEF IInv, JobsSound
  <2>5. p \in queued' \/ Cached(p)' = Cached(p)
    BY <1>2, <1>3, <2>3 DEF Cached
  <2>6. Stored(d)' = Stored(d)
    BY <1>3
  <2>7. JobSound(g)'
    BY <1>2, <2>3, <2>4, <2>5, <2>6 DEF JobSound
  <2>. QED
    BY <2>2, <2>7
<1>6. Awake'
  <2>1. SUFFICES ASSUME NEW p \in Parents \ {"ktcluster"}, NEW c \in ChildrenOf(p),
                        Away(p)', Exists(p)', InSync(p)'
                 PROVE  Owned(p, c)' \/ Waking(c)'
    BY DEF Awake, Settled
  <2>2. p \in Objects /\ c \in Objects /\ p # o
    BY <1>2, <2>1 DEF Objects, Away
  <2>3. Away(p) /\ Exists(p) /\ (InSync(p) <=> InSync(p)')
    BY <1>1, <1>2, <1>3, <2>1, <2>2 DEF Away, JobOf, Exists, InSync
  <2>4. Owned(p, c) \/ Waking(c)
    BY <2>1, <2>3 DEF IInv, Awake, Settled
  <2>5. Owned(p, c) => Owned(p, c)'
    BY <1>3, <2>2 DEF Owned, Exists
  <2>6. CASE c = o
    BY <1>2, <1>3, <2>1, <2>4, <2>5, <2>6 DEF Away
  <2>7. CASE c # o
    <3>1. Waking(c) => Waking(c)'
      BY <1>3, <2>2, <2>7 DEF Waking, InSync, Shown, Named
    <3>. QED
      BY <2>4, <2>5, <3>1
  <2>. QED
    BY <2>6, <2>7
<1>. QED
  BY <1>4, <1>5, <1>6 DEF IInv

\* A restart shows the cache what is stored and queues every parent.
LEMMA CrashSound == ASSUME IInv, Crash PROVE IInv'
<1>1. /\ Resync /\ queued' = {p \in Parents : Exists(p)}
      /\ jobs' = [k \in Controllers |-> Idle] /\ UNCHANGED created
      /\ disturbed' \in 0..MaxDisturbances
  BY DisturbType DEF Crash, IInv
<1>2. /\ versions' \in [Objects -> Seq(Version \cup {Gone})]
      /\ \A n \in Objects : versions'[n] # <<>> /\ Stored(n)' = Stored(n)
  BY <1>1, ResyncLemma DEF IInv
<1>3. TypeOK'
  BY <1>1, <1>2 DEF IInv, TypeOK
<1>4. JobsSound'
  BY <1>1 DEF JobsSound, JobSound
<1>5. ASSUME NEW p \in Parents, Exists(p)' PROVE p \in queued'
  <2>1. p \in Objects
    BY DEF Objects
  <2>. QED
    BY <1>1, <1>2, <1>5, <2>1 DEF Exists
<1>6. Awake'
  BY <1>5 DEF Awake, Settled, Away
<1>. QED
  BY <1>3, <1>4, <1>6 DEF IInv

LEMMA NextSound == ASSUME IInv, [Next]_vars PROVE IInv'
<1>1. CASE UNCHANGED vars
  BY <1>1 DEF vars, IInv, TypeOK, JobsSound, JobSound, Awake, Away, Settled,
              Owned, Waking, Exists, InSync, Stored, Cached, Shown, JobOf
<1>2. CASE Next
  BY <1>2, JobStepSound, CreateSound, EditSound, DeleteSound, WatchEventSound,
     CollectSound, CrashSound DEF Next
<1>. QED
  BY <1>1, <1>2

-----------------------------------------------------------------------------
(* The theorems *)

\* IInv holds in every state of every behaviour: of the controllers' steps, the
\* user's, the garbage collector's, and restarts.
THEOREM Invariance == Spec => []IInv
BY InitSound, NextSound, PTL DEF Spec

\* A controller runs reconciles of its own kind only, and deals with children
\* that exist as places of their parent, whatever the bounds.
THEOREM TypeCorrect == Spec => []TypeOK
<1>1. IInv => TypeOK
  BY DEF IInv
<1>. QED
  BY <1>1, Invariance, PTL

\* No wake-up is lost: a Cluster or KTMachineTemplate for which nothing is under
\* way owns its child.
THEOREM NoParentForgotten == Spec => []OwnedWhenQuiet
<1>1. ASSUME IInv PROVE OwnedWhenQuiet
  <2>1. SUFFICES ASSUME NEW p \in Parents \ {"ktcluster"}, NEW c \in ChildrenOf(p),
                        Quiet(p), Exists(p)
                 PROVE  Owned(p, c)
    BY DEF OwnedWhenQuiet
  <2>2. Away(p) /\ InSync(p) /\ InSync(c)
    BY <2>1 DEF Quiet, Away
  <2>3. Settled(p, c) /\ ~Waking(c)
    BY <1>1, <2>1, <2>2 DEF IInv, Awake, Waking
  <2>. QED
    BY <2>1, <2>2, <2>3 DEF Settled
<1>. QED
  BY <1>1, Invariance, PTL
=============================================================================
