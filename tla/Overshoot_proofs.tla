--------------------------- MODULE Overshoot_proofs ---------------------------
(***************************************************************************)
(* Proof of the bound on the machines a deployment overshoots by: where    *)
(* nothing is deleted, a deployment of r replicas has at most              *)
(* r + (r-1) + ... + 1 machines, and r more per disturbance.               *)
(*                                                                         *)
(* What makes it inductive is an account of what may still be created.     *)
(* The machines there are, those the running reconcile will create, those  *)
(* the queued key will make it create, a whole batch for every event on    *)
(* its way that does not show a machine, and the batches that the events   *)
(* which do show one will start (Cost): no step adds to their sum but the  *)
(* disturbances, and each of those adds a batch to what is allowed         *)
(* (Budget).  When no name is left nothing is created any more, and the    *)
(* account is closed.                                                      *)
(***************************************************************************)
EXTENDS MachineDeployment_proofs

\* Neither the deployment nor a machine is ever deleted.
NothingDeleted == Disturbances \cap {"deleteMachine", "deleteDeployment"} = {}

\* A deployment may ask for so many machines and no more.
SizesBounded == \E r \in Sizes : \A s \in Sizes : s <= r

-----------------------------------------------------------------------------
(* The inductive invariant *)

\* The deployment is created once; the job and the machines are of that one.
OneDeployment ==
  /\ \A i \in DOMAIN deployments :
       /\ deployments[i].uid = IF deployments[i].exists THEN 1 ELSE 0
       /\ deployments[i].exists => Stored(deployments).exists
  /\ job # Idle => Stored(deployments).exists /\ job.uid = 1
  /\ \A m \in Stored(machines) : Stored(deployments).exists /\ m.owner = 1

\* No version of the machines loses one, and none adds more than one.
Growing ==
  \A i \in DOMAIN machines :
    /\ machines[i] \subseteq Stored(machines)
    /\ Cardinality(Stored(machines)) <= Cardinality(machines[i]) + (Len(machines) - i)
    /\ i > 1 => Cardinality(machines[i]) - Cardinality(machines[i - 1]) \in {0, 1}

\* The machines in the cache, and those that exist.
Shown == Cardinality(Cached(machines))
Made == Cardinality(Stored(machines))

\* How many a reconcile finds missing, at most.
Missing == IF Shown < MaxSize THEN MaxSize - Shown ELSE 0

\* How many the running reconcile will create, at most ...
ToCreate == IF job.pc = "count" THEN Missing ELSE job.todo

\* ... and the one the queued key starts.
Woken == IF queued THEN Missing ELSE 0

\* The events on their way that do not show a machine the cache lacks.
OtherEvents == (Len(deployments) - 1) + ((Len(machines) - 1) - (Made - Shown))

Cost ==
  2 * (Made + ToCreate + Woken) + 2 * (MaxSize * OtherEvents) + Missing * (Missing - 1)

Budget ==
  MaxSize * (MaxSize - 1) + 2 * (MaxSize * (disturbed + Stored(deployments).uid))

WithinBudget == 2 * Made <= Budget /\ (FreshNames # {} => Cost <= Budget)

OvershootInv == IInv /\ OneDeployment /\ Growing /\ WithinBudget

-----------------------------------------------------------------------------
(* Arithmetic *)

\* A longer cached list can only lessen what is missing, and with it the
\* batches the coming events start.
LEMMA PairsMonotone ==
  ASSUME NEW g \in Nat, NEW h \in Nat, h <= g
  PROVE  h * (h - 1) <= g * (g - 1)
<1>1. CASE h = 0
  <2>1. g = 0 \/ g - 1 \in Nat
    OBVIOUS
  <2>2. g * (g - 1) \in Nat
    BY <2>1
  <2>. QED
    BY <1>1, <2>2
<1>2. CASE h > 0
  <2>1. PICK k \in Nat : g = h + k
    <3>1. g - h \in Nat /\ g = h + (g - h)
      OBVIOUS
    <3>. QED
      BY <3>1
  <2>2. g * (g - 1) = h * (h - 1) + k * h + k * (h - 1) + k * k
    BY <2>1
  <2>3. k * h \in Nat /\ k * (h - 1) \in Nat /\ k * k \in Nat
    BY <1>2
  <2>4. h * (h - 1) \in Int /\ g * (g - 1) \in Int
    OBVIOUS
  <2>. QED
    BY <2>2, <2>3, <2>4
<1>. QED
  BY <1>1, <1>2

LEMMA PairsNat ==
  ASSUME NEW g \in Nat
  PROVE  g * (g - 1) \in Nat
<1>1. g = 0 \/ g - 1 \in Nat
  OBVIOUS
<1>. QED
  BY <1>1

\* One machine more in the cache: the token of the event is paid by the
\* batches it no longer has to start.
LEMMA PairsStep ==
  ASSUME NEW g \in Nat, g > 0
  PROVE  (g - 1) * ((g - 1) - 1) + 2 * (g - 1) = g * (g - 1)
OBVIOUS

LEMMA TimesMonotone ==
  ASSUME NEW r \in Nat, NEW a \in Nat, NEW b \in Nat, a <= b
  PROVE  /\ r * a <= r * b
         /\ r * a \in Nat /\ r * b \in Nat
         /\ a < b => r * a + r <= r * b
<1>1. PICK k \in Nat : b = a + k
  <2>1. b - a \in Nat /\ b = a + (b - a)
    OBVIOUS
  <2>. QED
    BY <2>1
<1>2. r * b = r * a + r * k /\ r * k \in Nat /\ r * a \in Nat
  BY <1>1
<1>3. k > 0 => r * k >= r
  <2>1. k > 0 => k - 1 \in Nat
    OBVIOUS
  <2>2. k > 0 => r * k = r + r * (k - 1) /\ r * (k - 1) \in Nat
    BY <2>1
  <2>. QED
    BY <2>2
<1>. QED
  BY <1>1, <1>2, <1>3

LEMMA MaxSizeLemma ==
  ASSUME SizesBounded
  PROVE  MaxSize \in Nat /\ \A s \in Sizes : s \in Nat /\ s <= MaxSize
<1>1. MaxSize \in Sizes /\ \A s \in Sizes : s <= MaxSize
  BY DEF SizesBounded, MaxSize
<1>. QED
  BY <1>1, ConstantsAssumption

-----------------------------------------------------------------------------
(* What the account consists of *)

LEMMA StoredTypes ==
  ASSUME IInv
  PROVE  /\ Stored(deployments) \in Deployment /\ Cached(deployments) \in Deployment
         /\ Stored(deployments) = deployments[Len(deployments)]
         /\ Cached(deployments) = deployments[1]
         /\ 1 \in DOMAIN deployments /\ Len(deployments) \in DOMAIN deployments
         /\ Len(deployments) \in Nat \ {0} /\ Len(machines) \in Nat \ {0}
         /\ Stored(machines) \in SUBSET Machine /\ Cached(machines) \in SUBSET Machine
         /\ Stored(machines) = machines[Len(machines)] /\ Cached(machines) = machines[1]
         /\ 1 \in DOMAIN machines /\ Len(machines) \in DOMAIN machines
         /\ \A i \in DOMAIN machines : Cardinality(machines[i]) \in Nat
         /\ Shown \in Nat /\ Made \in Nat
<1>1. /\ 1 \in DOMAIN machines /\ Len(machines) \in DOMAIN machines
      /\ Stored(machines) = machines[Len(machines)] /\ Cached(machines) = machines[1]
  BY VersionsLemma DEF IInv, TypeOK
<1>2. \A i \in DOMAIN machines : Cardinality(machines[i]) \in Nat
  BY FS_CardinalityType DEF IInv, ObjectsSound
<1>3. Shown \in Nat /\ Made \in Nat
  BY <1>1, <1>2 DEF Shown, Made
<1>. QED
  BY <1>1, <1>2, <1>3, VersionsLemma DEF IInv, TypeOK

\* Every part of the account is a number that is not negative.
LEMMA AccountTypes ==
  ASSUME SizesBounded, OvershootInv
  PROVE  /\ MaxSize \in Nat
         /\ Shown \in Nat /\ Made \in Nat /\ Shown <= Made
         /\ Missing \in Nat /\ Missing <= MaxSize
         /\ ToCreate \in Nat /\ Woken \in Nat /\ Woken <= Missing
         /\ OtherEvents \in Nat
         /\ disturbed \in Nat /\ Stored(deployments).uid \in Nat
<1>1. IInv /\ Growing
  BY DEF OvershootInv
<1>2. MaxSize \in Nat
  BY MaxSizeLemma
<1>3. Shown \in Nat /\ Made \in Nat
  BY <1>1, StoredTypes
<1>4. Shown <= Made
  <2>1. Cached(machines) \subseteq Stored(machines) /\ IsFiniteSet(Stored(machines))
    BY <1>1, StoredTypes DEF Growing, IInv, ObjectsSound
  <2>. QED
    BY <2>1, FS_Subset DEF Shown, Made
<1>5. Missing \in Nat /\ Missing <= MaxSize
  BY <1>2, <1>3 DEF Missing
<1>6. Woken \in Nat /\ Woken <= Missing
  BY <1>5 DEF Woken
<1>7. ToCreate \in Nat
  <2>1. job.todo \in Nat
    BY <1>1 DEF IInv, TypeOK, Job, Idle
  <2>. QED
    BY <1>5, <2>1 DEF ToCreate
<1>8. OtherEvents \in Nat
  <2>1. Made <= Shown + (Len(machines) - 1)
    BY <1>1, StoredTypes DEF Growing, Made, Shown
  <2>2. Len(deployments) \in Nat \ {0} /\ Len(machines) \in Nat \ {0}
    BY <1>1, StoredTypes
  <2>. QED
    BY <1>3, <2>1, <2>2 DEF OtherEvents
<1>9. disturbed \in Nat /\ Stored(deployments).uid \in Nat
  <2>1. Stored(deployments) \in Deployment
    BY <1>1, StoredTypes
  <2>. QED
    BY <1>1, <2>1, ConstantsAssumption DEF IInv, TypeOK, Deployment
<1>. QED
  BY <1>2, <1>3, <1>4, <1>5, <1>6, <1>7, <1>8, <1>9

-----------------------------------------------------------------------------
(* The versions of the machines *)

LEMMA AppendExact ==
  ASSUME NEW S, NEW s \in Seq(S), s # <<>>, NEW x \in S
  PROVE  /\ Len(Append(s, x)) = Len(s) + 1
         /\ DOMAIN Append(s, x) = 1..(Len(s) + 1) /\ DOMAIN s = 1..Len(s)
         /\ \A i \in 1..Len(s) : Append(s, x)[i] = s[i]
         /\ Append(s, x)[Len(s) + 1] = x
         /\ Stored(Append(s, x)) = x /\ Cached(Append(s, x)) = Cached(s)
<1>1. Len(s) \in Nat \ {0} /\ DOMAIN s = 1..Len(s)
  BY VersionsLemma, LenProperties
<1>2. PICK t \in Seq(S) : t = Append(s, x)
  BY AppendProperties
<1>3. /\ Len(t) = Len(s) + 1
      /\ \A i \in 1..Len(s) : t[i] = s[i]
      /\ t[Len(s) + 1] = x
  BY <1>2, AppendProperties
<1>4. DOMAIN t = 1..(Len(s) + 1)
  BY <1>3, LenProperties
<1>5. Cached(t) = Cached(s)
  BY <1>2, AppendLemma
<1>6. Stored(t) = x
  BY <1>3 DEF Stored
<1>. QED
  BY <1>1, <1>2, <1>3, <1>4, <1>5, <1>6

LEMMA TailExact ==
  ASSUME NEW S, NEW s \in Seq(S), Len(s) > 1
  PROVE  /\ Len(Tail(s)) = Len(s) - 1
         /\ DOMAIN Tail(s) = 1..(Len(s) - 1) /\ DOMAIN s = 1..Len(s)
         /\ \A i \in 1..(Len(s) - 1) : Tail(s)[i] = s[i + 1]
         /\ Stored(Tail(s)) = Stored(s) /\ Cached(Tail(s)) = s[2]
<1>1. Len(s) \in Nat /\ DOMAIN s = 1..Len(s) /\ s # <<>>
  BY EmptySeq, LenProperties
<1>2. PICK t \in Seq(S) : t = Tail(s) /\ Len(t) = Len(s) - 1
                          /\ \A i \in 1..Len(t) : t[i] = s[i + 1]
  BY <1>1, HeadTailProperties
<1>3. DOMAIN t = 1..(Len(s) - 1) /\ t # <<>>
  BY <1>1, <1>2, TailLemma, LenProperties
<1>4. t[Len(t)] = s[Len(s)]
  <2>1. Len(t) \in 1..Len(t) /\ Len(t) + 1 = Len(s)
    BY <1>1, <1>2
  <2>. QED
    BY <1>2, <2>1
<1>5. Cached(t) = t[1] /\ t[1] = s[2]
  <2>1. 1 \in 1..Len(t) /\ 1 + 1 = 2
    BY <1>1, <1>2
  <2>2. t[1] = s[2]
    BY <1>2, <2>1
  <2>. QED
    BY <1>3, <2>2, VersionsLemma
<1>. QED
  BY <1>1, <1>2, <1>3, <1>4, <1>5 DEF Stored

\* A write that keeps the machines there are and adds one at most.
LEMMA GrowingAppend ==
  ASSUME IInv, Growing, NEW set \in SUBSET Machine, IsFiniteSet(set),
         Stored(machines) \subseteq set,
         Cardinality(set) \in {Made, Made + 1},
         machines' = Append(machines, set)
  PROVE  /\ Growing'
         /\ Len(machines') = Len(machines) + 1
         /\ Stored(machines') = set /\ Cached(machines') = Cached(machines)
<1>. DEFINE n == Len(machines)
<1>1. /\ Len(machines') = n + 1
      /\ DOMAIN machines' = 1..(n + 1) /\ DOMAIN machines = 1..n
      /\ \A i \in 1..n : machines'[i] = machines[i]
      /\ machines'[n + 1] = set
      /\ Stored(machines') = set /\ Cached(machines') = Cached(machines)
  BY AppendExact DEF IInv, TypeOK
<1>2. /\ n \in Nat \ {0} /\ Made \in Nat
      /\ machines[n] = Stored(machines)
      /\ \A i \in 1..n : Cardinality(machines[i]) \in Nat
  BY <1>1, StoredTypes
<1>3. Cardinality(set) \in Nat
  BY <1>2
<1>4. \A i \in 1..n : /\ machines[i] \subseteq Stored(machines)
                      /\ Made <= Cardinality(machines[i]) + (n - i)
                      /\ i > 1 => Cardinality(machines[i])
                                    - Cardinality(machines[i - 1]) \in {0, 1}
  BY <1>1 DEF Growing, Made
<1>. HIDE DEF n
<1>5. ASSUME NEW i \in 1..(n + 1)
      PROVE  /\ machines'[i] \subseteq set
             /\ Cardinality(set) <= Cardinality(machines'[i]) + ((n + 1) - i)
             /\ i > 1 => Cardinality(machines'[i])
                           - Cardinality(machines'[i - 1]) \in {0, 1}
  <2>1. CASE i = n + 1
    <3>1. machines'[i] = set
      BY <1>1, <2>1
    <3>2. i > 1 => machines'[i - 1] = Stored(machines)
      BY <1>1, <1>2, <2>1
    <3>3. i > 1 => Cardinality(machines'[i - 1]) = Made
      BY <3>2 DEF Made
    <3>4. Cardinality(set) <= Cardinality(set) + ((n + 1) - i)
      BY <1>2, <1>3, <2>1
    <3>5. Cardinality(set) - Made \in {0, 1}
      BY <1>2, <1>3
    <3>. QED
      BY <3>1, <3>3, <3>4, <3>5
  <2>2. CASE i \in 1..n
    <3>1. machines'[i] = machines[i]
      BY <1>1, <2>2
    <3>2. i > 1 => machines'[i - 1] = machines[i - 1]
      <4>1. i > 1 => i - 1 \in 1..n
        BY <1>2, <2>2
      <4>. QED
        BY <1>1, <4>1
    <3>3. Cardinality(set) <= Made + 1
      BY <1>2
    <3>4. Cardinality(machines[i]) \in Nat
      BY <1>2, <2>2
    <3>5. Cardinality(set) <= Cardinality(machines[i]) + ((n + 1) - i)
      BY <1>2, <1>3, <1>4, <2>2, <3>3, <3>4
    <3>. QED
      BY <1>4, <2>2, <3>1, <3>2, <3>5
  <2>3. i = n + 1 \/ i \in 1..n
    BY <1>2
  <2>. QED
    BY <2>1, <2>2, <2>3
<1>. QED
  BY <1>1, <1>5 DEF Growing, n

LEMMA GrowingTail ==
  ASSUME IInv, Growing, Len(machines) > 1, machines' = Tail(machines)
  PROVE  /\ Growing'
         /\ Len(machines') = Len(machines) - 1
         /\ Stored(machines') = Stored(machines)
         /\ Cardinality(Cached(machines')) - Shown \in {0, 1}
<1>. DEFINE n == Len(machines)
<1>1. /\ Len(machines') = n - 1
      /\ DOMAIN machines' = 1..(n - 1) /\ DOMAIN machines = 1..n
      /\ \A i \in 1..(n - 1) : machines'[i] = machines[i + 1]
      /\ Stored(machines') = Stored(machines) /\ Cached(machines') = machines[2]
  BY TailExact DEF IInv, TypeOK
<1>2. n \in Nat \ {0} /\ n > 1 /\ machines[1] = Cached(machines)
  BY StoredTypes
<1>3. \A i \in 1..n : /\ machines[i] \subseteq Stored(machines)
                      /\ Made <= Cardinality(machines[i]) + (n - i)
                      /\ i > 1 => Cardinality(machines[i])
                                    - Cardinality(machines[i - 1]) \in {0, 1}
  BY <1>1 DEF Growing, Made
<1>. HIDE DEF n
<1>4. ASSUME NEW i \in 1..(n - 1)
      PROVE  /\ machines'[i] \subseteq Stored(machines)
             /\ Made <= Cardinality(machines'[i]) + ((n - 1) - i)
             /\ i > 1 => Cardinality(machines'[i])
                           - Cardinality(machines'[i - 1]) \in {0, 1}
  <2>1. i + 1 \in 1..n /\ i + 1 > 1 /\ (i + 1) - 1 = i /\ n - (i + 1) = (n - 1) - i
    BY <1>2
  <2>2. machines'[i] = machines[i + 1]
    BY <1>1
  <2>3. i > 1 => machines'[i - 1] = machines[i]
    <3>1. i > 1 => i - 1 \in 1..(n - 1) /\ (i - 1) + 1 = i
      BY <1>2
    <3>. QED
      BY <1>1, <3>1
  <2>4. /\ machines[i + 1] \subseteq Stored(machines)
        /\ Made <= Cardinality(machines[i + 1]) + (n - (i + 1))
        /\ Cardinality(machines[i + 1]) - Cardinality(machines[(i + 1) - 1]) \in {0, 1}
    BY <1>3, <2>1
  <2>. QED
    BY <2>1, <2>2, <2>3, <2>4
<1>5. Cardinality(machines[2]) - Shown \in {0, 1}
  <2>1. 2 \in 1..n /\ 2 > 1 /\ 2 - 1 = 1
    BY <1>2
  <2>. QED
    BY <1>2, <1>3, <2>1 DEF Shown
<1>. QED
  BY <1>1, <1>4, <1>5 DEF Growing, Made, n

LEMMA GrowingSingleton ==
  ASSUME NEW set \in SUBSET Machine, IsFiniteSet(set), machines' = <<set>>
  PROVE  /\ Growing'
         /\ Len(machines') = 1
         /\ Stored(machines') = set /\ Cached(machines') = set
<1>1. DOMAIN machines' = {1} /\ machines'[1] = set /\ Cached(machines') = set
  BY SingletonLemma
<1>2. Len(machines') = 1
  OBVIOUS
<1>3. Stored(machines') = set
  BY <1>1, <1>2 DEF Stored
<1>4. Cardinality(set) \in Nat
  BY FS_CardinalityType
<1>. QED
  BY <1>1, <1>2, <1>3, <1>4 DEF Growing

\* The names in use are those of the machines that exist.
LEMMA NamesInUse ==
  ASSUME NEW s, Len(s) \in DOMAIN s, \A i \in DOMAIN s : s[i] \subseteq Stored(s)
  PROVE  UNION {{m.name : m \in s[i]} : i \in DOMAIN s} = {m.name : m \in Stored(s)}
BY DEF Stored

LEMMA FreshNamesStored ==
  ASSUME IInv, Growing
  PROVE  FreshNames = Names \ {m.name : m \in Stored(machines)}
BY StoredTypes, NamesInUse DEF FreshNames, Growing

\* Where no machine is deleted, no name comes back.
LEMMA FreshNamesShrink ==
  ASSUME IInv, Growing, Growing', Stored(machines) \subseteq Stored(machines'),
         Len(machines') \in DOMAIN machines'
  PROVE  FreshNames' \subseteq FreshNames
<1>1. FreshNames = Names \ {m.name : m \in Stored(machines)}
  BY FreshNamesStored
<1>2. \A i \in DOMAIN machines' : machines'[i] \subseteq Stored(machines')
  BY DEF Growing
<1>3. FreshNames' = Names \ {m.name : m \in Stored(machines')}
  BY <1>2, NamesInUse DEF FreshNames
<1>. QED
  BY <1>1, <1>3

LEMMA Transfer ==
  ASSUME NEW a \in Int, NEW b \in Int, NEW c \in Int, NEW d \in Int,
         a <= b, c - a <= d - b
  PROVE  c <= d
OBVIOUS

\* The account of a step that makes no machine.
LEMMA BudgetKept ==
  ASSUME SizesBounded, OvershootInv, Made' = Made, FreshNames' \subseteq FreshNames,
         Cost' \in Int, Budget \in Int, Budget' \in Int, Cost \in Int,
         Budget <= Budget', FreshNames # {} => Cost' - Cost <= Budget' - Budget
  PROVE  WithinBudget'
<1>1. 2 * Made <= Budget /\ (FreshNames # {} => Cost <= Budget)
  BY DEF OvershootInv, WithinBudget
<1>2. Made \in Nat
  BY AccountTypes
<1>3. 2 * Made' <= Budget'
  BY <1>1, <1>2
<1>4. ASSUME FreshNames # {} PROVE Cost' <= Budget'
  <2>1. Cost' - Cost <= Budget' - Budget
    BY <1>4
  <2>2. Cost <= Budget
    BY <1>1, <1>4
  <2>. QED
    BY <2>1, <2>2, Transfer
<1>5. FreshNames' # {} => FreshNames # {}
  OBVIOUS
<1>. QED
  BY <1>3, <1>4, <1>5 DEF WithinBudget

LEMMA CostTypes ==
  ASSUME SizesBounded, OvershootInv
  PROVE  Cost \in Nat /\ Budget \in Int
<1>1. /\ MaxSize \in Nat /\ Made \in Nat /\ ToCreate \in Nat /\ Woken \in Nat
      /\ OtherEvents \in Nat /\ Missing \in Nat
      /\ disturbed \in Nat /\ Stored(deployments).uid \in Nat
  BY AccountTypes
<1>2. Missing * (Missing - 1) \in Nat /\ MaxSize * (MaxSize - 1) \in Nat
  BY <1>1, PairsNat
<1>3. MaxSize * OtherEvents \in Nat /\ MaxSize * (disturbed + Stored(deployments).uid) \in Nat
  BY <1>1
<1>. QED
  BY <1>1, <1>2, <1>3 DEF Cost, Budget

\* A disturbance, or the creation of the deployment, allows one batch more.
LEMMA BudgetRaised ==
  ASSUME SizesBounded, OvershootInv,
         disturbed' + Stored(deployments').uid = disturbed + Stored(deployments).uid + 1
  PROVE  Budget' \in Int /\ Budget' = Budget + 2 * MaxSize
<1>1. MaxSize \in Nat /\ disturbed \in Nat /\ Stored(deployments).uid \in Nat
  BY AccountTypes
<1>2. PICK b \in Nat : b = disturbed + Stored(deployments).uid
  BY <1>1
<1>3. MaxSize * (MaxSize - 1) \in Int /\ MaxSize * b \in Nat
  BY <1>1, <1>2
<1>4. Budget = MaxSize * (MaxSize - 1) + 2 * (MaxSize * b)
  BY <1>2 DEF Budget
<1>5. Budget' = MaxSize * (MaxSize - 1) + 2 * (MaxSize * (b + 1))
  BY <1>2 DEF Budget
<1>6. MaxSize * (b + 1) = MaxSize * b + MaxSize
  BY <1>1
<1>. QED
  BY <1>1, <1>3, <1>4, <1>5, <1>6

\* Nothing about the machines changes.
LEMMA SameMachines ==
  ASSUME Growing, machines' = machines
  PROVE  /\ Growing' /\ FreshNames' = FreshNames /\ Made' = Made
         /\ Shown' = Shown /\ Missing' = Missing
BY DEF Growing, FreshNames, Made, Shown, Missing

\* Nothing is written and no event arrives.
LEMMA SameEvents ==
  ASSUME SizesBounded, OvershootInv, UNCHANGED <<deployments, machines>>,
         ToCreate' \in Nat, Woken' \in Nat
  PROVE  /\ Growing' /\ FreshNames' = FreshNames /\ Made' = Made
         /\ Missing' = Missing
         /\ Cost' \in Int
         /\ Cost' = Cost + 2 * (ToCreate' + Woken') - 2 * (ToCreate + Woken)
<1>1. /\ Growing' /\ FreshNames' = FreshNames /\ Made' = Made
      /\ Shown' = Shown /\ Missing' = Missing
  BY SameMachines DEF OvershootInv
<1>2. OtherEvents' = OtherEvents
  BY <1>1 DEF OtherEvents
<1>3. PICK e : e = 2 * (MaxSize * OtherEvents) + Missing * (Missing - 1)
  OBVIOUS
<1>4. e \in Nat
  <2>1. MaxSize \in Nat /\ OtherEvents \in Nat /\ Missing \in Nat
    BY AccountTypes
  <2>2. MaxSize * OtherEvents \in Nat /\ Missing * (Missing - 1) \in Nat
    BY <2>1, PairsNat
  <2>. QED
    BY <1>3, <2>2
<1>5. Cost = 2 * (Made + ToCreate + Woken) + e
  <2>1. /\ Made \in Nat /\ ToCreate \in Nat /\ Woken \in Nat
        /\ MaxSize * OtherEvents \in Int /\ Missing * (Missing - 1) \in Int
    BY AccountTypes
  <2>. QED
    BY <1>3, <2>1 DEF Cost
<1>6. Cost' = 2 * (Made + ToCreate' + Woken') + e
  <2>1. /\ Made \in Nat
        /\ MaxSize * OtherEvents \in Int /\ Missing * (Missing - 1) \in Int
    BY AccountTypes
  <2>. QED
    BY <1>1, <1>2, <1>3, <2>1 DEF Cost
<1>7. Made \in Nat /\ ToCreate \in Nat /\ Woken \in Nat
  BY AccountTypes
<1>. QED
  BY <1>1, <1>4, <1>5, <1>6, <1>7

-----------------------------------------------------------------------------
(* The reconciler *)

LEMMA ReconcileWithin ==
  ASSUME SizesBounded, OvershootInv, Reconcile
  PROVE  OneDeployment' /\ Growing' /\ WithinBudget'
<1>1. /\ queued /\ job = Idle /\ ~queued'
      /\ UNCHANGED <<deployments, machines, disturbed>>
      /\ job' = IF Cached(deployments).exists
                THEN [pc |-> "count", uid |-> Cached(deployments).uid,
                      replicas |-> Cached(deployments).replicas, todo |-> 0]
                ELSE Idle
  BY DEF Reconcile, Calm, objectVars
<1>2. OneDeployment'
  <2>1. Cached(deployments) = deployments[1] /\ 1 \in DOMAIN deployments
    BY StoredTypes DEF OvershootInv
  <2>2. Cached(deployments).exists
          => Cached(deployments).uid = 1 /\ Stored(deployments).exists
    BY <2>1 DEF OvershootInv, OneDeployment
  <2>3. job' # Idle => job'.uid = 1 /\ Stored(deployments).exists
    BY <1>1, <2>2
  <2>. QED
    BY <1>1, <2>3 DEF OvershootInv, OneDeployment
<1>3. Missing' = Missing /\ Missing \in Nat
  BY <1>1, AccountTypes, SameMachines DEF OvershootInv
<1>4. Budget' = Budget
  BY <1>1 DEF Budget
<1>5. ToCreate = 0 /\ Woken = Missing /\ Woken' = 0
  BY <1>1 DEF ToCreate, Woken, Idle
<1>6. ToCreate' \in {0, Missing}
  BY <1>1, <1>3 DEF ToCreate, Idle
<1>7. Growing' /\ FreshNames' = FreshNames /\ Made' = Made /\ Cost' \in Int /\ Cost' <= Cost
  BY <1>1, <1>3, <1>5, <1>6, SameEvents, CostTypes
<1>. QED
  BY <1>2, <1>4, <1>7, CostTypes, BudgetKept

LEMMA CountChildrenWithin ==
  ASSUME SizesBounded, OvershootInv, CountChildren
  PROVE  OneDeployment' /\ Growing' /\ WithinBudget'
<1>1. job.pc = "count" /\ UNCHANGED <<deployments, machines, disturbed>>
  BY DEF CountChildren, Calm, objectVars
<1>2. job \in Job /\ job.replicas \in Nat /\ job.replicas <= MaxSize
  <2>1. job \in Job
    BY <1>1 DEF OvershootInv, IInv, TypeOK, Idle
  <2>. QED
    BY <2>1, MaxSizeLemma DEF Job
<1>3. Missing' = Missing
  BY <1>1, SameMachines DEF OvershootInv
<1>4. Budget' = Budget
  BY <1>1 DEF Budget
<1>5. MaxSize \in Nat /\ Missing \in Nat /\ Shown \in Nat /\ Woken \in Nat
  BY AccountTypes
<1>6. ToCreate = Missing
  BY <1>1 DEF ToCreate
<1>7. \/ job' = Idle /\ ToCreate' = 0 /\ Woken' <= Missing /\ Woken' \in Nat
      \/ /\ job'.uid = job.uid /\ Woken' = Woken
         /\ ToCreate' \in Nat /\ ToCreate' <= Missing
  <2>1. CASE Retry \/ Return
    <3>1. job' = Idle
      BY <2>1 DEF Retry, Return
    <3>2. ToCreate' = 0
      BY <3>1 DEF ToCreate, Idle
    <3>3. Woken' <= Missing /\ Woken' \in Nat
      BY <1>3, <1>5 DEF Woken
    <3>. QED
      BY <3>1, <3>2, <3>3
  <2>2. CASE /\ ~(Cardinality(Cached(machines)) >= job.replicas)
             /\ job' = [job EXCEPT !.pc = "create",
                          !.todo = job.replicas - Cardinality(Cached(machines))]
             /\ UNCHANGED queued
    <3>1. job'.pc = "create" /\ job'.todo = job.replicas - Shown /\ job'.uid = job.uid
      BY <1>2, <2>2 DEF Job, Shown
    <3>2. ToCreate' = job.replicas - Shown
      BY <3>1 DEF ToCreate
    <3>3. job.replicas - Shown \in Nat /\ job.replicas - Shown <= Missing
      BY <1>2, <1>5, <2>2 DEF Missing, Shown
    <3>4. Woken' = Woken
      BY <1>3, <2>2 DEF Woken
    <3>. QED
      BY <3>1, <3>2, <3>3, <3>4
  <2>. QED
    BY <2>1, <2>2 DEF CountChildren
<1>8. OneDeployment'
  <2>1. job # Idle
    BY <1>1 DEF Idle
  <2>2. job' # Idle => job'.uid = 1 /\ Stored(deployments).exists
    BY <1>7, <2>1 DEF OvershootInv, OneDeployment
  <2>. QED
    BY <1>1, <2>2 DEF OvershootInv, OneDeployment
<1>9. Growing' /\ FreshNames' = FreshNames /\ Made' = Made /\ Cost' \in Int /\ Cost' <= Cost
  BY <1>1, <1>5, <1>6, <1>7, SameEvents, CostTypes
<1>. QED
  BY <1>4, <1>8, <1>9, CostTypes, BudgetKept

LEMMA CreateMachineWithin ==
  ASSUME SizesBounded, OvershootInv, CreateMachine
  PROVE  OneDeployment' /\ Growing' /\ WithinBudget'
<1>1. PICK n \in FreshNames : n = CHOOSE k \in FreshNames : TRUE
  BY DEF CreateMachine
<1>2. PICK made : made = [name |-> n, owner |-> job.uid]
  OBVIOUS
<1>3. /\ job.pc = "create" /\ FreshNames # {}
      /\ machines' = Append(machines, Stored(machines) \cup {made})
      /\ UNCHANGED <<deployments, disturbed, queued>>
      /\ \/ job.todo = 1 /\ job' = Idle
         \/ job.todo # 1 /\ job' = [job EXCEPT !.todo = @ - 1]
  BY <1>1, <1>2 DEF CreateMachine, Calm, Return
<1>4. job \in Job /\ job # Idle /\ job.todo \in Nat /\ job.todo > 0
  <2>1. job # Idle
    BY <1>3 DEF Idle
  <2>. QED
    BY <1>3, <2>1 DEF OvershootInv, IInv, TypeOK, JobSound, Job
<1>5. job.uid = 1 /\ Stored(deployments).exists
  BY <1>4 DEF OvershootInv, OneDeployment
<1>6. made \in Machine
  BY <1>2, <1>4 DEF Machine, Job, FreshNames
<1>7. made \notin Stored(machines)
  BY <1>2, FreshNamesStored DEF OvershootInv
<1>8. PICK set \in SUBSET Machine :
        /\ set = Stored(machines) \cup {made} /\ IsFiniteSet(set)
        /\ Cardinality(set) = Made + 1
  <2>1. Stored(machines) \in SUBSET Machine /\ IsFiniteSet(Stored(machines))
    BY StoredTypes DEF OvershootInv, IInv, ObjectsSound
  <2>2. /\ IsFiniteSet(Stored(machines) \cup {made})
        /\ Cardinality(Stored(machines) \cup {made}) = Made + 1
    BY <1>7, <2>1, FS_AddElement DEF Made
  <2>. QED
    BY <1>6, <2>1, <2>2
<1>9. /\ Growing' /\ Len(machines') = Len(machines) + 1
      /\ Stored(machines') = set /\ Cached(machines') = Cached(machines)
  <2>1. machines' = Append(machines, set) /\ Stored(machines) \subseteq set
    BY <1>3, <1>8
  <2>. QED
    BY <1>8, <2>1, GrowingAppend DEF OvershootInv
<1>10. job' # Idle => job'.uid = job.uid
  BY <1>3, <1>4 DEF Job
<1>11. OneDeployment'
  <2>1. \A m \in set : Stored(deployments).exists /\ m.owner = 1
    BY <1>2, <1>5, <1>8 DEF OvershootInv, OneDeployment
  <2>. QED
    BY <1>3, <1>5, <1>9, <1>10, <2>1 DEF OvershootInv, OneDeployment
<1>12. Made' = Made + 1 /\ Shown' = Shown /\ Missing' = Missing /\ Woken' = Woken
  BY <1>3, <1>8, <1>9 DEF Made, Shown, Missing, Woken
<1>13. ToCreate' = ToCreate - 1
  <2>1. ToCreate = job.todo
    BY <1>3 DEF ToCreate
  <2>2. CASE job.todo = 1 /\ job' = Idle
    BY <2>1, <2>2 DEF ToCreate, Idle
  <2>3. CASE job' = [job EXCEPT !.todo = @ - 1]
    <3>1. job'.pc = "create" /\ job'.todo = job.todo - 1
      BY <1>3, <1>4, <2>3 DEF Job
    <3>. QED
      BY <2>1, <3>1 DEF ToCreate
  <2>. QED
    BY <1>3, <2>2, <2>3
<1>14. OtherEvents' = OtherEvents
  <2>1. Made \in Nat /\ Shown \in Nat /\ Len(machines) \in Nat /\ Len(deployments) \in Nat
    BY StoredTypes DEF OvershootInv
  <2>. QED
    BY <1>3, <1>9, <1>12, <2>1 DEF OtherEvents
<1>15. Budget' = Budget
  BY <1>3 DEF Budget
<1>16. /\ MaxSize \in Nat /\ Made \in Nat /\ ToCreate \in Nat /\ Woken \in Nat
       /\ OtherEvents \in Nat /\ Missing \in Nat
  BY AccountTypes
<1>17. PICK e : e = 2 * (MaxSize * OtherEvents) + Missing * (Missing - 1)
  OBVIOUS
<1>18. e \in Nat
  <2>1. MaxSize * OtherEvents \in Nat /\ Missing * (Missing - 1) \in Nat
    BY <1>16, PairsNat
  <2>. QED
    BY <1>17, <2>1
<1>19. /\ Cost = 2 * (Made + ToCreate + Woken) + e
       /\ Cost' = 2 * (Made' + ToCreate' + Woken') + e
  <2>1. MaxSize * OtherEvents \in Int /\ Missing * (Missing - 1) \in Int
    BY <1>16
  <2>2. Cost = 2 * (Made + ToCreate + Woken) + e
    BY <1>16, <1>17, <2>1 DEF Cost
  <2>3. Cost' = 2 * (Made' + ToCreate' + Woken') + e
    BY <1>12, <1>13, <1>14, <1>16, <1>17, <2>1 DEF Cost
  <2>. QED
    BY <2>2, <2>3
<1>20. Cost <= Budget
  BY <1>3 DEF OvershootInv, WithinBudget
<1>21. Cost' = Cost /\ 2 * Made' <= Cost
  <2>1. ToCreate > 0
    BY <1>3, <1>4 DEF ToCreate
  <2>. QED
    BY <1>12, <1>13, <1>16, <1>18, <1>19, <2>1
<1>22. WithinBudget'
  <2>1. PICK c \in Int, b \in Int, n2 \in Nat : c = Cost /\ b = Budget /\ n2 = 2 * Made'
    BY <1>12, <1>16, CostTypes
  <2>2. n2 <= c /\ c <= b
    BY <1>20, <1>21, <2>1
  <2>3. n2 <= b
    BY <2>2
  <2>4. 2 * Made' <= Budget /\ Cost' <= Budget
    BY <1>20, <1>21, <2>1, <2>3
  <2>. QED
    BY <1>15, <2>4 DEF WithinBudget
<1>. QED
  BY <1>9, <1>11, <1>22

LEMMA CreateFailsWithin ==
  ASSUME SizesBounded, OvershootInv, CreateFails
  PROVE  OneDeployment' /\ Growing' /\ WithinBudget'
<1>1. /\ job' = Idle /\ UNCHANGED <<deployments, machines>>
      /\ \/ FreshNames = {} /\ disturbed' = disturbed
         \/ disturbed' = disturbed + 1
  BY DEF CreateFails, Retry, objectVars, Calm, Disturb
<1>2. OneDeployment'
  BY <1>1 DEF OvershootInv, OneDeployment
<1>3. Missing' = Missing
  BY <1>1, SameMachines DEF OvershootInv
<1>4. /\ Missing \in Nat /\ Missing <= MaxSize /\ MaxSize \in Nat
      /\ ToCreate \in Nat /\ Woken \in Nat /\ disturbed \in Nat
      /\ Stored(deployments).uid \in Nat
  BY AccountTypes
<1>5. ToCreate' = 0 /\ Woken' \in Nat /\ Woken' <= Missing
  BY <1>1, <1>3, <1>4 DEF ToCreate, Woken, Idle
<1>6. /\ Growing' /\ FreshNames' = FreshNames /\ Made' = Made
      /\ Cost' \in Int /\ Cost' <= Cost + 2 * MaxSize
  BY <1>1, <1>4, <1>5, SameEvents, CostTypes
<1>7. /\ Budget' \in Int /\ Budget <= Budget'
      /\ disturbed' = disturbed + 1 => Budget' = Budget + 2 * MaxSize
  <2>1. CASE disturbed' = disturbed
    <3>1. Budget' = Budget
      BY <1>1, <2>1 DEF Budget
    <3>. QED
      BY <1>4, <2>1, <3>1, CostTypes
  <2>2. CASE disturbed' = disturbed + 1
    <3>1. disturbed' + Stored(deployments').uid = disturbed + Stored(deployments).uid + 1
      BY <1>1, <1>4, <2>2
    <3>. QED
      BY <1>4, <3>1, BudgetRaised, CostTypes
  <2>. QED
    BY <1>1, <2>1, <2>2
<1>8. ASSUME FreshNames # {} PROVE Cost' - Cost <= Budget' - Budget
  <2>1. Budget' = Budget + 2 * MaxSize
    BY <1>1, <1>7, <1>8
  <2>. QED
    BY <1>4, <1>6, <2>1, CostTypes
<1>. QED
  BY <1>2, <1>6, <1>7, <1>8, CostTypes, BudgetKept

-----------------------------------------------------------------------------
(* What happens around it *)

\* An event more or less that shows no machine.
LEMMA OtherEventsStep ==
  ASSUME NEW r \in Nat, NEW e \in Nat
  PROVE  /\ r * (e + 1) = r * e + r /\ r * e \in Nat
         /\ e > 0 => r * (e - 1) = r * e - r
OBVIOUS

\* A write that makes no machine: its event may start a batch, and either it is
\* a disturbance or it creates the deployment.
LEMMA WriteWithin ==
  ASSUME SizesBounded, OvershootInv,
         UNCHANGED <<queued, job>>,
         Growing', FreshNames' \subseteq FreshNames,
         Made' = Made, Shown' = Shown,
         Len(deployments') + Len(machines') = Len(deployments) + Len(machines) + 1,
         Len(deployments') \in Nat, Len(machines') \in Nat,
         disturbed' + Stored(deployments').uid = disturbed + Stored(deployments).uid + 1
  PROVE  WithinBudget'
<1>1. /\ MaxSize \in Nat /\ Made \in Nat /\ ToCreate \in Nat /\ Woken \in Nat
      /\ OtherEvents \in Nat /\ Missing \in Nat /\ Shown \in Nat
  BY AccountTypes
<1>2. Missing' = Missing /\ ToCreate' = ToCreate /\ Woken' = Woken
  BY DEF Missing, ToCreate, Woken
<1>3. OtherEvents' = OtherEvents + 1
  <2>1. Len(deployments) \in Nat /\ Len(machines) \in Nat
    BY StoredTypes DEF OvershootInv
  <2>. QED
    BY <1>1, <2>1 DEF OtherEvents
<1>4. /\ MaxSize * (OtherEvents + 1) = MaxSize * OtherEvents + MaxSize
      /\ MaxSize * OtherEvents \in Nat /\ Missing * (Missing - 1) \in Nat
  BY <1>1, OtherEventsStep, PairsNat
<1>5. PICK e \in Nat, q \in Nat : e = MaxSize * OtherEvents /\ q = Missing * (Missing - 1)
  BY <1>4
<1>6. Cost = 2 * (Made + ToCreate + Woken) + 2 * e + q
  BY <1>5 DEF Cost
<1>7. Cost' = 2 * (Made + ToCreate + Woken) + 2 * (e + MaxSize) + q
  BY <1>2, <1>3, <1>4, <1>5 DEF Cost
<1>8. Cost' = Cost + 2 * MaxSize /\ Cost' \in Int
  BY <1>1, <1>5, <1>6, <1>7
<1>9. Budget' \in Int /\ Budget' = Budget + 2 * MaxSize
  BY BudgetRaised
<1>10. PICK c \in Int, b \in Int : c = Cost /\ b = Budget
  BY CostTypes
<1>11. Budget <= Budget' /\ Cost' - Cost <= Budget' - Budget
  <2>1. Budget' = b + 2 * MaxSize /\ Cost' = c + 2 * MaxSize
    BY <1>8, <1>9, <1>10
  <2>. QED
    BY <1>1, <1>10, <2>1
<1>. QED
  BY <1>8, <1>9, <1>10, <1>11, BudgetKept

LEMMA WriteDeploymentWithin ==
  ASSUME SizesBounded, OvershootInv, NEW d \in Deployment, WriteDeployment(d),
         d.exists, d.uid = 1,
         disturbed' + 1 = disturbed + Stored(deployments).uid + 1
  PROVE  OneDeployment' /\ Growing' /\ WithinBudget'
<1>1. deployments' = Append(deployments, d) /\ UNCHANGED <<machines, template, queued, job>>
  BY DEF WriteDeployment
<1>2. /\ Len(deployments') = Len(deployments) + 1 /\ Stored(deployments') = d
      /\ \A i \in DOMAIN deployments' :
           \/ deployments'[i] = d
           \/ i \in DOMAIN deployments /\ deployments'[i] = deployments[i]
  BY <1>1, AppendExact, AppendLemma DEF OvershootInv, IInv, TypeOK
<1>3. OneDeployment'
  <2>1. \A i \in DOMAIN deployments' :
          /\ deployments'[i].uid = IF deployments'[i].exists THEN 1 ELSE 0
          /\ deployments'[i].exists => d.exists
    BY <1>2 DEF OvershootInv, OneDeployment
  <2>2. job # Idle => job.uid = 1
    BY DEF OvershootInv, OneDeployment
  <2>3. \A m \in Stored(machines) : m.owner = 1
    BY DEF OvershootInv, OneDeployment
  <2>. QED
    BY <1>1, <1>2, <2>1, <2>2, <2>3 DEF OneDeployment
<1>4. Growing' /\ FreshNames' = FreshNames /\ Made' = Made /\ Shown' = Shown
  BY <1>1, SameMachines DEF OvershootInv
<1>5. Len(deployments) \in Nat /\ Len(machines) \in Nat
  BY StoredTypes DEF OvershootInv
<1>6. /\ Len(deployments') + Len(machines') = Len(deployments) + Len(machines) + 1
      /\ Len(deployments') \in Nat /\ Len(machines') \in Nat
  BY <1>1, <1>2, <1>5
<1>7. disturbed' + Stored(deployments').uid = disturbed + Stored(deployments).uid + 1
  BY <1>2
<1>8. WithinBudget'
  BY <1>1, <1>4, <1>6, <1>7, WriteWithin
<1>. QED
  BY <1>3, <1>4, <1>8

LEMMA UserWithin ==
  ASSUME SizesBounded, NothingDeleted, OvershootInv,
         \/ \E r \in Sizes : CreateDeployment(r) \/ Scale(r)
         \/ \E m \in Stored(machines) : DeleteMachine(m) \/ CollectMachine(m)
         \/ DeleteDeployment \/ Touch
  PROVE  OneDeployment' /\ Growing' /\ WithinBudget'
<1>1. PICK d \in Deployment : d = Stored(deployments)
  BY StoredTypes DEF OvershootInv
<1>2. d.uid = IF d.exists THEN 1 ELSE 0
  <2>1. d = deployments[Len(deployments)] /\ Len(deployments) \in DOMAIN deployments
    BY <1>1, StoredTypes DEF OvershootInv
  <2>. QED
    BY <2>1 DEF OvershootInv, OneDeployment
<1>3. disturbed \in Nat
  BY AccountTypes
<1>4. ASSUME NEW r \in Sizes, CreateDeployment(r)
      PROVE  OneDeployment' /\ Growing' /\ WithinBudget'
  <2>1. ~d.exists /\ d.uid = 0 /\ d.uid < MaxUID
    BY <1>1, <1>2, <1>4 DEF CreateDeployment
  <2>2. PICK e : e = [exists |-> TRUE, uid |-> 1, replicas |-> r]
    OBVIOUS
  <2>3. e \in Deployment /\ e.exists /\ e.uid = 1
    <3>1. 1 \in 0..MaxUID
      BY <2>1, ConstantsAssumption
    <3>. QED
      BY <2>2, <3>1 DEF Deployment
  <2>4. WriteDeployment(e) /\ disturbed' = disturbed
    BY <1>1, <1>4, <2>1, <2>2 DEF CreateDeployment, Calm
  <2>5. disturbed' + 1 = disturbed + Stored(deployments).uid + 1
    BY <1>1, <1>3, <2>1, <2>4
  <2>. QED
    BY <2>3, <2>4, <2>5, WriteDeploymentWithin
<1>5. ASSUME NEW r \in Sizes, Scale(r)
      PROVE  OneDeployment' /\ Growing' /\ WithinBudget'
  <2>1. PICK e \in Deployment : e = [d EXCEPT !.replicas = r]
    BY DEF Deployment
  <2>2. d.exists /\ d.uid = 1 /\ WriteDeployment(e) /\ disturbed' = disturbed + 1
    BY <1>1, <1>2, <1>5, <2>1 DEF Scale, Disturb
  <2>3. e.exists /\ e.uid = 1
    BY <2>1, <2>2 DEF Deployment
  <2>4. disturbed' + 1 = disturbed + Stored(deployments).uid + 1
    BY <1>1, <1>3, <2>2
  <2>. QED
    BY <2>2, <2>3, <2>4, WriteDeploymentWithin
<1>6. CASE Touch
  <2>1. disturbed' = disturbed + 1
    BY <1>6 DEF Touch, Disturb
  <2>2. CASE d.exists /\ WriteDeployment(d)
    <3>1. d.uid = 1
      BY <1>2, <2>2
    <3>2. disturbed' + 1 = disturbed + Stored(deployments).uid + 1
      BY <1>1, <1>3, <2>1, <3>1
    <3>. QED
      BY <2>2, <3>1, <3>2, WriteDeploymentWithin
  <2>3. CASE /\ machines' = Append(machines, Stored(machines))
             /\ UNCHANGED <<deployments, template, queued, job>>
    <3>1. PICK set \in SUBSET Machine : /\ set = Stored(machines) /\ IsFiniteSet(set)
                                        /\ Cardinality(set) = Made
      BY StoredTypes DEF OvershootInv, IInv, ObjectsSound, Made
    <3>2. /\ Growing' /\ Len(machines') = Len(machines) + 1
          /\ Stored(machines') = set /\ Cached(machines') = Cached(machines)
      BY <2>3, <3>1, GrowingAppend DEF OvershootInv
    <3>3. Made' = Made /\ Shown' = Shown
      BY <3>1, <3>2 DEF Made, Shown
    <3>4. FreshNames' \subseteq FreshNames
      <4>1. Len(machines') \in DOMAIN machines'
        BY <2>3, <3>1, AppendLemma, VersionsLemma DEF OvershootInv, IInv, TypeOK
      <4>. QED
        BY <3>1, <3>2, <4>1, FreshNamesShrink DEF OvershootInv
    <3>5. Len(deployments) \in Nat /\ Len(machines) \in Nat
      BY StoredTypes DEF OvershootInv
    <3>6. /\ Len(deployments') + Len(machines') = Len(deployments) + Len(machines) + 1
          /\ Len(deployments') \in Nat /\ Len(machines') \in Nat
      BY <2>3, <3>2, <3>5
    <3>7. disturbed' + Stored(deployments').uid = disturbed + Stored(deployments).uid + 1
      <4>1. d.uid \in Nat
        BY <1>2
      <4>. QED
        BY <1>1, <1>3, <2>1, <2>3, <4>1
    <3>8. WithinBudget'
      BY <2>3, <3>2, <3>3, <3>4, <3>6, <3>7, WriteWithin
    <3>9. OneDeployment'
      BY <2>3, <3>1, <3>2 DEF OvershootInv, OneDeployment
    <3>. QED
      BY <3>2, <3>8, <3>9
  <2>. QED
    BY <1>1, <1>6, <2>2, <2>3 DEF Touch
<1>7. ~DeleteDeployment /\ \A m \in Stored(machines) : ~DeleteMachine(m)
  BY DEF DeleteDeployment, DeleteMachine, Disturb, NothingDeleted
<1>8. \A m \in Stored(machines) : ~CollectMachine(m)
  <2>1. \A m \in Stored(machines) : Stored(deployments).exists /\ m.owner = 1
    BY DEF OvershootInv, OneDeployment
  <2>. QED
    BY <1>1, <1>2, <2>1 DEF CollectMachine
<1>. QED
  BY <1>4, <1>5, <1>6, <1>7, <1>8

\* An event of a machine: it shows one machine more, and its wake-up is paid by
\* the batches it no longer starts; or it shows none, and is paid for.
LEMMA WatchMachinesWithin ==
  ASSUME SizesBounded, OvershootInv, WatchMachines
  PROVE  OneDeployment' /\ Growing' /\ WithinBudget'
<1>1. /\ machines' = Tail(machines) /\ Len(machines) > 1 /\ queued'
      /\ UNCHANGED <<deployments, job, disturbed>>
  BY DEF WatchMachines
<1>2. /\ Growing' /\ Len(machines') = Len(machines) - 1
      /\ Stored(machines') = Stored(machines) /\ Shown' - Shown \in {0, 1}
  BY <1>1, GrowingTail DEF OvershootInv, Shown
<1>3. Shown' \in Nat
  <2>1. Cached(machines') = machines[2] /\ 2 \in DOMAIN machines
    BY <1>1, TailExact DEF OvershootInv, IInv, TypeOK
  <2>. QED
    BY <2>1, StoredTypes DEF OvershootInv, Shown
<1>4. OneDeployment'
  BY <1>1, <1>2 DEF OvershootInv, OneDeployment
<1>5. Made' = Made
  BY <1>2 DEF Made
<1>6. FreshNames' \subseteq FreshNames
  <2>1. Len(machines') \in DOMAIN machines'
    BY <1>1, TailLemma, VersionsLemma DEF OvershootInv, IInv, TypeOK
  <2>. QED
    BY <1>2, <2>1, FreshNamesShrink DEF OvershootInv
<1>7. Budget' = Budget
  BY <1>1 DEF Budget
<1>8. /\ MaxSize \in Nat /\ Made \in Nat /\ ToCreate \in Nat /\ Woken \in Nat
      /\ OtherEvents \in Nat /\ Missing \in Nat /\ Shown \in Nat
      /\ Missing <= MaxSize /\ Woken <= Missing /\ ToCreate \in Nat
  BY AccountTypes
<1>9. Woken' = Missing'
  BY <1>1 DEF Woken
<1>10. Len(deployments) \in Nat /\ Len(machines) \in Nat
  BY StoredTypes DEF OvershootInv
<1>11. PICK e \in Nat, q \in Nat : e = MaxSize * OtherEvents /\ q = Missing * (Missing - 1)
  BY <1>8, OtherEventsStep, PairsNat
<1>12. Cost = 2 * (Made + ToCreate + Woken) + 2 * e + q
  BY <1>11 DEF Cost
<1>13. CASE Shown' = Shown
  <2>1. Missing' = Missing /\ ToCreate' = ToCreate
    BY <1>1, <1>13 DEF Missing, ToCreate
  <2>2. OtherEvents' = OtherEvents - 1
    BY <1>1, <1>2, <1>5, <1>8, <1>10, <1>13 DEF OtherEvents
  <2>3. OtherEvents > 0
    <3>1. OtherEvents = (Len(deployments) - 1) + ((Len(machines') - 1) - (Made - Shown')) + 1
      BY <1>2, <1>8, <1>10, <1>13 DEF OtherEvents
    <3>2. Made <= Shown' + (Len(machines') - 1)
      <4>1. 1 \in DOMAIN machines' /\ Cached(machines') = machines'[1]
        BY <1>1, TailLemma, VersionsLemma DEF OvershootInv, IInv, TypeOK
      <4>. QED
        BY <1>2, <4>1 DEF Growing, Made, Shown
    <3>3. Len(deployments) >= 1
      BY StoredTypes DEF OvershootInv
    <3>. QED
      BY <1>2, <1>3, <1>8, <1>10, <3>1, <3>2, <3>3
  <2>4. MaxSize * (OtherEvents - 1) = MaxSize * OtherEvents - MaxSize
    BY <1>8, <2>3, OtherEventsStep
  <2>5. Cost' = 2 * (Made + ToCreate + Missing) + 2 * (e - MaxSize) + q
    BY <1>5, <1>9, <1>11, <2>1, <2>2, <2>4 DEF Cost
  <2>6. Cost' \in Int /\ Cost' <= Cost
    BY <1>8, <1>11, <1>12, <2>5
  <2>. QED
    BY <1>2, <1>4, <1>5, <1>6, <1>7, <2>6, CostTypes, BudgetKept
<1>14. CASE Shown' = Shown + 1
  <2>1. OtherEvents' = OtherEvents
    BY <1>1, <1>2, <1>5, <1>8, <1>10, <1>14 DEF OtherEvents
  <2>2. \/ Missing = 0 /\ Missing' = 0
        \/ Missing > 0 /\ Missing' = Missing - 1
    BY <1>8, <1>14 DEF Missing
  <2>3. ToCreate' \in Nat /\ ToCreate' <= ToCreate
    <3>1. CASE job.pc = "count"
      BY <1>1, <1>8, <2>2, <3>1 DEF ToCreate
    <3>2. CASE job.pc # "count"
      BY <1>1, <1>8, <3>2 DEF ToCreate
    <3>. QED
      BY <3>1, <3>2
  <2>4. PICK p \in Int : p = Missing' * (Missing' - 1) /\ p + 2 * Missing' <= q
    <3>1. CASE Missing = 0
      BY <1>8, <1>11, <2>2, <3>1
    <3>2. CASE Missing > 0
      BY <1>8, <1>11, <2>2, <3>2, PairsStep
    <3>. QED
      BY <2>2, <3>1, <3>2
  <2>5. Cost' = 2 * (Made + ToCreate' + Missing') + 2 * e + p
    BY <1>5, <1>9, <1>11, <2>1, <2>4 DEF Cost
  <2>6. Cost' \in Int /\ Cost' <= Cost
    BY <1>8, <1>11, <1>12, <2>2, <2>3, <2>4, <2>5
  <2>. QED
    BY <1>2, <1>4, <1>5, <1>6, <1>7, <2>6, CostTypes, BudgetKept
<1>15. Shown' = Shown \/ Shown' = Shown + 1
  <2>1. PICK a \in Nat, b \in Nat : a = Shown /\ b = Shown'
    BY <1>3, <1>8
  <2>2. b - a \in {0, 1}
    BY <1>2, <2>1
  <2>3. b = a \/ b = a + 1
    BY <2>2
  <2>. QED
    BY <2>1, <2>3
<1>. QED
  BY <1>13, <1>14, <1>15

LEMMA WatchDeploymentWithin ==
  ASSUME SizesBounded, OvershootInv, WatchDeployment
  PROVE  OneDeployment' /\ Growing' /\ WithinBudget'
<1>1. /\ deployments' = Tail(deployments) /\ Len(deployments) > 1 /\ queued'
      /\ UNCHANGED <<machines, job, disturbed>>
  BY DEF WatchDeployment
<1>2. /\ Len(deployments') = Len(deployments) - 1
      /\ Stored(deployments') = Stored(deployments)
      /\ \A i \in DOMAIN deployments' :
           i + 1 \in DOMAIN deployments /\ deployments'[i] = deployments[i + 1]
  BY <1>1, TailExact, TailLemma DEF OvershootInv, IInv, TypeOK
<1>3. OneDeployment'
  BY <1>1, <1>2 DEF OvershootInv, OneDeployment
<1>4. /\ Growing' /\ FreshNames' = FreshNames /\ Made' = Made /\ Shown' = Shown
      /\ Missing' = Missing
  BY <1>1, SameMachines DEF OvershootInv
<1>5. Budget' = Budget
  BY <1>1, <1>2 DEF Budget
<1>6. /\ MaxSize \in Nat /\ Made \in Nat /\ ToCreate \in Nat /\ Woken \in Nat
      /\ OtherEvents \in Nat /\ Missing \in Nat /\ Shown \in Nat
      /\ Missing <= MaxSize /\ Shown <= Made
  BY AccountTypes
<1>7. ToCreate' = ToCreate /\ Woken' = Missing
  BY <1>1, <1>4 DEF ToCreate, Woken
<1>8. OtherEvents' = OtherEvents - 1 /\ OtherEvents > 0
  <2>1. Len(deployments) \in Nat /\ Len(machines) \in Nat
    BY StoredTypes DEF OvershootInv
  <2>2. Made <= Shown + (Len(machines) - 1)
    BY StoredTypes DEF OvershootInv, Growing, Made, Shown
  <2>3. PICK n \in Nat, k \in Nat, made \in Nat, shown \in Nat :
          n = Len(deployments) /\ k = Len(machines) /\ made = Made /\ shown = Shown
    BY <1>6, <2>1
  <2>4. n > 1 /\ made <= shown + (k - 1)
    BY <1>1, <2>2, <2>3
  <2>5. OtherEvents = (n - 1) + ((k - 1) - (made - shown))
    BY <2>3 DEF OtherEvents
  <2>6. OtherEvents' = ((n - 1) - 1) + ((k - 1) - (made - shown))
    BY <1>1, <1>2, <1>4, <2>3 DEF OtherEvents
  <2>. QED
    BY <2>4, <2>5, <2>6
<1>9. PICK e \in Nat, q \in Nat : e = MaxSize * OtherEvents /\ q = Missing * (Missing - 1)
  BY <1>6, OtherEventsStep, PairsNat
<1>10. MaxSize * (OtherEvents - 1) = e - MaxSize
  BY <1>6, <1>8, <1>9, OtherEventsStep
<1>11. Cost = 2 * (Made + ToCreate + Woken) + 2 * e + q
  BY <1>9 DEF Cost
<1>12. Cost' = 2 * (Made + ToCreate + Missing) + 2 * (e - MaxSize) + q
  BY <1>4, <1>7, <1>8, <1>9, <1>10 DEF Cost
<1>13. Cost' \in Int /\ Cost' <= Cost
  BY <1>6, <1>9, <1>11, <1>12
<1>. QED
  BY <1>3, <1>4, <1>5, <1>13, CostTypes, BudgetKept

LEMMA CrashWithin ==
  ASSUME SizesBounded, OvershootInv, Crash
  PROVE  OneDeployment' /\ Growing' /\ WithinBudget'
<1>1. PICK d \in Deployment, set \in SUBSET Machine :
        /\ d = Stored(deployments) /\ set = Stored(machines)
        /\ IsFiniteSet(set) /\ Cardinality(set) = Made
  BY StoredTypes DEF OvershootInv, IInv, ObjectsSound, Made
<1>2. /\ deployments' = <<d>> /\ machines' = <<set>> /\ job' = Idle
      /\ disturbed' = disturbed + 1
  BY <1>1 DEF Crash, Disturb
<1>3. /\ Growing' /\ Len(machines') = 1
      /\ Stored(machines') = set /\ Cached(machines') = set
  BY <1>1, <1>2, GrowingSingleton
<1>4. /\ DOMAIN deployments' = {1} /\ deployments'[1] = d
      /\ Len(deployments') = 1 /\ Stored(deployments') = d
  <2>1. DOMAIN deployments' = {1} /\ deployments'[1] = d
    BY <1>2, SingletonLemma
  <2>2. Len(deployments') = 1
    BY <1>2
  <2>. QED
    BY <2>1, <2>2 DEF Stored
<1>5. OneDeployment'
  <2>1. d = deployments[Len(deployments)] /\ Len(deployments) \in DOMAIN deployments
    BY <1>1, StoredTypes DEF OvershootInv
  <2>2. d.uid = IF d.exists THEN 1 ELSE 0
    BY <2>1 DEF OvershootInv, OneDeployment
  <2>3. \A m \in set : d.exists /\ m.owner = 1
    BY <1>1 DEF OvershootInv, OneDeployment
  <2>. QED
    BY <1>2, <1>3, <1>4, <2>2, <2>3 DEF OneDeployment
<1>6. Made' = Made /\ Shown' = Made
  BY <1>1, <1>3 DEF Made, Shown
<1>7. FreshNames' \subseteq FreshNames
  <2>1. Len(machines') \in DOMAIN machines'
    BY <1>1, <1>2, <1>3, SingletonLemma
  <2>. QED
    BY <1>1, <1>3, <2>1, FreshNamesShrink DEF OvershootInv
<1>8. /\ MaxSize \in Nat /\ Made \in Nat /\ ToCreate \in Nat /\ Woken \in Nat
      /\ OtherEvents \in Nat /\ Missing \in Nat /\ Shown \in Nat
      /\ Missing <= MaxSize /\ Shown <= Made /\ disturbed \in Nat
      /\ Stored(deployments).uid \in Nat
  BY AccountTypes
<1>9. Missing' \in Nat /\ Missing' <= Missing
  BY <1>6, <1>8 DEF Missing
<1>10. ToCreate' = 0 /\ Woken' \in Nat /\ Woken' <= MaxSize
  BY <1>2, <1>8, <1>9 DEF ToCreate, Woken, Idle
<1>11. OtherEvents' = 0
  BY <1>3, <1>4, <1>6, <1>8 DEF OtherEvents
<1>12. PICK e \in Nat, q \in Nat : e = MaxSize * OtherEvents /\ q = Missing * (Missing - 1)
  BY <1>8, OtherEventsStep, PairsNat
<1>13. PICK p \in Nat : p = Missing' * (Missing' - 1) /\ p <= q
  BY <1>8, <1>9, <1>12, PairsNat, PairsMonotone
<1>14. Cost = 2 * (Made + ToCreate + Woken) + 2 * e + q
  BY <1>12 DEF Cost
<1>15. Cost' = 2 * (Made + Woken') + p
  <2>1. MaxSize * 0 = 0 /\ Made + 0 + Woken' = Made + Woken'
    BY <1>8, <1>10
  <2>2. Cost' = 2 * (Made + 0 + Woken') + 2 * (MaxSize * 0) + p
    BY <1>6, <1>10, <1>11, <1>13 DEF Cost
  <2>. QED
    BY <1>8, <1>10, <2>1, <2>2
<1>16. Cost' \in Int /\ Cost' <= Cost + 2 * MaxSize
  BY <1>8, <1>10, <1>12, <1>13, <1>14, <1>15
<1>17. Budget' \in Int /\ Budget' = Budget + 2 * MaxSize
  <2>1. disturbed' + Stored(deployments').uid = disturbed + Stored(deployments).uid + 1
    BY <1>1, <1>2, <1>4, <1>8
  <2>. QED
    BY <2>1, BudgetRaised
<1>18. Budget <= Budget' /\ Cost' - Cost <= Budget' - Budget
  <2>1. PICK c \in Int, b \in Int, c2 \in Int, b2 \in Int, k \in Nat :
          c = Cost /\ b = Budget /\ c2 = Cost' /\ b2 = Budget' /\ k = 2 * MaxSize
    BY <1>8, <1>16, <1>17, CostTypes
  <2>2. c2 <= c + k
    BY <1>16, <2>1
  <2>3. b2 = b + k
    BY <1>17, <2>1
  <2>4. b <= b2 /\ c2 - c <= b2 - b
    BY <2>2, <2>3
  <2>. QED
    BY <2>1, <2>4
<1>. QED
  BY <1>3, <1>5, <1>6, <1>7, <1>16, <1>17, <1>18, CostTypes, BudgetKept

-----------------------------------------------------------------------------
(* The theorem *)

LEMMA InitWithin ==
  ASSUME SizesBounded, Init
  PROVE  OvershootInv
<1>1. /\ deployments = <<NoDeployment>> /\ machines = <<{}>> /\ ~queued
      /\ job = Idle /\ disturbed = 0
  BY DEF Init
<1>2. IInv
  BY InitSound
<1>3. /\ Stored(deployments) = NoDeployment /\ Cached(machines) = {}
      /\ Stored(machines) = {} /\ DOMAIN deployments = {1} /\ DOMAIN machines = {1}
      /\ deployments[1] = NoDeployment /\ machines[1] = {}
      /\ Len(deployments) = 1 /\ Len(machines) = 1
  <2>1. /\ DOMAIN <<NoDeployment>> = {1} /\ <<NoDeployment>>[1] = NoDeployment
        /\ Len(<<NoDeployment>>) = 1
    OBVIOUS
  <2>2. DOMAIN <<{}>> = {1} /\ <<{}>>[1] = {} /\ Len(<<{}>>) = 1 /\ Head(<<{}>>) = {}
    OBVIOUS
  <2>. QED
    BY <1>1, <2>1, <2>2 DEF Stored, Cached
<1>4. OneDeployment
  BY <1>1, <1>3 DEF OneDeployment, NoDeployment
<1>5. Cardinality({}) = 0
  BY FS_EmptySet
<1>6. Growing
  BY <1>3, <1>5 DEF Growing
<1>7. Made = 0 /\ Shown = 0
  BY <1>3, <1>5 DEF Made, Shown
<1>8. MaxSize \in Nat
  BY MaxSizeLemma
<1>9. Missing = MaxSize
  BY <1>7, <1>8 DEF Missing
<1>10. ToCreate = 0 /\ Woken = 0
  BY <1>1 DEF ToCreate, Woken, Idle
<1>11. OtherEvents = 0
  BY <1>3, <1>7 DEF OtherEvents
<1>12. PICK q \in Nat : q = MaxSize * (MaxSize - 1)
  BY <1>8, PairsNat
<1>13. MaxSize * 0 = 0
  BY <1>8
<1>14. Cost = q
  <2>1. Cost = 2 * (0 + 0 + 0) + 2 * (MaxSize * 0) + q
    BY <1>7, <1>9, <1>10, <1>11, <1>12 DEF Cost
  <2>. QED
    BY <1>12, <1>13, <2>1
<1>15. Budget = q
  <2>1. disturbed + Stored(deployments).uid = 0
    BY <1>1, <1>3 DEF NoDeployment
  <2>2. Budget = q + 2 * (MaxSize * 0)
    BY <1>12, <2>1 DEF Budget
  <2>. QED
    BY <1>12, <1>13, <2>2
<1>16. WithinBudget
  BY <1>7, <1>12, <1>14, <1>15 DEF WithinBudget
<1>. QED
  BY <1>2, <1>4, <1>6, <1>16 DEF OvershootInv

LEMMA NextWithin ==
  ASSUME SizesBounded, NothingDeleted, OvershootInv, [Next]_vars
  PROVE  OvershootInv'
<1>1. IInv'
  BY NextSound DEF OvershootInv
<1>2. CASE UNCHANGED vars
  BY <1>1, <1>2
  DEF vars, OvershootInv, OneDeployment, Growing, WithinBudget, Made, Cost, Budget,
      FreshNames, ToCreate, Woken, Missing, Shown, OtherEvents
<1>3. CASE CreateTemplate
  BY <1>1, <1>3
  DEF CreateTemplate, OvershootInv, OneDeployment, Growing, WithinBudget, Made, Cost,
      Budget, FreshNames, ToCreate, Woken, Missing, Shown, OtherEvents
<1>. QED
  BY <1>1, <1>2, <1>3, ReconcileWithin, CountChildrenWithin, CreateMachineWithin,
     CreateFailsWithin, UserWithin, WatchMachinesWithin, WatchDeploymentWithin,
     CrashWithin
  DEF Next, OvershootInv

\* No more is spent on the deployment than the budget allows: the machines that
\* exist, those that a running reconcile, a queued key or an event will add, and
\* the batches that the machines not yet shown will start.
THEOREM WithinBudgetAlways ==
  ASSUME SizesBounded, NothingDeleted
  PROVE  Spec => []OvershootInv
<1>1. Init => OvershootInv
  BY InitWithin
<1>2. OvershootInv /\ [Next]_vars => OvershootInv'
  BY NextWithin
<1>. QED
  BY <1>1, <1>2, PTL DEF Spec

\* The overshoot is bounded, for all numbers of replicas: where nothing is
\* deleted a deployment of at most r replicas never has more machines than
\* r + (r-1) + ... + 1, and r more for every failed create, touch, scaling or
\* crash.
THEOREM OvershootIsBounded ==
  ASSUME SizesBounded, NothingDeleted
  PROVE  Spec => []OvershootBounded
<1>1. OvershootInv => OvershootBounded
  <2>. SUFFICES ASSUME OvershootInv PROVE OvershootBounded
    OBVIOUS
  <2>1. /\ MaxSize \in Nat /\ Made \in Nat /\ disturbed \in Nat
        /\ Stored(deployments).uid \in {0, 1}
    <3>1. /\ Stored(deployments) = deployments[Len(deployments)]
          /\ Len(deployments) \in DOMAIN deployments
      BY StoredTypes DEF OvershootInv
    <3>2. Stored(deployments).uid \in {0, 1}
      BY <3>1 DEF OvershootInv, OneDeployment
    <3>. QED
      BY <3>2, AccountTypes
  <2>2. 2 * Made <= MaxSize * (MaxSize - 1)
                      + 2 * (MaxSize * (disturbed + Stored(deployments).uid))
    BY DEF OvershootInv, WithinBudget, Budget
  <2>3. 2 * Made <= MaxSize * (MaxSize - 1) + 2 * (MaxSize * (disturbed + 1))
    <3>1. CASE Stored(deployments).uid = 1
      BY <2>2, <3>1
    <3>2. CASE Stored(deployments).uid = 0
      <4>1. PICK a \in Int, e \in Nat : /\ a = MaxSize * (MaxSize - 1)
                                        /\ e = MaxSize * disturbed
        BY <2>1
      <4>2. MaxSize * (disturbed + 1) = e + MaxSize
        BY <2>1, <4>1
      <4>3. 2 * Made <= a + 2 * e
        <5>1. disturbed + Stored(deployments).uid = disturbed
          BY <2>1, <3>2
        <5>. QED
          BY <2>2, <4>1, <5>1
      <4>4. 2 * Made <= a + 2 * (e + MaxSize)
        BY <2>1, <4>1, <4>3
      <4>. QED
        BY <4>1, <4>2, <4>4
    <3>. QED
      BY <2>1, <3>1, <3>2
  <2>4. MaxSize * (MaxSize - 1) + 2 * (MaxSize * (disturbed + 1))
          = MaxSize * (MaxSize + 1 + 2 * disturbed)
    BY <2>1
  <2>. QED
    BY <2>3, <2>4 DEF OvershootBounded, Made
<1>. QED
  BY <1>1, WithinBudgetAlways, PTL
===============================================================================
