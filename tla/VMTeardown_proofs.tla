-------------------------- MODULE VMTeardown_proofs --------------------------
(***************************************************************************)
(* Proofs about VMTeardown, for every set of servers and public IPs and    *)
(* every bound on the disturbances.                                        *)
(*                                                                         *)
(* The two safety properties relate what the teardown has deleted to what  *)
(* it recorded at the start; InProgress says how far it has come at each   *)
(* of its steps.                                                           *)
(***************************************************************************)
EXTENDS VMTeardown, TLAPS

\* The policy p is deleted, or its delete has failed.
Tried(p) == p \notin policies \/ <<"policy", p>> \in failed

InProgress ==
  /\ ~fw.exists => fw.jobs = {}
  /\ job.pc \in {"getFirewall", "deletePolicies", "deleteObject", "deleteNat"}
       => status.ip # NoIP
  /\ job.pc = "deletePolicies" => \A p \in fw.jobs \ job.todo : Tried(p)
  /\ job.pc = "deleteObject" => \A p \in fw.jobs : Tried(p)
  /\ job.pc = "deleteNat" => ~fw.exists
  /\ job.pc = "deleteServer" /\ status.ip # NoIP
       => /\ ~fw.exists
          /\ nat[status.ip] = NoVM \/ <<"nat", status.ip>> \in failed

TInv == TypeOK /\ PoliciesStayOnRecord /\ InProgress

LEMMA InitTInv == Init => TInv
<1>. SUFFICES ASSUME Init PROVE TInv
  OBVIOUS
<1>1. vms \in [VMs -> [owner : {Machine, NoMachine}, state : VMStates,
                       serving : BOOLEAN, joins : VMs \cup {NoVM}]]
  BY DEF Init, NoServer, VMStates
<1>2. nat \in [PublicIPs -> VMs \cup {NoVM}]
  BY DEF Init, Status
<1>3. TypeOK
  BY <1>1, <1>2, ConstantsAssumption DEF Init, TypeOK, Firewall, Idle, Job
<1>. QED
  BY <1>3 DEF Init, TInv, PoliciesStayOnRecord, InProgress, Idle

LEMMA DisturbType ==
  ASSUME TypeOK, NEW kind, Disturb(kind) \/ Calm
  PROVE  disturbed' \in 0..MaxDisturbances
BY ConstantsAssumption DEF Disturb, Calm, TypeOK

\* A step that only moves the teardown on.
LEMMA Moves ==
  ASSUME TInv, job' \in Job, UNCHANGED <<cloudVars, status, fw, failed, owed>>,
         disturbed' \in 0..MaxDisturbances,
         job'.todo # {} => job'.pc = "deletePolicies",
         InProgress'
  PROVE  TInv'
BY DEF TInv, TypeOK, PoliciesStayOnRecord, cloudVars

LEMMA FailMoves ==
  ASSUME TInv, Fail \/ Succeed, UNCHANGED <<cloudVars, status, fw, failed, owed>>,
         disturbed' \in 0..MaxDisturbances
  PROVE  TInv'
<1>1. /\ job' \in Job /\ job'.todo = {} /\ job'.pc \in {"idle", "done"}
  BY DEF Fail, Succeed, Idle, Done, Job
<1>2. InProgress'
  BY <1>1 DEF InProgress, TInv
<1>. QED
  BY <1>1, <1>2, Moves

\* A Goto from a step at which no policy is left to delete.
LEMMA GotoType ==
  ASSUME TInv, NEW pc \in Steps, Goto(pc)
  PROVE  job' \in Job /\ job'.pc = pc /\ job'.todo = job.todo
BY DEF TInv, TypeOK, Job, Goto

LEMMA ReadsSound ==
  ASSUME TInv, DeleteVM \/ GetCreatedVM \/ GetFirewallObject \/ TeardownFails \/ Crash
  PROVE  TInv'
<1>1. /\ UNCHANGED <<cloudVars, status, fw, failed, owed>>
      /\ disturbed' \in 0..MaxDisturbances
  BY DisturbType
  DEF DeleteVM, GetCreatedVM, GetFirewallObject, TeardownFails, Crash, TInv, TypeOK
<1>2. CASE Fail \/ Succeed
  BY <1>1, <1>2, FailMoves
<1>3. CASE job.todo = {} /\ Goto("getVM")
  <2>1. job' \in Job /\ job'.pc = "getVM" /\ job'.todo = {}
    BY <1>3, GotoType DEF Steps
  <2>. QED
    BY <1>1, <2>1, Moves DEF TInv, InProgress
<1>4. CASE /\ job.todo = {}
           /\ Goto(IF status.ip = NoIP THEN "deleteServer" ELSE "getFirewall")
  <2>1. /\ job' \in Job /\ job'.todo = {}
        /\ job'.pc = IF status.ip = NoIP THEN "deleteServer" ELSE "getFirewall"
    BY <1>4, GotoType DEF Steps
  <2>2. InProgress'
    BY <1>1, <2>1 DEF TInv, InProgress
  <2>. QED
    BY <1>1, <2>1, <2>2, Moves
<1>5. CASE /\ job.pc = "getFirewall"
           /\ job' = [pc |-> "deletePolicies", todo |-> fw.jobs]
  <2>1. /\ job' \in Job /\ job'.todo = fw.jobs /\ job'.pc = "deletePolicies"
    BY <1>5 DEF TInv, TypeOK, Firewall, Job, Steps
  <2>2. InProgress'
    BY <1>1, <1>5, <2>1 DEF TInv, InProgress
  <2>. QED
    BY <1>1, <2>1, <2>2, Moves
<1>6. job.pc = "getVM" => job.todo = {}
  BY DEF TInv, TypeOK
<1>. QED
  BY <1>2, <1>3, <1>4, <1>5, <1>6
  DEF DeleteVM, GetCreatedVM, GetFirewallObject, TeardownFails, Crash, Idle

LEMMA DeleteFirewallOnCloudSound ==
  ASSUME TInv, DeleteFirewallOnCloud
  PROVE  TInv'
<1>1. job.pc = "deletePolicies" /\ UNCHANGED <<vms, nat, status, fw, owed>>
  BY DEF DeleteFirewallOnCloud
<1>2. CASE job.todo = {} /\ Goto("deleteObject") /\ Calm /\ UNCHANGED <<policies, failed>>
  <2>1. job' \in Job /\ job'.pc = "deleteObject" /\ job'.todo = {}
    BY <1>2, GotoType DEF Steps
  <2>2. InProgress'
    BY <1>1, <1>2, <2>1 DEF TInv, InProgress, Tried
  <2>3. disturbed' \in 0..MaxDisturbances
    BY <1>2, DisturbType DEF TInv
  <2>. QED
    BY <1>1, <1>2, <2>1, <2>2, <2>3, Moves DEF cloudVars
<1>3. ASSUME NEW p \in job.todo,
             job' = [job EXCEPT !.todo = @ \ {p}],
             Call(DeletePolicy(p), UNCHANGED policies,
                  UNCHANGED failed, failed' = failed \cup {<<"policy", p>>})
      PROVE  TInv'
  <2>1. /\ p \in PublicIPs
        /\ job' \in Job /\ job'.pc = "deletePolicies" /\ job'.todo = job.todo \ {p}
    BY <1>1, <1>3 DEF TInv, TypeOK, Job
  <2>2. /\ disturbed' \in 0..MaxDisturbances
        /\ policies' \subseteq policies
        /\ failed \subseteq failed'
        /\ failed' \subseteq failed \cup {<<"policy", p>>}
        /\ p \notin policies' \/ <<"policy", p>> \in failed'
    BY <1>3, DisturbType DEF Call, DeletePolicy, TInv
  <2>3. TypeOK'
    BY <1>1, <2>1, <2>2 DEF TInv, TypeOK
  <2>4. PoliciesStayOnRecord'
    BY <1>1, <2>2 DEF TInv, PoliciesStayOnRecord
  <2>5. InProgress'
    BY <1>1, <2>1, <2>2 DEF TInv, InProgress, Tried
  <2>. QED
    BY <2>3, <2>4, <2>5 DEF TInv
<1>. QED
  BY <1>2, <1>3 DEF DeleteFirewallOnCloud

LEMMA DeleteFirewallObjectSound ==
  ASSUME TInv, DeleteFirewallObject
  PROVE  TInv'
<1>1. /\ job.pc = "deleteObject" /\ job.todo = {}
      /\ UNCHANGED <<cloudVars, status, failed, owed>>
  BY DEF DeleteFirewallObject, TInv, TypeOK
<1>2. disturbed' \in 0..MaxDisturbances
  BY DisturbType DEF DeleteFirewallObject, Call, TInv
<1>3. fw' = fw \/ fw' = [exists |-> FALSE, jobs |-> {}]
  BY DEF DeleteFirewallObject, Call
<1>4. /\ job' \in Job /\ job'.todo = {}
      /\ job'.pc = "idle" \/ (job'.pc = "deleteNat" /\ ~fw'.exists)
  <2>1. CASE Fail
    BY <2>1 DEF Fail, Idle, Job
  <2>2. CASE Goto("deleteNat") /\ fw' = [exists |-> FALSE, jobs |-> {}]
    BY <1>1, <2>2, GotoType DEF Steps
  <2>. QED
    BY <2>1, <2>2 DEF DeleteFirewallObject, Call
<1>5. TypeOK'
  <2>1. fw' \in Firewall
    <3>1. fw \in Firewall
      BY DEF TInv, TypeOK
    <3>2. [exists |-> FALSE, jobs |-> {}] \in Firewall
      BY DEF Firewall
    <3>. QED
      BY <1>3, <3>1, <3>2
  <2>. QED
    BY <1>1, <1>2, <1>4, <2>1 DEF TInv, TypeOK, cloudVars
<1>6. PoliciesStayOnRecord'
  <2>1. \A p \in fw.jobs : p \notin policies \/ <<"policy", p>> \in failed
    BY <1>1 DEF TInv, InProgress, Tried
  <2>2. \A p \in owed \cap policies : <<"policy", p>> \in failed
    BY <2>1, Zenon DEF TInv, PoliciesStayOnRecord
  <2>3. UNCHANGED <<policies, failed, owed>>
    BY <1>1 DEF cloudVars
  <2>. QED
    BY <2>2, <2>3, Zenon DEF PoliciesStayOnRecord
<1>7. InProgress'
  BY <1>1, <1>3, <1>4 DEF TInv, InProgress, cloudVars
<1>. QED
  BY <1>5, <1>6, <1>7 DEF TInv

LEMMA DeleteStaticNatOnCloudSound ==
  ASSUME TInv, DeleteStaticNatOnCloud
  PROVE  TInv'
<1>1. /\ job.pc = "deleteNat" /\ job.todo = {} /\ status.ip # NoIP /\ ~fw.exists
      /\ UNCHANGED <<vms, policies, status, fw, owed>>
  BY DEF DeleteStaticNatOnCloud, TInv, TypeOK, InProgress
<1>2. status.ip \in PublicIPs
  BY <1>1 DEF TInv, TypeOK, Status
<1>3. /\ disturbed' \in 0..MaxDisturbances
      /\ nat' = nat \/ nat' = [nat EXCEPT ![status.ip] = NoVM]
      /\ failed' = failed \/ failed' = failed \cup {<<"nat", status.ip>>}
      /\ \/ nat' = [nat EXCEPT ![status.ip] = NoVM]
         \/ <<"nat", status.ip>> \in failed'
  BY DisturbType DEF DeleteStaticNatOnCloud, DeleteStaticNat, Call, TInv
<1>4. nat' \in [PublicIPs -> VMs \cup {NoVM}]
  BY <1>2, <1>3 DEF TInv, TypeOK
<1>5. nat'[status.ip] = NoVM \/ <<"nat", status.ip>> \in failed'
  BY <1>2, <1>3 DEF TInv, TypeOK
<1>6. job' \in Job /\ job'.pc = "deleteServer" /\ job'.todo = {}
  BY <1>1, GotoType DEF DeleteStaticNatOnCloud, Steps
<1>7. TypeOK'
  BY <1>1, <1>2, <1>3, <1>4, <1>6 DEF TInv, TypeOK
<1>8. PoliciesStayOnRecord'
  BY <1>1, <1>3 DEF TInv, PoliciesStayOnRecord
<1>9. InProgress'
  BY <1>1, <1>5, <1>6 DEF TInv, InProgress
<1>. QED
  BY <1>7, <1>8, <1>9 DEF TInv

\* The server goes: by the teardown's last call, or by hand.
LEMMA ServerGoes ==
  ASSUME TInv, DeleteServerAction \/ DeletedByHand
  PROVE  TInv'
<1>1. UNCHANGED <<nat, policies, status, fw, failed, owed>>
  BY DEF DeleteServerAction, DeletedByHand
<1>2. disturbed' \in 0..MaxDisturbances
  BY DisturbType DEF DeleteServerAction, DeletedByHand, Call, TInv
<1>3. vms' = vms \/ vms' = [vms EXCEPT ![status.id] = NoServer]
  BY DEF DeleteServerAction, DeletedByHand, Call, DeleteServer
<1>4. vms' \in [VMs -> [owner : {Machine, NoMachine}, state : VMStates,
                        serving : BOOLEAN, joins : VMs \cup {NoVM}]]
  <2>1. NoServer \in [owner : {Machine, NoMachine}, state : VMStates,
                      serving : BOOLEAN, joins : VMs \cup {NoVM}]
    BY DEF NoServer, VMStates
  <2>. QED
    BY <1>3, <2>1 DEF TInv, TypeOK
<1>5. job' = job \/ job' = Idle \/ job' = Done
  BY DEF DeleteServerAction, DeletedByHand, Call, Fail, Succeed
<1>6. TypeOK' /\ InProgress'
  <2>1. CASE job' = job
    <3>1. TypeOK'
      BY <1>1, <1>2, <1>4, <2>1 DEF TInv, TypeOK
    <3>2. InProgress'
      BY <1>1, <2>1, Zenon DEF TInv, InProgress, Tried
    <3>. QED
      BY <3>1, <3>2
  <2>2. CASE job' = Idle \/ job' = Done
    <3>1. job' \in Job /\ job'.todo = {} /\ job'.pc \in {"idle", "done"}
      BY <2>2 DEF Idle, Done, Job
    <3>2. TypeOK'
      BY <1>1, <1>2, <1>4, <3>1 DEF TInv, TypeOK
    <3>. QED
      BY <1>1, <3>1, <3>2 DEF TInv, InProgress
  <2>. QED
    BY <1>5, <2>1, <2>2
<1>7. PoliciesStayOnRecord'
  BY <1>1 DEF TInv, PoliciesStayOnRecord
<1>. QED
  BY <1>6, <1>7 DEF TInv

LEMMA NextTInv == TInv /\ [Next]_vars => TInv'
<1>. SUFFICES ASSUME TInv, [Next]_vars PROVE TInv'
  OBVIOUS
<1>1. CASE UNCHANGED vars
  BY <1>1 DEF vars, TInv, TypeOK, PoliciesStayOnRecord, InProgress, Tried
<1>. QED
  BY <1>1, ReadsSound, DeleteFirewallOnCloudSound, DeleteFirewallObjectSound,
     DeleteStaticNatOnCloudSound, ServerGoes
  DEF Next, JobStep

\* TInv holds in every behaviour of the teardown.
THEOREM Invariance == Spec => []TInv
BY InitTInv, NextTInv, PTL DEF Spec

\* Every variable keeps its type, and a teardown has policies left to delete at
\* no step but one: DeleteFirewallSettings leaves its loop with none left.
THEOREM TypeCorrect == Spec => []TypeOK
BY Invariance, PTL DEF TInv

\* DeleteFirewallSettings never loses the ID of a policy whose delete it has
\* not tried, wherever it is broken off and however often it is begun again.
THEOREM PoliciesRecorded == Spec => []PoliciesStayOnRecord
BY Invariance, PTL DEF TInv

\* DeleteVM comes to its last call only after it has tried to delete all that
\* the status and the firewall object recorded.
THEOREM ServerLast == Spec => ServerGoesLast
<1>1. TInv /\ [Next]_vars
        => [\A v \in VMs :
              /\ vms[v] # NoServer
              /\ status.ip # NoIP
              /\ job.pc = "deleteServer"
              => \/ vms'[v] = vms[v]
                 \/ /\ ~fw.exists
                    /\ nat[status.ip] = NoVM \/ <<"nat", status.ip>> \in failed
                    /\ \A p \in owed \cap policies : <<"policy", p>> \in failed]_vars
  BY DEF TInv, InProgress, PoliciesStayOnRecord
<1>. QED
  BY <1>1, Invariance, PTL DEF Spec, ServerGoesLast
=============================================================================
