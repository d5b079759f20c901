------------------------------ MODULE VMTeardown ------------------------------
(***************************************************************************)
(* The teardown of one machine: httpapi.DeleteVM and what it calls, in the *)
(* order in which they are called, as deleteExternalResources runs it      *)
(* (cmd/httpapi/common.go, internal/controller/ktmachine_controller.go).   *)
(*                                                                         *)
(* The caller is the finalizer of KTMachine.  It is commented out, so that *)
(* deployed managers tear nothing down; as it is written, it calls again   *)
(* after an error and removes the KTMachine after a success.               *)
(***************************************************************************)
EXTENDS Naturals, KTCloud

CONSTANTS
  Machine,          \* the KTMachine that is torn down
  NoIP,             \* no public IP
  Disturbances,     \* the kinds of disturbance that may happen
  MaxDisturbances   \* a bound on how many happen in one behaviour

ASSUME ConstantsAssumption ==
  /\ Machine # NoMachine
  /\ NoVM \notin VMs
  /\ NoIP \notin PublicIPs
  /\ Disturbances \subseteq {"callFails", "lostReply", "crash", "deletedByHand"}
  /\ MaxDisturbances \in Nat

VARIABLES
  status,      \* the ID and the public IP in the status of the KTMachine
  fw,          \* its KTNetworkFirewall: [exists, jobs], jobs by their policy
  job,         \* the teardown: its next call, and the policies yet to delete
  failed,      \* the calls on policies and NAT entries that failed
  owed,        \* the policies that FirewallJobs named when it all began
  disturbed    \* how many disturbances have happened

vars == <<vms, nat, policies, status, fw, job, failed, owed, disturbed>>

-----------------------------------------------------------------------------
(* The data *)

Status == [id : VMs \cup {NoVM}, ip : PublicIPs \cup {NoIP}]

Firewall == [exists : BOOLEAN, jobs : SUBSET PublicIPs]

Steps == {"getVM", "getFirewall", "deletePolicies", "deleteObject",
          "deleteNat", "deleteServer"}

Job == [pc : Steps \cup {"idle", "done"}, todo : SUBSET PublicIPs]

Idle == [pc |-> "idle", todo |-> {}]

Done == [pc |-> "done", todo |-> {}]

HasServer == status.id # NoVM /\ vms[status.id] # NoServer

\* A machine as the KTMachine controller may leave it: an IP that is recorded
\* leads to its server, which may hold other IPs (spent by a lost reply, or
\* from before its status was replaced); policies may be unrecorded too.
Init ==
  /\ status \in Status
  /\ status.ip # NoIP => status.id # NoVM
  /\ vms = [v \in VMs |->
              IF v = status.id
              THEN [NoServer EXCEPT !.owner = Machine, !.state = "ACTIVE"]
              ELSE NoServer]
  /\ nat \in [PublicIPs -> {NoVM, status.id}]
  /\ status.ip # NoIP => nat[status.ip] = status.id
  /\ policies \in SUBSET {p \in PublicIPs : nat[p] # NoVM}
  /\ fw \in [exists : BOOLEAN, jobs : SUBSET policies]
  /\ fw.jobs # {} => fw.exists
  /\ fw.exists => status.id # NoVM
  /\ job = Idle
  /\ failed = {}
  /\ owed = fw.jobs
  /\ disturbed = 0

-----------------------------------------------------------------------------
(* The steps of a teardown *)

\* A disturbance of an enabled kind, within the bound; or none.
Disturb(kind) ==
  /\ kind \in Disturbances
  /\ disturbed < MaxDisturbances
  /\ disturbed' = disturbed + 1

Calm == UNCHANGED disturbed

\* DeleteVM returns an error; its caller will call it again.
Fail == job' = Idle

\* DeleteVM returns nil.
Succeed == job' = Done

Goto(pc) == job' = [job EXCEPT !.pc = pc]

\* A call that deletes something: it succeeds; it has an effect but its reply
\* is lost; or it has none.
Call(effect, noEffect, onSuccess, onError) ==
  \/ effect /\ Calm /\ onSuccess
  \/ effect /\ Disturb("lostReply") /\ onError
  \/ noEffect /\ Disturb("callFails") /\ onError

DeleteVM ==
  /\ job = Idle
  /\ Goto("getVM")
  /\ UNCHANGED <<cloudVars, status, fw, failed, owed, disturbed>>

\* Variant of GetCreatedVM: 404 is an error like the others.
GetCreatedVMNotFoundFails ==
  /\ job.pc = "getVM"
  /\ IF status.id # NoVM /\ ~HasServer THEN Fail
     ELSE Goto(IF status.ip = NoIP THEN "deleteServer" ELSE "getFirewall")
  /\ UNCHANGED <<cloudVars, status, fw, failed, owed, disturbed>>

\* GetCreatedVM, whose 404 means that there is nothing left to do (whatever is
\* left of the rest); and DeleteVMDependentResources, which does nothing when
\* no public IP is recorded.  Without an ID the URL is that of the list.
GetCreatedVM ==
  /\ job.pc = "getVM"
  /\ IF status.id # NoVM /\ ~HasServer THEN Succeed
     ELSE Goto(IF status.ip = NoIP THEN "deleteServer" ELSE "getFirewall")
  /\ UNCHANGED <<cloudVars, status, fw, failed, owed, disturbed>>

\* Variant of GetFirewallObject: the object is deleted before its policies.
GetAndDeleteFirewallObject ==
  /\ job.pc = "getFirewall"
  /\ IF fw.exists
     THEN /\ job' = [pc |-> "deletePolicies", todo |-> fw.jobs]
          /\ fw' = [exists |-> FALSE, jobs |-> {}]
     ELSE Fail /\ UNCHANGED fw
  /\ UNCHANGED <<cloudVars, status, failed, owed, disturbed>>

\* DeleteFirewallSettings reads the object; one that is not there is an error.
GetFirewallObject ==
  /\ job.pc = "getFirewall"
  /\ IF fw.exists THEN job' = [pc |-> "deletePolicies", todo |-> fw.jobs] ELSE Fail
  /\ UNCHANGED <<cloudVars, status, fw, failed, owed, disturbed>>

\* Variant of DeleteFirewallOnCloud: the loop is left at the first error.
DeleteFirewallOnCloudBreaks ==
  /\ job.pc = "deletePolicies"
  /\ \/ \E p \in job.todo :
          Call(DeletePolicy(p), UNCHANGED policies,
               job' = [job EXCEPT !.todo = @ \ {p}] /\ UNCHANGED failed,
               Goto("deleteObject") /\ failed' = failed \cup {<<"policy", p>>})
     \/ /\ job.todo = {}
        /\ Goto("deleteObject")
        /\ Calm
        /\ UNCHANGED <<policies, failed>>
  /\ UNCHANGED <<vms, nat, status, fw, owed>>

\* DeleteFirewallOnCloud of each policy; errors are only logged, that of a
\* policy which is gone already with the others.
DeleteFirewallOnCloud ==
  /\ job.pc = "deletePolicies"
  /\ \/ \E p \in job.todo :
          /\ job' = [job EXCEPT !.todo = @ \ {p}]
          /\ Call(DeletePolicy(p), UNCHANGED policies,
                  UNCHANGED failed, failed' = failed \cup {<<"policy", p>>})
     \/ /\ job.todo = {}
        /\ Goto("deleteObject")
        /\ Calm
        /\ UNCHANGED <<policies, failed>>
  /\ UNCHANGED <<vms, nat, status, fw, owed>>

\* The object goes, with the only record of the policies' IDs.
DeleteFirewallObject ==
  /\ job.pc = "deleteObject"
  /\ Call(fw' = [exists |-> FALSE, jobs |-> {}], UNCHANGED fw,
          Goto("deleteNat"), Fail)
  /\ UNCHANGED <<cloudVars, status, failed, owed>>

\* The NAT entry of the recorded IP; an error is only logged.
DeleteStaticNatOnCloud ==
  /\ job.pc = "deleteNat"
  /\ Goto("deleteServer")
  /\ Call(DeleteStaticNat(status.ip), UNCHANGED nat,
          UNCHANGED failed, failed' = failed \cup {<<"nat", status.ip>>})
  /\ UNCHANGED <<vms, policies, status, fw, owed>>

\* The POST of the delete action.  Without an ID, or when the server is gone
\* by now, there is nothing at its URL: an error.
DeleteServerAction ==
  /\ job.pc = "deleteServer"
  /\ IF HasServer
     THEN Call(DeleteServer(status.id), UNCHANGED vms, Succeed, Fail)
     ELSE Fail /\ Calm /\ UNCHANGED vms
  /\ UNCHANGED <<nat, policies, status, fw, failed, owed>>

\* Variant of TeardownFails: an error before the server's action is ignored.
TeardownFailsLate ==
  /\ job.pc \in {"getVM", "getFirewall"}
  /\ Disturb("callFails")
  /\ Goto("deleteServer")
  /\ UNCHANGED <<cloudVars, status, fw, failed, owed>>

\* One of the two reads fails.
TeardownFails ==
  /\ job.pc \in {"getVM", "getFirewall"}
  /\ Disturb("callFails")
  /\ Fail
  /\ UNCHANGED <<cloudVars, status, fw, failed, owed>>

JobStep ==
  \/ DeleteVM \/ GetCreatedVM \/ GetFirewallObject
  \/ DeleteFirewallOnCloud \/ DeleteFirewallObject
  \/ DeleteStaticNatOnCloud \/ DeleteServerAction

\* The manager is restarted in the middle of a teardown.
Crash ==
  /\ job \notin {Idle, Done}
  /\ Disturb("crash")
  /\ Fail
  /\ UNCHANGED <<cloudVars, status, fw, failed, owed>>

\* The user deletes the server in the console of the cloud.
DeletedByHand ==
  /\ HasServer
  /\ job # Done
  /\ Disturb("deletedByHand")
  /\ DeleteServer(status.id)
  /\ UNCHANGED <<nat, policies, status, fw, job, failed, owed>>

Next == JobStep \/ TeardownFails \/ Crash \/ DeletedByHand

Spec == Init /\ [][Next]_vars

\* Every call has a timeout, and the caller calls again after an error.
FairSpec == Spec /\ WF_vars(JobStep)

-----------------------------------------------------------------------------
(* Properties *)

TypeOK ==
  /\ vms \in [VMs -> [owner : {Machine, NoMachine}, state : VMStates,
                      serving : BOOLEAN, joins : VMs \cup {NoVM}]]
  /\ nat \in [PublicIPs -> VMs \cup {NoVM}]
  /\ policies \subseteq PublicIPs
  /\ status \in Status
  /\ fw \in Firewall
  /\ job \in Job
  /\ job.todo # {} => job.pc = "deletePolicies"
  /\ failed \subseteq ({"policy", "nat"} \X PublicIPs)
  /\ owed \subseteq PublicIPs
  /\ disturbed \in 0..MaxDisturbances

\* FirewallJobs is the only record of the policies' IDs: as long as a policy is
\* there that it named, and whose delete did not fail, the object is there too
\* and names it, so that a teardown that was broken off can be taken up again.
PoliciesStayOnRecord ==
  \A p \in owed \cap policies : p \in fw.jobs \/ <<"policy", p>> \in failed

\* DeleteVM deletes a server with a recorded IP only when it has tried all that
\* depends on it: the firewall object is gone, and so are the NAT entry of the
\* IP and the policies of the object, but for those whose delete failed.
ServerGoesLast ==
  [][\A v \in VMs :
       /\ vms[v] # NoServer
       /\ status.ip # NoIP
       /\ job.pc = "deleteServer"
       => \/ vms'[v] = vms[v]
          \/ /\ ~fw.exists
             /\ nat[status.ip] = NoVM \/ <<"nat", status.ip>> \in failed
             /\ \A p \in owed \cap policies : <<"policy", p>> \in failed]_vars

\* A machine for which every teardown ends in an error: it never had a server;
\* or it has a server and an IP but no firewall object, because it never had
\* one (its cluster has no rules) or because an earlier teardown deleted it
\* and failed later.
Stuck ==
  \/ status.id = NoVM
  \/ /\ HasServer
     /\ status.ip # NoIP
     /\ ~fw.exists
     /\ job.pc \notin {"deleteNat", "deleteServer"}

\* A teardown that is retried comes to its end, however its calls failed, also
\* when the reply to the last one was lost; or else the machine is stuck.
TornDownOrStuck == <>[](job = Done \/ Stuck)
=============================================================================
