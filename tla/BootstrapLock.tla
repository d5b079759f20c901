---------------------------- MODULE BootstrapLock ----------------------------
(***************************************************************************)
(* What the bootstrap of a cluster's first control plane promises.         *)
(*                                                                         *)
(* A cluster's lock is claimed by one machine, once and for good.  The     *)
(* holder may be announced as the ready control plane; once it is no       *)
(* longer announced, or was not when its claim lapsed, the lock is spent:  *)
(* the cluster has no announced control plane ever again.                  *)
(***************************************************************************)
CONSTANTS Clusters, Machines, ClusterOf, NoMachine

VARIABLES
  holder,   \* [Clusters -> Machines \cup {NoMachine}]
  phase     \* [Clusters -> {"free", "claimed", "announced", "spent"}]

vars == <<holder, phase>>

Init ==
  /\ holder = [c \in Clusters |-> NoMachine]
  /\ phase = [c \in Clusters |-> "free"]

\* m takes the lock; its claim may have lapsed already.
Claim(c, m) ==
  /\ phase[c] = "free"
  /\ ClusterOf[m] = c
  /\ holder' = [holder EXCEPT ![c] = m]
  /\ \E p \in {"claimed", "spent"} : phase' = [phase EXCEPT ![c] = p]

Announce(c) ==
  /\ phase[c] = "claimed"
  /\ phase' = [phase EXCEPT ![c] = "announced"]
  /\ UNCHANGED holder

\* The claim lapses, or the announcement is withdrawn.
Spend(c) ==
  /\ phase[c] \in {"claimed", "announced"}
  /\ phase' = [phase EXCEPT ![c] = "spent"]
  /\ UNCHANGED holder

Next ==
  \E c \in Clusters :
    \/ \E m \in Machines : Claim(c, m)
    \/ Announce(c)
    \/ Spend(c)

Spec == Init /\ [][Next]_vars
=============================================================================
