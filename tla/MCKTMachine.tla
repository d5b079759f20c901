----------------------------- MODULE MCKTMachine -----------------------------
(***************************************************************************)
(* Instances of KTMachine for TLC: one cluster or two, one or two control  *)
(* planes each, a worker.                                                  *)
(***************************************************************************)
EXTENDS KTMachine, TLC

CONSTANTS cp1, cp2, w1, c1, c2

\* One cluster for all machines; or cp1 in the first, the others in the second.
InOneCluster == [m \in Machines |-> c1]

InTwoClusters == [m \in Machines |-> IF m = cp1 THEN c1 ELSE c2]

\* Servers and public IPs are interchangeable: the specification names none.
Symmetry == Permutations(VMs) \cup Permutations(PublicIPs)
=============================================================================
