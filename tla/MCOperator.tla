------------------------------ MODULE MCOperator ------------------------------
(***************************************************************************)
(* Instances of Operator for TLC.                                          *)
(***************************************************************************)
EXTENDS Operator

CONSTANTS cp1, cp2, w1, c1, v1, v2

InOneCluster == [m \in Machines |-> c1]

Numbered == [m \in ControlPlanes |-> IF m = cp1 THEN 1 ELSE 2]

\* The two servers are interchangeable: only behaviours that create v1 before
\* v2 are explored.
InOrder == v2 \notin FreeServers => v1 \notin FreeServers
=============================================================================
