------------------------------ MODULE KubeStore ------------------------------
(***************************************************************************)
(* The Kubernetes API server and the informer cache of the manager, as the *)
(* reconcilers use them: a write of an object goes to the API server       *)
(* and is refused when the writer's resourceVersion is not the stored one, *)
(* a read through the manager's client is served by the cache, and the     *)
(* watch brings the cache up to date one version at a time, in order.      *)
(*                                                                         *)
(* versions[m] holds the versions of object m from the one the cache shows *)
(* (the head) to the one the API server stores (the last).                 *)
(***************************************************************************)
EXTENDS Naturals, Sequences

CONSTANTS
  Machines,   \* the names of the objects, of one kind or of several
  Gone        \* the "version" of an object after its deletion

VARIABLE versions

Cached(m) == Head(versions[m])

Stored(m) == versions[m][Len(versions[m])]

InSync(m) == Len(versions[m]) = 1

Exists(m) == Stored(m) # Gone

\* The API server stores obj as the newest version of m.
Put(m, obj) == versions' = [versions EXCEPT ![m] = Append(@, obj)]

\* The watch delivers the next version of m to the cache.
Deliver(m) ==
  /\ ~InSync(m)
  /\ versions' = [versions EXCEPT ![m] = Tail(@)]

\* A restarted manager lists every object before it reconciles.
Resync == versions' = [m \in Machines |-> <<Stored(m)>>]
=============================================================================
