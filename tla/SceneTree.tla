------------------------------ MODULE SceneTree ------------------------------
(***************************************************************************)
(* Where the engine has the StreamManager nodes: what a probe's path and   *)
(* the instance id in a callback resolve to.  The scripts decide when a    *)
(* node enters the tree, leaves it and is freed.                           *)
(***************************************************************************)
CONSTANT Managers

\* new: not yet in the tree, so not ready; out: ready and outside of the tree.
VARIABLE manager

ManagersTypeOK == manager \in [Managers -> {"new", "in", "out", "freed"}]

ManagersInit == manager = [m \in Managers |-> "new"]

IsReady(m) == manager[m] \in {"in", "out"}

\* ObjectDB::get_instance finds the manager.
Alive(m) == manager[m] # "freed"

Entering(m) == manager[m] \in {"new", "out"} /\ manager' = [manager EXCEPT ![m] = "in"]

Leaving(m) == manager[m] = "in" /\ manager' = [manager EXCEPT ![m] = "out"]

Freeing(m) == manager[m] \in {"new", "out"} /\ manager' = [manager EXCEPT ![m] = "freed"]
=============================================================================
