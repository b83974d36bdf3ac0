---------------------------- MODULE ManagerLinks ----------------------------
(***************************************************************************)
(* Probes, managers and database workers together: probes come and go      *)
(* while managers enter and leave the tree, change their databases and     *)
(* are freed; a manager in the tree that has a worker polls the probes     *)
(* registered with it and sends their boxes to the worker.                 *)
(***************************************************************************)
EXTENDS StreamWorldProbe, WorkerRegistry

vars == <<manager, probes, registry>>

Init == ManagersInit /\ ProbesInit /\ RegistryInit

\* Mutant: db_worker_ is not tested.
Poll_Unchecked(m) ==
    /\ manager[m] = "in"
    /\ registered_probes_' = [registered_probes_ EXCEPT ![m] = Pruned(m)]
    /\ IF Pruned(m) = {} THEN UNCHANGED queries ELSE Pushed(m)
    /\ UNCHANGED <<manager, probe, visible, pending, stream_manager_path_,
                   stream_manager_, database_path_, db_worker_, opened,
                   _db_worker_cache>>

\* _process polls: registered probes that were freed are dropped, and a query
\* for the others is pushed.
Poll(m) ==
    /\ manager[m] = "in" /\ db_worker_[m] # 0
    /\ registered_probes_' = [registered_probes_ EXCEPT ![m] = Pruned(m)]
    /\ IF Pruned(m) = {} THEN UNCHANGED queries ELSE Pushed(m)
    /\ UNCHANGED <<manager, probe, visible, pending, stream_manager_path_,
                   stream_manager_, database_path_, db_worker_, opened,
                   _db_worker_cache>>

Next ==
    \/ ProbeStep /\ UNCHANGED registry
    \/ RegistryStep /\ UNCHANGED probes
    \/ \E m \in Managers : Poll(m)

\* The managers in the tree are processed every frame.
Spec == Init /\ [][Next]_vars /\ \A m \in Managers : WF_vars(Poll(m))

-----------------------------------------------------------------------------
(* Properties.                                                             *)

\* Types of the probes', the managers' and the workers' variables.
TypeOK == ManagersTypeOK /\ ProbesTypeOK /\ RegistryTypeOK

\* A visible probe in the tree is registered with the manager it points to, and
\* a probe outside of the tree points to none, whatever was shown, hidden or
\* redirected in whichever order, once the call that follows is done.
PointerRegistered ==
    \A p \in Probes :
        LET m == stream_manager_[p]
        IN  m # NoManager =>
                /\ IsInsideTree(p)
                /\ Alive(m) /\ probe[p] = "in" /\ visible[p] /\ ~pending[p]
                       => p \in registered_probes_[m]

\* A freed probe does not stay registered with a manager that keeps polling.
GhostsPruned ==
    \A p \in Probes, m \in Managers :
        probe[p] = "freed" /\ p \in registered_probes_[m]
            ~> p \notin registered_probes_[m] \/ manager[m] # "in" \/ db_worker_[m] = 0
=============================================================================
