-------------------------- MODULE StreamWorldProbe --------------------------
(***************************************************************************)
(* core/stream/stream_world_probe.cpp and the managers' registered_probes_ *)
(* (stream_manager.cpp): a probe is registered with the manager that its   *)
(* path names and whose pointer it keeps, when it enters the tree, is      *)
(* ready, or is shown; Godot calls _on_visibility_changed at the end of    *)
(* the frame in which the visibility changed, with what is true by then.   *)
(***************************************************************************)
EXTENDS SceneTree

CONSTANTS
    Probes,
    NoManager      \* a null pointer, and a path that is empty or names nothing

ASSUME ProbeAssumption == NoManager \notin Managers

VARIABLES
    probe,               \* entered: in the tree for the first time, not ready
    visible,             \* is_visible_in_tree, once the probe is inside it
    pending,             \* _on_visibility_changed is going to be called
    stream_manager_path_,
    stream_manager_,     \* the cached pointer
    registered_probes_   \* of each manager

probes == <<probe, visible, pending, stream_manager_path_, stream_manager_,
            registered_probes_>>

Targets == Managers \cup {NoManager}

ProbesTypeOK ==
    /\ probe \in [Probes -> {"new", "entered", "in", "out", "freed"}]
    /\ visible \in [Probes -> BOOLEAN] /\ pending \in [Probes -> BOOLEAN]
    /\ stream_manager_path_ \in [Probes -> Targets]
    /\ stream_manager_ \in [Probes -> Targets]
    /\ registered_probes_ \in [Managers -> SUBSET Probes]

ProbesInit ==
    /\ probe = [p \in Probes |-> "new"]
    /\ visible \in [Probes -> BOOLEAN] /\ pending = [p \in Probes |-> FALSE]
    /\ stream_manager_path_ \in [Probes -> Targets]
    /\ stream_manager_ = [p \in Probes |-> NoManager]
    /\ registered_probes_ = [m \in Managers |-> {}]

IsInsideTree(p) == probe[p] \in {"entered", "in"}

\* The manager that the path leads to from inside the tree.
Resolved(path) == IF path # NoManager /\ manager[path] = "in" THEN path ELSE NoManager

-----------------------------------------------------------------------------

_resolve_and_cache_manager(p, path) ==
    stream_manager_' = [stream_manager_ EXCEPT ![p] = Resolved(path)]

\* on_load_probe and on_unload_probe of the manager, if there is one.  A call
\* through a pointer to a freed manager changes nothing that is modelled.
on_load_probe(m, p) ==
    registered_probes_' = [n \in Managers |->
        registered_probes_[n] \cup (IF n = m THEN {p} ELSE {})]

on_unload_probe(m, p) ==
    registered_probes_' = [n \in Managers |->
        registered_probes_[n] \ (IF n = m THEN {p} ELSE {})]

_enter_tree(p) ==
    /\ probe[p] \in {"new", "out"}
    /\ probe' = [probe EXCEPT ![p] = IF @ = "new" THEN "entered" ELSE "in"]
    /\ IF visible[p]
         THEN /\ _resolve_and_cache_manager(p, stream_manager_path_[p])
              /\ on_load_probe(Resolved(stream_manager_path_[p]), p)
         ELSE UNCHANGED <<stream_manager_, registered_probes_>>
    /\ UNCHANGED <<manager, visible, pending, stream_manager_path_>>

\* visibility_changed is connected from now on.
_ready(p) ==
    /\ probe[p] = "entered"
    /\ probe' = [probe EXCEPT ![p] = "in"]
    /\ _resolve_and_cache_manager(p, stream_manager_path_[p])
    /\ on_load_probe(Resolved(stream_manager_path_[p]), p)
    /\ UNCHANGED <<manager, visible, pending, stream_manager_path_>>

_exit_tree(p) ==
    /\ probe[p] = "in"
    /\ probe' = [probe EXCEPT ![p] = "out"]
    /\ on_unload_probe(stream_manager_[p], p)
    /\ stream_manager_' = [stream_manager_ EXCEPT ![p] = NoManager]
    /\ UNCHANGED <<manager, visible, pending, stream_manager_path_>>

\* show() and hide(); Node3D emits the signal inside the tree.
SetVisible(p) ==
    /\ probe[p] # "freed"
    /\ visible' = [visible EXCEPT ![p] = ~@]
    /\ pending' = [pending EXCEPT ![p] = @ \/ probe[p] = "in"]
    /\ UNCHANGED <<manager, probe, stream_manager_path_, stream_manager_,
                   registered_probes_>>

\* Mutant: what the probe was registered for is not undone.
_on_visibility_changed_OnlyShown(p) ==
    /\ pending[p]
    /\ pending' = [pending EXCEPT ![p] = FALSE]
    /\ _resolve_and_cache_manager(p, stream_manager_path_[p])
    /\ UNCHANGED <<manager, probe, visible, stream_manager_path_, registered_probes_>>

_on_visibility_changed(p) ==
    /\ pending[p]
    /\ pending' = [pending EXCEPT ![p] = FALSE]
    /\ IF ~IsInsideTree(p) THEN UNCHANGED <<stream_manager_, registered_probes_>>
       ELSE LET m == Resolved(stream_manager_path_[p])
            IN  /\ _resolve_and_cache_manager(p, stream_manager_path_[p])
                /\ IF visible[p] THEN on_load_probe(m, p) ELSE on_unload_probe(m, p)
    /\ UNCHANGED <<manager, probe, visible, stream_manager_path_>>

set_stream_manager_path(p, path) ==
    /\ probe[p] # "freed"
    /\ stream_manager_path_' = [stream_manager_path_ EXCEPT ![p] = path]
    /\ IF ~IsInsideTree(p)
         THEN /\ stream_manager_' = [stream_manager_ EXCEPT ![p] = NoManager]
              /\ UNCHANGED registered_probes_
         ELSE /\ _resolve_and_cache_manager(p, path)
              /\ IF visible[p] THEN on_load_probe(Resolved(path), p)
                 ELSE UNCHANGED registered_probes_
    /\ UNCHANGED <<manager, probe, visible, pending>>

\* A probe is freed outside of the tree; its queued calls are dropped.
Free(p) ==
    /\ probe[p] \in {"new", "out"}
    /\ probe' = [probe EXCEPT ![p] = "freed"]
    /\ pending' = [pending EXCEPT ![p] = FALSE]
    /\ visible' = [visible EXCEPT ![p] = FALSE]
    /\ stream_manager_path_' = [stream_manager_path_ EXCEPT ![p] = NoManager]
    /\ stream_manager_' = [stream_manager_ EXCEPT ![p] = NoManager]
    /\ UNCHANGED <<manager, registered_probes_>>

\* Mutant: probes that are gone stay registered.
Pruned_Never(m) == registered_probes_[m]

\* The registered probes that still exist when the manager polls.
Pruned(m) == {p \in registered_probes_[m] : probe[p] # "freed"}

ProbeStep ==
    \E p \in Probes :
        \/ _enter_tree(p) \/ _ready(p) \/ _exit_tree(p) \/ Free(p)
        \/ SetVisible(p) \/ _on_visibility_changed(p)
        \/ \E path \in Targets : set_stream_manager_path(p, path)
=============================================================================
