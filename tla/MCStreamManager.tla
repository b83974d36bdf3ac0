-------------------------- MODULE MCStreamManager --------------------------
(***************************************************************************)
(* Instances of StreamManager for TLC: the objects, the parents the user   *)
(* gives them and the space they live in.                                  *)
(***************************************************************************)
EXTENDS StreamManager

CONSTANTS a, b

\* Two objects without parents, and a parent a with a child b.
Flat == [u \in Objects |-> Nil]
Family == [u \in Objects |-> IF u = b THEN a ELSE Nil]

AllOps == {"add", "remove", "readd", "free", "move", "look", "exit", "fail"}
=============================================================================
