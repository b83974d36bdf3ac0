-------------------------- MODULE MCStreamSqliteDB --------------------------
(***************************************************************************)
(* The database for TLC: a family of objects on a line, half a world unit  *)
(* being the smallest fraction.                                            *)
(***************************************************************************)
EXTENDS StreamSqliteDB

CONSTANTS root, child, leaf, nil

Interval(l, h) == [lo |-> [a \in Axes |-> l], hi |-> [a \in Axes |-> h]]

\* A box before the origin whose ends lose their fractions; and one from 3 to
\* 7, four units long, that straddles the end of its tile, [0, 4].
MCBoxes == {Interval(-3, -1), Interval(6, 14)}

\* One view for each half unit.
MCViews == {Interval(c, c) : c \in -4..16}

\* A chain of parents.
Line == [u \in Objects |-> IF u = root THEN nil ELSE IF u = child THEN root ELSE child]

ASSUME WorldAssumption == WorldFits
=============================================================================
