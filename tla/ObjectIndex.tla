---------------------------- MODULE ObjectIndex ----------------------------
(***************************************************************************)
(* What StreamSqliteDB promises: a flush is applied to the file as a whole *)
(* or not at all, and what it writes does not depend on what the           *)
(* connection's caches hold.  The one thing the caches may change is       *)
(* whether an ancestor's own box still has the fractions its row has not.  *)
(*                                                                         *)
(* Nothing but sound references is promised from the moment a write was    *)
(* given up until the file is opened again.                                *)
(***************************************************************************)
EXTENDS Chunk, FiniteSets

CONSTANTS Objects, Nil, Null, Parent, Boxes, NoRequest

VARIABLES
    rows,          \* the objects in the file; a chunk is the tile itself
    request,       \* the flush under way
    lost           \* a write was given up

Init == rows = [u \in {} |-> 0] /\ request = NoRequest /\ lost = FALSE

\* u and what is above it.
Lineage(r, u) ==
    {x \in DOMAIN r : \A S \in SUBSET DOMAIN r :
        u \in S /\ (\A y \in S : r[y].parent \in S \cup {Nil}) => x \in S}

\* The boxes a row may stand for: its own, and the one whose fractions it lost.
Readings(row) ==
    IF row.box = Null THEN {DefaultBox}
    ELSE {OfInts(row.box)} \cup {b \in Boxes : ToInts(b) = row.box}

Stored(row) == IF row.box = Null THEN DefaultBox ELSE OfInts(row.box)

\* What the object is filed under when its own box is b.
Filed(r, u, b) ==
    compute_chunk(Merged(b, {Stored(r[c]) : c \in {c \in DOMAIN r : r[c].parent = u}}))

\* The objects that survive the removals.
Kept(req) == {u \in DOMAIN rows : Lineage(rows, u) \cap req.remove = {}}

\* The objects of the new file.  Of two new objects, the child is refused when
\* it happens to be visited before its parent.
Present(req, new) ==
    /\ Kept(req) \subseteq DOMAIN new /\ DOMAIN new \subseteq Kept(req) \cup req.upsert
    /\ \A u \in DOMAIN new : new[u].parent \in DOMAIN new \cup {Nil}
    /\ \A u \in req.upsert : Parent[u] \in Kept(req) \cup {Nil} => u \in DOMAIN new
    /\ \A u \in DOMAIN new :
         new[u].parent = IF u \in req.upsert THEN Parent[u] ELSE rows[u].parent

Measured(req, new) ==
    \A u \in DOMAIN new :
        new[u].box = IF u \in DOMAIN req.dirty THEN ToInts(req.dirty[u])
                     ELSE IF u \in Kept(req) THEN rows[u].box ELSE Null

\* Dirty objects and what is above them are filed anew, and nothing else.
Indexed(req, new) ==
    LET dirty == DOMAIN req.dirty \cap DOMAIN new
        above == UNION {Lineage(new, u) \ {u} : u \in dirty}
    IN  \A u \in DOMAIN new :
            \/ u \in dirty /\ new[u].chunk = Filed(new, u, req.dirty[u])
            \/ u \in above /\ \E b \in Readings(new[u]) : new[u].chunk = Filed(new, u, b)
            \/ /\ u \notin dirty \cup above
               /\ new[u].chunk = IF u \in Kept(req) THEN rows[u].chunk ELSE Null

Begin(req) == request = NoRequest /\ request' = req /\ UNCHANGED <<rows, lost>>

Flush ==
    /\ ~lost /\ request # NoRequest /\ request' = NoRequest
    /\ Present(request, rows') /\ Measured(request, rows') /\ Indexed(request, rows')
    /\ UNCHANGED lost

GiveUp == request # NoRequest /\ lost' = TRUE /\ UNCHANGED <<rows, request>>

FlushInPart ==
    /\ lost /\ request # NoRequest /\ request' = NoRequest
    /\ \A u \in DOMAIN rows' : rows'[u].parent \in DOMAIN rows' \cup {Nil}
    /\ UNCHANGED lost

Reopen == request' = NoRequest /\ lost' = FALSE /\ UNCHANGED rows

Next == Begin(request') \/ Flush \/ GiveUp \/ FlushInPart \/ Reopen

Spec == Init /\ [][Next]_<<rows, request, lost>>
=============================================================================
