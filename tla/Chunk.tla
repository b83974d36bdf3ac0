-------------------------------- MODULE Chunk --------------------------------
(***************************************************************************)
(* core/components/chunk.h: the tile of the spatial index that a box is    *)
(* filed under, with the conversions between Godot's float boxes and the   *)
(* integers of the database, and the range the R-tree keeps for a tile.    *)
(*                                                                         *)
(* A float coordinate is a multiple of 1/Unit; log2 is exact on these      *)
(* (for floats a size one ulp above a power of four may round down to it). *)
(* The code is for three axes and 32 bits.                                 *)
(***************************************************************************)
EXTENDS Integers

CONSTANTS
    Axes,          \* x, y and z
    Unit,          \* parts of a world unit that a float can tell apart
    IntBits        \* the width of an integer (32)

ASSUME ChunkAssumption ==
    /\ Axes # {}
    /\ Unit \in Nat \ {0}
    /\ IntBits \in Nat \ {0}

\* A box by its first and its last corner, and a tile by its level and corner.
Box == [lo : [Axes -> Int], hi : [Axes -> Int]]
Chunks == [level : Nat, tile : [Axes -> Int]]

\* A default-constructed AABB: at the origin, without size.
DefaultBox == [lo |-> [a \in Axes |-> 0], hi |-> [a \in Axes |-> 0]]

\* b with every box of S merged into it, by AABB::merge.
Merged(b, S) ==
    LET begins(a) == {c.lo[a] : c \in S \cup {b}}
        ends(a) == {c.hi[a] : c \in S \cup {b}}
    IN  [lo |-> [a \in Axes |-> CHOOSE m \in begins(a) : \A n \in begins(a) : m <= n],
         hi |-> [a \in Axes |-> CHOOSE m \in ends(a) : \A n \in ends(a) : m >= n]]

\* Two boxes share a point; boxes that touch do.
Intersects(b, c) == \A a \in Axes : b.lo[a] <= c.hi[a] /\ c.lo[a] <= b.hi[a]

\* static_cast<int32_t> of a float: toward zero.
Truncated(c) == IF c >= 0 THEN c \div Unit ELSE -((-c) \div Unit)

\* bind_aabb and read_aabb_from_stmt: a box as six integers, and back.
ToInts(b) ==
    [lo |-> [a \in Axes |-> Truncated(b.lo[a])],
     hi |-> [a \in Axes |-> Truncated(b.hi[a])]]

OfInts(b) ==
    [lo |-> [a \in Axes |-> Unit * b.lo[a]], hi |-> [a \in Axes |-> Unit * b.hi[a]]]

\* 1 << n.
TwoTo[n \in Nat] == IF n = 0 THEN 1 ELSE 2 * TwoTo[n - 1]

\* 1 << (2 * level), the side of a tile.
Side(level) == TwoTo[2 * level]

\* The tiles of a level are at least as long as the longest edge of the box.
Fits(b, level) == \A a \in Axes : b.hi[a] - b.lo[a] <= Unit * Side(level)

\* The first level whose tiles are large enough, or 0 where there is none.
Level(b) ==
    IF \E l \in 0..31 : Fits(b, l)
      THEN CHOOSE l \in 0..31 : Fits(b, l) /\ (l = 0 \/ ~Fits(b, l - 1))
      ELSE 0

\* Mutant: the remainder of C, which has the sign of x.
Masked_TowardZero(x, level) ==
    IF 2 * level >= IntBits THEN 0
    ELSE IF x >= 0 THEN x - (x % Side(level)) ELSE x + ((-x) % Side(level))

\* The integer with its low 2 * level bits cleared, on two's complement.
Masked(x, level) == IF 2 * level < IntBits THEN x - (x % Side(level)) ELSE 0

compute_chunk(b) ==
    [level |-> Level(b),
     tile |-> [a \in Axes |-> Masked(Truncated(b.lo[a]), Level(b))]]

\* The low IntBits bits of an integer, as rtree_i32 stores it.
Wrapped(n) == ((n + TwoTo[IntBits - 1]) % TwoTo[IntBits]) - TwoTo[IntBits - 1]

\* after_insert_chunk_metadata: the box of a tile in chunk_rtree.
TileBox(c) ==
    [lo |-> c.tile, hi |-> [a \in Axes |-> Wrapped(c.tile[a] + Side(c.level))]]

\* INSERT OR IGNORE leaves out a box that ends before it begins.
InRtree(c) == \A a \in Axes : TileBox(c).lo[a] <= TileBox(c).hi[a]

\* The WHERE clause of query_objects, for one box.
Matches(c, view) == InRtree(c) /\ Intersects(TileBox(c), ToInts(view))

\* The corners of b are at most half a side of that level's tiles from the origin.
Within(b, level) ==
    \A a \in Axes : \A x \in {b.lo[a], b.hi[a]} :
        -(Unit * Side(level)) <= 2 * x /\ 2 * x <= Unit * Side(level)
=============================================================================
