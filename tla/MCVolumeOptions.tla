-------------------------- MODULE MCVolumeOptions --------------------------
(* Small widths for TLC: an allocation unit of 16 bytes, exact floats up to  *)
(* 64, int64 up to 512 (as in the code, neighbouring floats are closer than  *)
(* the unit everywhere), ids of up to 20 bytes, a cursor that wraps at 64.   *)
EXTENDS VolumeOptions

Id(c, u, n, x) == [cluster |-> c, user |-> u, name |-> n, chars |-> x]
Create(c, b, a) == [cid |-> c, bytes |-> b, asked |-> a]
PlainId == Id(1, 1, 2, NotHex)

\* All sizes of an int64 with one identifier.
OfAllSizes == {Create(PlainId, b, NothingAsked) : b \in 0..(IntLimit - 1)}

\* All short identifiers with one size.
OfAllIds ==
    {Create(Id(c, u, n, x), 20, NothingAsked) :
        c \in 0..3, u \in 0..2, n \in 1..2, x \in {NotHex, 2}}

\* All lists of up to two preferred and one requisite topology over two
\* labels with two values.
Labels == {"region", "zone"}
Topologies == UNION {[D -> {"a", "b"}] : D \in SUBSET Labels}
ListsUpTo(n) == UNION {[1..k -> Topologies] : k \in 0..n}
OfAllTopologies ==
    {Create(PlainId, 20, [labels |-> l, preferred |-> p, requisite |-> q]) :
        l \in SUBSET Labels, p \in ListsUpTo(2), q \in ListsUpTo(1)}

MCCreateRequests == OfAllSizes \cup OfAllIds \cup OfAllTopologies

\* Handles of up to 12 characters: the number at the front, and the same one
\* at every other offset.
MCStaticHandles ==
    {[len |-> n, num |-> [i \in 0..n |-> IF i = 0 THEN front ELSE rest]] :
        n \in {3, 4, 5, 9, 12}, front \in {NotHex, 0, 2, 60}, rest \in {NotHex, 0, 2}}

\* The sizes around the multiples of the unit, the ends of the exact floats
\* and of int64 among them; the creations have all sizes.
MCExpandBytes == {b \in 0..(IntLimit - 1) : b % GiB \in {0, 1, GiB - 1}}
=============================================================================
