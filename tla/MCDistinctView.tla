---------------------------- MODULE MCDistinctView ----------------------------
(* Two keys, three iterators and their sets over the whole or a part of a short storage. *)
EXTENDS DistinctView, TLC

CONSTANTS k1, k2, s1, s2, s3, c1, c2, c3

MCKeys == {k1, k2}
MCSets == {s1, s2, s3}
MCCursors == {c1, c2, c3}
MCRanges == {[b |-> 1, e |-> N + 1], [b |-> 2, e |-> N], [b |-> 2, e |-> 2]}

MCSymmetry == Permutations(MCKeys) \cup Permutations(MCSets) \cup Permutations(MCCursors)
=============================================================================
