---------------------------- MODULE MCFlatMapLast ----------------------------
(* last() over ranges of up to three elements. *)
EXTENDS FlatMapLast

MCCursors == {B, Prev}
MCRanges == {[b |-> x, e |-> N + 1] : x \in Pos}
=============================================================================
