----------------------------- MODULE MCWherePass -----------------------------
(* One where_view over the whole of a short storage, its tail or an empty range. *)
EXTENDS WherePass

MCViews == {V}
MCCursors == {It, Bound, Tmp}
MCRanges == {[b |-> 1, e |-> N + 1], [b |-> 2, e |-> N], [b |-> 2, e |-> 2]}
=============================================================================
