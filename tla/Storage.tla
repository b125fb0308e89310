------------------------------- MODULE Storage -------------------------------
(***************************************************************************)
(* The storage the views of qb-linq walk: a line of positions 1 .. N.  A   *)
(* half-open range r over it, [r.b, r.e), is what a pair of base iterators *)
(* denotes.  Of the elements in it a view shows those whose position is in *)
(* some set S; the operators below say what the neighbours of a position   *)
(* are in the sequence shown.                                              *)
(***************************************************************************)
EXTENDS Integers

CONSTANTS
  N,        \* length of the storage
  Ranges    \* the ranges a view may be built over

Pos == 1 .. N + 1

ASSUME LengthAssumption == N \in Nat
ASSUME RangesAssumption == Ranges \subseteq {r \in [b : Pos, e : Pos] : r.b <= r.e}

-----------------------------------------------------------------------------
Shown(S, r) == {x \in S : r.b <= x /\ x < r.e}

\* y is the first shown position at or above x, or the end of r.
IsFirstFrom(x, y, S, r) ==
  /\ y \in Shown(S, r) \cup {r.e}
  /\ x <= y
  /\ \A z \in Shown(S, r) : x <= z => y <= z

\* y is the last shown position below x, or the end of r when there is none.
IsLastBelow(x, y, S, r) ==
  \/ /\ y \in Shown(S, r)
     /\ y < x
     /\ \A z \in Shown(S, r) : z < x => z <= y
  \/ /\ y = r.e
     /\ \A z \in Shown(S, r) : x <= z
=============================================================================
