------------------------------ MODULE MultiPass ------------------------------
(***************************************************************************)
(* What every lazy view of qb-linq promises to the code that walks it: a   *)
(* multi-pass sequence.  The view shows the positions of elems that lie in *)
(* its range.  An iterator stands on a shown position or at the end of its *)
(* range; a step goes to the neighbour, and neither copies nor the steps   *)
(* of other iterators move it.                                             *)
(*                                                                         *)
(* A step backwards from the first shown position leads to the end, which  *)
(* then leads back to the last one: where_iterator uses its end as the     *)
(* before-the-first position too.  A step that user code throws out of     *)
(* leaves the iterator on its way to the neighbour.                        *)
(***************************************************************************)
EXTENDS Storage

CONSTANT Cursors   \* the iterator objects of the program

VARIABLES
  elems,    \* the positions whose element the view shows
  at,       \* at[c]: where iterator c stands, 0 while it has no position
  rng       \* rng[c]: the range iterator c walks

absVars == <<elems, at, rng>>

Place(c, x, r) ==
  /\ at' = [at EXCEPT ![c] = x]
  /\ rng' = [rng EXCEPT ![c] = r]
  /\ UNCHANGED elems

First(c, r) == \E y \in Pos : IsFirstFrom(r.b, y, elems, r) /\ Place(c, y, r)

AtEnd(c, r) == Place(c, r.e, r)

Forward(c) ==
  /\ at[c] # 0
  /\ at[c] # rng[c].e
  /\ \E y \in Pos : IsFirstFrom(at[c] + 1, y, elems, rng[c]) /\ Place(c, y, rng[c])

Backward(c) ==
  /\ at[c] # 0
  /\ \E y \in Pos : IsLastBelow(at[c], y, elems, rng[c]) /\ Place(c, y, rng[c])

\* A step that throws: no shown position has been passed over.
Stray(c) ==
  /\ at[c] # 0
  /\ \E y \in Pos :
       /\ rng[c].b <= y /\ y < rng[c].e
       /\ \A z \in Shown(elems, rng[c]) : ~(at[c] < z /\ z < y) /\ ~(y < z /\ z < at[c])
       /\ Place(c, y, rng[c])

Copy(c, d) == at[d] # 0 /\ Place(c, at[d], rng[d])

Drop(c, r) == Place(c, 0, r)

AbsInit ==
  /\ elems \in SUBSET (1 .. N)
  /\ at = [c \in Cursors |-> 0]
  /\ rng \in [Cursors -> Ranges]

\* (That nothing is seen to happen comes first: so are most steps of an
\* implementation, and TLC tries disjuncts in order.)
AbsNext ==
  \/ UNCHANGED absVars
  \/ \E c \in Cursors :
       \/ \E r \in Ranges : First(c, r) \/ AtEnd(c, r) \/ Drop(c, r)
       \/ Forward(c) \/ Backward(c) \/ Stray(c)
       \/ \E d \in Cursors : Copy(c, d)

AbsSpec == AbsInit /\ [][AbsNext]_absVars
=============================================================================
