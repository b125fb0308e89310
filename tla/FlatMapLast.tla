------------------------------ MODULE FlatMapLast ------------------------------
(***************************************************************************)
(* last() over a flat_map, whose iterators are forward-only: the loop      *)
(*   for (prev = b, ++b; b != e; ++b) prev = b;                            *)
(* keeps in prev a copy of the iterator it moves, and reads through it     *)
(* once b has met the end.                                                 *)
(***************************************************************************)
EXTENDS FlatMapView

CONSTANTS B, Prev    \* the local iterators of last(): all the Cursors there are

VARIABLE pc

lastVars == <<flatVars, pc>>

LastInit == FlatInit /\ pc = "call"

Call == pc = "call" /\ FlatBegin(B) /\ pc' = "test"

Steps == FlatLoop(B) /\ UNCHANGED pc

\* The sequence is empty and last() throws.
Throws == pc = "test" /\ AtFlatEnd(B) /\ Drop(B) /\ pc' = "call"

Keep == pc \in {"test", "loop"} /\ ~AtFlatEnd(B) /\ FlatCopy(Prev, B) /\ pc' = "step"

Step == pc = "step" /\ FlatInc(B) /\ pc' = "loop"

Read ==
  /\ pc = "loop"
  /\ flatOp[B] = "idle"
  /\ AtFlatEnd(B)
  /\ pc' = "read"
  /\ UNCHANGED flatVars

Return ==
  \/ pc = "read" /\ Drop(Prev) /\ pc' = "return"
  \/ pc = "return" /\ Drop(B) /\ pc' = "call"

LastNext == Call \/ Steps \/ Throws \/ Keep \/ Step \/ Read \/ Return

LastSpec == LastInit /\ [][LastNext]_lastVars

-----------------------------------------------------------------------------
\* "For forward-only iterators a linear scan locates the last position and the
\* result is returned by value": the value is read while it is there.
LastIsAlive == pc = "read" => in[Prev] # Dead
=============================================================================
