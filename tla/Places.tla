-------------------------------- MODULE Places --------------------------------
(***************************************************************************)
(* What the operations that read a whole range have in common: an element  *)
(* is its place in the range, counted from 1, and is worth a key.          *)
(***************************************************************************)
EXTENDS Sorted

CONSTANTS
  Keys,
  MaxLen   \* bound on the lengths of ranges
=============================================================================
