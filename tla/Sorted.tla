-------------------------------- MODULE Sorted --------------------------------
(* What it is to list elements, known by their places, each once and in order. *)
EXTENDS Integers, Sequences, Functions

\* s lists the places in the set ps.
Lists(s, ps) == Range(s) = ps /\ \A j \in 1 .. Len(s) - 1 : s[j] < s[j + 1]
=============================================================================
