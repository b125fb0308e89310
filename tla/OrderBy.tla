-------------------------------- MODULE OrderBy --------------------------------
(***************************************************************************)
(* order_by(filters...): lexicographic_compare over asc and desc filters,  *)
(* and std::stable_sort of a copy.                                         *)
(*                                                                         *)
(* An element is its place; it has a key at each level.                    *)
(***************************************************************************)
EXTENDS Integers, Sequences, FiniteSets, Functions

CONSTANTS
  MaxSorted,  \* bound on the length of the range
  MaxRank,    \* keys are 0 .. MaxRank
  MaxLevels   \* bound on the number of filters

VARIABLES
  filters,   \* filters[l]: "asc" or "desc"
  keys,      \* keys[x][l]: the key of element x at level l
  sorted,    \* *owner
  ordering   \* "copied" or "done"

orderVars == <<filters, keys, sorted, ordering>>

OrderInit ==
  /\ filters \in UNION {[1 .. l -> {"asc", "desc"}] : l \in 1 .. MaxLevels}
  /\ keys \in UNION {[1 .. n -> [DOMAIN filters -> 0 .. MaxRank]] : n \in 0 .. MaxSorted}
  /\ sorted = [x \in DOMAIN keys |-> x]
  /\ ordering = "copied"

\* order_key_filter::primary and tied
Primary(l, x, y) ==
  IF filters[l] = "asc" THEN keys[x][l] < keys[y][l] ELSE keys[x][l] > keys[y][l]

Tied(l, x, y) == keys[x][l] = keys[y][l]

\* Fault: the last filter is the first to be asked.
LessFromLast(x, y) ==
  LET from[l \in 0 .. Len(filters)] ==
        IF l = 0 THEN FALSE
        ELSE Primary(l, x, y) \/ (Tied(l, x, y) /\ from[l - 1])
  IN  from[Len(filters)]

\* lexicographic_compare
LexLess(x, y) ==
  LET from[l \in DOMAIN filters] ==
        \/ Primary(l, x, y)
        \/ l < Len(filters) /\ Tied(l, x, y) /\ from[l + 1]
  IN  from[1]

\* std::stable_sort with LexLess, which must be a strict weak order for this to be
\* a permutation: an element comes after those that are less, and after those
\* before it that are neither less nor greater.
Rank(x) ==
  1 + Cardinality({y \in DOMAIN keys : LexLess(y, x) \/ (~LexLess(x, y) /\ y < x)})

Sort ==
  /\ ordering = "copied"
  /\ ordering' = "done"
  /\ sorted' = [j \in DOMAIN keys |-> CHOOSE x \in DOMAIN keys : Rank(x) = j]
  /\ UNCHANGED <<filters, keys>>

OrderSpec == OrderInit /\ [][Sort]_orderVars

-----------------------------------------------------------------------------
\* x is to come before y: at the first level where their keys differ, as that
\* level says; if there is none, as in the range.
ComesFirst(x, y) ==
  \/ \E l \in DOMAIN filters :
       /\ \A m \in 1 .. l - 1 : keys[x][m] = keys[y][m]
       /\ keys[x][l] # keys[y][l]
       /\ (filters[l] = "asc") = (keys[x][l] < keys[y][l])
  \/ keys[x] = keys[y] /\ x < y

\* The result holds each element once, sorted by all levels and stable.
OrderCorrect ==
  ordering = "done" =>
    /\ Range(sorted) = DOMAIN keys
    /\ \A j \in 1 .. Len(sorted) - 1 : ComesFirst(sorted[j], sorted[j + 1])
=============================================================================
