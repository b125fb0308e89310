----------------------------- MODULE RowTerminals -----------------------------
(***************************************************************************)
(* min, max, min_by, max_by and min_max over rows: the pairs of enumerate  *)
(* (and of zip), whose second is what the view below gives.                *)
(*                                                                         *)
(* value_type is the type operator* returns without its own reference, so  *)
(* that of a pair of an index and a reference is this pair.  A local       *)
(* variable of that type is bound to the element of the row it is          *)
(* initialised with, and an assignment to it writes to that element.       *)
(***************************************************************************)
EXTENDS Integers, Sequences

CONSTANTS
  MaxElement,  \* elements are 0 .. MaxElement
  MaxRows      \* bound on the length of the range

VARIABLES
  kind,   \* the terminal
  whole,  \* whether it compares whole rows, or only their seconds
  bound,  \* whether the second of a row is a reference
  key,    \* the elements in memory
  was,    \* history: the elements when it was called
  row,    \* the row the loop is at
  lo, hi, \* what it has found: the locals best, or lo and hi
  stage   \* "run" or "done"

rowVars == <<kind, whole, bound, key, was, row, lo, hi, stage>>

Kinds == {"min", "max", "min_by", "max_by", "min_max"}

\* The row of element x of memory m, in a new variable.
Row(m, x) == [index |-> x, cell |-> x, own |-> m[x]]

Second(m, r) == IF bound THEN m[r.cell] ELSE r.own

\* What  r = *it  leaves of memory and of r, it being at x.
Written(m, r, x) == IF bound THEN [m EXCEPT ![r.cell] = m[x]] ELSE m

Moved(m, r, x) == [r EXCEPT !.index = x, !.own = IF bound THEN @ ELSE m[x]]

\* operator< of pairs, or a comparison or key of the second.
Less(i, a, j, b) == IF whole THEN i < j \/ (i = j /\ a < b) ELSE a < b

RowInit ==
  /\ kind \in Kinds
  /\ whole \in IF kind \in {"min_by", "max_by"} THEN {FALSE} ELSE BOOLEAN
  /\ bound \in BOOLEAN
  /\ key \in UNION {[1 .. l -> 0 .. MaxElement] : l \in 1 .. MaxRows}
  /\ was = key
  /\ row = 2
  /\ lo = Row(key, 1)
  /\ hi = Row(key, 1)
  /\ stage = "run"

Lower(m) == Less(row, m[row], lo.index, Second(m, lo))

\* Fault: a row that compares equal replaces the one found before.
HigherOrSame(m) == ~Less(row, m[row], hi.index, Second(m, hi))

Higher(m) == Less(hi.index, Second(m, hi), row, m[row])

\* One turn of the loop, lo first.
Turn ==
  LET down == kind \in {"min", "min_by", "min_max"} /\ Lower(key)
      m    == IF down THEN Written(key, lo, row) ELSE key
      up   == kind \in {"max", "max_by", "min_max"} /\ Higher(m)
  IN  /\ stage = "run"
      /\ row <= Len(key)
      /\ lo' = IF down THEN Moved(key, lo, row) ELSE lo
      /\ hi' = IF up THEN Moved(m, hi, row) ELSE hi
      /\ key' = IF up THEN Written(m, hi, row) ELSE m
      /\ row' = row + 1
      /\ UNCHANGED <<kind, whole, bound, was, stage>>

Return ==
  /\ stage = "run"
  /\ row > Len(key)
  /\ stage' = "done"
  /\ UNCHANGED <<kind, whole, bound, key, was, row, lo, hi>>

RowNext == Turn \/ Return

RowSpec == RowInit /\ [][RowNext]_rowVars

-----------------------------------------------------------------------------
\* The first of the least, or greatest, rows there were.
IsLeast(x) ==
  /\ \A y \in 1 .. x - 1 : Less(x, was[x], y, was[y])
  /\ \A y \in x .. Len(was) : ~Less(y, was[y], x, was[x])

IsGreatest(x) ==
  /\ \A y \in 1 .. x - 1 : Less(y, was[y], x, was[x])
  /\ \A y \in x .. Len(was) : ~Less(x, was[x], y, was[y])

LowIsLeast == IsLeast(lo.index) /\ Second(key, lo) = was[lo.index]
HighIsGreatest == IsGreatest(hi.index) /\ Second(key, hi) = was[hi.index]

Answered ==
  /\ kind \in {"min", "min_by", "min_max"} => LowIsLeast
  /\ kind \in {"max", "max_by", "min_max"} => HighIsGreatest

\* The answer is the first least or greatest row, also when the loop overwrites, as it
\* does with rows of references, the element its variable is bound to: the first one
\* and no other.  min_max has two variables bound to that element, and is left out.
RowsAnswered ==
  stage = "done" =>
    /\ (kind = "min_max" /\ bound) \/ Answered
    /\ \A x \in DOMAIN was : key[x] = was[x] \/ (bound /\ x = 1)

\* query_range.h says of min_max: "One pass: `(min, max)` by `operator<`".
MinMaxAnswers == stage = "done" /\ kind = "min_max" => Answered
=============================================================================
