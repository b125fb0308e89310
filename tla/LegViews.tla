------------------------------- MODULE LegViews -------------------------------
(***************************************************************************)
(* Views over several ranges ("legs"): concat, zip of two and of three,    *)
(* default_if_empty.  A position of leg l is a number in 1 .. n[l] + 1,    *)
(* and what a view shows of leg l at position x is <<l, x>>.               *)
(***************************************************************************)
EXTENDS Integers, Sequences, FiniteSetsExt

CONSTANT MaxLeg   \* bound on the length of a leg

Lens == 0 .. MaxLeg

-----------------------------------------------------------------------------
(* concat_view and concat_iterator.                                        *)

ConcatParams == {n : n \in [{1, 2} -> Lens]}

\* begin(): in the second leg if the first is empty.
ConcatFirst(n) == [a |-> 1, b |-> 1, inFirst |-> n[1] # 0]

ConcatLast(n) == [a |-> n[1] + 1, b |-> n[2] + 1, inFirst |-> FALSE]

\* Fault: the step to the end of the first leg stays in that leg.
ConcatIncrStays(n, i) ==
  IF i.inFirst THEN [i EXCEPT !.a = @ + 1, !.inFirst = i.a # n[1] + 1]
  ELSE IF i = ConcatLast(n) THEN i ELSE [i EXCEPT !.b = @ + 1]

\* operator++
ConcatIncr(n, i) ==
  IF i.inFirst THEN [i EXCEPT !.a = @ + 1, !.inFirst = i.a + 1 # n[1] + 1]
  ELSE IF i = ConcatLast(n) THEN i ELSE [i EXCEPT !.b = @ + 1]

\* operator==
ConcatSame(n, i, j) == i.inFirst = j.inFirst /\ i.a = j.a /\ i.b = j.b

ConcatReads(n, i) == IF i.inFirst THEN <<1, i.a>> ELSE <<2, i.b>>

ConcatShown(n) ==
  [k \in 1 .. n[1] + n[2] |-> IF k <= n[1] THEN <<1, k>> ELSE <<2, k - n[1]>>]

-----------------------------------------------------------------------------
(* zip_view, zip3_view and their iterators: a position per leg.            *)

ZipParams == [1 .. 2 -> Lens] \cup [1 .. 3 -> Lens]

ZipLast(n) == [l \in DOMAIN n |-> n[l] + 1]

\* Whether some leg is at its end.
SomeOut(n, i) == \E l \in DOMAIN n : i[l] = n[l] + 1

\* The canonical end takes the place of an iterator with a leg at its end.
Canonical(n, i) == IF SomeOut(n, i) THEN ZipLast(n) ELSE i

ZipFirst(n) == Canonical(n, [l \in DOMAIN n |-> 1])

\* operator++: an exhausted leg is not moved.
ZipIncr(n, i) ==
  Canonical(n, [l \in DOMAIN n |-> IF i[l] = n[l] + 1 THEN i[l] ELSE i[l] + 1])

ZipSame(n, i, j) == \A l \in DOMAIN n : i[l] = j[l]

ZipReads(n, i) == i

ZipShown(n) == [k \in 1 .. Min({n[l] : l \in DOMAIN n}) |-> [l \in DOMAIN n |-> k]]

-----------------------------------------------------------------------------
(* default_if_empty_view and its iterator, over one range.  Phase 0 walks  *)
(* the range, phase 1 shows the default, phase 2 is the end.               *)

Default == 0

DefaultParams == Lens

DefaultFirst(n) == [cur |-> 1, phase |-> IF n = 0 THEN 1 ELSE 0]

DefaultLast(n) == [cur |-> n + 1, phase |-> 2]

DefaultIncr(n, i) ==
  CASE i.phase = 0 -> [cur |-> i.cur + 1, phase |-> IF i.cur + 1 = n + 1 THEN 2 ELSE 0]
    [] i.phase = 1 -> [i EXCEPT !.phase = 2]
    [] i.phase = 2 -> i

DefaultSame(n, i, j) == i.phase = j.phase /\ i.cur = j.cur

DefaultReads(n, i) == IF i.phase = 1 THEN Default ELSE i.cur

DefaultShown(n) == IF n = 0 THEN <<Default>> ELSE [k \in 1 .. n |-> k]
=============================================================================
