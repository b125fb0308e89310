-------------------------- MODULE ExtraViewsProofs --------------------------
(***************************************************************************)
(* Proofs about the views over legs and windows, take_while, flat_map and  *)
(* scan, for ranges of any length, inner ranges of any lengths, windows of *)
(* any size, and any number of iterators.                                  *)
(***************************************************************************)
EXTENDS Combinators, TakeWhileView, FlatMapView, ScanView, SortedProofs, TLAPS

(* The views over legs and windows: for each, where its iterator is at a   *)
(* place k (..At), that begin() and end() are at 0 and at the length       *)
(* (..Ends), where ++ leads (..Step), what is read (..Faithful), and when  *)
(* two iterators are equal (..Equal).                                      *)

\* The iterator of concat at place k: on the first leg for as long as that has elements, then
\* on the second.
OnFirst(k) == [a |-> k + 1, b |-> 1, inFirst |-> TRUE]

OnSecond(n, k) == [a |-> n[1] + 1, b |-> k - n[1] + 1, inFirst |-> FALSE]

ConcatAt(n, i, k) ==
  /\ k \in 0 .. n[1] + n[2]
  /\ k < n[1] => i = OnFirst(k)
  /\ n[1] <= k => i = OnSecond(n, k)

\* A step on the first leg and one on the second, as records.
LEMMA FirstMoved ==
  ASSUME NEW a, NEW b, NEW f, NEW x, NEW g, NEW i, i = [a |-> a, b |-> b, inFirst |-> f],
         NEW j, j = [i EXCEPT !.a = x, !.inFirst = g]
  PROVE  j = [a |-> x, b |-> b, inFirst |-> g]
OBVIOUS

LEMMA SecondMoved ==
  ASSUME NEW a, NEW b, NEW f, NEW x, NEW i, i = [a |-> a, b |-> b, inFirst |-> f],
         NEW j, j = [i EXCEPT !.b = x]
  PROVE  j = [a |-> a, b |-> x, inFirst |-> f]
OBVIOUS

LEMMA ConcatFields ==
  ASSUME NEW k, NEW n, NEW i
  PROVE  /\ i = OnFirst(k) => i.a = k + 1 /\ i.b = 1 /\ i.inFirst
         /\ i = OnSecond(n, k) => i.a = n[1] + 1 /\ i.b = k - n[1] + 1 /\ ~i.inFirst
<1>1. ASSUME i = OnFirst(k) PROVE i.a = k + 1 /\ i.b = 1 /\ i.inFirst
  BY <1>1, Zenon DEF OnFirst
<1>2. ASSUME i = OnSecond(n, k) PROVE i.a = n[1] + 1 /\ i.b = k - n[1] + 1 /\ ~i.inFirst
  BY <1>2, Zenon DEF OnSecond
<1> QED
  BY <1>1, <1>2

LEMMA ConcatEnds ==
  ASSUME NEW n \in Legs!ConcatParams
  PROVE  /\ n[1] \in Nat /\ n[2] \in Nat
         /\ Len(Legs!ConcatShown(n)) = n[1] + n[2]
         /\ ConcatAt(n, Legs!ConcatFirst(n), 0)
         /\ ConcatAt(n, Legs!ConcatLast(n), n[1] + n[2])
<1>1. n[1] \in Nat /\ n[2] \in Nat
  BY LegsAssumption DEF Legs!ConcatParams, Legs!Lens
<1>2. Len(Legs!ConcatShown(n)) = n[1] + n[2]
  BY <1>1 DEF Legs!ConcatShown
<1>3. ConcatAt(n, Legs!ConcatFirst(n), 0)
  <2>1. PICK f \in BOOLEAN : f = (n[1] # 0)
    BY Zenon
  <2>2. Legs!ConcatFirst(n) = [a |-> 1, b |-> 1, inFirst |-> f]
    BY <2>1, Zenon DEF Legs!ConcatFirst
  <2>3. CASE n[1] = 0
    <3>1. f = FALSE
      BY <2>1, <2>3, Zenon
    <3>2. n[1] + 1 = 1 /\ 0 - n[1] + 1 = 1
      BY <2>3
    <3>3. Legs!ConcatFirst(n) = OnSecond(n, 0)
      BY <2>2, <3>1, <3>2, Zenon DEF OnSecond
    <3> QED
      BY <1>1, <2>3, <3>3 DEF ConcatAt
  <2>4. CASE n[1] # 0
    <3>1. f = TRUE
      BY <2>1, <2>4, Zenon
    <3>2. 0 + 1 = 1
      OBVIOUS
    <3>3. Legs!ConcatFirst(n) = OnFirst(0)
      BY <2>2, <3>1, <3>2, Zenon DEF OnFirst
    <3> QED
      BY <1>1, <2>4, <3>3 DEF ConcatAt
  <2> QED
    BY <2>3, <2>4
<1>4. ConcatAt(n, Legs!ConcatLast(n), n[1] + n[2])
  <2>1. PICK m \in Int : m = n[1] + n[2]
    BY <1>1
  <2>2. m - n[1] + 1 = n[2] + 1 /\ ~(m < n[1]) /\ m \in 0 .. n[1] + n[2]
    BY <1>1, <2>1
  <2>3. Legs!ConcatLast(n) = OnSecond(n, m)
    BY <1>1, <2>2 DEF OnSecond, Legs!ConcatLast
  <2> QED
    BY <2>1, <2>2, <2>3 DEF ConcatAt
<1> QED
  BY <1>1, <1>2, <1>3, <1>4

LEMMA ConcatStep ==
  ASSUME NEW n \in Legs!ConcatParams, NEW i, NEW k, ConcatAt(n, i, k)
  PROVE  ConcatAt(n, Legs!ConcatIncr(n, i), IF k < n[1] + n[2] THEN k + 1 ELSE k)
<1>1. n[1] \in Nat /\ n[2] \in Nat
  BY ConcatEnds
<1>2. k \in Int
  BY <1>1 DEF ConcatAt
<1>3. PICK j : j = Legs!ConcatIncr(n, i)
  OBVIOUS
<1>0. PICK m \in Int : m = k + 1
  BY <1>2
<1>4. CASE k < n[1]
  <2>1. i = OnFirst(k) /\ i.inFirst
    BY <1>4, ConcatFields DEF ConcatAt
  <2>2. PICK f \in BOOLEAN : f = (i.a + 1 # n[1] + 1)
    BY Zenon
  <2>3. j = [i EXCEPT !.a = i.a + 1, !.inFirst = f]
    BY <1>3, <2>1, <2>2, Zenon DEF Legs!ConcatIncr
  <2>4. i = [a |-> k + 1, b |-> 1, inFirst |-> TRUE]
    BY <2>1 DEF OnFirst
  <2>5. j = [a |-> i.a + 1, b |-> 1, inFirst |-> f]
    BY <2>3, <2>4, FirstMoved
  <2>6. i.a = k + 1
    BY <2>1, ConcatFields
  <2>7. CASE m < n[1]
    <3>1. i.a + 1 # n[1] + 1
      BY <1>0, <1>1, <1>2, <2>6, <2>7
    <3>2. f = TRUE
      BY <2>2, <3>1, Zenon
    <3>3. j = OnFirst(m)
      BY <1>0, <1>2, <2>5, <2>6, <3>2 DEF OnFirst
    <3> QED
      BY <1>0, <1>1, <1>2, <1>3, <2>7, <3>3 DEF ConcatAt
  <2>8. CASE m = n[1]
    <3>1. i.a + 1 = n[1] + 1 /\ m - n[1] + 1 = 1
      BY <1>0, <1>1, <1>2, <2>6, <2>8
    <3>2. f = FALSE
      BY <2>2, <3>1, Zenon
    <3>3. j = OnSecond(n, m)
      BY <1>1, <1>2, <2>5, <3>1, <3>2 DEF OnSecond
    <3> QED
      BY <1>0, <1>1, <1>2, <1>3, <2>8, <3>3 DEF ConcatAt
  <2> QED
    BY <1>0, <1>1, <1>2, <1>4, <2>7, <2>8
<1>5. CASE n[1] <= k /\ k < n[1] + n[2]
  <2>1. i = OnSecond(n, k)
    BY <1>5 DEF ConcatAt
  <2>2. i.b = k - n[1] + 1 /\ ~i.inFirst /\ i = [a |-> n[1] + 1, b |-> k - n[1] + 1, inFirst |-> FALSE]
    BY <2>1, ConcatFields DEF OnSecond
  <2>3. i.b # n[2] + 1 /\ i.b + 1 = m - n[1] + 1
    BY <1>0, <1>1, <1>2, <1>5, <2>2
  <2>4. i # Legs!ConcatLast(n)
    <3>1. Legs!ConcatLast(n).b = n[2] + 1
      BY Zenon DEF Legs!ConcatLast
    <3> QED
      BY <2>3, <3>1
  <2>5. j = [i EXCEPT !.b = i.b + 1]
    BY <1>3, <2>2, <2>4, Zenon DEF Legs!ConcatIncr
  <2>6. j = [a |-> n[1] + 1, b |-> i.b + 1, inFirst |-> FALSE]
    BY <2>2, <2>5, SecondMoved
  <2>7. j = OnSecond(n, m)
    BY <1>1, <1>2, <2>3, <2>6 DEF OnSecond
  <2> QED
    BY <1>0, <1>1, <1>2, <1>3, <1>5, <2>7 DEF ConcatAt
<1>6. CASE k = n[1] + n[2]
  <2>1. i = OnSecond(n, k) /\ k - n[1] + 1 = n[2] + 1 /\ ~i.inFirst
    BY <1>1, <1>6, ConcatFields DEF ConcatAt
  <2>2. i = Legs!ConcatLast(n)
    BY <2>1, Zenon DEF Legs!ConcatLast, OnSecond
  <2>3. Legs!ConcatIncr(n, i) = i
    BY <2>1, <2>2, Zenon DEF Legs!ConcatIncr
  <2> QED
    BY <1>1, <1>6, <2>3
<1> QED
  BY <1>1, <1>2, <1>3, <1>4, <1>5, <1>6 DEF ConcatAt

LEMMA ConcatFaithful ==
  ASSUME NEW n \in Legs!ConcatParams, NEW i, NEW k, ConcatAt(n, i, k), k < n[1] + n[2]
  PROVE  Legs!ConcatReads(n, i) = Legs!ConcatShown(n)[k + 1]
<1>1. n[1] \in Nat /\ n[2] \in Nat
  BY ConcatEnds
<1>0. PICK m \in Int : m = k + 1
  BY <1>1 DEF ConcatAt
<1>2. m \in 1 .. n[1] + n[2] /\ (k < n[1] <=> m <= n[1]) /\ m - n[1] = k - n[1] + 1 /\ m = k + 1
  BY <1>0, <1>1 DEF ConcatAt
<1>3. Legs!ConcatShown(n)[m] = IF m <= n[1] THEN <<1, m>> ELSE <<2, m - n[1]>>
  BY <1>2, Zenon DEF Legs!ConcatShown
<1>4. CASE k < n[1]
  <2>1. i = OnFirst(k)
    BY <1>4 DEF ConcatAt
  <2>2. Legs!ConcatReads(n, i) = <<1, k + 1>>
    BY <2>1, ConcatFields DEF Legs!ConcatReads
  <2> QED
    BY <1>2, <1>3, <1>4, <2>2
<1>5. CASE ~(k < n[1])
  <2>1. i = OnSecond(n, k)
    BY <1>1, <1>5 DEF ConcatAt
  <2>2. Legs!ConcatReads(n, i) = <<2, k - n[1] + 1>>
    BY <2>1, ConcatFields DEF Legs!ConcatReads
  <2> QED
    BY <1>2, <1>3, <1>5, <2>2
<1> QED
  BY <1>4, <1>5

LEMMA ConcatEqual ==
  ASSUME NEW n \in Legs!ConcatParams, NEW i, NEW j, NEW k, NEW l, ConcatAt(n, i, k), ConcatAt(n, j, l)
  PROVE  Legs!ConcatSame(n, i, j) <=> k = l
<1>1. n[1] \in Nat /\ n[2] \in Nat /\ k \in Int /\ l \in Int
  BY ConcatEnds DEF ConcatAt
<1>2. /\ k < n[1] => i.a = k + 1 /\ i.b = 1 /\ i.inFirst
      /\ n[1] <= k => i.a = n[1] + 1 /\ i.b = k - n[1] + 1 /\ ~i.inFirst
  BY ConcatFields DEF ConcatAt
<1>3. /\ l < n[1] => j.a = l + 1 /\ j.b = 1 /\ j.inFirst
      /\ n[1] <= l => j.a = n[1] + 1 /\ j.b = l - n[1] + 1 /\ ~j.inFirst
  BY ConcatFields DEF ConcatAt
<1>4. i = j => i.inFirst = j.inFirst
  OBVIOUS
<1>5. k = l => i = j
  BY <1>1 DEF ConcatAt
<1>6. Legs!ConcatSame(n, i, j) <=> i.inFirst = j.inFirst /\ i.a = j.a /\ i.b = j.b
  BY Zenon DEF Legs!ConcatSame
<1>7. ASSUME Legs!ConcatSame(n, i, j) PROVE k = l
  <2>1. i.a = j.a /\ i.b = j.b
    BY <1>6, <1>7
  <2>2. CASE k < n[1] /\ l < n[1]
    BY <1>1, <1>2, <1>3, <2>1, <2>2
  <2>3. CASE n[1] <= k /\ n[1] <= l
    BY <1>1, <1>2, <1>3, <2>1, <2>3
  <2>4. CASE k < n[1] /\ n[1] <= l
    BY <1>1, <1>2, <1>3, <2>1, <2>4
  <2>5. CASE n[1] <= k /\ l < n[1]
    BY <1>1, <1>2, <1>3, <2>1, <2>5
  <2> QED
    BY <1>1, <2>2, <2>3, <2>4, <2>5
<1> QED
  BY <1>5, <1>6, <1>7, Zenon

\* The iterator of zip at place k, of m: all legs at their element k + 1, or the end.
ZipAt(n, m, i, k) ==
  /\ k \in 0 .. m
  /\ k < m => i = [l \in DOMAIN n |-> k + 1]
  /\ k = m => i = Legs!ZipLast(n)

\* m is the least of the lengths.
ZipLength(n, m) ==
  /\ m \in Nat /\ DOMAIN n # {} /\ \A l \in DOMAIN n : n[l] \in Nat /\ m <= n[l]
  /\ \E l \in DOMAIN n : n[l] = m

LEMMA ZipLeast ==
  ASSUME NEW n \in Legs!ZipParams
  PROVE  \E m \in Nat : /\ ZipLength(n, m)
                        /\ Len(Legs!ZipShown(n)) = m
                        /\ \A k \in 1 .. m : Legs!ZipShown(n)[k] = [l \in DOMAIN n |-> k]
<1>1. DOMAIN n # {} /\ \A l \in DOMAIN n : n[l] \in Nat
  BY LegsAssumption DEF Legs!ZipParams, Legs!Lens
<1>2. PICK S : S = {n[l] : l \in DOMAIN n}
  OBVIOUS
<1>3. S # {} /\ S \in SUBSET Nat
  BY <1>1, <1>2
<1>4. PICK m \in S : \A y \in S : m <= y
  BY <1>3, LeastExists
<1>5. Legs!Min(S) = m
  <2>1. \A y \in S : (y \in S /\ \A z \in S : y <= z) => y = m
    BY <1>3, <1>4
  <2> QED
    BY <1>4, <2>1 DEF Legs!Min
<1>6. m \in Nat
  BY <1>3, <1>4
<1>7. ZipLength(n, m)
  BY <1>1, <1>2, <1>4, <1>6 DEF ZipLength
<1>8. Legs!ZipShown(n) = [k \in 1 .. m |-> [l \in DOMAIN n |-> k]]
  BY <1>2, <1>5, Zenon DEF Legs!ZipShown
<1>9. Len(Legs!ZipShown(n)) = m
  BY <1>6, <1>8
<1> QED
  BY <1>6, <1>7, <1>8, <1>9

LEMMA ZipEnds ==
  ASSUME NEW n \in Legs!ZipParams, NEW m, ZipLength(n, m)
  PROVE  ZipAt(n, m, Legs!ZipFirst(n), 0) /\ ZipAt(n, m, Legs!ZipLast(n), m)
<1>1. /\ m \in Nat /\ \A l \in DOMAIN n : n[l] \in Nat /\ m <= n[l]
      /\ \E l \in DOMAIN n : n[l] = m
  BY DEF ZipLength
<1>2. PICK i : i = [l \in DOMAIN n |-> 1]
  OBVIOUS
<1>3. Legs!SomeOut(n, i) <=> m = 0
  BY <1>1, <1>2 DEF Legs!SomeOut
<1>4. CASE m = 0
  <2>1. Legs!ZipFirst(n) = Legs!ZipLast(n)
    BY <1>2, <1>3, <1>4 DEF Legs!ZipFirst, Legs!Canonical
  <2> QED
    BY <1>1, <1>4, <2>1 DEF ZipAt
<1>5. CASE m # 0
  <2>1. Legs!ZipFirst(n) = i
    BY <1>2, <1>3, <1>5 DEF Legs!ZipFirst, Legs!Canonical
  <2>2. i = [l \in DOMAIN n |-> 0 + 1]
    BY <1>2
  <2> QED
    BY <1>1, <1>5, <2>1, <2>2 DEF ZipAt
<1> QED
  BY <1>4, <1>5

LEMMA ZipStep ==
  ASSUME NEW n \in Legs!ZipParams, NEW m, ZipLength(n, m), NEW i, NEW k, ZipAt(n, m, i, k)
  PROVE  ZipAt(n, m, Legs!ZipIncr(n, i), IF k < m THEN k + 1 ELSE k)
<1>1. /\ m \in Nat /\ \A l \in DOMAIN n : n[l] \in Nat /\ m <= n[l]
      /\ \E l \in DOMAIN n : n[l] = m
  BY DEF ZipLength
<1>2. k \in Int /\ 0 <= k /\ k <= m
  BY <1>1 DEF ZipAt
<1>3. PICK j : j = [l \in DOMAIN n |-> IF i[l] = n[l] + 1 THEN i[l] ELSE i[l] + 1]
  OBVIOUS
<1>4. Legs!ZipIncr(n, i) = IF Legs!SomeOut(n, j) THEN Legs!ZipLast(n) ELSE j
  BY <1>3, Zenon DEF Legs!ZipIncr, Legs!Canonical
<1>5. CASE k < m
  <2>0. PICK h \in Int : h = k + 1
    BY <1>2
  <2>1. \A l \in DOMAIN n : i[l] = k + 1
    BY <1>5 DEF ZipAt
  <2>2. j = [l \in DOMAIN n |-> h + 1]
    <3>1. \A l \in DOMAIN n : (IF i[l] = n[l] + 1 THEN i[l] ELSE i[l] + 1) = h + 1
      BY <1>1, <1>2, <1>5, <2>0, <2>1
    <3> QED
      BY <1>3, <3>1
  <2>3. Legs!SomeOut(n, j) <=> h = m
    BY <1>1, <1>2, <1>5, <2>0, <2>2 DEF Legs!SomeOut
  <2>4. ZipAt(n, m, Legs!ZipIncr(n, i), h)
    <3>1. CASE h = m
      BY <1>1, <1>4, <2>3, <3>1 DEF ZipAt
    <3>2. CASE h # m
      BY <1>1, <1>2, <1>4, <1>5, <2>0, <2>2, <2>3, <3>2 DEF ZipAt
    <3> QED
      BY <3>1, <3>2
  <2> QED
    BY <1>5, <2>0, <2>4
<1>6. CASE k = m
  <2>1. \A l \in DOMAIN n : i[l] = n[l] + 1
    BY <1>6 DEF ZipAt, Legs!ZipLast
  <2>2. \A l \in DOMAIN n : j[l] = n[l] + 1
    BY <1>3, <2>1
  <2>3. Legs!SomeOut(n, j)
    BY <1>1, <2>2 DEF Legs!SomeOut
  <2> QED
    BY <1>1, <1>4, <1>6, <2>3 DEF ZipAt
<1> QED
  BY <1>1, <1>2, <1>5, <1>6

LEMMA ZipEqual ==
  ASSUME NEW n \in Legs!ZipParams, NEW m, ZipLength(n, m),
         NEW i, NEW j, NEW k, NEW l, ZipAt(n, m, i, k), ZipAt(n, m, j, l)
  PROVE  Legs!ZipSame(n, i, j) <=> k = l
<1>1. /\ m \in Nat /\ k \in Int /\ l \in Int /\ k <= m /\ l <= m
  BY DEF ZipLength, ZipAt
<1>2. PICK h \in DOMAIN n : n[h] = m
  BY DEF ZipLength
<1>3. i[h] = k + 1
  BY <1>1, <1>2 DEF ZipAt, Legs!ZipLast
<1>4. j[h] = l + 1
  BY <1>1, <1>2 DEF ZipAt, Legs!ZipLast
<1>5. k = l => i = j
  BY <1>1 DEF ZipAt
<1>6. i = j => Legs!ZipSame(n, i, j)
  BY DEF Legs!ZipSame
<1>7. Legs!ZipSame(n, i, j) => i[h] = j[h]
  BY <1>2 DEF Legs!ZipSame
<1>8. i[h] = j[h] => k = l
  BY <1>1, <1>3, <1>4
<1> QED
  BY <1>5, <1>6, <1>7, <1>8

\* The iterator of default_if_empty at place k: an element of the range, or of an empty one
\* the default, and then the end.
DefaultCount(n) == IF n = 0 THEN 1 ELSE n

DefaultAt(n, i, k) ==
  /\ k \in 0 .. DefaultCount(n)
  /\ i \in [cur : Int, phase : Int]
  /\ i.cur = IF n = 0 THEN 1 ELSE k + 1
  /\ i.phase = IF k = DefaultCount(n) THEN 2 ELSE IF n = 0 THEN 1 ELSE 0

LEMMA DefaultEnds ==
  ASSUME NEW n \in Legs!DefaultParams
  PROVE  /\ n \in Nat /\ DefaultCount(n) \in Nat
         /\ Len(Legs!DefaultShown(n)) = DefaultCount(n)
         /\ DefaultAt(n, Legs!DefaultFirst(n), 0)
         /\ DefaultAt(n, Legs!DefaultLast(n), DefaultCount(n))
<1>1. n \in Nat /\ DefaultCount(n) \in Nat
  BY LegsAssumption DEF Legs!DefaultParams, Legs!Lens, DefaultCount
<1>2. Len(Legs!DefaultShown(n)) = DefaultCount(n)
  BY <1>1 DEF Legs!DefaultShown, DefaultCount
<1>3. DefaultAt(n, Legs!DefaultFirst(n), 0)
  BY <1>1 DEF DefaultAt, Legs!DefaultFirst, DefaultCount
<1>4. DefaultAt(n, Legs!DefaultLast(n), DefaultCount(n))
  BY <1>1 DEF DefaultAt, Legs!DefaultLast, DefaultCount
<1> QED
  BY <1>1, <1>2, <1>3, <1>4

LEMMA DefaultStep ==
  ASSUME NEW n \in Legs!DefaultParams, NEW i, NEW k, DefaultAt(n, i, k)
  PROVE  DefaultAt(n, Legs!DefaultIncr(n, i), IF k < DefaultCount(n) THEN k + 1 ELSE k)
<1>1. n \in Nat /\ k \in Int /\ DefaultCount(n) = (IF n = 0 THEN 1 ELSE n) /\ 0 <= k /\ k <= DefaultCount(n)
  BY DefaultEnds DEF DefaultAt, DefaultCount
<1>2. i \in [cur : Int, phase : Int]
  BY DEF DefaultAt
<1>3. CASE k < DefaultCount(n) /\ n # 0
  <2>1. i.phase = 0 /\ i.cur = k + 1
    BY <1>1, <1>3 DEF DefaultAt
  <2>2. Legs!DefaultIncr(n, i) = [cur |-> i.cur + 1, phase |-> IF i.cur + 1 = n + 1 THEN 2 ELSE 0]
    BY <2>1 DEF Legs!DefaultIncr
  <2> QED
    BY <1>1, <1>3, <2>1, <2>2 DEF DefaultAt
<1>4. CASE k < DefaultCount(n) /\ n = 0
  <2>1. k = 0 /\ i.phase = 1 /\ i.cur = 1
    BY <1>1, <1>4 DEF DefaultAt
  <2>2. Legs!DefaultIncr(n, i) = [i EXCEPT !.phase = 2]
    BY <2>1 DEF Legs!DefaultIncr
  <2> QED
    BY <1>1, <1>2, <1>4, <2>1, <2>2 DEF DefaultAt
<1>5. CASE k = DefaultCount(n)
  <2>1. i.phase = 2
    BY <1>1, <1>5 DEF DefaultAt
  <2>2. Legs!DefaultIncr(n, i) = i
    BY <2>1 DEF Legs!DefaultIncr
  <2> QED
    BY <1>1, <1>5, <2>2
<1> QED
  BY <1>1, <1>3, <1>4, <1>5

LEMMA DefaultFaithful ==
  ASSUME NEW n \in Legs!DefaultParams, NEW i, NEW k, DefaultAt(n, i, k), k < DefaultCount(n)
  PROVE  Legs!DefaultReads(n, i) = Legs!DefaultShown(n)[k + 1]
<1>1. n \in Nat /\ k \in Int /\ DefaultCount(n) = (IF n = 0 THEN 1 ELSE n) /\ 0 <= k
  BY DefaultEnds DEF DefaultAt, DefaultCount
<1>2. CASE n = 0
  <2>1. k = 0 /\ i.phase = 1
    BY <1>1, <1>2 DEF DefaultAt
  <2>2. Legs!DefaultShown(n) = <<Legs!Default>> /\ Legs!DefaultReads(n, i) = Legs!Default
    BY <1>2, <2>1 DEF Legs!DefaultShown, Legs!DefaultReads
  <2> QED
    BY <2>1, <2>2
<1>3. CASE n # 0
  <2>1. i.cur = k + 1 /\ i.phase = 0 /\ k + 1 \in 1 .. n
    BY <1>1, <1>3 DEF DefaultAt
  <2>2. Legs!DefaultShown(n) = [x \in 1 .. n |-> x] /\ Legs!DefaultReads(n, i) = i.cur
    BY <1>3, <2>1 DEF Legs!DefaultShown, Legs!DefaultReads
  <2> QED
    BY <2>1, <2>2
<1> QED
  BY <1>2, <1>3

LEMMA DefaultEqual ==
  ASSUME NEW n \in Legs!DefaultParams, NEW i, NEW j, NEW k, NEW l, DefaultAt(n, i, k), DefaultAt(n, j, l)
  PROVE  Legs!DefaultSame(n, i, j) <=> k = l
<1>1. /\ n \in Nat /\ k \in Int /\ l \in Int /\ DefaultCount(n) = (IF n = 0 THEN 1 ELSE n)
      /\ 0 <= k /\ 0 <= l /\ k <= DefaultCount(n) /\ l <= DefaultCount(n)
  BY DefaultEnds DEF DefaultAt, DefaultCount
<1> QED
  BY <1>1 DEF DefaultAt, Legs!DefaultSame

\* Sizes are at least 1, and a window is of its size or of what there is.
LEMMA LesserOfTwo ==
  ASSUME NEW c \in Int, NEW d \in Int
  PROVE  Windows!Min({c, d}) = IF c <= d THEN c ELSE d
BY DEF Windows!Min

LEMMA WindowFacts ==
  ASSUME NEW q, q.n \in Nat, q.size \in Nat
  PROVE  /\ Windows!Clamped(q.size) \in Nat /\ Windows!Clamped(q.size) >= 1
         /\ \A x \in 1 .. q.n + 1 :
              /\ Windows!Positions(q, x) \in Seq(Int)
              /\ Len(Windows!Positions(q, x)) =
                   IF Windows!Clamped(q.size) <= q.n + 1 - x THEN Windows!Clamped(q.size) ELSE q.n + 1 - x
              /\ \A k \in 1 .. Len(Windows!Positions(q, x)) : Windows!Positions(q, x)[k] = x + k - 1
<1>1. PICK c \in Nat : c = Windows!Clamped(q.size) /\ c >= 1
  BY DEF Windows!Clamped
<1>2. ASSUME NEW x \in 1 .. q.n + 1
      PROVE  /\ Windows!Positions(q, x) \in Seq(Int)
             /\ Len(Windows!Positions(q, x)) = IF c <= q.n + 1 - x THEN c ELSE q.n + 1 - x
             /\ \A k \in 1 .. Len(Windows!Positions(q, x)) : Windows!Positions(q, x)[k] = x + k - 1
  <2>1. PICK d \in Nat : d = q.n + 1 - x
    OBVIOUS
  <2>2. PICK m \in Nat : m = IF c <= d THEN c ELSE d
    OBVIOUS
  <2>3. Windows!Min({c, d}) = m
    BY <2>2, LesserOfTwo
  <2>4. Windows!Positions(q, x) = [k \in 1 .. m |-> x + k - 1]
    BY <1>1, <2>1, <2>3 DEF Windows!Positions
  <2>5. \A k \in 1 .. m : x + k - 1 \in Int
    OBVIOUS
  <2> HIDE <2>3
  <2>6. Windows!Positions(q, x) \in Seq(Int) /\ Len(Windows!Positions(q, x)) = m
    BY <2>4, <2>5
  <2> QED
    BY <2>1, <2>2, <2>4, <2>6
<1> QED
  BY <1>1, <1>2

\* Where the window for place k begins, of m windows of size c over n elements.
Begins(n, c, m, k) == IF k < m THEN 1 + k * c ELSE n + 1

Counted(n, c, m) == m = (n + c - 1) \div c

Windowing(q, n, c, m) ==
  /\ q.n = n /\ n \in Nat
  /\ Windows!Clamped(q.size) = c /\ c \in Nat /\ c >= 1
  /\ Windows!Multiples(q) = m /\ m \in Nat /\ Counted(n, c, m)

LEMMA WindowingOf ==
  ASSUME NEW q, q.n \in Nat, q.size \in Nat
  PROVE  \E n, c, m \in Nat : Windowing(q, n, c, m)
<1>1. PICK n \in Nat : n = q.n
  OBVIOUS
<1>2. PICK c \in Nat : c = Windows!Clamped(q.size) /\ c >= 1
  BY WindowFacts
<1>3. PICK m \in Nat : Counted(n, c, m)
  BY <1>1, <1>2, MultiplesCounted DEF Counted
<1>4. Windows!Multiples(q) = m
  BY <1>1, <1>2, <1>3 DEF Counted, Windows!Multiples
<1> QED
  BY <1>1, <1>2, <1>3, <1>4 DEF Windowing

LEMMA WindowCut ==
  ASSUME NEW n \in Nat, NEW c \in Nat, c >= 1, NEW m \in Nat, NEW k \in 0 .. m, NEW a \in Nat,
         k < m <=> a < n, NEW x, x = IF a < n THEN 1 + a ELSE n + 1,
         NEW y, y = IF a + c < n THEN 1 + a + c ELSE n + 1
  PROVE  /\ x \in 1 .. n + 1
         /\ k < m <=> x # n + 1
         /\ k < m => y = IF c <= n + 1 - x THEN x + c ELSE n + 1
OBVIOUS

\* Each window begins a size after the one before, but for the end, which is cut.
LEMMA WindowsBegin ==
  ASSUME NEW n \in Nat, NEW c \in Nat, c >= 1, NEW m \in Nat, Counted(n, c, m), NEW k \in 0 .. m
  PROVE  /\ Begins(n, c, m, k) \in 1 .. n + 1
         /\ k < m <=> Begins(n, c, m, k) # n + 1
         /\ k < m => Begins(n, c, m, k + 1) =
                       IF c <= n + 1 - Begins(n, c, m, k) THEN Begins(n, c, m, k) + c ELSE n + 1
<1>1. k \in Nat /\ k + 1 \in Nat
  OBVIOUS
<1>2. (k < m <=> k * c < n) /\ (k + 1 < m <=> (k + 1) * c < n)
  BY <1>1, MultiplesCounted DEF Counted
<1>3. PICK a \in Nat : a = k * c
  BY <1>1
<1>4. (k + 1) * c = a + c
  BY <1>1, <1>3
<1>5. (k < m <=> a < n) /\ (k + 1 < m <=> a + c < n)
  BY <1>2, <1>3, <1>4
<1>6. Begins(n, c, m, k) = IF a < n THEN 1 + a ELSE n + 1
  BY <1>3, <1>5 DEF Begins
<1>7. Begins(n, c, m, k + 1) = IF a + c < n THEN 1 + a + c ELSE n + 1
  <2>1. PICK h \in Nat : h = k + 1
    BY <1>1
  <2>2. h * c = a + c
    BY <1>4, <2>1
  <2>3. h < m <=> a + c < n
    BY <1>5, <2>1
  <2> QED
    BY <2>1, <2>2, <2>3 DEF Begins
<1>8. PICK x : x = Begins(n, c, m, k)
  OBVIOUS
<1>9. PICK y : y = Begins(n, c, m, k + 1)
  OBVIOUS
<1>10. x \in 1 .. n + 1 /\ (k < m <=> x # n + 1) /\ (k < m => y = IF c <= n + 1 - x THEN x + c ELSE n + 1)
  BY <1>1, <1>3, <1>5, <1>6, <1>7, <1>8, <1>9, WindowCut
<1> QED
  BY <1>8, <1>9, <1>10

LEMMA WindowsApart ==
  ASSUME NEW n \in Nat, NEW c \in Nat, c >= 1, NEW m \in Nat, Counted(n, c, m),
         NEW k \in 0 .. m, NEW l \in 0 .. m
  PROVE  Begins(n, c, m, k) = Begins(n, c, m, l) <=> k = l
<1>1. k \in Nat /\ l \in Nat
  OBVIOUS
<1>2. (k < m <=> k * c < n) /\ (l < m <=> l * c < n)
  BY <1>1, MultiplesCounted DEF Counted
<1>3. PICK a \in Nat : a = k * c
  BY <1>1
<1>4. PICK b \in Nat : b = l * c
  BY <1>1
<1>5. k < l => a < b
  <2> SUFFICES ASSUME k < l PROVE a < b
    OBVIOUS
  <2>1. b = a + c + (l - k - 1) * c /\ (l - k - 1) * c >= 0
    BY <1>1, <1>3, <1>4
  <2> QED
    BY <2>1
<1>6. l < k => b < a
  <2> SUFFICES ASSUME l < k PROVE b < a
    OBVIOUS
  <2>1. a = b + c + (k - l - 1) * c /\ (k - l - 1) * c >= 0
    BY <1>1, <1>3, <1>4
  <2> QED
    BY <2>1
<1>7. Begins(n, c, m, k) = (IF k < m THEN 1 + a ELSE n + 1) /\ Begins(n, c, m, l) = (IF l < m THEN 1 + b ELSE n + 1)
  BY <1>3, <1>4 DEF Begins
<1>8. (k < m <=> a < n) /\ (l < m <=> b < n)
  BY <1>2, <1>3, <1>4
<1>9. a \in Nat /\ b \in Nat
  BY <1>3, <1>4
<1> QED
  BY <1>1, <1>5, <1>6, <1>7, <1>8, <1>9

\* An iterator with a window in its buffer, and one at the end.
Buffers(i, a, b) == i = [cur |-> a, buf |-> b, done |-> FALSE]

Done(i) == i.done
Yes == TRUE
No == FALSE

LEMMA BuffersFields ==
  ASSUME NEW a, NEW b, NEW i, Buffers(i, a, b)
  PROVE  i.cur = a /\ i.buf = b /\ Done(i) = No
<1>1. PICK f : f = FALSE
  OBVIOUS
<1>2. i = [cur |-> a, buf |-> b, done |-> f]
  BY <1>1 DEF Buffers
<1>3. i.cur = a /\ i.buf = b /\ i.done = f
  BY <1>2
<1>4. f = No
  BY <1>1, Zenon DEF No
<1>5. Done(i) = f
  BY <1>3, Zenon DEF Done
<1> QED
  BY <1>3, <1>4, <1>5

LEMMA YesIsNotNo == Yes # No
BY DEF Yes, No

LEMMA WindowFilled ==
  ASSUME NEW a, NEW b, NEW f, NEW i, i = [cur |-> a, buf |-> b, done |-> f],
         NEW e, NEW g, NEW j, j = [i EXCEPT !.buf = e, !.done = g]
  PROVE  j = [cur |-> a, buf |-> e, done |-> g]
OBVIOUS

\* The iterator of chunk at place k holds the window that begins there, and is after it.
ChunkAt(q, n, c, m, i, k) ==
  /\ k \in 0 .. m
  /\ k < m => Buffers(i, Begins(n, c, m, k + 1), Windows!Positions(q, Begins(n, c, m, k)))
  /\ k = m => i = Windows!ChunkLast(q)

\* load_chunk() before the window of place k, or at the end.
LEMMA ChunkLoaded ==
  ASSUME NEW q, q.n \in Nat, q.size \in Nat, NEW n, NEW c, NEW m, Windowing(q, n, c, m), NEW k \in 0 .. m,
         NEW i, NEW a, NEW b, NEW f, i = [cur |-> a, buf |-> b, done |-> f], a = Begins(n, c, m, k)
  PROVE  ChunkAt(q, n, c, m, Windows!LoadChunk(q, i), k)
<1>1. n \in Nat /\ c \in Nat /\ c >= 1 /\ m \in Nat /\ q.n = n /\ Windows!Clamped(q.size) = c /\ Counted(n, c, m)
  BY DEF Windowing
<1>2. PICK x \in 1 .. n + 1 : x = a /\ x = Begins(n, c, m, k) /\ (k < m <=> x # n + 1)
  BY <1>1, WindowsBegin
<1>0. i.cur = a
  OBVIOUS
<1>3. i.cur = x
  BY <1>0, <1>2
<1>4. CASE k < m
  <2>1. PICK e : e = Windows!Positions(q, x)
    OBVIOUS
  <2>2. Windows!LoadChunk(q, i) = [cur |-> x + Len(e), buf |-> e, done |-> FALSE]
    BY <1>1, <1>2, <1>3, <1>4, <2>1, Zenon DEF Windows!LoadChunk
  <2>3. Len(e) = IF c <= n + 1 - x THEN c ELSE n + 1 - x
    BY <1>1, <1>2, <2>1, WindowFacts
  <2>4. Begins(n, c, m, k + 1) = IF c <= n + 1 - x THEN x + c ELSE n + 1
    BY <1>1, <1>2, <1>4, WindowsBegin
  <2>5. x + Len(e) = Begins(n, c, m, k + 1)
    BY <1>1, <2>3, <2>4
  <2>6. k # m
    BY <1>1, <1>4
  <2>7. Buffers(Windows!LoadChunk(q, i), x + Len(e), e)
    BY <2>2 DEF Buffers
  <2> QED
    BY <1>2, <1>4, <2>1, <2>5, <2>6, <2>7 DEF ChunkAt
<1>5. CASE k = m
  <2>1. x = n + 1 /\ ~(k < m)
    BY <1>1, <1>2, <1>5
  <2>2. Windows!LoadChunk(q, i) = [i EXCEPT !.buf = <<>>, !.done = TRUE]
    BY <1>1, <1>3, <2>1, Zenon DEF Windows!LoadChunk
  <2>3. Windows!LoadChunk(q, i) = [cur |-> x, buf |-> <<>>, done |-> TRUE]
    BY <1>2, <2>2, WindowFilled
  <2>4. Windows!LoadChunk(q, i) = Windows!ChunkLast(q)
    BY <1>1, <2>1, <2>3 DEF Windows!ChunkLast
  <2> QED
    BY <1>5, <2>1, <2>4 DEF ChunkAt
<1> QED
  BY <1>1, <1>4, <1>5

LEMMA ChunkEnds ==
  ASSUME NEW q, q.n \in Nat, q.size \in Nat, NEW n, NEW c, NEW m, Windowing(q, n, c, m)
  PROVE  /\ Len(Windows!ChunkShown(q)) = m
         /\ ChunkAt(q, n, c, m, Windows!ChunkFirst(q), 0)
         /\ ChunkAt(q, n, c, m, Windows!ChunkLast(q), m)
<1>1. n \in Nat /\ c \in Nat /\ c >= 1 /\ m \in Nat /\ Counted(n, c, m) /\ Windows!Multiples(q) = m
  BY DEF Windowing
<1>2. Len(Windows!ChunkShown(q)) = m
  BY <1>1 DEF Windows!ChunkShown
<1>3. Begins(n, c, m, 0) = 1
  <2>1. 0 * c = 0 /\ 0 \in 0 .. m /\ Begins(n, c, m, 0) \in 1 .. n + 1
    BY <1>1, WindowsBegin
  <2>2. 0 < m \/ m = 0
    BY <1>1
  <2>3. m = 0 => n = 0
    <3>1. 0 < m <=> 0 * c < n
      BY <1>1, MultiplesCounted DEF Counted
    <3> QED
      BY <1>1, <2>1, <3>1
  <2> QED
    BY <2>1, <2>2, <2>3 DEF Begins
<1>4. ChunkAt(q, n, c, m, Windows!ChunkFirst(q), 0)
  BY <1>1, <1>3, ChunkLoaded DEF Windows!ChunkFirst
<1>5. ChunkAt(q, n, c, m, Windows!ChunkLast(q), m)
  BY <1>1 DEF ChunkAt
<1> QED
  BY <1>2, <1>4, <1>5

LEMMA ChunkFields ==
  ASSUME NEW q, NEW n, NEW c, NEW m, NEW i, NEW k, ChunkAt(q, n, c, m, i, k)
  PROVE  /\ k < m => /\ i.cur = Begins(n, c, m, k + 1)
                     /\ i.buf = Windows!Positions(q, Begins(n, c, m, k))
                     /\ Done(i) = No
         /\ k = m => Done(i) = Yes
<1>1. ASSUME k < m
      PROVE  /\ i.cur = Begins(n, c, m, k + 1)
             /\ i.buf = Windows!Positions(q, Begins(n, c, m, k))
             /\ Done(i) = No
  <2>1. Buffers(i, Begins(n, c, m, k + 1), Windows!Positions(q, Begins(n, c, m, k)))
    BY <1>1 DEF ChunkAt
  <2> QED
    BY <2>1, BuffersFields
<1>2. ASSUME k = m PROVE Done(i) = Yes
  <2>1. PICK f : f = TRUE
    OBVIOUS
  <2>2. i = [cur |-> q.n + 1, buf |-> <<>>, done |-> f]
    BY <1>2, <2>1 DEF ChunkAt, Windows!ChunkLast
  <2>3. i.done = f
    BY <2>2
  <2>4. f = Yes
    BY <2>1, Zenon DEF Yes
  <2> QED
    BY <2>3, <2>4, Zenon DEF Done
<1> QED
  BY <1>1, <1>2

LEMMA ChunkStep ==
  ASSUME NEW q, q.n \in Nat, q.size \in Nat, NEW n, NEW c, NEW m, Windowing(q, n, c, m),
         NEW i, NEW k, ChunkAt(q, n, c, m, i, k)
  PROVE  ChunkAt(q, n, c, m, Windows!ChunkIncr(q, i), IF k < m THEN k + 1 ELSE k)
<1>1. m \in Nat /\ k \in 0 .. m
  BY DEF Windowing, ChunkAt
<1>2. CASE k < m
  <2>0. PICK a, b : a = Begins(n, c, m, k + 1) /\ b = Windows!Positions(q, Begins(n, c, m, k))
    OBVIOUS
  <2>1. i = [cur |-> a, buf |-> b, done |-> FALSE]
    BY <1>2, <2>0 DEF ChunkAt, Buffers
  <2>2. Done(i) = No
    BY <1>2, ChunkFields
  <2>3. Windows!ChunkIncr(q, i) = Windows!LoadChunk(q, i)
    BY <2>2, Zenon DEF Windows!ChunkIncr, Done, No
  <2>4. k + 1 \in 0 .. m
    BY <1>1, <1>2
  <2>5. ChunkAt(q, n, c, m, Windows!LoadChunk(q, i), k + 1)
    BY <2>0, <2>1, <2>4, ChunkLoaded
  <2> QED
    BY <1>2, <2>3, <2>5
<1>3. CASE k = m
  <2>2. Done(i) = Yes
    BY <1>3, ChunkFields
  <2>3. Windows!ChunkIncr(q, i) = i
    BY <2>2, Zenon DEF Windows!ChunkIncr, Done, Yes
  <2> QED
    BY <1>1, <1>3, <2>3
<1> QED
  BY <1>1, <1>2, <1>3

LEMMA ChunkFaithful ==
  ASSUME NEW q, q.n \in Nat, q.size \in Nat, NEW n, NEW c, NEW m, Windowing(q, n, c, m),
         NEW i, NEW k, ChunkAt(q, n, c, m, i, k), k < m
  PROVE  Windows!ChunkReads(q, i) = Windows!ChunkShown(q)[k + 1]
<1>1. m \in Nat /\ k \in 0 .. m /\ Windows!Multiples(q) = m /\ Windows!Clamped(q.size) = c
  BY DEF Windowing, ChunkAt
<1>2. PICK h \in 1 .. m : h = k + 1
  BY <1>1
<1>3. Windows!ChunkShown(q)[h] = Windows!Positions(q, 1 + (h - 1) * c)
  BY <1>1, <1>2, Zenon DEF Windows!ChunkShown
<1>4. h - 1 = k
  BY <1>1, <1>2
<1>5. Begins(n, c, m, k) = 1 + k * c
  BY DEF Begins
<1>6. i.buf = Windows!Positions(q, Begins(n, c, m, k))
  BY ChunkFields
<1> QED
  BY <1>2, <1>3, <1>4, <1>5, <1>6, Zenon DEF Windows!ChunkReads

LEMMA ChunkEqual ==
  ASSUME NEW q, q.n \in Nat, q.size \in Nat, NEW n, NEW c, NEW m, Windowing(q, n, c, m),
         NEW i, NEW j, NEW k, NEW l, ChunkAt(q, n, c, m, i, k), ChunkAt(q, n, c, m, j, l)
  PROVE  Windows!ChunkSame(q, i, j) <=> k = l
<1>1. /\ n \in Nat /\ c \in Nat /\ c >= 1 /\ m \in Nat /\ Counted(n, c, m)
      /\ k \in 0 .. m /\ l \in 0 .. m
  BY DEF Windowing, ChunkAt
<1>2. k < m => Done(i) = No /\ i.cur = Begins(n, c, m, k + 1)
  BY ChunkFields
<1>3. l < m => Done(j) = No /\ j.cur = Begins(n, c, m, l + 1)
  BY ChunkFields
<1>4. k = m => Done(i) = Yes
  BY ChunkFields
<1>5. l = m => Done(j) = Yes
  BY ChunkFields
<1>6. k = l => i = j
  <2> SUFFICES ASSUME k = l PROVE i = j
    OBVIOUS
  <2>1. CASE k < m
    <3>1. PICK a, b : Buffers(i, a, b) /\ Buffers(j, a, b)
      BY <2>1 DEF ChunkAt
    <3> QED
      BY <3>1 DEF Buffers
  <2>2. CASE k = m
    BY <2>2 DEF ChunkAt
  <2> QED
    BY <1>1, <2>1, <2>2
<1>7. ASSUME Windows!ChunkSame(q, i, j) PROVE k = l
  <2>1. Done(i) = Done(j) /\ i.cur = j.cur
    BY <1>7, Zenon DEF Windows!ChunkSame, Done
  <2>2. CASE k < m /\ l < m
    <3>1. Begins(n, c, m, k + 1) = Begins(n, c, m, l + 1)
      BY <1>2, <1>3, <2>1, <2>2
    <3>2. k + 1 \in 0 .. m /\ l + 1 \in 0 .. m
      BY <1>1, <2>2
    <3>3. k + 1 = l + 1
      BY <1>1, <3>1, <3>2, WindowsApart
    <3> QED
      BY <1>1, <3>3
  <2>3. ~(k < m /\ l = m)
    BY <1>2, <1>5, <2>1, YesIsNotNo
  <2>4. ~(k = m /\ l < m)
    BY <1>3, <1>4, <2>1, YesIsNotNo
  <2> QED
    BY <1>1, <2>2, <2>3, <2>4
<1>8. i = j => Windows!ChunkSame(q, i, j)
  BY Zenon DEF Windows!ChunkSame
<1> QED
  BY <1>6, <1>7, <1>8, Zenon

\* The iterator of stride at place k is where that begins.
StrideAt(n, c, m, i, k) == k \in 0 .. m /\ i = Begins(n, c, m, k)

LEMMA FirstBegins ==
  ASSUME NEW n \in Nat, NEW c \in Nat, c >= 1, NEW m \in Nat, Counted(n, c, m)
  PROVE  Begins(n, c, m, 0) = 1 /\ Begins(n, c, m, m) = n + 1
<1>1. 0 * c = 0 /\ (0 < m <=> 0 < n)
  <2>1. 0 < m <=> 0 * c < n
    BY MultiplesCounted DEF Counted
  <2> QED
    BY <2>1
<1> QED
  BY <1>1 DEF Begins

LEMMA StrideEnds ==
  ASSUME NEW q, NEW n, NEW c, NEW m, Windowing(q, n, c, m)
  PROVE  /\ Len(Windows!StrideShown(q)) = m
         /\ StrideAt(n, c, m, Windows!StrideFirst(q), 0)
         /\ StrideAt(n, c, m, Windows!StrideLast(q), m)
<1>1. n \in Nat /\ c \in Nat /\ c >= 1 /\ m \in Nat /\ Counted(n, c, m) /\ Windows!Multiples(q) = m /\ q.n = n
  BY DEF Windowing
<1>2. Len(Windows!StrideShown(q)) = m
  BY <1>1 DEF Windows!StrideShown
<1>3. Begins(n, c, m, 0) = 1 /\ Begins(n, c, m, m) = n + 1
  BY <1>1, FirstBegins
<1> QED
  BY <1>1, <1>2, <1>3 DEF StrideAt, Windows!StrideFirst, Windows!StrideLast

LEMMA StrideStep ==
  ASSUME NEW q, q.n \in Nat, q.size \in Nat, NEW n, NEW c, NEW m, Windowing(q, n, c, m),
         NEW i, NEW k, StrideAt(n, c, m, i, k)
  PROVE  StrideAt(n, c, m, Windows!StrideIncr(q, i), IF k < m THEN k + 1 ELSE k)
<1>1. /\ n \in Nat /\ c \in Nat /\ c >= 1 /\ m \in Nat /\ Counted(n, c, m)
      /\ q.n = n /\ Windows!Clamped(q.size) = c
  BY DEF Windowing
<1>2. k \in 0 .. m /\ i = Begins(n, c, m, k)
  BY DEF StrideAt
<1>3. /\ i \in 1 .. n + 1 /\ (k < m <=> i # n + 1)
      /\ k < m => Begins(n, c, m, k + 1) = IF c <= n + 1 - i THEN i + c ELSE n + 1
  BY <1>1, <1>2, WindowsBegin
<1>4. PICK d \in Nat : d = n + 1 - i
  BY <1>1, <1>3
<1>5. PICK e : e = IF c <= d THEN i + c ELSE n + 1
  OBVIOUS
<1>6. i \in Int /\ d \in Int /\ c \in Int
  BY <1>1, <1>3, <1>4
<1>7. Windows!Jump(q, i) = e
  <2>1. Windows!Min({c, d}) = IF c <= d THEN c ELSE d
    BY <1>6, LesserOfTwo
  <2>2. Windows!Jump(q, i) = IF d <= 0 THEN i ELSE i + Windows!Min({c, d})
    BY <1>1, <1>4 DEF Windows!Jump
  <2> QED
    BY <1>1, <1>3, <1>4, <1>5, <1>6, <2>1, <2>2
<1>8. Windows!Walk(q, i) = e
  <2>1. Len(Windows!Positions(q, i)) = IF c <= d THEN c ELSE d
    BY <1>1, <1>3, <1>4, WindowFacts
  <2> QED
    BY <1>1, <1>3, <1>4, <1>5, <1>6, <2>1 DEF Windows!Walk
<1>9. Windows!StrideIncr(q, i) = e
  BY <1>7, <1>8 DEF Windows!StrideIncr
<1>10. k < m => Begins(n, c, m, k + 1) = e
  BY <1>3, <1>4, <1>5
<1>11. k = m => i = e
  BY <1>1, <1>3, <1>4, <1>5, <1>6
<1>12. k < m => k + 1 \in 0 .. m
  BY <1>1, <1>2
<1>13. k < m \/ k = m
  BY <1>1, <1>2
<1> QED
  BY <1>1, <1>2, <1>9, <1>10, <1>11, <1>12, <1>13 DEF StrideAt

LEMMA StrideFaithful ==
  ASSUME NEW q, NEW n, NEW c, NEW m, Windowing(q, n, c, m), NEW i, NEW k, StrideAt(n, c, m, i, k), k < m
  PROVE  Windows!StrideReads(q, i) = Windows!StrideShown(q)[k + 1]
<1>1. m \in Nat /\ k \in 0 .. m /\ Windows!Multiples(q) = m /\ Windows!Clamped(q.size) = c
  BY DEF Windowing, StrideAt
<1>2. PICK h \in 1 .. m : h = k + 1
  BY <1>1
<1>3. Windows!StrideShown(q)[h] = 1 + (h - 1) * c
  BY <1>1, <1>2, Zenon DEF Windows!StrideShown
<1>4. h - 1 = k
  BY <1>1, <1>2
<1>5. i = 1 + k * c
  BY DEF StrideAt, Begins
<1> QED
  BY <1>2, <1>3, <1>4, <1>5, Zenon DEF Windows!StrideReads

LEMMA StrideEqual ==
  ASSUME NEW q, NEW n, NEW c, NEW m, Windowing(q, n, c, m),
         NEW i, NEW j, NEW k, NEW l, StrideAt(n, c, m, i, k), StrideAt(n, c, m, j, l)
  PROVE  Windows!StrideSame(q, i, j) <=> k = l
BY WindowsApart DEF Windowing, StrideAt, Windows!StrideSame

\* The iterator of sliding_window at place k is where the window begins that it holds.
SlidingAt(q, i, k) ==
  /\ k \in 0 .. q.n
  /\ k < q.n => Buffers(i, k + 1, Windows!Positions(q, k + 1))
  /\ k = q.n => Done(i) = Yes

LEMMA WindowRefilled ==
  ASSUME NEW a, NEW b, NEW i, Buffers(i, a, b), NEW e, NEW j, j = [i EXCEPT !.buf = e]
  PROVE  Buffers(j, a, e)
<1>1. PICK f : f = FALSE
  OBVIOUS
<1>2. i = [cur |-> a, buf |-> b, done |-> f]
  BY <1>1 DEF Buffers
<1>3. j = [cur |-> a, buf |-> e, done |-> f]
  BY <1>2
<1> QED
  BY <1>1, <1>3 DEF Buffers

LEMMA WindowShifted ==
  ASSUME NEW a, NEW b, NEW i, Buffers(i, a, b), NEW x, NEW j, j = [i EXCEPT !.cur = x]
  PROVE  Buffers(j, x, b)
<1>1. PICK f : f = FALSE
  OBVIOUS
<1>2. i = [cur |-> a, buf |-> b, done |-> f]
  BY <1>1 DEF Buffers
<1>3. j = [cur |-> x, buf |-> b, done |-> f]
  BY <1>2
<1> QED
  BY <1>1, <1>3 DEF Buffers

LEMMA WindowMoved ==
  ASSUME NEW a, NEW b, NEW f, NEW i, i = [cur |-> a, buf |-> b, done |-> f],
         NEW x, NEW g, NEW j, j = [i EXCEPT !.cur = x, !.done = g]
  PROVE  j.done = g
OBVIOUS

LEMMA WindowLeft ==
  ASSUME NEW a, NEW b, NEW i, Buffers(i, a, b), NEW x, NEW j, j = [i EXCEPT !.cur = x, !.done = TRUE]
  PROVE  Done(j) = Yes
<1>1. PICK f, g : f = FALSE /\ g = TRUE
  OBVIOUS
<1>2. i = [cur |-> a, buf |-> b, done |-> f]
  BY <1>1 DEF Buffers
<1>3. j = [i EXCEPT !.cur = x, !.done = g]
  BY <1>1
<1>4. j.done = g
  BY <1>2, <1>3, WindowMoved
<1>5. g = Yes
  BY <1>1, Zenon DEF Yes
<1> QED
  BY <1>4, <1>5, Zenon DEF Done

LEMMA SlidingEnds ==
  ASSUME NEW q, q.n \in Nat, q.size \in Nat
  PROVE  /\ Len(Windows!SlidingShown(q)) = q.n
         /\ SlidingAt(q, Windows!SlidingFirst(q), 0)
         /\ SlidingAt(q, Windows!SlidingLast(q), q.n)
<1>1. Len(Windows!SlidingShown(q)) = q.n
  BY DEF Windows!SlidingShown
<1>2. ASSUME NEW i, NEW a, NEW b, i = [cur |-> a, buf |-> b, done |-> TRUE] PROVE Done(i) = Yes
  <2>1. PICK f : f = TRUE
    OBVIOUS
  <2>2. i.done = f
    BY <1>2, <2>1
  <2>3. f = Yes
    BY <2>1, Zenon DEF Yes
  <2> QED
    BY <2>2, <2>3, Zenon DEF Done
<1>3. SlidingAt(q, Windows!SlidingLast(q), q.n)
  <2>1. Done(Windows!SlidingLast(q)) = Yes
    BY <1>2 DEF Windows!SlidingLast
  <2> QED
    BY <2>1 DEF SlidingAt
<1>4. SlidingAt(q, Windows!SlidingFirst(q), 0)
  <2>1. CASE q.n = 0
    <3>1. Done(Windows!SlidingFirst(q)) = Yes
      BY <1>2, <2>1 DEF Windows!SlidingFirst
    <3> QED
      BY <2>1, <3>1 DEF SlidingAt
  <2>2. CASE q.n # 0
    <3>1. PICK i : i = [cur |-> 1, buf |-> <<>>, done |-> FALSE]
      OBVIOUS
    <3>2. i.cur = 1
      BY <3>1
    <3>3. Windows!SlidingFirst(q) = [i EXCEPT !.buf = Windows!Positions(q, i.cur)]
      BY <2>2, <3>1, Zenon DEF Windows!SlidingFirst, Windows!LoadWindow
    <3>4. PICK e : e = Windows!Positions(q, 1)
      OBVIOUS
    <3>5. Windows!SlidingFirst(q) = [i EXCEPT !.buf = e]
      BY <3>2, <3>3, <3>4, Zenon
    <3>6. Windows!SlidingFirst(q) = [cur |-> 1, buf |-> e, done |-> FALSE]
      <4>1. PICK f : f = FALSE
        OBVIOUS
      <4>2. PICK j : j = [i EXCEPT !.buf = e]
        OBVIOUS
      <4>3. j = [cur |-> 1, buf |-> e, done |-> f]
        BY <3>1, <4>1, <4>2
      <4> QED
        BY <3>5, <4>1, <4>2, <4>3
    <3>7. 0 + 1 = 1 /\ 0 < q.n /\ 0 \in 0 .. q.n
      BY <2>2
    <3> QED
      BY <2>2, <3>4, <3>6, <3>7 DEF SlidingAt, Buffers
  <2> QED
    BY <2>1, <2>2
<1> QED
  BY <1>1, <1>3, <1>4

LEMMA SlidingStep ==
  ASSUME NEW q, q.n \in Nat, NEW i, NEW k, SlidingAt(q, i, k), k < q.n
  PROVE  SlidingAt(q, Windows!SlidingIncr(q, i), k + 1)
<1>1. PICK h : h = k + 1 /\ h \in 1 .. q.n
  BY DEF SlidingAt
<1>2. PICK b : Buffers(i, h, b)
  BY <1>1 DEF SlidingAt
<1>3. i.cur = h
  BY <1>2, BuffersFields
<1>4. CASE h = q.n
  <2>1. i.cur + 1 = q.n + 1
    BY <1>3, <1>4
  <2>2. PICK j : j = [i EXCEPT !.cur = i.cur + 1, !.done = TRUE]
    OBVIOUS
  <2>3. Windows!SlidingIncr(q, i) = j
    BY <2>1, <2>2, Zenon DEF Windows!SlidingIncr
  <2>4. Done(j) = Yes
    BY <1>2, <2>2, WindowLeft
  <2> QED
    BY <1>1, <1>4, <2>3, <2>4 DEF SlidingAt
<1>5. CASE h # q.n
  <2>1. i.cur + 1 # q.n + 1
    BY <1>1, <1>3, <1>5
  <2>2. PICK x : x = i.cur + 1
    OBVIOUS
  <2>3. PICK j : j = [i EXCEPT !.cur = x]
    OBVIOUS
  <2>4. Windows!SlidingIncr(q, i) = [j EXCEPT !.buf = Windows!Positions(q, j.cur)]
    BY <2>1, <2>2, <2>3, Zenon DEF Windows!SlidingIncr, Windows!LoadWindow
  <2>5. Buffers(j, x, b) /\ j.cur = x
    BY <1>2, <2>3, WindowShifted, BuffersFields
  <2>6. PICK e : e = Windows!Positions(q, x)
    OBVIOUS
  <2>7. PICK y : y = Windows!SlidingIncr(q, i)
    OBVIOUS
  <2>8. Buffers(y, x, e)
    <3>1. y = [j EXCEPT !.buf = e]
      BY <2>4, <2>5, <2>6, <2>7, Zenon
    <3> QED
      BY <2>5, <3>1, WindowRefilled
  <2>9. x = h + 1 /\ h < q.n /\ h \in 0 .. q.n
    BY <1>1, <1>3, <1>5, <2>2
  <2>10. h # q.n
    BY <1>5
  <2>11. SlidingAt(q, Windows!SlidingIncr(q, i), h)
    BY <2>6, <2>7, <2>8, <2>9, <2>10 DEF SlidingAt
  <2> QED
    BY <1>1, <2>11
<1> QED
  BY <1>4, <1>5

LEMMA SlidingFaithful ==
  ASSUME NEW q, q.n \in Nat, q.size \in Nat, NEW i, NEW k, SlidingAt(q, i, k), k < q.n
  PROVE  Windows!SlidingReads(q, i) = Windows!SlidingShown(q)[k + 1]
<1>1. PICK n \in Nat : n = q.n
  OBVIOUS
<1>2. PICK c \in Nat : c = Windows!Clamped(q.size) /\ c >= 1
  BY WindowFacts
<1>3. PICK h \in 1 .. n : h = k + 1
  BY <1>1 DEF SlidingAt
<1>4. i.buf = Windows!Positions(q, h)
  BY <1>3, BuffersFields DEF SlidingAt
<1>5. /\ Windows!Positions(q, h) \in Seq(Int)
      /\ Len(Windows!Positions(q, h)) = IF c <= n + 1 - h THEN c ELSE n + 1 - h
      /\ \A x \in 1 .. Len(Windows!Positions(q, h)) : Windows!Positions(q, h)[x] = h + x - 1
  BY <1>1, <1>2, <1>3, WindowFacts
<1>6. PICK s : s = [x \in 1 .. n |-> x]
  OBVIOUS
<1>7. s \in Seq(Int) /\ Len(s) = n /\ \A x \in 1 .. n : s[x] = x
  BY <1>6
<1>8. h + c - 1 \in Int
  BY <1>2, <1>3
<1>9. PICK t \in Nat : t = IF h + c - 1 <= n THEN h + c - 1 ELSE n
  BY <1>2, <1>3
<1>10. Windows!Min({h + c - 1, n}) = t
  BY <1>8, <1>9, LesserOfTwo
<1>11. Windows!SlidingShown(q)[h] = SubSeq(s, h, t)
  BY <1>1, <1>2, <1>3, <1>6, <1>10 DEF Windows!SlidingShown
<1>12. h <= t /\ t <= n
  BY <1>2, <1>3, <1>9
<1>13. /\ SubSeq(s, h, t) \in Seq(Int) /\ Len(SubSeq(s, h, t)) = t - h + 1
       /\ \A x \in 1 .. t - h + 1 : SubSeq(s, h, t)[x] = h + x - 1
  <2>1. h \in Int /\ t \in Int
    BY <1>3, <1>9
  <2>2. \A x \in h .. t : s[x] \in Int /\ s[x] = x
    BY <1>3, <1>7, <1>12, <2>1
  <2>3. /\ SubSeq(s, h, t) \in Seq(Int)
        /\ Len(SubSeq(s, h, t)) = t - h + 1
        /\ \A x \in 1 .. t - h + 1 : SubSeq(s, h, t)[x] = s[h + x - 1]
    BY <1>12, <2>1, <2>2, SubSeqProperties
  <2>4. \A x \in 1 .. t - h + 1 : h + x - 1 \in h .. t
    BY <2>1
  <2> QED
    BY <2>2, <2>3, <2>4
<1>14. Len(Windows!Positions(q, h)) = t - h + 1
  BY <1>2, <1>3, <1>5, <1>9
<1>15. SubSeq(s, h, t) = Windows!Positions(q, h)
  <2>1. PICK u, v : u = SubSeq(s, h, t) /\ v = Windows!Positions(q, h)
    OBVIOUS
  <2>2. u \in Seq(Int) /\ v \in Seq(Int) /\ Len(u) = Len(v) /\ \A x \in 1 .. Len(u) : u[x] = v[x]
    BY <1>5, <1>13, <1>14, <2>1
  <2>3. u = v
    BY <2>2, SeqEqual
  <2> QED
    BY <2>1, <2>3
<1> QED
  BY <1>3, <1>4, <1>11, <1>15 DEF Windows!SlidingReads

LEMMA SlidingEqual ==
  ASSUME NEW q, q.n \in Nat, NEW i, NEW j, NEW k, NEW l, SlidingAt(q, i, k), SlidingAt(q, j, l)
  PROVE  Windows!SlidingSame(q, i, j) <=> k = l
<1>1. k \in 0 .. q.n /\ l \in 0 .. q.n
  BY DEF SlidingAt
<1>2. k < q.n => Done(i) = No /\ i.cur = k + 1
  BY BuffersFields DEF SlidingAt
<1>3. l < q.n => Done(j) = No /\ j.cur = l + 1
  BY BuffersFields DEF SlidingAt
<1>4. (k = q.n => Done(i) = Yes) /\ (l = q.n => Done(j) = Yes)
  BY DEF SlidingAt
<1>5. Windows!SlidingSame(q, i, j) <=> Done(i) = Done(j) /\ (Done(i) = Yes \/ i.cur = j.cur)
  <2>1. CASE k < q.n
    <3>1. Done(i) = No
      BY <1>2, <2>1
    <3> QED
      BY <3>1, Zenon DEF Windows!SlidingSame, Done, No, Yes
  <2>2. CASE k = q.n
    <3>1. Done(i) = Yes
      BY <1>4, <2>2
    <3> QED
      BY <3>1, Zenon DEF Windows!SlidingSame, Done, Yes
  <2> QED
    BY <1>1, <2>1, <2>2
<1>6. CASE k < q.n /\ l < q.n
  BY <1>1, <1>2, <1>3, <1>5, <1>6, YesIsNotNo
<1>7. CASE k = q.n /\ l = q.n
  BY <1>4, <1>5, <1>7
<1>8. CASE (k < q.n /\ l = q.n) \/ (k = q.n /\ l < q.n)
  BY <1>1, <1>2, <1>3, <1>4, <1>5, <1>8, YesIsNotNo
<1> QED
  BY <1>1, <1>6, <1>7, <1>8

\* The iterator of enumerate at place k has counted to k, but for end(), which has not.
EnumerateAt(n, i, k) ==
  /\ k \in 0 .. n
  /\ i \in [it : Int, n : Int]
  /\ i.it = k + 1
  /\ k < n => i.n = k

LEMMA EnumerateFacts ==
  ASSUME NEW q, q.n \in Nat
  PROVE  /\ Len(Windows!EnumerateShown(q)) = q.n
         /\ EnumerateAt(q.n, Windows!EnumerateFirst(q), 0)
         /\ EnumerateAt(q.n, Windows!EnumerateLast(q), q.n)
         /\ \A i, k : EnumerateAt(q.n, i, k) /\ k < q.n =>
              /\ EnumerateAt(q.n, Windows!EnumerateIncr(q, i), k + 1)
              /\ Windows!EnumerateReads(q, i) = Windows!EnumerateShown(q)[k + 1]
         /\ \A i, j, k, l : EnumerateAt(q.n, i, k) /\ EnumerateAt(q.n, j, l) =>
              (Windows!EnumerateSame(q, i, j) <=> k = l)
<1>1. PICK n \in Nat : n = q.n
  OBVIOUS
<1>2. Len(Windows!EnumerateShown(q)) = n
  BY <1>1 DEF Windows!EnumerateShown
<1>3. EnumerateAt(n, Windows!EnumerateFirst(q), 0) /\ EnumerateAt(n, Windows!EnumerateLast(q), n)
  BY <1>1 DEF EnumerateAt, Windows!EnumerateFirst, Windows!EnumerateLast
<1>4. ASSUME NEW i, NEW k, EnumerateAt(n, i, k), k < n
      PROVE  /\ EnumerateAt(n, Windows!EnumerateIncr(q, i), k + 1)
             /\ Windows!EnumerateReads(q, i) = Windows!EnumerateShown(q)[k + 1]
  <2>1. k \in Nat /\ i \in [it : Int, n : Int] /\ i.it = k + 1 /\ i.n = k
    BY <1>4 DEF EnumerateAt
  <2>2. EnumerateAt(n, Windows!EnumerateIncr(q, i), k + 1)
    BY <1>4, <2>1 DEF EnumerateAt, Windows!EnumerateIncr
  <2>3. PICK h \in 1 .. n : h = k + 1
    BY <1>4, <2>1
  <2>4. Windows!EnumerateShown(q)[h] = <<h - 1, h>>
    BY <1>1, <2>3, Zenon DEF Windows!EnumerateShown
  <2>5. h - 1 = k
    BY <2>1, <2>3
  <2>6. Windows!EnumerateReads(q, i) = <<k, h>>
    BY <2>1, <2>3 DEF Windows!EnumerateReads
  <2> QED
    BY <2>2, <2>3, <2>4, <2>5, <2>6
<1>5. ASSUME NEW i, NEW j, NEW k, NEW l, EnumerateAt(n, i, k), EnumerateAt(n, j, l)
      PROVE  Windows!EnumerateSame(q, i, j) <=> k = l
  BY <1>5 DEF EnumerateAt, Windows!EnumerateSame
<1> QED
  BY <1>1, <1>2, <1>3, <1>4, <1>5

-----------------------------------------------------------------------------
(* All seven views: the inductive invariant.                               *)

\* The iterator i of the view v made of p is at place k.
Placed(v, p, i, k) ==
  /\ k \in Nat
  /\ v = "concat" => ConcatAt(p, i, k)
  /\ v = "zip" => \E m : ZipLength(p, m) /\ ZipAt(p, m, i, k)
  /\ v = "default_if_empty" => DefaultAt(p, i, k)
  /\ v = "chunk" => \E n, c, m : Windowing(p, n, c, m) /\ ChunkAt(p, n, c, m, i, k)
  /\ v = "stride" => \E n, c, m : Windowing(p, n, c, m) /\ StrideAt(n, c, m, i, k)
  /\ v = "sliding_window" => SlidingAt(p, i, k)
  /\ v = "enumerate" => EnumerateAt(p.n, i, k)

MadeOf(v, p) ==
  \/ v = "concat" /\ p \in Legs!ConcatParams
  \/ v = "zip" /\ p \in Legs!ZipParams
  \/ v = "default_if_empty" /\ p \in Legs!DefaultParams
  \/ v = "chunk" /\ p \in Windows!SizedParams
  \/ v = "stride" /\ p \in Windows!StrideParams
  \/ v = "sliding_window" /\ p \in Windows!SizedParams
  \/ v = "enumerate" /\ p \in Windows!EnumerateParams

LEMMA ConcatRules ==
  ASSUME NEW p \in Legs!ConcatParams
  PROVE  /\ Placed("concat", p, Legs!ConcatFirst(p), 0)
         /\ Placed("concat", p, Legs!ConcatLast(p), Len(Legs!ConcatShown(p)))
         /\ \A i, k : Placed("concat", p, i, k) =>
              /\ k \in Int
              /\ k < Len(Legs!ConcatShown(p)) =>
                   /\ Placed("concat", p, Legs!ConcatIncr(p, i), k + 1)
                   /\ Legs!ConcatReads(p, i) = Legs!ConcatShown(p)[k + 1]
              /\ k = Len(Legs!ConcatShown(p)) => Placed("concat", p, Legs!ConcatIncr(p, i), k)
         /\ \A i, j, k, l : Placed("concat", p, i, k) /\ Placed("concat", p, j, l) =>
              (Legs!ConcatSame(p, i, j) <=> k = l)
<1>1. p[1] \in Nat /\ p[2] \in Nat /\ Len(Legs!ConcatShown(p)) = p[1] + p[2]
  BY ConcatEnds
<1>2. \A i, k : Placed("concat", p, i, k) <=> ConcatAt(p, i, k)
  BY <1>1 DEF Placed, ConcatAt
<1>3. \A i, k : ConcatAt(p, i, k) => k \in Int
  BY <1>1 DEF ConcatAt
<1>4. ASSUME NEW i, NEW k, ConcatAt(p, i, k), k < p[1] + p[2]
      PROVE  /\ ConcatAt(p, Legs!ConcatIncr(p, i), k + 1)
             /\ Legs!ConcatReads(p, i) = Legs!ConcatShown(p)[k + 1]
  BY <1>4, ConcatStep, ConcatFaithful
<1>5. ASSUME NEW i, NEW k, ConcatAt(p, i, k), k = p[1] + p[2]
      PROVE  ConcatAt(p, Legs!ConcatIncr(p, i), k)
  <2>1. ~(k < p[1] + p[2])
    BY <1>1, <1>5
  <2> QED
    BY <1>5, <2>1, ConcatStep
<1>6. \A i, j, k, l : ConcatAt(p, i, k) /\ ConcatAt(p, j, l) => (Legs!ConcatSame(p, i, j) <=> k = l)
  BY ConcatEqual
<1>7. ConcatAt(p, Legs!ConcatFirst(p), 0) /\ ConcatAt(p, Legs!ConcatLast(p), p[1] + p[2])
  BY ConcatEnds
<1> QED
  BY <1>1, <1>2, <1>3, <1>4, <1>5, <1>6, <1>7

LEMMA ZipRules ==
  ASSUME NEW p \in Legs!ZipParams
  PROVE  /\ Placed("zip", p, Legs!ZipFirst(p), 0)
         /\ Placed("zip", p, Legs!ZipLast(p), Len(Legs!ZipShown(p)))
         /\ \A i, k : Placed("zip", p, i, k) =>
              /\ k \in Int
              /\ k < Len(Legs!ZipShown(p)) =>
                   /\ Placed("zip", p, Legs!ZipIncr(p, i), k + 1)
                   /\ Legs!ZipReads(p, i) = Legs!ZipShown(p)[k + 1]
              /\ k = Len(Legs!ZipShown(p)) => Placed("zip", p, Legs!ZipIncr(p, i), k)
         /\ \A i, j, k, l : Placed("zip", p, i, k) /\ Placed("zip", p, j, l) =>
              (Legs!ZipSame(p, i, j) <=> k = l)
<1>1. PICK m \in Nat : /\ ZipLength(p, m)
                      /\ Len(Legs!ZipShown(p)) = m
                      /\ \A k \in 1 .. m : Legs!ZipShown(p)[k] = [l \in DOMAIN p |-> k]
  BY ZipLeast
<1>2. \A i, k : Placed("zip", p, i, k) <=> ZipAt(p, m, i, k)
  <2>1. \A h : ZipLength(p, h) => h = m
    BY <1>1 DEF ZipLength
  <2> QED
    BY <1>1, <2>1 DEF Placed, ZipAt
<1>3. \A i, k : ZipAt(p, m, i, k) => k \in Int /\ k \in 0 .. m
  BY <1>1 DEF ZipAt
<1>4. ASSUME NEW i, NEW k, ZipAt(p, m, i, k), k < m
      PROVE  Legs!ZipReads(p, i) = Legs!ZipShown(p)[k + 1]
  <2>1. PICK h \in 1 .. m : h = k + 1
    BY <1>1, <1>3, <1>4
  <2>2. i = [l \in DOMAIN p |-> h]
    BY <1>4, <2>1 DEF ZipAt
  <2>3. Legs!ZipShown(p)[h] = [l \in DOMAIN p |-> h]
    BY <1>1
  <2> QED
    BY <2>1, <2>2, <2>3 DEF Legs!ZipReads
<1> QED
  BY <1>1, <1>2, <1>3, <1>4, ZipEnds, ZipStep, ZipEqual

LEMMA DefaultRules ==
  ASSUME NEW p \in Legs!DefaultParams
  PROVE  /\ Placed("default_if_empty", p, Legs!DefaultFirst(p), 0)
         /\ Placed("default_if_empty", p, Legs!DefaultLast(p), Len(Legs!DefaultShown(p)))
         /\ \A i, k : Placed("default_if_empty", p, i, k) =>
              /\ k \in Int
              /\ k < Len(Legs!DefaultShown(p)) =>
                   /\ Placed("default_if_empty", p, Legs!DefaultIncr(p, i), k + 1)
                   /\ Legs!DefaultReads(p, i) = Legs!DefaultShown(p)[k + 1]
              /\ k = Len(Legs!DefaultShown(p)) => Placed("default_if_empty", p, Legs!DefaultIncr(p, i), k)
         /\ \A i, j, k, l : Placed("default_if_empty", p, i, k) /\ Placed("default_if_empty", p, j, l) =>
              (Legs!DefaultSame(p, i, j) <=> k = l)
<1>1. Len(Legs!DefaultShown(p)) = DefaultCount(p) /\ DefaultCount(p) \in Nat
  BY DefaultEnds
<1>2. \A i, k : Placed("default_if_empty", p, i, k) <=> DefaultAt(p, i, k)
  BY <1>1 DEF Placed, DefaultAt
<1>3. \A i, k : DefaultAt(p, i, k) => k \in Int
  BY <1>1 DEF DefaultAt
<1> QED
  BY <1>1, <1>2, <1>3, DefaultEnds, DefaultStep, DefaultFaithful, DefaultEqual

LEMMA ChunkRules ==
  ASSUME NEW p \in Windows!SizedParams
  PROVE  /\ Placed("chunk", p, Windows!ChunkFirst(p), 0)
         /\ Placed("chunk", p, Windows!ChunkLast(p), Len(Windows!ChunkShown(p)))
         /\ \A i, k : Placed("chunk", p, i, k) =>
              /\ k \in Int
              /\ k < Len(Windows!ChunkShown(p)) =>
                   /\ Placed("chunk", p, Windows!ChunkIncr(p, i), k + 1)
                   /\ Windows!ChunkReads(p, i) = Windows!ChunkShown(p)[k + 1]
              /\ k = Len(Windows!ChunkShown(p)) => Placed("chunk", p, Windows!ChunkIncr(p, i), k)
         /\ \A i, j, k, l : Placed("chunk", p, i, k) /\ Placed("chunk", p, j, l) =>
              (Windows!ChunkSame(p, i, j) <=> k = l)
<1>1. p.n \in Nat /\ p.size \in Nat
  BY LegsAssumption DEF Windows!SizedParams
<1>2. PICK n, c, m \in Nat : Windowing(p, n, c, m)
  BY <1>1, WindowingOf
<1>3. \A i, k : Placed("chunk", p, i, k) <=> ChunkAt(p, n, c, m, i, k)
  <2>1. \A x, y, z : Windowing(p, x, y, z) => x = n /\ y = c /\ z = m
    BY <1>2 DEF Windowing
  <2> QED
    BY <1>2, <2>1 DEF Placed, ChunkAt
<1>4. \A i, k : ChunkAt(p, n, c, m, i, k) => k \in Int
  BY <1>2 DEF ChunkAt
<1>5. Len(Windows!ChunkShown(p)) = m
  BY <1>1, <1>2, ChunkEnds
<1>6. ASSUME NEW i, NEW k, ChunkAt(p, n, c, m, i, k), k < m
      PROVE  /\ ChunkAt(p, n, c, m, Windows!ChunkIncr(p, i), k + 1)
             /\ Windows!ChunkReads(p, i) = Windows!ChunkShown(p)[k + 1]
  BY <1>1, <1>2, <1>6, ChunkStep, ChunkFaithful
<1>7. ASSUME NEW i, NEW k, ChunkAt(p, n, c, m, i, k), k = m
      PROVE  ChunkAt(p, n, c, m, Windows!ChunkIncr(p, i), k)
  <2>1. ~(k < m)
    BY <1>2, <1>7
  <2> QED
    BY <1>1, <1>2, <1>7, <2>1, ChunkStep
<1>8. ASSUME NEW i, NEW j, NEW k, NEW l, ChunkAt(p, n, c, m, i, k), ChunkAt(p, n, c, m, j, l)
      PROVE  Windows!ChunkSame(p, i, j) <=> k = l
  BY <1>1, <1>2, <1>8, ChunkEqual
<1>9. /\ ChunkAt(p, n, c, m, Windows!ChunkFirst(p), 0)
      /\ ChunkAt(p, n, c, m, Windows!ChunkLast(p), m)
  BY <1>1, <1>2, ChunkEnds
<1> QED
  BY <1>2, <1>3, <1>4, <1>5, <1>6, <1>7, <1>8, <1>9

LEMMA StrideRules ==
  ASSUME NEW p \in Windows!StrideParams
  PROVE  /\ Placed("stride", p, Windows!StrideFirst(p), 0)
         /\ Placed("stride", p, Windows!StrideLast(p), Len(Windows!StrideShown(p)))
         /\ \A i, k : Placed("stride", p, i, k) =>
              /\ k \in Int
              /\ k < Len(Windows!StrideShown(p)) =>
                   /\ Placed("stride", p, Windows!StrideIncr(p, i), k + 1)
                   /\ Windows!StrideReads(p, i) = Windows!StrideShown(p)[k + 1]
              /\ k = Len(Windows!StrideShown(p)) => Placed("stride", p, Windows!StrideIncr(p, i), k)
         /\ \A i, j, k, l : Placed("stride", p, i, k) /\ Placed("stride", p, j, l) =>
              (Windows!StrideSame(p, i, j) <=> k = l)
<1>1. p.n \in Nat /\ p.size \in Nat
  BY LegsAssumption DEF Windows!StrideParams
<1>2. PICK n, c, m \in Nat : Windowing(p, n, c, m)
  BY <1>1, WindowingOf
<1>3. \A i, k : Placed("stride", p, i, k) <=> StrideAt(n, c, m, i, k)
  <2>1. \A x, y, z : Windowing(p, x, y, z) => x = n /\ y = c /\ z = m
    BY <1>2 DEF Windowing
  <2> QED
    BY <1>2, <2>1 DEF Placed, StrideAt
<1>4. \A i, k : StrideAt(n, c, m, i, k) => k \in Int
  BY <1>2 DEF StrideAt
<1>5. Len(Windows!StrideShown(p)) = m
  BY <1>1, <1>2, StrideEnds
<1>6. ASSUME NEW i, NEW k, StrideAt(n, c, m, i, k), k < m
      PROVE  /\ StrideAt(n, c, m, Windows!StrideIncr(p, i), k + 1)
             /\ Windows!StrideReads(p, i) = Windows!StrideShown(p)[k + 1]
  BY <1>1, <1>2, <1>6, StrideStep, StrideFaithful
<1>7. ASSUME NEW i, NEW k, StrideAt(n, c, m, i, k), k = m
      PROVE  StrideAt(n, c, m, Windows!StrideIncr(p, i), k)
  <2>1. ~(k < m)
    BY <1>2, <1>7
  <2> QED
    BY <1>1, <1>2, <1>7, <2>1, StrideStep
<1>8. ASSUME NEW i, NEW j, NEW k, NEW l, StrideAt(n, c, m, i, k), StrideAt(n, c, m, j, l)
      PROVE  Windows!StrideSame(p, i, j) <=> k = l
  BY <1>1, <1>2, <1>8, StrideEqual
<1>9. /\ StrideAt(n, c, m, Windows!StrideFirst(p), 0)
      /\ StrideAt(n, c, m, Windows!StrideLast(p), m)
  BY <1>1, <1>2, StrideEnds
<1> QED
  BY <1>2, <1>3, <1>4, <1>5, <1>6, <1>7, <1>8, <1>9

LEMMA SlidingRules ==
  ASSUME NEW p \in Windows!SizedParams
  PROVE  /\ Placed("sliding_window", p, Windows!SlidingFirst(p), 0)
         /\ Placed("sliding_window", p, Windows!SlidingLast(p), Len(Windows!SlidingShown(p)))
         /\ \A i, k : Placed("sliding_window", p, i, k) =>
              /\ k \in Int
              /\ k < Len(Windows!SlidingShown(p)) =>
                   /\ Placed("sliding_window", p, Windows!SlidingIncr(p, i), k + 1)
                   /\ Windows!SlidingReads(p, i) = Windows!SlidingShown(p)[k + 1]
         /\ \A i, j, k, l : Placed("sliding_window", p, i, k) /\ Placed("sliding_window", p, j, l) =>
              (Windows!SlidingSame(p, i, j) <=> k = l)
<1>1. p.n \in Nat /\ p.size \in Nat
  BY LegsAssumption DEF Windows!SizedParams
<1>2. \A i, k : Placed("sliding_window", p, i, k) <=> SlidingAt(p, i, k)
  BY <1>1 DEF Placed, SlidingAt
<1>3. \A i, k : SlidingAt(p, i, k) => k \in Int
  BY DEF SlidingAt
<1>4. Len(Windows!SlidingShown(p)) = p.n
  BY <1>1, SlidingEnds
<1> QED
  BY <1>1, <1>2, <1>3, <1>4, SlidingEnds, SlidingStep, SlidingFaithful, SlidingEqual

LEMMA EnumerateRules ==
  ASSUME NEW p \in Windows!EnumerateParams
  PROVE  /\ Placed("enumerate", p, Windows!EnumerateFirst(p), 0)
         /\ Placed("enumerate", p, Windows!EnumerateLast(p), Len(Windows!EnumerateShown(p)))
         /\ \A i, k : Placed("enumerate", p, i, k) =>
              /\ k \in Int
              /\ k < Len(Windows!EnumerateShown(p)) =>
                   /\ Placed("enumerate", p, Windows!EnumerateIncr(p, i), k + 1)
                   /\ Windows!EnumerateReads(p, i) = Windows!EnumerateShown(p)[k + 1]
         /\ \A i, j, k, l : Placed("enumerate", p, i, k) /\ Placed("enumerate", p, j, l) =>
              (Windows!EnumerateSame(p, i, j) <=> k = l)
<1>1. p.n \in Nat
  BY LegsAssumption DEF Windows!EnumerateParams
<1>2. \A i, k : Placed("enumerate", p, i, k) <=> EnumerateAt(p.n, i, k)
  BY <1>1 DEF Placed, EnumerateAt
<1>3. \A i, k : EnumerateAt(p.n, i, k) => k \in Int
  BY DEF EnumerateAt
<1>4. /\ Len(Windows!EnumerateShown(p)) = p.n
      /\ EnumerateAt(p.n, Windows!EnumerateFirst(p), 0)
      /\ EnumerateAt(p.n, Windows!EnumerateLast(p), p.n)
  BY <1>1, EnumerateFacts
<1>5. \A i, k : EnumerateAt(p.n, i, k) /\ k < p.n =>
        /\ EnumerateAt(p.n, Windows!EnumerateIncr(p, i), k + 1)
        /\ Windows!EnumerateReads(p, i) = Windows!EnumerateShown(p)[k + 1]
  BY <1>1, EnumerateFacts
<1>6. \A i, j, k, l : EnumerateAt(p.n, i, k) /\ EnumerateAt(p.n, j, l) =>
        (Windows!EnumerateSame(p, i, j) <=> k = l)
  BY <1>1, EnumerateFacts
<1> QED
  BY <1>2, <1>3, <1>4, <1>5, <1>6

CombinedInv ==
  /\ MadeOf(combined, params)
  /\ iters = [c \in Walkers |-> iters[c]]
  /\ spots \in [Walkers -> Int]
  /\ \A c \in Walkers : spots[c] # -1 => Placed(combined, params, iters[c], spots[c])

\* An iterator takes a place.
Puts(c, i, k) ==
  /\ iters' = [iters EXCEPT ![c] = i]
  /\ spots' = [spots EXCEPT ![c] = k]
  /\ params' = params

LEMMA PutKeeps ==
  ASSUME CombinedInv, NEW c \in Walkers, NEW i, NEW k \in Int, Placed(combined, params, i, k), Puts(c, i, k),
         combined' = combined
  PROVE  CombinedInv'
<1>1. MadeOf(combined, params)'
  BY DEF CombinedInv, Puts
<1>2. iters' = [d \in Walkers |-> iters'[d]] /\ spots' \in [Walkers -> Int]
  BY DEF CombinedInv, Puts
<1>3. ASSUME NEW d \in Walkers, spots'[d] # -1 PROVE Placed(combined, params, iters'[d], spots'[d])
  <2>1. CASE d = c
    BY <2>1 DEF CombinedInv, Puts
  <2>2. CASE d # c
    BY <1>3, <2>2 DEF CombinedInv, Puts
  <2> QED
    BY <2>1, <2>2
<1> QED
  BY <1>1, <1>2, <1>3 DEF CombinedInv, Puts

LEMMA ConcatKept ==
  ASSUME CombinedInv, combined = "concat", Concat!Next, combined' = combined
  PROVE  CombinedInv'
<1>1. params \in Legs!ConcatParams
  BY DEF CombinedInv, MadeOf
<1>2. PICK c \in Walkers : \/ Concat!Begin(c) \/ Concat!End(c) \/ Concat!Inc(c)
                           \/ \E d \in Walkers : Concat!Copy(c, d)
  BY DEF Concat!Next
<1>3. CASE Concat!Begin(c)
  <2>1. Puts(c, Legs!ConcatFirst(params), 0)
    BY <1>3 DEF Concat!Begin, Concat!Put, Puts
  <2> QED
    BY <1>1, <2>1, ConcatRules, PutKeeps
<1>4. CASE Concat!End(c)
  <2>1. Puts(c, Legs!ConcatLast(params), Len(Legs!ConcatShown(params)))
    BY <1>4 DEF Concat!End, Concat!Put, Puts
  <2>2. Placed(combined, params, Legs!ConcatLast(params), Len(Legs!ConcatShown(params)))
    BY <1>1, ConcatRules
  <2>3. Len(Legs!ConcatShown(params)) \in Int
    BY <2>2 DEF Placed
  <2> QED
    BY <2>1, <2>2, <2>3, PutKeeps
<1>5. CASE Concat!Inc(c)
  <2>1. spots[c] \in Int /\ Placed(combined, params, iters[c], spots[c])
    BY <1>5 DEF CombinedInv, Concat!Inc, Concat!Live, Concat!Unborn
  <2>2. PICK k \in Int : /\ Puts(c, Legs!ConcatIncr(params, iters[c]), k)
                        /\ Placed(combined, params, Legs!ConcatIncr(params, iters[c]), k)
    <3>1. CASE /\ spots[c] < Len(Legs!ConcatShown(params))
               /\ Puts(c, Legs!ConcatIncr(params, iters[c]), spots[c] + 1)
      BY <1>1, <2>1, <3>1, ConcatRules
    <3>2. CASE /\ spots[c] = Len(Legs!ConcatShown(params))
               /\ Puts(c, Legs!ConcatIncr(params, iters[c]), spots[c])
      BY <1>1, <2>1, <3>2, ConcatRules
    <3> QED
      BY <1>5, <3>1, <3>2 DEF Concat!Inc, Concat!Put, Puts
  <2> QED
    BY <2>2, PutKeeps
<1>6. ASSUME NEW d \in Walkers, Concat!Copy(c, d) PROVE CombinedInv'
  <2>1. spots[d] \in Int /\ Placed(combined, params, iters[d], spots[d])
    BY <1>6 DEF CombinedInv, Concat!Copy, Concat!Live, Concat!Unborn
  <2>2. Puts(c, iters[d], spots[d])
    BY <1>6 DEF Concat!Copy, Concat!Put, Puts
  <2> QED
    BY <2>1, <2>2, PutKeeps
<1> QED
  BY <1>2, <1>3, <1>4, <1>5, <1>6

LEMMA ZipKept ==
  ASSUME CombinedInv, combined = "zip", Zipped!Next, combined' = combined
  PROVE  CombinedInv'
<1>1. params \in Legs!ZipParams
  BY DEF CombinedInv, MadeOf
<1>2. PICK c \in Walkers : \/ Zipped!Begin(c) \/ Zipped!End(c) \/ Zipped!Inc(c)
                           \/ \E d \in Walkers : Zipped!Copy(c, d)
  BY DEF Zipped!Next
<1>3. CASE Zipped!Begin(c)
  <2>1. Puts(c, Legs!ZipFirst(params), 0)
    BY <1>3 DEF Zipped!Begin, Zipped!Put, Puts
  <2> QED
    BY <1>1, <2>1, ZipRules, PutKeeps
<1>4. CASE Zipped!End(c)
  <2>1. Puts(c, Legs!ZipLast(params), Len(Legs!ZipShown(params)))
    BY <1>4 DEF Zipped!End, Zipped!Put, Puts
  <2>2. Placed(combined, params, Legs!ZipLast(params), Len(Legs!ZipShown(params)))
    BY <1>1, ZipRules
  <2>3. Len(Legs!ZipShown(params)) \in Int
    BY <2>2 DEF Placed
  <2> QED
    BY <2>1, <2>2, <2>3, PutKeeps
<1>5. CASE Zipped!Inc(c)
  <2>1. spots[c] \in Int /\ Placed(combined, params, iters[c], spots[c])
    BY <1>5 DEF CombinedInv, Zipped!Inc, Zipped!Live, Zipped!Unborn
  <2>2. PICK k \in Int : /\ Puts(c, Legs!ZipIncr(params, iters[c]), k)
                        /\ Placed(combined, params, Legs!ZipIncr(params, iters[c]), k)
    <3>1. CASE /\ spots[c] < Len(Legs!ZipShown(params))
               /\ Puts(c, Legs!ZipIncr(params, iters[c]), spots[c] + 1)
      BY <1>1, <2>1, <3>1, ZipRules
    <3>2. CASE /\ spots[c] = Len(Legs!ZipShown(params))
               /\ Puts(c, Legs!ZipIncr(params, iters[c]), spots[c])
      BY <1>1, <2>1, <3>2, ZipRules
    <3> QED
      BY <1>5, <3>1, <3>2 DEF Zipped!Inc, Zipped!Put, Puts
  <2> QED
    BY <2>2, PutKeeps
<1>6. ASSUME NEW d \in Walkers, Zipped!Copy(c, d) PROVE CombinedInv'
  <2>1. spots[d] \in Int /\ Placed(combined, params, iters[d], spots[d])
    BY <1>6 DEF CombinedInv, Zipped!Copy, Zipped!Live, Zipped!Unborn
  <2>2. Puts(c, iters[d], spots[d])
    BY <1>6 DEF Zipped!Copy, Zipped!Put, Puts
  <2> QED
    BY <2>1, <2>2, PutKeeps
<1> QED
  BY <1>2, <1>3, <1>4, <1>5, <1>6

LEMMA DefaultKept ==
  ASSUME CombinedInv, combined = "default_if_empty", OrDefault!Next, combined' = combined
  PROVE  CombinedInv'
<1>1. params \in Legs!DefaultParams
  BY DEF CombinedInv, MadeOf
<1>2. PICK c \in Walkers : \/ OrDefault!Begin(c) \/ OrDefault!End(c) \/ OrDefault!Inc(c)
                           \/ \E d \in Walkers : OrDefault!Copy(c, d)
  BY DEF OrDefault!Next
<1>3. CASE OrDefault!Begin(c)
  <2>1. Puts(c, Legs!DefaultFirst(params), 0)
    BY <1>3 DEF OrDefault!Begin, OrDefault!Put, Puts
  <2> QED
    BY <1>1, <2>1, DefaultRules, PutKeeps
<1>4. CASE OrDefault!End(c)
  <2>1. Puts(c, Legs!DefaultLast(params), Len(Legs!DefaultShown(params)))
    BY <1>4 DEF OrDefault!End, OrDefault!Put, Puts
  <2>2. Placed(combined, params, Legs!DefaultLast(params), Len(Legs!DefaultShown(params)))
    BY <1>1, DefaultRules
  <2>3. Len(Legs!DefaultShown(params)) \in Int
    BY <2>2 DEF Placed
  <2> QED
    BY <2>1, <2>2, <2>3, PutKeeps
<1>5. CASE OrDefault!Inc(c)
  <2>1. spots[c] \in Int /\ Placed(combined, params, iters[c], spots[c])
    BY <1>5 DEF CombinedInv, OrDefault!Inc, OrDefault!Live, OrDefault!Unborn
  <2>2. PICK k \in Int : /\ Puts(c, Legs!DefaultIncr(params, iters[c]), k)
                        /\ Placed(combined, params, Legs!DefaultIncr(params, iters[c]), k)
    <3>1. CASE /\ spots[c] < Len(Legs!DefaultShown(params))
               /\ Puts(c, Legs!DefaultIncr(params, iters[c]), spots[c] + 1)
      BY <1>1, <2>1, <3>1, DefaultRules
    <3>2. CASE /\ spots[c] = Len(Legs!DefaultShown(params))
               /\ Puts(c, Legs!DefaultIncr(params, iters[c]), spots[c])
      BY <1>1, <2>1, <3>2, DefaultRules
    <3> QED
      BY <1>5, <3>1, <3>2 DEF OrDefault!Inc, OrDefault!Put, Puts
  <2> QED
    BY <2>2, PutKeeps
<1>6. ASSUME NEW d \in Walkers, OrDefault!Copy(c, d) PROVE CombinedInv'
  <2>1. spots[d] \in Int /\ Placed(combined, params, iters[d], spots[d])
    BY <1>6 DEF CombinedInv, OrDefault!Copy, OrDefault!Live, OrDefault!Unborn
  <2>2. Puts(c, iters[d], spots[d])
    BY <1>6 DEF OrDefault!Copy, OrDefault!Put, Puts
  <2> QED
    BY <2>1, <2>2, PutKeeps
<1> QED
  BY <1>2, <1>3, <1>4, <1>5, <1>6

LEMMA ChunkKept ==
  ASSUME CombinedInv, combined = "chunk", Chunk!Next, combined' = combined
  PROVE  CombinedInv'
<1>1. params \in Windows!SizedParams
  BY DEF CombinedInv, MadeOf
<1>2. PICK c \in Walkers : \/ Chunk!Begin(c) \/ Chunk!End(c) \/ Chunk!Inc(c)
                           \/ \E d \in Walkers : Chunk!Copy(c, d)
  BY DEF Chunk!Next
<1>3. CASE Chunk!Begin(c)
  <2>1. Puts(c, Windows!ChunkFirst(params), 0)
    BY <1>3 DEF Chunk!Begin, Chunk!Put, Puts
  <2> QED
    BY <1>1, <2>1, ChunkRules, PutKeeps
<1>4. CASE Chunk!End(c)
  <2>1. Puts(c, Windows!ChunkLast(params), Len(Windows!ChunkShown(params)))
    BY <1>4 DEF Chunk!End, Chunk!Put, Puts
  <2>2. Placed(combined, params, Windows!ChunkLast(params), Len(Windows!ChunkShown(params)))
    BY <1>1, ChunkRules
  <2>3. Len(Windows!ChunkShown(params)) \in Int
    BY <2>2 DEF Placed
  <2> QED
    BY <2>1, <2>2, <2>3, PutKeeps
<1>5. CASE Chunk!Inc(c)
  <2>1. spots[c] \in Int /\ Placed(combined, params, iters[c], spots[c])
    BY <1>5 DEF CombinedInv, Chunk!Inc, Chunk!Live, Chunk!Unborn
  <2>2. PICK k \in Int : /\ Puts(c, Windows!ChunkIncr(params, iters[c]), k)
                        /\ Placed(combined, params, Windows!ChunkIncr(params, iters[c]), k)
    <3>1. CASE /\ spots[c] < Len(Windows!ChunkShown(params))
               /\ Puts(c, Windows!ChunkIncr(params, iters[c]), spots[c] + 1)
      BY <1>1, <2>1, <3>1, ChunkRules
    <3>2. CASE /\ spots[c] = Len(Windows!ChunkShown(params))
               /\ Puts(c, Windows!ChunkIncr(params, iters[c]), spots[c])
      BY <1>1, <2>1, <3>2, ChunkRules
    <3> QED
      BY <1>5, <3>1, <3>2 DEF Chunk!Inc, Chunk!Put, Puts
  <2> QED
    BY <2>2, PutKeeps
<1>6. ASSUME NEW d \in Walkers, Chunk!Copy(c, d) PROVE CombinedInv'
  <2>1. spots[d] \in Int /\ Placed(combined, params, iters[d], spots[d])
    BY <1>6 DEF CombinedInv, Chunk!Copy, Chunk!Live, Chunk!Unborn
  <2>2. Puts(c, iters[d], spots[d])
    BY <1>6 DEF Chunk!Copy, Chunk!Put, Puts
  <2> QED
    BY <2>1, <2>2, PutKeeps
<1> QED
  BY <1>2, <1>3, <1>4, <1>5, <1>6

LEMMA StrideKept ==
  ASSUME CombinedInv, combined = "stride", Stride!Next, combined' = combined
  PROVE  CombinedInv'
<1>1. params \in Windows!StrideParams
  BY DEF CombinedInv, MadeOf
<1>2. PICK c \in Walkers : \/ Stride!Begin(c) \/ Stride!End(c) \/ Stride!Inc(c)
                           \/ \E d \in Walkers : Stride!Copy(c, d)
  BY DEF Stride!Next
<1>3. CASE Stride!Begin(c)
  <2>1. Puts(c, Windows!StrideFirst(params), 0)
    BY <1>3 DEF Stride!Begin, Stride!Put, Puts
  <2> QED
    BY <1>1, <2>1, StrideRules, PutKeeps
<1>4. CASE Stride!End(c)
  <2>1. Puts(c, Windows!StrideLast(params), Len(Windows!StrideShown(params)))
    BY <1>4 DEF Stride!End, Stride!Put, Puts
  <2>2. Placed(combined, params, Windows!StrideLast(params), Len(Windows!StrideShown(params)))
    BY <1>1, StrideRules
  <2>3. Len(Windows!StrideShown(params)) \in Int
    BY <2>2 DEF Placed
  <2> QED
    BY <2>1, <2>2, <2>3, PutKeeps
<1>5. CASE Stride!Inc(c)
  <2>1. spots[c] \in Int /\ Placed(combined, params, iters[c], spots[c])
    BY <1>5 DEF CombinedInv, Stride!Inc, Stride!Live, Stride!Unborn
  <2>2. PICK k \in Int : /\ Puts(c, Windows!StrideIncr(params, iters[c]), k)
                        /\ Placed(combined, params, Windows!StrideIncr(params, iters[c]), k)
    <3>1. CASE /\ spots[c] < Len(Windows!StrideShown(params))
               /\ Puts(c, Windows!StrideIncr(params, iters[c]), spots[c] + 1)
      BY <1>1, <2>1, <3>1, StrideRules
    <3>2. CASE /\ spots[c] = Len(Windows!StrideShown(params))
               /\ Puts(c, Windows!StrideIncr(params, iters[c]), spots[c])
      BY <1>1, <2>1, <3>2, StrideRules
    <3> QED
      BY <1>5, <3>1, <3>2 DEF Stride!Inc, Stride!Put, Puts
  <2> QED
    BY <2>2, PutKeeps
<1>6. ASSUME NEW d \in Walkers, Stride!Copy(c, d) PROVE CombinedInv'
  <2>1. spots[d] \in Int /\ Placed(combined, params, iters[d], spots[d])
    BY <1>6 DEF CombinedInv, Stride!Copy, Stride!Live, Stride!Unborn
  <2>2. Puts(c, iters[d], spots[d])
    BY <1>6 DEF Stride!Copy, Stride!Put, Puts
  <2> QED
    BY <2>1, <2>2, PutKeeps
<1> QED
  BY <1>2, <1>3, <1>4, <1>5, <1>6

LEMMA SlidingKept ==
  ASSUME CombinedInv, combined = "sliding_window", Sliding!Next, combined' = combined
  PROVE  CombinedInv'
<1>1. params \in Windows!SizedParams
  BY DEF CombinedInv, MadeOf
<1>2. PICK c \in Walkers : \/ Sliding!Begin(c) \/ Sliding!End(c) \/ Sliding!Inc(c)
                           \/ \E d \in Walkers : Sliding!Copy(c, d)
  BY DEF Sliding!Next
<1>3. CASE Sliding!Begin(c)
  <2>1. Puts(c, Windows!SlidingFirst(params), 0)
    BY <1>3 DEF Sliding!Begin, Sliding!Put, Puts
  <2> QED
    BY <1>1, <2>1, SlidingRules, PutKeeps
<1>4. CASE Sliding!End(c)
  <2>1. Puts(c, Windows!SlidingLast(params), Len(Windows!SlidingShown(params)))
    BY <1>4 DEF Sliding!End, Sliding!Put, Puts
  <2>2. Placed(combined, params, Windows!SlidingLast(params), Len(Windows!SlidingShown(params)))
    BY <1>1, SlidingRules
  <2>3. Len(Windows!SlidingShown(params)) \in Int
    BY <2>2 DEF Placed
  <2> QED
    BY <2>1, <2>2, <2>3, PutKeeps
<1>5. CASE Sliding!Inc(c)
  <2>1. spots[c] \in Int /\ Placed(combined, params, iters[c], spots[c])
    BY <1>5 DEF CombinedInv, Sliding!Inc, Sliding!Live, Sliding!Unborn
  <2>2. PICK k \in Int : /\ Puts(c, Windows!SlidingIncr(params, iters[c]), k)
                        /\ Placed(combined, params, Windows!SlidingIncr(params, iters[c]), k)
    <3>1. CASE /\ spots[c] < Len(Windows!SlidingShown(params))
               /\ Puts(c, Windows!SlidingIncr(params, iters[c]), spots[c] + 1)
      BY <1>1, <2>1, <3>1, SlidingRules
    <3> QED
      BY <1>5, <3>1 DEF Sliding!Inc, Sliding!Put, Puts
  <2> QED
    BY <2>2, PutKeeps
<1>6. ASSUME NEW d \in Walkers, Sliding!Copy(c, d) PROVE CombinedInv'
  <2>1. spots[d] \in Int /\ Placed(combined, params, iters[d], spots[d])
    BY <1>6 DEF CombinedInv, Sliding!Copy, Sliding!Live, Sliding!Unborn
  <2>2. Puts(c, iters[d], spots[d])
    BY <1>6 DEF Sliding!Copy, Sliding!Put, Puts
  <2> QED
    BY <2>1, <2>2, PutKeeps
<1> QED
  BY <1>2, <1>3, <1>4, <1>5, <1>6

LEMMA EnumerateKept ==
  ASSUME CombinedInv, combined = "enumerate", Enumerate!Next, combined' = combined
  PROVE  CombinedInv'
<1>1. params \in Windows!EnumerateParams
  BY DEF CombinedInv, MadeOf
<1>2. PICK c \in Walkers : \/ Enumerate!Begin(c) \/ Enumerate!End(c) \/ Enumerate!Inc(c)
                           \/ \E d \in Walkers : Enumerate!Copy(c, d)
  BY DEF Enumerate!Next
<1>3. CASE Enumerate!Begin(c)
  <2>1. Puts(c, Windows!EnumerateFirst(params), 0)
    BY <1>3 DEF Enumerate!Begin, Enumerate!Put, Puts
  <2> QED
    BY <1>1, <2>1, EnumerateRules, PutKeeps
<1>4. CASE Enumerate!End(c)
  <2>1. Puts(c, Windows!EnumerateLast(params), Len(Windows!EnumerateShown(params)))
    BY <1>4 DEF Enumerate!End, Enumerate!Put, Puts
  <2>2. Placed(combined, params, Windows!EnumerateLast(params), Len(Windows!EnumerateShown(params)))
    BY <1>1, EnumerateRules
  <2>3. Len(Windows!EnumerateShown(params)) \in Int
    BY <2>2 DEF Placed
  <2> QED
    BY <2>1, <2>2, <2>3, PutKeeps
<1>5. CASE Enumerate!Inc(c)
  <2>1. spots[c] \in Int /\ Placed(combined, params, iters[c], spots[c])
    BY <1>5 DEF CombinedInv, Enumerate!Inc, Enumerate!Live, Enumerate!Unborn
  <2>2. PICK k \in Int : /\ Puts(c, Windows!EnumerateIncr(params, iters[c]), k)
                        /\ Placed(combined, params, Windows!EnumerateIncr(params, iters[c]), k)
    <3>1. CASE /\ spots[c] < Len(Windows!EnumerateShown(params))
               /\ Puts(c, Windows!EnumerateIncr(params, iters[c]), spots[c] + 1)
      BY <1>1, <2>1, <3>1, EnumerateRules
    <3> QED
      BY <1>5, <3>1 DEF Enumerate!Inc, Enumerate!Put, Puts
  <2> QED
    BY <2>2, PutKeeps
<1>6. ASSUME NEW d \in Walkers, Enumerate!Copy(c, d) PROVE CombinedInv'
  <2>1. spots[d] \in Int /\ Placed(combined, params, iters[d], spots[d])
    BY <1>6 DEF CombinedInv, Enumerate!Copy, Enumerate!Live, Enumerate!Unborn
  <2>2. Puts(c, iters[d], spots[d])
    BY <1>6 DEF Enumerate!Copy, Enumerate!Put, Puts
  <2> QED
    BY <2>1, <2>2, PutKeeps
<1> QED
  BY <1>2, <1>3, <1>4, <1>5, <1>6

LEMMA CombinedStart == CombinedInit => CombinedInv
<1> SUFFICES ASSUME CombinedInit PROVE CombinedInv
  OBVIOUS
<1>1. MadeOf(combined, params)
  BY DEF CombinedInit, MadeOf, Concat!Init, Zipped!Init, OrDefault!Init, Chunk!Init, Stride!Init,
         Sliding!Init, Enumerate!Init
<1>2. spots = [c \in Walkers |-> -1] /\ \E i : iters = [c \in Walkers |-> i]
  <2>1. CASE combined = "concat" /\ Concat!Init
    BY <2>1 DEF Concat!Init, Concat!Unborn
  <2>2. CASE combined = "zip" /\ Zipped!Init
    BY <2>2 DEF Zipped!Init, Zipped!Unborn
  <2>3. CASE combined = "default_if_empty" /\ OrDefault!Init
    BY <2>3 DEF OrDefault!Init, OrDefault!Unborn
  <2>4. CASE combined = "chunk" /\ Chunk!Init
    BY <2>4 DEF Chunk!Init, Chunk!Unborn
  <2>5. CASE combined = "stride" /\ Stride!Init
    BY <2>5 DEF Stride!Init, Stride!Unborn
  <2>6. CASE combined = "sliding_window" /\ Sliding!Init
    BY <2>6 DEF Sliding!Init, Sliding!Unborn
  <2>7. CASE combined = "enumerate" /\ Enumerate!Init
    BY <2>7 DEF Enumerate!Init, Enumerate!Unborn
  <2> QED
    BY <2>1, <2>2, <2>3, <2>4, <2>5, <2>6, <2>7 DEF CombinedInit
<1> QED
  BY <1>1, <1>2 DEF CombinedInv

LEMMA CombinedStep == CombinedInv /\ [CombinedNext]_<<combined, params, iters, spots>> => CombinedInv'
<1> SUFFICES ASSUME CombinedInv, [CombinedNext]_<<combined, params, iters, spots>> PROVE CombinedInv'
  OBVIOUS
<1>1. CASE UNCHANGED <<combined, params, iters, spots>>
  BY <1>1 DEF CombinedInv
<1>2. CASE CombinedNext
  BY <1>2, ConcatKept, ZipKept, DefaultKept, ChunkKept, StrideKept, SlidingKept, EnumerateKept DEF CombinedNext
<1> QED
  BY <1>1, <1>2

LEMMA CombinedInvariance == CombinedSpec => []CombinedInv
<1> QED
  BY CombinedStart, CombinedStep, PTL DEF CombinedSpec

\* Every iterator over legs or windows reads the element of its place (concat_iterator,
\* zip_iterator, default_if_empty_iterator, chunk_iterator, stride_iterator,
\* sliding_window_iterator, enumerate_iterator), however long the legs and the windows are.
THEOREM PlacesRead == CombinedSpec => []ReadInOrder
<1>1. CombinedInv => ReadInOrder
  <2> SUFFICES ASSUME CombinedInv PROVE ReadInOrder
    OBVIOUS
  <2>1. ASSUME combined = "concat" PROVE Concat!ReadsInOrder
    <3> SUFFICES ASSUME NEW c \in Walkers, spots[c] # -1, spots[c] < Len(Legs!ConcatShown(params))
                 PROVE  Legs!ConcatReads(params, iters[c]) = Legs!ConcatShown(params)[spots[c] + 1]
      BY DEF Concat!ReadsInOrder, Concat!Live, Concat!Unborn
    <3>1. params \in Legs!ConcatParams /\ Placed("concat", params, iters[c], spots[c])
      BY <2>1 DEF CombinedInv, MadeOf
    <3> QED
      BY <3>1, ConcatRules
  <2>2. ASSUME combined = "zip" PROVE Zipped!ReadsInOrder
    <3> SUFFICES ASSUME NEW c \in Walkers, spots[c] # -1, spots[c] < Len(Legs!ZipShown(params))
                 PROVE  Legs!ZipReads(params, iters[c]) = Legs!ZipShown(params)[spots[c] + 1]
      BY DEF Zipped!ReadsInOrder, Zipped!Live, Zipped!Unborn
    <3>1. params \in Legs!ZipParams /\ Placed("zip", params, iters[c], spots[c])
      BY <2>2 DEF CombinedInv, MadeOf
    <3> QED
      BY <3>1, ZipRules
  <2>3. ASSUME combined = "default_if_empty" PROVE OrDefault!ReadsInOrder
    <3> SUFFICES ASSUME NEW c \in Walkers, spots[c] # -1, spots[c] < Len(Legs!DefaultShown(params))
                 PROVE  Legs!DefaultReads(params, iters[c]) = Legs!DefaultShown(params)[spots[c] + 1]
      BY DEF OrDefault!ReadsInOrder, OrDefault!Live, OrDefault!Unborn
    <3>1. params \in Legs!DefaultParams /\ Placed("default_if_empty", params, iters[c], spots[c])
      BY <2>3 DEF CombinedInv, MadeOf
    <3> QED
      BY <3>1, DefaultRules
  <2>4. ASSUME combined = "chunk" PROVE Chunk!ReadsInOrder
    <3> SUFFICES ASSUME NEW c \in Walkers, spots[c] # -1, spots[c] < Len(Windows!ChunkShown(params))
                 PROVE  Windows!ChunkReads(params, iters[c]) = Windows!ChunkShown(params)[spots[c] + 1]
      BY DEF Chunk!ReadsInOrder, Chunk!Live, Chunk!Unborn
    <3>1. params \in Windows!SizedParams /\ Placed("chunk", params, iters[c], spots[c])
      BY <2>4 DEF CombinedInv, MadeOf
    <3> QED
      BY <3>1, ChunkRules
  <2>5. ASSUME combined = "stride" PROVE Stride!ReadsInOrder
    <3> SUFFICES ASSUME NEW c \in Walkers, spots[c] # -1, spots[c] < Len(Windows!StrideShown(params))
                 PROVE  Windows!StrideReads(params, iters[c]) = Windows!StrideShown(params)[spots[c] + 1]
      BY DEF Stride!ReadsInOrder, Stride!Live, Stride!Unborn
    <3>1. params \in Windows!StrideParams /\ Placed("stride", params, iters[c], spots[c])
      BY <2>5 DEF CombinedInv, MadeOf
    <3> QED
      BY <3>1, StrideRules
  <2>6. ASSUME combined = "sliding_window" PROVE Sliding!ReadsInOrder
    <3> SUFFICES ASSUME NEW c \in Walkers, spots[c] # -1, spots[c] < Len(Windows!SlidingShown(params))
                 PROVE  Windows!SlidingReads(params, iters[c]) = Windows!SlidingShown(params)[spots[c] + 1]
      BY DEF Sliding!ReadsInOrder, Sliding!Live, Sliding!Unborn
    <3>1. params \in Windows!SizedParams /\ Placed("sliding_window", params, iters[c], spots[c])
      BY <2>6 DEF CombinedInv, MadeOf
    <3> QED
      BY <3>1, SlidingRules
  <2>7. ASSUME combined = "enumerate" PROVE Enumerate!ReadsInOrder
    <3> SUFFICES ASSUME NEW c \in Walkers, spots[c] # -1, spots[c] < Len(Windows!EnumerateShown(params))
                 PROVE  Windows!EnumerateReads(params, iters[c]) = Windows!EnumerateShown(params)[spots[c] + 1]
      BY DEF Enumerate!ReadsInOrder, Enumerate!Live, Enumerate!Unborn
    <3>1. params \in Windows!EnumerateParams /\ Placed("enumerate", params, iters[c], spots[c])
      BY <2>7 DEF CombinedInv, MadeOf
    <3> QED
      BY <3>1, EnumerateRules
  <2> QED
    BY <2>1, <2>2, <2>3, <2>4, <2>5, <2>6, <2>7 DEF ReadInOrder
<1> QED
  BY <1>1, CombinedInvariance, PTL

\* Two iterators of one such view are equal, by their operator==, just when they are at one place,
\* so that a loop meets end() where the elements end, and not before.
THEOREM PlacesEqual == CombinedSpec => []EqualIfSamePlace
<1>1. CombinedInv => EqualIfSamePlace
  <2> SUFFICES ASSUME CombinedInv PROVE EqualIfSamePlace
    OBVIOUS
  <2>1. combined = "concat" => Concat!EqualIfSamePlace
    BY ConcatRules DEF CombinedInv, MadeOf, Concat!EqualIfSamePlace, Concat!Live, Concat!Unborn
  <2>2. combined = "zip" => Zipped!EqualIfSamePlace
    BY ZipRules DEF CombinedInv, MadeOf, Zipped!EqualIfSamePlace, Zipped!Live, Zipped!Unborn
  <2>3. combined = "default_if_empty" => OrDefault!EqualIfSamePlace
    BY DefaultRules DEF CombinedInv, MadeOf, OrDefault!EqualIfSamePlace, OrDefault!Live, OrDefault!Unborn
  <2>4. combined = "chunk" => Chunk!EqualIfSamePlace
    BY ChunkRules DEF CombinedInv, MadeOf, Chunk!EqualIfSamePlace, Chunk!Live, Chunk!Unborn
  <2>5. combined = "stride" => Stride!EqualIfSamePlace
    BY StrideRules DEF CombinedInv, MadeOf, Stride!EqualIfSamePlace, Stride!Live, Stride!Unborn
  <2>6. combined = "sliding_window" => Sliding!EqualIfSamePlace
    BY SlidingRules DEF CombinedInv, MadeOf, Sliding!EqualIfSamePlace, Sliding!Live, Sliding!Unborn
  <2>7. combined = "enumerate" => Enumerate!EqualIfSamePlace
    BY EnumerateRules DEF CombinedInv, MadeOf, Enumerate!EqualIfSamePlace, Enumerate!Live, Enumerate!Unborn
  <2> QED
    BY <2>1, <2>2, <2>3, <2>4, <2>5, <2>6, <2>7 DEF EqualIfSamePlace
<1> QED
  BY <1>1, CombinedInvariance, PTL

-----------------------------------------------------------------------------
USE LengthAssumption, RangesAssumption

\* Inner ranges have a length; Source and Dead are no iterators.
Sensible ==
  /\ MaxInner \in Nat
  /\ Source \notin FlatCursors /\ Dead \notin FlatCursors /\ Source # Dead

-----------------------------------------------------------------------------
(* flat_map: the inductive invariant.                                      *)

\* advance_to_valid() has behind it the elements before the inner range it is about to
\* load or look at; the latter it has loaded for itself.
Seeks(c) ==
  flatOp[c] = "seek" =>
    /\ ~iter[c].atEnd
    /\ outer.b <= iter[c].cur /\ iter[c].cur <= outer.e
    /\ past[c] = Before(iter[c].cur, 1)
    /\ iter[c].loaded =>
         /\ iter[c].cur < outer.e /\ iter[c].pos = 1
         /\ held[c] = iter[c].cur
         /\ in[c] \in {c, Source} /\ c \notin lent

\* An iterator at rest, and whose elements it walks.
Rests(c) ==
  flatOp[c] = "idle" =>
    IF iter[c].atEnd THEN iter[c].cur = outer.e /\ past[c] = Flat
    ELSE /\ <<iter[c].cur, iter[c].pos>> \in Flat
         /\ past[c] = Before(iter[c].cur, iter[c].pos)
         /\ held[c] = iter[c].cur
         /\ in[c] \in FlatCursors => held[in[c]] = iter[c].cur
         /\ c \notin lent => in[c] \in {c, Source}

IInv == FlatTypeOK /\ \A c \in FlatCursors : Seeks(c) /\ Rests(c)

LEMMA RangeType ==
  ASSUME NEW r \in Ranges
  PROVE  r.b \in Int /\ r.e \in Int /\ 1 <= r.b /\ r.b <= r.e /\ r.e <= N + 1
<1>1. r \in {x \in [b : Pos, e : Pos] : x.b <= x.e}
  OBVIOUS
<1> QED
  BY <1>1 DEF Pos

LEMMA IterType ==
  ASSUME FlatTypeOK, MaxInner \in Nat, NEW c \in FlatCursors
  PROVE  /\ iter[c] \in [cur : Pos, pos : 1 .. MaxInner + 1, loaded : BOOLEAN, atEnd : BOOLEAN]
         /\ iter[c].cur \in Int /\ 1 <= iter[c].cur /\ iter[c].cur <= N + 1
         /\ iter[c].pos \in Int /\ 1 <= iter[c].pos
         /\ iter[c].atEnd \in BOOLEAN /\ iter[c].loaded \in BOOLEAN
BY DEF FlatTypeOK, Pos

LEMMA MkIter ==
  ASSUME NEW x \in Pos, NEW i \in 1 .. MaxInner + 1, NEW l \in BOOLEAN, NEW a \in BOOLEAN
  PROVE  [cur |-> x, pos |-> i, loaded |-> l, atEnd |-> a]
           \in [cur : Pos, pos : 1 .. MaxInner + 1, loaded : BOOLEAN, atEnd : BOOLEAN]
OBVIOUS

-----------------------------------------------------------------------------
(* The elements before a place.                                            *)

LEMMA FlatType ==
  ASSUME FlatTypeOK, MaxInner \in Nat, NEW x, NEW i
  PROVE  <<x, i>> \in Flat <=>
           /\ x \in 1 .. N /\ i \in 1 .. MaxInner
           /\ outer.b <= x /\ x < outer.e /\ i <= len[x]
BY DEF Flat, Elements

LEMMA BeforeType ==
  ASSUME NEW x, NEW i
  PROVE  /\ \A p \in Before(x, i) : p = <<p[1], p[2]>>
         /\ \A p \in Flat : p = <<p[1], p[2]>>
         /\ \A y, j : <<y, j>> \in Before(x, i) <=> <<y, j>> \in Flat /\ (y < x \/ (y = x /\ j < i))
BY DEF Before, Flat, Elements

\* A place further on, within an inner range ...
LEMMA BeforeStep ==
  ASSUME FlatTypeOK, MaxInner \in Nat, NEW x, NEW i, <<x, i>> \in Flat
  PROVE  Before(x, i + 1) = Before(x, i) \cup {<<x, i>>}
<1>1. \A y, j : <<y, j>> \in Before(x, i + 1) <=> <<y, j>> \in Before(x, i) \/ <<y, j>> = <<x, i>>
  <2> SUFFICES ASSUME NEW y, NEW j
               PROVE  <<y, j>> \in Before(x, i + 1) <=> <<y, j>> \in Before(x, i) \/ <<y, j>> = <<x, i>>
    OBVIOUS
  <2>1. x \in Int /\ i \in Int
    BY FlatType
  <2>2. CASE <<y, j>> \in Flat
    <3>1. y \in Int /\ j \in Int
      BY <2>2, FlatType
    <3>2. (y < x \/ (y = x /\ j < i + 1)) <=> (y < x \/ (y = x /\ j < i)) \/ (y = x /\ j = i)
      BY <2>1, <3>1
    <3> QED
      BY <2>2, <3>2, BeforeType
  <2>3. CASE <<y, j>> \notin Flat
    BY <2>3, BeforeType
  <2> QED
    BY <2>2, <2>3
<1> QED
  BY <1>1, BeforeType

\* ... and from the end of one to the beginning of the next.
LEMMA BeforeNext ==
  ASSUME FlatTypeOK, MaxInner \in Nat, NEW x \in 1 .. N
  PROVE  Before(x, len[x] + 1) = Before(x + 1, 1)
<1>1. len[x] \in Int
  BY DEF FlatTypeOK
<1>2. ASSUME NEW y, NEW j
      PROVE  <<y, j>> \in Before(x, len[x] + 1) <=> <<y, j>> \in Before(x + 1, 1)
  <2>1. CASE <<y, j>> \in Flat
    <3>1. y \in Int /\ j \in Int /\ 1 <= j /\ j <= len[y]
      BY <2>1, FlatType
    <3>2. (y < x \/ (y = x /\ j < len[x] + 1)) <=> (y < x + 1 \/ (y = x + 1 /\ j < 1))
      BY <1>1, <3>1
    <3> QED
      BY <2>1, <3>2, BeforeType
  <2>2. CASE <<y, j>> \notin Flat
    BY <2>2, BeforeType
  <2> QED
    BY <2>1, <2>2
<1>3. \A q \in Before(x, len[x] + 1) : q = <<q[1], q[2]>>
  BY BeforeType
<1>4. \A q \in Before(x + 1, 1) : q = <<q[1], q[2]>>
  BY BeforeType
<1>5. ASSUME NEW q \in Before(x, len[x] + 1) PROVE q \in Before(x + 1, 1)
  BY <1>2, <1>3
<1>6. ASSUME NEW q \in Before(x + 1, 1) PROVE q \in Before(x, len[x] + 1)
  BY <1>2, <1>4
<1> QED
  BY <1>5, <1>6

LEMMA BeforeBounds ==
  ASSUME FlatTypeOK, MaxInner \in Nat
  PROVE  Before(outer.b, 1) = {} /\ Before(outer.e, 1) = Flat
<1>1. outer.b \in Int /\ outer.e \in Int
  BY RangeType DEF FlatTypeOK
<1>2. \A y, j : <<y, j>> \in Flat => y \in Int /\ j \in Int /\ 1 <= j /\ outer.b <= y /\ y < outer.e
  BY FlatType
<1>3. \A y, j : <<y, j>> \notin Before(outer.b, 1)
  <2> SUFFICES ASSUME NEW y, NEW j, <<y, j>> \in Flat
               PROVE  ~(y < outer.b \/ (y = outer.b /\ j < 1))
    BY BeforeType
  <2> QED
    BY <1>1, <1>2
<1>4. ASSUME NEW y, NEW j, <<y, j>> \in Flat PROVE <<y, j>> \in Before(outer.e, 1)
  <2>1. y < outer.e
    BY <1>2, <1>4
  <2> QED
    BY <1>4, <2>1, BeforeType
<1>5. ASSUME NEW q \in Before(outer.b, 1) PROVE FALSE
  <2>1. q = <<q[1], q[2]>>
    BY BeforeType
  <2> QED
    BY <1>3, <2>1
<1>6. ASSUME NEW q \in Before(outer.e, 1) PROVE q \in Flat
  BY DEF Before
<1>7. ASSUME NEW q \in Flat PROVE q \in Before(outer.e, 1)
  <2>1. q = <<q[1], q[2]>>
    BY BeforeType
  <2> QED
    BY <1>4, <2>1
<1> QED
  BY <1>5, <1>6, <1>7

\* A step that leaves the view alone.
LEMMA SameView ==
  ASSUME UNCHANGED <<len, outer>>
  PROVE  Flat' = Flat /\ \A x, i : Before(x, i)' = Before(x, i)
BY DEF Flat, Before

-----------------------------------------------------------------------------
(* flat_map: the iterator a step is of, and the others.                    *)

\* What a step of c does to others: it may take the elements they walk.
Others(c) ==
  /\ UNCHANGED <<len, owning, outer>>
  /\ \A d \in FlatCursors \ {c} :
       /\ iter'[d] = iter[d] /\ held'[d] = held[d] /\ flatOp'[d] = flatOp[d] /\ past'[d] = past[d]
       /\ d \in lent' <=> d \in lent
       /\ \/ in'[d] = in[d] /\ (in[d] = c => held'[c] = held[c])
          \/ in'[d] = Dead /\ in[d] = c

LEMMA OthersKept ==
  ASSUME IInv, Sensible, NEW c \in FlatCursors, NEW d \in FlatCursors \ {c}, Others(c)
  PROVE  Seeks(d)' /\ Rests(d)'
<1> USE DEF IInv, Sensible
<1>1. Flat' = Flat /\ \A x, i : Before(x, i)' = Before(x, i)
  BY SameView DEF Others
<1>2. /\ iter'[d] = iter[d] /\ held'[d] = held[d] /\ flatOp'[d] = flatOp[d] /\ past'[d] = past[d]
      /\ d \in lent' <=> d \in lent
      /\ outer' = outer
  BY DEF Others
<1>3. Seeks(d) /\ Rests(d)
  OBVIOUS
<1>4. CASE in'[d] = in[d] /\ (in[d] = c => held'[c] = held[c])
  <2>1. in[d] \in FlatCursors => held'[in[d]] = held[in[d]]
    BY <1>4 DEF Others
  <2> QED
    BY <1>1, <1>2, <1>3, <1>4, <2>1 DEF Seeks, Rests
<1>5. CASE in'[d] = Dead /\ in[d] = c
  <2>1. in[d] \notin {d, Source}
    BY <1>5
  <2> QED
    BY <1>1, <1>2, <1>3, <1>5, <2>1 DEF Seeks, Rests
<1> QED
  BY <1>4, <1>5 DEF Others

LEMMA StepInv ==
  ASSUME IInv, Sensible, NEW c \in FlatCursors, Others(c), FlatTypeOK', Seeks(c)', Rests(c)'
  PROVE  IInv'
<1>1. \A d \in FlatCursors \ {c} : Seeks(d)' /\ Rests(d)'
  BY OthersKept
<1> QED
  BY <1>1 DEF IInv

-----------------------------------------------------------------------------
(* flat_map: one lemma per action.                                         *)

LEMMA FlatInitInv == Sensible /\ FlatInit => IInv
<1> SUFFICES ASSUME Sensible, FlatInit PROVE IInv
  OBVIOUS
<1>1. outer.b \in Int /\ outer.e \in Int /\ 1 <= outer.b /\ outer.b <= outer.e /\ outer.e <= N + 1
  BY RangeType DEF FlatInit
<1>2. EndIter \in [cur : Pos, pos : 1 .. MaxInner + 1, loaded : BOOLEAN, atEnd : BOOLEAN]
  BY <1>1 DEF EndIter, Pos, Sensible
<1>3. FlatTypeOK
  BY <1>2 DEF FlatInit, FlatTypeOK, NoRange, Sensible
<1> QED
  BY <1>3 DEF FlatInit, IInv, Seeks, Rests

LEMMA BeginInv == ASSUME IInv, Sensible, NEW c \in FlatCursors, FlatBegin(c) PROVE IInv'
<1>1. Others(c)
  BY DEF Others, IInv, FlatTypeOK, FlatBegin
<1>2. outer \in Ranges /\ outer.b \in Int /\ outer.e \in Int
      /\ 1 <= outer.b /\ outer.b <= outer.e /\ outer.e <= N + 1
  BY RangeType DEF IInv, FlatTypeOK
<1>3. FlatTypeOK'
  BY <1>2 DEF IInv, FlatTypeOK, Pos, Sensible, FlatBegin
<1>4. Before(outer.b, 1) = {} /\ Before(outer.e, 1) = Flat
  BY BeforeBounds DEF IInv, Sensible
<1>5. Flat' = Flat /\ \A x, i : Before(x, i)' = Before(x, i)
  BY SameView DEF FlatBegin
<1>6. CASE outer.b = outer.e
  <2>1. /\ iter'[c] = [cur |-> outer.b, pos |-> 1, loaded |-> FALSE, atEnd |-> TRUE]
        /\ flatOp'[c] = "idle" /\ past'[c] = {} /\ outer' = outer
    BY <1>6 DEF IInv, FlatTypeOK, FlatBegin
  <2>2. iter'[c].cur = outer.b /\ iter'[c].atEnd = TRUE
    BY <2>1
  <2>3. Rests(c)'
    BY <1>4, <1>5, <1>6, <2>1, <2>2 DEF Rests
  <2>4. Seeks(c)'
    BY <2>1 DEF Seeks
  <2> QED
    BY <1>1, <1>3, <2>3, <2>4, StepInv
<1>7. CASE outer.b # outer.e
  <2>1. /\ iter'[c] = [cur |-> outer.b, pos |-> 1, loaded |-> FALSE, atEnd |-> FALSE]
        /\ flatOp'[c] = "seek" /\ past'[c] = {} /\ outer' = outer
    BY <1>7 DEF IInv, FlatTypeOK, FlatBegin
  <2>2. iter'[c].cur = outer.b /\ iter'[c].loaded = FALSE /\ iter'[c].atEnd = FALSE
    BY <2>1
  <2>3. Seeks(c)'
    BY <1>2, <1>4, <1>5, <2>1, <2>2 DEF Seeks
  <2>4. Rests(c)'
    BY <2>1 DEF Rests
  <2> QED
    BY <1>1, <1>3, <2>3, <2>4, StepInv
<1> QED
  BY <1>6, <1>7

LEMMA EndInv == ASSUME IInv, Sensible, NEW c \in FlatCursors, FlatEnd(c) PROVE IInv'
<1> USE DEF FlatEnd
<1>1. Others(c)
  BY DEF Others, IInv, FlatTypeOK
<1>2. outer \in Ranges /\ outer.e \in Int /\ 1 <= outer.e /\ outer.e <= N + 1
  BY RangeType DEF IInv, FlatTypeOK
<1>3. EndIter \in [cur : Pos, pos : 1 .. MaxInner + 1, loaded : BOOLEAN, atEnd : BOOLEAN]
  BY <1>2 DEF EndIter, Pos, Sensible
<1>4. Flat \subseteq Elements
  BY DEF Flat
<1>5. FlatTypeOK'
  BY <1>3, <1>4 DEF IInv, FlatTypeOK
<1>6. iter'[c] = EndIter /\ flatOp'[c] = "idle" /\ past'[c] = Flat /\ outer' = outer
  BY DEF IInv, FlatTypeOK
<1>7. Flat' = Flat
  BY SameView
<1>8. iter'[c].atEnd = TRUE /\ iter'[c].cur = outer.e
  BY <1>6 DEF EndIter
<1>9. Seeks(c)' /\ Rests(c)'
  BY <1>6, <1>7, <1>8 DEF Seeks, Rests
<1> QED
  BY <1>1, <1>5, <1>9, StepInv

LEMMA IncInv == ASSUME IInv, Sensible, NEW c \in FlatCursors, FlatInc(c) PROVE IInv'
<1> DEFINE x == iter[c].cur
           i == iter[c].pos
<1> USE DEF FlatInc
<1>1. FlatTypeOK /\ MaxInner \in Nat /\ Rests(c) /\ flatOp[c] = "idle" /\ ~iter[c].atEnd
  BY DEF IInv, Sensible
<1>2. <<x, i>> \in Flat /\ past[c] = Before(x, i) /\ held[c] = x
  BY <1>1 DEF Rests
<1>3. /\ x \in 1 .. N /\ i \in 1 .. MaxInner
      /\ outer.b <= x /\ x < outer.e /\ i <= len[x]
  BY <1>1, <1>2, FlatType
<1>4. outer \in Ranges /\ outer.b \in Int /\ outer.e \in Int /\ outer.e <= N + 1
  BY <1>1, RangeType DEF FlatTypeOK
<1>5. len[x] \in Int /\ iter[c] \in [cur : Pos, pos : 1 .. MaxInner + 1, loaded : BOOLEAN, atEnd : BOOLEAN]
  BY <1>1, <1>3 DEF FlatTypeOK
<1>6. past'[c] = Before(x, i + 1) /\ past' \in [FlatCursors -> SUBSET Elements] /\ outer' = outer
  <2>1. past'[c] = past[c] \cup {<<x, i>>} /\ outer' = outer
    BY <1>1 DEF FlatTypeOK
  <2>2. <<x, i>> \in Elements
    BY <1>2 DEF Flat
  <2>3. past' \in [FlatCursors -> SUBSET Elements]
    BY <1>1, <2>2 DEF FlatTypeOK
  <2> QED
    BY <1>1, <1>2, <2>1, <2>3, BeforeStep
<1>7. Flat' = Flat /\ \A y, j : Before(y, j)' = Before(y, j)
  BY SameView
<1>8. CASE i + 1 = len[x] + 1
  <2>1. /\ iter' = [iter EXCEPT ![c].cur = @ + 1, ![c].pos = @ + 1, ![c].loaded = FALSE]
        /\ flatOp' = [flatOp EXCEPT ![c] = "seek"]
    BY <1>2, <1>8 DEF InnerEnd
  <2>2. /\ iter'[c] = [cur |-> x + 1, pos |-> i + 1, loaded |-> FALSE, atEnd |-> iter[c].atEnd]
        /\ flatOp'[c] = "seek"
    BY <1>1, <1>5, <2>1 DEF FlatTypeOK
  <2>3. iter'[c] \in [cur : Pos, pos : 1 .. MaxInner + 1, loaded : BOOLEAN, atEnd : BOOLEAN]
    <3>1. x + 1 \in Pos /\ i + 1 \in 1 .. MaxInner + 1
      BY <1>1, <1>3 DEF Pos
    <3> QED
      BY <1>5, <2>2, <3>1
  <2>4. FlatTypeOK'
    BY <1>1, <1>6, <2>1, <2>3 DEF FlatTypeOK
  <2>5. past'[c] = Before(x + 1, 1)
    BY <1>1, <1>3, <1>6, <1>8, BeforeNext
  <2>6. Seeks(c)'
    BY <1>1, <1>3, <1>4, <1>5, <1>6, <1>7, <2>2, <2>5 DEF Seeks
  <2>7. Rests(c)'
    BY <2>2 DEF Rests
  <2>8. Others(c)
    BY <2>1 DEF Others, IInv, FlatTypeOK
  <2> QED
    BY <2>4, <2>6, <2>7, <2>8, StepInv
<1>9. CASE i + 1 # len[x] + 1
  <2>1. iter' = [iter EXCEPT ![c].pos = @ + 1] /\ flatOp' = flatOp
    BY <1>2, <1>9 DEF InnerEnd
  <2>2. /\ iter'[c] = [cur |-> x, pos |-> i + 1, loaded |-> iter[c].loaded, atEnd |-> iter[c].atEnd]
        /\ flatOp'[c] = "idle"
    BY <1>1, <1>5, <2>1 DEF FlatTypeOK
  <2>3. iter'[c] \in [cur : Pos, pos : 1 .. MaxInner + 1, loaded : BOOLEAN, atEnd : BOOLEAN]
    <3>1. i + 1 \in 1 .. MaxInner + 1
      BY <1>1, <1>3
    <3> QED
      BY <1>5, <2>2, <3>1
  <2>4. FlatTypeOK'
    BY <1>1, <1>6, <2>1, <2>3 DEF FlatTypeOK
  <2>5. i + 1 <= len[x] /\ len[x] <= MaxInner
    BY <1>1, <1>3, <1>5, <1>9 DEF FlatTypeOK
  <2>6. <<x, i + 1>> \in Flat
    <3>1. i + 1 \in 1 .. MaxInner
      BY <1>1, <1>3, <1>5, <2>5
    <3> QED
      BY <1>1, <1>3, <2>5, <3>1, FlatType
  <2>7. held'[c] = held[c] /\ in' = in /\ lent' = lent /\ held' = held
    OBVIOUS
  <2>8. iter'[c].cur = x /\ iter'[c].pos = i + 1 /\ ~iter'[c].atEnd
    BY <1>1, <1>5, <2>2
  <2>9. Rests(c)'
    BY <1>1, <1>2, <1>6, <1>7, <2>6, <2>7, <2>8 DEF Rests
  <2>10. Seeks(c)'
    BY <2>2 DEF Seeks
  <2>11. Others(c)
    BY <2>1 DEF Others, IInv, FlatTypeOK
  <2> QED
    BY <2>4, <2>9, <2>10, <2>11, StepInv
<1> QED
  BY <1>8, <1>9

LEMMA LoadInv == ASSUME IInv, Sensible, NEW c \in FlatCursors, Load(c) PROVE IInv'
<1> USE DEF Load, Seeking
<1>1. FlatTypeOK /\ MaxInner \in Nat /\ Seeks(c) /\ flatOp[c] = "seek" /\ iter[c].cur # outer.e
  BY DEF IInv, Sensible
<1>2. outer \in Ranges /\ outer.b \in Int /\ outer.e \in Int /\ 1 <= outer.b /\ outer.e <= N + 1
  BY <1>1, RangeType DEF FlatTypeOK
<1>3. iter[c] \in [cur : Pos, pos : 1 .. MaxInner + 1, loaded : BOOLEAN, atEnd : BOOLEAN]
      /\ iter[c].cur \in Int
  BY <1>1, IterType
<1>4. /\ iter[c].cur < outer.e /\ iter[c].cur \in 1 .. N
      /\ ~iter[c].atEnd /\ outer.b <= iter[c].cur /\ past[c] = Before(iter[c].cur, 1)
  BY <1>1, <1>2, <1>3 DEF Seeks
<1>5. /\ iter'[c] = [cur |-> iter[c].cur, pos |-> 1, loaded |-> TRUE, atEnd |-> iter[c].atEnd]
      /\ flatOp'[c] = "seek" /\ outer' = outer
      /\ held'[c] = iter[c].cur /\ in'[c] \in {c, Source} /\ c \notin lent' /\ past'[c] = past[c]
  BY <1>1, <1>3 DEF FlatTypeOK, Lost
<1>6. iter'[c] \in [cur : Pos, pos : 1 .. MaxInner + 1, loaded : BOOLEAN, atEnd : BOOLEAN]
  <2>1. 1 \in 1 .. MaxInner + 1 /\ iter[c].cur \in Pos /\ iter[c].atEnd \in BOOLEAN
    BY <1>1, <1>3, IterType
  <2>2. [cur |-> iter[c].cur, pos |-> 1, loaded |-> TRUE, atEnd |-> iter[c].atEnd]
           \in [cur : Pos, pos : 1 .. MaxInner + 1, loaded : BOOLEAN, atEnd : BOOLEAN]
    BY <2>1, MkIter
  <2> QED
    BY <2>2, <1>5
<1>7. FlatTypeOK'
  <2>1. in' \in [FlatCursors -> FlatCursors \cup {Source, Dead}]
    BY <1>1 DEF FlatTypeOK, Lost
  <2>2. iter' \in [FlatCursors -> [cur : Pos, pos : 1 .. MaxInner + 1, loaded : BOOLEAN, atEnd : BOOLEAN]]
    BY <1>1, <1>6 DEF FlatTypeOK
  <2> QED
    BY <1>1, <1>4, <2>1, <2>2 DEF FlatTypeOK
<1>8. Others(c)
  BY DEF Others, IInv, FlatTypeOK, Lost
<1>9. Flat' = Flat /\ \A y, j : Before(y, j)' = Before(y, j)
  BY SameView
<1>10. iter'[c].cur = iter[c].cur /\ iter'[c].pos = 1 /\ iter'[c].atEnd = iter[c].atEnd
  BY <1>3, <1>5
<1>11. Seeks(c)'
  BY <1>2, <1>3, <1>4, <1>5, <1>9, <1>10 DEF Seeks
<1>12. Rests(c)'
  BY <1>5 DEF Rests
<1> QED
  BY <1>7, <1>8, <1>11, <1>12, StepInv

LEMMA FoundInv == ASSUME IInv, Sensible, NEW c \in FlatCursors, SeekFound(c) PROVE IInv'
<1> USE DEF SeekFound, Seeking
<1>1. FlatTypeOK /\ MaxInner \in Nat /\ Seeks(c) /\ flatOp[c] = "seek" /\ iter[c].loaded
  BY DEF IInv, Sensible
<1> DEFINE x == iter[c].cur
<1>2. /\ ~iter[c].atEnd /\ outer.b <= x /\ x < outer.e /\ iter[c].pos = 1 /\ held[c] = x
      /\ past[c] = Before(x, 1) /\ in[c] \in {c, Source}
  BY <1>1 DEF Seeks
<1>3. outer \in Ranges /\ outer.b \in Int /\ outer.e \in Int /\ 1 <= outer.b /\ outer.e <= N + 1
  BY <1>1, RangeType DEF FlatTypeOK
<1>4. x \in 1 .. N
  BY <1>1, <1>2, <1>3, IterType
<1>5. len[x] \in 1 .. MaxInner
  BY <1>1, <1>2, <1>4 DEF FlatTypeOK, InnerEnd
<1>6. <<x, 1>> \in Flat
  BY <1>1, <1>2, <1>4, <1>5, FlatType
<1>7. FlatTypeOK' /\ flatOp'[c] = "idle"
  BY <1>1 DEF FlatTypeOK
<1>8. Flat' = Flat /\ \A y, j : Before(y, j)' = Before(y, j)
  BY SameView
<1>9. Rests(c)'
  BY <1>2, <1>6, <1>7, <1>8, <1>1 DEF Rests, Sensible
<1>10. Seeks(c)'
  BY <1>7 DEF Seeks
<1>11. Others(c)
  BY DEF Others, IInv, FlatTypeOK
<1> QED
  BY <1>7, <1>9, <1>10, <1>11, StepInv

LEMMA SkipInv == ASSUME IInv, Sensible, NEW c \in FlatCursors, SeekSkip(c) PROVE IInv'
<1> USE DEF SeekSkip, Seeking
<1>1. FlatTypeOK /\ MaxInner \in Nat /\ Seeks(c) /\ flatOp[c] = "seek" /\ iter[c].loaded
  BY DEF IInv, Sensible
<1> DEFINE x == iter[c].cur
<1>2. /\ ~iter[c].atEnd /\ outer.b <= x /\ x < outer.e /\ iter[c].pos = 1 /\ held[c] = x
      /\ past[c] = Before(x, 1)
  BY <1>1 DEF Seeks
<1>3. outer \in Ranges /\ outer.b \in Int /\ outer.e \in Int /\ 1 <= outer.b /\ outer.e <= N + 1
  BY <1>1, RangeType DEF FlatTypeOK
<1>4. x \in 1 .. N
      /\ iter[c] \in [cur : Pos, pos : 1 .. MaxInner + 1, loaded : BOOLEAN, atEnd : BOOLEAN]
  BY <1>1, <1>2, <1>3, IterType
<1>5. len[x] + 1 = 1
  BY <1>2 DEF InnerEnd
<1>6. Before(x, 1) = Before(x + 1, 1)
  BY <1>1, <1>4, <1>5, BeforeNext
<1>7. /\ iter'[c] = [cur |-> x + 1, pos |-> iter[c].pos, loaded |-> FALSE, atEnd |-> iter[c].atEnd]
      /\ flatOp'[c] = "seek" /\ outer' = outer /\ past'[c] = past[c]
  BY <1>1, <1>4 DEF FlatTypeOK
<1>8. iter'[c] \in [cur : Pos, pos : 1 .. MaxInner + 1, loaded : BOOLEAN, atEnd : BOOLEAN]
  <2>1. x + 1 \in Pos /\ iter[c].pos \in 1 .. MaxInner + 1 /\ iter[c].atEnd \in BOOLEAN
    BY <1>1, <1>4, IterType DEF Pos
  <2>2. [cur |-> x + 1, pos |-> iter[c].pos, loaded |-> FALSE, atEnd |-> iter[c].atEnd]
           \in [cur : Pos, pos : 1 .. MaxInner + 1, loaded : BOOLEAN, atEnd : BOOLEAN]
    BY <2>1, MkIter
  <2> QED
    BY <2>2, <1>7
<1>9. FlatTypeOK'
  BY <1>1, <1>8 DEF FlatTypeOK
<1>10. Flat' = Flat /\ \A y, j : Before(y, j)' = Before(y, j)
  BY SameView
<1>11. iter'[c].cur = x + 1 /\ iter'[c].loaded = FALSE /\ iter'[c].atEnd = iter[c].atEnd
  BY <1>7
<1>12. past'[c] = Before(x + 1, 1)
  BY <1>2, <1>6, <1>7
<1>13. outer.b <= x + 1 /\ x + 1 <= outer.e
  BY <1>2, <1>3, <1>4
<1>14. Seeks(c)'
  BY <1>2, <1>7, <1>10, <1>11, <1>12, <1>13 DEF Seeks
<1>15. Rests(c)'
  BY <1>7 DEF Rests
<1>16. Others(c)
  BY DEF Others, IInv, FlatTypeOK
<1> QED
  BY <1>9, <1>14, <1>15, <1>16, StepInv

LEMMA SeekEndInv == ASSUME IInv, Sensible, NEW c \in FlatCursors, SeekEnd(c) PROVE IInv'
<1> USE DEF SeekEnd
<1>1. FlatTypeOK /\ MaxInner \in Nat /\ Seeks(c) /\ flatOp[c] = "seek" /\ iter[c].cur = outer.e
  BY DEF IInv, Sensible
<1>2. iter[c] \in [cur : Pos, pos : 1 .. MaxInner + 1, loaded : BOOLEAN, atEnd : BOOLEAN]
  BY <1>1, IterType
<1>3. past[c] = Flat
  BY <1>1, BeforeBounds DEF Seeks
<1>4. /\ iter'[c] = [cur |-> iter[c].cur, pos |-> iter[c].pos, loaded |-> iter[c].loaded, atEnd |-> TRUE]
      /\ flatOp'[c] = "idle" /\ outer' = outer /\ past'[c] = past[c]
  BY <1>1, <1>2 DEF FlatTypeOK
<1>5. iter'[c] \in [cur : Pos, pos : 1 .. MaxInner + 1, loaded : BOOLEAN, atEnd : BOOLEAN]
  <2>1. /\ iter[c].cur \in Pos /\ iter[c].pos \in 1 .. MaxInner + 1
        /\ iter[c].loaded \in BOOLEAN
    BY <1>1, <1>2, IterType
  <2>2. [cur |-> iter[c].cur, pos |-> iter[c].pos, loaded |-> iter[c].loaded, atEnd |-> TRUE]
           \in [cur : Pos, pos : 1 .. MaxInner + 1, loaded : BOOLEAN, atEnd : BOOLEAN]
    BY <2>1, MkIter
  <2> QED
    BY <2>2, <1>4
<1>6. FlatTypeOK'
  BY <1>1, <1>5 DEF FlatTypeOK
<1>7. Flat' = Flat
  BY SameView
<1>8. iter'[c].cur = outer.e /\ iter'[c].atEnd = TRUE
  BY <1>1, <1>4
<1>9. Seeks(c)' /\ Rests(c)'
  BY <1>3, <1>4, <1>7, <1>8 DEF Seeks, Rests
<1>10. Others(c)
  BY DEF Others, IInv, FlatTypeOK
<1> QED
  BY <1>6, <1>9, <1>10, StepInv

LEMMA CopyInv ==
  ASSUME IInv, Sensible, NEW c \in FlatCursors, NEW d \in FlatCursors, FlatCopy(c, d)
  PROVE  IInv'
<1> USE DEF FlatCopy
<1>1. FlatTypeOK /\ Rests(d) /\ flatOp[d] = "idle" /\ c # d
  BY DEF IInv
<1>2. /\ iter'[c] = iter[d] /\ held'[c] = held[d] /\ flatOp'[c] = "idle" /\ past'[c] = past[d]
      /\ c \in lent' /\ outer' = outer
      /\ in'[c] = (IF in[d] = c THEN Dead ELSE in[d])
  BY <1>1 DEF FlatTypeOK, Lost
<1>3. FlatTypeOK'
  BY <1>1 DEF FlatTypeOK, Lost
<1>4. Others(c)
  BY DEF Others, IInv, FlatTypeOK, Lost
<1>5. Flat' = Flat /\ \A y, j : Before(y, j)' = Before(y, j)
  BY SameView
<1>6. in'[c] \in FlatCursors => in'[c] = in[d] /\ in'[c] # c
  BY <1>2 DEF Sensible
<1>7. in'[c] \in FlatCursors => held'[in'[c]] = held[in[d]]
  BY <1>6, <1>1 DEF FlatTypeOK
<1>8. Rests(c)'
  BY <1>1, <1>2, <1>5, <1>6, <1>7 DEF Rests
<1>9. Seeks(c)'
  BY <1>2 DEF Seeks
<1> QED
  BY <1>3, <1>4, <1>8, <1>9, StepInv

LEMMA DropInv == ASSUME IInv, Sensible, NEW c \in FlatCursors, Drop(c) PROVE IInv'
<1> USE DEF Drop
<1>1. FlatTypeOK
  BY DEF IInv
<1>2. outer.e \in Pos
  BY <1>1, RangeType DEF FlatTypeOK, Pos
<1>3. EndIter \in [cur : Pos, pos : 1 .. MaxInner + 1, loaded : BOOLEAN, atEnd : BOOLEAN]
  BY <1>2 DEF EndIter, Sensible
<1>4. FlatTypeOK' /\ flatOp'[c] = "none"
  BY <1>1, <1>3 DEF FlatTypeOK, Lost
<1>5. Others(c)
  BY DEF Others, IInv, FlatTypeOK, Lost
<1> QED
  BY <1>4, <1>5, StepInv DEF Seeks, Rests

LEMMA FlatNextInv == IInv /\ Sensible /\ [FlatNext]_flatVars => IInv'
<1> SUFFICES ASSUME IInv, Sensible, [FlatNext]_flatVars PROVE IInv'
  OBVIOUS
<1>1. CASE UNCHANGED flatVars
  <2>1. UNCHANGED <<len, owning, outer, iter, held, in, flatOp, past, lent>>
    BY <1>1 DEF flatVars
  <2>2. FlatTypeOK'
    BY <2>1 DEF IInv, FlatTypeOK
  <2>3. Flat' = Flat /\ \A x, i : Before(x, i)' = Before(x, i)
    BY <2>1, SameView
  <2>4. ASSUME NEW c \in FlatCursors PROVE Seeks(c)' /\ Rests(c)'
    BY <2>1, <2>3 DEF IInv, Seeks, Rests
  <2> QED
    BY <2>2, <2>4 DEF IInv
<1>2. CASE FlatNext
  <2> PICK c \in FlatCursors :
        \/ FlatLoop(c) \/ FlatBegin(c) \/ FlatEnd(c) \/ FlatInc(c) \/ Drop(c)
        \/ \E d \in FlatCursors : FlatCopy(c, d)
    BY <1>2 DEF FlatNext
  <2> QED
    BY BeginInv, EndInv, IncInv, LoadInv, FoundInv, SkipInv, SeekEndInv, CopyInv, DropInv
    DEF FlatLoop
<1> QED
  BY <1>1, <1>2

LEMMA FlatInvariance == ASSUME Sensible PROVE FlatSpec => []IInv
BY FlatInitInv, FlatNextInv, PTL DEF FlatSpec

\* At the end, that is: the flag is up.
LEMMA AtEndFlag == ASSUME NEW c, iter[c].atEnd \in BOOLEAN PROVE AtFlatEnd(c) <=> iter[c].atEnd
BY DEF AtFlatEnd, SameFlat, EndIter

\* An iterator of flat_map at rest is where its history says: over inner ranges
\* of any lengths, empty ones among them, it has left just the elements before its
\* own (advance_to_valid(), operator++, operator==).
THEOREM FlatReads == ASSUME Sensible PROVE FlatSpec => []ReadsFlat
<1>1. IInv => ReadsFlat
  <2> SUFFICES ASSUME IInv, NEW c \in FlatCursors, flatOp[c] = "idle"
               PROVE  IF AtFlatEnd(c)
                      THEN iter[c].cur = outer.e /\ past[c] = Flat
                      ELSE <<iter[c].cur, iter[c].pos>> \in Flat
                             /\ past[c] = Before(iter[c].cur, iter[c].pos)
    BY DEF ReadsFlat
  <2>1. AtFlatEnd(c) <=> iter[c].atEnd
    BY AtEndFlag, IterType DEF IInv, Sensible
  <2> QED
    BY <2>1 DEF IInv, Rests
<1> QED
  BY <1>1, FlatInvariance, PTL

\* However iterators of flat_map are copied, assigned, moved on and destroyed, one
\* that walks the inner range another holds walks that of its own outer element,
\* and one that loaded its range itself finds it alive.
THEOREM FlatOwnElement == ASSUME Sensible PROVE FlatSpec => []ReadsOwnElement
<1>1. IInv => ReadsOwnElement
  <2> SUFFICES ASSUME IInv, NEW c \in FlatCursors, flatOp[c] = "idle", ~AtFlatEnd(c)
               PROVE  /\ held[c] = iter[c].cur
                      /\ in[c] \in FlatCursors => held[in[c]] = iter[c].cur
                      /\ c \notin lent => in[c] # Dead
    BY DEF ReadsOwnElement
  <2>1. ~iter[c].atEnd
    BY AtEndFlag, IterType DEF IInv, Sensible
  <2> QED
    BY <2>1 DEF IInv, Rests, Sensible
<1> QED
  BY <1>1, FlatInvariance, PTL

-----------------------------------------------------------------------------
(* scan: the inductive invariant.                                          *)

Results == Seq(Int \X Values)

\* The result an iterator goes on from.
Now(i) == IF i.cache = <<>> THEN i.acc ELSE i.cache

\* An iterator, and what it has shown.
Fits(i, s) ==
  /\ i \in [cur : Int, acc : Results, cache : Results, fn : BOOLEAN]
  /\ s \in Results
  /\ i.fn =>
       /\ 1 <= i.cur /\ i.cur <= Len(val)
       /\ InOrder(i.acc, i.cur - 1)
       /\ i.cache # <<>> => InOrder(i.cache, i.cur)
       /\ Len(s) <= Len(Now(i))
       /\ \A k \in 1 .. Len(s) : Now(i)[k] = s[k]

ScanInv ==
  /\ val \in Seq(Values)
  /\ DOMAIN scan = Scanners /\ DOMAIN shown = Scanners /\ DOMAIN at = Scanners
  /\ scan = [c \in Scanners |-> scan[c]]
  /\ shown = [c \in Scanners |-> shown[c]]
  /\ at = [c \in Scanners |-> at[c]]
  /\ \A c \in Scanners : at[c] => Fits(scan[c], shown[c])

\* What iterators and their results are worth does not depend on the elements.
LEMMA FitsLength == Len(val') = Len(val) => \A i, s : Fits(i, s) => Fits(i, s)'
BY DEF Fits, InOrder

\* A step that makes c an iterator.
LEMMA SetInv ==
  ASSUME ScanInv, NEW c \in Scanners, NEW i, NEW s, Fits(i, s), Set(c, i, s)
  PROVE  ScanInv'
<1>1. val' = val /\ scan' = [scan EXCEPT ![c] = i] /\ shown' = [shown EXCEPT ![c] = s]
      /\ at' = [at EXCEPT ![c] = TRUE]
  BY DEF Set
<1>2. \A d \in Scanners : (at[d] => Fits(scan[d], shown[d]))'
  <2> SUFFICES ASSUME NEW d \in Scanners, at'[d] PROVE Fits(scan[d], shown[d])'
    OBVIOUS
  <2>1. Fits(scan'[d], shown'[d])
    BY <1>1 DEF ScanInv
  <2> QED
    BY <1>1, <2>1, FitsLength
<1> QED
  BY <1>1, <1>2 DEF ScanInv

\* A result with one more element.
LEMMA FoldedResult ==
  ASSUME val \in Seq(Values),
         NEW i \in [cur : Int, acc : Results, cache : Results, fn : BOOLEAN],
         1 <= i.cur, i.cur <= Len(val), InOrder(i.acc, i.cur - 1)
  PROVE  /\ Folded(i) \in Results /\ Folded(i) # <<>>
         /\ InOrder(Folded(i), i.cur)
         /\ Len(Folded(i)) = Len(i.acc) + 1
         /\ \A k \in 1 .. Len(i.acc) : Folded(i)[k] = i.acc[k]
<1> DEFINE e == <<i.cur, val[i.cur]>>
<1>1. e \in Int \X Values /\ i.acc \in Results
  BY ElementOfSeq
<1>2. /\ Append(i.acc, e) \in Results
      /\ Len(Append(i.acc, e)) = Len(i.acc) + 1
      /\ \A k \in 1 .. Len(i.acc) : Append(i.acc, e)[k] = i.acc[k]
      /\ Append(i.acc, e)[Len(i.acc) + 1] = e
  BY <1>1, AppendProperties DEF Results
<1>3. Len(i.acc) = i.cur - 1 /\ i.cur \in Int
  BY DEF InOrder
<1>4. \A k \in 1 .. i.cur : Append(i.acc, e)[k][1] = k
  <2> SUFFICES ASSUME NEW k \in 1 .. i.cur PROVE Append(i.acc, e)[k][1] = k
    OBVIOUS
  <2>1. CASE k = i.cur
    BY <1>2, <1>3, <2>1
  <2>2. CASE k # i.cur
    <3>1. k \in 1 .. i.cur - 1
      BY <1>3, <2>2
    <3> QED
      BY <1>2, <1>3, <3>1 DEF InOrder
  <2> QED
    BY <2>1, <2>2
<1>5. Append(i.acc, e) # <<>>
  BY <1>1, <1>2, <1>3
<1> QED
  BY <1>2, <1>3, <1>4, <1>5 DEF Folded, InOrder

\* What operator* returns and operator++ goes on from.
LEMMA ResultAt ==
  ASSUME val \in Seq(Values), NEW i, NEW s, Fits(i, s), i.fn, NEW r,
         r = IF i.cache = <<>> THEN Folded(i) ELSE i.cache
  PROVE  /\ r \in Results /\ r # <<>> /\ InOrder(r, i.cur)
         /\ Len(s) <= Len(r) /\ \A k \in 1 .. Len(s) : r[k] = s[k]
<1>1. /\ i \in [cur : Int, acc : Results, cache : Results, fn : BOOLEAN]
      /\ s \in Results
      /\ 1 <= i.cur /\ i.cur <= Len(val) /\ InOrder(i.acc, i.cur - 1)
      /\ i.cache # <<>> => InOrder(i.cache, i.cur)
      /\ Len(s) <= Len(Now(i)) /\ \A k \in 1 .. Len(s) : Now(i)[k] = s[k]
  BY DEF Fits
<1>2. CASE i.cache = <<>>
  <2>1. r = Folded(i) /\ Now(i) = i.acc
    BY <1>2 DEF Now
  <2>2. /\ r \in Results /\ r # <<>> /\ InOrder(r, i.cur)
        /\ Len(r) = Len(i.acc) + 1
        /\ \A k \in 1 .. Len(i.acc) : r[k] = i.acc[k]
    BY <1>1, <2>1, FoldedResult
  <2>3. Len(s) \in Nat /\ Len(i.acc) \in Nat
    BY <1>1 DEF Results
  <2> QED
    BY <1>1, <2>1, <2>2, <2>3
<1>3. CASE i.cache # <<>>
  BY <1>1, <1>3 DEF Now
<1> QED
  BY <1>2, <1>3

LEMMA ScanInitInv == ScanInit => ScanInv
<1> SUFFICES ASSUME ScanInit PROVE ScanInv
  OBVIOUS
<1>1. PICK n \in 0 .. MaxFolded : val \in [1 .. n -> Values]
  BY DEF ScanInit
<1>2. val \in Seq(Values)
  BY <1>1, SeqDef
<1> QED
  BY <1>2 DEF ScanInit, ScanInv

LEMMA ScanDerefInv == ASSUME ScanInv, NEW c \in Scanners, Deref(c) PROVE ScanInv'
<1> DEFINE i == scan[c]
           r == IF i.cache = <<>> THEN Folded(i) ELSE i.cache
           j == [i EXCEPT !.cache = r]
<1>1. Fits(i, shown[c]) /\ i.fn /\ val \in Seq(Values) /\ Set(c, j, r)
  BY DEF Deref, ScanInv, Empty
<1>2. i \in [cur : Int, acc : Results, cache : Results, fn : BOOLEAN]
      /\ 1 <= i.cur /\ i.cur <= Len(val) /\ InOrder(i.acc, i.cur - 1)
  BY <1>1 DEF Fits
<1> HIDE DEF i
<1>3. r \in Results /\ r # <<>> /\ InOrder(r, i.cur)
  BY <1>1, ResultAt
<1>4. Len(r) \in Nat
  BY <1>3 DEF Results
<1> HIDE DEF r
<1>5. j = [cur |-> i.cur, acc |-> i.acc, cache |-> r, fn |-> i.fn]
  BY <1>2
<1>6. Fits(j, r)
  BY <1>1, <1>2, <1>3, <1>4, <1>5 DEF Fits, Now
<1> QED
  BY <1>1, <1>6, SetInv

LEMMA ScanIncInv == ASSUME ScanInv, NEW c \in Scanners, ScanInc(c) PROVE ScanInv'
<1> DEFINE i == scan[c]
           r == IF i.cache = <<>> THEN Folded(i) ELSE i.cache
           j == [cur |-> i.cur + 1, acc |-> r, cache |-> <<>>, fn |-> i.cur + 1 # Len(val) + 1]
<1>1. CASE i.fn /\ ScanStep(c, r)
  <2>1. Fits(i, shown[c]) /\ i.fn /\ val \in Seq(Values) /\ Set(c, j, shown[c])
    BY <1>1 DEF ScanInc, ScanStep, ScanInv, Empty, EndPos
  <2>2. i.cur \in Int /\ 1 <= i.cur /\ i.cur <= Len(val) /\ shown[c] \in Results
    BY <2>1 DEF Fits
  <2>3. Len(val) \in Nat
    BY <2>1
  <2> HIDE DEF i
  <2>4. /\ r \in Results /\ r # <<>> /\ InOrder(r, i.cur)
        /\ Len(shown[c]) <= Len(r) /\ \A k \in 1 .. Len(shown[c]) : r[k] = shown[c][k]
    BY <2>1, ResultAt
  <2> HIDE DEF r
  <2>5. j \in [cur : Int, acc : Results, cache : Results, fn : BOOLEAN]
    BY <2>2, <2>4 DEF Results
  <2>6. Now(j) = r /\ j.cur = i.cur + 1 /\ j.acc = r /\ j.cache = <<>>
    BY DEF Now
  <2>7. j.fn => i.cur + 1 <= Len(val)
    <3>1. CASE i.cur + 1 = Len(val) + 1
      BY <3>1, Zenon
    <3>2. CASE i.cur + 1 # Len(val) + 1
      BY <2>2, <2>3, <3>2
    <3> QED
      BY <3>1, <3>2
  <2> HIDE DEF j
  <2>8. Fits(j, shown[c])
    BY <2>2, <2>4, <2>5, <2>6, <2>7 DEF Fits
  <2> QED
    BY <2>1, <2>8, SetInv
<1>2. CASE UNCHANGED scanVars
  BY <1>2, FitsLength DEF scanVars, ScanInv
<1> QED
  BY <1>1, <1>2 DEF ScanInc, Empty

LEMMA ScanNextInv == ScanInv /\ [ScanNext]_scanVars => ScanInv'
<1> SUFFICES ASSUME ScanInv, [ScanNext]_scanVars PROVE ScanInv'
  OBVIOUS
<1>1. ASSUME NEW c \in Scanners, ScanBegin(c) PROVE ScanInv'
  <2> DEFINE j == [cur |-> 1, acc |-> <<>>, cache |-> <<>>, fn |-> Len(val) + 1 # 1]
  <2>1. Set(c, j, <<>>) /\ Len(val) \in Nat
    BY <1>1 DEF ScanBegin, Empty, EndPos, ScanInv
  <2>2. <<>> \in Results
    BY DEF Results
  <2>3. j \in [cur : Int, acc : Results, cache : Results, fn : BOOLEAN]
    BY <2>2
  <2>4. Now(j) = <<>> /\ j.cur = 1 /\ j.acc = <<>> /\ j.cache = <<>>
    BY DEF Now
  <2>5. j.fn => 1 <= Len(val)
    <3>1. CASE Len(val) + 1 = 1
      BY <3>1, Zenon
    <3>2. CASE Len(val) + 1 # 1
      BY <2>1, <3>2
    <3> QED
      BY <3>1, <3>2
  <2> HIDE DEF j
  <2>6. Fits(j, <<>>)
    BY <2>2, <2>3, <2>4, <2>5 DEF Fits, InOrder
  <2> QED
    BY <2>1, <2>6, SetInv
<1>2. ASSUME NEW c \in Scanners, ScanEnd(c) PROVE ScanInv'
  <2> DEFINE j == [cur |-> Len(val) + 1, acc |-> <<>>, cache |-> <<>>, fn |-> FALSE]
  <2>1. Set(c, j, <<>>) /\ Len(val) \in Nat
    BY <1>2 DEF ScanEnd, Empty, EndPos, ScanInv
  <2>2. <<>> \in Results
    BY DEF Results
  <2>3. j \in [cur : Int, acc : Results, cache : Results, fn : BOOLEAN] /\ j.fn = FALSE
    BY <2>1, <2>2
  <2>4. Fits(j, <<>>)
    BY <2>2, <2>3 DEF Fits
  <2> QED
    BY <2>1, <2>4, SetInv
<1>3. ASSUME NEW c \in Scanners, NEW d \in Scanners, ScanCopy(c, d) PROVE ScanInv'
  BY <1>3, SetInv DEF ScanCopy, ScanInv
<1>4. ASSUME NEW x \in DOMAIN val, ScanWrite(x) PROVE ScanInv'
  <2>1. PICK v \in Values : val' = [val EXCEPT ![x] = v]
    BY <1>4 DEF ScanWrite
  <2>2. val' \in Seq(Values) /\ Len(val') = Len(val)
    BY <2>1, ExceptSeq DEF ScanInv
  <2>3. UNCHANGED <<scan, shown, at>>
    BY <1>4 DEF ScanWrite
  <2> QED
    BY <2>2, <2>3, FitsLength DEF ScanInv
<1>5. CASE UNCHANGED scanVars
  BY <1>5, FitsLength DEF scanVars, ScanInv
<1>6. ASSUME NEW c \in Scanners, FoldThrows(c) PROVE ScanInv'
  BY <1>5, <1>6 DEF FoldThrows
<1> QED
  BY <1>1, <1>2, <1>3, <1>4, <1>5, <1>6, ScanDerefInv, ScanIncInv DEF ScanNext

LEMMA ScanInvariance == ScanSpec => []ScanInv
BY ScanInitInv, ScanNextInv, PTL DEF ScanSpec

\* Whatever iterators of scan read, skip reading and copy, each result folds every
\* element up to where the iterator is in once, and in order (operator*, operator++).
THEOREM ScanFolds == ScanSpec => []FoldsEachOnce
<1>1. ScanInv => FoldsEachOnce
  BY DEF ScanInv, Fits, FoldsEachOnce, Empty
<1> QED
  BY <1>1, ScanInvariance, PTL

\* A result read is the one later results are built on, however the elements are
\* written to in between (the cache of operator*, taken along by copies).
THEOREM ScanCarries == ScanSpec => []CarriesShown
<1>1. ScanInv => CarriesShown
  <2> SUFFICES ASSUME ScanInv, NEW c \in Scanners, at[c], scan[c].fn
               PROVE  Len(shown[c]) <= Len(Now(scan[c]))
                        /\ SubSeq(Now(scan[c]), 1, Len(shown[c])) = shown[c]
    BY DEF CarriesShown, Empty, Now
  <2> DEFINE s == shown[c]
             w == Now(scan[c])
  <2>1. /\ s \in Results /\ w \in Results
        /\ Len(s) <= Len(w) /\ \A k \in 1 .. Len(s) : w[k] = s[k]
    BY DEF ScanInv, Fits, Now
  <2> HIDE DEF s, w
  <2>2. Len(s) \in Nat /\ Len(w) \in Nat
    BY <2>1 DEF Results
  <2>3. \A k \in 1 .. Len(s) : w[k] \in Int \X Values
    BY <2>1, <2>2, ElementOfSeq DEF Results
  <2>4. SubSeq(w, 1, Len(s)) = s
    <3>1. SubSeq(w, 1, Len(s)) = [k \in 1 .. Len(s) |-> w[k]]
      BY <2>2
    <3>2. s = [k \in 1 .. Len(s) |-> s[k]]
      BY <2>1 DEF Results
    <3> QED
      BY <2>1, <3>1, <3>2
  <2> QED
    BY <2>1, <2>4 DEF s, w
<1> QED
  BY <1>1, ScanInvariance, PTL

(* take_while. *)

LEMMA ViewType ==
  ASSUME TaskTypeOK
  PROVE  /\ rng.b \in Pos
         /\ rng.e \in Pos
         /\ rng.b \in Int
         /\ rng.e \in Int
         /\ 1 <= rng.b
         /\ rng.b <= rng.e
         /\ rng.e <= N + 1
         /\ spot \in Int
         /\ rev \in Int
         /\ rest \in Int
<1>1. rng \in {r \in [b : Pos, e : Pos] : r.b <= r.e}
  BY DEF TaskTypeOK
<1> QED
  BY <1>1 DEF TaskTypeOK, Pos, Unmade

\* The position read last extends what has been read, upwards or downwards.
LEMMA ReadUp ==
  ASSUME NEW x \in Int, NEW y \in Int, x <= y
  PROVE  Append(Upwards(x, y), y) = Upwards(x, y + 1)
BY DEF Upwards

LEMMA ReadDown ==
  ASSUME NEW x \in Int, NEW y \in Int, x <= y
  PROVE  Append(Downwards(x, y), x - 1) = Downwards(x - 1, y)
BY DEF Downwards

LEMMA ReadNothing ==
  ASSUME NEW x \in Int
  PROVE  Upwards(x, x) = <<>> /\ Downwards(x, x) = <<>>
BY DEF Upwards, Downwards

LEMMA InitIInv == TaskInit => TaskInv
<1> SUFFICES ASSUME TaskInit PROVE TaskInv
  OBVIOUS
<1>1. rng \in {r \in [b : Pos, e : Pos] : r.b <= r.e}
  BY DEF TaskInit
<1>2. TaskTypeOK
  BY <1>1 DEF TaskInit, TaskTypeOK, Unmade
<1> QED
  BY <1>2
  DEF TaskInit, TaskInv, TaskLoopInv, BoundsInv, Performing, ForwardReadsPrefix, ReverseReadsPrefix,
      RestReadsRest, Performed
-----------------------------------------------------------------------------
(* One lemma per action or group of actions.                               *)

LEMMA StartInv ==
  ASSUME TaskInv, BeginForward \/ BeginReverse \/ BeginRest \/ MakeReverse \/ MakeRest
  PROVE  TaskInv'
<1> USE DEF TaskInv
<1>1. /\ TaskTypeOK
      /\ UNCHANGED <<accepted, rng, rev, rest, seen>>
      /\ readings' = <<>>
      /\ phase' # "ready"
  BY DEF BeginForward, BeginReverse, BeginRest, MakeReverse, MakeRest, StartTask
<1>2. TaskTypeOK'
  BY <1>1, ViewType
  DEF TaskTypeOK, BeginForward, BeginReverse, BeginRest, MakeReverse, MakeRest, StartTask, Unmade
<1>3. TaskLoopInv'
  <2>1. CASE BeginForward \/ MakeReverse \/ MakeRest
    <3>1. spot' = rng.b /\ task' \in {"forward", "makeRev", "makeRest"}
          /\ phase' = IF task' = "forward" THEN "loop" ELSE "search"
      BY <2>1 DEF BeginForward, MakeReverse, MakeRest, StartTask
    <3>2. AcceptedBelow'
      BY <1>1, <3>1, ViewType DEF AcceptedBelow
    <3> QED
      BY <1>1, <3>1, <3>2, ViewType, ReadNothing DEF TaskLoopInv, Performing
  <2>2. CASE BeginReverse
    <3>1. spot' = rev /\ task' = "reverse" /\ phase' = "loop" /\ rev # Unmade
      BY <2>2 DEF BeginReverse, StartTask
    <3>2. rev \in rng.b .. rng.e
      BY <3>1 DEF BoundsInv, IsPrefixEnd
    <3> QED
      BY <1>1, <3>1, <3>2, ViewType, ReadNothing DEF TaskLoopInv, Performing
  <2>3. CASE BeginRest
    <3>1. spot' = rest /\ task' = "rest" /\ phase' = "loop" /\ rest # Unmade
      BY <2>3 DEF BeginRest, StartTask
    <3>2. rest \in rng.b .. rng.e
      BY <3>1 DEF BoundsInv, IsPrefixEnd
    <3> QED
      BY <1>1, <3>1, <3>2, ViewType, ReadNothing DEF TaskLoopInv, Performing
  <2> QED
    BY <2>1, <2>2, <2>3
<1> QED
  BY <1>1, <1>2, <1>3
  DEF BoundsInv, IsPrefixEnd, ForwardReadsPrefix, ReverseReadsPrefix, RestReadsRest, Performed

\* A comparison that does not find the end accepts the element it looks at.
LEMMA AcceptStep ==
  ASSUME TaskTypeOK, AcceptedBelow, ~MeetsEnd(spot, rng.e), spot' = spot + 1, UNCHANGED <<accepted, rng>>
  PROVE  AcceptedBelow' /\ spot' \in Pos /\ spot \in accepted /\ spot < rng.e /\ rng.b <= spot
<1>1. spot # rng.e /\ spot \in accepted /\ spot \in rng.b .. rng.e
  BY DEF MeetsEnd, AcceptedBelow
<1>2. \A y \in rng.b .. spot' - 1 : y \in accepted
  BY <1>1, ViewType DEF AcceptedBelow
<1> QED
  BY <1>1, <1>2, ViewType DEF AcceptedBelow, Pos

LEMMA ForwardInv ==
  ASSUME TaskInv, TaskForward
  PROVE  TaskInv'
<1>1. TaskTypeOK /\ AcceptedBelow /\ readings = Upwards(rng.b, spot) /\ ~MeetsEnd(spot, rng.e)
  BY DEF TaskInv, TaskLoopInv, TaskForward
<1>2. /\ UNCHANGED <<accepted, rng, rev, rest, seen, task, phase>>
      /\ spot' = spot + 1
      /\ readings' = Append(readings, spot)
      /\ Performing("forward")
  BY DEF TaskForward, TaskRead
<1>3. AcceptedBelow' /\ spot' \in Pos /\ rng.b <= spot
  BY <1>1, <1>2, AcceptStep
<1>4. readings' = Upwards(rng.b, spot')
  BY <1>1, <1>2, <1>3, ViewType, ReadUp
<1>5. TaskTypeOK'
  BY <1>1, <1>2, <1>3 DEF TaskTypeOK
<1> QED
  BY <1>2, <1>3, <1>4, <1>5
  DEF TaskInv, TaskLoopInv, BoundsInv, IsPrefixEnd, Performing, ForwardReadsPrefix,
      ReverseReadsPrefix, RestReadsRest, Performed

LEMMA ReverseInv ==
  ASSUME TaskInv, TaskReverse
  PROVE  TaskInv'
<1>1. TaskTypeOK /\ spot \in rng.b .. rev /\ readings = Downwards(spot, rev) /\ rev # Unmade /\ spot # rng.b
  BY DEF TaskInv, TaskLoopInv, TaskReverse
<1>2. /\ UNCHANGED <<accepted, rng, rev, rest, seen, task, phase>>
      /\ spot' = spot - 1
      /\ readings' = Append(readings, spot - 1)
      /\ Performing("reverse")
  BY DEF TaskReverse, TaskRead
<1>3. spot' \in rng.b .. rev /\ spot' \in Pos
  BY <1>1, <1>2, ViewType DEF TaskTypeOK, Pos
<1>4. readings' = Downwards(spot', rev)
  <2>1. spot \in Int /\ rev \in Int /\ spot <= rev
    BY <1>1, ViewType
  <2>2. Append(Downwards(spot, rev), spot - 1) = Downwards(spot - 1, rev)
    BY <2>1, ReadDown
  <2> QED
    BY <1>1, <1>2, <2>2
<1>5. TaskTypeOK'
  BY <1>1, <1>2, <1>3 DEF TaskTypeOK
<1> QED
  BY <1>1, <1>2, <1>3, <1>4, <1>5
  DEF TaskInv, TaskLoopInv, BoundsInv, IsPrefixEnd, Performing, ForwardReadsPrefix,
      ReverseReadsPrefix, RestReadsRest, Performed

LEMMA RestInv ==
  ASSUME TaskInv, TaskRest
  PROVE  TaskInv'
<1>1. TaskTypeOK /\ spot \in rest .. rng.e /\ readings = Upwards(rest, spot) /\ rest # Unmade /\ spot # rng.e
  BY DEF TaskInv, TaskLoopInv, TaskRest
<1>2. /\ UNCHANGED <<accepted, rng, rev, rest, seen, task, phase>>
      /\ spot' = spot + 1
      /\ readings' = Append(readings, spot)
      /\ Performing("rest")
  BY DEF TaskRest, TaskRead
<1>3. spot' \in rest .. rng.e /\ spot' \in Pos
  BY <1>1, <1>2, ViewType DEF TaskTypeOK, Pos, Unmade
<1>4. readings' = Upwards(rest, spot')
  <2>1. spot \in Int /\ rest \in Int /\ rest <= spot
    BY <1>1, ViewType
  <2>2. Append(Upwards(rest, spot), spot) = Upwards(rest, spot + 1)
    BY <2>1, ReadUp
  <2> QED
    BY <1>1, <1>2, <2>2
<1>5. TaskTypeOK'
  BY <1>1, <1>2, <1>3 DEF TaskTypeOK
<1> QED
  BY <1>1, <1>2, <1>3, <1>4, <1>5
  DEF TaskInv, TaskLoopInv, BoundsInv, IsPrefixEnd, Performing, ForwardReadsPrefix,
      ReverseReadsPrefix, RestReadsRest, Performed

LEMMA SearchInv ==
  ASSUME TaskInv, SearchStep
  PROVE  TaskInv'
<1>1. TaskTypeOK /\ AcceptedBelow /\ ~MeetsEnd(spot, rng.e)
  BY DEF TaskInv, TaskLoopInv, SearchStep, Searching
<1>2. /\ UNCHANGED <<accepted, rng, rev, rest, seen, task, phase, readings>>
      /\ spot' = spot + 1
      /\ phase = "search"
      /\ task \in {"makeRev", "makeRest"}
  BY DEF SearchStep, Searching
<1>3. AcceptedBelow' /\ spot' \in Pos
  BY <1>1, <1>2, AcceptStep
<1>4. TaskTypeOK'
  BY <1>1, <1>2, <1>3 DEF TaskTypeOK
<1> QED
  BY <1>2, <1>3, <1>4
  DEF TaskInv, TaskLoopInv, BoundsInv, IsPrefixEnd, Performing, ForwardReadsPrefix,
      ReverseReadsPrefix, RestReadsRest, Performed

\* Where the comparisons stop is the end of the prefix.
LEMMA StopsAtPrefixEnd ==
  ASSUME AcceptedBelow, MeetsEnd(spot, rng.e)
  PROVE  IsPrefixEnd(spot, accepted)
BY DEF AcceptedBelow, MeetsEnd, IsPrefixEnd

LEMMA MadeInv ==
  ASSUME TaskInv, ReverseMade \/ RestMade
  PROVE  TaskInv'
<1>1. TaskTypeOK /\ AcceptedBelow /\ MeetsEnd(spot, rng.e) /\ BoundsInv
  BY DEF TaskInv, TaskLoopInv, ReverseMade, RestMade, Searching
<1>2. UNCHANGED <<accepted, rng, task, spot, readings>> /\ phase' = "ready" /\ task \in {"makeRev", "makeRest"}
  BY DEF ReverseMade, RestMade, Searching
<1>3. IsPrefixEnd(spot, accepted)
  BY <1>1, StopsAtPrefixEnd
<1>4. TaskTypeOK'
  BY <1>1 DEF ReverseMade, RestMade, TaskTypeOK
<1>5. BoundsInv'
  <2>1. CASE ReverseMade
    <3>1. rev' = spot /\ rest' = rest /\ seen'["rev"] = accepted /\ seen'["rest"] = seen["rest"]
      BY <1>1, <2>1 DEF ReverseMade, TaskTypeOK
    <3> QED
      BY <1>1, <1>2, <1>3, <3>1 DEF BoundsInv, IsPrefixEnd
  <2>2. CASE RestMade
    <3>1. rest' = spot /\ rev' = rev /\ seen'["rest"] = accepted /\ seen'["rev"] = seen["rev"]
      BY <1>1, <2>2 DEF RestMade, TaskTypeOK
    <3> QED
      BY <1>1, <1>2, <1>3, <3>1 DEF BoundsInv, IsPrefixEnd
  <2> QED
    BY <2>1, <2>2
<1> QED
  BY <1>2, <1>4, <1>5
  DEF TaskInv, TaskLoopInv, Performing, ForwardReadsPrefix, ReverseReadsPrefix, RestReadsRest, Performed

LEMMA FinishInv ==
  ASSUME TaskInv, FinishTask
  PROVE  TaskInv'
<1>1. TaskTypeOK /\ TaskLoopInv /\ BoundsInv
  BY DEF TaskInv
<1>2. /\ UNCHANGED <<accepted, rng, rev, rest, seen, task, spot, readings>>
      /\ phase' = "ready"
      /\ phase = "loop"
  BY DEF FinishTask, Performing
<1>3. TaskTypeOK' /\ TaskLoopInv' /\ BoundsInv'
  BY <1>1, <1>2 DEF TaskTypeOK, TaskLoopInv, BoundsInv, IsPrefixEnd, Performing
<1>4. ForwardReadsPrefix'
  <2> SUFFICES ASSUME task = "forward" PROVE IsPrefixEnd(spot, accepted) /\ readings = Upwards(rng.b, spot)
    BY <1>1, <1>2 DEF ForwardReadsPrefix, Performed, IsPrefixEnd, Upwards, TaskTypeOK
  <2>1. AcceptedBelow /\ MeetsEnd(spot, rng.e) /\ readings = Upwards(rng.b, spot)
    BY <1>1, <1>2 DEF TaskLoopInv, Performing, FinishTask
  <2> QED
    BY <2>1, StopsAtPrefixEnd
<1>5. ReverseReadsPrefix'
  <2> SUFFICES ASSUME task = "reverse"
               PROVE  rev \in Pos /\ IsPrefixEnd(rev, seen["rev"]) /\ readings = Downwards(rng.b, rev)
    BY <1>1, <1>2 DEF ReverseReadsPrefix, Performed, IsPrefixEnd, Downwards
  <2>1. readings = Downwards(rng.b, rev) /\ rev # Unmade
    BY <1>1, <1>2 DEF TaskLoopInv, Performing, FinishTask
  <2> QED
    BY <1>1, <2>1 DEF BoundsInv, TaskTypeOK
<1>6. RestReadsRest'
  <2> SUFFICES ASSUME task = "rest"
               PROVE  rest \in Pos /\ IsPrefixEnd(rest, seen["rest"]) /\ readings = Upwards(rest, rng.e)
    BY <1>1, <1>2 DEF RestReadsRest, Performed, IsPrefixEnd, Upwards
  <2>1. readings = Upwards(rest, rng.e) /\ rest # Unmade
    BY <1>1, <1>2 DEF TaskLoopInv, Performing, FinishTask
  <2> QED
    BY <1>1, <2>1 DEF BoundsInv, TaskTypeOK
<1> QED
  BY <1>3, <1>4, <1>5, <1>6 DEF TaskInv

LEMMA LastInv ==
  ASSUME TaskInv, TaskLast
  PROVE  TaskInv'
<1>1. /\ TaskTypeOK
      /\ UNCHANGED <<accepted, rng, rev, rest, seen, phase, spot>>
      /\ task' = "last"
      /\ phase = "ready"
  BY DEF TaskInv, TaskLast
<1>2. readings' \in Seq(Pos)
  <2>1. CASE MeetsEnd(rng.b, rng.e)
    BY <2>1 DEF TaskLast
  <2>2. CASE ~MeetsEnd(rng.b, rng.e)
    <3>1. rng.e - 1 \in Pos
      BY <1>1, <2>2, ViewType DEF MeetsEnd, Pos
    <3> QED
      BY <2>2, <3>1 DEF TaskLast
  <2> QED
    BY <2>1, <2>2
<1>3. TaskTypeOK'
  BY <1>1, <1>2 DEF TaskTypeOK
<1> QED
  BY <1>1, <1>3
  DEF TaskInv, TaskLoopInv, BoundsInv, IsPrefixEnd, Performing, ForwardReadsPrefix,
      ReverseReadsPrefix, RestReadsRest, Performed

LEMMA WriteInv ==
  ASSUME TaskInv, NEW x \in 1 .. N, TaskWrite(x)
  PROVE  TaskInv'
<1>1. TaskTypeOK /\ UNCHANGED <<rng, rev, rest, seen, phase, spot>> /\ task' = "none" /\ phase = "ready"
  BY DEF TaskInv, TaskWrite
<1>2. TaskTypeOK'
  BY <1>1 DEF TaskTypeOK, TaskWrite
<1> QED
  BY <1>1, <1>2
  DEF TaskInv, TaskLoopInv, BoundsInv, IsPrefixEnd, Performing, ForwardReadsPrefix,
      ReverseReadsPrefix, RestReadsRest, Performed
-----------------------------------------------------------------------------
LEMMA NextIInv == TaskInv /\ [TaskNext]_taskVars => TaskInv'
<1> SUFFICES ASSUME TaskInv, [TaskNext]_taskVars PROVE TaskInv'
  OBVIOUS
<1>1. CASE TaskStep
  BY <1>1, ForwardInv, ReverseInv, RestInv, FinishInv, SearchInv, MadeInv DEF TaskStep
<1>2. CASE BeginForward \/ BeginReverse \/ BeginRest \/ MakeReverse \/ MakeRest
  BY <1>2, StartInv
<1>3. CASE TaskLast
  BY <1>3, LastInv
<1>4. ASSUME NEW x \in 1 .. N, TaskWrite(x) PROVE TaskInv'
  BY <1>4, WriteInv
<1>5. CASE UNCHANGED taskVars
  BY <1>5
  DEF taskVars, TaskInv, TaskTypeOK, TaskLoopInv, AcceptedBelow, BoundsInv, IsPrefixEnd, Performing, Upwards,
      Downwards, ForwardReadsPrefix, ReverseReadsPrefix, RestReadsRest, Performed
<1> QED
  BY <1>1, <1>2, <1>3, <1>4, <1>5 DEF TaskNext

\* The inductive invariant holds in every reachable state.
THEOREM Invariance == TaskSpec => []TaskInv
<1> QED
  BY InitIInv, NextIInv, PTL DEF TaskSpec

\* A loop over take_while(pred) reads the elements pred accepts now, up to the
\* first it rejects: the comparison with end() finds that anew on every pass.
THEOREM ForwardCorrect == TaskSpec => []ForwardReadsPrefix
<1>1. TaskInv => ForwardReadsPrefix
  BY DEF TaskInv
<1> QED
  BY <1>1, Invariance, PTL

\* A loop over take_while(pred).reverse() reads, backwards, the prefix found
\* when reverse() was called, one element or none included.
THEOREM ReverseCorrect == TaskSpec => []ReverseReadsPrefix
<1>1. TaskInv => ReverseReadsPrefix
  BY DEF TaskInv
<1> QED
  BY <1>1, Invariance, PTL

\* take_while(pred) and skip_while(pred) part the range between them.
THEOREM RestCorrect == TaskSpec => []RestReadsRest
<1>1. TaskInv => RestReadsRest
  BY DEF TaskInv
<1> QED
  BY <1>1, Invariance, PTL

=============================================================================
