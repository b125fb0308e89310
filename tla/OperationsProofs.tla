-------------------------- MODULE OperationsProofs --------------------------
(***************************************************************************)
(* Proofs about operations that read a whole range at the call:            *)
(* RowTerminals, TailOps, SetOps, GroupOps and JoinOps, for ranges of any  *)
(* length.                                                                 *)
(***************************************************************************)
EXTENDS RowTerminals, TailOps, SetOps, GroupOps, JoinOps, SortedProofs, TLAPS

(* Rows. *)

\* The first of the least, or greatest, of the first n rows there were.
LeastOf(x, n) ==
  /\ \A y \in 1 .. x - 1 : Less(x, was[x], y, was[y])
  /\ \A y \in x .. n : ~Less(y, was[y], x, was[x])

GreatestOf(x, n) ==
  /\ \A y \in 1 .. x - 1 : Less(y, was[y], x, was[x])
  /\ \A y \in x .. n : ~Less(x, was[x], y, was[y])

Rows == [index : Int, cell : Int, own : Int]

Places(r) == r \in Rows /\ r.index \in 1 .. row - 1 /\ r.cell = 1

RowShape ==
  /\ kind \in Kinds /\ whole \in BOOLEAN /\ bound \in BOOLEAN
  /\ was \in Seq(Int) /\ key \in Seq(Int) /\ Len(key) = Len(was)
  /\ row \in 2 .. Len(was) + 1
  /\ stage = "done" => row = Len(was) + 1
  /\ Places(lo) /\ Places(hi)

\* A variable bound to an element is bound to the first, so only that one is written to.
FirstOnly == \A x \in DOMAIN was : key[x] = was[x] \/ (bound /\ x = 1)

Twice == kind = "min_max" /\ bound

LowSoFar ==
  kind \in {"min", "min_by", "min_max"} /\ ~Twice =>
    LeastOf(lo.index, row - 1) /\ Second(key, lo) = was[lo.index]

HighSoFar ==
  kind \in {"max", "max_by", "min_max"} /\ ~Twice =>
    GreatestOf(hi.index, row - 1) /\ Second(key, hi) = was[hi.index]

RowInv == RowShape /\ FirstOnly /\ LowSoFar /\ HighSoFar

\* A call begins with the first row found in both directions.
LEMMA RowInitInv == RowInit => RowInv
<1> SUFFICES ASSUME RowInit PROVE RowInv
  OBVIOUS
<1>1. PICK l \in 1 .. MaxRows : key \in [1 .. l -> 0 .. MaxElement]
  BY DEF RowInit
<1>2. key \in Seq(Int) /\ Len(key) = l /\ l \in Nat /\ l >= 1
  BY <1>1
<1>3. was = key /\ row = 2 /\ stage = "run" /\ lo = Row(key, 1) /\ hi = Row(key, 1)
  BY DEF RowInit
<1>4. kind \in Kinds /\ whole \in BOOLEAN /\ bound \in BOOLEAN
  BY DEF RowInit
<1>5. RowShape
  BY <1>2, <1>3, <1>4 DEF RowShape, Places, Row, Rows
<1>6. FirstOnly
  BY <1>3 DEF FirstOnly
<1>7. ~Less(1, key[1], 1, key[1])
  BY <1>2 DEF Less
<1>8. LowSoFar /\ HighSoFar
  BY <1>2, <1>3, <1>7 DEF LowSoFar, HighSoFar, LeastOf, GreatestOf, Second, Row
<1> QED
  BY <1>5, <1>6, <1>8 DEF RowInv

\* What RowShape says of the two sequences, without Len.
LEMMA RowExtents ==
  ASSUME RowShape
  PROVE  /\ Len(was) \in Nat /\ row \in Int /\ 1 \in DOMAIN was
         /\ DOMAIN was = 1 .. Len(was) /\ DOMAIN key = 1 .. Len(was)
         /\ \A x \in 1 .. Len(was) : was[x] \in Int /\ key[x] \in Int
         /\ row <= Len(was) => row \in DOMAIN was
<1>1. Len(was) \in Nat /\ DOMAIN was = 1 .. Len(was) /\ DOMAIN key = 1 .. Len(was)
  BY LenProperties DEF RowShape
<1>2. \A x \in 1 .. Len(was) : was[x] \in Int /\ key[x] \in Int
  BY <1>1, ElementOfSeq DEF RowShape
<1> QED
  BY <1>1, <1>2 DEF RowShape

\* One more row, that is less than the least so far, or is not.
LEMMA LeastGrows ==
  ASSUME RowShape, NEW x \in 1 .. row - 1, LeastOf(x, row - 1), row <= Len(was)
  PROVE  /\ Less(row, was[row], x, was[x]) => LeastOf(row, row)
         /\ ~Less(row, was[row], x, was[x]) => LeastOf(x, row)
<1>1. row \in Int /\ row >= 2 /\ \A y \in 1 .. row : was[y] \in Int
  BY RowExtents DEF RowShape
<1>2. /\ \A y \in 1 .. x - 1 : Less(x, was[x], y, was[y])
      /\ \A y \in x .. row - 1 : ~Less(y, was[y], x, was[x])
  BY DEF LeastOf
<1>3. ASSUME Less(row, was[row], x, was[x]) PROVE LeastOf(row, row)
  <2>1. ~whole /\ was[row] < was[x]
    BY <1>1, <1>3 DEF Less
  <2>2. \A y \in 1 .. row - 1 : was[row] < was[y]
    BY <1>1, <1>2, <2>1 DEF Less
  <2> QED
    BY <1>1, <2>1, <2>2 DEF LeastOf, Less
<1>4. ASSUME ~Less(row, was[row], x, was[x]) PROVE LeastOf(x, row)
  BY <1>1, <1>2, <1>4 DEF LeastOf
<1> QED
  BY <1>3, <1>4

\* One more row, that is greater than the greatest so far, or is not.
LEMMA GreatestGrows ==
  ASSUME RowShape, NEW x \in 1 .. row - 1, GreatestOf(x, row - 1), row <= Len(was)
  PROVE  /\ Less(x, was[x], row, was[row]) => GreatestOf(row, row)
         /\ ~Less(x, was[x], row, was[row]) => GreatestOf(x, row)
<1>1. row \in Int /\ row >= 2 /\ \A y \in 1 .. row : was[y] \in Int
  BY RowExtents DEF RowShape
<1>2. /\ \A y \in 1 .. x - 1 : Less(y, was[y], x, was[x])
      /\ \A y \in x .. row - 1 : ~Less(x, was[x], y, was[y])
  BY DEF GreatestOf
<1>3. ASSUME Less(x, was[x], row, was[row]) PROVE GreatestOf(row, row)
  <2>1. \A y \in 1 .. row - 1 : Less(y, was[y], row, was[row])
    BY <1>1, <1>2, <1>3 DEF Less
  <2> QED
    BY <1>1, <2>1 DEF GreatestOf, Less
<1>4. ASSUME ~Less(x, was[x], row, was[row]) PROVE GreatestOf(x, row)
  BY <1>1, <1>2, <1>4 DEF GreatestOf
<1> QED
  BY <1>3, <1>4

\* An element is overwritten by a later one.
LEMMA WriteFirst ==
  ASSUME NEW q \in Seq(Int), NEW r, r.cell = 1, NEW x \in DOMAIN q, 1 \in DOMAIN q
  PROVE  /\ Written(q, r, x) \in Seq(Int) /\ Len(Written(q, r, x)) = Len(q)
         /\ \A y \in DOMAIN q : y # 1 \/ ~bound => Written(q, r, x)[y] = q[y]
         /\ bound => Written(q, r, x)[1] = q[x]
         /\ ~bound => Written(q, r, x) = q
<1>1. CASE bound
  <2>1. Written(q, r, x) = [q EXCEPT ![1] = q[x]]
    BY <1>1 DEF Written
  <2>2. q[x] \in Int /\ 1 \in 1 .. Len(q)
    BY ElementOfSeq, LenProperties
  <2>3. Written(q, r, x) \in Seq(Int) /\ Len(Written(q, r, x)) = Len(q)
    BY <2>1, <2>2, ExceptSeq
  <2> QED
    BY <1>1, <2>1, <2>3
<1>2. CASE ~bound
  BY <1>2 DEF Written
<1> QED
  BY <1>1, <1>2

\* A moved row is a row again, at the place it moves to.
LEMMA MovesRow ==
  ASSUME NEW q \in Seq(Int), NEW r \in Rows, NEW x \in DOMAIN q
  PROVE  /\ Moved(q, r, x) \in Rows
         /\ Moved(q, r, x).index = x /\ Moved(q, r, x).cell = r.cell
         /\ ~bound => Moved(q, r, x).own = q[x]
<1>1. x \in Int /\ q[x] \in Int
  BY LenProperties, ElementOfSeq
<1> QED
  BY <1>1 DEF Moved, Rows

\* A turn of the loop keeps the least and the greatest of the rows it has seen.
LEMMA TurnInv == RowInv /\ Turn => RowInv'
<1> SUFFICES ASSUME RowInv, Turn PROVE RowInv'
  OBVIOUS
<1> DEFINE down == kind \in {"min", "min_by", "min_max"} /\ Lower(key)
           m    == IF down THEN Written(key, lo, row) ELSE key
           up   == kind \in {"max", "max_by", "min_max"} /\ Higher(m)
<1>1. /\ row <= Len(was) /\ row' = row + 1 /\ stage = "run"
      /\ lo' = IF down THEN Moved(key, lo, row) ELSE lo
      /\ hi' = IF up THEN Moved(m, hi, row) ELSE hi
      /\ key' = IF up THEN Written(m, hi, row) ELSE m
      /\ UNCHANGED <<kind, whole, bound, was, stage>>
  BY DEF Turn, RowInv, RowShape
<1>2. /\ RowShape /\ row \in DOMAIN was /\ row \in DOMAIN key /\ row # 1 /\ 1 \in DOMAIN key
      /\ row \in Int /\ Len(was) \in Nat /\ DOMAIN was = DOMAIN key /\ row - 1 + 1 = row
      /\ row' - 1 = row /\ row >= 2 /\ row \in 1 .. row /\ row' \in 2 .. Len(was) + 1
  BY <1>1, RowExtents DEF RowInv, RowShape
<1>3. key[row] = was[row] /\ key \in Seq(Int) /\ Len(key) = Len(was)
  BY <1>2 DEF RowInv, FirstOnly, RowShape
<1>4. /\ lo.cell = 1 /\ lo.index \in 1 .. row - 1 /\ lo.index \in 1 .. row
      /\ hi.cell = 1 /\ hi.index \in 1 .. row - 1 /\ hi.index \in 1 .. row
  <2>1. /\ lo.cell = 1 /\ lo.index \in 1 .. row - 1
        /\ hi.cell = 1 /\ hi.index \in 1 .. row - 1
    BY <1>2 DEF RowShape, Places
  <2>2. \A x \in 1 .. row - 1 : x \in 1 .. row
    BY <1>2
  <2> QED
    BY <2>1, <2>2
<1>5. /\ m \in Seq(Int) /\ Len(m) = Len(was) /\ m[row] = was[row] /\ DOMAIN m = DOMAIN was
      /\ \A x \in DOMAIN was : m[x] = was[x] \/ (bound /\ x = 1)
      /\ ~bound \/ ~down => m = key
      /\ bound /\ down => m[1] = was[row]
  <2>1. CASE down
    <3>1. m = Written(key, lo, row)
      BY <2>1
    <3> HIDE DEF down, m
    <3>2. m \in Seq(Int) /\ Len(m) = Len(key)
      BY <1>2, <1>3, <1>4, <3>1, WriteFirst
    <3>3. /\ \A y \in DOMAIN key : y # 1 \/ ~bound => m[y] = key[y]
          /\ bound => m[1] = key[row]
          /\ ~bound => m = key
      BY <1>2, <1>3, <1>4, <3>1, WriteFirst
    <3>4. DOMAIN m = DOMAIN was
      BY <1>2, <1>3, <3>2, LenProperties
    <3> QED
      BY <1>2, <1>3, <2>1, <3>2, <3>3, <3>4 DEF RowInv, FirstOnly
  <2>2. CASE ~down
    BY <1>2, <1>3, <2>2 DEF RowInv, FirstOnly
  <2> QED
    BY <2>1, <2>2
<1>6. /\ key' \in Seq(Int) /\ Len(key') = Len(was)
      /\ \A x \in DOMAIN was : key'[x] = was[x] \/ (bound /\ x = 1)
      /\ ~bound \/ ~up => key' = m
      /\ bound /\ up => key'[1] = was[row]
  <2> HIDE DEF m
  <2>1. CASE up
    <3>1. key' = Written(m, hi, row)
      BY <1>1, <2>1
    <3>2. m \in Seq(Int) /\ row \in DOMAIN m /\ 1 \in DOMAIN m /\ hi.cell = 1
      BY <1>2, <1>4, <1>5
    <3>3. key' \in Seq(Int) /\ Len(key') = Len(m)
      BY <3>1, <3>2, WriteFirst
    <3>4. /\ \A y \in DOMAIN m : y # 1 \/ ~bound => key'[y] = m[y]
          /\ bound => key'[1] = m[row]
          /\ ~bound => key' = m
      BY <3>1, <3>2, WriteFirst
    <3> HIDE DEF up
    <3> QED
      BY <1>2, <1>5, <2>1, <3>3, <3>4
  <2>2. CASE ~up
    BY <1>1, <1>5, <2>2
  <2> QED
    BY <2>1, <2>2
<1>7. FirstOnly' /\ RowShape'
  <2>1. lo' \in Rows /\ lo'.index \in 1 .. row /\ lo'.cell = 1
    <3>1. lo \in Rows
      BY <1>2 DEF RowShape, Places
    <3>2. Moved(key, lo, row) \in Rows /\ Moved(key, lo, row).index = row
          /\ Moved(key, lo, row).cell = lo.cell
      BY <1>2, <1>3, <3>1, MovesRow
    <3> HIDE DEF m, down, up
    <3> QED
      BY <1>1, <1>2, <1>4, <3>1, <3>2
  <2>2. hi' \in Rows /\ hi'.index \in 1 .. row /\ hi'.cell = 1
    <3>1. hi \in Rows
      BY <1>2 DEF RowShape, Places
    <3> HIDE DEF m, up
    <3>2. Moved(m, hi, row) \in Rows /\ Moved(m, hi, row).index = row
          /\ Moved(m, hi, row).cell = hi.cell
      BY <1>2, <1>5, <3>1, MovesRow
    <3> QED
      BY <1>1, <1>2, <1>4, <3>1, <3>2
  <2>3. Places(lo)' /\ Places(hi)'
    BY <1>2, <2>1, <2>2 DEF Places
  <2> HIDE DEF m, up, down
  <2> QED
    BY <1>1, <1>2, <1>6, <2>3 DEF RowShape, FirstOnly
<1>8. LowSoFar'
  <2> SUFFICES ASSUME kind \in {"min", "min_by", "min_max"}, ~Twice
               PROVE  (LeastOf(lo.index, row - 1) /\ Second(key, lo) = was[lo.index])'
    BY <1>1, <1>2 DEF LowSoFar, Twice
  <2>1. LeastOf(lo.index, row - 1) /\ Second(key, lo) = was[lo.index]
    BY DEF RowInv, LowSoFar
  <2>2. lo.index \in 1 .. row - 1 /\ lo.cell = 1
    BY <1>4
  <2>3. down <=> Less(row, was[row], lo.index, was[lo.index])
    BY <1>3, <2>1 DEF Lower
  <2>4. bound => ~up
    BY DEF Twice, Higher
  <2>5. CASE down
    <3>1. lo'.index = row /\ lo'.cell = 1 /\ (~bound => lo'.own = key[row])
      BY <1>1, <1>2, <2>2, <2>5 DEF Moved, RowShape, Places, Rows
    <3>2. bound => key'[1] = key[row]
      BY <1>3, <1>5, <1>6, <2>4, <2>5
    <3>3. Second(key, lo)' = was[row]
      BY <1>1, <1>3, <3>1, <3>2 DEF Second
    <3>4. LeastOf(row, row)
      BY <1>1, <1>2, <2>1, <2>2, <2>3, <2>5, LeastGrows
    <3> QED
      BY <1>1, <1>2, <3>1, <3>3, <3>4 DEF LeastOf, Less
  <2>6. CASE ~down
    <3>1. lo' = lo /\ (bound => key' = key)
      BY <1>1, <1>5, <1>6, <2>4, <2>6
    <3>2. Second(key, lo)' = was[lo.index]
      BY <1>1, <2>1, <3>1 DEF Second
    <3>3. LeastOf(lo.index, row)
      BY <1>1, <1>2, <2>1, <2>2, <2>3, <2>6, LeastGrows
    <3> QED
      BY <1>1, <1>2, <3>1, <3>2, <3>3 DEF LeastOf, Less
  <2> QED
    BY <2>5, <2>6
<1>9. HighSoFar'
  <2> SUFFICES ASSUME kind \in {"max", "max_by", "min_max"}, ~Twice
               PROVE  (GreatestOf(hi.index, row - 1) /\ Second(key, hi) = was[hi.index])'
    BY <1>1, <1>2 DEF HighSoFar, Twice
  <2>1. GreatestOf(hi.index, row - 1) /\ Second(key, hi) = was[hi.index]
    BY DEF RowInv, HighSoFar
  <2>2. hi.index \in 1 .. row - 1 /\ hi.cell = 1
    BY <1>4
  <2>3. m = key
    BY <1>5 DEF Twice
  <2>4. up <=> Less(hi.index, was[hi.index], row, was[row])
    BY <1>3, <2>1, <2>3 DEF Higher
  <2>5. CASE up
    <3>1. hi'.index = row /\ hi'.cell = 1 /\ (~bound => hi'.own = key[row])
      BY <1>1, <1>2, <2>2, <2>3, <2>5 DEF Moved, RowShape, Places, Rows
    <3>2. bound => key'[1] = key[row]
      BY <1>3, <1>6, <2>5
    <3>3. Second(key, hi)' = was[row]
      BY <1>1, <1>3, <3>1, <3>2 DEF Second
    <3>4. GreatestOf(row, row)
      BY <1>1, <1>2, <2>1, <2>2, <2>4, <2>5, GreatestGrows
    <3> QED
      BY <1>1, <1>2, <3>1, <3>3, <3>4 DEF GreatestOf, Less
  <2>6. CASE ~up
    <3>1. hi' = hi /\ key' = key
      BY <1>1, <1>6, <2>3, <2>6
    <3>2. Second(key, hi)' = was[hi.index]
      BY <1>1, <2>1, <3>1 DEF Second
    <3>3. GreatestOf(hi.index, row)
      BY <1>1, <1>2, <2>1, <2>2, <2>4, <2>6, GreatestGrows
    <3> QED
      BY <1>1, <1>2, <3>1, <3>2, <3>3 DEF GreatestOf, Less
  <2> QED
    BY <2>5, <2>6
<1> QED
  BY <1>7, <1>8, <1>9 DEF RowInv

\* The invariant is kept by the loop and by the return.
LEMMA RowNextInv == RowInv /\ [RowNext]_rowVars => RowInv'
<1> SUFFICES ASSUME RowInv, [RowNext]_rowVars PROVE RowInv'
  OBVIOUS
<1>1. CASE Turn
  BY <1>1, TurnInv
<1>2. CASE Return
  <2>1. UNCHANGED <<kind, whole, bound, key, was, row, lo, hi>> /\ row > Len(key)
    BY <1>2 DEF Return
  <2>2. row = Len(was) + 1
    BY <2>1, RowExtents DEF RowInv, RowShape
  <2>3. RowShape'
    BY <2>1, <2>2 DEF RowInv, RowShape, Places
  <2>4. FirstOnly' /\ LowSoFar' /\ HighSoFar'
    BY <2>1 DEF RowInv, FirstOnly, LowSoFar, HighSoFar, Twice, LeastOf, GreatestOf, Second, Less
  <2> QED
    BY <2>3, <2>4 DEF RowInv
<1>3. CASE UNCHANGED rowVars
  BY <1>3 DEF rowVars, RowInv, RowShape, Places, Rows, FirstOnly, LowSoFar, HighSoFar, Twice,
     LeastOf, GreatestOf, Second, Less
<1> QED
  BY <1>1, <1>2, <1>3 DEF RowNext

\* The least or greatest row is found whatever the length and the elements, by loops that
\* write through the variable they compare with, and no element but the first is lost;
\* min_max over rows of references excepted.
THEOREM RowsFound == RowSpec => []RowsAnswered
<1>1. RowInv => RowsAnswered
  <2> SUFFICES ASSUME RowInv, stage = "done" PROVE RowsAnswered
    BY DEF RowsAnswered
  <2>1. row - 1 = Len(was)
    BY DEF RowInv, RowShape
  <2>2. ~Twice => Answered
    BY <2>1 DEF RowInv, RowShape, LowSoFar, HighSoFar, Answered, LowIsLeast, HighIsGreatest, IsLeast,
       IsGreatest, LeastOf, GreatestOf
  <2> QED
    BY <2>2 DEF RowsAnswered, Twice, RowInv, FirstOnly
<1> QED
  BY <1>1, RowInitInv, RowNextInv, PTL DEF RowSpec

-----------------------------------------------------------------------------
(* take_last and skip_last. *)

\* The elements from a up to, but without, b.
Span(a, b) == [j \in 1 .. b - a |-> a + j - 1]

\* The length, the elements and the set of elements of a span.
LEMMA SpanFacts ==
  ASSUME NEW a \in Int, NEW b \in Int, a <= b
  PROVE  /\ Span(a, b) \in Seq(Int) /\ Len(Span(a, b)) = b - a
         /\ \A j \in 1 .. b - a : Span(a, b)[j] = a + j - 1
         /\ Range(Span(a, b)) = a .. b - 1
<1>1. Span(a, b) \in Seq(Int) /\ Len(Span(a, b)) = b - a
  BY DEF Span
<1>2. DOMAIN Span(a, b) = 1 .. b - a /\ \A j \in 1 .. b - a : Span(a, b)[j] = a + j - 1
  BY DEF Span
<1>3. \A x \in a .. b - 1 : x - a + 1 \in 1 .. b - a /\ a + (x - a + 1) - 1 = x
  OBVIOUS
<1>4. ASSUME NEW x \in a .. b - 1 PROVE x \in Range(Span(a, b))
  BY <1>2, <1>3 DEF Range
<1>5. ASSUME NEW x \in Range(Span(a, b)) PROVE x \in a .. b - 1
  BY <1>2 DEF Range
<1> QED
  BY <1>1, <1>2, <1>4, <1>5

\* A span grows by the element after it.
LEMMA SpanAppend ==
  ASSUME NEW a \in Int, NEW b \in Int, a <= b
  PROVE  Append(Span(a, b), b) = Span(a, b + 1)
BY DEF Span

\* A span without its first element.
LEMMA SpanTail ==
  ASSUME NEW a \in Int, NEW b \in Int, a < b
  PROVE  Tail(Span(a, b)) = Span(a + 1, b)
<1>1. Span(a, b) \in Seq(Int) /\ Len(Span(a, b)) = b - a /\ Span(a, b) # <<>>
  BY DEF Span
<1>2. /\ Tail(Span(a, b)) \in Seq(Int) /\ Len(Tail(Span(a, b))) = b - a - 1
      /\ \A j \in 1 .. b - a - 1 : Tail(Span(a, b))[j] = Span(a, b)[j + 1]
  BY <1>1, HeadTailProperties
<1>3. \A j \in 1 .. b - a - 1 : Span(a, b)[j + 1] = a + j /\ Span(a + 1, b)[j] = a + j
  BY DEF Span
<1>4. Span(a + 1, b) \in Seq(Int) /\ Len(Span(a + 1, b)) = b - a - 1
  BY DEF Span
<1>5. \A j \in 1 .. b - a - 1 : Tail(Span(a, b))[j] = Span(a + 1, b)[j]
  BY <1>2, <1>3
<1> QED
  BY <1>2, <1>4, <1>5, SeqEqual

\* A prefix of a span.
LEMMA SpanCut ==
  ASSUME NEW b \in Nat, NEW d \in 1 .. b
  PROVE  SubSeq(Span(1, b + 1), 1, d) = Span(1, d + 1)
BY DEF Span

\* The library's Min on two numbers, as random access uses it.
LEMMA LeastOfTwo ==
  ASSUME NEW c \in Int, NEW d \in Int
  PROVE  Min({c, d}) = IF c <= d THEN c ELSE d
BY DEF Min

\* The first element copied and not dropped, and the one the loop stops at.
Foremost ==
  CASE tailOp = "take_last" /\ random -> IF count <= size THEN size - count + 1 ELSE 1
    [] tailOp = "take_last" /\ ~random -> IF count < next - 1 THEN next - count ELSE 1
    [] tailOp = "skip_last" -> 1

Behind ==
  IF random /\ tailOp = "skip_last" THEN IF size <= count THEN 1 ELSE size - count + 1 ELSE size + 1

\* While it copies, the operation holds the elements from Foremost up to the one it is at.
TailInv ==
  /\ tailOp \in {"take_last", "skip_last"} /\ random \in BOOLEAN
  /\ size \in Nat /\ count \in Nat /\ next \in Int /\ work \in {"copy", "done"}
  /\ work = "copy" =>
       /\ tailOp = "take_last" => count > 0
       /\ stop = Behind /\ Foremost <= next /\ next <= stop
       /\ ring = Span(Foremost, next)
  /\ TailCorrect

\* A call begins with nothing copied, at the bounds of its branch.
LEMMA TailInitInv == TailInit => TailInv
<1> SUFFICES ASSUME TailInit PROVE TailInv
  OBVIOUS
<1>1. /\ tailOp \in {"take_last", "skip_last"} /\ random \in BOOLEAN
      /\ size \in Nat /\ count \in Nat /\ ring = <<>>
      /\ next = LoopBounds(tailOp, size, count, random).from
      /\ stop = LoopBounds(tailOp, size, count, random).to
      /\ work = IF tailOp = "take_last" /\ count = 0 THEN "done" ELSE "copy"
  BY DEF TailInit
<1>2. Min({count, size}) = IF count <= size THEN count ELSE size
  BY <1>1, LeastOfTwo
<1>3. /\ stop = Behind
      /\ next = IF tailOp = "take_last" /\ random /\ count <= size THEN size - count + 1 ELSE 1
  <2>1. CASE random /\ tailOp = "take_last"
    BY <1>1, <1>2, <2>1 DEF LoopBounds, Behind
  <2>2. CASE random /\ tailOp = "skip_last"
    BY <1>1, <2>2 DEF LoopBounds, Behind
  <2>3. CASE ~random
    BY <1>1, <2>3 DEF LoopBounds, Behind
  <2> QED
    BY <1>1, <2>1, <2>2, <2>3
<1>4. next = Foremost /\ next <= stop /\ next \in Int
  BY <1>1, <1>3 DEF Foremost, Behind
<1>5. Span(next, next) = <<>>
  BY <1>4 DEF Span
<1>6. work = "done" => TailCorrect
  <2> SUFFICES ASSUME work = "done" PROVE TailCorrect
    OBVIOUS
  <2>1. tailOp = "take_last" /\ count = 0
    BY <1>1
  <2>2. Range(ring) = {} /\ Len(ring) = 0
    BY <1>1 DEF Range
  <2>3. {x \in 1 .. size : IF tailOp = "take_last" THEN x > size - count ELSE x <= size - count} = {}
    BY <1>1, <2>1
  <2> QED
    BY <2>2, <2>3 DEF TailCorrect, Lists
<1> QED
  BY <1>1, <1>3, <1>4, <1>5, <1>6 DEF TailInv, TailCorrect

\* A full ring drops its front for the element it takes.
LEMMA CopyOneInv == TailInv /\ CopyOne => TailInv'
<1> SUFFICES ASSUME TailInv, CopyOne PROVE TailInv'
  OBVIOUS
<1>1. /\ work = "copy" /\ next # stop /\ ring' = Keep(ring, next) /\ next' = next + 1
      /\ UNCHANGED <<tailOp, size, count, random, stop, work>>
  BY DEF CopyOne
<1>2. /\ Foremost \in Int /\ Foremost <= next /\ next < stop /\ stop = Behind /\ Behind' = Behind
      /\ ring = Span(Foremost, next) /\ size \in Nat /\ count \in Nat /\ next \in Int
      /\ tailOp \in {"take_last", "skip_last"} /\ random \in BOOLEAN
      /\ tailOp = "take_last" => count > 0
  BY <1>1 DEF TailInv, Foremost, Behind
<1>3. Foremost' <= next' /\ ring' = Span(Foremost', next')
  <2>1. CASE tailOp = "take_last" /\ ~random /\ Len(ring) >= count
    <3>1. Len(ring) = next - Foremost
      BY <1>2, SpanFacts
    <3>2. count <= next - 1 /\ Foremost = next - count /\ Foremost' = Foremost + 1 /\ Foremost < next
      BY <1>1, <1>2, <2>1, <3>1 DEF Foremost
    <3>3. Tail(Span(Foremost, next)) = Span(Foremost + 1, next)
      BY <1>2, <3>2, SpanTail
    <3>4. Append(Span(Foremost + 1, next), next) = Span(Foremost + 1, next + 1)
      BY <1>2, <3>2, SpanAppend
    <3>5. ring' = Append(Tail(ring), next)
      BY <1>1, <2>1 DEF Keep
    <3>6. ring' = Span(Foremost + 1, next + 1)
      BY <1>2, <3>3, <3>4, <3>5
    <3>7. Foremost' <= next'
      BY <1>1, <1>2, <3>2
    <3> QED
      BY <1>1, <3>2, <3>6, <3>7
  <2>2. CASE ~(tailOp = "take_last" /\ ~random /\ Len(ring) >= count)
    <3>1. Len(ring) = next - Foremost
      BY <1>2, SpanFacts
    <3>2. Foremost' = Foremost
      BY <1>1, <1>2, <2>2, <3>1 DEF Foremost
    <3>3. Append(Span(Foremost, next), next) = Span(Foremost, next + 1)
      BY <1>2, SpanAppend
    <3>4. ring' = Append(ring, next)
      BY <1>1, <2>2 DEF Keep
    <3> QED
      BY <1>1, <1>2, <3>2, <3>3, <3>4
  <2> QED
    BY <2>1, <2>2
<1>4. next' <= stop' /\ next' \in Int
  BY <1>1, <1>2 DEF Behind
<1> QED
  BY <1>1, <1>2, <1>3, <1>4 DEF TailInv, TailCorrect

\* What is kept at the end is what is promised.
LEMMA TailReturnInv == TailInv /\ TailReturn => TailInv'
<1> SUFFICES ASSUME TailInv, TailReturn PROVE TailInv'
  OBVIOUS
<1>1. /\ work = "copy" /\ next = stop /\ work' = "done"
      /\ ring' = IF tailOp = "skip_last" /\ ~random THEN Cut(ring) ELSE ring
      /\ UNCHANGED <<tailOp, size, count, random, next, stop>>
  BY DEF TailReturn
<1>2. /\ Foremost \in Int /\ Foremost <= next /\ next = Behind
      /\ ring = Span(Foremost, next) /\ size \in Nat /\ count \in Nat /\ next \in Int
      /\ tailOp \in {"take_last", "skip_last"} /\ random \in BOOLEAN
      /\ tailOp = "take_last" => count > 0
  BY <1>1 DEF TailInv, Foremost, Behind
<1> DEFINE kept == {x \in 1 .. size : IF tailOp = "take_last" THEN x > size - count ELSE x <= size - count}
<1>3. \E a, b \in Int : a <= b /\ ring' = Span(a, b) /\ a .. b - 1 = kept
  <2>1. CASE tailOp = "skip_last" /\ ~random
    <3>1. Foremost = 1 /\ next = size + 1
      BY <1>2, <2>1 DEF Foremost, Behind
    <3>0. Len(ring) = size
      BY <1>2, <3>1, SpanFacts
    <3>2. CASE size > count
      <4>1. ring' = SubSeq(ring, 1, size - count)
        BY <1>1, <2>1, <3>0, <3>2 DEF Cut
      <4>2. ring = Span(1, size + 1) /\ size - count \in 1 .. size
        BY <1>2, <3>1, <3>2
      <4>3. SubSeq(Span(1, size + 1), 1, size - count) = Span(1, size - count + 1)
        BY <1>2, <4>2, SpanCut
      <4>4. size - count + 1 = size + 1 - count
        BY <1>2
      <4>5. ring' = Span(1, size + 1 - count)
        BY <4>1, <4>2, <4>3, <4>4
      <4>6. 1 .. size + 1 - count - 1 = kept
        BY <1>2, <2>1
      <4> QED
        BY <1>2, <3>2, <4>5, <4>6
    <3>3. CASE size <= count
      <4>1. ring' = Span(1, 1)
        BY <1>1, <1>2, <2>1, <3>0, <3>3 DEF Cut, Span
      <4>2. 1 .. 1 - 1 = kept
        BY <1>2, <2>1, <3>3
      <4> QED
        BY <4>1, <4>2
    <3> QED
      BY <1>2, <3>2, <3>3
  <2>2. CASE tailOp = "skip_last" /\ random
    <3>1. ring' = Span(1, next) /\ next = IF size <= count THEN 1 ELSE size - count + 1
      BY <1>1, <1>2, <2>2 DEF Foremost, Behind
    <3>2. 1 .. next - 1 = kept
      BY <1>2, <2>2, <3>1
    <3> QED
      BY <1>2, <3>1, <3>2
  <2>3. CASE tailOp = "take_last"
    <3>1. ring' = Span(Foremost, size + 1) /\ Foremost = IF count <= size THEN size - count + 1 ELSE 1
      BY <1>1, <1>2, <2>3 DEF Foremost, Behind
    <3>2. Foremost .. size + 1 - 1 = kept
      BY <1>2, <2>3, <3>1
    <3> QED
      BY <1>2, <3>1, <3>2
  <2> QED
    BY <1>2, <2>1, <2>2, <2>3
<1>4. PICK a \in Int, b \in Int : a <= b /\ ring' = Span(a, b) /\ a .. b - 1 = kept
  BY <1>3
<1> HIDE DEF kept
<1>5. /\ Range(ring') = kept /\ Len(ring') = b - a
      /\ \A j \in 1 .. b - a : ring'[j] = a + j - 1
  BY <1>4, SpanFacts
<1>7. \A j \in 1 .. Len(ring') - 1 : ring'[j] < ring'[j + 1]
  BY <1>4, <1>5
<1>6. TailCorrect'
  BY <1>1, <1>5, <1>7 DEF TailCorrect, Lists, kept
<1> QED
  BY <1>1, <1>2, <1>6 DEF TailInv

\* take_last(n) holds the last n elements and skip_last(n) the others, in order, for every n
\* and every length, by both of the branches each of them has.
THEOREM TailsParted == TailSpec => []TailCorrect
<1>1. TailInv /\ UNCHANGED tailVars => TailInv'
  BY DEF TailInv, tailVars, Foremost, Behind, TailCorrect
<1>2. TailInv /\ [TailNext]_tailVars => TailInv'
  BY <1>1, CopyOneInv, TailReturnInv DEF TailNext
<1>3. TailInv => TailCorrect
  BY DEF TailInv
<1> QED
  BY <1>2, <1>3, TailInitInv, PTL DEF TailSpec

-----------------------------------------------------------------------------
(* Set operations. *)

\* An element of one of the two sides, by its place.
Element == {"left", "right"} \X Nat

\* What is chosen of this range, and of the argument, before place h of it.
OfMine(h) == {<<"left", j>> : j \in {j \in Firsts(mine) : j < h /\ Wanted(mine[j])}}

OfTheirs(h) == {<<"right", j>> : j \in {j \in Firsts(theirs) : j < h /\ theirs[j] \notin Range(mine)}}

\* As in SetOpCorrect.
Ordered(s) == \A j \in 1 .. Len(s) - 1 : Earlier(s[j], s[j + 1])

SetShape ==
  /\ setOp \in SetKinds
  /\ mine \in Seq(Keys) /\ theirs \in Seq(Keys)
  /\ chosen \in Seq(Element) /\ here \in Nat /\ here >= 1
  /\ pass \in {"right", "left", "rest", "done"}
  /\ setOp \in {"except", "intersect"} => pass # "rest"
  /\ setOp \in {"union", "to_set"} => pass # "right"
  /\ setOp = "to_set" => pass # "rest"

\* asked is complete before it is asked.
AskInv ==
  /\ pass = "right" =>
       /\ here <= Len(theirs) + 1
       /\ asked = {theirs[j] : j \in 1 .. here - 1}
       /\ chosen = <<>> /\ yielded = {}
  /\ pass = "left" /\ setOp \in {"except", "intersect"} => asked = Range(theirs)

\* What this side has given, and the keys it was given for.
LeftInv ==
  pass = "left" =>
    /\ here <= Len(mine) + 1
    /\ Range(chosen) = OfMine(here)
    /\ yielded = {mine[j] : j \in {j \in 1 .. here - 1 : Wanted(mine[j])}}

\* What union_by has of the two sides.
RestInv ==
  pass = "rest" =>
    /\ setOp = "union"
    /\ here <= Len(theirs) + 1
    /\ Range(chosen) = {<<"left", j>> : j \in Firsts(mine)} \cup OfTheirs(here)
    /\ yielded = Range(mine) \cup {theirs[j] : j \in 1 .. here - 1}

SetInv == SetShape /\ AskInv /\ LeftInv /\ RestInv /\ Ordered(chosen) /\ SetOpCorrect

\* What a sequence is as a function.
LEMMA Extent ==
  ASSUME NEW S, NEW s \in Seq(S)
  PROVE  Len(s) \in Nat /\ DOMAIN s = 1 .. Len(s) /\ Range(s) = {s[j] : j \in 1 .. Len(s)}
<1>1. Len(s) \in Nat /\ DOMAIN s = 1 .. Len(s)
  BY LenProperties
<1> QED
  BY <1>1 DEF Range

\* An element later than all that is there goes to the end.
LEMMA Grows ==
  ASSUME NEW s \in Seq(Element), Ordered(s), NEW x \in Element, \A e \in Range(s) : Earlier(e, x)
  PROVE  /\ Append(s, x) \in Seq(Element) /\ Ordered(Append(s, x))
         /\ Range(Append(s, x)) = Range(s) \cup {x}
<1>1. /\ Append(s, x) \in Seq(Element) /\ Len(Append(s, x)) = Len(s) + 1
      /\ \A j \in 1 .. Len(s) : Append(s, x)[j] = s[j]
      /\ Append(s, x)[Len(s) + 1] = x
  BY AppendProperties
<1>2. Len(s) \in Nat /\ Range(s) = {s[j] : j \in 1 .. Len(s)}
  BY Extent
<1>3. Range(Append(s, x)) = {Append(s, x)[j] : j \in 1 .. Len(s) + 1}
  BY <1>1, Extent
<1>4. ASSUME NEW j \in 1 .. Len(s) + 1 - 1 PROVE Earlier(Append(s, x)[j], Append(s, x)[j + 1])
  <2>1. CASE j = Len(s)
    <3>1. s[j] \in Range(s)
      BY <1>2, <2>1
    <3> QED
      BY <1>1, <1>2, <2>1, <3>1
  <2>2. CASE j # Len(s)
    <3>1. j \in 1 .. Len(s) - 1 /\ j \in 1 .. Len(s) /\ j + 1 \in 1 .. Len(s)
      BY <1>2, <2>2
    <3>2. Earlier(s[j], s[j + 1])
      BY <3>1 DEF Ordered
    <3> QED
      BY <1>1, <3>1, <3>2
  <2> QED
    BY <2>1, <2>2
<1>5. ASSUME NEW e \in Range(Append(s, x)) PROVE e \in Range(s) \cup {x}
  <2>1. PICK j \in 1 .. Len(s) + 1 : e = Append(s, x)[j]
    BY <1>3
  <2>2. CASE j = Len(s) + 1
    BY <1>1, <2>1, <2>2
  <2>3. CASE j \in 1 .. Len(s)
    BY <1>1, <1>2, <2>1, <2>3
  <2> QED
    BY <1>2, <2>2, <2>3
<1>6. ASSUME NEW e \in Range(s) \cup {x} PROVE e \in Range(Append(s, x))
  <2>1. CASE e = x
    BY <1>1, <1>2, <1>3, <2>1
  <2>2. CASE e \in Range(s)
    <3>1. PICK j \in 1 .. Len(s) : e = s[j]
      BY <1>2, <2>2
    <3>2. j \in 1 .. Len(s) + 1 /\ e = Append(s, x)[j]
      BY <1>1, <1>2, <3>1
    <3> QED
      BY <1>3, <3>2
  <2> QED
    BY <2>1, <2>2
<1> QED
  BY <1>1, <1>4, <1>5, <1>6 DEF Ordered

\* A call begins with nothing asked and nothing chosen.
LEMMA SetInitInv == SetInit => SetInv
<1> SUFFICES ASSUME SetInit PROVE SetInv
  OBVIOUS
<1>1. /\ setOp \in SetKinds /\ here = 1 /\ asked = {} /\ yielded = {} /\ chosen = <<>>
      /\ pass = IF setOp \in {"union", "to_set"} THEN "left" ELSE "right"
  BY DEF SetInit
<1>2. mine \in Seq(Keys) /\ theirs \in Seq(Keys)
  <2>1. PICK l \in 0 .. MaxLeft : mine \in [1 .. l -> Keys]
    BY DEF SetInit
  <2>2. PICK r \in 0 .. MaxRight : theirs \in [1 .. r -> Keys]
    BY DEF SetInit
  <2> QED
    BY <2>1, <2>2
<1>3. Range(chosen) = {} /\ Ordered(chosen) /\ chosen \in Seq(Element)
  BY <1>1 DEF Range, Ordered
<1>4. SetShape
  BY <1>1, <1>2, <1>3 DEF SetShape, SetKinds
<1>5. Len(mine) \in Nat /\ DOMAIN mine = 1 .. Len(mine) /\ Len(theirs) \in Nat
  BY <1>2, Extent
<1>6. OfMine(here) = {}
  BY <1>1, <1>5 DEF OfMine, Firsts
<1>7. AskInv
  BY <1>1, <1>5 DEF AskInv, SetKinds
<1>8. LeftInv
  <2>1. {mine[j] : j \in {j \in 1 .. here - 1 : Wanted(mine[j])}} = {}
    BY <1>1
  <2>2. here <= Len(mine) + 1
    BY <1>1, <1>5
  <2>3. Range(chosen) = OfMine(here)
    BY <1>3, <1>6
  <2> QED
    BY <1>1, <2>1, <2>2, <2>3 DEF LeftInv
<1>9. RestInv /\ SetOpCorrect
  BY <1>1 DEF RestInv, SetOpCorrect
<1> QED
  BY <1>3, <1>4, <1>7, <1>8, <1>9 DEF SetInv

\* The loop over the argument fills the set to ask.
LEMMA AskRightInv == SetInv /\ AskRight => SetInv'
<1> SUFFICES ASSUME SetInv, AskRight PROVE SetInv'
  OBVIOUS
<1>1. /\ pass = "right" /\ here <= Len(theirs) /\ asked' = asked \cup {theirs[here]} /\ here' = here + 1
      /\ UNCHANGED <<setOp, mine, theirs, pass, yielded, chosen>>
  BY DEF AskRight
<1>2. SetShape /\ asked = {theirs[j] : j \in 1 .. here - 1} /\ chosen = <<>> /\ yielded = {}
  BY <1>1 DEF SetInv, AskInv
<1>3. here \in Nat /\ here >= 1 /\ Len(theirs) \in Nat
  BY <1>2, Extent DEF SetShape
<1>4. asked' = {theirs[j] : j \in 1 .. here' - 1}
  <2>1. \A j : j \in 1 .. here' - 1 <=> j \in 1 .. here - 1 \/ j = here
    BY <1>1, <1>3
  <2> QED
    BY <1>1, <1>2, <2>1
<1>5. SetShape' /\ AskInv'
  BY <1>1, <1>2, <1>3, <1>4 DEF SetShape, AskInv
<1>6. LeftInv' /\ RestInv' /\ Ordered(chosen)' /\ SetOpCorrect'
  BY <1>1 DEF SetInv, LeftInv, RestInv, Ordered, SetOpCorrect
<1> QED
  BY <1>5, <1>6 DEF SetInv

\* At its end the set is all of the argument.
LEMMA RightAskedInv == SetInv /\ RightAsked => SetInv'
<1> SUFFICES ASSUME SetInv, RightAsked PROVE SetInv'
  OBVIOUS
<1>1. /\ pass = "right" /\ here > Len(theirs) /\ pass' = "left" /\ here' = 1
      /\ UNCHANGED <<setOp, mine, theirs, asked, yielded, chosen>>
  BY DEF RightAsked, EnterPass
<1>2. /\ SetShape /\ asked = {theirs[j] : j \in 1 .. here - 1} /\ chosen = <<>> /\ yielded = {}
      /\ here <= Len(theirs) + 1
  BY <1>1 DEF SetInv, AskInv
<1>3. /\ here \in Nat /\ Len(theirs) \in Nat /\ Range(theirs) = {theirs[j] : j \in 1 .. Len(theirs)}
      /\ Len(mine) \in Nat /\ DOMAIN mine = 1 .. Len(mine)
  BY <1>2, Extent DEF SetShape
<1>4. asked = Range(theirs)
  <2>1. here - 1 = Len(theirs)
    BY <1>1, <1>2, <1>3
  <2> QED
    BY <1>2, <1>3, <2>1
<1>5. OfMine(here)' = {} /\ Range(chosen)' = {}
  BY <1>1, <1>2, <1>3 DEF OfMine, Firsts, Range
<1>6. SetShape' /\ AskInv'
  BY <1>1, <1>2, <1>4 DEF SetShape, AskInv
<1>7. LeftInv'
  <2>1. {mine[j] : j \in {j \in 1 .. here - 1 : Wanted(mine[j])}}' = {}
    BY <1>1
  <2>2. (here <= Len(mine) + 1)' /\ yielded' = {}
    BY <1>1, <1>2, <1>3
  <2> QED
    BY <1>5, <2>1, <2>2 DEF LeftInv
<1>8. RestInv' /\ Ordered(chosen)' /\ SetOpCorrect'
  BY <1>1 DEF SetInv, RestInv, Ordered, SetOpCorrect
<1> QED
  BY <1>6, <1>7, <1>8 DEF SetInv

\* The set of keys tells whether the element is the first with its key of those wanted.
LEMMA PushLeftInv == SetInv /\ PushLeft => SetInv'
<1> SUFFICES ASSUME SetInv, PushLeft PROVE SetInv'
  OBVIOUS
<1> DEFINE x == <<"left", here>>
           k == mine[here]
<1>1. /\ pass = "left" /\ here <= Len(mine) /\ here' = here + 1 /\ Push(x, k)
      /\ UNCHANGED <<setOp, mine, theirs, pass, asked>>
  BY DEF PushLeft
<1>2. /\ SetShape /\ Ordered(chosen) /\ Range(chosen) = OfMine(here)
      /\ yielded = {mine[j] : j \in {j \in 1 .. here - 1 : Wanted(mine[j])}}
  BY <1>1 DEF SetInv, LeftInv
<1>3. here \in Nat /\ here >= 1 /\ Len(mine) \in Nat /\ DOMAIN mine = 1 .. Len(mine) /\ x \in Element
  BY <1>2, Extent DEF SetShape, Element
<1>4. Wanted(k) /\ k \notin yielded <=> Wanted(k) /\ here \in Firsts(mine)
  <2>1. here \in Firsts(mine) <=> \A j \in 1 .. here - 1 : mine[j] # k
    BY <1>1, <1>3 DEF Firsts
  <2> QED
    BY <1>2, <2>1
<1>5. \A j : (j \in Firsts(mine) /\ j < here + 1) <=>
                (j \in Firsts(mine) /\ j < here) \/ (j = here /\ here \in Firsts(mine))
  BY <1>1, <1>3 DEF Firsts
<1>6. \A j : j \in 1 .. here + 1 - 1 <=> j \in 1 .. here - 1 \/ j = here
  BY <1>3
<1>7. \A e \in Range(chosen) : Earlier(e, x)
  BY <1>2, <1>3 DEF OfMine, Earlier
<1>8. \A q : Wanted(q)' <=> Wanted(q)
  BY <1>1 DEF Wanted
<1>9. OfMine(here)' = OfMine(here) \cup (IF Wanted(k) /\ here \in Firsts(mine) THEN {x} ELSE {})
  <2>1. OfMine(here)' = {<<"left", j>> : j \in {j \in Firsts(mine) : j < here + 1 /\ Wanted(mine[j])}}
    BY <1>1, <1>8 DEF OfMine, Firsts
  <2> QED
    BY <1>5, <2>1 DEF OfMine
<1>10. yielded' = {mine[j] : j \in {j \in 1 .. here : Wanted(mine[j])}}
  <2>1. yielded' = yielded \cup (IF Wanted(k) THEN {k} ELSE {})
    BY <1>1 DEF Push
  <2> QED
    BY <1>2, <1>3, <1>6, <2>1
<1>11. chosen' \in Seq(Element) /\ Ordered(chosen') /\ Range(chosen') = OfMine(here)'
  <2>1. CASE Wanted(k) /\ k \notin yielded
    <3>1. chosen' = Append(chosen, x)
      BY <1>1, <2>1 DEF Push
    <3>2. chosen \in Seq(Element)
      BY <1>2 DEF SetShape
    <3>3. chosen' \in Seq(Element) /\ Ordered(chosen') /\ Range(chosen') = Range(chosen) \cup {x}
      BY <1>2, <1>3, <1>7, <3>1, <3>2, Grows
    <3> QED
      BY <1>2, <1>4, <1>9, <2>1, <3>3
  <2>2. CASE ~(Wanted(k) /\ k \notin yielded)
    <3>1. chosen' = chosen
      BY <1>1, <2>2 DEF Push
    <3> QED
      BY <1>2, <1>4, <1>9, <2>2, <3>1 DEF SetShape
  <2> QED
    BY <2>1, <2>2
<1>12. SetShape' /\ AskInv'
  BY <1>1, <1>2, <1>3, <1>11 DEF SetShape, AskInv, SetInv
<1>13. LeftInv'
  <2>1. here' <= Len(mine)' + 1 /\ here' - 1 = here
    BY <1>1, <1>3
  <2>2. yielded' = {mine[j] : j \in {j \in 1 .. here - 1 : Wanted(mine[j])}}'
    BY <1>1, <1>8, <1>10, <2>1
  <2> QED
    BY <1>11, <2>1, <2>2 DEF LeftInv
<1>14. RestInv' /\ Ordered(chosen)' /\ SetOpCorrect'
  BY <1>1, <1>11 DEF RestInv, Ordered, SetOpCorrect
<1> QED
  BY <1>12, <1>13, <1>14 DEF SetInv

\* At the end of this side its part of the result is there.
LEMMA LeftPushedInv == SetInv /\ LeftPushed => SetInv'
<1> SUFFICES ASSUME SetInv, LeftPushed PROVE SetInv'
  OBVIOUS
<1>1. /\ pass = "left" /\ here > Len(mine) /\ here' = 1
      /\ pass' = IF setOp = "union" THEN "rest" ELSE "done"
      /\ UNCHANGED <<setOp, mine, theirs, asked, yielded, chosen>>
  BY DEF LeftPushed, EnterPass
<1>2. /\ SetShape /\ Ordered(chosen) /\ Range(chosen) = OfMine(here)
      /\ yielded = {mine[j] : j \in {j \in 1 .. here - 1 : Wanted(mine[j])}}
      /\ here <= Len(mine) + 1
      /\ setOp \in {"except", "intersect"} => asked = Range(theirs)
  BY <1>1 DEF SetInv, LeftInv, AskInv
<1>3. /\ here \in Nat /\ Len(mine) \in Nat /\ DOMAIN mine = 1 .. Len(mine)
      /\ Range(mine) = {mine[j] : j \in 1 .. Len(mine)}
      /\ Len(theirs) \in Nat /\ DOMAIN theirs = 1 .. Len(theirs)
  BY <1>2, Extent DEF SetShape
<1>4. here - 1 = Len(mine) /\ \A j \in DOMAIN mine : j < here
  BY <1>1, <1>2, <1>3
<1>5. Range(chosen) = {<<"left", j>> : j \in {j \in Firsts(mine) : Wanted(mine[j])}}
  BY <1>2, <1>4 DEF OfMine, Firsts
<1>6. SetShape' /\ AskInv' /\ LeftInv' /\ Ordered(chosen)'
  <2>1. SetShape'
    BY <1>1, <1>2 DEF SetShape
  <2>2. AskInv' /\ LeftInv'
    BY <1>1 DEF AskInv, LeftInv
  <2>3. Ordered(chosen)'
    BY <1>1, <1>2 DEF Ordered
  <2> QED
    BY <2>1, <2>2, <2>3
<1>7. CASE setOp = "union"
  <2>1. \A q : Wanted(q)
    BY <1>7 DEF Wanted
  <2>2. Range(chosen) = {<<"left", j>> : j \in Firsts(mine)} /\ yielded = Range(mine)
    BY <1>2, <1>3, <1>4, <1>5, <2>1
  <2>3. OfTheirs(1) = {}
    BY <1>3 DEF OfTheirs, Firsts
  <2>4. (here <= Len(theirs) + 1)' /\ {theirs[j] : j \in 1 .. 1 - 1} = {}
    BY <1>1, <1>3
  <2>5. OfTheirs(here)' = OfTheirs(1) /\ Firsts(mine)' = Firsts(mine)
    BY <1>1 DEF OfTheirs, Firsts, Range
  <2>6. RestInv'
    BY <1>1, <1>7, <2>2, <2>3, <2>4, <2>5 DEF RestInv
  <2>7. SetOpCorrect'
    BY <1>1, <1>7 DEF SetOpCorrect
  <2> QED
    BY <1>6, <2>6, <2>7 DEF SetInv
<1>8. CASE setOp # "union"
  <2>1. Range(chosen) = Expected
    <3>1. CASE setOp = "except"
      BY <1>2, <1>5, <3>1 DEF Expected, Wanted
    <3>2. CASE setOp = "intersect"
      BY <1>2, <1>5, <3>2 DEF Expected, Wanted
    <3>3. CASE setOp = "to_set"
      BY <1>5, <3>3 DEF Expected, Wanted
    <3> QED
      BY <1>2, <1>8, <3>1, <3>2, <3>3 DEF SetShape, SetKinds
  <2>2. Expected' = Expected
    BY <1>1 DEF Expected, Firsts, Range
  <2>3. SetOpCorrect'
    BY <1>1, <1>2, <2>1, <2>2 DEF SetOpCorrect, Ordered
  <2>4. RestInv'
    BY <1>1, <1>8 DEF RestInv
  <2> QED
    BY <1>6, <2>3, <2>4 DEF SetInv
<1> QED
  BY <1>7, <1>8

\* union_by: an element of the argument is chosen if neither side had its key before.
LEMMA PushRightInv == SetInv /\ PushRight => SetInv'
<1> SUFFICES ASSUME SetInv, PushRight PROVE SetInv'
  OBVIOUS
<1> DEFINE x == <<"right", here>>
           k == theirs[here]
           l == {<<"left", j>> : j \in Firsts(mine)}
<1>1. /\ pass = "rest" /\ here <= Len(theirs) /\ here' = here + 1 /\ Push(x, k)
      /\ UNCHANGED <<setOp, mine, theirs, pass, asked>>
  BY DEF PushRight
<1>2. /\ SetShape /\ Ordered(chosen) /\ setOp = "union" /\ Range(chosen) = l \cup OfTheirs(here)
      /\ yielded = Range(mine) \cup {theirs[j] : j \in 1 .. here - 1}
  BY <1>1 DEF SetInv, RestInv
<1>3. /\ here \in Nat /\ here >= 1 /\ Len(theirs) \in Nat /\ DOMAIN theirs = 1 .. Len(theirs)
      /\ x \in Element /\ Wanted(k)
  BY <1>2, Extent DEF SetShape, Element, Wanted
<1>4. k \notin yielded <=> k \notin Range(mine) /\ here \in Firsts(theirs)
  <2>1. here \in Firsts(theirs) <=> \A j \in 1 .. here - 1 : theirs[j] # k
    BY <1>1, <1>3 DEF Firsts
  <2> QED
    BY <1>2, <2>1
<1>5. \A j : (j \in Firsts(theirs) /\ j < here + 1) <=>
                (j \in Firsts(theirs) /\ j < here) \/ (j = here /\ here \in Firsts(theirs))
  BY <1>1, <1>3 DEF Firsts
<1>6. \A j : j \in 1 .. here + 1 - 1 <=> j \in 1 .. here - 1 \/ j = here
  BY <1>3
<1>7. \A e \in Range(chosen) : Earlier(e, x)
  BY <1>2, <1>3 DEF OfTheirs, Earlier
<1>8. OfTheirs(here)' = OfTheirs(here) \cup
                         (IF k \notin Range(mine) /\ here \in Firsts(theirs) THEN {x} ELSE {})
  <2>1. OfTheirs(here)' =
          {<<"right", j>> : j \in {j \in Firsts(theirs) : j < here + 1 /\ theirs[j] \notin Range(mine)}}
    BY <1>1 DEF OfTheirs, Firsts
  <2> QED
    BY <1>5, <2>1 DEF OfTheirs
<1>9. yielded' = Range(mine) \cup {theirs[j] : j \in 1 .. here}
  <2>1. yielded' = yielded \cup {k}
    BY <1>1, <1>3 DEF Push
  <2> QED
    BY <1>2, <1>3, <1>6, <2>1
<1>10. chosen' \in Seq(Element) /\ Ordered(chosen') /\ Range(chosen') = l \cup OfTheirs(here)'
  <2>1. CASE k \notin yielded
    <3>1. chosen' = Append(chosen, x)
      BY <1>1, <1>3, <2>1 DEF Push
    <3>2. chosen \in Seq(Element)
      BY <1>2 DEF SetShape
    <3>3. chosen' \in Seq(Element) /\ Ordered(chosen') /\ Range(chosen') = Range(chosen) \cup {x}
      BY <1>2, <1>3, <1>7, <3>1, <3>2, Grows
    <3> QED
      BY <1>2, <1>4, <1>8, <2>1, <3>3
  <2>2. CASE k \in yielded
    <3>1. chosen' = chosen
      BY <1>1, <2>2 DEF Push
    <3> QED
      BY <1>2, <1>4, <1>8, <2>2, <3>1 DEF SetShape
  <2> QED
    BY <2>1, <2>2
<1>11. SetShape' /\ AskInv' /\ LeftInv'
  BY <1>1, <1>2, <1>3, <1>10 DEF SetShape, AskInv, LeftInv
<1>12. RestInv'
  <2>1. here' <= Len(theirs)' + 1 /\ here' - 1 = here
    BY <1>1, <1>3
  <2>2. Firsts(mine)' = Firsts(mine) /\ Range(mine)' = Range(mine)
    BY <1>1 DEF Firsts
  <2> QED
    BY <1>1, <1>2, <1>9, <1>10, <2>1, <2>2 DEF RestInv
<1>13. Ordered(chosen)' /\ SetOpCorrect'
  BY <1>1, <1>10 DEF Ordered, SetOpCorrect
<1> QED
  BY <1>11, <1>12, <1>13 DEF SetInv

\* At the end of the argument the union is there.
LEMMA RightPushedInv == SetInv /\ RightPushed => SetInv'
<1> SUFFICES ASSUME SetInv, RightPushed PROVE SetInv'
  OBVIOUS
<1>1. /\ pass = "rest" /\ here > Len(theirs) /\ pass' = "done" /\ here' = 1
      /\ UNCHANGED <<setOp, mine, theirs, asked, yielded, chosen>>
  BY DEF RightPushed, EnterPass
<1>2. /\ SetShape /\ Ordered(chosen) /\ setOp = "union" /\ here <= Len(theirs) + 1
      /\ Range(chosen) = {<<"left", j>> : j \in Firsts(mine)} \cup OfTheirs(here)
  BY <1>1 DEF SetInv, RestInv
<1>3. here \in Nat /\ Len(theirs) \in Nat /\ DOMAIN theirs = 1 .. Len(theirs)
  BY <1>2, Extent DEF SetShape
<1>4. \A j \in DOMAIN theirs : j < here
  BY <1>1, <1>2, <1>3
<1>5. OfTheirs(here) = {<<"right", j>> : j \in {j \in Firsts(theirs) : theirs[j] \notin Range(mine)}}
  BY <1>4 DEF OfTheirs, Firsts
<1>6. Range(chosen) = Expected /\ Expected' = Expected
  <2>1. Range(chosen) = Expected
    BY <1>2, <1>5 DEF Expected
  <2>2. Expected' = Expected
    BY <1>1 DEF Expected, Firsts, Range
  <2> QED
    BY <2>1, <2>2
<1>7. SetOpCorrect'
  BY <1>1, <1>2, <1>6 DEF SetOpCorrect, Ordered
<1>8. SetShape' /\ AskInv' /\ LeftInv' /\ RestInv' /\ Ordered(chosen)'
  BY <1>1, <1>2 DEF SetShape, AskInv, LeftInv, RestInv, Ordered
<1> QED
  BY <1>7, <1>8 DEF SetInv

\* The result holds the first element of each key it is to hold, no other, and in order,
\* whatever the keys and the lengths of the two sides.
THEOREM SetsCombined == SetSpec => []SetOpCorrect
<1>1. SetInv /\ UNCHANGED setVars => SetInv'
  <2> SUFFICES ASSUME SetInv, UNCHANGED setVars PROVE SetInv'
    OBVIOUS
  <2>1. UNCHANGED <<setOp, mine, theirs, pass, here, asked, yielded, chosen>>
    BY DEF setVars
  <2>2. OfMine(here)' = OfMine(here) /\ OfTheirs(here)' = OfTheirs(here) /\ Expected' = Expected
        /\ \A q : Wanted(q)' <=> Wanted(q)
    BY <2>1 DEF OfMine, OfTheirs, Expected, Wanted, Firsts, Range
  <2>3. SetShape' /\ AskInv' /\ Ordered(chosen)' /\ SetOpCorrect'
    BY <2>1, <2>2 DEF SetInv, SetShape, AskInv, Ordered, SetOpCorrect, Range
  <2>4. LeftInv' /\ RestInv'
    BY <2>1, <2>2 DEF SetInv, LeftInv, RestInv, Firsts, Range
  <2> QED
    BY <2>3, <2>4 DEF SetInv
<1>2. SetInv /\ [SetNext]_setVars => SetInv'
  BY <1>1, AskRightInv, RightAskedInv, PushLeftInv, LeftPushedInv, PushRightInv,
     RightPushedInv DEF SetNext
<1>3. SetInv => SetOpCorrect
  BY DEF SetInv
<1> QED
  BY <1>2, <1>3, SetInitInv, PTL DEF SetSpec

(* Groups. *)

\* Of the elements before n those with key k, by keys f; the keys of the elements filed.
With(f, n, k) == {x \in 1 .. n - 1 : f[x] = k}
KeysSeen == {key1[x] : x \in 1 .. filing - 1}

GroupShape ==
  /\ groupOp \in RowKinds \cup MapKinds \cup {"count_by", "group_by"}
  /\ key1 \in Seq(Keys) /\ key2 \in Seq(Keys) /\ Len(key2) = Len(key1)
  /\ filing \in 1 .. Len(key1) + 1
  /\ grouping \in {"run", "done", "thrown"}
  /\ grouping = "done" => filing = Len(key1) + 1
  /\ grouping = "thrown" => groupOp = "to_dictionary"

KeyedGroup == [key : Keys, group : Seq(Int)]

\* The index knows each row by its place.
RowsSoFar ==
  groupOp \in RowKinds =>
    /\ groups \in Seq(KeyedGroup)
    /\ DOMAIN index = KeysSeen
    /\ \A k \in KeysSeen : index[k] \in 1 .. Len(groups) /\ groups[index[k]].key = k
    /\ \A j \in 1 .. Len(groups) :
         /\ groups[j].key \in KeysSeen
         /\ index[groups[j].key] = j
         /\ Lists(groups[j].group, With(key1, filing, groups[j].key))
    /\ \A j \in 1 .. Len(groups) - 1 : groups[j].group[1] < groups[j + 1].group[1]

CountsSoFar ==
  groupOp = "count_by" /\ grouping = "run" =>
    /\ groups \in Seq(Keys)
    /\ DOMAIN index = KeysSeen /\ Range(groups) = KeysSeen
    /\ \A k \in KeysSeen : index[k] \in Seq(Int) /\ Lists(index[k], With(key1, filing, k))
    /\ \A j \in 1 .. Len(groups) - 1 : index[groups[j]][1] < index[groups[j + 1]][1]

CountsReturned == groupOp = "count_by" /\ grouping = "done" => RowsCorrect

TreeSoFar ==
  groupOp = "group_by" =>
    /\ DOMAIN index = KeysSeen
    /\ \A k \in KeysSeen :
         /\ DOMAIN index[k] = {key2[x] : x \in With(key1, filing, k)}
         /\ \A k2 \in DOMAIN index[k] :
              /\ index[k][k2] \in Seq(Int)
              /\ Lists(index[k][k2], {x \in With(key1, filing, k) : key2[x] = k2})

\* The map holds the last element with each key; to_dictionary has met no key twice.
MapSoFar ==
  groupOp \in MapKinds =>
    /\ DOMAIN index = KeysSeen
    /\ \A k \in KeysSeen : index[k] \in With(key1, filing, k) /\ \A x \in With(key1, filing, k) : x <= index[k]
    /\ groupOp = "to_dictionary" =>
         \A x, y \in 1 .. filing - 1 : key1[x] = key1[y] => x = y
    /\ grouping = "thrown" => filing <= Len(key1) /\ key1[filing] \in KeysSeen

GroupInv ==
  GroupShape /\ RowsSoFar /\ CountsSoFar /\ CountsReturned /\ TreeSoFar /\ MapSoFar

\* What one more element adds to what is filed.
LEMMA FiledMore ==
  ASSUME GroupShape, filing <= Len(key1), filing' = filing + 1, key1' = key1
  PROVE  /\ filing \in Int /\ 1 <= filing /\ filing \in 1 .. Len(key1) /\ key1[filing] \in Keys
         /\ filing' \in 1 .. Len(key1) + 1
         /\ KeysSeen' = KeysSeen \cup {key1[filing]}
         /\ \A k : With(key1, filing + 1, k) = IF k = key1[filing] THEN With(key1, filing, k) \cup {filing} ELSE With(key1, filing, k)
         /\ \A k : \A x \in With(key1, filing, k) : x \in Int /\ x < filing
         /\ \A k : k \in KeysSeen <=> With(key1, filing, k) # {}
<1>1. Len(key1) \in Nat /\ filing \in Int /\ 1 <= filing /\ \A x \in 1 .. Len(key1) : key1[x] \in Keys
  BY DEF GroupShape
<1>2. /\ filing \in 1 .. Len(key1) /\ filing' \in 1 .. Len(key1) + 1
      /\ 1 .. filing' - 1 = (1 .. filing - 1) \cup {filing}
      /\ \A x \in 1 .. filing - 1 : x \in Int /\ x < filing
  BY <1>1
<1>3. KeysSeen' = KeysSeen \cup {key1[filing]}
  BY <1>2 DEF KeysSeen
<1>4. ASSUME NEW k
      PROVE  With(key1, filing + 1, k) = IF k = key1[filing] THEN With(key1, filing, k) \cup {filing} ELSE With(key1, filing, k)
  BY <1>2 DEF With
<1> QED
  BY <1>1, <1>2, <1>3, <1>4 DEF KeysSeen, With

\* What is shown of the shape once for all operations that file an element.
LEMMA FiledShape ==
  ASSUME GroupShape, Filing, filing' = filing + 1, UNCHANGED <<groupOp, key1, key2, grouping>>
  PROVE  GroupShape'
BY FiledMore DEF GroupShape, Filing

\* A new row.
LEMMA NewRowInv == GroupInv /\ NewRow => GroupInv'
<1> SUFFICES ASSUME GroupInv, NewRow PROVE GroupInv'
  OBVIOUS
<1> PICK k : k = key1[filing]
  OBVIOUS
<1> PICK n : n = Len(groups)
  OBVIOUS
<1>1. /\ GroupShape /\ groupOp \in RowKinds /\ k \notin KeysSeen /\ DOMAIN index = KeysSeen
      /\ filing <= Len(key1) /\ filing' = filing + 1 /\ key1' = key1 /\ groupOp' = groupOp
      /\ index' = Put(index, k, n + 1) /\ groups' = Append(groups, [key |-> k, group |-> <<filing>>])
      /\ groups \in Seq(KeyedGroup) /\ n \in Nat
      /\ Filing /\ UNCHANGED <<groupOp, key1, key2, grouping>>
  BY DEF GroupInv, RowsSoFar, NewRow, Filing
<1>2. GroupShape'
  BY <1>1, FiledShape
<1>3. /\ filing \in Int /\ k \in Keys /\ KeysSeen' = KeysSeen \cup {k}
      /\ \A c : With(key1, filing + 1, c) = IF c = k THEN With(key1, filing, c) \cup {filing} ELSE With(key1, filing, c)
      /\ \A c : \A x \in With(key1, filing, c) : x \in Int /\ x < filing
      /\ \A c : c \in KeysSeen <=> With(key1, filing, c) # {}
  BY <1>1, FiledMore
<1>4. /\ groups' \in Seq(KeyedGroup) /\ Len(groups') = n + 1
      /\ groups'[n + 1] = [key |-> k, group |-> <<filing>>]
      /\ \A j \in 1 .. n : groups'[j] = groups[j]
  <2>1. <<filing>> \in Seq(Int)
    BY <1>3
  <2>2. [key |-> k, group |-> <<filing>>] \in KeyedGroup
    BY <1>3, <2>1 DEF KeyedGroup
  <2> QED
    BY <1>1, <2>2
<1>5. /\ DOMAIN index' = KeysSeen' /\ index'[k] = n + 1
      /\ \A c \in KeysSeen : index'[c] = index[c]
  BY <1>1, <1>3 DEF Put
<1>6. With(key1, filing + 1, k) = {filing} /\ \A c \in KeysSeen : With(key1, filing + 1, c) = With(key1, filing, c)
  BY <1>1, <1>3
<1>7. ASSUME NEW c \in KeysSeen'
      PROVE  index'[c] \in 1 .. n + 1 /\ groups'[index'[c]].key = c
  BY <1>1, <1>3, <1>4, <1>5 DEF GroupInv, RowsSoFar
<1>8. ASSUME NEW j \in 1 .. n + 1
      PROVE  /\ groups'[j].key \in KeysSeen'
             /\ index'[groups'[j].key] = j
             /\ Lists(groups'[j].group, With(key1, filing + 1, groups'[j].key))
  <2>1. CASE j = n + 1
    BY <1>3, <1>4, <1>5, <1>6, <2>1, ListsOne
  <2>2. CASE j # n + 1
    <3>1. j \in 1 .. n /\ groups'[j] = groups[j]
      BY <1>1, <1>4, <2>2
    <3>2. /\ groups[j].key \in KeysSeen /\ index[groups[j].key] = j
          /\ Lists(groups[j].group, With(key1, filing, groups[j].key))
      BY <1>1, <3>1 DEF GroupInv, RowsSoFar
    <3> QED
      BY <1>3, <1>5, <1>6, <3>1, <3>2
  <2> QED
    BY <2>1, <2>2
<1>9. ASSUME NEW j \in 1 .. n PROVE groups'[j].group[1] < groups'[j + 1].group[1]
  <2>1. CASE j = n
    <3>1. groups'[n + 1].group[1] = filing
      BY <1>4
    <3>2. Lists(groups[n].group, With(key1, filing, groups[n].key)) /\ groups[n].key \in KeysSeen
      BY <1>1, <2>1 DEF GroupInv, RowsSoFar
    <3>4. groups[n] \in KeyedGroup
      BY <1>1, <2>1
    <3>5. groups[n].group \in Seq(Int)
      BY <3>4 DEF KeyedGroup
    <3>3. groups[n].group[1] \in With(key1, filing, groups[n].key)
      BY <1>3, <3>2, <3>5, ListsFirst
    <3> QED
      BY <1>3, <1>4, <2>1, <3>1, <3>3
  <2>2. CASE j # n
    <3>1. j \in 1 .. n - 1 /\ j + 1 \in 1 .. n
      BY <1>1, <2>2
    <3> QED
      BY <1>1, <1>4, <3>1 DEF GroupInv, RowsSoFar
  <2> QED
    BY <2>1, <2>2
<1>10. n + 1 - 1 = n
  BY <1>1
<1>11. RowsSoFar'
  <2>1. filing' = filing + 1 /\ key1' = key1
    BY <1>1
  <2>2. \A j \in 1 .. Len(groups') - 1 : groups'[j].group[1] < groups'[j + 1].group[1]
    BY <1>4, <1>9, <1>10
  <2>3. \A j \in 1 .. Len(groups') :
          /\ groups'[j].key \in KeysSeen'
          /\ index'[groups'[j].key] = j
          /\ Lists(groups'[j].group, With(key1', filing', groups'[j].key))
    BY <1>4, <1>8, <2>1
  <2>4. \A c \in KeysSeen' : index'[c] \in 1 .. Len(groups') /\ groups'[index'[c]].key = c
    BY <1>4, <1>7
  <2> QED
    BY <1>4, <1>5, <2>2, <2>3, <2>4 DEF RowsSoFar
<1> QED
  BY <1>1, <1>2, <1>11
  DEF GroupInv, RowKinds, MapKinds, CountsSoFar, CountsReturned, TreeSoFar, MapSoFar

\* An element added to the row of its key.
LEMMA OldRowInv == GroupInv /\ OldRow => GroupInv'
<1> SUFFICES ASSUME GroupInv, OldRow PROVE GroupInv'
  OBVIOUS
<1> PICK k : k = key1[filing]
  OBVIOUS
<1> PICK n : n = Len(groups)
  OBVIOUS
<1> PICK i : i = index[k]
  OBVIOUS
<1>1. /\ GroupShape /\ groupOp \in RowKinds /\ k \in KeysSeen /\ DOMAIN index = KeysSeen
      /\ filing <= Len(key1) /\ filing' = filing + 1 /\ key1' = key1 /\ groupOp' = groupOp
      /\ index' = index /\ groups' = [groups EXCEPT ![i] = [key |-> k, group |-> Append(@.group, filing)]]
      /\ groups \in Seq(KeyedGroup) /\ n \in Nat
      /\ Filing /\ UNCHANGED <<groupOp, key1, key2, grouping>>
      /\ i \in 1 .. n /\ groups[i].key = k
  BY DEF GroupInv, RowsSoFar, OldRow, Filing
<1>2. GroupShape'
  BY <1>1, FiledShape
<1>3. /\ filing \in Int /\ k \in Keys /\ KeysSeen' = KeysSeen \cup {k}
      /\ \A c : With(key1, filing + 1, c) = IF c = k THEN With(key1, filing, c) \cup {filing} ELSE With(key1, filing, c)
      /\ \A c : \A x \in With(key1, filing, c) : x \in Int /\ x < filing
      /\ \A c : c \in KeysSeen <=> With(key1, filing, c) # {}
  BY <1>1, FiledMore
<1>4. KeysSeen' = KeysSeen
  BY <1>1, <1>3
<1>5. groups[i].group \in Seq(Int)
  <2>1. groups[i] \in KeyedGroup
    BY <1>1
  <2> QED
    BY <2>1 DEF KeyedGroup
<1>6. Append(groups[i].group, filing) \in Seq(Int)
  BY <1>3, <1>5
<1>7. PICK r : r = [key |-> k, group |-> Append(groups[i].group, filing)]
  OBVIOUS
<1>8. /\ groups' \in Seq(KeyedGroup) /\ Len(groups') = n
      /\ groups'[i].key = k /\ groups'[i].group = Append(groups[i].group, filing)
      /\ \A j \in 1 .. n : j # i => groups'[j] = groups[j]
  <2>1. r \in KeyedGroup /\ r.key = k /\ r.group = Append(groups[i].group, filing)
    BY <1>3, <1>6, <1>7 DEF KeyedGroup
  <2>2. groups' = [groups EXCEPT ![i] = r]
    BY <1>1, <1>7
  <2>3. i \in 1 .. n /\ groups \in Seq(KeyedGroup) /\ n = Len(groups)
    BY <1>1
  <2>4. groups' \in Seq(KeyedGroup) /\ Len(groups') = n
    BY <2>1, <2>2, <2>3
  <2>5. groups'[i] = r /\ \A j \in 1 .. n : j # i => groups'[j] = groups[j]
    BY <2>2, <2>3
  <2> QED
    BY <2>1, <2>4, <2>5
<1>9. Lists(groups[i].group, With(key1, filing, k))
  BY <1>1 DEF GroupInv, RowsSoFar
<1>10. ASSUME NEW j \in 1 .. n
       PROVE  /\ groups'[j].key = groups[j].key
              /\ groups'[j].key \in KeysSeen
              /\ index[groups'[j].key] = j
              /\ Lists(groups'[j].group, With(key1, filing + 1, groups'[j].key))
  <2>0. groups'[j].key = groups[j].key /\ groups[j].key \in KeysSeen /\ index[groups[j].key] = j
    BY <1>1, <1>8 DEF GroupInv, RowsSoFar
  <2> PICK c : c = groups[j].key
    OBVIOUS
  <2>1. CASE j = i
    <3>1. Lists(Append(groups[i].group, filing), With(key1, filing, k) \cup {filing})
      BY <1>3, <1>5, <1>9, ListsAppend
    <3> QED
      BY <1>1, <1>3, <1>8, <2>0, <2>1, <3>1
  <2>2. CASE j # i
    <3>1. c # k
      BY <2>0, <2>2
    <3>2. Lists(groups[j].group, With(key1, filing, c)) /\ groups'[j] = groups[j]
      BY <1>1, <1>8, <2>2 DEF GroupInv, RowsSoFar
    <3>3. With(key1, filing + 1, c) = With(key1, filing, c)
      BY <1>3, <3>1
    <3> QED
      BY <2>0, <3>2, <3>3
  <2> QED
    BY <2>0, <2>1, <2>2
<1>11. \A j \in 1 .. n : groups'[j].group[1] = groups[j].group[1]
  <2>1. groups'[i].group[1] = groups[i].group[1]
    <3> PICK g : g = groups[i].group
      OBVIOUS
    <3>1. g \in Seq(Int) /\ Lists(g, With(key1, filing, k)) /\ With(key1, filing, k) # {}
      BY <1>1, <1>3, <1>5, <1>9
    <3>2. Len(g) >= 1
      BY <1>3, <3>1, ListsFirst
    <3>3. groups'[i].group = Append(g, filing)
      BY <1>8
    <3>4. Append(g, filing)[1] = g[1]
      BY <1>3, <3>1, <3>2
    <3> QED
      BY <3>3, <3>4
  <2> QED
    BY <1>8, <2>1
<1>12. ASSUME NEW j \in 1 .. n - 1 PROVE groups'[j].group[1] < groups'[j + 1].group[1]
  <2>1. j \in 1 .. n /\ j + 1 \in 1 .. n
    BY <1>1
  <2> QED
    BY <1>1, <1>11, <2>1 DEF GroupInv, RowsSoFar
<1>13. \A c \in KeysSeen : index[c] \in 1 .. n /\ groups'[index[c]].key = c
  BY <1>1, <1>10 DEF GroupInv, RowsSoFar
<1>14. RowsSoFar'
  <2>1. filing' = filing + 1 /\ key1' = key1 /\ index' = index /\ DOMAIN index = KeysSeen
    BY <1>1
  <2> QED
    BY <1>4, <1>8, <1>10, <1>12, <1>13, <2>1 DEF RowsSoFar
<1> QED
  BY <1>1, <1>2, <1>14
  DEF GroupInv, RowKinds, MapKinds, CountsSoFar, CountsReturned, TreeSoFar, MapSoFar

\* An element counted.
LEMMA CountInv == GroupInv /\ Count => GroupInv'
<1> SUFFICES ASSUME GroupInv, Count PROVE GroupInv'
  OBVIOUS
<1> PICK k : k = key1[filing]
  OBVIOUS
<1> PICK n : n = Len(groups)
  OBVIOUS
<1> PICK s : s = At(index, k, <<>>)
  OBVIOUS
<1> PICK t : t = Append(s, filing)
  OBVIOUS
<1>1. /\ GroupShape /\ groupOp = "count_by" /\ DOMAIN index = KeysSeen /\ Range(groups) = KeysSeen
      /\ filing <= Len(key1) /\ filing' = filing + 1 /\ key1' = key1 /\ groupOp' = groupOp
      /\ index' = Put(index, k, t)
      /\ groups' = IF k \in KeysSeen THEN groups ELSE Append(groups, k)
      /\ groups \in Seq(Keys) /\ n \in Nat /\ DOMAIN groups = 1 .. n
      /\ Filing /\ UNCHANGED <<groupOp, key1, key2, grouping>> /\ grouping = "run"
  BY DEF GroupInv, CountsSoFar, Count, Filing
<1>2. GroupShape'
  BY <1>1, FiledShape
<1>3. /\ filing \in Int /\ k \in Keys /\ KeysSeen' = KeysSeen \cup {k}
      /\ \A c : With(key1, filing + 1, c) = IF c = k THEN With(key1, filing, c) \cup {filing} ELSE With(key1, filing, c)
      /\ \A c : \A x \in With(key1, filing, c) : x \in Int /\ x < filing
      /\ \A c : c \in KeysSeen <=> With(key1, filing, c) # {}
  BY <1>1, FiledMore
<1>4. s \in Seq(Int) /\ Lists(s, With(key1, filing, k))
  <2>1. CASE k \in KeysSeen
    BY <1>1, <2>1 DEF GroupInv, CountsSoFar, At
  <2>2. CASE k \notin KeysSeen
    <3>1. s = <<>> /\ With(key1, filing, k) = {}
      BY <1>1, <1>3, <2>2 DEF At
    <3>2. <<>> \in Seq(Int) /\ Lists(<<>>, {})
      BY ListsNone
    <3> QED
      BY <3>1, <3>2
  <2> QED
    BY <2>1, <2>2
<1>5. t \in Seq(Int) /\ Lists(t, With(key1, filing + 1, k))
  <2>1. With(key1, filing + 1, k) = With(key1, filing, k) \cup {filing}
    BY <1>3
  <2>2. Lists(Append(s, filing), With(key1, filing, k) \cup {filing})
    BY <1>3, <1>4, ListsAppend
  <2>3. t \in Seq(Int)
    BY <1>3, <1>4
  <2> QED
    BY <2>1, <2>2, <2>3
<1>6. /\ DOMAIN index' = KeysSeen'
      /\ index'[k] = t
      /\ \A c \in KeysSeen : c # k => index'[c] = index[c]
  BY <1>1, <1>3 DEF Put
<1>7. ASSUME NEW c \in KeysSeen'
      PROVE  index'[c] \in Seq(Int) /\ Lists(index'[c], With(key1, filing + 1, c))
  <2>1. CASE c = k
    BY <1>5, <1>6, <2>1
  <2>2. CASE c # k
    BY <1>1, <1>3, <1>6, <2>2 DEF GroupInv, CountsSoFar
  <2> QED
    BY <2>1, <2>2
<1>8. \A c \in KeysSeen : index'[c][1] = index[c][1] /\ index'[c][1] \in Int /\ index'[c][1] < filing
  <2> SUFFICES ASSUME NEW c \in KeysSeen
               PROVE  index'[c][1] = index[c][1] /\ index'[c][1] \in Int /\ index'[c][1] < filing
    OBVIOUS
  <2>1. index[c] \in Seq(Int) /\ Lists(index[c], With(key1, filing, c))
    BY <1>1 DEF GroupInv, CountsSoFar
  <2>2. Len(index[c]) >= 1 /\ index[c][1] \in Int /\ index[c][1] < filing
    BY <1>3, <2>1, ListsFirst
  <2>3. CASE c = k
    <3>1. s = index[c]
      BY <1>1, <2>3 DEF At
    <3> QED
      BY <1>3, <1>6, <2>1, <2>2, <2>3, <3>1
  <2> QED
    BY <1>6, <2>2, <2>3
<1>9. CASE k \in KeysSeen
  <2>1. KeysSeen' = KeysSeen /\ groups' = groups
    BY <1>1, <1>3, <1>9
  <2>2. ASSUME NEW j \in 1 .. n - 1 PROVE index'[groups[j]][1] < index'[groups[j + 1]][1]
    <3>1. j \in 1 .. n /\ j + 1 \in 1 .. n
      BY <1>1
    <3>2. groups[j] \in KeysSeen /\ groups[j + 1] \in KeysSeen
      BY <1>1, <3>1 DEF Range
    <3>3. index[groups[j]][1] < index[groups[j + 1]][1]
      BY <1>1 DEF GroupInv, CountsSoFar
    <3> QED
      BY <1>8, <3>2, <3>3
  <2>3. CountsSoFar'
    <3>1. filing' = filing + 1 /\ key1' = key1
      BY <1>1
    <3> QED
      BY <1>1, <1>6, <1>7, <2>1, <2>2, <3>1 DEF CountsSoFar
  <2> QED
    BY <1>1, <1>2, <2>3
    DEF GroupInv, RowKinds, MapKinds, RowsSoFar, CountsReturned, TreeSoFar, MapSoFar
<1>10. CASE k \notin KeysSeen
  <2>1. /\ groups' \in Seq(Keys) /\ Len(groups') = n + 1 /\ groups'[n + 1] = k
        /\ \A j \in 1 .. n : groups'[j] = groups[j]
    BY <1>1, <1>3, <1>10
  <2>2. Range(groups') = KeysSeen'
    <3>1. DOMAIN groups' = (1 .. n) \cup {n + 1}
      BY <1>1, <2>1
    <3> QED
      BY <1>1, <1>3, <2>1, <3>1 DEF Range
  <2>3. index'[k][1] = filing
    <3>1. s = <<>>
      BY <1>1, <1>10 DEF At
    <3>2. Len(<<>>) = 0
      OBVIOUS
    <3>3. t[1] = filing
      BY <1>3, <1>4, <3>1, <3>2
    <3> QED
      BY <1>6, <3>3
  <2>4. ASSUME NEW j \in 1 .. n PROVE index'[groups'[j]][1] < index'[groups'[j + 1]][1]
    <3>1. groups[j] \in KeysSeen
      BY <1>1 DEF Range
    <3>2. CASE j = n
      BY <1>1, <1>3, <1>8, <2>1, <2>3, <3>1, <3>2
    <3>3. CASE j # n
      <4>1. j \in 1 .. n - 1 /\ j + 1 \in 1 .. n
        BY <1>1, <3>3
      <4>2. groups[j + 1] \in KeysSeen
        BY <1>1, <4>1 DEF Range
      <4>3. index[groups[j]][1] < index[groups[j + 1]][1]
        BY <1>1, <4>1 DEF GroupInv, CountsSoFar
      <4>4. groups'[j] = groups[j] /\ groups'[j + 1] = groups[j + 1]
        BY <2>1, <4>1
      <4>5. index'[groups[j]][1] = index[groups[j]][1]
        BY <1>8, <3>1
      <4>6. index'[groups[j + 1]][1] = index[groups[j + 1]][1]
        BY <1>8, <4>2
      <4> QED
        BY <4>3, <4>4, <4>5, <4>6
    <3> QED
      BY <3>2, <3>3
  <2>5. CountsSoFar'
    <3>1. filing' = filing + 1 /\ key1' = key1 /\ n + 1 - 1 = n
      BY <1>1
    <3>2. \A j \in 1 .. Len(groups') - 1 : index'[groups'[j]][1] < index'[groups'[j + 1]][1]
      BY <2>1, <2>4, <3>1
    <3> QED
      BY <1>6, <1>7, <2>1, <2>2, <3>1, <3>2 DEF CountsSoFar
  <2> QED
    BY <1>1, <1>2, <2>5
    DEF GroupInv, RowKinds, MapKinds, RowsSoFar, CountsReturned, TreeSoFar, MapSoFar
<1> QED
  BY <1>9, <1>10

\* An element emplaced in the map of its second keys.
LEMMA EmplaceInv == GroupInv /\ Emplace => GroupInv'
<1> SUFFICES ASSUME GroupInv, Emplace PROVE GroupInv'
  OBVIOUS
<1> PICK k : k = key1[filing]
  OBVIOUS
<1> PICK k2 : k2 = key2[filing]
  OBVIOUS
<1> PICK inner : inner = At(index, k, <<>>)
  OBVIOUS
<1> PICK leaf : leaf = At(inner, k2, <<>>)
  OBVIOUS
<1> PICK t : t = Append(leaf, filing)
  OBVIOUS
<1> PICK u : u = Put(inner, k2, t)
  OBVIOUS
<1>1. /\ GroupShape /\ groupOp = "group_by" /\ DOMAIN index = KeysSeen
      /\ filing <= Len(key1) /\ filing' = filing + 1 /\ key1' = key1 /\ key2' = key2 /\ groupOp' = groupOp
      /\ index' = Put(index, k, u)
      /\ Filing /\ UNCHANGED <<groupOp, key1, key2, grouping>>
  BY DEF GroupInv, TreeSoFar, Emplace, Filing
<1>2. GroupShape'
  BY <1>1, FiledShape
<1> DEFINE Both(n, c, d) == {x \in With(key1, n, c) : key2[x] = d}
           Seconds(n, c) == {key2[x] : x \in With(key1, n, c)}
<1>3. /\ filing \in Int /\ KeysSeen' = KeysSeen \cup {k}
      /\ \A c : With(key1, filing + 1, c) = IF c = k THEN With(key1, filing, c) \cup {filing} ELSE With(key1, filing, c)
      /\ \A c : \A x \in With(key1, filing, c) : x \in Int /\ x < filing
      /\ \A c : c \in KeysSeen <=> With(key1, filing, c) # {}
  BY <1>1, FiledMore
<1>4. /\ DOMAIN inner = Seconds(filing, k)
      /\ \A d \in DOMAIN inner : inner[d] \in Seq(Int) /\ Lists(inner[d], Both(filing, k, d))
  <2>1. CASE k \in KeysSeen
    BY <1>1, <2>1 DEF GroupInv, TreeSoFar, At
  <2>2. CASE k \notin KeysSeen
    <3>1. inner = <<>> /\ Seconds(filing, k) = {}
      BY <1>1, <1>3, <2>2 DEF At
    <3>2. DOMAIN <<>> = {}
      OBVIOUS
    <3> HIDE DEF Seconds
    <3> QED
      BY <3>1, <3>2
  <2> QED
    BY <2>1, <2>2
<1>5. leaf \in Seq(Int) /\ Lists(leaf, Both(filing, k, k2))
  <2>1. CASE k2 \in DOMAIN inner
    BY <1>4, <2>1 DEF At
  <2>2. CASE k2 \notin DOMAIN inner
    <3>1. leaf = <<>> /\ Both(filing, k, k2) = {}
      BY <1>4, <2>2 DEF At
    <3>2. <<>> \in Seq(Int) /\ Lists(<<>>, {})
      BY ListsNone
    <3> HIDE DEF Both
    <3> QED
      BY <3>1, <3>2
  <2> QED
    BY <2>1, <2>2
<1>6. /\ Both(filing + 1, k, k2) = Both(filing, k, k2) \cup {filing}
      /\ \A d : d # k2 => Both(filing + 1, k, d) = Both(filing, k, d)
      /\ \A c, d : c # k => Both(filing + 1, c, d) = Both(filing, c, d)
      /\ Seconds(filing + 1, k) = Seconds(filing, k) \cup {k2}
      /\ \A c : c # k => Seconds(filing + 1, c) = Seconds(filing, c)
      /\ \A x \in Both(filing, k, k2) : x < filing
  BY <1>3
<1> HIDE DEF Both, Seconds
<1>7. t \in Seq(Int) /\ Lists(t, Both(filing + 1, k, k2))
  BY <1>3, <1>5, <1>6, ListsAppend
<1>8. /\ DOMAIN u = Seconds(filing + 1, k)
      /\ \A d \in DOMAIN u : u[d] \in Seq(Int) /\ Lists(u[d], Both(filing + 1, k, d))
  <2>1. DOMAIN u = DOMAIN inner \cup {k2} /\ u[k2] = t /\ \A d \in DOMAIN inner : d # k2 => u[d] = inner[d]
    BY DEF Put
  <2>2. DOMAIN u = Seconds(filing + 1, k)
    BY <1>4, <1>6, <2>1
  <2>3. ASSUME NEW d \in DOMAIN u PROVE u[d] \in Seq(Int) /\ Lists(u[d], Both(filing + 1, k, d))
    <3>1. CASE d = k2
      BY <1>7, <2>1, <3>1
    <3>2. CASE d # k2
      BY <1>4, <1>6, <2>1, <3>2
    <3> QED
      BY <3>1, <3>2
  <2> QED
    BY <2>2, <2>3
<1>9. /\ DOMAIN index' = KeysSeen'
      /\ index'[k] = u
      /\ \A c \in KeysSeen : c # k => index'[c] = index[c]
  BY <1>1, <1>3 DEF Put
<1>10. ASSUME NEW c \in KeysSeen'
       PROVE  /\ DOMAIN index'[c] = Seconds(filing + 1, c)
              /\ \A d \in DOMAIN index'[c] :
                   index'[c][d] \in Seq(Int) /\ Lists(index'[c][d], Both(filing + 1, c, d))
  <2>1. CASE c = k
    BY <1>8, <1>9, <2>1
  <2>2. CASE c # k
    <3>1. c \in KeysSeen /\ index'[c] = index[c]
      BY <1>3, <1>9, <2>2
    <3>2. /\ DOMAIN index[c] = Seconds(filing, c)
          /\ \A d \in DOMAIN index[c] : index[c][d] \in Seq(Int) /\ Lists(index[c][d], Both(filing, c, d))
      BY <1>1, <3>1 DEF GroupInv, TreeSoFar, Both, Seconds
    <3> QED
      BY <1>6, <2>2, <3>1, <3>2
  <2> QED
    BY <2>1, <2>2
<1>11. TreeSoFar'
  <2>1. filing' = filing + 1 /\ key1' = key1 /\ key2' = key2
    BY <1>1
  <2> QED
    BY <1>9, <1>10, <2>1 DEF TreeSoFar, Both, Seconds
<1> QED
  BY <1>1, <1>2, <1>11
  DEF GroupInv, RowKinds, MapKinds, RowsSoFar, CountsSoFar, CountsReturned, MapSoFar

\* An element entered in a map.
LEMMA EnterMapInv == GroupInv /\ EnterMap => GroupInv'
<1> SUFFICES ASSUME GroupInv, EnterMap PROVE GroupInv'
  OBVIOUS
<1> PICK k : k = key1[filing]
  OBVIOUS
<1>1. /\ GroupShape /\ groupOp \in MapKinds /\ DOMAIN index = KeysSeen
      /\ groupOp = "to_dictionary" => k \notin KeysSeen
      /\ filing <= Len(key1) /\ filing' = filing + 1 /\ key1' = key1 /\ groupOp' = groupOp
      /\ index' = Put(index, k, filing)
      /\ Filing /\ UNCHANGED <<groupOp, key1, key2, grouping>> /\ grouping = "run"
  BY DEF GroupInv, MapSoFar, EnterMap, Filing
<1>2. GroupShape'
  BY <1>1, FiledShape
<1>3. /\ filing \in Int /\ KeysSeen' = KeysSeen \cup {k}
      /\ \A c : With(key1, filing + 1, c) = IF c = k THEN With(key1, filing, c) \cup {filing} ELSE With(key1, filing, c)
      /\ \A c : \A x \in With(key1, filing, c) : x \in Int /\ x < filing
      /\ \A c : c \in KeysSeen <=> With(key1, filing, c) # {}
  BY <1>1, FiledMore
<1>4. /\ DOMAIN index' = KeysSeen'
      /\ index'[k] = filing
      /\ \A c \in KeysSeen : c # k => index'[c] = index[c]
  BY <1>1, <1>3 DEF Put
<1>5. ASSUME NEW c \in KeysSeen'
      PROVE  /\ index'[c] \in With(key1, filing + 1, c)
             /\ \A x \in With(key1, filing + 1, c) : x <= index'[c]
  <2>1. CASE c = k
    <3>1. With(key1, filing + 1, k) = With(key1, filing, k) \cup {filing}
      BY <1>3
    <3>2. \A x \in With(key1, filing, k) : x <= filing
      BY <1>3
    <3> QED
      BY <1>3, <1>4, <2>1, <3>1, <3>2
  <2>2. CASE c # k
    BY <1>1, <1>3, <1>4, <2>2 DEF GroupInv, MapSoFar
  <2> QED
    BY <2>1, <2>2
<1>6. ASSUME groupOp = "to_dictionary", NEW x \in 1 .. filing, NEW y \in 1 .. filing, key1[x] = key1[y]
      PROVE  x = y
  <2>1. \A z \in 1 .. filing : z = filing \/ z \in 1 .. filing - 1
    BY <1>3
  <2>2. \A z \in 1 .. filing - 1 : key1[z] # k
    BY <1>1, <1>6 DEF KeysSeen
  <2>3. x \in 1 .. filing - 1 /\ y \in 1 .. filing - 1 => x = y
    BY <1>1, <1>6 DEF GroupInv, MapSoFar
  <2> QED
    BY <1>6, <2>1, <2>2, <2>3
<1>7. MapSoFar'
  <2>1. filing' = filing + 1 /\ key1' = key1 /\ filing + 1 - 1 = filing /\ groupOp' = groupOp /\ grouping' = "run"
    BY <1>1, <1>3
  <2>2. \A c \in KeysSeen' : /\ index'[c] \in With(key1', filing', c)
                             /\ \A x \in With(key1', filing', c) : x <= index'[c]
    BY <1>5, <2>1
  <2>3. groupOp' = "to_dictionary" => \A x, y \in 1 .. filing' - 1 : key1'[x] = key1'[y] => x = y
    <3>1. 1 .. filing' - 1 = 1 .. filing
      BY <1>3, <2>1
    <3> QED
      BY <1>6, <2>1, <3>1
  <2> QED
    BY <1>4, <2>1, <2>2, <2>3 DEF MapSoFar
<1> QED
  BY <1>1, <1>2, <1>7
  DEF GroupInv, RowKinds, MapKinds, RowsSoFar, CountsSoFar, CountsReturned, TreeSoFar

LEMMA DuplicateInv == GroupInv /\ Duplicate => GroupInv'
<1> SUFFICES ASSUME GroupInv, Duplicate PROVE GroupInv'
  OBVIOUS
<1>1. /\ GroupShape /\ groupOp = "to_dictionary" /\ groupOp \in MapKinds
      /\ filing <= Len(key1) /\ key1[filing] \in DOMAIN index /\ grouping' = "thrown"
      /\ UNCHANGED <<groupOp, key1, key2, filing, index, groups>>
  BY DEF GroupInv, Duplicate, Filing, MapKinds
<1>2. GroupShape' /\ KeysSeen' = KeysSeen
  BY <1>1 DEF GroupShape, KeysSeen
<1>3. MapSoFar'
  BY <1>1, <1>2 DEF GroupInv, MapSoFar
<1> QED
  BY <1>1, <1>2, <1>3
  DEF GroupInv, RowKinds, MapKinds, RowsSoFar, CountsSoFar, CountsReturned, TreeSoFar

\* count_by makes rows of its keys and counts.
LEMMA GroupReturnInv == GroupInv /\ GroupReturn => GroupInv'
<1> SUFFICES ASSUME GroupInv, GroupReturn PROVE GroupInv'
  OBVIOUS
<1>1. /\ GroupShape /\ grouping = "run" /\ filing > Len(key1) /\ grouping' = "done"
      /\ UNCHANGED <<groupOp, key1, key2, filing, index>>
      /\ groups' = IF groupOp = "count_by"
                   THEN [j \in DOMAIN groups |-> [key |-> groups[j], group |-> index[groups[j]]]]
                   ELSE groups
  BY DEF GroupInv, GroupReturn
<1>2. Len(key1) \in Nat /\ filing = Len(key1) + 1 /\ KeysSeen' = KeysSeen /\ DOMAIN key1 = 1 .. Len(key1)
  BY <1>1 DEF GroupShape, KeysSeen
<1>3. GroupShape'
  BY <1>1, <1>2 DEF GroupShape
<1>4. CASE groupOp = "count_by"
  <2> PICK n : n = Len(groups)
    OBVIOUS
  <2>1. /\ groups \in Seq(Keys) /\ n \in Nat /\ DOMAIN groups = 1 .. n /\ Range(groups) = KeysSeen
        /\ \A k \in KeysSeen : Lists(index[k], With(key1, filing, k))
        /\ \A j \in 1 .. n - 1 : index[groups[j]][1] < index[groups[j + 1]][1]
    BY <1>1, <1>4 DEF GroupInv, CountsSoFar
  <2>2. groups' = [j \in 1 .. n |-> [key |-> groups[j], group |-> index[groups[j]]]]
    BY <1>1, <1>4, <2>1
  <2>3. DOMAIN groups' = 1 .. n /\ Len(groups') = n
    BY <2>1, <2>2
  <2>4. \A j \in 1 .. n : groups'[j].key = groups[j] /\ groups'[j].group = index[groups[j]]
    BY <2>2
  <2>5. \A k : With(key1, filing, k) = {x \in DOMAIN key1 : key1[x] = k}
    BY <1>2 DEF With
  <2>6. KeysSeen = {key1[x] : x \in DOMAIN key1}
    BY <1>2 DEF KeysSeen
  <2>7. \A j \in 1 .. n : groups[j] \in KeysSeen
    BY <2>1 DEF Range
  <2>8. \A j \in DOMAIN groups' :
          Lists(groups'[j].group, {x \in DOMAIN key1 : key1[x] = groups'[j].key})
    <3> SUFFICES ASSUME NEW j \in 1 .. n
                 PROVE  Lists(groups'[j].group, {x \in DOMAIN key1 : key1[x] = groups'[j].key})
      BY <2>3
    <3> PICK k : k = groups[j]
      OBVIOUS
    <3>1. Lists(index[k], {x \in DOMAIN key1 : key1[x] = k})
      BY <2>1, <2>5, <2>7
    <3> QED
      BY <2>4, <3>1
  <2>9. {groups'[j].key : j \in DOMAIN groups'} = {key1[x] : x \in DOMAIN key1}
    <3>1. {groups'[j].key : j \in DOMAIN groups'} = Range(groups)
      BY <2>1, <2>3, <2>4 DEF Range
    <3> QED
      BY <2>1, <2>6, <3>1
  <2>10. \A j \in 1 .. n - 1 : groups'[j].group[1] < groups'[j + 1].group[1]
    <3> SUFFICES ASSUME NEW j \in 1 .. n - 1 PROVE groups'[j].group[1] < groups'[j + 1].group[1]
      OBVIOUS
    <3>1. j \in 1 .. n /\ j + 1 \in 1 .. n
      BY <2>1
    <3> QED
      BY <2>1, <2>4, <3>1
  <2>11. RowsCorrect'
    <3>1. key1' = key1
      BY <1>1
    <3> QED
      BY <2>3, <2>8, <2>9, <2>10, <3>1 DEF RowsCorrect
  <2> QED
    BY <1>1, <1>3, <1>4, <2>11
    DEF GroupInv, RowKinds, MapKinds, RowsSoFar, CountsSoFar, CountsReturned, TreeSoFar, MapSoFar
<1>5. CASE groupOp # "count_by"
  <2>1. groups' = groups
    BY <1>1, <1>5
  <2>2. RowsSoFar'
    BY <1>1, <1>2, <2>1 DEF GroupInv, RowsSoFar
  <2>3. TreeSoFar'
    BY <1>1, <1>2 DEF GroupInv, TreeSoFar
  <2>4. MapSoFar'
    BY <1>1, <1>2 DEF GroupInv, MapSoFar
  <2> QED
    BY <1>1, <1>3, <1>5, <2>2, <2>3, <2>4 DEF GroupInv, CountsSoFar, CountsReturned
<1> QED
  BY <1>4, <1>5

LEMMA GroupInitInv == GroupInit => GroupInv
<1> SUFFICES ASSUME GroupInit PROVE GroupInv
  OBVIOUS
<1>1. PICK l \in 0 .. MaxLen : key1 \in [1 .. l -> Keys]
  BY DEF GroupInit
<1>2. key1 \in Seq(Keys) /\ Len(key1) = l /\ l \in Nat /\ DOMAIN key1 = 1 .. l
  BY <1>1
<1>3. key2 \in [1 .. l -> Keys]
  BY <1>1, <1>2 DEF GroupInit
<1>4. key2 \in Seq(Keys) /\ Len(key2) = l
  BY <1>2, <1>3
<1>5. filing = 1 /\ index = <<>> /\ groups = <<>> /\ grouping = "run"
      /\ groupOp \in RowKinds \cup MapKinds \cup {"count_by", "group_by"}
  BY DEF GroupInit
<1>6. GroupShape
  BY <1>2, <1>4, <1>5 DEF GroupShape
<1>7. KeysSeen = {} /\ Range(groups) = {} /\ DOMAIN index = {} /\ Len(groups) = 0
  BY <1>5 DEF KeysSeen, Range
<1>8. groups \in Seq(KeyedGroup) /\ groups \in Seq(Keys)
  BY <1>5
<1>9. RowsSoFar
  BY <1>7, <1>8 DEF RowsSoFar
<1>10. CountsSoFar /\ CountsReturned
  BY <1>5, <1>7, <1>8 DEF CountsSoFar, CountsReturned
<1>11. TreeSoFar
  BY <1>7 DEF TreeSoFar
<1>12. MapSoFar
  BY <1>5, <1>7 DEF MapSoFar
<1> QED
  BY <1>6, <1>9, <1>10, <1>11, <1>12 DEF GroupInv

LEMMA GroupNextInv == GroupInv /\ [GroupNext]_groupVars => GroupInv'
<1> SUFFICES ASSUME GroupInv, [GroupNext]_groupVars PROVE GroupInv'
  OBVIOUS
<1>1. CASE UNCHANGED groupVars
  <2>1. UNCHANGED <<groupOp, key1, key2, filing, index, groups, grouping>>
    BY <1>1 DEF groupVars
  <2>2. GroupShape' /\ KeysSeen' = KeysSeen
    BY <2>1 DEF GroupInv, GroupShape, KeysSeen
  <2>3. RowsSoFar' /\ CountsSoFar'
    BY <2>1, <2>2 DEF GroupInv, RowsSoFar, CountsSoFar
  <2>4. CountsReturned'
    BY <2>1 DEF GroupInv, CountsReturned, RowsCorrect
  <2>5. TreeSoFar'
    BY <2>1, <2>2 DEF GroupInv, TreeSoFar
  <2>6. MapSoFar'
    BY <2>1, <2>2 DEF GroupInv, MapSoFar
  <2> QED
    BY <2>2, <2>3, <2>4, <2>5, <2>6 DEF GroupInv
<1> QED
  BY <1>1, NewRowInv, OldRowInv, CountInv, EmplaceInv, EnterMapInv, DuplicateInv, GroupReturnInv
  DEF GroupNext

\* Each group of aggregate_by, reduce_by, count_by and group_by holds the elements
\* with its key or keys, in order; to_map keeps the last, and to_dictionary refuses
\* just when a key comes twice.
THEOREM GroupsFiled == GroupSpec => []GroupCorrect
<1>1. GroupInv => GroupCorrect
  <2> SUFFICES ASSUME GroupInv PROVE GroupCorrect
    OBVIOUS
  <2>0. /\ Len(key1) \in Nat /\ DOMAIN key1 = 1 .. Len(key1) /\ filing \in Int
        /\ groupOp \in RowKinds \cup MapKinds \cup {"count_by", "group_by"}
        /\ filing \in 1 .. Len(key1) + 1
    BY DEF GroupInv, GroupShape
  <2>1. ASSUME grouping = "done"
        PROVE  /\ filing = Len(key1) + 1 /\ 1 .. filing - 1 = DOMAIN key1
               /\ \A k : With(key1, filing, k) = {x \in DOMAIN key1 : key1[x] = k}
               /\ KeysSeen = {key1[x] : x \in DOMAIN key1}
    <3>1. filing = Len(key1) + 1
      BY <2>1 DEF GroupInv, GroupShape
    <3>2. 1 .. filing - 1 = DOMAIN key1
      BY <2>0, <3>1
    <3> QED
      BY <3>1, <3>2 DEF With, KeysSeen
  <2>2. CASE groupOp \in RowKinds
    <3> SUFFICES ASSUME grouping = "done" PROVE RowsCorrect
      BY <2>2 DEF GroupCorrect, RowKinds, MapKinds
    <3>1. groups \in Seq(KeyedGroup) /\ DOMAIN groups = 1 .. Len(groups)
      BY <2>2 DEF GroupInv, RowsSoFar
    <3>2. \A j \in DOMAIN groups : groups[j].key \in KeysSeen
          /\ Lists(groups[j].group, {x \in DOMAIN key1 : key1[x] = groups[j].key})
      BY <2>1, <2>2, <3>1 DEF GroupInv, RowsSoFar
    <3>3. \A k \in KeysSeen : \E j \in DOMAIN groups : groups[j].key = k
      BY <2>2, <3>1 DEF GroupInv, RowsSoFar
    <3>4. {groups[j].key : j \in DOMAIN groups} = {key1[x] : x \in DOMAIN key1}
      BY <2>1, <3>2, <3>3
    <3> QED
      BY <2>2, <3>2, <3>4 DEF GroupInv, RowsSoFar, RowsCorrect
  <2>3. CASE groupOp = "count_by"
    BY <2>3 DEF GroupInv, CountsReturned, GroupCorrect, RowKinds, MapKinds
  <2>4. CASE groupOp = "group_by"
    <3> SUFFICES ASSUME grouping = "done" PROVE TreeCorrect
      BY <2>4 DEF GroupCorrect, RowKinds, MapKinds
    <3> DEFINE both(k, k2) == {x \in With(key1, filing, k) : key2[x] = k2}
    <3>1. \A k, k2 : both(k, k2) = {x \in DOMAIN key1 : key1[x] = k /\ key2[x] = k2}
      BY <2>1
    <3>2. \A k \in DOMAIN index : \A k2 \in DOMAIN index[k] : Lists(index[k][k2], both(k, k2))
      BY <2>4 DEF GroupInv, TreeSoFar
    <3> HIDE DEF both
    <3>3. \A k \in DOMAIN index : \A k2 \in DOMAIN index[k] :
            Lists(index[k][k2], {x \in DOMAIN key1 : key1[x] = k /\ key2[x] = k2})
      BY <3>1, <3>2
    <3> DEFINE seconds(k) == {key2[x] : x \in With(key1, filing, k)}
    <3>4. \A k : seconds(k) = {key2[x] : x \in {x \in DOMAIN key1 : key1[x] = k}}
      BY <2>1
    <3>5. \A k \in DOMAIN index : DOMAIN index[k] = seconds(k)
      BY <2>4 DEF GroupInv, TreeSoFar
    <3>6. DOMAIN index = KeysSeen
      BY <2>4 DEF GroupInv, TreeSoFar
    <3> HIDE DEF seconds
    <3> QED
      BY <2>1, <3>3, <3>4, <3>5, <3>6 DEF TreeCorrect
  <2>5. CASE groupOp \in MapKinds
    <3>1. ASSUME grouping = "done" PROVE MapCorrect
      BY <2>1, <2>5, <3>1 DEF GroupInv, MapSoFar, MapCorrect
    <3>2. ASSUME groupOp = "to_dictionary", grouping = "thrown" PROVE ~IsInjective(key1)
      <4>1. filing <= Len(key1) /\ key1[filing] \in KeysSeen
        BY <2>5, <3>2 DEF GroupInv, MapSoFar
      <4>2. PICK x \in 1 .. filing - 1 : key1[x] = key1[filing]
        BY <4>1 DEF KeysSeen
      <4>3. x \in DOMAIN key1 /\ filing \in DOMAIN key1 /\ x # filing
        BY <2>0, <4>1, <4>2
      <4> QED
        BY <4>2, <4>3 DEF IsInjective
    <3>3. ASSUME groupOp = "to_dictionary", grouping = "done" PROVE IsInjective(key1)
      BY <2>1, <2>5, <3>3 DEF GroupInv, MapSoFar, IsInjective
    <3> QED
      BY <2>5, <3>1, <3>2, <3>3 DEF GroupCorrect, RowKinds, MapKinds
  <2> QED
    BY <2>0, <2>2, <2>3, <2>4, <2>5
<1> QED
  BY <1>1, GroupInitInv, GroupNextInv, PTL DEF GroupSpec

(* Joins. *)

\* The rows for element x of driving side d, with side f filed; those for the elements before n.
RowsOf(d, f, op, x) ==
  LET partners == With(f, Len(f) + 1, d[x])
  IN  IF partners # {} THEN {<<x, y>> : y \in partners}
      ELSE IF op = "join" THEN {} ELSE {<<x, Nobody>>}

RowsBefore(d, f, op, n) == UNION {RowsOf(d, f, op, x) : x \in 1 .. n - 1}

RowOf(op) == IF op = "group_join" THEN Int \X Seq(Int) ELSE Int \X (Int \cup {Nobody})

JoinShape ==
  /\ joinOp \in {"join", "group_join", "left_join", "right_join"}
  /\ left \in Seq(Keys) /\ right \in Seq(Keys)
  /\ joining \in {"file", "look", "done"}
  /\ joining = "file" => probe \in 1 .. Len(FiledSide) + 1 /\ joined = <<>>
  /\ joining # "file" => probe \in 1 .. Len(DrivingSide) + 1
  /\ joining = "done" => probe = Len(DrivingSide) + 1
  /\ buckets \in [Keys -> Seq(Int)]
  /\ joined \in Seq(RowOf(joinOp))

FiledBefore == IF joining = "file" THEN probe ELSE Len(FiledSide) + 1

Bucketed == \A k \in Keys : Holds(buckets[k], With(FiledSide, FiledBefore, k))

JoinedSoFar ==
  joining # "file" =>
    /\ \A j \in 1 .. Len(joined) - 1 : joined[j][1] <= joined[j + 1][1]
    /\ joinOp # "group_join" =>
         Holds(joined, RowsBefore(DrivingSide, FiledSide, joinOp, probe))
    /\ joinOp = "group_join" =>
         /\ Len(joined) = probe - 1
         /\ \A x \in 1 .. probe - 1 :
              /\ joined[x][1] = x
              /\ joined[x][2] \in Seq(Int)
              /\ Holds(joined[x][2], With(FiledSide, Len(FiledSide) + 1, DrivingSide[x]))

JoinInv == JoinShape /\ Bucketed /\ JoinedSoFar

\* The sides as sequences, the same before and after a step.
LEMMA SidesFacts ==
  ASSUME JoinShape
  PROVE  /\ FiledSide \in Seq(Keys) /\ Len(FiledSide) \in Nat /\ DOMAIN FiledSide = 1 .. Len(FiledSide)
         /\ DrivingSide \in Seq(Keys) /\ Len(DrivingSide) \in Nat /\ DOMAIN DrivingSide = 1 .. Len(DrivingSide)
BY DEF JoinShape, FiledSide, DrivingSide

LEMMA SidesKept ==
  ASSUME UNCHANGED <<joinOp, left, right>>
  PROVE  FiledSide' = FiledSide /\ DrivingSide' = DrivingSide
BY DEF FiledSide, DrivingSide

LEMMA JoinInitInv == JoinInit => JoinInv
<1> SUFFICES ASSUME JoinInit PROVE JoinInv
  OBVIOUS
<1>1. \A s \in Sides : s \in Seq(Keys)
  <2> SUFFICES ASSUME NEW l \in 0 .. MaxSide, NEW s \in [1 .. l -> Keys] PROVE s \in Seq(Keys)
    BY DEF Sides
  <2> QED
    OBVIOUS
<1>2. /\ left \in Seq(Keys) /\ right \in Seq(Keys) /\ joining = "file" /\ probe = 1
      /\ joinOp \in {"join", "group_join", "left_join", "right_join"}
      /\ buckets = [k \in Keys |-> <<>>] /\ joined = <<>>
  BY <1>1 DEF JoinInit
<1>3. Len(FiledSide) \in Nat
  BY <1>2 DEF FiledSide
<1>4. buckets \in [Keys -> Seq(Int)] /\ joined \in Seq(RowOf(joinOp))
  BY <1>2
<1>5. JoinShape
  BY <1>2, <1>3, <1>4 DEF JoinShape
<1>6. Bucketed
  <2> SUFFICES ASSUME NEW k \in Keys PROVE Holds(buckets[k], With(FiledSide, 1, k))
    BY <1>2 DEF Bucketed, FiledBefore
  <2>1. With(FiledSide, 1, k) = {}
    BY DEF With
  <2> QED
    BY <1>2, <2>1, HoldsNone
<1> QED
  BY <1>2, <1>5, <1>6 DEF JoinInv, JoinedSoFar

\* An element filed, in any place of its bucket.
LEMMA FileInv == JoinInv /\ File => JoinInv'
<1> SUFFICES ASSUME JoinInv, File PROVE JoinInv'
  OBVIOUS
<1> PICK f : f = FiledSide
  OBVIOUS
<1> PICK k : k = f[probe]
  OBVIOUS
<1>1. /\ JoinShape /\ joining = "file" /\ probe <= Len(f) /\ probe' = probe + 1
      /\ UNCHANGED <<joinOp, left, right, joining, joined>>
      /\ f \in Seq(Keys) /\ Len(f) \in Nat /\ DOMAIN f = 1 .. Len(f)
      /\ FiledSide' = f /\ probe \in 1 .. Len(f) + 1 /\ joined = <<>>
      /\ buckets \in [Keys -> Seq(Int)]
  BY SidesFacts, SidesKept DEF JoinInv, JoinShape, File
<1>2. probe \in 1 .. Len(f) /\ probe \in Int /\ k \in Keys /\ probe + 1 \in 1 .. Len(f) + 1
  BY <1>1
<1> PICK s : s = buckets[k]
  OBVIOUS
<1>3. PICK j \in 1 .. Len(s) + 1 : buckets' = [buckets EXCEPT ![k] = InsertAt(@, j, probe)]
  BY DEF File
<1> PICK t : t = InsertAt(s, j, probe)
  OBVIOUS
<1>4. s \in Seq(Int) /\ Holds(s, With(f, probe, k))
  BY <1>1, <1>2 DEF JoinInv, Bucketed, FiledBefore
<1>5. probe \notin With(f, probe, k)
  BY <1>2 DEF With
<1>6. t \in Seq(Int) /\ Holds(t, With(f, probe, k) \cup {probe})
  BY <1>2, <1>4, <1>5, HoldsInsert
<1>7. buckets' = [buckets EXCEPT ![k] = t]
  BY <1>3
<1>8. buckets' \in [Keys -> Seq(Int)] /\ buckets'[k] = t /\ \A c \in Keys : c # k => buckets'[c] = buckets[c]
  BY <1>1, <1>2, <1>6, <1>7
<1>9. \A c : With(f, probe + 1, c) = IF c = k THEN With(f, probe, c) \cup {probe} ELSE With(f, probe, c)
  <2>1. 1 .. probe + 1 - 1 = (1 .. probe - 1) \cup {probe}
    BY <1>2
  <2> QED
    BY <2>1 DEF With
<1>10. ASSUME NEW c \in Keys PROVE Holds(buckets'[c], With(f, probe + 1, c))
  <2>1. CASE c = k
    <3>1. With(f, probe + 1, k) = With(f, probe, k) \cup {probe}
      BY <1>9
    <3> QED
      BY <1>6, <1>8, <2>1, <3>1
  <2>2. CASE c # k
    <3>1. With(f, probe + 1, c) = With(f, probe, c) /\ Holds(buckets[c], With(f, probe, c))
      BY <1>1, <1>9, <2>2 DEF JoinInv, Bucketed, FiledBefore
    <3> QED
      BY <1>8, <2>2, <3>1
  <2> QED
    BY <2>1, <2>2
<1>11. Bucketed'
  BY <1>1, <1>10 DEF Bucketed, FiledBefore
<1>12. JoinShape'
  BY <1>1, <1>2, <1>8 DEF JoinShape
<1> QED
  BY <1>1, <1>11, <1>12 DEF JoinInv, JoinedSoFar

LEMMA FiledInv == JoinInv /\ Filed => JoinInv'
<1> SUFFICES ASSUME JoinInv, Filed PROVE JoinInv'
  OBVIOUS
<1> PICK f : f = FiledSide
  OBVIOUS
<1> PICK d : d = DrivingSide
  OBVIOUS
<1>1. /\ JoinShape /\ joining = "file" /\ probe > Len(f) /\ probe' = 1 /\ joining' = "look"
      /\ UNCHANGED <<joinOp, left, right, buckets, joined>>
      /\ f \in Seq(Keys) /\ Len(f) \in Nat /\ FiledSide' = f /\ probe \in 1 .. Len(f) + 1 /\ joined = <<>>
      /\ Len(d) \in Nat /\ DrivingSide' = d
  BY SidesFacts, SidesKept DEF JoinInv, JoinShape, Filed
<1>2. probe = Len(f) + 1
  BY <1>1
<1>3. JoinShape'
  BY <1>1 DEF JoinShape
<1>4. Bucketed'
  BY <1>1, <1>2 DEF JoinInv, Bucketed, FiledBefore
<1>5. JoinedSoFar'
  <2>1. RowsBefore(d, f, joinOp, 1) = {}
    BY DEF RowsBefore
  <2>2. Len(joined) = 0
    BY <1>1
  <2>3. \A j \in 1 .. Len(joined) - 1 : joined[j][1] <= joined[j + 1][1]
    BY <2>2
  <2>4. Holds(joined, RowsBefore(d, f, joinOp, 1))
    BY <1>1, <2>1, HoldsNone
  <2>5. 1 .. 1 - 1 = {} /\ Len(joined) = 1 - 1
    BY <2>2
  <2> QED
    BY <1>1, <2>3, <2>4, <2>5 DEF JoinedSoFar
<1> QED
  BY <1>3, <1>4, <1>5 DEF JoinInv

\* The pairs of an element with its partners.
LEMMA PairsHold ==
  ASSUME NEW x \in Int, NEW s \in Seq(Int), NEW S, Holds(s, S)
  PROVE  /\ Pairs(x, s) \in Seq(Int \X (Int \cup {Nobody}))
         /\ Holds(Pairs(x, s), {<<x, y>> : y \in S})
<1> PICK n : n = Len(s)
  OBVIOUS
<1> PICK t : t = Pairs(x, s)
  OBVIOUS
<1>1. n \in Nat /\ DOMAIN s = 1 .. n /\ t = [j \in 1 .. n |-> <<x, s[j]>>]
      /\ \A j \in 1 .. n : s[j] \in Int
  BY DEF Pairs
<1>2. DOMAIN t = 1 .. n /\ \A j \in 1 .. n : t[j] = <<x, s[j]>> /\ t[j] \in Int \X (Int \cup {Nobody})
  BY <1>1
<1>3. t \in Seq(Int \X (Int \cup {Nobody}))
  <2>1. t \in [1 .. n -> Int \X (Int \cup {Nobody})]
    BY <1>1
  <2> QED
    BY <1>1, <2>1
<1>4. Range(t) = {<<x, y>> : y \in S}
  <2>1. Range(t) = {t[j] : j \in 1 .. n} /\ S = {s[j] : j \in 1 .. n}
    BY <1>1, <1>2 DEF Holds, Range
  <2> QED
    BY <1>2, <2>1
<1>5. IsInjective(t)
  <2> SUFFICES ASSUME NEW i \in 1 .. n, NEW j \in 1 .. n, t[i] = t[j] PROVE i = j
    BY <1>2 DEF IsInjective
  <2>1. <<x, s[i]>> = <<x, s[j]>>
    BY <1>2
  <2>2. s[i] = s[j]
    BY <2>1
  <2> QED
    BY <1>1, <2>2 DEF Holds, IsInjective
<1> QED
  BY <1>3, <1>4, <1>5 DEF Holds

\* The rows for one element of the driving side.
LEMMA RowsForHold ==
  ASSUME NEW d, NEW f, NEW x \in Int, NEW s \in Seq(Int), Holds(s, With(f, Len(f) + 1, d[x])),
         joinOp \in {"join", "left_join", "right_join"}
  PROVE  /\ RowsFor(x, s) \in Seq(RowOf(joinOp))
         /\ Holds(RowsFor(x, s), RowsOf(d, f, joinOp, x))
         /\ \A i \in 1 .. Len(RowsFor(x, s)) : RowsFor(x, s)[i][1] = x
<1> PICK S : S = With(f, Len(f) + 1, d[x])
  OBVIOUS
<1> PICK t : t = RowsFor(x, s)
  OBVIOUS
<1>0. RowOf(joinOp) = Int \X (Int \cup {Nobody})
  BY DEF RowOf
<1>1. S = {} <=> s = <<>>
  <2>1. Len(s) \in Nat /\ DOMAIN s = 1 .. Len(s) /\ S = {s[i] : i \in 1 .. Len(s)}
    BY DEF Holds, Range
  <2>2. S = {} <=> Len(s) = 0
    <3>1. CASE Len(s) = 0
      <4>1. \A i \in 1 .. Len(s) : FALSE
        BY <3>1
      <4> QED
        BY <2>1, <3>1, <4>1
    <3>2. CASE Len(s) # 0
      <4>1. 1 \in 1 .. Len(s)
        BY <2>1, <3>2
      <4> QED
        BY <2>1, <3>2, <4>1
    <3> QED
      BY <3>1, <3>2
  <2> QED
    BY <2>2, EmptySeq
<1>2. /\ t \in Seq(RowOf(joinOp)) /\ Holds(t, RowsOf(d, f, joinOp, x))
  <2>1. CASE S # {}
    <3>1. t = Pairs(x, s)
      BY <1>1, <2>1 DEF RowsFor
    <3>2. RowsOf(d, f, joinOp, x) = {<<x, y>> : y \in S}
      BY <2>1 DEF RowsOf
    <3> QED
      BY <1>0, <3>1, <3>2, PairsHold
  <2>2. CASE S = {} /\ joinOp = "join"
    <3>1. t = Pairs(x, s)
      BY <2>2 DEF RowsFor
    <3>2. RowsOf(d, f, joinOp, x) = {} /\ {<<x, y>> : y \in S} = {}
      BY <2>2 DEF RowsOf
    <3> QED
      BY <1>0, <3>1, <3>2, PairsHold
  <2>3. CASE S = {} /\ joinOp # "join"
    <3>1. t = <<<<x, Nobody>>>>
      BY <1>1, <2>3 DEF RowsFor
    <3>2. RowsOf(d, f, joinOp, x) = {<<x, Nobody>>}
      BY <2>3 DEF RowsOf
    <3> PICK r : r = <<x, Nobody>>
      OBVIOUS
    <3>3. r \in Int \X (Int \cup {Nobody})
      OBVIOUS
    <3>4. <<r>> \in Seq(RowOf(joinOp)) /\ DOMAIN <<r>> = {1} /\ <<r>>[1] = r
      BY <1>0, <3>3
    <3>5. Holds(<<r>>, {r})
      BY <3>4 DEF Holds, Range, IsInjective
    <3> QED
      BY <3>1, <3>2, <3>4, <3>5
  <2> QED
    BY <2>1, <2>2, <2>3
<1>3. \A r \in RowsOf(d, f, joinOp, x) : r[1] = x
  BY DEF RowsOf
<1>4. \A i \in 1 .. Len(t) : t[i] \in RowsOf(d, f, joinOp, x)
  BY <1>2 DEF Holds, Range
<1> QED
  BY <1>2, <1>3, <1>4

\* An element of the driving side looked up.
LEMMA LookInv == JoinInv /\ Look => JoinInv'
<1> SUFFICES ASSUME JoinInv, Look PROVE JoinInv'
  OBVIOUS
<1> PICK f : f = FiledSide
  OBVIOUS
<1> PICK d : d = DrivingSide
  OBVIOUS
<1> PICK x : x = probe
  OBVIOUS
<1> PICK s : s = buckets[d[x]]
  OBVIOUS
<1> PICK rows : rows = RowsFor(x, s)
  OBVIOUS
<1> PICK n : n = Len(joined)
  OBVIOUS
<1> PICK R : R = RowOf(joinOp)
  OBVIOUS
<1>1. /\ JoinShape /\ joining = "look" /\ x <= Len(d) /\ probe' = x + 1 /\ joined' = joined \o rows
      /\ UNCHANGED <<joinOp, left, right, joining, buckets>>
      /\ FiledSide' = f /\ Len(f) \in Nat
      /\ d \in Seq(Keys) /\ Len(d) \in Nat /\ DrivingSide' = d
      /\ x \in 1 .. Len(d) + 1 /\ buckets \in [Keys -> Seq(Int)]
      /\ joined \in Seq(R) /\ joinOp \in {"join", "group_join", "left_join", "right_join"}
  BY SidesFacts, SidesKept DEF JoinInv, JoinShape, Look
<1>2. x \in 1 .. Len(d) /\ x \in Int /\ d[x] \in Keys /\ x + 1 \in 1 .. Len(d) + 1
  BY <1>1
<1>3. s \in Seq(Int) /\ Holds(s, With(f, Len(f) + 1, d[x]))
  BY <1>1, <1>2 DEF JoinInv, Bucketed, FiledBefore
<1>4. Bucketed'
  BY <1>1 DEF JoinInv, Bucketed, FiledBefore
<1>5. CASE joinOp = "group_join"
  <2>1. rows = <<<<x, s>>>> /\ R = Int \X Seq(Int)
    BY <1>5 DEF RowsFor, RowOf
  <2> PICK r : r = <<x, s>>
    OBVIOUS
  <2>2. r \in R /\ r[1] = x /\ r[2] = s
    BY <1>2, <1>3, <2>1
  <2>3. joined' = joined \o <<r>>
    BY <1>1, <2>1
  <2>4. /\ joined' \in Seq(R) /\ Len(joined') = n + 1 /\ joined'[n + 1] = r
        /\ \A i \in 1 .. n : joined'[i] = joined[i]
    BY <1>1, <2>2, <2>3
  <2>5. /\ n = x - 1
        /\ \A i \in 1 .. x - 1 : /\ joined[i][1] = i
                                 /\ joined[i][2] \in Seq(Int)
                                 /\ Holds(joined[i][2], With(f, Len(f) + 1, d[i]))
    BY <1>1, <1>5 DEF JoinInv, JoinedSoFar
  <2>6. ASSUME NEW i \in 1 .. x
        PROVE  /\ joined'[i][1] = i
               /\ joined'[i][2] \in Seq(Int)
               /\ Holds(joined'[i][2], With(f, Len(f) + 1, d[i]))
    <3>1. CASE i = x
      BY <1>2, <1>3, <2>2, <2>4, <2>5, <3>1
    <3>2. CASE i # x
      <4>1. i \in 1 .. x - 1
        BY <1>2, <3>2
      <4> QED
        BY <2>4, <2>5, <4>1
    <3> QED
      BY <3>1, <3>2
  <2>7. Len(joined') = x /\ x + 1 - 1 = x
    BY <1>2, <2>4, <2>5
  <2>8. ASSUME NEW i \in 1 .. x - 1 PROVE joined'[i][1] <= joined'[i + 1][1]
    <3>1. i \in 1 .. x /\ i + 1 \in 1 .. x
      BY <1>2
    <3> QED
      BY <2>6, <3>1
  <2>9. JoinedSoFar'
    <3>1. \A i \in 1 .. Len(joined') - 1 : joined'[i][1] <= joined'[i + 1][1]
      BY <2>7, <2>8
    <3>2. /\ Len(joined') = probe' - 1
          /\ \A i \in 1 .. probe' - 1 : /\ joined'[i][1] = i
                                        /\ joined'[i][2] \in Seq(Int)
                                        /\ Holds(joined'[i][2], With(f, Len(f) + 1, d[i]))
      <4>1. probe' - 1 = x
        BY <1>1, <1>2
      <4> QED
        BY <2>6, <2>7, <4>1
    <3> QED
      BY <1>1, <1>5, <3>1, <3>2 DEF JoinedSoFar
  <2>10. JoinShape'
    BY <1>1, <1>2, <2>4 DEF JoinShape
  <2> QED
    BY <1>4, <2>9, <2>10 DEF JoinInv
<1>6. CASE joinOp # "group_join"
  <2> PICK old : old = RowsBefore(d, f, joinOp, x)
    OBVIOUS
  <2> PICK new : new = RowsOf(d, f, joinOp, x)
    OBVIOUS
  <2>1. rows \in Seq(R) /\ Holds(rows, new) /\ \A i \in 1 .. Len(rows) : rows[i][1] = x
    <3>1. joinOp \in {"join", "left_join", "right_join"}
      BY <1>1, <1>6 DEF JoinInv, JoinShape
    <3>2. x \in Int /\ s \in Seq(Int) /\ Holds(s, With(f, Len(f) + 1, d[x]))
      BY <1>1, <1>2, <1>3
    <3> QED
      BY <3>1, <3>2, RowsForHold
  <2>2. Holds(joined, old)
    BY <1>1, <1>6 DEF JoinInv, JoinedSoFar
  <2>3. \A r \in old : r[1] \in 1 .. x - 1
    BY DEF RowsBefore, RowsOf
  <2>4. \A r \in new : r[1] = x
    BY DEF RowsOf
  <2>5. old \cap new = {}
    BY <1>2, <2>3, <2>4
  <2>6. RowsBefore(d, f, joinOp, x + 1) = old \cup new
    <3>1. 1 .. x + 1 - 1 = (1 .. x - 1) \cup {x}
      BY <1>2
    <3>2. old = UNION {RowsOf(d, f, joinOp, y) : y \in 1 .. x - 1}
      BY DEF RowsBefore
    <3>3. RowsBefore(d, f, joinOp, x + 1) = UNION {RowsOf(d, f, joinOp, y) : y \in (1 .. x - 1) \cup {x}}
      BY <3>1 DEF RowsBefore
    <3> QED
      BY <3>2, <3>3
  <2>7. Holds(joined', old \cup new)
    BY <1>1, <2>1, <2>2, <2>5, HoldsConcat
  <2> PICK m : m = Len(rows)
    OBVIOUS
  <2>8. /\ joined' \in Seq(R) /\ Len(joined') = n + m /\ n \in Nat /\ m \in Nat
        /\ \A i \in 1 .. n : joined'[i] = joined[i]
        /\ \A i \in 1 .. m : joined'[n + i] = rows[i]
    BY <1>1, <2>1
  <2>9. ASSUME NEW i \in 1 .. n PROVE joined[i][1] \in 1 .. x - 1
    <3>1. DOMAIN joined = 1 .. n
      BY <1>1
    <3>2. joined[i] \in old
      BY <2>2, <3>1 DEF Holds, Range
    <3> QED
      BY <2>3, <3>2
  <2>10. ASSUME NEW j \in 1 .. n + m - 1 PROVE joined'[j][1] <= joined'[j + 1][1]
    <3>1. \A i \in n + 1 .. n + m : joined'[i][1] = x
      <4> SUFFICES ASSUME NEW i \in n + 1 .. n + m PROVE joined'[i][1] = x
        OBVIOUS
      <4> PICK l : l = i - n
        OBVIOUS
      <4>1. l \in 1 .. m /\ n + l = i
        BY <2>8
      <4>2. joined'[n + l] = rows[l] /\ rows[l][1] = x
        BY <2>1, <2>8, <4>1
      <4> QED
        BY <4>1, <4>2
    <3>2. CASE j + 1 <= n
      <4>1. j \in 1 .. n - 1 /\ j \in 1 .. n /\ j + 1 \in 1 .. n
        BY <2>8, <3>2
      <4>2. joined[j][1] <= joined[j + 1][1]
        BY <1>1, <4>1 DEF JoinInv, JoinedSoFar
      <4> QED
        BY <2>8, <4>1, <4>2
    <3>3. CASE j = n
      <4>1. j \in 1 .. n /\ j + 1 \in n + 1 .. n + m
        BY <2>8, <3>3
      <4>2. joined'[j + 1][1] = x /\ joined'[j] = joined[j] /\ joined[j][1] \in 1 .. x - 1
        BY <2>8, <2>9, <3>1, <4>1
      <4> QED
        BY <1>2, <4>2
    <3>4. CASE n < j
      <4>1. j \in n + 1 .. n + m /\ j + 1 \in n + 1 .. n + m
        BY <2>8, <3>4
      <4> QED
        BY <1>2, <3>1, <4>1
    <3> QED
      BY <2>8, <3>2, <3>3, <3>4
  <2>11. JoinedSoFar'
    <3>1. \A j \in 1 .. Len(joined') - 1 : joined'[j][1] <= joined'[j + 1][1]
      BY <2>8, <2>10
    <3>2. Holds(joined', RowsBefore(d, f, joinOp, probe'))
      BY <1>1, <2>6, <2>7
    <3> QED
      BY <1>1, <1>6, <3>1, <3>2 DEF JoinedSoFar
  <2>12. JoinShape'
    BY <1>1, <1>2, <2>8 DEF JoinShape
  <2> QED
    BY <1>4, <2>11, <2>12 DEF JoinInv
<1> QED
  BY <1>5, <1>6

LEMMA JoinReturnInv == JoinInv /\ JoinReturn => JoinInv'
<1> SUFFICES ASSUME JoinInv, JoinReturn PROVE JoinInv'
  OBVIOUS
<1>1. /\ JoinShape /\ joining = "look" /\ probe > Len(DrivingSide) /\ joining' = "done"
      /\ UNCHANGED <<joinOp, left, right, probe, buckets, joined>>
      /\ FiledSide' = FiledSide /\ DrivingSide' = DrivingSide
      /\ Len(DrivingSide) \in Nat /\ probe \in 1 .. Len(DrivingSide) + 1
  BY SidesFacts, SidesKept DEF JoinInv, JoinShape, JoinReturn
<1>2. JoinShape'
  BY <1>1 DEF JoinShape
<1>3. Bucketed'
  BY <1>1 DEF JoinInv, Bucketed, FiledBefore
<1>4. JoinedSoFar'
  BY <1>1 DEF JoinInv, JoinedSoFar
<1> QED
  BY <1>2, <1>3, <1>4 DEF JoinInv

LEMMA JoinNextInv == JoinInv /\ [JoinNext]_joinVars => JoinInv'
<1> SUFFICES ASSUME JoinInv, [JoinNext]_joinVars PROVE JoinInv'
  OBVIOUS
<1>1. CASE UNCHANGED joinVars
  <2>1. UNCHANGED <<joinOp, left, right, joining, probe, buckets, joined>>
        /\ FiledSide' = FiledSide /\ DrivingSide' = DrivingSide
    BY <1>1, SidesKept DEF joinVars
  <2>2. JoinShape'
    BY <2>1 DEF JoinInv, JoinShape
  <2>3. Bucketed'
    BY <2>1 DEF JoinInv, Bucketed, FiledBefore
  <2>4. JoinedSoFar'
    BY <2>1 DEF JoinInv, JoinedSoFar
  <2> QED
    BY <2>2, <2>3, <2>4 DEF JoinInv
<1> QED
  BY <1>1, FileInv, FiledInv, LookInv, JoinReturnInv DEF JoinNext

\* Every pair with the same key has one row, whatever order the multimap has its
\* elements in, and no other pair one; the outer joins have a row for each element
\* of their side without a partner.
THEOREM JoinsPaired == JoinSpec => []JoinCorrect
<1>1. JoinInv => JoinCorrect
  <2> SUFFICES ASSUME JoinInv, joining = "done" PROVE JoinCorrect
    BY DEF JoinCorrect
  <2> PICK f : f = FiledSide
    OBVIOUS
  <2> PICK d : d = DrivingSide
    OBVIOUS
  <2>1. /\ JoinShape /\ probe = Len(d) + 1 /\ Len(d) \in Nat /\ DOMAIN d = 1 .. Len(d)
        /\ Len(f) \in Nat /\ DOMAIN f = 1 .. Len(f)
        /\ joined \in Seq(RowOf(joinOp))
        /\ \A j \in 1 .. Len(joined) - 1 : joined[j][1] <= joined[j + 1][1]
    BY SidesFacts DEF JoinInv, JoinShape, JoinedSoFar
  <2>2. ASSUME NEW x PROVE With(f, Len(f) + 1, d[x]) = Partners(x)
    <3>1. 1 .. Len(f) + 1 - 1 = DOMAIN f
      BY <2>1
    <3> QED
      BY <3>1 DEF With, Partners
  <2>3. 1 .. probe - 1 = DOMAIN d /\ probe - 1 = Len(d)
    BY <2>1
  <2>4. CASE joinOp = "group_join"
    <3>1. /\ Len(joined) = Len(d)
          /\ \A x \in DOMAIN d : joined[x][2] \in Seq(Int) /\ Holds(joined[x][2], Partners(x))
      BY <2>2, <2>3, <2>4 DEF JoinInv, JoinedSoFar
    <3>2. \A x \in DOMAIN d : OnceEach(joined[x][2], Partners(x))
      <4> SUFFICES ASSUME NEW x \in DOMAIN d PROVE OnceEach(joined[x][2], Partners(x))
        OBVIOUS
      <4> PICK s : s = joined[x][2]
        OBVIOUS
      <4>1. s \in Seq(Int) /\ Holds(s, Partners(x))
        BY <3>1
      <4>2. Cardinality(Partners(x)) = Len(s)
        BY <4>1, HoldsCount
      <4> QED
        BY <4>1, <4>2 DEF OnceEach, Holds
    <3> QED
      BY <2>1, <2>4, <3>1, <3>2 DEF JoinCorrect
  <2>5. CASE joinOp # "group_join"
    <3> DEFINE All == {e \in (DOMAIN d) \X (DOMAIN f) : e[2] \in Partners(e[1])} \cup
                      {<<x, Nobody>> : x \in {x \in DOMAIN d : joinOp # "join" /\ Partners(x) = {}}}
    <3>1. RowsBefore(d, f, joinOp, probe) = All
      <4>1. \A x : RowsOf(d, f, joinOp, x) =
              IF Partners(x) # {} THEN {<<x, y>> : y \in Partners(x)}
              ELSE IF joinOp = "join" THEN {} ELSE {<<x, Nobody>>}
        BY <2>2 DEF RowsOf
      <4>2. \A x : Partners(x) \subseteq DOMAIN f
        BY DEF Partners
      <4>3. ASSUME NEW r \in RowsBefore(d, f, joinOp, probe) PROVE r \in All
        <5>1. PICK x \in DOMAIN d : r \in RowsOf(d, f, joinOp, x)
          BY <2>3 DEF RowsBefore
        <5> QED
          BY <4>1, <4>2, <5>1
      <4>4. ASSUME NEW r \in All PROVE r \in RowsBefore(d, f, joinOp, probe)
        <5>1. CASE r \in {e \in (DOMAIN d) \X (DOMAIN f) : e[2] \in Partners(e[1])}
          <6>1. r[1] \in DOMAIN d /\ r[2] \in Partners(r[1]) /\ r = <<r[1], r[2]>>
            BY <5>1
          <6>2. r \in RowsOf(d, f, joinOp, r[1])
            BY <4>1, <6>1
          <6> QED
            BY <2>3, <6>1, <6>2 DEF RowsBefore
        <5>2. CASE r \in {<<x, Nobody>> : x \in {x \in DOMAIN d : joinOp # "join" /\ Partners(x) = {}}}
          <6>1. PICK x \in DOMAIN d : r = <<x, Nobody>> /\ joinOp # "join" /\ Partners(x) = {}
            BY <5>2
          <6>2. r \in RowsOf(d, f, joinOp, x)
            BY <4>1, <6>1
          <6> QED
            BY <2>3, <6>2 DEF RowsBefore
        <5> QED
          BY <5>1, <5>2
      <4> QED
        BY <4>3, <4>4
    <3>2. Holds(joined, RowsBefore(d, f, joinOp, probe))
      BY <2>5 DEF JoinInv, JoinedSoFar
    <3> HIDE DEF All
    <3>3. Cardinality(All) = Len(joined) /\ Range(joined) = All
      BY <2>1, <3>1, <3>2, HoldsCount DEF Holds
    <3> QED
      BY <2>1, <2>5, <3>3 DEF JoinCorrect, OnceEach, All
  <2> QED
    BY <2>4, <2>5
<1> QED
  BY <1>1, JoinInitInv, JoinNextInv, PTL DEF JoinSpec

=============================================================================
