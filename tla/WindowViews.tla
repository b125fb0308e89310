------------------------------ MODULE WindowViews ------------------------------
(***************************************************************************)
(* Views that show parts of one range, or its elements with a number:      *)
(* chunk, stride, sliding_window, enumerate.  The range is 1 .. n of       *)
(* positions, n + 1 is its end.  Sizes and steps of 0 are taken for 1.     *)
(***************************************************************************)
EXTENDS Integers, Sequences, FiniteSetsExt

CONSTANTS
  MaxLeg,   \* bound on the length of the range
  MaxSize   \* bound on sizes and steps

SizedParams == [n : 0 .. MaxLeg, size : 0 .. MaxSize]

Clamped(size) == IF size < 1 THEN 1 ELSE size

\* The positions from x on, size of them or what there is.
Positions(q, x) == [k \in 1 .. Min({Clamped(q.size), q.n + 1 - x}) |-> x + k - 1]

\* How many multiples of the size there are in the range, from its begin on.
Multiples(q) == (q.n + Clamped(q.size) - 1) \div Clamped(q.size)

-----------------------------------------------------------------------------
(* chunk_view and chunk_iterator: cur is after the chunk in the buffer.    *)

\* load_chunk()
LoadChunk(q, i) ==
  IF i.cur = q.n + 1 THEN [i EXCEPT !.buf = <<>>, !.done = TRUE]
  ELSE [cur |-> i.cur + Len(Positions(q, i.cur)), buf |-> Positions(q, i.cur), done |-> FALSE]

ChunkFirst(q) == LoadChunk(q, [cur |-> 1, buf |-> <<>>, done |-> TRUE])

ChunkLast(q) == [cur |-> q.n + 1, buf |-> <<>>, done |-> TRUE]

ChunkIncr(q, i) == IF i.done THEN i ELSE LoadChunk(q, i)

\* Fault: the iterator with the last chunk passes for the end.
ChunkSameCur(q, i, j) == i.cur = j.cur

ChunkSame(q, i, j) == i.done = j.done /\ i.cur = j.cur

ChunkReads(q, i) == i.buf

ChunkShown(q) ==
  [k \in 1 .. Multiples(q) |-> Positions(q, 1 + (k - 1) * Clamped(q.size))]

-----------------------------------------------------------------------------
(* stride_view and stride_iterator.                                        *)

StrideParams == [n : 0 .. MaxLeg, size : 0 .. MaxSize, ra : BOOLEAN]

StrideFirst(q) == 1

StrideLast(q) == q.n + 1

\* operator++ over random access: one jump, cut at the end of the range.
Jump(q, i) ==
  LET rem == q.n + 1 - i
  IN  IF rem <= 0 THEN i ELSE i + Min({Clamped(q.size), rem})

\* operator++ over other ranges: single steps, as long as the end is not met.
Walk(q, i) == i + Len(Positions(q, i))

StrideIncr(q, i) == IF q.ra THEN Jump(q, i) ELSE Walk(q, i)

StrideSame(q, i, j) == i = j

StrideReads(q, i) == i

StrideShown(q) == [k \in 1 .. Multiples(q) |-> 1 + (k - 1) * Clamped(q.size)]

-----------------------------------------------------------------------------
(* sliding_window_view and its iterator: the window in the buffer begins   *)
(* at cur.  Those at the tail of the range are shorter.                    *)

\* load_window()
LoadWindow(q, i) == [i EXCEPT !.buf = Positions(q, i.cur)]

SlidingFirst(q) ==
  IF q.n = 0 THEN [cur |-> 1, buf |-> <<>>, done |-> TRUE]
  ELSE LoadWindow(q, [cur |-> 1, buf |-> <<>>, done |-> FALSE])

SlidingLast(q) == [cur |-> q.n + 1, buf |-> <<>>, done |-> TRUE]

\* operator++: at the end of the range the last window stays in the buffer.
SlidingIncr(q, i) ==
  IF i.cur + 1 = q.n + 1 THEN [i EXCEPT !.cur = @ + 1, !.done = TRUE]
  ELSE LoadWindow(q, [i EXCEPT !.cur = @ + 1])

SlidingSame(q, i, j) == i.done = j.done /\ (i.done \/ i.cur = j.cur)

SlidingReads(q, i) == i.buf

SlidingShown(q) ==
  [k \in 1 .. q.n |->
     SubSeq([x \in 1 .. q.n |-> x], k, Min({k + Clamped(q.size) - 1, q.n}))]

-----------------------------------------------------------------------------
(* enumerate_view and its iterator: a counter from 0 beside the position.  *)

EnumerateParams == [n : 0 .. MaxLeg]

EnumerateFirst(q) == [it |-> 1, n |-> 0]

EnumerateLast(q) == [it |-> q.n + 1, n |-> 0]

EnumerateIncr(q, i) == [it |-> i.it + 1, n |-> i.n + 1]

EnumerateSame(q, i, j) == i.it = j.it

EnumerateReads(q, i) == <<i.n, i.it>>

EnumerateShown(q) == [k \in 1 .. q.n |-> <<k - 1, k>>]
=============================================================================
