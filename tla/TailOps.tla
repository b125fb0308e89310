-------------------------------- MODULE TailOps --------------------------------
(***************************************************************************)
(* take_last(n) and skip_last(n).  Over random access the bounds of what   *)
(* is copied are computed, over other ranges take_last keeps a ring of the *)
(* last n elements and skip_last cuts a copy of all.                       *)
(*                                                                         *)
(* An element is its place.                                                *)
(***************************************************************************)
EXTENDS Places, FiniteSetsExt

CONSTANT MaxCount   \* bound on n, here count

VARIABLES
  tailOp,  \* "take_last" or "skip_last"
  size,    \* the length of the range
  count,   \* how many
  random,  \* whether the range is random-access
  next,    \* the element the loop is at
  stop,    \* the end of the loop
  ring,    \* ring or *owner
  work     \* "copy", or "done" when the operation has returned

tailVars == <<tailOp, size, count, random, next, stop, ring, work>>

\* Where the loop of the operation begins and ends, for a range that is not empty.
LoopBounds(k, l, c, r) ==
  CASE r /\ k = "take_last" -> [from |-> l - Min({c, l}) + 1, to |-> l + 1]
    [] r /\ k = "skip_last" -> [from |-> 1, to |-> IF l <= c THEN 1 ELSE l - c + 1]
    [] ~r -> [from |-> 1, to |-> l + 1]

TailInit ==
  /\ tailOp \in {"take_last", "skip_last"}
  /\ size \in 0 .. MaxLen
  /\ count \in 0 .. MaxCount
  /\ random \in BOOLEAN
  /\ LET b == LoopBounds(tailOp, size, count, random)
     IN  next = b.from /\ stop = b.to
  /\ ring = <<>>
  /\ work = IF tailOp = "take_last" /\ count = 0 THEN "done" ELSE "copy"

\* Fault: the ring holds one element more.
KeepOneMore(s, x) ==
  IF tailOp = "take_last" /\ ~random /\ Len(s) > count THEN Append(Tail(s), x) ELSE Append(s, x)

\* push_back, on a full ring after pop_front.
Keep(s, x) ==
  IF tailOp = "take_last" /\ ~random /\ Len(s) >= count THEN Append(Tail(s), x) ELSE Append(s, x)

CopyOne ==
  /\ work = "copy"
  /\ next # stop
  /\ ring' = Keep(ring, next)
  /\ next' = next + 1
  /\ UNCHANGED <<tailOp, size, count, random, stop, work>>

\* What skip_last erases from the copy of all.
Cut(s) == IF Len(s) > count THEN SubSeq(s, 1, Len(s) - count) ELSE <<>>

TailReturn ==
  /\ work = "copy"
  /\ next = stop
  /\ work' = "done"
  /\ ring' = IF tailOp = "skip_last" /\ ~random THEN Cut(ring) ELSE ring
  /\ UNCHANGED <<tailOp, size, count, random, next, stop>>

TailNext == CopyOne \/ TailReturn

TailSpec == TailInit /\ [][TailNext]_tailVars

-----------------------------------------------------------------------------
\* take_last holds the last n elements, or all there are; skip_last the rest.
\* Both branches say the same, at n = 0, at the length and beyond.
TailCorrect ==
  work = "done" =>
    LET kept == {x \in 1 .. size : IF tailOp = "take_last" THEN x > size - count ELSE x <= size - count}
    IN  Lists(ring, kept)
=============================================================================
