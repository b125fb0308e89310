------------------------------- MODULE TakeView -------------------------------
(***************************************************************************)
(* take(n): take_n_view and take_n_iterator, and the bounds reversed_view  *)
(* makes for it.                                                           *)
(*                                                                         *)
(* A take_n_iterator is a base iterator and a budget that counts up to 0.  *)
(* Two of them are equal if either half is, so the end of the view is the  *)
(* physical end or any exhausted iterator, whichever is met first.  The    *)
(* step that exhausts the budget does not move the base iterator.          *)
(*                                                                         *)
(* The program runs one traversal after the other: the loop of the fold    *)
(* terminals, last(), and the loop over reverse().                         *)
(***************************************************************************)
EXTENDS Integers, Sequences

CONSTANTS
  Length,   \* length of the storage it walks
  PtrMax    \* the largest std::ptrdiff_t

\* The storage can be counted.
ASSUME WidthAssumption ==
  /\ Length \in Nat
  /\ PtrMax \in Nat
  /\ Length + 1 <= PtrMax

PtrMin == -PtrMax - 1

Points == 1 .. Length + 1

Spans == {r \in [b : Points, e : Points] : r.b <= r.e}

VARIABLES
  span,    \* the range the view was made over
  n,       \* the argument of take()
  walk,    \* the traversal that runs, or ran last
  doing,   \* where it is
  taker,   \* the iterator it moves: base position and remaining_
  limit,   \* the iterator it compares with
  taken    \* the positions read

takeVars == <<span, n, walk, doing, taker, limit, taken>>

Iterators == [cur : Points, left : PtrMin .. PtrMax]

-----------------------------------------------------------------------------
(* take_n_iterator.                                                        *)

Same(i, j) == i.cur = j.cur \/ i.left = j.left

\* Fault: the exhausting step moves the base, too.
IncrAlways(i) == [cur |-> i.cur + 1, left |-> i.left + 1]

Incr(i) == [cur |-> IF i.left + 1 < 0 THEN i.cur + 1 ELSE i.cur, left |-> i.left + 1]

Decr(i) == [cur |-> i.cur - 1, left |-> i.left - 1]

\* Fault: the smallest ptrdiff_t is negated like any other.
TakeCountUnguarded(k) == IF k < 0 THEN -k ELSE k

\* How many elements take(k) asks for.
TakeCount(k) == IF k = PtrMin THEN 0 ELSE IF k < 0 THEN -k ELSE k

BeginOfTake == [cur |-> span.b, left |-> -TakeCount(n)]

EndOfTake == [cur |-> span.e, left |-> 0]

-----------------------------------------------------------------------------
TakeInit ==
  /\ span \in Spans
  /\ n \in PtrMin .. PtrMax
  /\ walk = "none"
  /\ doing = "ready"
  /\ taker = BeginOfTake
  /\ limit = EndOfTake
  /\ taken = <<>>

\* A loop over [begin(), end()), or the one that looks for the reversed bounds.
StartWalk(p) ==
  /\ doing = "ready"
  /\ walk' = p
  /\ doing' = IF p = "reverse" THEN "scan" ELSE "loop"
  /\ taker' = BeginOfTake
  /\ limit' = EndOfTake
  /\ taken' = <<>>
  /\ UNCHANGED <<span, n>>

TakeForward ==
  /\ doing = "loop"
  /\ walk = "forward"
  /\ ~Same(taker, limit)
  /\ taken' = Append(taken, taker.cur)
  /\ taker' = Incr(taker)
  /\ UNCHANGED <<span, n, walk, doing, limit>>

\* reverse_iterator reads through a decremented copy and steps by --.
TakeReverse ==
  /\ doing = "loop"
  /\ walk = "reverse"
  /\ ~Same(taker, limit)
  /\ taken' = Append(taken, Decr(taker).cur)
  /\ taker' = Decr(taker)
  /\ UNCHANGED <<span, n, walk, doing, limit>>

FinishWalk ==
  /\ doing = "loop"
  /\ Same(taker, limit)
  /\ doing' = "ready"
  /\ UNCHANGED <<span, n, walk, taker, limit, taken>>

\* last(): nothing if begin() == end(), where it throws; else *std::prev(end()).
TakeLast ==
  /\ doing = "ready"
  /\ walk' = "last"
  /\ taken' = IF Same(BeginOfTake, EndOfTake) THEN <<>> ELSE <<Decr(EndOfTake).cur>>
  /\ UNCHANGED <<span, n, doing, taker, limit>>

-----------------------------------------------------------------------------
(* reversed_view<take_n_iterator>: where the reversed traversal starts.    *)

\* Fault: the scan increments a copy.
BoundStepCopy ==
  /\ doing = "scan"
  /\ ~Same(taker, limit)
  /\ UNCHANGED takeVars

BoundStep ==
  /\ doing = "scan"
  /\ ~Same(taker, limit)
  /\ taker' = Incr(taker)
  /\ UNCHANGED <<span, n, walk, doing, limit, taken>>

\* Fault: the exhausted iterator is not bumped past the last element taken.
BoundFoundUnbumped ==
  /\ doing = "scan"
  /\ Same(taker, limit)
  /\ taker' = IF Same(BeginOfTake, taker) THEN BeginOfTake ELSE taker
  /\ limit' = BeginOfTake
  /\ doing' = "loop"
  /\ UNCHANGED <<span, n, walk, taken>>

\* Fault: it is bumped although the physical end was reached.
BoundFoundBumped ==
  /\ doing = "scan"
  /\ Same(taker, limit)
  /\ taker' = IF Same(BeginOfTake, taker) THEN BeginOfTake ELSE [taker EXCEPT !.cur = @ + 1]
  /\ limit' = BeginOfTake
  /\ doing' = "loop"
  /\ UNCHANGED <<span, n, walk, taken>>

\* Nothing scanned, or the physical end reached, or the budget exhausted: only
\* in the last case does the base stand on the last element and not behind it.
BoundFound ==
  /\ doing = "scan"
  /\ Same(taker, limit)
  /\ taker' = IF Same(BeginOfTake, taker) THEN BeginOfTake
              ELSE IF taker.cur = limit.cur THEN taker
              ELSE [taker EXCEPT !.cur = @ + 1]
  /\ limit' = BeginOfTake
  /\ doing' = "loop"
  /\ UNCHANGED <<span, n, walk, taken>>

WalkStep == TakeForward \/ TakeReverse \/ FinishWalk \/ BoundStep \/ BoundFound

TakeNext == WalkStep \/ TakeLast \/ \E p \in {"forward", "reverse"} : StartWalk(p)

TakeSpec == TakeInit /\ [][TakeNext]_takeVars

-----------------------------------------------------------------------------
(* Correctness.                                                            *)

TakeTypeOK ==
  /\ span \in Spans
  /\ n \in PtrMin .. PtrMax
  /\ walk \in {"none", "forward", "reverse", "last"}
  /\ doing \in {"ready", "scan", "loop"}
  /\ taker \in Iterators
  /\ limit \in Iterators
  /\ taken \in Seq(Points)

\* What take() says of its argument: the magnitude of n counts, and it is 0 if
\* ptrdiff_t does not hold it.
Magnitude == IF PtrMax < -n THEN 0 ELSE IF 0 <= n THEN n ELSE -n

\* The length of the prefix: the count asked for, or all there is.
PrefixLen ==
  IF Magnitude <= span.e - span.b THEN Magnitude ELSE span.e - span.b

Prefix == [i \in 1 .. PrefixLen |-> span.b + i - 1]

PrefixReversed == [i \in 1 .. PrefixLen |-> span.b + PrefixLen - i]

\* Traversal p has returned.
WalkReturned(p) == doing = "ready" /\ walk = p

\* A forward traversal reads exactly the prefix, in order, whatever the argument.
ReadsPrefix == WalkReturned("forward") => taken = Prefix

\* A reversed traversal reads the prefix backwards.  (What take(1) and take(-1)
\* show is not what they should: see ReverseIsOfPrefix below.)
ReadsPrefixReversed ==
  WalkReturned("reverse") /\ Magnitude # 1 => taken = PrefixReversed

\* No forward loop moves the base iterator past the last element taken, so that
\* a filter below is not run on to its next match.
BaseOnTaken ==
  doing = "scan" \/ (doing = "loop" /\ walk = "forward") =>
    taker.cur = span.b \/ taker.cur < span.b + Magnitude

\* Every traversal returns, once it has begun and if it is run on.
TakeEnds == doing # "ready" ~> doing = "ready"

-----------------------------------------------------------------------------
(* The inductive invariant.                                                *)

\* The steps of ++ that led from begin() to it.
Used == TakeCount(n) + taker.left

\* Where they led: to the next element, but for the step that exhausts.
Walked ==
  /\ Used \in 0 .. PrefixLen
  /\ taker.cur = IF 0 < Used /\ taker.left = 0 THEN span.b + Used - 1 ELSE span.b + Used

ForwardInv ==
  doing = "loop" /\ walk = "forward" =>
    limit = EndOfTake /\ Walked /\ taken = [i \in 1 .. Used |-> span.b + i - 1]

BoundInv == doing = "scan" => walk = "reverse" /\ limit = EndOfTake /\ Walked /\ taken = <<>>

\* (The iterator that take(1) has exhausted is still on its element, and so equals
\* begin() by its base: the view is taken to be empty.)
ReverseInv ==
  doing = "loop" /\ walk = "reverse" =>
    /\ limit = BeginOfTake
    /\ TakeCount(n) = 1 => taker = BeginOfTake /\ taken = <<>>
    /\ TakeCount(n) # 1 =>
         /\ Used \in 0 .. PrefixLen
         /\ taker.cur = span.b + Used
         /\ taken = [i \in 1 .. PrefixLen - Used |-> span.b + PrefixLen - i]

LoopInv == doing = "loop" => walk \in {"forward", "reverse"}

TakeInv ==
  /\ TakeTypeOK /\ LoopInv
  /\ ForwardInv /\ BoundInv /\ ReverseInv
  /\ ReadsPrefix /\ ReadsPrefixReversed

-----------------------------------------------------------------------------
(* What the documentation says, and the code does not do.                  *)

\* query_range.h, last(): "Last element; throws if empty."
LastIsOfPrefix ==
  WalkReturned("last") => taken = IF PrefixLen = 0 THEN <<>> ELSE <<Prefix[PrefixLen]>>

\* README.md: "reverse() ... Composes correctly with take(n) and take_while(pred) via
\* dedicated bounds (logical prefix only)."
ReverseIsOfPrefix == WalkReturned("reverse") => taken = PrefixReversed
=============================================================================
