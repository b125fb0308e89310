---------------------------- MODULE TakeViewProofs ----------------------------
(***************************************************************************)
(* For storage of any length, any range and any argument of take(): the    *)
(* forward loop reads exactly the prefix, the reversed one the prefix      *)
(* backwards if not one element is asked for, no position overflows.       *)
(***************************************************************************)
EXTENDS TakeView, TLAPS

USE WidthAssumption

\* What the parameters of the view are.
LEMMA ViewType ==
  ASSUME TakeTypeOK
  PROVE  /\ span.b \in Points
         /\ span.e \in Points
         /\ span.b \in Int
         /\ span.e \in Int
         /\ 1 <= span.b
         /\ span.b <= span.e
         /\ span.e <= Length + 1
         /\ n \in Int
         /\ TakeCount(n) \in 0 .. PtrMax
         /\ TakeCount(n) \in Int
         /\ Magnitude = TakeCount(n)
         /\ PrefixLen \in Int
         /\ 0 <= PrefixLen
         /\ PrefixLen <= TakeCount(n)
         /\ PrefixLen <= span.e - span.b
         /\ PrefixLen = TakeCount(n) \/ PrefixLen = span.e - span.b
<1>1. span \in {r \in [b : Points, e : Points] : r.b <= r.e}
  BY DEF TakeTypeOK, Spans
<1>2. n \in PtrMin .. PtrMax
  BY DEF TakeTypeOK
<1>3. TakeCount(n) \in 0 .. PtrMax /\ Magnitude = TakeCount(n)
  BY <1>2 DEF TakeCount, Magnitude, PtrMin
<1> QED
  BY <1>1, <1>2, <1>3 DEF PrefixLen, Points, PtrMin

\* The iterators a view hands out.
LEMMA BoundsType ==
  ASSUME TakeTypeOK
  PROVE  BeginOfTake \in Iterators /\ EndOfTake \in Iterators
BY ViewType DEF BeginOfTake, EndOfTake, Iterators, PtrMin

\* The iterator that moves.
LEMMA CursorType ==
  ASSUME TakeTypeOK
  PROVE  /\ taker.cur \in Points
         /\ taker.cur \in Int
         /\ taker.left \in PtrMin .. PtrMax
         /\ taker.left \in Int
         /\ Used \in Int
         /\ taker.left = Used - TakeCount(n)
<1>1. taker \in Iterators
  BY DEF TakeTypeOK
<1>2. taker.cur \in Points /\ taker.cur \in Int /\ taker.left \in PtrMin .. PtrMax /\ taker.left \in Int
  BY <1>1 DEF Iterators, Points, PtrMin
<1> QED
  BY <1>2, ViewType DEF Used

LEMMA InitIInv == TakeInit => TakeInv
<1> SUFFICES ASSUME TakeInit PROVE TakeInv
  OBVIOUS
<1>1. span \in {r \in [b : Points, e : Points] : r.b <= r.e} /\ n \in PtrMin .. PtrMax
  BY DEF TakeInit, Spans
<1>2. TakeCount(n) \in 0 .. PtrMax
  BY <1>1 DEF TakeCount, PtrMin
<1>3. TakeTypeOK
  BY <1>1, <1>2 DEF TakeInit, TakeTypeOK, BeginOfTake, EndOfTake, Iterators, Points, PtrMin, Spans
<1> QED
  BY <1>3
  DEF TakeInit, TakeInv, LoopInv, ForwardInv, BoundInv, ReverseInv, ReadsPrefix,
      ReadsPrefixReversed, WalkReturned

\* The quantities of a view do not change with the steps of a traversal.
LEMMA ViewKept ==
  ASSUME UNCHANGED <<span, n>>
  PROVE  /\ BeginOfTake' = BeginOfTake
         /\ EndOfTake' = EndOfTake
         /\ PrefixLen' = PrefixLen
         /\ Prefix' = Prefix
         /\ PrefixReversed' = PrefixReversed
         /\ TakeCount(n)' = TakeCount(n)
         /\ Magnitude' = Magnitude
BY DEF BeginOfTake, EndOfTake, PrefixLen, Prefix, PrefixReversed, TakeCount, Magnitude
-----------------------------------------------------------------------------
LEMMA StartInv ==
  ASSUME TakeInv, NEW p \in {"forward", "reverse"}, StartWalk(p)
  PROVE  TakeInv'
<1>1. TakeTypeOK /\ UNCHANGED <<span, n>>
  BY DEF TakeInv, StartWalk
<1>2. TakeTypeOK'
  BY <1>1, BoundsType DEF StartWalk, TakeTypeOK
<1>3. Used' = 0 /\ Walked'
  BY <1>1, ViewType, ViewKept DEF StartWalk, Used, Walked, BeginOfTake
<1>4. taken' = <<>> /\ taken' = [i \in 1 .. Used' |-> span.b + i - 1]
  BY <1>3 DEF StartWalk
<1> QED
  BY <1>1, <1>2, <1>3, <1>4, ViewKept
  DEF StartWalk, TakeInv, LoopInv, ForwardInv, BoundInv, ReverseInv, ReadsPrefix,
      ReadsPrefixReversed, WalkReturned

\* One ++ of an iterator that is not at the end.
LEMMA IncrWalks ==
  ASSUME TakeTypeOK, Walked, limit = EndOfTake, ~Same(taker, limit), taker' = Incr(taker), UNCHANGED <<span, n>>
  PROVE  Walked' /\ Used' = Used + 1 /\ taker' \in Iterators /\ taker.cur = span.b + Used
<1>1. taker.cur \in Int /\ taker.left \in Int /\ taker.cur # span.e /\ taker.left # 0
  BY DEF TakeTypeOK, Iterators, Points, PtrMin, Same, EndOfTake
<1>2. Used \in Int /\ taker.cur = span.b + Used /\ Used < PrefixLen /\ 0 <= Used
  BY <1>1, ViewType DEF Walked, Used
<1>3. taker'.left = taker.left + 1 /\ taker'.cur = IF taker.left + 1 < 0 THEN taker.cur + 1 ELSE taker.cur
  BY DEF Incr
<1>4. Used' = Used + 1
  BY <1>1, <1>3, ViewType, ViewKept DEF Used
<1>5. Walked'
  BY <1>1, <1>2, <1>3, <1>4, ViewType, ViewKept DEF Walked, Used
<1>6. taker' \in Iterators
  BY <1>1, <1>2, <1>3, ViewType DEF Incr, Iterators, Points, PtrMin, Used
<1> QED
  BY <1>2, <1>4, <1>5, <1>6

\* A walk that has met either end has walked the whole prefix.
LEMMA WalkedAll ==
  ASSUME TakeTypeOK, Walked, taker.cur = span.e \/ taker.left = 0
  PROVE  Used = PrefixLen
<1>1. /\ Used \in Int
      /\ Used <= PrefixLen
      /\ taker.left = Used - TakeCount(n)
      /\ taker.left \in Int
  BY ViewType, CursorType DEF Walked
<1>2. CASE taker.left = 0
  BY <1>1, <1>2, ViewType
<1>3. CASE taker.left # 0
  <2>1. taker.cur = span.e /\ taker.cur = span.b + Used
    BY <1>3 DEF Walked
  <2> QED
    BY <1>1, <2>1, ViewType
<1> QED
  BY <1>2, <1>3

\* The positions read grow by the next one, upwards or downwards.
LEMMA AppendUp ==
  ASSUME NEW k \in Nat, NEW b \in Int
  PROVE  Append([i \in 1 .. k |-> b + i - 1], b + k) = [i \in 1 .. k + 1 |-> b + i - 1]
OBVIOUS

LEMMA AppendDown ==
  ASSUME NEW k \in Nat, NEW b \in Int, NEW p \in Int
  PROVE  Append([i \in 1 .. k |-> b + p - i], b + p - k - 1) = [i \in 1 .. k + 1 |-> b + p - i]
OBVIOUS

LEMMA ForwardInvStep ==
  ASSUME TakeInv, TakeForward
  PROVE  TakeInv'
<1>1. TakeTypeOK /\ Walked /\ limit = EndOfTake /\ taken = [i \in 1 .. Used |-> span.b + i - 1]
  BY DEF TakeInv, ForwardInv, TakeForward
<1>2. UNCHANGED <<span, n>> /\ ~Same(taker, limit) /\ taker' = Incr(taker) /\ taken' = Append(taken, taker.cur)
  BY DEF TakeForward
<1>3. Walked' /\ Used' = Used + 1 /\ taker' \in Iterators /\ taker.cur = span.b + Used
  BY <1>1, <1>2, IncrWalks
<1>4. Used \in Nat /\ span.b \in Int /\ taker.cur \in Points
  BY <1>1, ViewType DEF Walked, TakeTypeOK, Iterators
<1>5. taken' = [i \in 1 .. Used' |-> span.b + i - 1]
  BY <1>1, <1>2, <1>3, <1>4, AppendUp
<1>6. taken' \in Seq(Points)
  BY <1>1, <1>2, <1>4 DEF TakeTypeOK
<1>7. TakeTypeOK'
  BY <1>1, <1>2, <1>3, <1>6 DEF TakeForward, TakeTypeOK
<1> QED
  BY <1>1, <1>2, <1>3, <1>5, <1>7, ViewKept
  DEF TakeForward, TakeInv, LoopInv, ForwardInv, BoundInv, ReverseInv, ReadsPrefix,
      ReadsPrefixReversed, WalkReturned

LEMMA ScanInvStep ==
  ASSUME TakeInv, BoundStep
  PROVE  TakeInv'
<1>1. TakeTypeOK /\ Walked /\ limit = EndOfTake /\ walk = "reverse" /\ taken = <<>>
  BY DEF TakeInv, BoundInv, BoundStep
<1>2. Walked' /\ taker' \in Iterators
  BY <1>1, IncrWalks DEF BoundStep
<1>3. TakeTypeOK'
  BY <1>1, <1>2 DEF BoundStep, TakeTypeOK
<1> QED
  BY <1>1, <1>2, <1>3, ViewKept
  DEF BoundStep, TakeInv, LoopInv, ForwardInv, BoundInv, ReverseInv, ReadsPrefix,
      ReadsPrefixReversed, WalkReturned

\* make_bounds: the reversed traversal starts behind the last element taken.
LEMMA ScanDoneInvStep ==
  ASSUME TakeInv, BoundFound
  PROVE  TakeInv'
<1>1. TakeTypeOK /\ Walked /\ limit = EndOfTake /\ walk = "reverse" /\ taken = <<>>
  BY DEF TakeInv, BoundInv, BoundFound
<1>2. UNCHANGED <<span, n, walk, taken>> /\ doing' = "loop" /\ limit' = BeginOfTake
  BY DEF BoundFound
<1>3. /\ taker.cur \in Int
      /\ taker.left \in Int
      /\ taker.left = Used - TakeCount(n)
      /\ Used \in 0 .. PrefixLen
      /\ taker.cur = IF 0 < Used /\ taker.left = 0 THEN span.b + Used - 1 ELSE span.b + Used
      /\ taker.cur = span.e \/ taker.left = 0
  BY <1>1, ViewType, CursorType DEF Walked, BoundFound, Same, EndOfTake
<1>6. /\ Used = PrefixLen
      /\ Used \in Nat
      /\ Used <= TakeCount(n)
      /\ TakeCount(n) \in Int
      /\ span.b \in Int
  BY <1>1, <1>3, ViewType, WalkedAll
<1>7. Same(BeginOfTake, taker) <=> taker.cur = span.b \/ Used = 0
  BY <1>3, <1>6 DEF Same, BeginOfTake
<1>4. CASE Same(BeginOfTake, taker)
  <2>1. taker' = BeginOfTake
    BY <1>4 DEF BoundFound
  <2>2. TakeCount(n) = 1 \/ PrefixLen = 0
    <3>1. CASE Used = 0
      BY <1>6, <3>1
    <3>2. CASE Used # 0
      <4>1. taker.cur = span.b
        BY <1>4, <1>7, <3>2
      <4>2. taker.left = 0 /\ Used = 1
        BY <1>3, <1>6, <3>2, <4>1
      <4> QED
        BY <1>3, <1>6, <4>2
    <3> QED
      BY <3>1, <3>2
  <2>3. TakeTypeOK'
    BY <1>1, <1>2, <2>1, BoundsType DEF TakeTypeOK
  <2>4. Used' = 0 /\ taker'.cur = span.b
    BY <1>1, <1>2, <2>1, ViewType, ViewKept DEF Used, BeginOfTake
  <2>5. TakeCount(n) # 1 => taken' = [i \in 1 .. PrefixLen - Used' |-> span.b + PrefixLen - i]
    BY <1>1, <1>2, <2>2, <2>4
  <2> QED
    BY <1>1, <1>2, <2>1, <2>3, <2>4, <2>5, ViewType, ViewKept
    DEF TakeInv, LoopInv, ForwardInv, BoundInv, ReverseInv, ReadsPrefix,
        ReadsPrefixReversed, WalkReturned
<1>5. CASE ~Same(BeginOfTake, taker)
  <2>1. taker.cur # span.b /\ Used # 0 /\ TakeCount(n) # 1
    <3>1. taker.cur # span.b /\ Used # 0
      BY <1>5, <1>7
    <3>2. ASSUME TakeCount(n) = 1 PROVE FALSE
      <4>1. Used = 1 /\ taker.left = 0
        BY <1>3, <1>6, <3>1, <3>2
      <4> QED
        BY <1>3, <1>6, <3>1, <4>1
    <3> QED
      BY <3>1, <3>2
  <2>2. Used = PrefixLen
    BY <1>6
  <2>3. taker'.cur = span.b + PrefixLen /\ taker'.left = taker.left /\ taker' \in Iterators
    <3>1. taker \in [cur : Points, left : PtrMin .. PtrMax]
      BY <1>1 DEF TakeTypeOK, Iterators
    <3>2. CASE taker.cur = span.e
      <4>1. taker' = taker
        BY <1>1, <1>5, <3>2 DEF BoundFound, EndOfTake
      <4> QED
        BY <1>1, <1>3, <2>1, <2>2, <3>1, <3>2, <4>1, ViewType DEF Iterators
    <3>3. CASE taker.cur # span.e
      <4>1. taker' = [taker EXCEPT !.cur = taker.cur + 1]
        BY <1>1, <1>5, <3>3 DEF BoundFound, EndOfTake
      <4>2. taker.cur = span.b + Used - 1
        <5>1. 0 < Used /\ taker.left = 0
          BY <1>1, <1>3, <2>1, <3>3, ViewType
        <5> QED
          BY <1>3, <5>1
      <4>5. /\ span.b \in Int
            /\ PrefixLen \in Int
            /\ 0 <= PrefixLen
            /\ 1 <= span.b
            /\ span.b + PrefixLen <= Length + 1
        BY <1>1, ViewType
      <4>3. taker.cur + 1 = span.b + PrefixLen
        BY <2>2, <4>2, <4>5
      <4>4. taker.cur + 1 \in Points
        BY <4>3, <4>5 DEF Points
      <4> QED
        BY <3>1, <4>1, <4>3, <4>4 DEF Iterators
    <3> QED
      BY <3>2, <3>3
  <2>4. Used' = PrefixLen
    BY <1>2, <2>2, <2>3, ViewKept DEF Used
  <2>5. taken' = [i \in 1 .. PrefixLen - Used' |-> span.b + PrefixLen - i]
    BY <1>1, <1>2, <2>4, ViewType
  <2>6. TakeTypeOK'
    BY <1>1, <1>2, <2>3, BoundsType DEF TakeTypeOK
  <2> QED
    BY <1>1, <1>2, <2>1, <2>3, <2>4, <2>5, <2>6, ViewType, ViewKept
    DEF TakeInv, LoopInv, ForwardInv, BoundInv, ReverseInv, ReadsPrefix,
        ReadsPrefixReversed, WalkReturned
<1> QED
  BY <1>4, <1>5

LEMMA ReverseInvStep ==
  ASSUME TakeInv, TakeReverse
  PROVE  TakeInv'
<1>1. /\ TakeTypeOK
      /\ limit = BeginOfTake
      /\ taker.cur # span.b
      /\ TakeCount(n) # 1
      /\ Used \in 0 .. PrefixLen
      /\ taker.cur = span.b + Used
  BY DEF TakeInv, ReverseInv, TakeReverse, Same, BeginOfTake
<1>9. taken = [i \in 1 .. PrefixLen - Used |-> span.b + PrefixLen - i]
  BY <1>1 DEF TakeInv, ReverseInv, TakeReverse
<1>2. UNCHANGED <<span, n, walk, doing, limit>> /\ taker' = Decr(taker) /\ taken' = Append(taken, taker.cur - 1)
  BY DEF TakeReverse, Decr
<1>3. taker.cur \in Int /\ taker.left \in Int /\ Used > 0 /\ taker.left = Used - TakeCount(n)
  BY <1>1, ViewType, CursorType
<1>4. taker'.cur = taker.cur - 1 /\ taker'.left = taker.left - 1 /\ taker' \in Iterators /\ taker.cur - 1 \in Points
  <2>1. taker.cur - 1 \in Points /\ taker.left - 1 \in PtrMin .. PtrMax
    <3>1. taker.cur - 1 \in Points
      BY <1>1, <1>3, ViewType DEF Points
    <3>2. taker.left - 1 \in PtrMin .. PtrMax
      BY <1>1, <1>3, ViewType, CursorType DEF PtrMin
    <3> QED
      BY <3>1, <3>2
  <2> QED
    BY <1>2, <2>1 DEF Decr, Iterators
<1>5. Used' = Used - 1
  <2>1. TakeCount(n)' = TakeCount(n) /\ TakeCount(n) \in Int
    BY <1>1, <1>2, ViewType, ViewKept
  <2>2. Used = TakeCount(n) + taker.left /\ Used' = TakeCount(n)' + taker'.left
    BY DEF Used
  <2> QED
    BY <1>3, <1>4, <2>1, <2>2
<1>6. taken' = [i \in 1 .. PrefixLen - Used' |-> span.b + PrefixLen - i]
  <2>1. PrefixLen - Used \in Nat /\ span.b \in Int /\ PrefixLen \in Int
    BY <1>1, ViewType
  <2>2. taker.cur - 1 = span.b + PrefixLen - (PrefixLen - Used) - 1
    BY <1>1, ViewType
  <2>3. PrefixLen - Used' = PrefixLen - Used + 1
    BY <1>1, <1>5, ViewType
  <2> QED
    BY <1>2, <1>9, <2>1, <2>2, <2>3, AppendDown
<1>7. TakeTypeOK'
  BY <1>1, <1>2, <1>4 DEF TakeTypeOK
<1>8. ReverseInv'
  <2>1. Used' \in 0 .. PrefixLen /\ taker'.cur = span.b + Used'
    BY <1>1, <1>3, <1>4, <1>5, ViewType
  <2> QED
    BY <1>1, <1>2, <1>6, <2>1, ViewKept DEF ReverseInv
<1> QED
  BY <1>2, <1>7, <1>8
  DEF TakeReverse, TakeInv, LoopInv, ForwardInv, BoundInv, ReverseInv, ReadsPrefix,
      ReadsPrefixReversed, WalkReturned

LEMMA FinishInvStep ==
  ASSUME TakeInv, FinishWalk
  PROVE  TakeInv'
<1>1. TakeTypeOK /\ UNCHANGED <<span, n, walk, taker, limit, taken>> /\ doing = "loop" /\ doing' = "ready"
  BY DEF TakeInv, FinishWalk
<1>2. CASE walk = "forward"
  <2>1. Walked /\ limit = EndOfTake /\ taken = [i \in 1 .. Used |-> span.b + i - 1]
    BY <1>1, <1>2 DEF TakeInv, ForwardInv
  <2>2. taker.cur = span.e \/ taker.left = 0
    BY <2>1 DEF FinishWalk, Same, EndOfTake
  <2>3. Used = PrefixLen
    BY <1>1, <2>1, <2>2, WalkedAll
  <2>4. taken' = Prefix'
    BY <1>1, <2>1, <2>3, ViewKept DEF Prefix
  <2> QED
    BY <1>1, <1>2, <2>4, ViewKept
    DEF TakeInv, TakeTypeOK, LoopInv, ForwardInv, BoundInv, ReverseInv, ReadsPrefix,
        ReadsPrefixReversed, WalkReturned
<1>3. CASE walk = "reverse"
  <2>1. ASSUME Magnitude # 1 PROVE taken = PrefixReversed
    <3>1. /\ limit = BeginOfTake
          /\ Used \in 0 .. PrefixLen
          /\ taker.cur = span.b + Used
          /\ taken = [i \in 1 .. PrefixLen - Used |-> span.b + PrefixLen - i]
      BY <1>1, <1>3, <2>1, ViewType DEF TakeInv, ReverseInv
    <3>2. Used = 0
      <4>1. taker.cur = span.b \/ taker.left = -TakeCount(n)
        BY <3>1 DEF FinishWalk, Same, BeginOfTake
      <4>2. taker.left = Used - TakeCount(n) /\ Used \in Int /\ span.b \in Int
        BY <1>1, ViewType, CursorType
      <4> QED
        BY <1>1, <3>1, <4>1, <4>2, ViewType
    <3> QED
      BY <1>1, <3>1, <3>2, ViewType DEF PrefixReversed
  <2> QED
    BY <1>1, <1>3, <2>1, ViewKept
    DEF TakeInv, TakeTypeOK, LoopInv, ForwardInv, BoundInv, ReverseInv, ReadsPrefix,
        ReadsPrefixReversed, WalkReturned
<1> QED
  BY <1>1, <1>2, <1>3 DEF TakeInv, LoopInv

LEMMA LastInvStep ==
  ASSUME TakeInv, TakeLast
  PROVE  TakeInv'
<1>1. TakeTypeOK /\ UNCHANGED <<span, n, doing, taker, limit>> /\ walk' = "last" /\ doing = "ready"
  BY DEF TakeInv, TakeLast
<1>2. taken' \in Seq(Points)
  <2>1. CASE Same(BeginOfTake, EndOfTake)
    BY <2>1 DEF TakeLast
  <2>2. CASE ~Same(BeginOfTake, EndOfTake)
    <3>1. Decr(EndOfTake).cur \in Points
      BY <1>1, <2>2, ViewType DEF Same, BeginOfTake, EndOfTake, Decr, Points
    <3> QED
      BY <2>2, <3>1 DEF TakeLast
  <2> QED
    BY <2>1, <2>2
<1>3. TakeTypeOK'
  BY <1>1, <1>2 DEF TakeTypeOK
<1> QED
  BY <1>1, <1>3
  DEF TakeInv, LoopInv, ForwardInv, BoundInv, ReverseInv, ReadsPrefix,
      ReadsPrefixReversed, WalkReturned
-----------------------------------------------------------------------------
LEMMA NextIInv == TakeInv /\ [TakeNext]_takeVars => TakeInv'
<1> SUFFICES ASSUME TakeInv, [TakeNext]_takeVars PROVE TakeInv'
  OBVIOUS
<1>1. CASE WalkStep
  BY <1>1, ForwardInvStep, ReverseInvStep, FinishInvStep, ScanInvStep, ScanDoneInvStep DEF WalkStep
<1>2. CASE TakeLast
  BY <1>2, LastInvStep
<1>3. ASSUME NEW p \in {"forward", "reverse"}, StartWalk(p) PROVE TakeInv'
  BY <1>3, StartInv
<1>4. CASE UNCHANGED takeVars
  BY <1>4, ViewKept
  DEF takeVars, TakeInv, TakeTypeOK, LoopInv, ForwardInv, BoundInv, ReverseInv, Walked, Used,
      ReadsPrefix, ReadsPrefixReversed, WalkReturned
<1> QED
  BY <1>1, <1>2, <1>3, <1>4 DEF TakeNext

\* The inductive invariant holds in every reachable state.
THEOREM Invariance == TakeSpec => []TakeInv
<1> QED
  BY InitIInv, NextIInv, PTL DEF TakeSpec

\* No step of the loops, and no bump of the reversed bounds, takes the base out of the
\* storage or the budget out of ptrdiff_t.
THEOREM TypeCorrect == TakeSpec => []TakeTypeOK
<1>1. TakeInv => TakeTypeOK
  BY DEF TakeInv
<1> QED
  BY <1>1, Invariance, PTL

\* The loop over take(n) reads the first |n| elements, or all if there are fewer,
\* in order: the two-halved equality of take_n_iterator stops it in time.
THEOREM ForwardCorrect == TakeSpec => []ReadsPrefix
<1>1. TakeInv => ReadsPrefix
  BY DEF TakeInv
<1> QED
  BY <1>1, Invariance, PTL

\* The loop over take(n).reverse() reads the same elements backwards, if |n| is not one.
THEOREM ReverseCorrect == TakeSpec => []ReadsPrefixReversed
<1>1. TakeInv => ReadsPrefixReversed
  BY DEF TakeInv
<1> QED
  BY <1>1, Invariance, PTL

\* A forward loop moves the base no further than to the last element taken.
THEOREM BaseStays == TakeSpec => []BaseOnTaken
<1>1. TakeInv => BaseOnTaken
  <2> SUFFICES ASSUME TakeInv, doing = "scan" \/ (doing = "loop" /\ walk = "forward"), taker.cur # span.b
               PROVE  taker.cur < span.b + Magnitude
    BY DEF BaseOnTaken
  <2>1. TakeTypeOK /\ Walked
    BY DEF TakeInv, BoundInv, ForwardInv
  <2> QED
    BY <2>1, ViewType, CursorType DEF Walked
<1> QED
  BY <1>1, Invariance, PTL
=============================================================================
