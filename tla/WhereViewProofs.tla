-------------------------- MODULE WhereViewProofs ---------------------------
(***************************************************************************)
(* For storage of any length, any ranges, any predicate, and any number of *)
(* views and iterators: where_iterator stands on matches only, the cached  *)
(* first match is the first match, no loop passes over a match, and all    *)
(* that is seen is a multi-pass sequence of the matches.  For any stored   *)
(* values and any changes of them between passes: each pass reads the      *)
(* matches as they are then, and only its first element can be stale.      *)
(***************************************************************************)
EXTENDS WherePass, SortedProofs, TLAPS

USE LengthAssumption, RangesAssumption, NoCursorAssumption

\* What a range is made of.
LEMMA RangeType ==
  ASSUME NEW r \in Ranges
  PROVE  /\ r \in [b : Pos, e : Pos]
         /\ r.b \in Pos
         /\ r.e \in Pos
         /\ r.b \in Int
         /\ r.e \in Int
         /\ 1 <= r.b
         /\ r.b <= r.e
         /\ r.e <= N + 1
<1>1. r \in {x \in [b : Pos, e : Pos] : x.b <= x.e}
  OBVIOUS
<1> QED
  BY <1>1 DEF Pos

\* The states of one iterator.
LEMMA IterType ==
  ASSUME TypeOK, NEW c \in Cursors
  PROVE  /\ it[c] \in [cur : Pos, rng : Ranges]
         /\ it[c].cur \in Pos
         /\ it[c].cur \in Int
         /\ it[c].rng \in Ranges
         /\ op[c] \in Ops
         /\ from[c] \in {0} \cup Pos
         /\ from[c] \in Int
BY DEF TypeOK, Pos

\* Neighbouring positions have no match between them, ...
LEMMA AdjacentGap ==
  ASSUME TypeOK, NEW x \in Int
  PROVE  NoHitBetween(x, x + 1) /\ NoHitBetween(x - 1, x)
<1>1. \A h \in hits : h \in Int
  BY DEF TypeOK
<1> QED
  BY <1>1 DEF NoHitBetween

\* ... and a gap without matches grows by the position a loop rejects.
LEMMA GapGrows ==
  ASSUME TypeOK, NEW x \in Int, NEW y \in Int, NoHitBetween(x, y)
  PROVE  /\ y \notin hits => NoHitBetween(x, y + 1)
         /\ x \notin hits => NoHitBetween(x - 1, y)
<1>1. \A h \in hits : h \in Int /\ ~(x < h /\ h < y)
  BY DEF TypeOK, NoHitBetween
<1>2. ASSUME y \notin hits, NEW h \in hits, x < h, h < y + 1 PROVE FALSE
  <2>1. h \in Int /\ h # y /\ ~(h < y)
    BY <1>1, <1>2
  <2> QED
    BY <1>2, <2>1
<1>3. ASSUME x \notin hits, NEW h \in hits, x - 1 < h, h < y PROVE FALSE
  <2>1. h \in Int /\ h # x /\ ~(x < h)
    BY <1>1, <1>3
  <2> QED
    BY <1>3, <2>1
<1> QED
  BY <1>2, <1>3 DEF NoHitBetween

-----------------------------------------------------------------------------
LEMMA InitIInv == Init => IInv
<1> SUFFICES ASSUME Init PROVE IInv
  OBVIOUS
<1>1. TypeOK
  <2>1. PICK r \in Ranges : it = [c \in Cursors |-> [cur |-> r.b, rng |-> r]]
    BY DEF Init
  <2>2. it \in [Cursors -> [cur : Pos, rng : Ranges]]
    BY <2>1, RangeType
  <2> QED
    BY <2>2 DEF Init, TypeOK, Ops, Unset
<1>2. OnMatch
  BY DEF Init, OnMatch
<1>3. CacheIsFirst
  BY DEF Init, CacheIsFirst
<1>4. NoMatchPassed
  <2>1. PICK r \in Ranges : it = [c \in Cursors |-> [cur |-> r.b, rng |-> r]]
    BY DEF Init
  <2> QED
    BY <2>1, RangeType DEF Init, NoMatchPassed, Progress
<1>5. ScanInv
  BY DEF Init, ScanInv
<1> QED
  BY <1>1, <1>2, <1>3, <1>4, <1>5 DEF IInv
-----------------------------------------------------------------------------
(* A step of iterator c: only c moves, by one of three building blocks.    *)

CursorOK(c) ==
  /\ op[c] = "idle" => it[c].cur \in Shown(hits, it[c].rng) \cup {it[c].rng.e}
  /\ Progress(c)

\* The other iterators are left alone.
OthersKept(c) ==
  \A d \in Cursors \ {c} : it'[d] = it[d] /\ op'[d] = op[d] /\ from'[d] = from[d]

LEMMA SettleStep ==
  ASSUME TypeOK, NEW c \in Cursors, NEW x \in Pos, NEW r \in Ranges, Settle(c, x, r)
  PROVE  /\ it' \in [Cursors -> [cur : Pos, rng : Ranges]]
         /\ op' \in [Cursors -> Ops]
         /\ from' \in [Cursors -> {0} \cup Pos]
         /\ it'[c].cur = x
         /\ it'[c].rng = r
         /\ op'[c] = "idle"
         /\ OthersKept(c)
BY DEF TypeOK, Settle, OthersKept, Ops

LEMMA EnterStep ==
  ASSUME TypeOK, NEW c \in Cursors, NEW o \in Ops, NEW x \in Pos, NEW r \in Ranges,
         NEW f \in {0} \cup Pos, Enter(c, o, x, r, f)
  PROVE  /\ it' \in [Cursors -> [cur : Pos, rng : Ranges]]
         /\ op' \in [Cursors -> Ops]
         /\ from' \in [Cursors -> {0} \cup Pos]
         /\ it'[c].cur = x
         /\ it'[c].rng = r
         /\ op'[c] = o
         /\ from'[c] = f
         /\ OthersKept(c)
BY DEF TypeOK, Enter, OthersKept

LEMMA MoveStep ==
  ASSUME TypeOK, NEW c \in Cursors, NEW x \in Pos, Move(c, x)
  PROVE  /\ it' \in [Cursors -> [cur : Pos, rng : Ranges]]
         /\ op' = op
         /\ from' = from
         /\ it'[c].cur = x
         /\ it'[c].rng = it[c].rng
         /\ OthersKept(c)
BY DEF TypeOK, Move, OthersKept

\* If c is well placed after such a step, all iterators are.
LEMMA CursorStep ==
  ASSUME IInv, NEW c \in Cursors, OthersKept(c), hits' = hits, CursorOK(c)'
  PROVE  OnMatch' /\ NoMatchPassed'
<1> SUFFICES ASSUME NEW d \in Cursors PROVE CursorOK(d)'
  BY DEF CursorOK, OnMatch, NoMatchPassed
<1>1. CASE d = c
  BY <1>1
<1>2. CASE d # c
  <2>1. CursorOK(d)
    BY DEF IInv, OnMatch, NoMatchPassed, CursorOK
  <2> QED
    BY <1>2, <2>1 DEF CursorOK, OthersKept, Progress, NoHitBetween
<1> QED
  BY <1>1, <1>2

\* The caches stay right while neither they nor the elements change.
LEMMA CacheKept ==
  ASSUME CacheIsFirst, UNCHANGED <<hits, view>>
  PROVE  CacheIsFirst'
BY DEF CacheIsFirst

\* A step of an iterator outside find_if leaves the scans alone.
LEMMA ScanKept ==
  ASSUME IInv, NEW c \in Cursors, OthersKept(c), UNCHANGED <<view, scanning>>,
         op[c] # "find", op'[c] # "find"
  PROVE  ScanInv'
<1>1. \A v \in Views : scanning[v] # NoCursor => scanning[v] \in Cursors \ {c}
  BY DEF IInv, ScanInv, TypeOK
<1> QED
  BY <1>1 DEF IInv, ScanInv, OthersKept
-----------------------------------------------------------------------------
(* One lemma per group of actions: they preserve the invariant.            *)

LEMMA BeginInv ==
  ASSUME IInv, NEW c \in Cursors, NEW v \in Views,
         BeginCached(c, v) \/ BeginScan(c, v) \/ End(c, v)
  PROVE  IInv'
<1> DEFINE r == view[v].rng
<1>1. /\ TypeOK
      /\ r \in Ranges
      /\ view[v].first \in {Unset} \cup Pos
      /\ op[c] # "find"
  BY DEF IInv, TypeOK, BeginCached, BeginScan, End, Free, Standing
<1>2. CASE BeginCached(c, v)
  <2>1. view[v].first \in Pos /\ Settle(c, view[v].first, r)
    BY <1>1, <1>2 DEF BeginCached
  <2>2. /\ TypeOK'
        /\ OthersKept(c)
        /\ it'[c].cur = view[v].first
        /\ it'[c].rng = r
        /\ op'[c] = "idle"
    BY <1>1, <1>2, <2>1, SettleStep DEF BeginCached, TypeOK
  <2>3. IsFirstFrom(r.b, view[v].first, hits, r)
    BY <1>2 DEF BeginCached, IInv, CacheIsFirst
  <2>4. CursorOK(c)'
    BY <1>1, <1>2, <2>2, <2>3, RangeType
    DEF CursorOK, Progress, IsFirstFrom, Shown, BeginCached, Pos
  <2> QED
    BY <1>1, <1>2, <2>2, <2>4, CursorStep, CacheKept, ScanKept DEF BeginCached, IInv
<1>3. CASE BeginScan(c, v)
  <2>1. r.b \in Pos /\ Enter(c, "find", r.b, r, 0)
    BY <1>1, <1>3, RangeType DEF BeginScan
  <2>2. /\ OthersKept(c)
        /\ it'[c].cur = r.b
        /\ it'[c].rng = r
        /\ op'[c] = "find"
        /\ TypeOK'
    BY <1>1, <1>3, <2>1, EnterStep DEF BeginScan, TypeOK, Ops
  <2>3. CursorOK(c)'
    <3>1. r.b \in Int /\ r.b <= r.e /\ hits' = hits /\ hits \subseteq Int
      BY <1>1, <1>3, RangeType DEF BeginScan, TypeOK
    <3>2. NoHitBetween(r.b - 1, r.b)
      BY <1>1, <3>1, AdjacentGap
    <3> QED
      BY <2>2, <3>1, <3>2 DEF CursorOK, Progress, NoHitBetween
  <2>4. ScanInv'
    <3>1. scanning' = [scanning EXCEPT ![v] = c] /\ view' = view /\ scanning[v] = NoCursor
      BY <1>3 DEF BeginScan
    <3>2. \A w \in Views : scanning[w] # NoCursor => scanning[w] \in Cursors \ {c}
      BY <1>1 DEF IInv, ScanInv, TypeOK
    <3> QED
      BY <1>1, <2>2, <3>1, <3>2 DEF IInv, ScanInv, OthersKept, TypeOK
  <2> QED
    BY <1>3, <2>2, <2>3, <2>4, CursorStep, CacheKept DEF BeginScan, IInv
<1>4. CASE End(c, v)
  <2>1. r.e \in Pos /\ Settle(c, r.e, r)
    BY <1>1, <1>4, RangeType DEF End
  <2>2. /\ TypeOK'
        /\ OthersKept(c)
        /\ it'[c].cur = r.e
        /\ it'[c].rng = r
        /\ op'[c] = "idle"
    BY <1>1, <1>4, <2>1, SettleStep DEF End, TypeOK
  <2>3. CursorOK(c)'
    BY <1>1, <2>2, RangeType DEF CursorOK, Progress
  <2> QED
    BY <1>1, <1>4, <2>2, <2>3, CursorStep, CacheKept, ScanKept DEF End, IInv
<1> QED
  BY <1>2, <1>3, <1>4

LEMMA FindInv ==
  ASSUME IInv, NEW c \in Cursors, FindAdvance(c) \/ \E v \in Views : FindDone(c, v)
  PROVE  IInv'
<1>1. TypeOK /\ op[c] = "find" /\ Progress(c)
  BY DEF IInv, FindAdvance, FindDone, NoMatchPassed
<1> DEFINE x == it[c].cur
           r == it[c].rng
<1>2. /\ r \in Ranges
      /\ x \in Pos
      /\ x \in Int
      /\ NoHitBetween(r.b - 1, x)
      /\ r.b <= x
      /\ x <= r.e
      /\ hits \subseteq 1 .. N
  BY <1>1, IterType DEF Progress, TypeOK
<1>3. CASE FindAdvance(c)
  <2>1. x < r.e /\ x \notin hits /\ x + 1 \in Pos
    BY <1>2, <1>3, RangeType DEF FindAdvance, Rejects, Pos
  <2>2. /\ TypeOK'
        /\ OthersKept(c)
        /\ op'[c] = "find"
        /\ it'[c].cur = x + 1
        /\ it'[c].rng = r
    BY <1>1, <1>3, <2>1, MoveStep DEF FindAdvance, TypeOK
  <2>3. NoHitBetween(r.b - 1, x + 1)
    <3>1. r.b - 1 \in Int
      BY <1>2, RangeType
    <3> QED
      BY <1>1, <1>2, <2>1, <3>1, GapGrows
  <2>4. CursorOK(c)'
    BY <1>1, <1>2, <1>3, <2>1, <2>2, <2>3, RangeType
    DEF CursorOK, Progress, NoHitBetween, FindAdvance
  <2>5. ScanInv'
    <3>1. UNCHANGED <<view, scanning, op>>
      BY <1>3 DEF FindAdvance, Move
    <3>2. \A d \in Cursors : it'[d].rng = it[d].rng
      BY <2>2 DEF OthersKept
    <3> QED
      BY <1>1, <3>1, <3>2 DEF IInv, ScanInv, TypeOK
  <2> QED
    BY <1>3, <2>2, <2>4, <2>5, CursorStep, CacheKept DEF FindAdvance, IInv
<1>4. ASSUME NEW v \in Views, FindDone(c, v) PROVE IInv'
  <2>1. x = r.e \/ (x \in hits /\ x < r.e)
    BY <1>2, <1>4, RangeType DEF FindDone, Rejects
  <2>2. /\ OthersKept(c)
        /\ op'[c] = "idle"
        /\ it'[c].cur = x
        /\ it'[c].rng = r
        /\ TypeOK'
    <3>1. view' \in [Views -> [rng : Ranges, first : {Unset} \cup Pos]]
      BY <1>1, <1>2, <1>4 DEF FindDone, TypeOK
    <3>2. scanning' \in [Views -> Cursors \cup {NoCursor}]
      BY <1>1, <1>4 DEF FindDone, TypeOK
    <3> QED
      BY <1>1, <1>2, <1>4, <3>1, <3>2, SettleStep DEF FindDone, TypeOK
  <2>3. CursorOK(c)'
    BY <1>2, <1>4, <2>1, <2>2, RangeType DEF CursorOK, Progress, Shown, FindDone
  <2>4. /\ view[v].rng = r
        /\ view'[v].rng = r
        /\ view'[v].first = x
        /\ \A w \in Views : w # v => view'[w] = view[w]
        /\ \A w \in Views : view'[w].rng = view[w].rng
    BY <1>1, <1>4 DEF FindDone, IInv, ScanInv, TypeOK
  <2>5. CacheIsFirst'
    <3>1. r.b \in Int /\ r.e \in Int /\ r.b <= x
      BY <1>2, RangeType
    <3>2. ASSUME NEW z \in hits, r.b <= z PROVE x <= z
      <4>1. z \in Int /\ x \in Int /\ r.b - 1 < z
        BY <1>2, <3>1, <3>2
      <4>2. ~(r.b - 1 < z /\ z < x)
        BY <1>2 DEF NoHitBetween
      <4> QED
        BY <4>1, <4>2
    <3>3. x \in Shown(hits, r) \cup {r.e}
      BY <2>1, <3>1 DEF Shown
    <3>4. IsFirstFrom(r.b, x, hits, r)
      BY <3>1, <3>2, <3>3 DEF IsFirstFrom, Shown
    <3> QED
      BY <1>4, <2>4, <3>4 DEF IInv, CacheIsFirst, FindDone
  <2>6. ScanInv'
    <3>1. scanning' = [scanning EXCEPT ![v] = NoCursor] /\ scanning[v] = c
      BY <1>4 DEF FindDone
    <3>2. \A w \in Views : w # v /\ scanning[w] # NoCursor => scanning[w] \in Cursors \ {c}
      BY <1>1, <3>1 DEF IInv, ScanInv, TypeOK
    <3>3. \A w \in Views : scanning'[w] # NoCursor =>
            scanning'[w] = scanning[w] /\ w # v /\ scanning[w] \in Cursors \ {c}
      BY <1>1, <3>1, <3>2 DEF TypeOK
    <3>4. \A d \in Cursors : op'[d] = "find" => d # c /\ op[d] = "find"
      BY <2>2 DEF OthersKept
    <3>5. \A d \in Cursors : op'[d] = "find" => \E w \in Views : scanning'[w] = d
      BY <1>1, <3>1, <3>4 DEF IInv, ScanInv, TypeOK
    <3>6. \A w \in Views : scanning'[w] # NoCursor =>
            op'[scanning'[w]] = "find" /\ it'[scanning'[w]].rng = view'[w].rng
      BY <2>2, <2>4, <3>3 DEF IInv, ScanInv, OthersKept
    <3> QED
      BY <3>3, <3>5, <3>6 DEF IInv, ScanInv
  <2> QED
    BY <1>4, <2>2, <2>3, <2>5, <2>6, CursorStep DEF FindDone, IInv
<1> QED
  BY <1>3, <1>4

LEMMA IncInv ==
  ASSUME IInv, NEW c \in Cursors, Inc(c) \/ IncAdvance(c) \/ IncDone(c)
  PROVE  IInv'
<1> DEFINE x == it[c].cur
           r == it[c].rng
<1>1. TypeOK /\ Progress(c) /\ UNCHANGED <<hits, view, scanning>> /\ op[c] # "find"
  BY DEF IInv, Inc, IncAdvance, IncDone, NoMatchPassed, Standing
<1>2. /\ r \in Ranges
      /\ r.b \in Int
      /\ r.e \in Int
      /\ x \in Pos
      /\ x \in Int
      /\ from[c] \in Int
      /\ from[c] \in {0} \cup Pos
      /\ r.b <= x
      /\ x <= r.e
      /\ hits \subseteq 1 .. N
      /\ r.e <= N + 1
  BY <1>1, IterType, RangeType DEF Progress, TypeOK
<1>3. CASE Inc(c)
  <2>1. x + 1 \in Pos /\ x < r.e /\ Enter(c, "inc", x + 1, r, x)
    BY <1>2, <1>3 DEF Inc, Pos
  <2>2. /\ TypeOK'
        /\ OthersKept(c)
        /\ op'[c] = "inc"
        /\ it'[c].cur = x + 1
        /\ it'[c].rng = r
        /\ from'[c] = x
    BY <1>1, <1>2, <2>1, EnterStep DEF TypeOK, Ops
  <2>3. NoHitBetween(x, x + 1)
    BY <1>1, <1>2, AdjacentGap
  <2>4. CursorOK(c)'
    BY <1>1, <1>2, <2>1, <2>2, <2>3 DEF CursorOK, Progress, NoHitBetween
  <2> QED
    BY <1>1, <2>2, <2>4, CursorStep, CacheKept, ScanKept DEF IInv
<1>4. CASE IncAdvance(c)
  <2>1. /\ op[c] = "inc"
        /\ x < r.e
        /\ x \notin hits
        /\ x + 1 \in Pos
        /\ NoHitBetween(from[c], x)
        /\ r.b <= from[c]
        /\ from[c] < x
    BY <1>1, <1>2, <1>4 DEF IncAdvance, Rejects, Pos, Progress
  <2>2. /\ TypeOK'
        /\ OthersKept(c)
        /\ op'[c] = "inc"
        /\ it'[c].cur = x + 1
        /\ it'[c].rng = r
        /\ from'[c] = from[c]
    BY <1>1, <1>4, <2>1, MoveStep DEF IncAdvance, TypeOK
  <2>3. NoHitBetween(from[c], x + 1)
    BY <1>1, <1>2, <2>1, GapGrows
  <2>4. CursorOK(c)'
    BY <1>1, <1>2, <2>1, <2>2, <2>3 DEF CursorOK, Progress, NoHitBetween
  <2> QED
    BY <1>1, <2>2, <2>4, CursorStep, CacheKept, ScanKept DEF IInv
<1>5. CASE IncDone(c)
  <2>1. x = r.e \/ (x \in hits /\ x < r.e)
    BY <1>2, <1>5 DEF IncDone, Rejects
  <2>2. /\ TypeOK'
        /\ OthersKept(c)
        /\ op'[c] = "idle"
        /\ it'[c].cur = x
        /\ it'[c].rng = r
    BY <1>1, <1>2, <1>5, SettleStep DEF IncDone, TypeOK
  <2>3. CursorOK(c)'
    BY <1>1, <1>2, <2>1, <2>2 DEF CursorOK, Progress, Shown
  <2> QED
    BY <1>1, <2>2, <2>3, CursorStep, CacheKept, ScanKept DEF IInv
<1> QED
  BY <1>3, <1>4, <1>5

LEMMA DecInv ==
  ASSUME IInv, NEW c \in Cursors,
         Dec(c) \/ DecAtBounds(c) \/ DecRetreat(c) \/ DecDone(c)
  PROVE  IInv'
<1> DEFINE x == it[c].cur
           r == it[c].rng
<1>1. TypeOK /\ Progress(c) /\ UNCHANGED <<hits, view, scanning>> /\ op[c] # "find"
  BY DEF IInv, Dec, DecAtBounds, DecRetreat, DecDone, NoMatchPassed, Standing
<1>2. /\ r \in Ranges
      /\ r.b \in Int
      /\ r.e \in Int
      /\ r.e \in Pos
      /\ 1 <= r.b
      /\ x \in Pos
      /\ x \in Int
      /\ from[c] \in Int
      /\ from[c] \in {0} \cup Pos
      /\ r.b <= x
      /\ x <= r.e
      /\ hits \subseteq 1 .. N
  BY <1>1, IterType, RangeType DEF Progress, TypeOK
<1>3. CASE Dec(c)
  <2>1. x - 1 \in Pos /\ r.b < x /\ Enter(c, "dec", x - 1, r, x)
    BY <1>2, <1>3 DEF Dec, Pos
  <2>2. /\ TypeOK'
        /\ OthersKept(c)
        /\ op'[c] = "dec"
        /\ it'[c].cur = x - 1
        /\ it'[c].rng = r
        /\ from'[c] = x
    BY <1>1, <1>2, <2>1, EnterStep DEF TypeOK, Ops
  <2>3. NoHitBetween(x - 1, x)
    BY <1>1, <1>2, AdjacentGap
  <2>4. CursorOK(c)'
    BY <1>1, <1>2, <2>1, <2>2, <2>3 DEF CursorOK, Progress, NoHitBetween
  <2> QED
    BY <1>1, <2>2, <2>4, CursorStep, CacheKept, ScanKept DEF IInv
<1>4. CASE DecAtBounds(c)
  <2>1. /\ TypeOK'
        /\ OthersKept(c)
        /\ op'[c] = "idle"
        /\ it'[c].cur = r.e
        /\ it'[c].rng = r
    BY <1>1, <1>2, <1>4, SettleStep DEF DecAtBounds, TypeOK
  <2>2. CursorOK(c)'
    BY <1>1, <1>2, <2>1 DEF CursorOK, Progress
  <2> QED
    BY <1>1, <2>1, <2>2, CursorStep, CacheKept, ScanKept DEF IInv
<1>5. CASE DecRetreat(c)
  <2>1. /\ op[c] = "dec"
        /\ r.b < x
        /\ x \notin hits
        /\ x - 1 \in Pos
        /\ NoHitBetween(x, from[c])
        /\ x < from[c]
        /\ from[c] <= r.e
    BY <1>1, <1>2, <1>5 DEF DecRetreat, Pos, Progress
  <2>2. /\ TypeOK'
        /\ OthersKept(c)
        /\ op'[c] = "dec"
        /\ it'[c].cur = x - 1
        /\ it'[c].rng = r
        /\ from'[c] = from[c]
    BY <1>1, <1>5, <2>1, MoveStep DEF DecRetreat, TypeOK
  <2>3. NoHitBetween(x - 1, from[c])
    BY <1>1, <1>2, <2>1, GapGrows
  <2>4. CursorOK(c)'
    BY <1>1, <1>2, <2>1, <2>2, <2>3 DEF CursorOK, Progress, NoHitBetween
  <2> QED
    BY <1>1, <2>2, <2>4, CursorStep, CacheKept, ScanKept DEF IInv
<1>6. CASE DecDone(c)
  <2> DEFINE y == IF x \in hits THEN x ELSE r.e
  <2>1. /\ op[c] = "dec"
        /\ x < from[c]
        /\ from[c] <= r.e
        /\ y \in Pos
        /\ Settle(c, y, r)
    BY <1>1, <1>2, <1>6 DEF DecDone, Progress
  <2>2. /\ TypeOK'
        /\ OthersKept(c)
        /\ op'[c] = "idle"
        /\ it'[c].cur = y
        /\ it'[c].rng = r
    BY <1>1, <1>2, <2>1, SettleStep DEF TypeOK
  <2>3. CursorOK(c)'
    BY <1>1, <1>2, <2>1, <2>2 DEF CursorOK, Progress, Shown
  <2> QED
    BY <1>1, <2>2, <2>3, CursorStep, CacheKept, ScanKept DEF IInv
<1> QED
  BY <1>3, <1>4, <1>5, <1>6

LEMMA AssignInv ==
  ASSUME IInv, NEW c \in Cursors, NEW d \in Cursors, Assign(c, d)
  PROVE  IInv'
<1>1. /\ TypeOK
      /\ UNCHANGED <<hits, view, scanning>>
      /\ op[c] # "find"
      /\ CursorOK(d)
      /\ op[d] \in {"idle", "thrown"}
      /\ op[d] \in Ops
      /\ it[d].cur \in Pos
      /\ it[d].rng \in Ranges
      /\ Enter(c, op[d], it[d].cur, it[d].rng, 0)
  BY IterType DEF IInv, Assign, Free, Standing, NoMatchPassed, OnMatch, CursorOK
<1>2. /\ TypeOK'
      /\ OthersKept(c)
      /\ op'[c] = op[d]
      /\ it'[c].cur = it[d].cur
      /\ it'[c].rng = it[d].rng
  BY <1>1, EnterStep DEF TypeOK
<1>3. CursorOK(c)'
  BY <1>1, <1>2 DEF CursorOK, Progress
<1> QED
  BY <1>1, <1>2, <1>3, CursorStep, CacheKept, ScanKept DEF IInv

\* A throw leaves the loop within its bounds, and the cache as it was.
LEMMA ThrowInv ==
  ASSUME IInv, NEW c \in Cursors, Throw(c)
  PROVE  IInv'
<1>1. TypeOK /\ Progress(c) /\ UNCHANGED <<hits, view, it>>
  BY DEF IInv, NoMatchPassed, Throw
<1>2. /\ OthersKept(c)
      /\ op'[c] \in {"none", "thrown"}
      /\ op' \in [Cursors -> Ops]
      /\ from' \in [Cursors -> {0} \cup Pos]
  BY <1>1 DEF Throw, OthersKept, TypeOK, Ops
<1>3. scanning' \in [Views -> Cursors \cup {NoCursor}]
  BY <1>1 DEF Throw, TypeOK
<1>4. TypeOK'
  BY <1>1, <1>2, <1>3 DEF TypeOK
<1>5. CursorOK(c)'
  BY <1>1, <1>2 DEF CursorOK, Progress
<1>6. ScanInv'
  <2>1. \A v \in Views : scanning'[v] # NoCursor =>
          scanning'[v] = scanning[v] /\ scanning[v] \in Cursors \ {c}
    BY <1>1 DEF Throw, TypeOK
  <2>2. \A d \in Cursors : op'[d] = "find" => d # c /\ op[d] = "find"
    BY <1>2 DEF OthersKept
  <2>3. ASSUME NEW d \in Cursors, op'[d] = "find" PROVE \E v \in Views : scanning'[v] = d
    <3>1. d # c /\ op[d] = "find"
      BY <2>2, <2>3
    <3>2. PICK v \in Views : scanning[v] = d
      BY <3>1 DEF IInv, ScanInv
    <3>3. scanning'[v] = d
      BY <3>1, <3>2 DEF Throw
    <3> QED
      BY <3>3
  <2>4. \A v \in Views : scanning'[v] # NoCursor =>
          op'[scanning'[v]] = "find" /\ it'[scanning'[v]].rng = view'[v].rng
    BY <1>1, <1>2, <2>1 DEF IInv, ScanInv, OthersKept
  <2> QED
    BY <2>1, <2>3, <2>4 DEF IInv, ScanInv
<1> QED
  BY <1>1, <1>2, <1>4, <1>5, <1>6, CursorStep, CacheKept DEF IInv

\* Copies, moves and assignments of views: a cache travels with its bounds.
LEMMA ViewsInv ==
  ASSUME IInv, OnViews
  PROVE  IInv'
<1>1. UNCHANGED <<hits, scanning, it, op, from>>
  BY DEF OnViews, Rebuild, CopyView, MoveView
<1>2. OnMatch' /\ NoMatchPassed'
  BY <1>1 DEF IInv, OnMatch, NoMatchPassed, Progress, NoHitBetween
<1>3. view \in [Views -> [rng : Ranges, first : {Unset} \cup Pos]]
  BY DEF IInv, TypeOK
<1>4. /\ view' \in [Views -> [rng : Ranges, first : {Unset} \cup Pos]]
      /\ \A v \in Views : scanning[v] # NoCursor => view'[v].rng = view[v].rng
      /\ \A v \in Views : view'[v].first # Unset =>
           \E w \in Views : view'[v].first = view[w].first /\ view'[v].rng = view[w].rng
  <2>1. CASE \E v \in Views, r \in Ranges : Rebuild(v, r)
    BY <1>3, <2>1 DEF Rebuild, Quiet
  <2>2. CASE \E v, w \in Views : CopyView(v, w)
    BY <1>3, <2>2 DEF CopyView, Quiet
  <2>3. ASSUME NEW v \in Views, NEW w \in Views, MoveView(v, w)
        PROVE  <1>4!1 /\ <1>4!2 /\ <1>4!3
    <3> DEFINE moved == [rng |-> view[w].rng, first |-> Unset]
    <3>1. view' = [view EXCEPT ![v] = view[w], ![w].first = Unset] /\ v # w
      BY <2>3 DEF MoveView
    <3>2. view'[v] = view[w] /\ view'[w] = moved
      BY <1>3, <3>1
    <3>3. \A u \in Views \ {v, w} : view'[u] = view[u]
      BY <1>3, <3>1
    <3>4. view' \in [Views -> [rng : Ranges, first : {Unset} \cup Pos]]
      BY <1>3, <3>1, <3>2, <3>3
    <3> QED
      BY <2>3, <3>2, <3>3, <3>4 DEF MoveView, Quiet
  <2> QED
    BY <2>1, <2>2, <2>3 DEF OnViews
<1>5. TypeOK'
  BY <1>1, <1>4 DEF IInv, TypeOK
<1>6. CacheIsFirst'
  BY <1>1, <1>4 DEF IInv, CacheIsFirst
<1>7. ScanInv'
  BY <1>1, <1>4 DEF IInv, ScanInv
<1> QED
  BY <1>2, <1>5, <1>6, <1>7 DEF IInv

LEMMA NextIInv == IInv /\ [Next]_vars => IInv'
<1> SUFFICES ASSUME IInv, [Next]_vars PROVE IInv'
  OBVIOUS
<1>1. ASSUME NEW c \in Cursors, Loop(c) PROVE IInv'
  BY <1>1, FindInv, IncInv, DecInv DEF Loop
<1>5. ASSUME NEW c \in Cursors, Throw(c) PROVE IInv'
  BY <1>5, ThrowInv
<1>2. ASSUME NEW c \in Cursors, Call(c) PROVE IInv'
  BY <1>2, BeginInv, IncInv, DecInv, AssignInv DEF Call
<1>3. CASE OnViews
  BY <1>3, ViewsInv
<1>4. CASE UNCHANGED vars
  BY <1>4 DEF vars, IInv, TypeOK, OnMatch, CacheIsFirst, NoMatchPassed, Progress,
     NoHitBetween, ScanInv
<1> QED
  BY <1>1, <1>2, <1>3, <1>4, <1>5 DEF Next

\* The inductive invariant holds in every reachable state.
THEOREM Invariance == Spec => []IInv
<1> QED
  BY InitIInv, NextIInv, PTL DEF Spec

\* No operation, finished, under way or thrown out of, takes an iterator or a cached
\* first match out of the storage.
THEOREM TypeCorrect == Spec => []TypeOK
<1>1. IInv => TypeOK
  BY DEF IInv
<1> QED
  BY <1>1, Invariance, PTL

\* A where_iterator whose last step has returned stands on a match of its range or
\* at its end, after any history of begin(), ++, --, copies, assignments and throws.
THEOREM StandsOnMatch == Spec => []OnMatch
<1>1. IInv => OnMatch
  BY DEF IInv
<1> QED
  BY <1>1, Invariance, PTL

\* What lazy_copy_once holds for a where_view is the first match of the bounds
\* that view has, whether the view searched for it, copied it or was moved it.
THEOREM CacheCorrect == Spec => []CacheIsFirst
<1>1. IInv => CacheIsFirst
  BY DEF IInv
<1> QED
  BY <1>1, Invariance, PTL

\* find_if, ++ and -- stay within their bounds and never pass over a match.
THEOREM LoopsPassNoMatch == Spec => []NoMatchPassed
<1>1. IInv => NoMatchPassed
  BY DEF IInv
<1> QED
  BY <1>1, Invariance, PTL

-----------------------------------------------------------------------------
(* Refinement: a loop is seen as the one step to the neighbouring match    *)
(* that it makes when it is over.                                          *)

\* Iterator c is seen at x, walking r, and nothing else has changed.
Placed(c, x, r) ==
  /\ OthersKept(c)
  /\ hits' = hits
  /\ Seen(c)' = x
  /\ it'[c].rng = r

LEMMA PlacedStep ==
  ASSUME NEW c \in Cursors, NEW x, NEW r, Placed(c, x, r)
  PROVE  /\ [d \in Cursors |-> Seen(d)'] = [[d \in Cursors |-> Seen(d)] EXCEPT ![c] = x]
         /\ [d \in Cursors |-> it'[d].rng] = [[d \in Cursors |-> it[d].rng] EXCEPT ![c] = r]
         /\ hits' = hits
<1>1. \A d \in Cursors \ {c} : Seen(d)' = Seen(d) /\ it'[d].rng = it[d].rng
  BY DEF Placed, OthersKept, Seen, Standing
<1>2. Seen(c)' = x /\ it'[c].rng = r /\ hits' = hits
  BY DEF Placed
<1> QED
  BY <1>1, <1>2

\* What is seen of such a step is a step of MultiPass.
LEMMA PlaceStep ==
  ASSUME NEW c \in Cursors, NEW x, NEW r, Placed(c, x, r)
  PROVE  Abs!Place(c, x, r)
<1>1. [d \in Cursors |-> Seen(d)]' = [[d \in Cursors |-> Seen(d)] EXCEPT ![c] = x]
  BY PlacedStep DEF Seen, Standing
<1>2. [d \in Cursors |-> it[d].rng]' = [[d \in Cursors |-> it[d].rng] EXCEPT ![c] = r]
  BY PlacedStep
<1>3. UNCHANGED hits
  BY DEF Placed
<1> QED
  BY <1>1, <1>2, <1>3 DEF Abs!Place

\* A step inside a loop is not seen.
LEMMA HiddenStep ==
  ASSUME NEW c \in Cursors, Placed(c, Seen(c), it[c].rng)
  PROVE  UNCHANGED Abs!absVars
BY DEF Abs!absVars, Seen, Standing, Placed, OthersKept

LEMMA FirstStep ==
  ASSUME NEW c \in Cursors, NEW x \in Pos, NEW r \in Ranges, Placed(c, x, r),
         IsFirstFrom(r.b, x, hits, r)
  PROVE  Abs!AbsNext
<1>1. Abs!Place(c, x, r)
  BY PlaceStep
<1>2. Abs!IsFirstFrom(r.b, x, hits, r)
  BY DEF IsFirstFrom, Shown, Abs!IsFirstFrom, Abs!Shown
<1>3. x \in Abs!Pos
  BY DEF Pos, Abs!Pos
<1>4. Abs!First(c, r)
  BY <1>1, <1>2, <1>3 DEF Abs!First
<1> QED
  BY <1>4 DEF Abs!AbsNext

LEMMA EndOrDropStep ==
  ASSUME NEW c \in Cursors, NEW x \in Int, NEW r \in Ranges, Placed(c, x, r), x \in {0, r.e}
  PROVE  Abs!AbsNext
<1>1. Abs!Place(c, x, r)
  BY PlaceStep
<1>2. Abs!AtEnd(c, r) \/ Abs!Drop(c, r)
  BY <1>1 DEF Abs!AtEnd, Abs!Drop
<1> QED
  BY <1>2 DEF Abs!AbsNext

LEMMA ForwardStep ==
  ASSUME NEW c \in Cursors, NEW x \in Pos, Placed(c, x, it[c].rng),
         Seen(c) # 0, Seen(c) # it[c].rng.e,
         IsFirstFrom(Seen(c) + 1, x, hits, it[c].rng)
  PROVE  Abs!AbsNext
<1>1. Abs!Place(c, x, it[c].rng)
  BY PlacedStep DEF Placed, Seen, Standing, Abs!Place
<1>2. Abs!IsFirstFrom(Seen(c) + 1, x, hits, it[c].rng) /\ x \in Abs!Pos
  BY DEF IsFirstFrom, Shown, Pos, Abs!IsFirstFrom, Abs!Shown, Abs!Pos
<1>3. Abs!Forward(c)
  BY <1>1, <1>2 DEF Abs!Forward, Abs!Place
<1> QED
  BY <1>3 DEF Abs!AbsNext

LEMMA BackwardStep ==
  ASSUME NEW c \in Cursors, NEW x \in Pos, Placed(c, x, it[c].rng),
         Seen(c) # 0,
         IsLastBelow(Seen(c), x, hits, it[c].rng)
  PROVE  Abs!AbsNext
<1>1. Abs!Place(c, x, it[c].rng)
  BY PlacedStep DEF Placed, Seen, Standing, Abs!Place
<1>2. Abs!IsLastBelow(Seen(c), x, hits, it[c].rng) /\ x \in Abs!Pos
  BY DEF IsLastBelow, Shown, Pos, Abs!IsLastBelow, Abs!Shown, Abs!Pos
<1>3. Abs!Backward(c)
  BY <1>1, <1>2 DEF Abs!Backward, Abs!Place
<1> QED
  BY <1>3 DEF Abs!AbsNext

LEMMA StrayStep ==
  ASSUME NEW c \in Cursors, NEW x \in Pos, Placed(c, x, it[c].rng), Seen(c) # 0,
         it[c].rng.b <= x, x < it[c].rng.e,
         \A z \in Shown(hits, it[c].rng) :
           ~(Seen(c) < z /\ z < x) /\ ~(x < z /\ z < Seen(c))
  PROVE  Abs!AbsNext
<1>1. Abs!Place(c, x, it[c].rng)
  BY PlacedStep DEF Placed, Seen, Standing, Abs!Place
<1>2. x \in Abs!Pos /\ Abs!Shown(hits, it[c].rng) = Shown(hits, it[c].rng)
  BY DEF Shown, Pos, Abs!Shown, Abs!Pos
<1>3. Abs!Stray(c)
  BY <1>1, <1>2 DEF Abs!Stray, Abs!Place
<1> QED
  BY <1>3 DEF Abs!AbsNext

LEMMA CopyStep ==
  ASSUME NEW c \in Cursors, NEW d \in Cursors, Seen(d) # 0,
         Placed(c, Seen(d), it[d].rng)
  PROVE  Abs!AbsNext
<1>1. Abs!Place(c, Seen(d), it[d].rng)
  BY PlacedStep DEF Placed, Seen, Standing, Abs!Place
<1>2. Abs!Copy(c, d)
  BY <1>1 DEF Abs!Copy, Abs!Place
<1> QED
  BY <1>2 DEF Abs!AbsNext

-----------------------------------------------------------------------------
LEMMA BeginRefines ==
  ASSUME IInv, NEW c \in Cursors, NEW v \in Views,
         BeginCached(c, v) \/ BeginScan(c, v) \/ End(c, v)
  PROVE  Abs!AbsNext
<1> DEFINE r == view[v].rng
<1>1. /\ TypeOK
      /\ r \in Ranges
      /\ view[v].first \in {Unset} \cup Pos
  BY DEF IInv, TypeOK
<1>2. CASE BeginCached(c, v)
  <2>1. /\ view[v].first \in Pos
        /\ hits' = hits
        /\ Settle(c, view[v].first, r)
        /\ IsFirstFrom(r.b, view[v].first, hits, r)
    BY <1>1, <1>2 DEF BeginCached, IInv, CacheIsFirst
  <2>2. OthersKept(c) /\ Seen(c)' = view[v].first /\ it'[c].rng = r
    BY <1>1, <2>1, SettleStep DEF Seen, Standing
  <2> QED
    BY <1>1, <2>1, <2>2, FirstStep DEF Placed
<1>3. CASE BeginScan(c, v)
  <2>1. hits' = hits /\ r.b \in Pos /\ Enter(c, "find", r.b, r, 0)
    BY <1>1, <1>3, RangeType DEF BeginScan
  <2>2. OthersKept(c) /\ Seen(c)' = 0 /\ it'[c].rng = r
    BY <1>1, <2>1, EnterStep DEF Seen, Standing, Ops
  <2> QED
    BY <1>1, <2>1, <2>2, EndOrDropStep DEF Placed
<1>4. CASE End(c, v)
  <2>1. hits' = hits /\ r.e \in Pos /\ Settle(c, r.e, r)
    BY <1>1, <1>4, RangeType DEF End
  <2>2. OthersKept(c) /\ Seen(c)' = r.e /\ it'[c].rng = r /\ r.e \in Int
    BY <1>1, <2>1, SettleStep DEF Seen, Standing, Pos
  <2> QED
    BY <1>1, <2>1, <2>2, EndOrDropStep DEF Placed
<1> QED
  BY <1>2, <1>3, <1>4

\* Nothing shown has been passed since the begin, and x is shown or the end.
LEMMA FirstFound ==
  ASSUME NEW x \in Int, NEW r \in Ranges, r.b \in Int, r.e \in Int,
         hits \subseteq Int, NoHitBetween(r.b - 1, x), r.b <= x, x <= r.e,
         x = r.e \/ (x \in hits /\ x < r.e)
  PROVE  IsFirstFrom(r.b, x, hits, r)
<1>1. x \in Shown(hits, r) \cup {r.e}
  BY DEF Shown
<1>2. ASSUME NEW z \in Shown(hits, r) PROVE x <= z
  <2>1. z \in hits /\ z \in Int /\ r.b <= z
    BY <1>2 DEF Shown
  <2>2. ~(r.b - 1 < z /\ z < x)
    BY <2>1 DEF NoHitBetween
  <2> QED
    BY <2>1, <2>2
<1> QED
  BY <1>1, <1>2 DEF IsFirstFrom

LEMMA FindRefines ==
  ASSUME IInv, NEW c \in Cursors, FindAdvance(c) \/ \E v \in Views : FindDone(c, v)
  PROVE  [Abs!AbsNext]_Abs!absVars
<1> DEFINE x == it[c].cur
           r == it[c].rng
<1>1. TypeOK /\ op[c] = "find" /\ Progress(c)
  BY DEF IInv, FindAdvance, FindDone, NoMatchPassed
<1>2. /\ r \in Ranges
      /\ x \in Pos
      /\ x \in Int
      /\ NoHitBetween(r.b - 1, x)
      /\ r.b <= x
      /\ x <= r.e
      /\ hits \subseteq 1 .. N
      /\ hits' = hits
      /\ r.b \in Int
      /\ r.e \in Int
  BY <1>1, IterType, RangeType DEF Progress, TypeOK, FindAdvance, FindDone
<1>3. CASE FindAdvance(c)
  <2>1. x + 1 \in Pos
    BY <1>2, <1>3, RangeType DEF FindAdvance, Rejects, Pos
  <2>2. OthersKept(c) /\ op'[c] = op[c] /\ it'[c].rng = r
    BY <1>1, <1>3, <2>1, MoveStep DEF FindAdvance
  <2> QED
    BY <1>1, <1>2, <2>2, HiddenStep DEF Placed, Seen, Standing
<1>4. ASSUME NEW v \in Views, FindDone(c, v) PROVE Abs!AbsNext
  <2>1. x = r.e \/ (x \in hits /\ x < r.e)
    BY <1>2, <1>4 DEF FindDone, Rejects
  <2>2. OthersKept(c) /\ Seen(c)' = x /\ it'[c].rng = r
    BY <1>1, <1>2, <1>4, SettleStep DEF FindDone, Seen, Standing
  <2>3. IsFirstFrom(r.b, x, hits, r)
    <3>1. hits \subseteq Int
      BY <1>2, LengthAssumption
    <3> QED
      BY <1>2, <2>1, <3>1, FirstFound
  <2> QED
    BY <1>2, <2>2, <2>3, FirstStep DEF Placed
<1> QED
  BY <1>3, <1>4

LEMMA IncRefines ==
  ASSUME IInv, NEW c \in Cursors, Inc(c) \/ IncAdvance(c) \/ IncDone(c)
  PROVE  [Abs!AbsNext]_Abs!absVars
<1> DEFINE x == it[c].cur
           r == it[c].rng
<1>1. TypeOK /\ Progress(c) /\ hits' = hits
  BY DEF IInv, Inc, IncAdvance, IncDone, NoMatchPassed
<1>2. /\ r \in Ranges
      /\ r.b \in Int
      /\ r.e \in Int
      /\ x \in Pos
      /\ x \in Int
      /\ from[c] \in Int
      /\ r.b <= x
      /\ x <= r.e
      /\ r.e <= N + 1
      /\ 1 <= r.b
      /\ hits \subseteq 1 .. N
  BY <1>1, IterType, RangeType DEF Progress, TypeOK
<1>3. CASE Inc(c)
  <2>1. x + 1 \in Pos /\ Enter(c, "inc", x + 1, r, x) /\ Standing(c)
    BY <1>2, <1>3 DEF Inc, Pos
  <2>2. OthersKept(c) /\ op'[c] = "inc" /\ it'[c].rng = r /\ from'[c] = x
    BY <1>1, <1>2, <2>1, EnterStep DEF Ops
  <2> QED
    BY <1>1, <2>1, <2>2, HiddenStep DEF Placed, Seen, Standing
<1>4. CASE IncAdvance(c)
  <2>1. x + 1 \in Pos /\ Move(c, x + 1)
    BY <1>2, <1>4 DEF IncAdvance, Rejects, Pos
  <2>2. OthersKept(c) /\ op'[c] = op[c] /\ it'[c].rng = r /\ from'[c] = from[c]
    BY <1>1, <2>1, MoveStep
  <2> QED
    BY <1>1, <1>4, <2>2, HiddenStep DEF Placed, Seen, Standing, IncAdvance
<1>5. CASE IncDone(c)
  <2>1. /\ op[c] = "inc"
        /\ x = r.e \/ (x \in hits /\ x < r.e)
        /\ r.b <= from[c]
        /\ from[c] < x
        /\ NoHitBetween(from[c], x)
    BY <1>1, <1>2, <1>5 DEF IncDone, Rejects, Progress
  <2>2. OthersKept(c) /\ Seen(c)' = x /\ it'[c].rng = r
    BY <1>1, <1>2, <1>5, SettleStep DEF IncDone, Seen, Standing
  <2>3. IsFirstFrom(from[c] + 1, x, hits, r)
    <3>1. x \in Shown(hits, r) \cup {r.e} /\ from[c] + 1 <= x
      BY <1>2, <2>1 DEF Shown
    <3>2. ASSUME NEW z \in Shown(hits, r), from[c] + 1 <= z PROVE x <= z
      <4>1. z \in Int /\ z \in hits
        BY <1>2 DEF Shown
      <4>2. ~(z < x)
        BY <1>2, <2>1, <3>2, <4>1 DEF NoHitBetween
      <4> QED
        BY <1>2, <4>1, <4>2
    <3> QED
      BY <3>1, <3>2 DEF IsFirstFrom
  <2>4. from[c] # 0 /\ from[c] # r.e /\ Seen(c) = from[c]
    BY <1>2, <2>1 DEF Seen, Standing
  <2> QED
    BY <1>1, <1>2, <2>2, <2>3, <2>4, ForwardStep DEF Placed
<1> QED
  BY <1>3, <1>4, <1>5

LEMMA DecRefines ==
  ASSUME IInv, NEW c \in Cursors,
         Dec(c) \/ DecAtBounds(c) \/ DecRetreat(c) \/ DecDone(c)
  PROVE  [Abs!AbsNext]_Abs!absVars
<1> DEFINE x == it[c].cur
           r == it[c].rng
<1>1. TypeOK /\ Progress(c) /\ hits' = hits
  BY DEF IInv, Dec, DecAtBounds, DecRetreat, DecDone, NoMatchPassed
<1>2. /\ r \in Ranges
      /\ r.b \in Int
      /\ r.e \in Int
      /\ r.e \in Pos
      /\ x \in Pos
      /\ x \in Int
      /\ from[c] \in Int
      /\ r.b <= x
      /\ x <= r.e
      /\ 1 <= r.b
      /\ hits \subseteq 1 .. N
  BY <1>1, IterType, RangeType DEF Progress, TypeOK
<1>3. CASE Dec(c)
  <2>1. x - 1 \in Pos /\ Enter(c, "dec", x - 1, r, x) /\ Standing(c)
    BY <1>2, <1>3 DEF Dec, Pos
  <2>2. OthersKept(c) /\ op'[c] = "dec" /\ it'[c].rng = r /\ from'[c] = x
    BY <1>1, <1>2, <2>1, EnterStep DEF Ops
  <2> QED
    BY <1>1, <2>1, <2>2, HiddenStep DEF Placed, Seen, Standing
<1>4. CASE DecAtBounds(c)
  <2>1. Standing(c) /\ x = r.b
    BY <1>4 DEF DecAtBounds
  <2>2. OthersKept(c) /\ Seen(c)' = r.e /\ it'[c].rng = r
    BY <1>1, <1>2, <1>4, SettleStep DEF DecAtBounds, Seen, Standing
  <2>3. IsLastBelow(x, r.e, hits, r)
    BY <1>2, <2>1 DEF IsLastBelow, Shown
  <2>4. Seen(c) = x /\ x # 0
    BY <1>2, <2>1 DEF Seen, Standing
  <2> QED
    BY <1>1, <1>2, <2>2, <2>3, <2>4, BackwardStep DEF Placed
<1>5. CASE DecRetreat(c)
  <2>1. x - 1 \in Pos /\ Move(c, x - 1)
    BY <1>2, <1>5 DEF DecRetreat, Pos
  <2>2. OthersKept(c) /\ op'[c] = op[c] /\ it'[c].rng = r /\ from'[c] = from[c]
    BY <1>1, <2>1, MoveStep
  <2> QED
    BY <1>1, <1>5, <2>2, HiddenStep DEF Placed, Seen, Standing, DecRetreat
<1>6. CASE DecDone(c)
  <2> DEFINE y == IF x \in hits THEN x ELSE r.e
  <2>1. /\ op[c] = "dec"
        /\ x = r.b \/ x \in hits
        /\ x < from[c]
        /\ from[c] <= r.e
        /\ NoHitBetween(x, from[c])
        /\ y \in Pos
        /\ Settle(c, y, r)
    BY <1>1, <1>2, <1>6 DEF DecDone, Progress
  <2>2. OthersKept(c) /\ Seen(c)' = y /\ it'[c].rng = r
    BY <1>1, <1>2, <2>1, SettleStep DEF Seen, Standing
  <2>3. IsLastBelow(from[c], y, hits, r)
    <3>1. CASE x \in hits
      BY <1>2, <2>1, <3>1 DEF IsLastBelow, Shown, NoHitBetween
    <3>2. CASE x \notin hits
      <4>1. \A z \in Shown(hits, r) : from[c] <= z
        BY <1>2, <2>1, <3>2 DEF Shown, NoHitBetween
      <4> QED
        BY <3>2, <4>1 DEF IsLastBelow
    <3> QED
      BY <3>1, <3>2
  <2>4. from[c] # 0 /\ Seen(c) = from[c]
    BY <1>2, <2>1 DEF Seen, Standing
  <2> HIDE DEF y
  <2> QED
    BY <1>1, <1>2, <2>1, <2>2, <2>3, <2>4, BackwardStep DEF Placed
<1> QED
  BY <1>3, <1>4, <1>5, <1>6

LEMMA AssignRefines ==
  ASSUME IInv, NEW c \in Cursors, NEW d \in Cursors, Assign(c, d)
  PROVE  Abs!AbsNext
<1>1. /\ TypeOK
      /\ hits' = hits
      /\ Standing(d)
      /\ op[d] \in Ops
      /\ it[d].cur \in Pos
      /\ it[d].rng \in Ranges
      /\ Enter(c, op[d], it[d].cur, it[d].rng, 0)
  BY IterType DEF IInv, Assign
<1>2. OthersKept(c) /\ op'[c] = op[d] /\ it'[c].cur = it[d].cur /\ it'[c].rng = it[d].rng
  BY <1>1, EnterStep
<1>3. Seen(d) = it[d].cur /\ it[d].cur # 0 /\ Seen(c)' = it[d].cur
  BY <1>1, <1>2 DEF Seen, Standing, Pos
<1> QED
  BY <1>1, <1>2, <1>3, CopyStep DEF Placed

LEMMA ThrowRefines ==
  ASSUME IInv, NEW c \in Cursors, Throw(c)
  PROVE  Abs!AbsNext
<1> DEFINE x == it[c].cur
           r == it[c].rng
<1>1. TypeOK /\ Progress(c) /\ UNCHANGED <<hits, it>>
  BY DEF IInv, NoMatchPassed, Throw
<1>2. /\ r \in Ranges
      /\ x \in Pos
      /\ x \in Int
      /\ r.b \in Int
      /\ r.e \in Int
      /\ 1 <= r.b
      /\ from[c] \in Int
      /\ r.b <= x
      /\ x < r.e
      /\ hits \subseteq 1 .. N
  <2>1. r \in Ranges /\ x \in Pos /\ x \in Int /\ from[c] \in Int
    BY <1>1, IterType
  <2>2. r.b \in Int /\ r.e \in Int /\ 1 <= r.b
    BY <2>1, RangeType
  <2>3. r.b <= x /\ x <= r.e /\ x # r.e
    BY <1>1 DEF Progress, Throw
  <2>4. hits \subseteq 1 .. N
    BY <1>1 DEF TypeOK
  <2> QED
    BY <2>1, <2>2, <2>3, <2>4
<1>3. CASE op[c] = "find"
  <2>1. OthersKept(c) /\ op'[c] = "none"
    BY <1>1, <1>3 DEF Throw, OthersKept, TypeOK
  <2>2. Seen(c)' = 0
    BY <2>1 DEF Seen, Standing
  <2> QED
    BY <1>1, <1>2, <2>1, <2>2, EndOrDropStep DEF Placed
<1>4. CASE op[c] \in {"inc", "dec"}
  <2>1. OthersKept(c) /\ op'[c] = "thrown"
    BY <1>1, <1>4 DEF Throw, OthersKept, TypeOK
  <2>2. Seen(c)' = x /\ Seen(c) = from[c]
    BY <1>1, <1>4, <2>1 DEF Seen, Standing
  <2>3. from[c] # 0
    BY <1>1, <1>2, <1>4 DEF Progress
  <2>4. \A z \in Shown(hits, r) : ~(from[c] < z /\ z < x) /\ ~(x < z /\ z < from[c])
    BY <1>1, <1>2, <1>4 DEF Progress, NoHitBetween, Shown
  <2> QED
    BY <1>1, <1>2, <2>1, <2>2, <2>3, <2>4, StrayStep DEF Placed
<1> QED
  BY <1>3, <1>4 DEF Throw

-----------------------------------------------------------------------------
LEMMA InitRefines == Init => Abs!AbsInit
<1> SUFFICES ASSUME Init PROVE Abs!AbsInit
  OBVIOUS
<1>1. [c \in Cursors |-> it[c].rng] \in [Cursors -> Ranges]
  BY InitIInv DEF IInv, TypeOK
<1>2. \A c \in Cursors : Seen(c) = 0
  BY DEF Init, Seen, Standing
<1> QED
  BY <1>1, <1>2 DEF Init, Abs!AbsInit, Seen, Standing

LEMMA NextRefines == IInv /\ [Next]_vars => [Abs!AbsNext]_Abs!absVars
<1> SUFFICES ASSUME IInv, [Next]_vars PROVE [Abs!AbsNext]_Abs!absVars
  OBVIOUS
<1>1. ASSUME NEW c \in Cursors, Loop(c) PROVE [Abs!AbsNext]_Abs!absVars
  BY <1>1, FindRefines, IncRefines, DecRefines DEF Loop
<1>4. ASSUME NEW c \in Cursors, Throw(c) PROVE [Abs!AbsNext]_Abs!absVars
  BY <1>4, ThrowRefines
<1>2. ASSUME NEW c \in Cursors, Call(c) PROVE [Abs!AbsNext]_Abs!absVars
  BY <1>2, BeginRefines, IncRefines, DecRefines, AssignRefines DEF Call
<1>3. ASSUME OnViews \/ UNCHANGED vars PROVE UNCHANGED Abs!absVars
  <2>1. UNCHANGED <<hits, it, op, from>>
    BY <1>3 DEF OnViews, Rebuild, CopyView, MoveView, vars
  <2> QED
    BY <2>1 DEF Abs!absVars, Seen, Standing
<1> QED
  BY <1>1, <1>2, <1>3, <1>4 DEF Next

\* where(pred) is a multi-pass sequence of the matching elements: begin(), end(),
\* ++, -- and copies of iterators do what MultiPass says, whatever other
\* iterators and views do in between.
THEOREM Refinement == Spec => Implements
<1>1. Init => Abs!AbsInit
  BY InitRefines
<1>2. IInv /\ [Next]_vars => [Abs!AbsNext]_Abs!absVars
  BY NextRefines
<1> QED
  BY <1>1, <1>2, Invariance, PTL DEF Spec, Implements, Abs!AbsSpec

-----------------------------------------------------------------------------
(* Whole traversals.                                                       *)

bounds == view[V].rng
cached == view[V].first

\* An iterator in no loop, and one that stands on position x of the view.
Rests(c) == op[c] \in {"none", "idle"}

On(c, x) == op[c] = "idle" /\ it[c] = [cur |-> x, rng |-> bounds]

PassShape ==
  /\ TypeOK
  /\ prog \in Programs \cup {"none"}
  /\ pc \in {"ready", "end", "test", "prev", "read"}
  /\ pc # "ready" => prog # "none"
  /\ out \in Seq(Pos)
  /\ \A c \in Cursors : it[c].rng.b <= it[c].cur /\ it[c].cur <= it[c].rng.e
  /\ cached # Unset => bounds.b <= cached /\ cached <= bounds.e

\* One iterator at a time is in a loop, and which one pc tells.
Turns ==
  /\ pc = "end" => Rests(AtEnd(prog)) /\ Rests(Tmp)
  /\ pc = "test" => op[It] \in {"idle", IF prog = "forward" THEN "inc" ELSE "dec"} /\ Rests(Tmp)
  /\ pc = "prev" => op[It] = "idle" /\ op[Tmp] = "idle"
  /\ pc = "read" => op[It] = "idle" /\ op[Tmp] \in {"idle", "dec"}
  /\ pc = "ready" => \A c \in Cursors : Rests(c)
  /\ pc # "end" => scanning[V] = NoCursor

\* The bounds of the traversal: begin(), which fills the cache if nobody has, and end().
Opening ==
  pc = "end" =>
    /\ out = <<>>
    /\ \/ /\ op[AtBegin(prog)] = "find" /\ scanning[V] = AtBegin(prog) /\ cached = Unset
          /\ it[AtBegin(prog)].rng = bounds
          /\ NoHitBetween(bounds.b - 1, it[AtBegin(prog)].cur)
       \/ scanning[V] = NoCursor /\ cached # Unset /\ On(AtBegin(prog), cached)

Opened ==
  pc \in {"test", "prev", "read"} =>
    /\ cached # Unset /\ it[It].rng = bounds
    /\ IF prog = "forward" THEN pc = "test" /\ On(Bound, bounds.e) ELSE On(Bound, cached)

\* A forward traversal has read what there is to read up to x.
ReadUpTo(x) == Lists(out, {y \in FirstAndAfter : y <= x}) /\ Len(out) <= x

Forwards ==
  prog = "forward" =>
    /\ pc = "test" /\ op[It] = "idle" =>
         it[It].cur \in FirstAndAfter \cup {bounds.e} /\ ReadUpTo(it[It].cur - 1)
    /\ pc = "test" /\ op[It] = "inc" =>
         /\ from[It] \in FirstAndAfter /\ from[It] < it[It].cur
         /\ NoHitBetween(from[It], it[It].cur) /\ ReadUpTo(from[It])
    /\ pc = "ready" => cached # Unset /\ Lists(out, FirstAndAfter)

\* A reversed one has read the matches down to x.
ReadDownTo(x) ==
  Lists(Reverse(out), {y \in Shown(hits, bounds) : x <= y}) /\ Len(out) <= bounds.e - x

Backwards ==
  prog = "reverse" /\ Fresh =>
    /\ pc \in {"test", "prev", "read"} /\ op[It] = "idle" =>
         it[It].cur \in Shown(hits, bounds) \cup {bounds.e} /\ ReadDownTo(it[It].cur)
    /\ pc = "test" /\ op[It] = "dec" =>
         \E t \in Shown(hits, bounds) :
           t <= it[It].cur /\ NoHitBetween(t, it[It].cur + 1) /\ ReadDownTo(t)
    /\ pc = "ready" => Lists(Reverse(out), Shown(hits, bounds))

\* The copy that is decremented to read passes over no match.
Reading ==
  /\ pc \in {"prev", "read"} => prog # "forward" /\ it[It].cur # cached
  /\ pc = "prev" => it[Tmp] = it[It]
  /\ pc = "read" /\ Fresh =>
       /\ it[Tmp].rng = bounds /\ it[Tmp].cur < it[It].cur
       /\ NoHitBetween(it[Tmp].cur, it[It].cur)
       /\ op[Tmp] = "idle" => it[Tmp].cur \in hits

LastOnly ==
  prog = "last" =>
    /\ pc \in {"test", "prev", "read"} => out = <<>> /\ On(It, bounds.e)
    /\ pc = "ready" /\ Fresh =>
         LET all == Shown(hits, bounds) IN out = IF all = {} THEN <<>> ELSE <<Max(all)>>

PassInv ==
  PassShape /\ Turns /\ Opening /\ Opened /\ Forwards /\ Backwards /\ Reading /\ LastOnly

LEMMA PassFacts ==
  ASSUME PassShape
  PROVE  /\ V \in Views /\ It \in Cursors /\ Bound \in Cursors /\ Tmp \in Cursors
         /\ view[V] \in [rng : Ranges, first : {Unset} \cup Pos]
         /\ bounds \in Ranges /\ bounds.b \in Pos /\ bounds.e \in Pos
         /\ bounds.b \in Int /\ bounds.e \in Int
         /\ 1 <= bounds.b /\ bounds.b <= bounds.e /\ bounds.e <= N + 1
         /\ cached \in Int /\ (cached # Unset => cached \in Pos)
         /\ hits \subseteq Int /\ Shown(hits, bounds) \subseteq Int /\ FirstAndAfter \subseteq Int
<1>1. V \in Views /\ It \in Cursors /\ Bound \in Cursors /\ Tmp \in Cursors
  BY OneViewAssumption, ThreeCursorsAssumption
<1>2. view[V] \in [rng : Ranges, first : {Unset} \cup Pos]
  BY <1>1 DEF PassShape, TypeOK
<1>3. bounds \in Ranges /\ cached \in {Unset} \cup Pos
  BY <1>2 DEF bounds, cached
<1>4. cached \in Int /\ (cached # Unset => cached \in Pos)
  BY <1>3 DEF Unset, Pos
<1>5. hits \subseteq Int
  BY DEF PassShape, TypeOK
<1> QED
  BY <1>1, <1>2, <1>3, <1>4, <1>5, RangeType DEF Shown, FirstAndAfter, bounds, cached

\* A step of iterator c alone, the traversal it belongs to going on or not.
LEMMA ShapeKept ==
  ASSUME PassShape, NEW c \in Cursors, OthersKept(c), TypeOK', UNCHANGED view,
         it'[c].rng.b <= it'[c].cur, it'[c].cur <= it'[c].rng.e,
         prog' \in Programs, pc' \in {"ready", "end", "test", "prev", "read"}, out' \in Seq(Pos)
  PROVE  PassShape'
<1>1. \A d \in Cursors : it'[d].rng.b <= it'[d].cur /\ it'[d].cur <= it'[d].rng.e
  BY DEF PassShape, OthersKept
<1>2. "none" \notin Programs
  BY DEF Programs
<1> QED
  BY <1>1, <1>2 DEF PassShape, cached, bounds

LEMMA StartPass ==
  ASSUME PassInv, NEW p \in Programs, Start(p)
  PROVE  PassInv'
<1> DEFINE c == AtBegin(p)
<1>1. /\ PassShape /\ TypeOK /\ pc = "ready" /\ \A d \in Cursors : Rests(d)
      /\ scanning[V] = NoCursor
  BY DEF PassInv, Turns, Start, PassShape
<1>2. /\ prog' = p /\ pc' = "end" /\ out' = <<>>
      /\ BeginCached(c, V) \/ BeginScan(c, V)
  BY DEF Start
<1>3. /\ c \in {It, Bound} /\ AtEnd(p) \in {It, Bound} \ {c} /\ c \in Cursors
  BY ThreeCursorsAssumption DEF AtBegin, AtEnd
<1>4. /\ OthersKept(c) /\ TypeOK' /\ it'[c].rng = bounds /\ UNCHANGED <<hits, view>>
      /\ bounds.b <= it'[c].cur /\ it'[c].cur <= bounds.e
      /\ \/ op'[c] = "idle" /\ it'[c].cur = cached /\ cached # Unset /\ scanning'[V] = NoCursor
         \/ op'[c] = "find" /\ cached = Unset /\ it'[c].cur = bounds.b /\ scanning'[V] = c
  <2>1. CASE BeginCached(c, V)
    <3>1. cached \in Pos /\ Settle(c, cached, bounds) /\ bounds \in Ranges
      BY <1>1, <2>1, PassFacts DEF BeginCached, cached, bounds
    <3> QED
      BY <1>1, <1>3, <2>1, <3>1, SettleStep DEF BeginCached, TypeOK, cached, bounds, PassShape
  <2>2. CASE BeginScan(c, V)
    <3>1. Enter(c, "find", bounds.b, bounds, 0) /\ bounds \in Ranges /\ bounds.b \in Pos
      BY <1>1, <2>2, PassFacts DEF BeginScan, bounds
    <3>2. /\ OthersKept(c) /\ it'[c].rng = bounds /\ it'[c].cur = bounds.b /\ op'[c] = "find"
          /\ TypeOK'
      BY <1>1, <1>3, <2>2, <3>1, EnterStep DEF BeginScan, TypeOK, Ops
    <3> QED
      BY <1>1, <1>3, <2>2, <3>2, PassFacts DEF BeginScan, TypeOK, cached, bounds
  <2> QED
    BY <1>2, <2>1, <2>2
<1>5. PassShape'
  BY <1>1, <1>2, <1>3, <1>4, ShapeKept
<1>6. Rests(AtEnd(p))' /\ Rests(Tmp)'
  BY <1>1, <1>3, <1>4, ThreeCursorsAssumption DEF Rests, OthersKept
<1>7. Turns'
  BY <1>2, <1>6 DEF Turns, AtEnd, Rests
<1>8. Opening'
  <2>1. AtBegin(prog)' = c /\ bounds' = bounds /\ cached' = cached
    BY <1>2, <1>4 DEF AtBegin, bounds, cached
  <2>2. CASE op'[c] = "idle"
    <3>1. it'[c] = [cur |-> cached, rng |-> bounds]
      BY <1>3, <1>4, <2>2 DEF TypeOK
    <3> QED
      BY <1>2, <1>4, <2>1, <2>2, <3>1 DEF Opening, On
  <2>3. CASE op'[c] = "find"
    <3>1. NoHitBetween(bounds.b - 1, bounds.b)'
      BY <1>1, <1>4, <2>1, AdjacentGap, PassFacts DEF NoHitBetween
    <3>2. it'[c].cur = bounds.b /\ cached = Unset /\ scanning'[V] = c
      BY <1>4, <2>3
    <3> QED
      BY <1>2, <1>4, <2>1, <2>3, <3>1, <3>2 DEF Opening
  <2> QED
    BY <1>4, <2>2, <2>3
<1> QED
  BY <1>2, <1>5, <1>7, <1>8 DEF PassInv, Opened, Forwards, Backwards, Reading, LastOnly

LEMMA TakeEndPass ==
  ASSUME PassInv, TakeEnd
  PROVE  PassInv'
<1> DEFINE b == AtBegin(prog)
           c == AtEnd(prog)
<1>1. /\ PassShape /\ TypeOK /\ pc = "end" /\ op[b] = "idle" /\ pc' = "test" /\ out = <<>>
      /\ UNCHANGED <<prog, out>> /\ prog \in Programs /\ Rests(c) /\ Rests(Tmp)
  BY DEF PassInv, Turns, TakeEnd, PassShape, Opening
<1>2. b \in {It, Bound} /\ c \in {It, Bound} \ {b} /\ c \in Cursors
  BY ThreeCursorsAssumption DEF AtBegin, AtEnd
<1>14. b' = b /\ c' = c
  BY <1>1 DEF AtBegin, AtEnd
<1>3. scanning[V] = NoCursor /\ cached # Unset /\ On(b, cached)
  BY <1>1 DEF PassInv, Opening
<1>4. Settle(c, bounds.e, bounds) /\ UNCHANGED <<hits, view, scanning>>
  BY DEF TakeEnd, End, bounds
<1>5. /\ OthersKept(c) /\ TypeOK' /\ it'[c].rng = bounds /\ it'[c].cur = bounds.e /\ op'[c] = "idle"
  BY <1>1, <1>2, <1>4, PassFacts, SettleStep DEF TypeOK
<1>6. PassShape'
  BY <1>1, <1>2, <1>4, <1>5, ShapeKept, PassFacts
<1>7. On(c, bounds.e)' /\ On(b, cached)'
  <2>1. it'[c] = [cur |-> bounds.e, rng |-> bounds]
    BY <1>2, <1>5 DEF TypeOK
  <2>2. it'[b] = it[b] /\ op'[b] = op[b]
    BY <1>2, <1>5, ThreeCursorsAssumption DEF OthersKept
  <2> QED
    BY <1>3, <1>4, <1>5, <1>14, <2>1, <2>2 DEF On, bounds, cached
<1>8. /\ prog = "forward" => b = It /\ c = Bound
      /\ prog # "forward" => b = Bound /\ c = It
  BY DEF AtBegin, AtEnd
<1>9. Turns'
  <2>1. Rests(Tmp)'
    BY <1>1, <1>2, <1>5, ThreeCursorsAssumption DEF Rests, OthersKept
  <2> QED
    BY <1>1, <1>3, <1>4, <1>7, <1>8, <2>1 DEF Turns, On
<1>10. Opened'
  BY <1>1, <1>3, <1>4, <1>7, <1>8 DEF Opened, On, bounds, cached
<1>11. Forwards'
  <2> SUFFICES ASSUME prog = "forward" PROVE it'[It].cur \in (FirstAndAfter \cup {bounds.e})' /\ ReadUpTo(it[It].cur - 1)'
    BY <1>1, <1>7, <1>8 DEF Forwards, On
  <2>1. it'[It].cur = cached /\ FirstAndAfter' = FirstAndAfter /\ bounds' = bounds
    BY <1>4, <1>7, <1>8, <1>14 DEF On, cached, bounds, FirstAndAfter
  <2>2. {y \in FirstAndAfter : y <= cached - 1} = {}
    BY <1>1, PassFacts DEF FirstAndAfter, cached
  <2>3. Lists(<<>>, {})
    BY DEF Lists, Range
  <2>4. Len(<<>>) <= cached - 1
    BY <1>1, <1>3, PassFacts DEF PassShape
  <2>5. cached \in FirstAndAfter \cup {bounds.e}
    BY DEF FirstAndAfter, cached, bounds
  <2> QED
    BY <1>1, <2>1, <2>2, <2>3, <2>4, <2>5 DEF ReadUpTo
<1>12. Backwards'
  <2> SUFFICES ASSUME prog = "reverse" PROVE it'[It].cur \in (Shown(hits, bounds) \cup {bounds.e})' /\ ReadDownTo(it[It].cur)'
    BY <1>1, <1>7, <1>8 DEF Backwards, On
  <2>1. it'[It].cur = bounds.e /\ bounds' = bounds /\ hits' = hits
    BY <1>4, <1>7, <1>8, <1>14 DEF On, bounds
  <2>2. {y \in Shown(hits, bounds) : bounds.e <= y} = {}
    BY <1>1, PassFacts DEF Shown
  <2>3. Lists(Reverse(<<>>), {}) /\ Len(<<>>) <= bounds.e - bounds.e
    BY <1>1, PassFacts DEF Lists, Range, Reverse
  <2> QED
    BY <1>1, <2>1, <2>2, <2>3 DEF ReadDownTo
<1>13. LastOnly'
  BY <1>1, <1>4, <1>7, <1>8 DEF LastOnly, bounds
<1> QED
  BY <1>1, <1>6, <1>9, <1>10, <1>11, <1>12, <1>13 DEF PassInv, Opening, Reading

\* The traversal is over: there was nothing left to read.
LEMMA FinishPass ==
  ASSUME PassInv, Finish
  PROVE  PassInv'
<1>1. /\ PassShape /\ pc = "test" /\ op[It] = "idle" /\ it[It].cur = it[Bound].cur /\ pc' = "ready"
      /\ UNCHANGED <<vars, prog, out>> /\ cached # Unset /\ it[It].rng = bounds
      /\ Rests(Tmp) /\ op[Bound] = "idle" /\ scanning[V] = NoCursor
      /\ it[Bound].cur = IF prog = "forward" THEN bounds.e ELSE cached
  BY DEF PassInv, Turns, Finish, Opened, On
<1>2. UNCHANGED <<hits, view, scanning, it, op, from, bounds, cached>>
  BY <1>1 DEF vars, bounds, cached
<1>3. PassShape'
  BY <1>1, <1>2 DEF PassShape, TypeOK
<1>4. Turns'
  BY <1>1, <1>2, ThreeCursorsAssumption DEF Turns, Rests
<1>5. Forwards'
  <2> SUFFICES ASSUME prog = "forward" PROVE Lists(out, FirstAndAfter)
    BY <1>1, <1>2 DEF Forwards, FirstAndAfter, bounds, cached
  <2>1. Lists(out, {y \in FirstAndAfter : y <= bounds.e - 1})
    BY <1>1 DEF PassInv, Forwards, ReadUpTo
  <2>2. {y \in FirstAndAfter : y <= bounds.e - 1} = FirstAndAfter
    BY <1>1, PassFacts DEF FirstAndAfter, Shown, cached, bounds, PassShape
  <2> QED
    BY <2>1, <2>2
<1>6. Fresh => \A y \in Shown(hits, bounds) : cached <= y
  BY <1>1, PassFacts DEF Fresh, IsFirstFrom, Shown, bounds, cached
<1>7. Backwards'
  <2> SUFFICES ASSUME prog = "reverse", Fresh PROVE Lists(Reverse(out), Shown(hits, bounds))
    BY <1>1, <1>2 DEF Backwards, bounds, Fresh
  <2>1. Lists(Reverse(out), {y \in Shown(hits, bounds) : cached <= y})
    BY <1>1 DEF PassInv, Backwards, ReadDownTo
  <2>2. {y \in Shown(hits, bounds) : cached <= y} = Shown(hits, bounds)
    BY <1>6
  <2> QED
    BY <2>1, <2>2
<1>8. LastOnly'
  <2> SUFFICES ASSUME prog = "last", Fresh PROVE out = <<>> /\ Shown(hits, bounds) = {}
    BY <1>1, <1>2 DEF LastOnly, bounds, Fresh
  <2>1. out = <<>> /\ cached = bounds.e
    BY <1>1 DEF PassInv, LastOnly, On
  <2> QED
    BY <1>1, <1>6, <2>1, PassFacts DEF Shown
<1> QED
  BY <1>1, <1>3, <1>4, <1>5, <1>7, <1>8 DEF PassInv, Opening, Opened, Reading

\* A forward traversal reads where it stands and moves on.
LEMMA ReadForwardPass ==
  ASSUME PassInv, ReadForward
  PROVE  PassInv'
<1> PICK x : x = it[It].cur
  OBVIOUS
<1>1. /\ PassShape /\ TypeOK /\ pc = "test" /\ prog = "forward" /\ op[It] = "idle"
      /\ UNCHANGED <<prog, pc>> /\ x # it[Bound].cur
      /\ it[It].rng = bounds /\ On(Bound, bounds.e) /\ cached # Unset
      /\ scanning[V] = NoCursor /\ Rests(Tmp) /\ out \in Seq(Pos)
      /\ out' = IF Len(out) > N THEN out ELSE Append(out, x)
  BY DEF PassInv, PassShape, Turns, Opened, ReadForward, InLoop, Read
<1>2. /\ Enter(It, "inc", x + 1, bounds, x) /\ UNCHANGED <<hits, view, scanning>>
      /\ x # bounds.e
  BY <1>1 DEF ReadForward, Inc, On
<1>3. /\ x \in Pos /\ x \in Int /\ bounds.b <= x /\ x < bounds.e /\ It \in Cursors
  BY <1>1, <1>2, PassFacts, IterType DEF PassShape
<1>4. /\ x + 1 \in Pos /\ x \in {0} \cup Pos /\ bounds \in Ranges /\ "inc" \in Ops
      /\ bounds.b <= x + 1 /\ x + 1 <= bounds.e
  <2>1. bounds.b \in Int /\ bounds.e \in Int /\ bounds.e <= N + 1 /\ 1 <= bounds.b /\ bounds \in Ranges
    BY <1>1, PassFacts
  <2>2. x + 1 <= bounds.e /\ 1 <= x + 1 /\ x + 1 <= N + 1 /\ bounds.b <= x + 1
    BY <1>3, <2>1
  <2> QED
    BY <1>3, <2>1, <2>2 DEF Pos, Ops
<1>5. /\ OthersKept(It) /\ it'[It].cur = x + 1 /\ it'[It].rng = bounds /\ op'[It] = "inc"
      /\ from'[It] = x /\ TypeOK'
  BY <1>1, <1>2, <1>3, <1>4, EnterStep DEF TypeOK
<1>6. x \in FirstAndAfter /\ ReadUpTo(x - 1)
  BY <1>1, <1>2 DEF PassInv, Forwards
<1>7. Len(out) <= N /\ out' = Append(out, x) /\ Len(out') = Len(out) + 1 /\ Len(out) <= x - 1
      /\ Len(out) \in Nat
  BY <1>1, <1>3, <1>6, PassFacts DEF ReadUpTo
<1>8. PassShape'
  <2>1. out' \in Seq(Pos)
    BY <1>1, <1>3, <1>7
  <2> QED
    BY <1>1, <1>2, <1>3, <1>4, <1>5, <2>1, ShapeKept DEF Programs
<1>9. On(Bound, bounds.e)' /\ Rests(Tmp)' /\ cached' = cached /\ bounds' = bounds
  BY <1>1, <1>2, <1>5, ThreeCursorsAssumption DEF On, Rests, OthersKept, cached, bounds
<1>10. Turns' /\ Opened'
  BY <1>1, <1>2, <1>5, <1>9 DEF Turns, Opened
<1>11. Forwards'
  <2>1. NoHitBetween(x, x + 1)'
    BY <1>1, <1>2, <1>3, AdjacentGap DEF NoHitBetween
  <2>2. FirstAndAfter' = FirstAndAfter
    BY <1>2 DEF FirstAndAfter
  <2>3. {y \in FirstAndAfter : y <= x - 1} \cup {x} = {y \in FirstAndAfter : y <= x}
    <3>1. \A y \in FirstAndAfter : y \in Int /\ (y <= x <=> y <= x - 1 \/ y = x)
      BY <1>1, <1>3, PassFacts
    <3> QED
      BY <1>6, <3>1
  <2>4. Lists(out', {y \in FirstAndAfter : y <= x - 1} \cup {x})
    <3>1. out \in Seq(Int)
      BY <1>1 DEF Pos
    <3>2. \A y \in {y \in FirstAndAfter : y <= x - 1} : y < x
      BY <1>1, <1>3, PassFacts
    <3> QED
      BY <1>3, <1>6, <1>7, <3>1, <3>2, ListsAppend DEF ReadUpTo
  <2>5. ReadUpTo(from[It])'
    <3>1. Lists(out', {y \in FirstAndAfter : y <= x}) /\ Len(out') <= x
      <4>1. Len(out') <= x
        BY <1>3, <1>7
      <4> QED
        BY <2>3, <2>4, <4>1
    <3> QED
      BY <1>5, <2>2, <3>1 DEF ReadUpTo
  <2> QED
    BY <1>1, <1>3, <1>5, <1>6, <2>1, <2>2, <2>5 DEF Forwards
<1> QED
  BY <1>1, <1>8, <1>10, <1>11 DEF PassInv, Opening, Backwards, Reading, LastOnly

\* The one iterator in a loop.
LEMMA WhoLoops ==
  ASSUME PassInv, NEW c \in Cursors, op[c] \in {"find", "inc", "dec"}
  PROVE  \/ pc = "end" /\ c = AtBegin(prog) /\ op[c] = "find"
         \/ pc = "test" /\ c = It /\ op[c] = IF prog = "forward" THEN "inc" ELSE "dec"
         \/ pc = "read" /\ c = Tmp /\ op[c] = "dec"
<1>1. c \in {It, Bound, Tmp} /\ ~Rests(c)
  BY ThreeCursorsAssumption DEF Rests
<1>2. Turns /\ Opening /\ Opened /\ pc \in {"ready", "end", "test", "prev", "read"}
  BY DEF PassInv, PassShape
<1>3. pc \in {"test", "prev", "read"} => Rests(Bound)
  BY <1>2 DEF Opened, On, Rests
<1>4. CASE pc = "end"
  <2>1. c # AtEnd(prog) /\ c # Tmp
    BY <1>1, <1>2, <1>4 DEF Turns
  <2>2. c = AtBegin(prog)
    BY <1>1, <2>1 DEF AtBegin, AtEnd
  <2> QED
    BY <1>2, <1>4, <2>2 DEF Opening, On
<1>5. CASE pc = "test"
  BY <1>1, <1>2, <1>3, <1>5 DEF Turns
<1>6. CASE pc \in {"prev", "read"}
  <2>1. c = Tmp
    BY <1>1, <1>2, <1>3, <1>6 DEF Turns, Rests
  <2> QED
    BY <1>1, <1>2, <1>6, <2>1 DEF Turns, Rests
<1>7. CASE pc = "ready"
  BY <1>1, <1>2, <1>7 DEF Turns
<1> QED
  BY <1>2, <1>4, <1>5, <1>6, <1>7

\* find_if, in begin().
LEMMA FindPass ==
  ASSUME PassInv, NEW c \in Cursors, NEW v \in Views, UNCHANGED passVars,
         FindAdvance(c) \/ FindDone(c, v)
  PROVE  PassInv'
<1>1. /\ PassShape /\ TypeOK /\ op[c] = "find"
  BY DEF PassInv, PassShape, FindAdvance, FindDone
<1>2. /\ pc = "end" /\ c = AtBegin(prog) /\ prog \in Programs
  <2>1. pc = "end" /\ c = AtBegin(prog)
    BY <1>1, WhoLoops
  <2> QED
    BY <1>1, <2>1 DEF PassShape
<1>3. /\ scanning[V] = c /\ cached = Unset /\ it[c].rng = bounds /\ out = <<>>
      /\ NoHitBetween(bounds.b - 1, it[c].cur)
      /\ Rests(AtEnd(prog)) /\ Rests(Tmp) /\ AtEnd(prog) # c /\ Tmp # c
  BY <1>1, <1>2, ThreeCursorsAssumption DEF PassInv, Opening, On, Turns, Rests
<1>4. /\ AtBegin(prog)' = c /\ AtEnd(prog)' = AtEnd(prog) /\ AtEnd(prog) \in Cursors
      /\ UNCHANGED <<prog, pc, out>>
  BY <1>2, ThreeCursorsAssumption DEF passVars, AtBegin, AtEnd
<1>5. PICK x : x = it[c].cur
  OBVIOUS
<1>6. x \in Int /\ x \in Pos /\ bounds.b <= x /\ x <= bounds.e /\ bounds \in Ranges
  BY <1>1, <1>3, <1>5, PassFacts, IterType DEF PassShape
<1>7. CASE FindAdvance(c)
  <2>1. Move(c, x + 1) /\ UNCHANGED <<hits, view, scanning>> /\ x # bounds.e /\ x \notin hits
    BY <1>3, <1>5, <1>7 DEF FindAdvance, Rejects
  <2>2. x + 1 \in Pos /\ x + 1 <= bounds.e /\ bounds.b <= x + 1
    BY <1>1, <1>6, <2>1, PassFacts DEF Pos
  <2>3. OthersKept(c) /\ it'[c].cur = x + 1 /\ it'[c].rng = bounds /\ op' = op /\ TypeOK'
    BY <1>1, <1>3, <2>1, <2>2, MoveStep DEF TypeOK
  <2>4. PassShape'
    BY <1>1, <1>2, <1>4, <2>1, <2>2, <2>3, ShapeKept DEF PassShape
  <2>5. Opening'
    <3>1. NoHitBetween(bounds.b - 1, x + 1)
      <4>1. bounds.b - 1 \in Int /\ NoHitBetween(bounds.b - 1, x)
        BY <1>1, <1>3, <1>5, PassFacts
      <4> QED
        BY <1>1, <1>6, <2>1, <4>1, GapGrows
    <3>2. bounds' = bounds /\ cached' = cached
      BY <2>1 DEF bounds, cached
    <3>3. NoHitBetween(bounds.b - 1, it[c].cur)'
      BY <2>1, <2>3, <3>1, <3>2 DEF NoHitBetween
    <3> QED
      BY <1>1, <1>2, <1>3, <1>4, <2>1, <2>3, <3>2, <3>3 DEF Opening
  <2>6. Turns'
    BY <1>2, <1>3, <1>4, <2>3 DEF Turns, Rests
  <2> QED
    BY <1>2, <1>4, <2>4, <2>5, <2>6 DEF PassInv, Opened, Forwards, Backwards, Reading, LastOnly
<1>8. CASE FindDone(c, v)
  <2>0. v = V
    BY OneViewAssumption
  <2>1. /\ view' = [view EXCEPT ![V].first = x] /\ scanning' = [scanning EXCEPT ![V] = NoCursor]
        /\ Settle(c, x, bounds) /\ hits' = hits
    BY <1>3, <1>5, <1>8, <2>0 DEF FindDone
  <2>2. view'[V].first = x /\ view'[V].rng = bounds /\ scanning'[V] = NoCursor /\ x # Unset
    BY <1>1, <1>6, <2>1, PassFacts DEF TypeOK, bounds, Pos, Unset
  <2>3. OthersKept(c) /\ it'[c].cur = x /\ it'[c].rng = bounds /\ op'[c] = "idle" /\ TypeOK'
    <3>1. view' \in [Views -> [rng : Ranges, first : {Unset} \cup Pos]]
      BY <1>1, <1>6, <2>1, PassFacts DEF TypeOK
    <3>2. scanning' \in [Views -> Cursors \cup {NoCursor}]
      BY <1>1, <2>1 DEF TypeOK
    <3> QED
      BY <1>1, <1>6, <2>1, <3>1, <3>2, SettleStep DEF TypeOK
  <2>4. PassShape'
    <3>1. \A d \in Cursors : it'[d].rng.b <= it'[d].cur /\ it'[d].cur <= it'[d].rng.e
      BY <1>1, <1>6, <2>3 DEF PassShape, OthersKept
    <3> QED
      BY <1>1, <1>4, <1>6, <2>2, <2>3, <3>1 DEF PassShape, cached, bounds
  <2>5. Opening'
    <3>1. it'[c] = [cur |-> x, rng |-> bounds]
      BY <2>3 DEF TypeOK
    <3> QED
      BY <1>2, <1>3, <1>4, <2>2, <2>3, <3>1 DEF Opening, On, bounds, cached
  <2>6. Turns'
    BY <1>2, <1>3, <1>4, <2>3, ThreeCursorsAssumption DEF Turns, Rests, OthersKept
  <2> QED
    BY <1>2, <1>4, <2>4, <2>5, <2>6 DEF PassInv, Opened, Forwards, Backwards, Reading, LastOnly
<1> QED
  BY <1>7, <1>8

\* The loop of ++.
LEMMA IncPass ==
  ASSUME PassInv, NEW c \in Cursors, UNCHANGED passVars, IncAdvance(c) \/ IncDone(c)
  PROVE  PassInv'
<1>1. /\ PassShape /\ TypeOK /\ op[c] = "inc" /\ UNCHANGED <<hits, view, scanning>>
      /\ UNCHANGED <<prog, pc, out>>
  BY DEF PassInv, PassShape, IncAdvance, IncDone, passVars
<1>2. /\ pc = "test" /\ c = It /\ prog = "forward" /\ it[It].rng = bounds /\ cached # Unset
      /\ On(Bound, bounds.e) /\ scanning[V] = NoCursor /\ Rests(Tmp)
  <2>1. pc = "test" /\ c = It
    BY <1>1, WhoLoops
  <2> QED
    BY <1>1, <2>1 DEF PassInv, Turns, Opened
<1>3. PICK x, f : x = it[It].cur /\ f = from[It]
  OBVIOUS
<1>4. /\ f \in FirstAndAfter /\ f < x /\ NoHitBetween(f, x) /\ ReadUpTo(f)
  BY <1>1, <1>2, <1>3 DEF PassInv, Forwards
<1>5. /\ x \in Int /\ x \in Pos /\ bounds.b <= x /\ x <= bounds.e /\ bounds \in Ranges /\ f \in Int
      /\ It \in Cursors
  BY <1>1, <1>2, <1>3, PassFacts, IterType DEF PassShape
<1>6. bounds' = bounds /\ cached' = cached /\ FirstAndAfter' = FirstAndAfter
  BY <1>1 DEF bounds, cached, FirstAndAfter
<1>7. CASE IncAdvance(c)
  <2>1. Move(It, x + 1) /\ x # bounds.e /\ x \notin hits
    BY <1>2, <1>3, <1>7 DEF IncAdvance, Rejects
  <2>2. x + 1 \in Pos /\ x + 1 <= bounds.e /\ bounds.b <= x + 1
    BY <1>1, <1>5, <2>1, PassFacts DEF Pos
  <2>3. /\ OthersKept(It) /\ it'[It].cur = x + 1 /\ it'[It].rng = bounds /\ op' = op /\ from' = from
        /\ TypeOK'
    BY <1>1, <1>2, <1>5, <2>1, <2>2, MoveStep DEF TypeOK
  <2>4. PassShape'
    BY <1>1, <1>2, <1>5, <2>2, <2>3, ShapeKept DEF PassShape, Programs
  <2>5. On(Bound, bounds.e)' /\ Rests(Tmp)'
    BY <1>2, <1>6, <2>3, ThreeCursorsAssumption DEF OthersKept, On, Rests
  <2>6. Turns' /\ Opened'
    BY <1>1, <1>2, <1>6, <2>3, <2>5 DEF Turns, Opened
  <2>7. Forwards'
    <3>1. NoHitBetween(f, x + 1)
      BY <1>1, <1>4, <1>5, <2>1, GapGrows
    <3>2. NoHitBetween(from[It], it[It].cur)' /\ ReadUpTo(from[It])'
      BY <1>1, <1>3, <1>4, <1>6, <2>3, <3>1 DEF NoHitBetween, ReadUpTo
    <3>3. f < x + 1
      BY <1>4, <1>5
    <3> QED
      BY <1>1, <1>2, <1>3, <1>4, <1>6, <2>3, <3>2, <3>3 DEF Forwards
  <2> QED
    BY <1>1, <1>2, <2>4, <2>6, <2>7 DEF PassInv, Opening, Backwards, Reading, LastOnly
<1>8. CASE IncDone(c)
  <2>1. Settle(It, x, bounds) /\ (x = bounds.e \/ x \in hits)
    BY <1>2, <1>3, <1>8 DEF IncDone, Rejects
  <2>3. /\ OthersKept(It) /\ it'[It].cur = x /\ it'[It].rng = bounds /\ op'[It] = "idle" /\ TypeOK'
    BY <1>1, <1>5, <2>1, SettleStep DEF TypeOK
  <2>4. PassShape'
    BY <1>1, <1>2, <1>5, <2>3, ShapeKept DEF PassShape, Programs
  <2>5. On(Bound, bounds.e)' /\ Rests(Tmp)'
    BY <1>2, <1>6, <2>3, ThreeCursorsAssumption DEF OthersKept, On, Rests
  <2>6. Turns' /\ Opened'
    BY <1>1, <1>2, <1>6, <2>3, <2>5 DEF Turns, Opened
  <2>7. Forwards'
    <3>1. cached <= f
      BY <1>1, <1>4, PassFacts DEF FirstAndAfter, cached, bounds
    <3>2. x \in FirstAndAfter \cup {bounds.e}
      BY <1>1, <1>4, <1>5, <2>1, <3>1, PassFacts DEF FirstAndAfter, Shown, cached, bounds
    <3>3. {y \in FirstAndAfter : y <= x - 1} = {y \in FirstAndAfter : y <= f}
      <4>1. ASSUME NEW y \in FirstAndAfter PROVE y \in Int /\ (y <= x - 1 <=> y <= f)
        <5>1. y \in Int /\ (y = cached \/ y \in hits)
          BY <1>1, PassFacts DEF FirstAndAfter, Shown, cached
        <5>2. CASE y = cached
          BY <1>4, <1>5, <3>1, <5>1, <5>2
        <5>3. CASE y \in hits
          BY <1>4, <1>5, <5>1, <5>3 DEF NoHitBetween
        <5> QED
          BY <5>1, <5>2, <5>3
      <4> QED
        BY <4>1
    <3>4. Len(out) <= x - 1
      <4>1. Len(out) \in Nat /\ Len(out) <= f
        BY <1>1, <1>4 DEF PassShape, ReadUpTo
      <4> QED
        BY <1>4, <1>5, <4>1
    <3>5. ReadUpTo(x - 1)
      BY <1>4, <3>3, <3>4 DEF ReadUpTo
    <3>6. ReadUpTo(it[It].cur - 1)'
      BY <1>1, <1>6, <2>3, <3>5 DEF ReadUpTo
    <3> QED
      BY <1>1, <1>2, <1>6, <2>3, <3>2, <3>6 DEF Forwards
  <2> QED
    BY <1>1, <1>2, <2>4, <2>6, <2>7 DEF PassInv, Opening, Backwards, Reading, LastOnly
<1> QED
  BY <1>7, <1>8

\* Where a traversal that is not forward stands while it reads.
LEMMA BackwardStands ==
  ASSUME PassInv, prog # "forward", pc \in {"test", "prev", "read"}, op[It] = "idle"
  PROVE  /\ PassShape /\ TypeOK /\ prog \in {"reverse", "last"} /\ cached # Unset
         /\ it[It].rng = bounds /\ it[It].cur \in Int /\ it[It].cur \in Pos
         /\ bounds.b <= it[It].cur /\ it[It].cur <= bounds.e
         /\ On(Bound, cached) /\ scanning[V] = NoCursor
         /\ Fresh => cached <= it[It].cur /\ it[It].cur \in Shown(hits, bounds) \cup {bounds.e}
<1>1. PassShape /\ TypeOK /\ cached # Unset /\ it[It].rng = bounds /\ On(Bound, cached)
  BY DEF PassInv, PassShape, Opened
<1>2. prog \in {"reverse", "last"}
  BY <1>1 DEF PassShape, Programs
<1>3. it[It].cur \in Int /\ it[It].cur \in Pos /\ bounds.b <= it[It].cur /\ it[It].cur <= bounds.e
  BY <1>1, PassFacts, IterType DEF PassShape
<1>4. scanning[V] = NoCursor
  BY DEF PassInv, Turns
<1>5. ASSUME Fresh
      PROVE  cached <= it[It].cur /\ it[It].cur \in Shown(hits, bounds) \cup {bounds.e}
  <2>1. it[It].cur \in Shown(hits, bounds) \cup {bounds.e}
    BY <1>2, <1>5 DEF PassInv, Backwards, LastOnly, On
  <2>2. cached \in Int /\ cached <= bounds.e /\ \A z \in Shown(hits, bounds) : bounds.b <= z => cached <= z
    BY <1>1, <1>5, PassFacts DEF Fresh, IsFirstFrom, bounds, cached, PassShape
  <2> QED
    BY <1>3, <2>1, <2>2
<1> QED
  BY <1>1, <1>2, <1>3, <1>4, <1>5

\* To read, reverse_iterator and std::prev copy the iterator, ...
LEMMA CopyPass ==
  ASSUME PassInv, CopyToRead
  PROVE  PassInv'
<1>1. /\ pc = "test" /\ prog \in {"reverse", "last"} /\ op[It] = "idle"
      /\ it[It].cur # it[Bound].cur /\ pc' = "prev" /\ UNCHANGED <<prog, out>>
      /\ Enter(Tmp, "idle", it[It].cur, it[It].rng, 0) /\ UNCHANGED <<hits, view, scanning>>
  BY DEF CopyToRead, InLoop, Assign
<1>2. PICK x : x = it[It].cur
  OBVIOUS
<1>3. /\ PassShape /\ TypeOK /\ cached # Unset /\ it[It].rng = bounds /\ x \in Int /\ x \in Pos
      /\ bounds.b <= x /\ x <= bounds.e /\ On(Bound, cached) /\ scanning[V] = NoCursor
  BY <1>1, <1>2, BackwardStands
<1>4. bounds \in Ranges /\ Tmp \in Cursors /\ It \in Cursors /\ "idle" \in Ops /\ 0 \in {0} \cup Pos
  BY <1>3, PassFacts DEF Ops
<1>5. /\ OthersKept(Tmp) /\ it'[Tmp].cur = x /\ it'[Tmp].rng = bounds /\ op'[Tmp] = "idle" /\ TypeOK'
  BY <1>1, <1>2, <1>3, <1>4, EnterStep DEF TypeOK
<1>6. PassShape'
  BY <1>1, <1>3, <1>4, <1>5, ShapeKept DEF PassShape, Programs
<1>7. /\ it'[It] = it[It] /\ op'[It] = op[It] /\ it'[Bound] = it[Bound] /\ op'[Bound] = op[Bound]
      /\ bounds' = bounds /\ cached' = cached
  BY <1>1, <1>5, ThreeCursorsAssumption DEF OthersKept, bounds, cached
<1>8. On(Bound, cached)' /\ Turns'
  BY <1>1, <1>3, <1>5, <1>7 DEF On, Turns
<1>9. it'[Tmp] = it'[It]
  <2>1. it[It] \in [cur : Pos, rng : Ranges] /\ it'[Tmp] \in [cur : Pos, rng : Ranges]
    BY <1>3, <1>4, <1>5 DEF TypeOK
  <2>2. it[It] = [cur |-> x, rng |-> bounds] /\ it'[Tmp] = [cur |-> x, rng |-> bounds]
    BY <1>2, <1>3, <1>5, <2>1
  <2> QED
    BY <1>7, <2>2
<1>10. Opened' /\ Reading'
  BY <1>1, <1>2, <1>3, <1>7, <1>8, <1>9 DEF Opened, Reading, On
<1>11. Backwards'
  BY <1>1, <1>7 DEF PassInv, Backwards, ReadDownTo, Fresh, bounds
<1>12. LastOnly'
  BY <1>1, <1>7 DEF PassInv, LastOnly, On
<1> QED
  BY <1>1, <1>6, <1>8, <1>10, <1>11, <1>12 DEF PassInv, Opening, Forwards

\* ... and decrement the copy.
LEMMA StepPass ==
  ASSUME PassInv, StepToRead
  PROVE  PassInv'
<1>1. /\ pc = "prev" /\ pc' = "read" /\ UNCHANGED <<prog, out>> /\ op[It] = "idle" /\ prog # "forward"
      /\ it[It].cur # cached /\ it[Tmp] = it[It] /\ (Dec(Tmp) \/ DecAtBounds(Tmp))
  BY DEF PassInv, StepToRead, Turns, Reading
<1>2. PICK x : x = it[It].cur
  OBVIOUS
<1>3. /\ PassShape /\ TypeOK /\ cached # Unset /\ it[It].rng = bounds /\ x \in Int /\ x \in Pos
      /\ bounds.b <= x /\ x <= bounds.e /\ On(Bound, cached) /\ scanning[V] = NoCursor
      /\ prog \in {"reverse", "last"} /\ (Fresh => cached <= x)
      /\ it[Tmp].rng = bounds /\ it[Tmp].cur = x /\ x # cached
  BY <1>1, <1>2, BackwardStands
<1>4. bounds \in Ranges /\ bounds.b \in Pos /\ bounds.e \in Pos /\ Tmp \in Cursors /\ It \in Cursors
      /\ cached \in Int /\ bounds.b \in Int /\ bounds.e \in Int /\ bounds.b <= bounds.e
      /\ bounds.e <= N + 1 /\ 1 <= bounds.b
  BY <1>3, PassFacts
<1>5. /\ OthersKept(Tmp) /\ it'[Tmp].rng = bounds /\ TypeOK' /\ op'[Tmp] \in {"idle", "dec"}
      /\ bounds.b <= it'[Tmp].cur /\ it'[Tmp].cur <= bounds.e /\ UNCHANGED <<hits, view, scanning>>
      /\ Fresh => op'[Tmp] = "dec" /\ it'[Tmp].cur = x - 1
  <2>1. CASE Dec(Tmp)
    <3>1. Enter(Tmp, "dec", x - 1, bounds, x) /\ UNCHANGED <<hits, view, scanning>> /\ x # bounds.b
      BY <1>3, <2>1 DEF Dec
    <3>2. x - 1 \in Pos /\ bounds.b <= x - 1 /\ x - 1 <= bounds.e /\ "dec" \in Ops /\ x \in {0} \cup Pos
      BY <1>3, <1>4, <3>1 DEF Pos, Ops
    <3> QED
      BY <1>3, <1>4, <3>1, <3>2, EnterStep DEF TypeOK
  <2>2. CASE DecAtBounds(Tmp)
    <3>1. Settle(Tmp, bounds.e, bounds) /\ UNCHANGED <<hits, view, scanning>> /\ x = bounds.b
      BY <1>3, <2>2 DEF DecAtBounds
    <3>2. ~Fresh
      BY <1>3, <1>4, <3>1 DEF PassShape
    <3> QED
      BY <1>3, <1>4, <3>1, <3>2, SettleStep DEF TypeOK
  <2> QED
    BY <1>1, <2>1, <2>2
<1>6. PassShape'
  BY <1>1, <1>3, <1>4, <1>5, ShapeKept DEF PassShape, Programs
<1>7. /\ it'[It] = it[It] /\ op'[It] = op[It] /\ it'[Bound] = it[Bound] /\ op'[Bound] = op[Bound]
      /\ bounds' = bounds /\ cached' = cached
  BY <1>5, ThreeCursorsAssumption DEF OthersKept, bounds, cached
<1>8. On(Bound, cached)' /\ Turns'
  BY <1>1, <1>3, <1>5, <1>7 DEF On, Turns
<1>9. Opened'
  BY <1>1, <1>3, <1>7, <1>8 DEF Opened
<1>10. Reading'
  <2>1. NoHitBetween(x - 1, x)'
    BY <1>3, <1>5, AdjacentGap DEF NoHitBetween
  <2>2. Fresh' = Fresh /\ x - 1 < x
    BY <1>3, <1>5 DEF Fresh
  <2> QED
    <3>1. Fresh => NoHitBetween(it[Tmp].cur, it[It].cur)'
      BY <1>2, <1>5, <1>7, <2>1 DEF NoHitBetween
    <3>2. Fresh => it'[Tmp].cur < it'[It].cur /\ op'[Tmp] = "dec"
      BY <1>2, <1>5, <1>7, <2>2
    <3>3. it'[It].cur # cached' /\ it'[Tmp].rng = bounds' /\ pc' = "read" /\ prog' # "forward"
      BY <1>1, <1>5, <1>7
    <3> QED
      BY <2>2, <3>1, <3>2, <3>3 DEF Reading
<1>11. Backwards'
  BY <1>1, <1>5, <1>7 DEF PassInv, Backwards, ReadDownTo, Fresh, bounds
<1>12. LastOnly'
  BY <1>1, <1>7 DEF PassInv, LastOnly, On
<1> QED
  BY <1>1, <1>6, <1>8, <1>9, <1>10, <1>11, <1>12 DEF PassInv, Opening, Forwards

\* Once the copy stands, it stands on the last match before the iterator.
LEMMA CopyStands ==
  ASSUME PassInv, pc = "read", op[Tmp] = "idle", Fresh
  PROVE  /\ it[Tmp].cur \in Shown(hits, bounds) /\ it[Tmp].cur \in Int /\ it[Tmp].cur < it[It].cur
         /\ \A y \in Shown(hits, bounds) : y < it[It].cur <=> y <= it[Tmp].cur
<1>1. /\ it[Tmp].rng = bounds /\ it[Tmp].cur < it[It].cur /\ NoHitBetween(it[Tmp].cur, it[It].cur)
      /\ it[Tmp].cur \in hits /\ op[It] = "idle" /\ prog # "forward"
  BY DEF PassInv, Reading, Turns
<1>2. /\ PassShape /\ it[It].cur \in Int /\ it[It].cur <= bounds.e
  BY <1>1, BackwardStands
<1>3. /\ it[Tmp].cur \in Int /\ bounds.b <= it[Tmp].cur /\ Shown(hits, bounds) \subseteq Int
      /\ bounds.e \in Int /\ bounds.b \in Int
  BY <1>1, <1>2, PassFacts, IterType DEF PassShape
<1>4. it[Tmp].cur \in Shown(hits, bounds)
  BY <1>1, <1>2, <1>3 DEF Shown
<1>5. ASSUME NEW y \in Shown(hits, bounds)
      PROVE  y < it[It].cur <=> y <= it[Tmp].cur
  <2>1. y \in hits /\ y \in Int
    BY <1>3 DEF Shown
  <2> QED
    BY <1>1, <1>2, <1>3, <2>1 DEF NoHitBetween
<1> QED
  BY <1>1, <1>3, <1>4, <1>5

\* A reversed traversal reads through the copy, and the iterator follows it.
LEMMA ReadReversePass ==
  ASSUME PassInv, ReadReverse
  PROVE  PassInv'
<1>1. /\ pc = "read" /\ prog = "reverse" /\ op[Tmp] = "idle" /\ op[It] = "idle" /\ pc' = "test"
      /\ prog' = prog /\ it[It].cur # cached
      /\ Dec(It) \/ DecAtBounds(It)
      /\ out' = IF Len(out) > N THEN out ELSE Append(out, it[Tmp].cur)
  BY DEF PassInv, ReadReverse, Turns, Reading, Read
<1>2. PICK x, t : x = it[It].cur /\ t = it[Tmp].cur
  OBVIOUS
<1>3. /\ PassShape /\ TypeOK /\ cached # Unset /\ it[It].rng = bounds /\ x \in Int /\ x \in Pos
      /\ bounds.b <= x /\ x <= bounds.e /\ On(Bound, cached) /\ scanning[V] = NoCursor
      /\ (Fresh => cached <= x)
  BY <1>1, <1>2, BackwardStands
<1>4. bounds \in Ranges /\ bounds.b \in Pos /\ bounds.e \in Pos /\ Tmp \in Cursors /\ It \in Cursors
      /\ cached \in Int /\ bounds.b \in Int /\ bounds.e \in Int /\ bounds.b <= bounds.e
      /\ bounds.e <= N + 1 /\ 1 <= bounds.b /\ t \in Pos /\ t \in Int
  BY <1>2, <1>3, PassFacts, IterType
<1>5. /\ OthersKept(It) /\ it'[It].rng = bounds /\ TypeOK' /\ op'[It] \in {"idle", "dec"}
      /\ bounds.b <= it'[It].cur /\ it'[It].cur <= bounds.e /\ UNCHANGED <<hits, view, scanning>>
      /\ Fresh => op'[It] = "dec" /\ it'[It].cur = x - 1
  <2>1. CASE Dec(It)
    <3>1. Enter(It, "dec", x - 1, bounds, x) /\ UNCHANGED <<hits, view, scanning>> /\ x # bounds.b
      BY <1>2, <1>3, <2>1 DEF Dec
    <3>2. x - 1 \in Pos /\ bounds.b <= x - 1 /\ x - 1 <= bounds.e /\ "dec" \in Ops /\ x \in {0} \cup Pos
      BY <1>3, <1>4, <3>1 DEF Pos, Ops
    <3> QED
      BY <1>3, <1>4, <3>1, <3>2, EnterStep DEF TypeOK
  <2>2. CASE DecAtBounds(It)
    <3>1. Settle(It, bounds.e, bounds) /\ UNCHANGED <<hits, view, scanning>> /\ x = bounds.b
      BY <1>2, <1>3, <2>2 DEF DecAtBounds
    <3>2. ~Fresh
      BY <1>1, <1>2, <1>3, <1>4, <3>1 DEF PassShape
    <3> QED
      BY <1>3, <1>4, <3>1, <3>2, SettleStep DEF TypeOK
  <2> QED
    BY <1>1, <2>1, <2>2
<1>6. PassShape'
  <2>1. out' \in Seq(Pos)
    BY <1>1, <1>2, <1>3, <1>4 DEF PassShape
  <2> QED
    BY <1>1, <1>3, <1>4, <1>5, <2>1, ShapeKept DEF Programs
<1>7. /\ it'[Tmp] = it[Tmp] /\ op'[Tmp] = op[Tmp] /\ it'[Bound] = it[Bound] /\ op'[Bound] = op[Bound]
      /\ bounds' = bounds /\ cached' = cached /\ Fresh' = Fresh
  BY <1>5, ThreeCursorsAssumption DEF OthersKept, bounds, cached, Fresh
<1>8. On(Bound, cached)' /\ Turns'
  BY <1>1, <1>3, <1>5, <1>7 DEF On, Turns, Rests
<1>9. Opened'
  BY <1>1, <1>3, <1>5, <1>7, <1>8 DEF Opened
<1>10. Backwards'
  <2> SUFFICES ASSUME Fresh
               PROVE  t \in Shown(hits, bounds) /\ t <= x - 1 /\ NoHitBetween(t, x) /\ ReadDownTo(t)'
    <3>1. (x - 1) + 1 = x
      BY <1>3
    <3>2. (Shown(hits, bounds))' = Shown(hits, bounds) /\ t' = t /\ NoHitBetween(t, x)' = NoHitBetween(t, x)
      BY <1>5, <1>7 DEF NoHitBetween
    <3> QED
      BY <1>1, <1>5, <1>7, <3>1, <3>2 DEF Backwards
  <2>1. /\ t \in Shown(hits, bounds) /\ t < x
        /\ \A y \in Shown(hits, bounds) : y < x <=> y <= t
    BY <1>1, <1>2, CopyStands
  <2>2. NoHitBetween(t, x)
    BY <1>1, <1>2 DEF PassInv, Reading
  <2>3. ReadDownTo(x)
    BY <1>1, <1>2 DEF PassInv, Backwards
  <2>4. /\ Len(out) \in Nat /\ Len(out) <= bounds.e - x /\ out \in Seq(Pos)
        /\ Lists(Reverse(out), {y \in Shown(hits, bounds) : x <= y})
    BY <1>3, <2>3 DEF PassShape, ReadDownTo
  <2>5. out' = Append(out, t) /\ Len(out') = Len(out) + 1 /\ Len(out') <= bounds.e - t
    <3>1. Len(out) <= N
      BY <1>3, <1>4, <2>4
    <3>2. out' = Append(out, t) /\ Len(out') = Len(out) + 1
      BY <1>1, <1>2, <1>4, <2>4, <3>1
    <3> QED
      BY <1>3, <1>4, <2>1, <2>4, <3>2
  <2>6. Lists(Reverse(out'), {y \in Shown(hits, bounds) : x <= y} \cup {t})
    <3>1. \A y \in {y \in Shown(hits, bounds) : x <= y} : t < y
      BY <1>3, <1>4, <2>1, PassFacts
    <3>2. out \in Seq(Int)
      BY <2>4 DEF Pos
    <3> QED
      BY <1>4, <2>4, <2>5, <3>1, <3>2, ListsAppendBack
  <2>7. {y \in Shown(hits, bounds) : x <= y} \cup {t} = {y \in Shown(hits, bounds) : t <= y}
    <3>1. \A y \in Shown(hits, bounds) : y \in Int
      BY <1>3, PassFacts
    <3>2. \A y \in Shown(hits, bounds) : x <= y \/ y = t <=> t <= y
      BY <1>3, <1>4, <2>1, <3>1
    <3> QED
      BY <2>1, <3>2
  <2>8. ReadDownTo(t)'
    BY <1>5, <1>7, <2>5, <2>6, <2>7 DEF ReadDownTo
  <2> QED
    BY <1>3, <1>4, <2>1, <2>2, <2>8
<1> QED
  BY <1>1, <1>6, <1>8, <1>9, <1>10 DEF PassInv, Opening, Forwards, Reading, LastOnly

\* last() reads through its copy, once.
LEMMA ReadLastPass ==
  ASSUME PassInv, ReadLast
  PROVE  PassInv'
<1>1. /\ pc = "read" /\ prog = "last" /\ op[Tmp] = "idle" /\ op[It] = "idle" /\ pc' = "ready"
      /\ prog' = prog /\ UNCHANGED vars /\ out = <<>> /\ it[It].cur = bounds.e
      /\ out' = IF Len(out) > N THEN out ELSE Append(out, it[Tmp].cur)
  BY DEF PassInv, ReadLast, Turns, Read, LastOnly, On
<1>2. PassShape /\ TypeOK /\ On(Bound, cached) /\ scanning[V] = NoCursor
  BY <1>1, BackwardStands
<1>3. it[Tmp].cur \in Pos /\ out' = <<it[Tmp].cur>>
  BY <1>1, <1>2, PassFacts, IterType
<1>4. UNCHANGED <<hits, view, scanning, it, op, from, bounds, cached>>
  BY <1>1 DEF vars, bounds, cached
<1>5. PassShape'
  BY <1>1, <1>2, <1>3, <1>4 DEF PassShape, TypeOK
<1>6. Turns'
  BY <1>1, <1>2, <1>4, ThreeCursorsAssumption DEF Turns, Rests, On
<1>7. LastOnly'
  <2> SUFFICES ASSUME Fresh PROVE Shown(hits, bounds) # {} /\ it[Tmp].cur = Max(Shown(hits, bounds))
    BY <1>1, <1>3, <1>4 DEF LastOnly, Fresh
  <2>1. /\ it[Tmp].cur \in Shown(hits, bounds)
        /\ \A y \in Shown(hits, bounds) : y \in Int /\ it[Tmp].cur >= y
    BY <1>1, <1>2, CopyStands, PassFacts DEF Shown
  <2> QED
    BY <2>1 DEF Max
<1> QED
  BY <1>1, <1>5, <1>6, <1>7 DEF PassInv, Opening, Opened, Forwards, Backwards, Reading

\* The loop of --, of the iterator itself ...
LEMMA DecItPass ==
  ASSUME PassInv, UNCHANGED passVars, pc = "test", DecRetreat(It) \/ DecDone(It)
  PROVE  PassInv'
<1>1. /\ PassShape /\ TypeOK /\ op[It] = "dec" /\ prog # "forward" /\ cached # Unset
      /\ it[It].rng = bounds /\ On(Bound, cached) /\ scanning[V] = NoCursor /\ Rests(Tmp)
      /\ UNCHANGED <<hits, view, scanning, prog, pc, out>>
  BY DEF PassInv, PassShape, DecRetreat, DecDone, passVars, Turns, Opened
<1>2. prog = "reverse"
  BY <1>1 DEF PassInv, PassShape, Programs, LastOnly, On
<1>3. PICK x : x = it[It].cur
  OBVIOUS
<1>4. /\ bounds \in Ranges /\ bounds.b \in Pos /\ bounds.e \in Pos /\ It \in Cursors
      /\ bounds.b \in Int /\ bounds.e \in Int /\ 1 <= bounds.b /\ bounds.e <= N + 1
      /\ x \in Pos /\ x \in Int /\ bounds.b <= x /\ x <= bounds.e
  BY <1>1, <1>3, PassFacts, IterType DEF PassShape
<1>5. PICK y : y = IF DecRetreat(It) THEN x - 1 ELSE IF x \in hits THEN x ELSE bounds.e
  OBVIOUS
<1>6. /\ OthersKept(It) /\ it'[It].rng = bounds /\ it'[It].cur = y /\ TypeOK'
      /\ bounds.b <= y /\ y <= bounds.e
      /\ op'[It] = IF DecRetreat(It) THEN "dec" ELSE "idle"
      /\ DecRetreat(It) => x # bounds.b /\ x \notin hits
      /\ ~DecRetreat(It) => x = bounds.b \/ x \in hits
  <2>1. CASE DecRetreat(It)
    <3>1. Move(It, x - 1) /\ x # bounds.b /\ x \notin hits /\ y = x - 1
      BY <1>1, <1>3, <1>5, <2>1 DEF DecRetreat
    <3>2. x - 1 \in Pos /\ bounds.b <= x - 1 /\ x - 1 <= bounds.e
      BY <1>4, <3>1 DEF Pos
    <3> QED
      BY <1>1, <1>4, <2>1, <3>1, <3>2, MoveStep DEF TypeOK
  <2>2. CASE ~DecRetreat(It)
    <3>1. Settle(It, y, bounds) /\ y \in Pos /\ (x = bounds.b \/ x \in hits)
      BY <1>1, <1>3, <1>4, <1>5, <2>2 DEF DecDone
    <3>2. bounds.b <= y /\ y <= bounds.e
      BY <1>4, <1>5, <2>2, <1>1, PassFacts
    <3> QED
      BY <1>1, <1>4, <2>2, <3>1, <3>2, SettleStep DEF TypeOK
  <2> QED
    BY <2>1, <2>2
<1>7. PassShape'
  BY <1>1, <1>2, <1>4, <1>6, ShapeKept DEF PassShape, Programs
<1>8. /\ it'[Bound] = it[Bound] /\ op'[Bound] = op[Bound] /\ Rests(Tmp)' = Rests(Tmp)
      /\ bounds' = bounds /\ cached' = cached /\ Fresh' = Fresh
  BY <1>1, <1>6, ThreeCursorsAssumption DEF OthersKept, bounds, cached, Fresh, Rests
<1>9. Turns' /\ Opened'
  BY <1>1, <1>2, <1>6, <1>8 DEF Turns, Opened, On
<1>10. Backwards'
  <2> SUFFICES ASSUME Fresh PROVE Backwards'
    BY <1>8 DEF Backwards
  <2>1. PICK t \in Shown(hits, bounds) : t <= x /\ NoHitBetween(t, x + 1) /\ ReadDownTo(t)
    BY <1>1, <1>2, <1>3 DEF PassInv, Backwards
  <2>2. t \in Int /\ t \in hits /\ bounds.b <= t
    BY <1>1, PassFacts DEF Shown
  <2>3. ReadDownTo(t)' /\ (Shown(hits, bounds))' = Shown(hits, bounds)
    BY <1>1, <1>8, <2>1 DEF ReadDownTo
  <2>4. CASE DecRetreat(It)
    <3>1. t <= x - 1 /\ (x - 1) + 1 = x
      BY <1>4, <1>6, <2>1, <2>2, <2>4
    <3>2. NoHitBetween(t, x)
      BY <1>1, <1>4, <2>1, <2>2, PassFacts DEF NoHitBetween
    <3>3. t <= it'[It].cur /\ NoHitBetween(t, it[It].cur + 1)'
      BY <1>1, <1>5, <1>6, <2>4, <3>1, <3>2 DEF NoHitBetween
    <3> QED
      BY <1>1, <1>2, <1>6, <2>3, <2>4, <3>3 DEF Backwards
  <2>5. CASE ~DecRetreat(It)
    <3>1. x = t
      <4>1. CASE x \in hits
        BY <1>4, <2>1, <2>2, <4>1 DEF NoHitBetween
      <4>2. CASE x = bounds.b
        BY <1>4, <2>1, <2>2, <4>2
      <4> QED
        BY <1>6, <2>5, <4>1, <4>2
    <3>2. it'[It].cur = t
      BY <1>5, <1>6, <2>2, <2>5, <3>1
    <3> QED
      BY <1>1, <1>2, <1>6, <2>3, <2>5, <3>2 DEF Backwards
  <2> QED
    BY <2>4, <2>5
<1> QED
  BY <1>1, <1>2, <1>7, <1>9, <1>10 DEF PassInv, Opening, Forwards, Reading, LastOnly

\* ... and of the copy.
LEMMA DecTmpPass ==
  ASSUME PassInv, UNCHANGED passVars, pc = "read", DecRetreat(Tmp) \/ DecDone(Tmp)
  PROVE  PassInv'
<1>1. /\ PassShape /\ TypeOK /\ op[Tmp] = "dec" /\ op[It] = "idle" /\ prog # "forward"
      /\ cached # Unset /\ it[It].rng = bounds /\ On(Bound, cached) /\ scanning[V] = NoCursor
      /\ it[It].cur # cached /\ UNCHANGED <<hits, view, scanning, prog, pc, out>>
  BY DEF PassInv, PassShape, DecRetreat, DecDone, passVars, Turns, Opened, Reading
<1>2. PICK x, r, z : x = it[Tmp].cur /\ r = it[Tmp].rng /\ z = it[It].cur
  OBVIOUS
<1>4. /\ r \in Ranges /\ r.b \in Pos /\ r.e \in Pos /\ Tmp \in Cursors /\ It \in Cursors
      /\ r.b \in Int /\ r.e \in Int /\ 1 <= r.b /\ r.e <= N + 1
      /\ x \in Pos /\ x \in Int /\ r.b <= x /\ x <= r.e /\ z \in Int
  BY <1>1, <1>2, PassFacts, IterType, RangeType DEF PassShape
<1>5. PICK y : y = IF DecRetreat(Tmp) THEN x - 1 ELSE IF x \in hits THEN x ELSE r.e
  OBVIOUS
<1>6. /\ OthersKept(Tmp) /\ it'[Tmp].rng = r /\ it'[Tmp].cur = y /\ TypeOK'
      /\ r.b <= y /\ y <= r.e
      /\ op'[Tmp] = IF DecRetreat(Tmp) THEN "dec" ELSE "idle"
      /\ DecRetreat(Tmp) => x # r.b /\ x \notin hits
      /\ ~DecRetreat(Tmp) => x = r.b \/ x \in hits
  <2>1. CASE DecRetreat(Tmp)
    <3>1. Move(Tmp, x - 1) /\ x # r.b /\ x \notin hits /\ y = x - 1
      BY <1>1, <1>2, <1>5, <2>1 DEF DecRetreat
    <3>2. x - 1 \in Pos /\ r.b <= x - 1 /\ x - 1 <= r.e
      BY <1>4, <3>1 DEF Pos
    <3> QED
      BY <1>1, <1>2, <1>4, <2>1, <3>1, <3>2, MoveStep DEF TypeOK
  <2>2. CASE ~DecRetreat(Tmp)
    <3>1. Settle(Tmp, y, r) /\ y \in Pos /\ (x = r.b \/ x \in hits)
      BY <1>1, <1>2, <1>4, <1>5, <2>2 DEF DecDone
    <3>2. r.b <= y /\ y <= r.e
      BY <1>4, <1>5, <2>2
    <3> QED
      BY <1>1, <1>4, <2>2, <3>1, <3>2, SettleStep DEF TypeOK
  <2> QED
    BY <2>1, <2>2
<1>7. PassShape'
  BY <1>1, <1>4, <1>6, ShapeKept DEF PassShape, Programs
<1>8. /\ it'[Bound] = it[Bound] /\ op'[Bound] = op[Bound] /\ it'[It] = it[It] /\ op'[It] = op[It]
      /\ bounds' = bounds /\ cached' = cached /\ Fresh' = Fresh
  BY <1>1, <1>6, ThreeCursorsAssumption DEF OthersKept, bounds, cached, Fresh
<1>9. Turns' /\ Opened'
  BY <1>1, <1>6, <1>8 DEF Turns, Opened, On
<1>10. Reading'
  <2>1. ASSUME Fresh
        PROVE  /\ it'[Tmp].rng = bounds /\ it'[Tmp].cur < z /\ NoHitBetween(it'[Tmp].cur, z)
               /\ op'[Tmp] = "idle" => it'[Tmp].cur \in hits
    <3>1. r = bounds /\ x < z /\ NoHitBetween(x, z) /\ cached \in Int /\ bounds.b <= cached
      BY <1>1, <1>2, <2>1, PassFacts DEF PassInv, Reading, PassShape
    <3>2. cached <= z /\ z \in Shown(hits, bounds) \cup {bounds.e} /\ cached # z
      BY <1>1, <1>2, <2>1, BackwardStands
    <3>3. cached \in hits
      <4>1. cached \in Shown(hits, bounds) \cup {bounds.e}
        BY <1>1, <2>1 DEF Fresh, IsFirstFrom, bounds, cached
      <4>2. z <= bounds.e /\ bounds.e \in Int
        BY <1>1, <1>2, <3>2, BackwardStands, PassFacts
      <4> QED
        BY <1>4, <3>1, <3>2, <4>1, <4>2 DEF Shown
    <3>4. CASE DecRetreat(Tmp)
      <4>1. NoHitBetween(x - 1, z)
        BY <1>1, <1>4, <1>6, <3>1, <3>4, GapGrows
      <4> QED
        BY <1>4, <1>5, <1>6, <3>1, <3>4, <4>1
    <3>5. CASE ~DecRetreat(Tmp)
      <4>1. x \in hits
        <5> SUFFICES ASSUME x = bounds.b PROVE x \in hits
          BY <1>6, <3>1, <3>5
        <5>1. cached < z
          BY <1>4, <3>1, <3>2
        <5>2. cached = x
          BY <1>4, <3>1, <3>3, <5>1 DEF NoHitBetween
        <5> QED
          BY <3>3, <5>2
      <4> QED
        BY <1>5, <1>6, <3>1, <3>5, <4>1
    <3> QED
      BY <3>4, <3>5
  <2>2. Fresh => NoHitBetween(it[Tmp].cur, it[It].cur)'
    BY <1>1, <1>2, <1>8, <2>1 DEF NoHitBetween
  <2> QED
    BY <1>1, <1>2, <1>8, <2>1, <2>2 DEF Reading
<1>11. Backwards'
  BY <1>1, <1>8 DEF PassInv, Backwards, ReadDownTo
<1>12. LastOnly'
  BY <1>1, <1>8 DEF PassInv, LastOnly, On
<1> QED
  BY <1>1, <1>7, <1>9, <1>10, <1>11, <1>12 DEF PassInv, Opening, Forwards

\* A write: nothing is under way, and the last traversal is forgotten.
LEMMA WritePass ==
  ASSUME PassInv, NEW x \in 1 .. N, WriteBetween(x)
  PROVE  PassInv'
<1>1. /\ PassShape /\ TypeOK /\ pc = "ready" /\ pc' = "ready" /\ prog' = "none" /\ out' = <<>>
      /\ UNCHANGED <<view, scanning, it, op, from>> /\ hits' \subseteq 1 .. N
  BY DEF PassInv, PassShape, WriteBetween, Write, TypeOK
<1>2. PassShape'
  BY <1>1 DEF PassShape, TypeOK, bounds, cached
<1>3. Turns'
  BY <1>1 DEF PassInv, Turns, Rests
<1> QED
  BY <1>1, <1>2, <1>3 DEF PassInv, Opening, Opened, Forwards, Backwards, Reading, LastOnly

LEMMA InitPassInv == InitPass => PassInv
<1> SUFFICES ASSUME InitPass PROVE PassInv
  OBVIOUS
<1>1. IInv
  BY InitIInv DEF InitPass
<1>2. /\ prog = "none" /\ pc = "ready" /\ out = <<>> /\ \A c \in Cursors : op[c] = "none"
      /\ \A v \in Views : scanning[v] = NoCursor /\ view[v].first = Unset
  BY DEF InitPass, Init
<1>3. V \in Views
  BY OneViewAssumption
<1>4. PassShape
  <2>1. TypeOK /\ \A c \in Cursors : it[c].rng.b <= it[c].cur /\ it[c].cur <= it[c].rng.e
    BY <1>1 DEF IInv, NoMatchPassed, Progress
  <2> QED
    BY <1>2, <1>3, <2>1 DEF PassShape, cached
<1>5. Turns
  BY <1>2, <1>3 DEF Turns, Rests
<1> QED
  BY <1>2, <1>4, <1>5 DEF PassInv, Opening, Opened, Forwards, Backwards, Reading, LastOnly

LEMMA NextPassInv == PassInv /\ [NextPass]_allVars => PassInv'
<1> SUFFICES ASSUME PassInv, [NextPass]_allVars PROVE PassInv'
  OBVIOUS
<1>1. ASSUME NEW c \in Cursors, Loop(c), UNCHANGED passVars PROVE PassInv'
  <2>1. CASE FindAdvance(c)
    BY <1>1, <2>1, FindPass, OneViewAssumption
  <2>2. CASE \E v \in Views : FindDone(c, v)
    BY <1>1, <2>2, FindPass
  <2>3. CASE IncAdvance(c) \/ IncDone(c)
    BY <1>1, <2>3, IncPass
  <2>4. CASE DecRetreat(c) \/ DecDone(c)
    <3>1. (pc = "test" /\ c = It) \/ (pc = "read" /\ c = Tmp)
      <4>1. op[c] = "dec"
        BY <2>4 DEF DecRetreat, DecDone
      <4> QED
        BY <4>1, WhoLoops
    <3> QED
      BY <1>1, <2>4, <3>1, DecItPass, DecTmpPass
  <2> QED
    BY <1>1, <2>1, <2>2, <2>3, <2>4 DEF Loop
<1>2. ASSUME UNCHANGED allVars PROVE PassInv'
  <2>1. UNCHANGED <<hits, view, scanning, it, op, from, prog, pc, out, bounds, cached>>
    BY <1>2 DEF allVars, vars, passVars, bounds, cached
  <2>2. PassShape' /\ Turns'
    BY <2>1 DEF PassInv, PassShape, Turns, TypeOK, Rests, AtEnd
  <2>3. Opening' /\ Opened'
    BY <2>1 DEF PassInv, Opening, Opened, On, AtBegin, NoHitBetween
  <2>4. Forwards'
    BY <2>1 DEF PassInv, Forwards, ReadUpTo, FirstAndAfter, NoHitBetween
  <2>5. Backwards' /\ LastOnly'
    BY <2>1 DEF PassInv, Backwards, LastOnly, ReadDownTo, Fresh, On, NoHitBetween
  <2>6. Reading'
    BY <2>1 DEF PassInv, Reading, Fresh, NoHitBetween
  <2> QED
    BY <2>2, <2>3, <2>4, <2>5, <2>6 DEF PassInv
<1> QED
  BY <1>1, <1>2, StartPass, TakeEndPass, FinishPass, ReadForwardPass, CopyPass, StepPass,
     ReadReversePass, ReadLastPass, WritePass DEF NextPass, Run

\* Over a cached match that is right a whole traversal of where(pred) reads the
\* matches and nothing else, forwards, backwards or the last of them.
THEOREM PassesReadMatches == PassSpec => []ReadsMatches
<1>1. PassInv => ReadsMatches
  <2> SUFFICES ASSUME PassInv, Fresh PROVE ReadsMatches
    BY DEF ReadsMatches
  <2>1. Returned("forward") => Lists(out, Shown(hits, bounds))
    <3> SUFFICES ASSUME Returned("forward") PROVE FirstAndAfter = Shown(hits, bounds)
      BY DEF PassInv, Forwards, Returned
    <3>1. cached # Unset
      BY DEF PassInv, Forwards, Returned
    <3>2. /\ cached \in Shown(hits, bounds) \cup {bounds.e}
          /\ \A z \in Shown(hits, bounds) : bounds.b <= z => cached <= z
      BY <3>1 DEF Fresh, IsFirstFrom, bounds, cached
    <3>3. /\ cached \in Int /\ bounds.e \in Int
          /\ \A z \in Shown(hits, bounds) : z \in Int /\ bounds.b <= z /\ z < bounds.e
      BY PassFacts DEF PassInv, Shown
    <3>4. \A z \in Shown(hits, bounds) : z # bounds.e /\ (z = cached \/ cached < z)
      BY <3>2, <3>3
    <3>5. FirstAndAfter = ({cached} \ {bounds.e}) \cup {y \in Shown(hits, bounds) : cached < y}
      BY DEF FirstAndAfter, bounds, cached
    <3> QED
      BY <3>2, <3>4, <3>5
  <2>2. Returned("reverse") => Lists(Reverse(out), Shown(hits, bounds))
    BY DEF PassInv, Backwards, Returned
  <2>3. Returned("last") =>
          out = IF Shown(hits, bounds) = {} THEN <<>> ELSE <<Max(Shown(hits, bounds))>>
    BY DEF PassInv, LastOnly, Returned
  <2> QED
    BY <2>1, <2>2, <2>3 DEF ReadsMatches, bounds
<1> QED
  BY <1>1, InitPassInv, NextPassInv, PTL DEF PassSpec

\* After writes behind the cache a forward traversal is wrong at its first element only.
THEOREM OnlyFirstIsStale == PassSpec => []StaleOnlyAtFirst
<1>1. PassInv => StaleOnlyAtFirst
  BY DEF PassInv, Forwards, StaleOnlyAtFirst, Returned
<1> QED
  BY <1>1, InitPassInv, NextPassInv, PTL DEF PassSpec
=============================================================================
