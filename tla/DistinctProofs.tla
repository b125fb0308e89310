---------------------------- MODULE DistinctProofs ----------------------------
(***************************************************************************)
(* For storage of any length, any keys and any number of iterators that    *)
(* share their sets in any way: distinct_iterator stands on first          *)
(* occurrences only, and a pass whose set no other iterator inserts into   *)
(* stands on all of them.                                                  *)
(***************************************************************************)
EXTENDS DistinctView, TLAPS

USE LengthAssumption, RangesAssumption, NoSetAssumption

\* The bounds of the view are positions.
LEMMA Bounds ==
  ASSUME TypeOK
  PROVE  /\ rng.b \in Int
         /\ rng.e \in Int
         /\ rng.b \in Pos
         /\ rng.e \in Pos
         /\ 1 <= rng.b
         /\ rng.b <= rng.e
         /\ rng.e <= N + 1
<1>1. rng \in {x \in [b : Pos, e : Pos] : x.b <= x.e}
  BY DEF TypeOK
<1> QED
  BY <1>1 DEF Pos

\* What the type invariant says of one iterator.
LEMMA IterType ==
  ASSUME TypeOK, NEW c \in Cursors
  PROVE  /\ it[c] \in [cur : Pos, set : Sets \cup {NoSet}]
         /\ it[c].cur \in Pos
         /\ it[c].cur \in Int
         /\ it[c].set \in Sets \cup {NoSet}
         /\ pass[c] \in [start : Pos, on : SUBSET (1 .. N), alone : BOOLEAN]
         /\ pass[c].on \in SUBSET (1 .. N)
         /\ pass[c].alone \in BOOLEAN
BY DEF TypeOK, Pos

-----------------------------------------------------------------------------
(* The conjuncts of the invariant that speak of one iterator each.         *)

CursorOK(c) ==
  /\ it[c].cur \in rng.b .. rng.e
  /\ it[c].set = NoSet => it[c].cur = rng.e /\ op[c] # "skip"
  /\ it[c].set # NoSet =>
       /\ \A y \in rng.b .. it[c].cur - 1 : key[y] \in seen[it[c].set]
       /\ op[c] = "idle" /\ it[c].cur # rng.e => key[it[c].cur] \in seen[it[c].set]
  /\ op[c] = "idle" /\ it[c].cur # rng.e => IsFirstOfKey(it[c].cur)

\* The others that refer to the set of c, which c alone moves on.
SharersOK(c) ==
  pass[c].alone =>
    \A d \in Cursors \ {c} : it[d].set = it[c].set => op[d] = "idle" /\ ~pass[d].alone

\* What c alone has put into its set.
SetOK(c) ==
  pass[c].alone =>
    /\ it[c].set # NoSet
    /\ op[c] \in {"idle", "skip"}
    /\ \A k \in seen[it[c].set] : \E y \in pass[c].on : key[y] = k
    /\ \A x \in 1 .. N :
         x \in pass[c].on <=>
           IsFirstOfKey(x) /\ (x < it[c].cur \/ (x = it[c].cur /\ op[c] = "idle"))

LEMMA Parts ==
  IInv <=> TypeOK /\ \A c \in Cursors : CursorOK(c) /\ SharersOK(c) /\ SetOK(c)
<1>1. IInv => TypeOK /\ \A c \in Cursors : CursorOK(c) /\ SharersOK(c) /\ SetOK(c)
  BY DEF IInv, PlaceInv, PassedIsSeen, OnFirstOfKey, AloneInv, CursorOK, SharersOK, SetOK
<1>2. (\A c \in Cursors : CursorOK(c)) => PlaceInv /\ PassedIsSeen /\ OnFirstOfKey
  BY DEF PlaceInv, PassedIsSeen, OnFirstOfKey, CursorOK
<1>3. (\A c \in Cursors : SharersOK(c) /\ SetOK(c)) => AloneInv
  BY DEF AloneInv, SharersOK, SetOK
<1> QED
  BY <1>1, <1>2, <1>3 DEF IInv

LEMMA Preserved ==
  ASSUME TypeOK', \A c \in Cursors : CursorOK(c)' /\ SharersOK(c)' /\ SetOK(c)'
  PROVE  IInv'
<1>1. PlaceInv' /\ PassedIsSeen' /\ OnFirstOfKey'
  BY DEF PlaceInv, PassedIsSeen, OnFirstOfKey, CursorOK
<1>2. AloneInv'
  BY DEF AloneInv, SharersOK, SetOK
<1> QED
  BY <1>1, <1>2 DEF IInv

\* What an iterator is well placed by stays so while it does not move and its
\* set only grows.
LEMMA CursorKept ==
  ASSUME TypeOK, NEW d \in Cursors, CursorOK(d),
         UNCHANGED <<key, rng>>, it'[d] = it[d], op'[d] = op[d],
         it[d].set # NoSet => seen[it[d].set] \subseteq seen'[it[d].set]
  PROVE  CursorOK(d)'
BY DEF CursorOK, IsFirstOfKey

\* ... and so does what it has done alone, while its set does not change.
LEMMA SetKept ==
  ASSUME TypeOK, NEW d \in Cursors, SetOK(d),
         UNCHANGED <<key, rng>>, it'[d] = it[d], op'[d] = op[d],
         pass'[d].alone => pass[d].alone /\ pass'[d].on = pass[d].on,
         pass'[d].alone => seen'[it[d].set] = seen[it[d].set]
  PROVE  SetOK(d)'
BY DEF SetOK, IsFirstOfKey

\* A set that c moves on is not the set of another iterator that is alone.
LEMMA NotAlone ==
  ASSUME NEW c \in Cursors, NEW d \in Cursors \ {c}, SharersOK(d), op[c] = "skip",
         pass[d].alone
  PROVE  it[d].set # it[c].set
BY DEF SharersOK
-----------------------------------------------------------------------------
LEMMA InitIInv == Init => IInv
<1> SUFFICES ASSUME Init PROVE IInv
  OBVIOUS
<1>1. TypeOK
  <2>1. rng.b \in Pos /\ rng.e \in Pos
    BY DEF Init
  <2> QED
    BY <2>1 DEF Init, TypeOK, Pos
<1>2. ASSUME NEW c \in Cursors PROVE CursorOK(c) /\ SharersOK(c) /\ SetOK(c)
  BY <1>1, Bounds DEF Init, CursorOK, SharersOK, SetOK
<1> QED
  BY <1>1, <1>2, Parts

LEMMA BeginInv ==
  ASSUME IInv, NEW c \in Cursors, NEW s \in Sets, Begin(c, s)
  PROVE  IInv'
<1>1. TypeOK /\ \A d \in Cursors : CursorOK(d) /\ SharersOK(d) /\ SetOK(d)
  BY Parts
<1>2. /\ UNCHANGED <<key, rng>>
      /\ it'[c].cur = rng.b
      /\ it'[c].set = s
      /\ op'[c] = "skip"
      /\ pass'[c].on = {}
      /\ seen'[s] = {}
      /\ \A d \in Cursors \ {c} : it'[d] = it[d] /\ op'[d] = op[d] /\ pass'[d] = pass[d]
      /\ \A d \in Cursors \ {c} : it[d].set # s
      /\ \A t \in Sets \ {s} : seen'[t] = seen[t]
  BY <1>1 DEF Begin, TypeOK, Unreferenced
<1>3. TypeOK'
  <2>1. rng.b \in Pos
    BY <1>1, Bounds
  <2>2. it' \in [Cursors -> [cur : Pos, set : Sets \cup {NoSet}]]
    BY <1>1, <2>1 DEF Begin, TypeOK
  <2>3. pass' \in [Cursors -> [start : Pos, on : SUBSET (1 .. N), alone : BOOLEAN]]
    BY <1>1, <2>1 DEF Begin, TypeOK
  <2> QED
    BY <1>1, <2>2, <2>3 DEF Begin, TypeOK
<1>4. ASSUME NEW d \in Cursors PROVE CursorOK(d)' /\ SharersOK(d)' /\ SetOK(d)'
  <2>1. CASE d = c
    <3>1. CursorOK(c)'
      <4>1. rng.b \in Int /\ rng.e \in Int /\ rng.b <= rng.e
        BY <1>1, Bounds
      <4>2. \A y \in rng.b .. rng.b - 1 : FALSE
        BY <4>1
      <4> QED
        BY <1>2, <4>1, <4>2 DEF CursorOK
    <3>2. SharersOK(c)'
      BY <1>2 DEF SharersOK
    <3>3. SetOK(c)'
      <4>1. \A x \in 1 .. N : ~(IsFirstOfKey(x)' /\ x < rng.b)
        BY <1>1, <1>2, Bounds DEF IsFirstOfKey
      <4> QED
        BY <1>2, <4>1 DEF SetOK
    <3> QED
      BY <2>1, <3>1, <3>2, <3>3
  <2>2. CASE d # c
    <3>1. it[d].set # NoSet => seen'[it[d].set] = seen[it[d].set]
      BY <1>1, <1>2, <2>2, IterType
    <3>2. CursorOK(d)'
      BY <1>1, <1>2, <2>2, <3>1, CursorKept
    <3>3. SharersOK(d)'
      BY <1>1, <1>2, <2>2 DEF SharersOK
    <3>4. SetOK(d)'
      <4>1. pass[d].alone => it[d].set # NoSet
        BY <1>1 DEF SetOK
      <4> QED
        BY <1>1, <1>2, <2>2, <3>1, <4>1, SetKept
    <3> QED
      BY <3>2, <3>3, <3>4
  <2> QED
    BY <2>1, <2>2
<1> QED
  BY <1>3, <1>4, Preserved

LEMMA EndInv ==
  ASSUME IInv, NEW c \in Cursors, End(c)
  PROVE  IInv'
<1>1. TypeOK /\ \A d \in Cursors : CursorOK(d) /\ SharersOK(d) /\ SetOK(d)
  BY Parts
<1>2. /\ UNCHANGED <<key, rng, seen>>
      /\ it'[c].cur = rng.e
      /\ it'[c].set = NoSet
      /\ op'[c] = "idle"
      /\ ~pass'[c].alone
      /\ \A d \in Cursors \ {c} : it'[d] = it[d] /\ op'[d] = op[d] /\ pass'[d] = pass[d]
  BY <1>1 DEF End, TypeOK
<1>3. TypeOK'
  <2>1. rng.e \in Pos
    BY <1>1, Bounds
  <2>2. it' \in [Cursors -> [cur : Pos, set : Sets \cup {NoSet}]]
    BY <1>1, <2>1 DEF End, TypeOK
  <2>3. pass' \in [Cursors -> [start : Pos, on : SUBSET (1 .. N), alone : BOOLEAN]]
    BY <1>1, <2>1 DEF End, TypeOK
  <2> QED
    BY <1>1, <2>2, <2>3 DEF End, TypeOK
<1>4. ASSUME NEW d \in Cursors PROVE CursorOK(d)' /\ SharersOK(d)' /\ SetOK(d)'
  <2>1. CASE d = c
    <3>1. rng.b \in Int /\ rng.e \in Int /\ rng.b <= rng.e
      BY <1>1, Bounds
    <3> QED
      BY <1>2, <2>1, <3>1 DEF CursorOK, SharersOK, SetOK
  <2>2. CASE d # c
    <3>1. CursorOK(d)'
      BY <1>1, <1>2, <2>2, CursorKept
    <3>2. SharersOK(d)'
      <4>1. pass[d].alone => it[d].set # NoSet
        BY <1>1 DEF SetOK
      <4> QED
        BY <1>1, <1>2, <2>2, <4>1 DEF SharersOK
    <3>3. SetOK(d)'
      BY <1>1, <1>2, <2>2, SetKept
    <3> QED
      BY <3>1, <3>2, <3>3
  <2> QED
    BY <2>1, <2>2
<1> QED
  BY <1>3, <1>4, Preserved

LEMMA IncInv ==
  ASSUME IInv, NEW c \in Cursors, Inc(c)
  PROVE  IInv'
<1> DEFINE x == it[c].cur
<1>1. TypeOK /\ \A d \in Cursors : CursorOK(d) /\ SharersOK(d) /\ SetOK(d)
  BY Parts
<1>2. /\ x \in Int
      /\ rng.b \in Int
      /\ rng.e \in Int
      /\ 1 <= rng.b
      /\ rng.b <= x
      /\ x < rng.e
      /\ rng.e <= N + 1
      /\ it[c].set # NoSet
      /\ op[c] = "idle"
  <2>1. x \in Int /\ rng.b \in Int /\ rng.e \in Int /\ 1 <= rng.b /\ rng.e <= N + 1
    BY <1>1, IterType, Bounds
  <2>2. x \in rng.b .. rng.e /\ x # rng.e /\ it[c].set # NoSet /\ op[c] = "idle"
    BY <1>1 DEF CursorOK, Inc
  <2> QED
    BY <2>1, <2>2
<1>3. /\ UNCHANGED <<key, rng, seen>>
      /\ it'[c].cur = x + 1
      /\ it'[c].set = it[c].set
      /\ op'[c] = "skip"
      /\ pass'[c] = pass[c]
      /\ \A d \in Cursors \ {c} : it'[d] = it[d] /\ op'[d] = op[d]
      /\ \A d \in Cursors \ {c} : pass'[d].on = pass[d].on
      /\ \A d \in Cursors \ {c} : pass'[d].alone => pass[d].alone /\ it[d].set # it[c].set
  BY <1>1 DEF Inc, TypeOK
<1>4. TypeOK'
  <2>1. x + 1 \in Pos
    BY <1>2 DEF Pos
  <2>2. it' \in [Cursors -> [cur : Pos, set : Sets \cup {NoSet}]]
    BY <1>1, <2>1 DEF Inc, TypeOK
  <2>3. pass' \in [Cursors -> [start : Pos, on : SUBSET (1 .. N), alone : BOOLEAN]]
    BY <1>1 DEF Inc, TypeOK
  <2> QED
    BY <1>1, <2>2, <2>3 DEF Inc, TypeOK
<1>5. ASSUME NEW d \in Cursors PROVE CursorOK(d)' /\ SharersOK(d)' /\ SetOK(d)'
  <2>1. CASE d = c
    <3>1. CursorOK(c)'
      <4>1. /\ \A y \in rng.b .. x - 1 : key[y] \in seen[it[c].set]
            /\ key[x] \in seen[it[c].set]
        BY <1>1, <1>2 DEF CursorOK
      <4>2. \A y \in rng.b .. (x + 1) - 1 : y \in rng.b .. x - 1 \/ y = x
        BY <1>2
      <4>3. x + 1 \in rng.b .. rng.e
        BY <1>2
      <4> QED
        BY <1>2, <1>3, <4>1, <4>2, <4>3 DEF CursorOK
    <3>2. SharersOK(c)'
      BY <1>1, <1>3 DEF SharersOK
    <3>3. SetOK(c)'
      <4>1. \A y \in 1 .. N : y < x + 1 <=> y < x \/ y = x
        BY <1>2
      <4>2. \A y : IsFirstOfKey(y)' <=> IsFirstOfKey(y)
        BY <1>3 DEF IsFirstOfKey
      <4> QED
        BY <1>1, <1>2, <1>3, <4>1, <4>2 DEF SetOK
    <3> QED
      BY <2>1, <3>1, <3>2, <3>3
  <2>2. CASE d # c
    <3>1. CursorOK(d)'
      BY <1>1, <1>3, <2>2, CursorKept
    <3>2. SharersOK(d)'
      BY <1>1, <1>3, <1>4, <2>2, IterType DEF SharersOK
    <3>3. SetOK(d)'
      BY <1>1, <1>3, <2>2, SetKept
    <3> QED
      BY <3>1, <3>2, <3>3
  <2> QED
    BY <2>1, <2>2
<1> QED
  BY <1>4, <1>5, Preserved

LEMMA SkipInv ==
  ASSUME IInv, NEW c \in Cursors, SkipStep(c) \/ SkipFound(c) \/ SkipEnd(c)
  PROVE  IInv'
<1> DEFINE x == it[c].cur
           t == it[c].set
<1>1. TypeOK /\ \A d \in Cursors : CursorOK(d) /\ SharersOK(d) /\ SetOK(d)
  BY Parts
<1>2. /\ x \in Int
      /\ rng.b \in Int
      /\ rng.e \in Int
      /\ 1 <= rng.b
      /\ rng.b <= x
      /\ x <= rng.e
      /\ rng.e <= N + 1
      /\ t \in Sets
      /\ op[c] = "skip"
      /\ UNCHANGED <<key, rng>>
  <2>1. x \in Int /\ rng.b \in Int /\ rng.e \in Int /\ 1 <= rng.b /\ rng.e <= N + 1
    BY <1>1, IterType, Bounds
  <2>2. op[c] = "skip" /\ UNCHANGED <<key, rng>>
    BY DEF SkipStep, SkipFound, SkipEnd
  <2>3. x \in rng.b .. rng.e /\ t # NoSet /\ t \in Sets \cup {NoSet}
    BY <1>1, <2>2, IterType DEF CursorOK
  <2> QED
    BY <2>1, <2>2, <2>3
<1>3. \A y \in rng.b .. x - 1 : key[y] \in seen[t]
  BY <1>1, <1>2 DEF CursorOK
<1>4. \A d \in Cursors \ {c} : pass[d].alone => it[d].set # t
  BY <1>1, <1>2, NotAlone
<1>5. CASE SkipStep(c)
  <2>1. /\ x # rng.e
        /\ key[x] \in seen[t]
        /\ UNCHANGED <<seen, op, pass>>
        /\ it'[c].cur = x + 1
        /\ it'[c].set = t
        /\ \A d \in Cursors \ {c} : it'[d] = it[d]
    BY <1>1, <1>5 DEF SkipStep, TypeOK
  <2>2. TypeOK'
    <3>1. x + 1 \in Pos
      BY <1>2, <2>1 DEF Pos
    <3> QED
      BY <1>1, <1>5, <3>1 DEF SkipStep, TypeOK
  <2>3. CursorOK(c)'
    <3>1. \A y \in rng.b .. (x + 1) - 1 : y \in rng.b .. x - 1 \/ y = x
      BY <1>2
    <3>2. x + 1 \in rng.b .. rng.e
      BY <1>2, <2>1
    <3> QED
      BY <1>2, <1>3, <2>1, <3>1, <3>2 DEF CursorOK
  <2>4. SetOK(c)'
    <3>1. SUFFICES ASSUME pass[c].alone PROVE ~IsFirstOfKey(x)
      <4>1. \A y \in 1 .. N : y < x + 1 <=> y < x \/ y = x
        BY <1>2
      <4>2. \A y : IsFirstOfKey(y)' <=> IsFirstOfKey(y)
        BY <1>2 DEF IsFirstOfKey
      <4> QED
        BY <1>1, <1>2, <2>1, <3>1, <4>1, <4>2 DEF SetOK
    <3>2. PICK y \in pass[c].on : key[y] = key[x]
      BY <1>1, <2>1, <3>1 DEF SetOK
    <3>3. y \in 1 .. N
      BY <1>1, IterType
    <3>4. rng.b <= y /\ y < x
      BY <1>1, <1>2, <3>1, <3>2, <3>3 DEF SetOK, IsFirstOfKey
    <3> QED
      BY <1>2, <3>2, <3>3, <3>4 DEF IsFirstOfKey
  <2>5. ASSUME NEW d \in Cursors PROVE CursorOK(d)' /\ SharersOK(d)' /\ SetOK(d)'
    <3>1. SharersOK(d)'
      <4>1. \A e \in Cursors : it'[e].set = it[e].set
        BY <2>1
      <4> QED
        BY <1>1, <2>1, <4>1 DEF SharersOK
    <3>2. CASE d = c
      BY <2>3, <2>4, <3>1, <3>2
    <3>3. CASE d # c
      BY <1>1, <1>2, <2>1, <3>1, <3>3, CursorKept, SetKept
    <3> QED
      BY <3>2, <3>3
  <2> QED
    BY <2>2, <2>5, Preserved
<1>6. CASE SkipFound(c)
  <2>1. /\ x # rng.e
        /\ key[x] \notin seen[t]
        /\ UNCHANGED it
        /\ seen' = [seen EXCEPT ![t] = @ \cup {key[x]}]
        /\ op'[c] = "idle"
        /\ pass'[c].on = pass[c].on \cup {x}
        /\ pass'[c].alone = pass[c].alone
        /\ \A d \in Cursors \ {c} : op'[d] = op[d] /\ pass'[d] = pass[d]
    BY <1>1, <1>6 DEF SkipFound, TypeOK
  <2>2. x \in 1 .. N
    BY <1>2, <2>1
  <2>3. seen'[t] = seen[t] \cup {key[x]} /\ \A s \in Sets \ {t} : seen'[s] = seen[s]
    BY <1>1, <1>2, <2>1 DEF TypeOK
  <2>4. TypeOK'
    <3>1. key[x] \in Keys
      BY <1>1, <2>2 DEF TypeOK
    <3>2. seen' \in [Sets -> SUBSET Keys]
      BY <1>1, <1>2, <2>1, <3>1 DEF TypeOK
    <3>3. pass' \in [Cursors -> [start : Pos, on : SUBSET (1 .. N), alone : BOOLEAN]]
      BY <1>1, <1>6, <2>2 DEF SkipFound, TypeOK
    <3> QED
      BY <1>1, <1>6, <3>2, <3>3 DEF SkipFound, TypeOK
  <2>5. IsFirstOfKey(x)
    BY <1>2, <1>3, <2>1 DEF IsFirstOfKey
  <2>6. \A y : IsFirstOfKey(y)' <=> IsFirstOfKey(y)
    BY <1>2 DEF IsFirstOfKey
  <2>7. CursorOK(c)'
    BY <1>1, <1>2, <1>3, <2>1, <2>3, <2>5, <2>6 DEF CursorOK
  <2>8. SetOK(c)'
    <3>1. SUFFICES ASSUME pass[c].alone PROVE SetOK(c)'
      BY <2>1 DEF SetOK
    <3>2. \A y \in 1 .. N : y \in pass'[c].on <=> IsFirstOfKey(y) /\ (y < x \/ y = x)
      BY <1>1, <1>2, <2>1, <2>5, <3>1 DEF SetOK
    <3>3. \A k \in seen'[t] : \E y \in pass'[c].on : key[y] = k
      BY <1>1, <2>1, <2>3, <3>1 DEF SetOK
    <3> QED
      BY <1>1, <1>2, <2>1, <2>6, <3>1, <3>2, <3>3 DEF SetOK
  <2>9. ASSUME NEW d \in Cursors PROVE CursorOK(d)' /\ SharersOK(d)' /\ SetOK(d)'
    <3>1. SharersOK(d)'
      BY <1>1, <2>1 DEF SharersOK
    <3>2. CASE d = c
      BY <2>7, <2>8, <3>1, <3>2
    <3>3. CASE d # c
      <4>1. it[d].set # NoSet => seen[it[d].set] \subseteq seen'[it[d].set]
        BY <1>1, <2>3, IterType
      <4>2. CursorOK(d)'
        BY <1>1, <1>2, <2>1, <3>3, <4>1, CursorKept
      <4>3. pass[d].alone => it[d].set \in Sets \ {t}
        BY <1>1, <1>4, <3>3, IterType DEF SetOK
      <4>4. SetOK(d)'
        BY <1>1, <1>2, <2>1, <2>3, <3>3, <4>3, SetKept
      <4> QED
        BY <3>1, <4>2, <4>4
    <3> QED
      BY <3>2, <3>3
  <2> QED
    BY <2>4, <2>9, Preserved
<1>7. CASE SkipEnd(c)
  <2>1. /\ x = rng.e
        /\ UNCHANGED <<seen, it, pass>>
        /\ op'[c] = "idle"
        /\ \A d \in Cursors \ {c} : op'[d] = op[d]
    BY <1>1, <1>7 DEF SkipEnd, TypeOK
  <2>2. TypeOK'
    BY <1>1, <1>7 DEF SkipEnd, TypeOK
  <2>3. \A y : IsFirstOfKey(y)' <=> IsFirstOfKey(y)
    BY <1>2 DEF IsFirstOfKey
  <2>4. ~IsFirstOfKey(x)
    BY <1>2, <2>1 DEF IsFirstOfKey
  <2>5. ASSUME NEW d \in Cursors PROVE CursorOK(d)' /\ SharersOK(d)' /\ SetOK(d)'
    <3>1. SharersOK(d)'
      BY <1>1, <2>1 DEF SharersOK
    <3>2. CASE d = c
      <4>1. CursorOK(c)'
        BY <1>1, <1>2, <2>1 DEF CursorOK
      <4>2. SetOK(c)'
        BY <1>1, <1>2, <2>1, <2>3, <2>4 DEF SetOK
      <4> QED
        BY <3>1, <3>2, <4>1, <4>2
    <3>3. CASE d # c
      BY <1>1, <1>2, <2>1, <3>1, <3>3, CursorKept, SetKept
    <3> QED
      BY <3>2, <3>3
  <2> QED
    BY <2>2, <2>5, Preserved
<1> QED
  BY <1>5, <1>6, <1>7

LEMMA CopyInv ==
  ASSUME IInv, NEW c \in Cursors, NEW f \in Cursors, Copy(c, f)
  PROVE  IInv'
<1>1. TypeOK /\ \A d \in Cursors : CursorOK(d) /\ SharersOK(d) /\ SetOK(d)
  BY Parts
<1>2. /\ UNCHANGED <<key, rng, seen>>
      /\ c # f
      /\ op[f] = "idle"
      /\ it'[c] = it[f]
      /\ op'[c] = "idle"
      /\ ~pass'[c].alone
      /\ \A d \in Cursors \ {c} : it'[d] = it[d] /\ op'[d] = op[d] /\ pass'[d] = pass[d]
  BY <1>1 DEF Copy, TypeOK
<1>3. TypeOK'
  <2>1. it[f].cur \in Pos /\ {it[f].cur} \ {rng.e} \in SUBSET (1 .. N)
    <3>1. it[f].cur \in rng.b .. rng.e
      BY <1>1 DEF CursorOK
    <3>2. rng.b \in Int /\ rng.e \in Int /\ 1 <= rng.b /\ rng.e <= N + 1
      BY <1>1, Bounds
    <3> QED
      BY <3>1, <3>2 DEF Pos
  <2>2. pass' \in [Cursors -> [start : Pos, on : SUBSET (1 .. N), alone : BOOLEAN]]
    BY <1>1, <2>1 DEF Copy, TypeOK
  <2>3. it' \in [Cursors -> [cur : Pos, set : Sets \cup {NoSet}]]
    BY <1>1, IterType DEF Copy, TypeOK
  <2> QED
    BY <1>1, <2>2, <2>3 DEF Copy, TypeOK
<1>4. ASSUME NEW d \in Cursors PROVE CursorOK(d)' /\ SharersOK(d)' /\ SetOK(d)'
  <2>1. CASE d = c
    <3>1. CursorOK(f)
      BY <1>1
    <3>2. CursorOK(c)'
      BY <1>2, <3>1 DEF CursorOK, IsFirstOfKey
    <3> QED
      BY <1>2, <2>1, <3>2 DEF SharersOK, SetOK
  <2>2. CASE d # c
    <3>1. CursorOK(d)'
      BY <1>1, <1>2, <2>2, CursorKept
    <3>2. SharersOK(d)'
      BY <1>1, <1>2, <2>2 DEF SharersOK
    <3>3. SetOK(d)'
      BY <1>1, <1>2, <2>2, SetKept
    <3> QED
      BY <3>1, <3>2, <3>3
  <2> QED
    BY <2>1, <2>2
<1> QED
  BY <1>3, <1>4, Preserved

-----------------------------------------------------------------------------
LEMMA NextIInv == IInv /\ [Next]_vars => IInv'
<1> SUFFICES ASSUME IInv, [Next]_vars PROVE IInv'
  OBVIOUS
<1>1. CASE Next
  BY <1>1, BeginInv, EndInv, IncInv, SkipInv, CopyInv DEF Next, Loop
<1>2. CASE UNCHANGED vars
  BY <1>2 DEF vars, IInv, TypeOK, PlaceInv, PassedIsSeen, OnFirstOfKey, AloneInv, IsFirstOfKey
<1> QED
  BY <1>1, <1>2

\* The inductive invariant holds in every reachable state.
THEOREM Invariance == Spec => []IInv
<1> QED
  BY InitIInv, NextIInv, PTL DEF Spec

\* No operation takes an iterator out of the storage, or leaves it without the set
\* it inserts into.
THEOREM TypeCorrect == Spec => []TypeOK
<1>1. IInv => TypeOK
  BY DEF IInv
<1> QED
  BY <1>1, Invariance, PTL

\* A distinct_iterator at rest stands on the first element of the range with its
\* key, or at the end, however its set is shared with other iterators.
THEOREM NoKeyTwice == Spec => []OnFirstOfKey
<1>1. IInv => OnFirstOfKey
  BY DEF IInv
<1> QED
  BY <1>1, Invariance, PTL

\* Every key that lies behind an iterator is in its set: skip_seen() skips an
\* element only if an iterator that shares the set has stood on its key.
THEOREM SkippedWasSeen == Spec => []PassedIsSeen
<1>1. IInv => PassedIsSeen
  BY DEF IInv
<1> QED
  BY <1>1, Invariance, PTL

\* A pass from distinct_view::begin() whose set no copy has moved on stands on
\* every first element, whatever other passes over the view are under way.
THEOREM FreshPassCorrect == Spec => []FreshPassComplete
<1>1. IInv => FreshPassComplete
  <2> SUFFICES ASSUME IInv, NEW c \in Cursors, op[c] = "idle", pass[c].alone
               PROVE  pass[c].on = {x \in 1 .. N : IsFirstOfKey(x) /\ x <= it[c].cur}
    BY DEF FreshPassComplete
  <2>1. pass[c].on \subseteq 1 .. N /\ it[c].cur \in Int
    BY IterType DEF IInv
  <2>2. \A x \in 1 .. N :
          x \in pass[c].on <=> IsFirstOfKey(x) /\ (x < it[c].cur \/ x = it[c].cur)
    BY DEF IInv, AloneInv
  <2>3. \A x \in 1 .. N : x <= it[c].cur <=> x < it[c].cur \/ x = it[c].cur
    BY <2>1
  <2> QED
    BY <2>1, <2>2, <2>3
<1> QED
  BY <1>1, Invariance, PTL
=============================================================================
