---------------------------- MODULE ChainProofs -----------------------------
(***************************************************************************)
(* Proofs about whole chains: NoDangling and ReferenceLives, for any number *)
(* of handles, containers and stages, what Exceptions says of piles of any *)
(* height, and ChainFolds and ChainLast, for sources and chains of any     *)
(* length.                                                                 *)
(*                                                                         *)
(* NoDangling and ReferenceLives are not inductive: they say what is alive *)
(* and not why.  The reason is in the records.  A view points only at views *)
(* it was derived from, of a class that is known to store something        *)
(* (Points), and only into owners that it was derived from a range of or   *)
(* shares itself (Owners); and a handle of the family of an owner, unless  *)
(* moved from, shares it (Backed).  No step changes the class of a handle  *)
(* that is made, so what is said of the views below is said once and for   *)
(* all.                                                                    *)
(*                                                                         *)
(* ChainFolds and ChainLast say what one loop reads, and not what the view *)
(* would do to the loops of a stage called on it.  What carries from stage *)
(* to stage is a path: iterators that ++ leads through from begin() to one *)
(* equal to end(), whose * are the elements asked for (Path); and, where   *)
(* the view can still be reversed, that -- leads back along it (BothWays,  *)
(* TakesBack).  Shows says that of a view, and each stage has a lemma that *)
(* it takes a view that shows q to one that shows what it asks of q.       *)
(***************************************************************************)
EXTENDS Lifetimes, Exceptions, Pipeline, SortedProofs, TLAPS

(* Lifetimes. *)

TypeOK ==
  /\ made \in 0 .. MaxHandles
  /\ at \in [Handles -> Handle]
  /\ live \in SUBSET (1 .. made)
  /\ ref \in Handle

\* The views a record points at are among those it was derived from.
Points(r) ==
  /\ r.upon \subseteq 1 .. made
  /\ \A a \in r.functors \cup r.defaults : a \in r.upon /\ at[a].class \in Stores

Owners(r) == r.into \subseteq r.sees \cup r.family

Dead == Buffering \cup {"where_indexed"}

\* Only stages that are known to show anything else than elements and defaults.
Shown(r) ==
  r.class \notin Dead /\ (\A a \in r.upon : at[a].class \notin Dead) =>
    r.shows \subseteq {"element", "default"}

\* Ranges that share an owner are no such stages.
Eager(r) == r.shares # {} => r.class \notin Dead

Good(r) == r \in Handle /\ Points(r) /\ Owners(r) /\ Shown(r) /\ Eager(r)

Backed(r) == r.family \subseteq r.shares

IInv ==
  /\ TypeOK
  /\ \A h \in 1 .. made : Good(at[h])
  /\ \A h \in Usable : Backed(at[h])
  /\ Good(ref) /\ ref.family = {} /\ ref.class \in {"from", "first"}

-----------------------------------------------------------------------------
(* Records.                                                                *)

LEMMA BlankGood == Good(Blank) /\ Backed(Blank)
<1>1. Blank \in Handle
  BY DEF Handle, Blank, Classes
<1>2. Points(Blank) /\ Owners(Blank) /\ Shown(Blank) /\ Eager(Blank) /\ Backed(Blank)
  BY DEF Blank, Points, Owners, Shown, Eager, Backed
<1> QED  BY <1>1, <1>2 DEF Good

\* A record that was good stays so while the classes of the handles below do.
LEMMA GoodStays ==
  ASSUME NEW CONSTANT r, Good(r), made \in Nat, made' \in Nat, made <= made',
         \A a \in 1 .. made : at'[a].class = at[a].class
  PROVE  Good(r)'
  BY DEF Good, Points, Owners, Shown, Eager

\* A new handle with a good record.
LEMMA MakeKeeps ==
  ASSUME IInv, NEW r, Good(r), Backed(r), Make(r), spent' = spent
  PROVE  IInv'
<1>0. r \in Handle /\ at \in [Handles -> Handle] /\ made \in Nat /\ made < MaxHandles
  BY LifetimesAssumption DEF IInv, TypeOK, Make, Good
<1>1. made \in Nat /\ made + 1 \in Handles /\ made' = made + 1 /\ at' \in [Handles -> Handle]
  BY <1>0, LifetimesAssumption DEF Make, Handles
<1>2. at'[made + 1] = r /\ \A h \in 1 .. made : at'[h] = at[h]
  BY <1>1, LifetimesAssumption DEF IInv, TypeOK, Make, Handles
<1>3. TypeOK'
  BY <1>1, LifetimesAssumption DEF IInv, TypeOK, Make, Handles
<1>4. \A h \in 1 .. made' : Good(at[h])'
  <2> SUFFICES ASSUME NEW h \in 1 .. made' PROVE Good(at[h])'
    OBVIOUS
  <2>1. CASE h = made + 1
    <3>1. Good(r)'
      BY <1>1, <1>2, GoodStays
    <3> QED  BY <3>1, <2>1, <1>2 DEF Good, Points, Owners, Shown, Eager
  <2>2. CASE h \in 1 .. made
    <3>1. Good(at[h])
      BY <2>2 DEF IInv
    <3> DEFINE s == at[h]
    <3>2. at'[h] = s
      BY <2>2, <1>2
    <3> QED  BY <3>1, <3>2, <1>1, <1>2 DEF Good, Points, Owners, Shown, Eager
  <2> QED  BY <2>1, <2>2, <1>1
<1>5. \A h \in Usable' : Backed(at[h])'
  BY <1>1, <1>2 DEF IInv, TypeOK, Usable, Make, Backed
<1>6. Good(ref)' /\ ref' = ref
  BY <1>1, <1>2 DEF IInv, Make, Good, Points, Owners, Shown, Eager
<1> QED  BY <1>3, <1>4, <1>5, <1>6 DEF IInv

-----------------------------------------------------------------------------
(* The records of new handles.                                             *)

LEMMA UsableAre ==
  ASSUME IInv
  PROVE  /\ made \in Nat
         /\ \A h \in Usable : h \in 1 .. made /\ h \in Handles /\ at[h] \in Handle
<1>1. made \in 0 .. MaxHandles /\ live \in SUBSET (1 .. made) /\ at \in [Handles -> Handle]
  BY DEF IInv, TypeOK
<1>2. \A h \in Usable : h \in 1 .. made
  BY <1>1 DEF Usable
<1>3. MaxHandles \in Nat
  BY LifetimesAssumption
<1>4. \A h \in 1 .. made : h \in Handles
  BY <1>1, <1>3 DEF Handles
<1> QED
  BY <1>1, <1>2, <1>3, <1>4

\* What Staged makes of a good record, for whatever class is written over it.
LEMMA StagedGood ==
  ASSUME IInv, NEW h \in Usable, NEW op \in Classes
  PROVE  /\ Staged(op, h) \in Handle
         /\ Points(Staged(op, h)) /\ Owners(Staged(op, h)) /\ Shown(Staged(op, h))
         /\ Staged(op, h).family = {} /\ Staged(op, h).shares = {}
<1> DEFINE r == at[h]
           s == Staged(op, h)
<1>1. h \in 1 .. made /\ h \in Handles /\ made \in Nat
  BY UsableAre
<1>2. r \in Handle /\ Points(r) /\ Owners(r) /\ Shown(r)
  BY <1>1 DEF IInv, Good
<1>3. ShownBy(op, r) \in SUBSET Places
  BY <1>2 DEF ShownBy, Places, Handle
<1>4. s \in Handle
  <2>1. /\ r.functors \cup {h} \in SUBSET Handles /\ r.defaults \cup {h} \in SUBSET Handles
        /\ r.upon \cup {h} \in SUBSET Handles /\ r.sees \cup r.family \in SUBSET Handles
    BY <1>1, <1>2 DEF Handle
  <2>3. r.from \in SUBSET Containers /\ r.into \in SUBSET Handles
    BY <1>2 DEF Handle
  <2> QED  BY <1>1, <1>3, <2>1, <2>3 DEF Staged, Handle
<1>5. /\ s.upon = r.upon \cup {h} /\ s.sees = r.sees \cup r.family /\ s.family = {}
      /\ s.into = r.into /\ s.class = op /\ s.shows = ShownBy(op, r) /\ s.shares = {}
      /\ s.functors = r.functors \cup IF r.class \in PointAtFunctor THEN {h} ELSE {}
      /\ s.defaults = r.defaults \cup IF r.class = "default_if_empty" THEN {h} ELSE {}
  BY <1>2 DEF Staged, Handle
<1> HIDE DEF s
<1>6. Points(s)
  BY <1>1, <1>2, <1>5 DEF Points, Stores
<1>7. Owners(s)
  BY <1>2, <1>5 DEF Owners
<1>8. Shown(s)
  BY <1>1, <1>2, <1>5 DEF Shown, ShownBy, Dead
<1> QED  BY <1>4, <1>5, <1>6, <1>7, <1>8 DEF s

LEMMA BothGood ==
  ASSUME IInv, NEW h \in Usable, NEW g \in Usable, NEW op \in Joinings \cup {"zip"}
  PROVE  Good(Both(op, h, g)) /\ Backed(Both(op, h, g))
<1> DEFINE r == Staged(op, h)
           s == Staged(op, g)
           b == Both(op, h, g)
<1>0. op \in Classes /\ op \notin Dead
  BY DEF Classes, Joinings, Dead, Buffering
<1>1. /\ r \in Handle /\ Points(r) /\ Owners(r) /\ Shown(r) /\ r.family = {}
      /\ s \in Handle /\ Points(s) /\ Owners(s) /\ Shown(s) /\ s.family = {}
      /\ r.class = op /\ s.class = op
  <2>1. r \in Handle /\ Points(r) /\ Owners(r) /\ Shown(r) /\ r.family = {}
    BY <1>0, StagedGood
  <2>2. s \in Handle /\ Points(s) /\ Owners(s) /\ Shown(s) /\ s.family = {}
    BY <1>0, StagedGood
  <2>3. at[h] \in Handle /\ at[g] \in Handle
    BY UsableAre
  <2>4. r.class = op /\ s.class = op
    BY <2>3 DEF Staged, Handle
  <2> QED  BY <2>1, <2>2, <2>4
<1>2. (\E x, y \in BOOLEAN : b =
        [class |-> op, from |-> r.from \cup s.from, functors |-> r.functors \cup s.functors,
         defaults |-> r.defaults \cup s.defaults, into |-> r.into \cup s.into, shares |-> {},
         shows |-> b.shows, value |-> x, rows |-> y, upon |-> r.upon \cup s.upon,
         sees |-> r.sees \cup s.sees, family |-> {}])
      /\ (b.shows = {} \/ b.shows = r.shows \cup s.shows)
  <2>1. at[h] \in Handle /\ at[g] \in Handle
    BY UsableAre
  <2>2. at[h].value \in BOOLEAN /\ at[g].value \in BOOLEAN /\ at[h].rows \in BOOLEAN
        /\ at[g].rows \in BOOLEAN /\ r.value \in BOOLEAN /\ s.value \in BOOLEAN
    BY <2>1, <1>1 DEF Handle
  <2> QED  BY <2>2 DEF Both
<1> HIDE DEF r, s, b
<1>3. b \in Handle
  BY <1>0, <1>1, <1>2 DEF Handle
<1>4. Points(b) /\ Owners(b) /\ Backed(b)
  BY <1>1, <1>2 DEF Points, Owners, Backed
<1>5. Shown(b) /\ Eager(b)
  BY <1>0, <1>1, <1>2 DEF Shown, Eager
<1> QED  BY <1>3, <1>4, <1>5 DEF Good, b

LEMMA OwnedGood ==
  ASSUME IInv, NEW h \in Usable, NEW op \in EagerOps, made < MaxHandles
  PROVE  Good(Owned(op, h)) /\ Backed(Owned(op, h))
<1> DEFINE r == Staged(op, h)
           b == Owned(op, h)
<1>0. op \in Classes /\ op \notin Dead /\ made + 1 \in Handles
  BY LifetimesAssumption
     DEF Classes, EagerOps, Sorting, Relational, SetsAndMaps, Tails, Dead, Buffering, IInv, TypeOK, Handles
<1>1. r \in Handle /\ Points(r) /\ Owners(r) /\ Shown(r) /\ r.family = {}
  BY <1>0, StagedGood
<1>2. r.class = op
  <2>1. at[h] \in Handle
    BY UsableAre
  <2> QED  BY <2>1 DEF Staged, Handle
<1> DEFINE kept == [class |-> op, from |-> r.from, functors |-> {}, defaults |-> r.defaults,
                    into |-> r.into \cup {made + 1}, shares |-> {made + 1},
                    shows |-> r.shows \cup {"element"}, value |-> FALSE, rows |-> TRUE,
                    upon |-> r.upon, sees |-> r.sees, family |-> {made + 1}]
           own  == [class |-> op, from |-> {}, functors |-> {}, defaults |-> {},
                    into |-> {made + 1}, shares |-> {made + 1},
                    shows |-> {"element"}, value |-> FALSE, rows |-> FALSE,
                    upon |-> {}, sees |-> {}, family |-> {made + 1}]
<1>3. b = kept \/ b = own
  <2>1. r.rows \in BOOLEAN
    BY <1>1 DEF Handle
  <2>2. CASE op \in Copying /\ r.rows
    BY <2>1, <2>2 DEF Owned
  <2>3. CASE ~(op \in Copying /\ r.rows)
    BY <2>3 DEF Owned
  <2> QED  BY <2>2, <2>3
<1> HIDE DEF r, b
<1>4. b \in Handle
  <2>1. /\ r.from \in SUBSET Containers /\ r.defaults \in SUBSET Handles
        /\ r.into \cup {made + 1} \in SUBSET Handles /\ {made + 1} \in SUBSET Handles
        /\ r.shows \cup {"element"} \in SUBSET Places /\ {"element"} \in SUBSET Places
        /\ r.upon \in SUBSET Handles /\ r.sees \in SUBSET Handles
    BY <1>0, <1>1 DEF Handle, Places
  <2> HIDE DEF r
  <2>2. kept \in Handle
    BY <1>0, <2>1 DEF Handle
  <2>3. own \in Handle
    BY <1>0, <2>1 DEF Handle
  <2> QED  BY <1>3, <2>2, <2>3
<1>5. Points(b) /\ Owners(b) /\ Backed(b)
  BY <1>1, <1>3 DEF Points, Owners, Backed
<1>6. Shown(b) /\ Eager(b)
  BY <1>0, <1>1, <1>2, <1>3 DEF Shown, Eager
<1> QED  BY <1>4, <1>5, <1>6 DEF Good, b

LEMMA AgainGood ==
  ASSUME IInv, NEW h \in Usable, NEW op \in {"asc", "desc", "reverse"}, at[h].shares # {}
  PROVE  Good(Again(op, h)) /\ Backed(Again(op, h))
<1> DEFINE r == at[h]
           b == Again(op, h)
<1>1. Good(r) /\ Backed(r) /\ r.shares # {}
  BY DEF IInv, TypeOK, Usable
<1>2. op \in Classes \/ op = "asc"
  BY DEF Classes, LazyStages, Keeping
<1>3. op \notin Dead
  BY DEF Dead, Buffering
<1>4. /\ b.from = r.from /\ b.functors = r.functors /\ b.defaults = r.defaults
      /\ b.into = r.into /\ b.shares = r.shares /\ b.shows = r.shows /\ b.upon = r.upon
      /\ b.sees = r.sees /\ b.family = r.family
      /\ b.class = IF op = "asc" THEN r.class ELSE op
      /\ b \in Handle
  BY <1>1, <1>2 DEF Again, Good, Handle
<1> HIDE DEF r, b
<1>5. Points(b) /\ Owners(b) /\ Eager(b) /\ Shown(b) /\ Backed(b)
  BY <1>1, <1>3, <1>4 DEF Good, Points, Owners, Eager, Shown, Backed
<1> QED  BY <1>4, <1>5 DEF Good, b

-----------------------------------------------------------------------------
(* The steps that make no record.                                          *)

\* Handles change hands: those in 1 .. made' hold good records of the classes they had.
LEMMA MovesKeep ==
  ASSUME IInv, made' \in made .. MaxHandles, at' \in [Handles -> Handle],
         live' \in SUBSET (1 .. made'), ref' = ref,
         \A h \in 1 .. made : at'[h].class = at[h].class,
         \A h \in 1 .. made' : Good(at'[h]),
         \A h \in Usable' : Backed(at'[h])
  PROVE  IInv'
<1>1. made \in Nat /\ made' \in Nat /\ made <= made'
  BY LifetimesAssumption DEF IInv, TypeOK
<1>2. TypeOK'
  BY <1>1, LifetimesAssumption DEF IInv, TypeOK
<1>3. \A h \in 1 .. made' : Good(at[h])'
  <2> SUFFICES ASSUME NEW h \in 1 .. made' PROVE Good(at[h])'
    OBVIOUS
  <2>1. Good(at'[h])
    OBVIOUS
  <2> QED  BY <2>1, <1>1 DEF Good, Points, Owners, Shown, Eager
<1>4. \A h \in Usable' : Backed(at[h])'
  BY DEF Backed
<1>5. Good(ref)'
  BY <1>1 DEF IInv, Good, Points, Owners, Shown, Eager
<1> QED  BY <1>2, <1>3, <1>4, <1>5 DEF IInv

LEMMA MoveKeeps ==
  ASSUME IInv, NEW h \in Handles, MoveHandle(h)
  PROVE  IInv'
<1> DEFINE r == at[h]
           n == made + 1
<1>1. /\ made \in Nat /\ made < MaxHandles /\ made' = n /\ n \in Handles /\ h # n
      /\ h \in 1 .. made /\ h \in Usable
      /\ at \in [Handles -> Handle] /\ at' = [at EXCEPT ![n] = r, ![h] = Husk(h)]
  BY LifetimesAssumption DEF IInv, TypeOK, MoveHandle, Usable, Handles
<1>2. Good(r) /\ Backed(r)
  BY <1>1 DEF IInv
<1>3. Good(Husk(h)) /\ Husk(h).class = r.class
  <2>1. r \in Handle
    BY <1>2 DEF Good
  <2>2. Husk(h) \in Handle
    BY <2>1 DEF Husk, Handle
  <2>3. /\ Husk(h).class = r.class /\ Husk(h).functors = r.functors
        /\ Husk(h).defaults = r.defaults /\ Husk(h).into = r.into /\ Husk(h).shares = {}
        /\ Husk(h).shows = r.shows /\ Husk(h).upon = r.upon /\ Husk(h).sees = r.sees
        /\ Husk(h).family = r.family
    BY <2>1 DEF Husk, Handle
  <2> QED  BY <1>2, <2>2, <2>3 DEF Good, Points, Owners, Shown, Eager
<1>4. at'[n] = r /\ at'[h] = Husk(h) /\ \A k \in 1 .. made : k # h => at'[k] = at[k]
  BY <1>1, LifetimesAssumption DEF Handles
<1>5. at' \in [Handles -> Handle]
  BY <1>1, <1>2, <1>3 DEF Good
<1>6. \A k \in 1 .. made : at'[k].class = at[k].class
  BY <1>3, <1>4
<1>7. \A k \in 1 .. made' : Good(at'[k])
  <2>1. \A k \in 1 .. made' : k = n \/ k \in 1 .. made
    BY <1>1
  <2>2. \A k \in 1 .. made : Good(at[k])
    BY DEF IInv
  <2> QED  BY <2>1, <2>2, <1>2, <1>3, <1>4
<1>8. \A k \in Usable' : Backed(at'[k])
  BY <1>1, <1>2, <1>4 DEF IInv, TypeOK, Usable, MoveHandle
<1>9. live' \in SUBSET (1 .. made') /\ ref' = ref /\ made' \in made .. MaxHandles
  BY <1>1, LifetimesAssumption DEF IInv, TypeOK, MoveHandle
<1> QED  BY <1>5, <1>6, <1>7, <1>8, <1>9, MovesKeep

LEMMA AssignKeeps ==
  ASSUME IInv, NEW h \in Handles, NEW g \in Handles, AssignHandle(h, g)
  PROVE  IInv'
<1>1. /\ made \in Nat /\ made' = made /\ h \in 1 .. made /\ g \in 1 .. made /\ g \in Usable
      /\ at \in [Handles -> Handle] /\ at' = [at EXCEPT ![h] = at[g]]
  BY LifetimesAssumption DEF IInv, TypeOK, AssignHandle, Usable
<1>2. Good(at[g]) /\ Backed(at[g])
  BY <1>1 DEF IInv
<1>3. at'[h] = at[g] /\ \A k \in 1 .. made : k # h => at'[k] = at[k]
  BY <1>1, LifetimesAssumption DEF Handles, IInv, TypeOK
<1>4. at' \in [Handles -> Handle]
  BY <1>1
<1>5. \A k \in 1 .. made : at'[k].class = at[k].class
  BY <1>3 DEF AssignHandle
<1>6. \A k \in 1 .. made' : Good(at'[k])
  BY <1>1, <1>2, <1>3 DEF IInv
<1>7. \A k \in Usable' : Backed(at'[k])
  BY <1>1, <1>2, <1>3 DEF IInv, TypeOK, Usable, AssignHandle
<1>8. live' \in SUBSET (1 .. made') /\ ref' = ref /\ made' \in made .. MaxHandles
  BY <1>1, LifetimesAssumption DEF IInv, TypeOK, AssignHandle
<1> QED  BY <1>4, <1>5, <1>6, <1>7, <1>8, MovesKeep

LEMMA DestroyKeeps ==
  ASSUME IInv, NEW h \in Handles, Destroy(h)
  PROVE  IInv'
<1> DEFINE r == [Blank EXCEPT !.class = at[h].class]
<1>1. /\ made \in 0 .. MaxHandles /\ made' = made /\ h \in 1 .. made
      /\ live' = live \ {h} /\ live \in SUBSET (1 .. made) /\ spent' = spent \ {h}
      /\ at \in [Handles -> Handle] /\ at' = [at EXCEPT ![h] = r] /\ ref' = ref
  BY DEF IInv, TypeOK, Destroy
<1>2. at[h] \in Handle
  BY <1>1
<1>3. /\ r \in Handle /\ r.class = at[h].class /\ r.upon = {} /\ r.functors = {}
      /\ r.defaults = {} /\ r.into = {} /\ r.shares = {} /\ r.shows = {}
  BY <1>2 DEF Blank, Handle
<1>4. Good(r)
  BY <1>3 DEF Good, Points, Owners, Shown, Eager
<1>5. at'[h] = r /\ \A k \in 1 .. made : k # h => at'[k] = at[k]
  BY <1>1, LifetimesAssumption DEF Handles
<1>6. at' \in [Handles -> Handle]
  BY <1>1, <1>3
<1>7. \A k \in 1 .. made : at'[k].class = at[k].class
  BY <1>3, <1>5
<1>8. \A k \in 1 .. made' : Good(at'[k])
  <2>1. \A k \in 1 .. made : Good(at[k])
    BY DEF IInv
  <2> QED  BY <2>1, <1>1, <1>4, <1>5
<1>9. \A k \in Usable' : k \in Usable /\ k # h
  BY <1>1 DEF Usable
<1>10. \A k \in Usable' : Backed(at'[k])
  BY <1>1, <1>5, <1>9 DEF IInv, Usable
<1>11. live' \in SUBSET (1 .. made') /\ made' \in made .. MaxHandles
  BY <1>1, LifetimesAssumption
<1> QED  BY <1>1, <1>6, <1>7, <1>8, <1>10, <1>11, MovesKeep

\* A returned reference is good as a stage would be.
LEMMA ReferKeeps ==
  ASSUME IInv, NEW h \in Handles, h \in Usable, ref' = Staged("first", h),
         UNCHANGED <<made, at, live, spent>>
  PROVE  IInv'
<1> DEFINE r == Staged("first", h)
<1>1. h \in Usable /\ "first" \in Classes
  BY DEF Classes
<1>2. r \in Handle /\ Points(r) /\ Owners(r) /\ Shown(r) /\ r.family = {} /\ r.shares = {}
  BY <1>1, StagedGood
<1>3. Good(r) /\ r.class = "first"
  BY <1>2 DEF Good, Eager, Staged
<1> HIDE DEF r
<1>4. ref' = r /\ UNCHANGED <<made, at, live, spent>>
  BY DEF r
<1> QED  BY <1>2, <1>3, <1>4 DEF IInv, TypeOK, Usable, Backed, Good, Points, Owners, Shown, Eager

-----------------------------------------------------------------------------
(* The theorems.                                                           *)

LEMMA InitIInv == LifeInit => IInv
<1> SUFFICES ASSUME LifeInit PROVE IInv
  OBVIOUS
<1>1. Good(Blank)
  BY BlankGood
<1> QED  BY <1>1, LifetimesAssumption DEF LifeInit, IInv, TypeOK, Usable, Good, Blank

LEMMA NextIInv == IInv /\ [LifeNext]_lifeVars => IInv'
<1> SUFFICES ASSUME IInv, [LifeNext]_lifeVars PROVE IInv'
  OBVIOUS
<1> USE LifetimesAssumption
<1>1. ASSUME NEW c \in Containers, FromContainer(c) PROVE IInv'
  <2> DEFINE r == [Blank EXCEPT !.from = {c}, !.shows = {"element"}, !.value = FALSE]
  <2>1. /\ r.functors = {} /\ r.defaults = {} /\ r.into = {} /\ r.shares = {}
        /\ r.upon = {} /\ r.family = {} /\ r.shows = {"element"}
    BY DEF Blank
  <2>2. Blank \in Handle
    BY BlankGood DEF Good
  <2>3. r \in Handle
    BY <2>2 DEF Handle, Places
  <2> HIDE DEF r
  <2>4. Good(r) /\ Backed(r)
    BY <2>1, <2>3 DEF Good, Backed, Points, Owners, Shown, Eager
  <2>5. Make(r) /\ spent' = spent
    BY <1>1 DEF FromContainer, r
  <2> QED  BY <2>4, <2>5, MakeKeeps
<1>2. CASE FromValues
  BY <1>2, BlankGood, MakeKeeps DEF FromValues
<1>3. ASSUME NEW h \in Handles, NEW op \in Stages, Stage(op, h) PROVE IInv'
  <2>1. op \in Classes /\ h \in Usable
    BY <1>3 DEF Stage, Classes
  <2>2. Good(Staged(op, h)) /\ Backed(Staged(op, h))
    BY <2>1, StagedGood DEF Good, Eager, Backed
  <2> QED  BY <1>3, <2>2, MakeKeeps DEF Stage
<1>4. ASSUME NEW h \in Handles, NEW g \in Handles, NEW op \in Pairings, Pair(op, h, g)
      PROVE  IInv'
  <2>1. Good(Both(op, h, g)) /\ Backed(Both(op, h, g))
    BY <1>4, BothGood DEF Pair
  <2> QED  BY <1>4, <2>1, MakeKeeps DEF Pair
<1>5. ASSUME NEW h \in Handles, NEW op \in Eagers, Materialize(op, h) PROVE IInv'
  <2>1. Good(Owned(op, h)) /\ Backed(Owned(op, h))
    BY <1>5, OwnedGood DEF Materialize, Make
  <2> QED  BY <1>5, <2>1, MakeKeeps DEF Materialize
<1>6. ASSUME NEW h \in Handles, NEW op \in {"asc", "desc", "reverse"}, ViewAgain(op, h)
      PROVE  IInv'
  <2>1. Good(Again(op, h)) /\ Backed(Again(op, h))
    BY <1>6, AgainGood DEF ViewAgain
  <2> QED  BY <1>6, <2>1, MakeKeeps DEF ViewAgain
<1>7. ASSUME NEW h \in Handles, Copy(h) PROVE IInv'
  <2>1. Good(at[h]) /\ Backed(at[h])
    BY <1>7 DEF Copy, IInv, TypeOK, Usable
  <2> QED  BY <1>7, <2>1, MakeKeeps DEF Copy
<1>8. ASSUME NEW h \in Handles, MoveHandle(h) PROVE IInv'
  BY <1>8, MoveKeeps
<1>9. ASSUME NEW h \in Handles, NEW g \in Handles, AssignHandle(h, g) PROVE IInv'
  BY <1>9, AssignKeeps
<1>10. ASSUME NEW h \in Handles, Refer(h) PROVE IInv'
  BY <1>10, ReferKeeps DEF Refer
<1>11. ASSUME NEW h \in Handles, Evaluate(h) \/ (Extract(h) /\ ~at[h].rows) PROVE IInv'
  <2>1. ref' = Blank /\ UNCHANGED <<made, at, live, spent>>
    BY <1>11 DEF Evaluate, Extract
  <2> QED
    BY <2>1, BlankGood DEF IInv, TypeOK, Usable, Backed, Good, Points, Owners, Shown, Eager, Blank
<1>12. ASSUME NEW h \in Handles, Extract(h) PROVE IInv'
  <2>1. CASE at[h].rows
    BY <1>12, <2>1, ReferKeeps DEF Extract
  <2> QED
    BY <1>11, <1>12, <2>1
<1>13. ASSUME NEW h \in Handles, Destroy(h) PROVE IInv'
  BY <1>13, DestroyKeeps
<1>14. ASSUME NEW c \in Containers, Discard(c) PROVE IInv'
  BY <1>14 DEF Discard, IInv, TypeOK, Usable, Backed, Good, Points, Owners, Shown, Eager
<1>15. CASE UNCHANGED lifeVars
  BY <1>15 DEF lifeVars, IInv, TypeOK, Usable, Backed, Good, Points, Owners, Shown, Eager
<1> QED
  BY <1>1, <1>2, <1>3, <1>4, <1>5, <1>6, <1>7, <1>8, <1>9, <1>10, <1>11, <1>12, <1>13, <1>14, <1>15
     DEF LifeNext

\* A record that is good and kept is sound, if the owners it may be the family of are held.
LEMMA KeptIsSound ==
  ASSUME IInv, NEW r, Good(r), Kept(r), r.family \subseteq Held
  PROVE  Sound(r)
<1>1. r.functors \cup r.defaults \subseteq Usable
  BY DEF Good, Points, Kept
<1>2. r.sees \subseteq Held
  <2> SUFFICES ASSUME NEW o \in r.sees PROVE o \in Held
    OBVIOUS
  <2>1. PICK k \in Usable : o \in at[k].family
    BY DEF Kept
  <2>2. o \in at[k].shares /\ k \in live
    BY <2>1 DEF IInv, Backed, Usable
  <2> QED  BY <2>2 DEF Held
<1>3. r.into \subseteq Held
  BY <1>2 DEF Good, Owners
<1> QED  BY <1>1, <1>3 DEF Sound, Kept

\* NoDangling, for all programs that make any number of handles.
THEOREM NothingDangles == LifeSpec => []NoDangling
<1>1. IInv => NoDangling
  <2> SUFFICES ASSUME IInv, NEW h \in Usable, Kept(at[h]) PROVE Sound(at[h])
    BY DEF NoDangling
  <2>1. Good(at[h]) /\ at[h].family \subseteq at[h].shares /\ h \in live
    BY DEF IInv, TypeOK, Usable, Backed
  <2>2. at[h].family \subseteq Held
    BY <2>1 DEF Held
  <2> QED  BY <2>1, <2>2, KeptIsSound
<1> QED  BY <1>1, InitIInv, NextIInv, PTL DEF LifeSpec

\* ReferenceLives, likewise.
THEOREM ReferencesLive == LifeSpec => []ReferenceLives
<1>1. IInv => ReferenceLives
  <2> SUFFICES ASSUME IInv PROVE ReferenceLives
    OBVIOUS
  <2>1. Good(ref) /\ ref.family = {} /\ ref.class \notin Dead
    BY DEF IInv, Dead, Buffering
  <2>2. Kept(ref) => Sound(ref)
    BY <2>1, KeptIsSound
  <2>3. (\A a \in ref.upon : at[a].class \notin Dead) => ref.shows \subseteq {"element", "default"}
    BY <2>1 DEF Good, Shown
  <2> QED  BY <2>2, <2>3 DEF ReferenceLives, Dead
<1> QED  BY <1>1, InitIInv, NextIInv, PTL DEF LifeSpec

(* Exceptions. *)

Frame == [op : Operators \cup {"terminal", "any"}, at : Nat]

\* Each frame but the first has been called by the one before it.
Nested ==
  \A i \in 1 .. Len(calls) - 1 : Leads(calls[i], calls[i + 1].op, calls[i + 1].at)

\* An adaptor is in its pile; the program is above.
Placed ==
  \A i \in 1 .. Len(calls) :
    /\ calls[i].at <= Len(pile) + 1
    /\ calls[i].op \in Operators => calls[i].at \in DOMAIN pile

\* An exception stands only in frames that let it out, or in those exempted.
Alarm == fate \in {"flies", "terminated"} /\ calls # <<>> => ~IsNoexcept(Top) \/ Exempt(Top)

FrameInv ==
  /\ pile \in Seq(Adaptors)
  /\ calls \in Seq(Frame)
  /\ Nested /\ Placed /\ Alarm
  /\ fate = "terminated" => calls # <<>> /\ IsNoexcept(Top)

\* A frame that throws of itself is not noexcept.
LEMMA ThrowerIsLoud ==
  ASSUME pile \in Seq(Adaptors), NEW f \in Frame, "user" \in Asks(f),
         f.op \in Operators => f.at \in DOMAIN pile
  PROVE  ~IsNoexcept(f)
<1>1. CASE f.op \in {"terminal", "any", "begin", "*"}
  BY <1>1 DEF Asks, AnyAsks, IsNoexcept, Operators, Frame
<1>2. CASE f.op \in {"++", "--"}
  <2>1. f.at \in DOMAIN pile /\ pile[f.at] \in Adaptors
    BY <1>2 DEF Operators
  <2>2. pile[f.at] \notin Plain
    BY <1>2, <2>1 DEF Asks, IncrAsks, DecrAsks, Plain
  <2>3. f.at \in 1 .. f.at
    BY <2>1
  <2> QED
    BY <1>2, <2>2, <2>3 DEF IsNoexcept, StepsQuietly
<1>3. CASE f.op = "=="
  <2>1. f.at \in DOMAIN pile /\ pile[f.at] = "take_while"
    BY <1>3 DEF Operators, Asks, SameAsks
  <2> QED
    BY <1>3, <2>1 DEF IsNoexcept, ComparesQuietly
<1> QED
  BY <1>1, <1>2, <1>3 DEF Frame, Operators

\* A frame that is noexcept calls only such as are noexcept too, unless it is exempted.
LEMMA QuietCallsQuiet ==
  ASSUME pile \in Seq(Adaptors), NEW f \in Frame, NEW g \in Frame,
         f.op \in Operators => f.at \in DOMAIN pile,
         Leads(f, g.op, g.at), IsNoexcept(f), ~Exempt(f)
  PROVE  IsNoexcept(g)
<1>0. g.at < f.at /\ g.op \in Asks(f)
  BY DEF Leads
<1>1. CASE f.op \in {"++", "--"}
  <2>1. pile[f.at] \in Plain
    BY <1>1 DEF IsNoexcept, StepsQuietly, Operators
  <2>2. g.op \in {"++", "--"}
    BY <1>0, <1>1, <2>1 DEF Asks, IncrAsks, DecrAsks, Plain
  <2>3. StepsQuietly(g.at)
    BY <1>0, <1>1 DEF IsNoexcept, StepsQuietly, Frame
  <2> QED
    BY <2>2, <2>3 DEF IsNoexcept
<1>2. CASE f.op = "=="
  <2>1. pile[f.at] # "take_while"
    BY <1>2 DEF Exempt, Operators
  <2>2. g.op = "=="
    BY <1>0, <1>2, <2>1 DEF Asks, SameAsks
  <2>3. \A j \in 1 .. g.at : pile[j] # "take_while"
    BY <1>0, <1>2 DEF Exempt, Frame
  <2> QED
    BY <2>2, <2>3 DEF IsNoexcept, ComparesQuietly
<1> QED
  BY <1>1, <1>2 DEF IsNoexcept, Exempt, Frame, Operators

LEMMA InitFrames == ThrowInit => FrameInv
<1> SUFFICES ASSUME ThrowInit PROVE FrameInv
  OBVIOUS
<1>1. pile \in Seq(Adaptors)
  <2>1. PICK k \in 0 .. MaxPile : pile \in [1 .. k -> Adaptors]
    BY DEF ThrowInit
  <2> QED
    BY <2>1
<1> QED
  BY <1>1 DEF ThrowInit, FrameInv, Nested, Placed, Alarm

\* A frame is added on top.
LEMMA Deeper ==
  ASSUME FrameInv, pile' = pile, NEW g \in Frame, calls' = Append(calls, g),
         calls # <<>> => Leads(Top, g.op, g.at),
         g.at <= Len(pile) + 1,
         g.op \in Operators => g.at \in DOMAIN pile
  PROVE  calls' \in Seq(Frame) /\ Nested' /\ Placed'
<1> USE DEF FrameInv
<1>1. calls' \in Seq(Frame) /\ Len(calls') = Len(calls) + 1 /\ calls'[Len(calls')] = g
  OBVIOUS
<1>2. \A i \in 1 .. Len(calls) : calls'[i] = calls[i]
  OBVIOUS
<1>3. Nested'
  <2> SUFFICES ASSUME NEW i \in 1 .. Len(calls)
               PROVE  Leads(calls[i], calls[i + 1].op, calls[i + 1].at)'
    BY <1>1 DEF Nested
  <2>1. CASE i < Len(calls)
    <3>1. calls'[i] = calls[i] /\ calls'[i + 1] = calls[i + 1]
      BY <1>2, <2>1
    <3>2. Leads(calls[i], calls[i + 1].op, calls[i + 1].at)
      BY <2>1 DEF Nested
    <3> QED
      BY <3>1, <3>2 DEF Leads, Asks
  <2>2. CASE i = Len(calls)
    <3>1. calls'[i] = Top /\ calls'[i + 1] = g /\ calls # <<>>
      BY <1>1, <1>2, <2>2 DEF Top
    <3> QED
      BY <3>1 DEF Leads, Asks
  <2> QED
    BY <2>1, <2>2
<1>4. Placed'
  BY <1>1, <1>2 DEF Placed
<1> QED
  BY <1>1, <1>3, <1>4

\* The frame on top returns, or the exception leaves it.
LEMMA Shallower ==
  ASSUME FrameInv, pile' = pile, calls # <<>>, calls' = SubSeq(calls, 1, Len(calls) - 1)
  PROVE  /\ calls' \in Seq(Frame) /\ Nested' /\ Placed'
         /\ calls' # <<>> =>
              Top' = calls[Len(calls) - 1] /\ Leads(Top', Top.op, Top.at)
<1> USE DEF FrameInv
<1>1. Len(calls) \in Nat \ {0}
  OBVIOUS
<1>2. /\ calls' \in Seq(Frame) /\ Len(calls') = Len(calls) - 1
      /\ \A i \in 1 .. Len(calls) - 1 : calls'[i] = calls[i]
  <2> DEFINE n == Len(calls) - 1
  <2>1. n \in Int /\ 1 \in Int /\ n >= 0 /\ n - 1 + 1 = n
    BY <1>1
  <2>2. \A i \in 1 .. n : calls[i] \in Frame
    BY <1>1
  <2> HIDE DEF n
  <2>3. /\ SubSeq(calls, 1, n) \in Seq(Frame)
        /\ Len(SubSeq(calls, 1, n)) = IF 1 <= n THEN n - 1 + 1 ELSE 0
        /\ \A i \in 1 .. n - 1 + 1 : SubSeq(calls, 1, n)[i] = calls[1 + i - 1]
    BY <2>1, <2>2, SubSeqProperties
  <2>4. calls' = SubSeq(calls, 1, n)
    BY DEF n
  <2>5. calls' \in Seq(Frame) /\ Len(calls') = n /\ \A i \in 1 .. n : calls'[i] = calls[i]
    BY <2>1, <2>3, <2>4
  <2> QED
    BY <2>5 DEF n
<1>3. Nested'
  <2> SUFFICES ASSUME NEW i \in 1 .. Len(calls) - 2
               PROVE  Leads(calls[i], calls[i + 1].op, calls[i + 1].at)'
    BY <1>2 DEF Nested
  <2>1. calls'[i] = calls[i] /\ calls'[i + 1] = calls[i + 1]
    BY <1>1, <1>2
  <2>2. Leads(calls[i], calls[i + 1].op, calls[i + 1].at)
    BY <1>1 DEF Nested
  <2> QED
    BY <2>1, <2>2 DEF Leads, Asks
<1>4. Placed'
  BY <1>1, <1>2 DEF Placed
<1>5. ASSUME calls' # <<>>
      PROVE  Top' = calls[Len(calls) - 1] /\ Leads(Top', Top.op, Top.at)
  <2>1. Len(calls) - 1 \in 1 .. Len(calls) - 1
    BY <1>1, <1>2, <1>5
  <2>2. Top' = calls[Len(calls) - 1]
    BY <1>2, <2>1 DEF Top
  <2>3. Leads(calls[Len(calls) - 1], calls[Len(calls) - 1 + 1].op, calls[Len(calls) - 1 + 1].at)
    BY <2>1 DEF Nested
  <2>4. Len(calls) - 1 + 1 = Len(calls)
    BY <1>1
  <2>5. Leads(Top', Top.op, Top.at)
    <3>1. Top = calls[Len(calls)]
      BY DEF Top
    <3> QED
      BY <2>2, <2>3, <2>4, <3>1
  <2> QED
    BY <2>2, <2>5
<1> QED
  BY <1>2, <1>3, <1>4, <1>5

LEMMA FramesStay == FrameInv /\ [ThrowNext]_throwVars => FrameInv'
<1> SUFFICES ASSUME FrameInv, [ThrowNext]_throwVars PROVE FrameInv'
  OBVIOUS
<1> USE DEF FrameInv
<1>0. calls # <<>> => Len(calls) \in 1 .. Len(calls) /\ Top \in Frame
  BY DEF Top
<1>1. ASSUME NEW op \in {"terminal", "any"}, CallTerminal(op) PROVE FrameInv'
  <2> DEFINE g == [op |-> op, at |-> Len(pile) + 1]
  <2>1. /\ calls' = Append(calls, g) /\ calls = <<>> /\ g \in Frame
        /\ pile' = pile /\ fate' = "runs"
    BY <1>1 DEF CallTerminal, Frame
  <2>2. calls' \in Seq(Frame) /\ Nested' /\ Placed'
    BY <2>1, Deeper DEF Operators
  <2> QED
    BY <2>1, <2>2 DEF Alarm
<1>2. ASSUME NEW op \in Operators, NEW k \in 1 .. MaxPile, EnterFrame(op, k) PROVE FrameInv'
  <2> DEFINE g == [op |-> op, at |-> k]
  <2>1. calls' = Append(calls, g) /\ pile' = pile /\ fate' = "runs" /\ calls # <<>>
    BY <1>2 DEF EnterFrame
  <2>2. k \in Nat /\ g \in Frame
    BY DEF Frame
  <2>3. Leads(Top, g.op, g.at) /\ k < Top.at
    BY <1>2 DEF EnterFrame, Leads
  <2>4. Top.at <= Len(pile) + 1 /\ Top.at \in Nat
    BY <1>0, <2>1 DEF Placed, Top, Frame
  <2>5. k \in DOMAIN pile
    BY <2>2, <2>3, <2>4
  <2>6. calls' \in Seq(Frame) /\ Nested' /\ Placed'
    BY <2>1, <2>2, <2>3, <2>5, Deeper
  <2> QED
    BY <2>1, <2>6 DEF Alarm
<1>3. CASE Return
  <2>1. calls' \in Seq(Frame) /\ Nested' /\ Placed'
    BY <1>3, Shallower DEF Return
  <2> QED
    BY <1>3, <2>1 DEF Return, Alarm
<1>4. CASE FunctorThrows
  <2>1. Top.op \in Operators => Top.at \in DOMAIN pile
    BY <1>0, <1>4 DEF FunctorThrows, Placed, Top
  <2>2. ~IsNoexcept(Top)
    BY <1>0, <1>4, <2>1, ThrowerIsLoud DEF FunctorThrows
  <2> QED
    BY <1>4, <2>2 DEF FunctorThrows, Nested, Placed, Alarm, Leads, Asks, Top, IsNoexcept, StepsQuietly, ComparesQuietly
<1>5. CASE Unwind
  <2>1. calls' \in Seq(Frame) /\ Nested' /\ Placed'
    BY <1>5, Shallower DEF Unwind
  <2>2. ASSUME calls' # <<>> PROVE ~IsNoexcept(Top') \/ Exempt(Top')
    <3>1. Leads(Top', Top.op, Top.at)
      BY <1>5, <2>2, Shallower DEF Unwind
    <3>2. Top' \in Frame /\ (Top'.op \in Operators => Top'.at \in DOMAIN pile)
      BY <1>5, <2>1, <2>2 DEF Unwind, Top, Placed
    <3> QED
      BY <1>0, <1>5, <3>1, <3>2, QuietCallsQuiet DEF Unwind
  <2>3. Alarm'
    BY <1>5, <2>2 DEF Unwind, Alarm, IsNoexcept, Exempt, StepsQuietly, ComparesQuietly
  <2> QED
    BY <1>5, <2>1, <2>3 DEF Unwind
<1>6. CASE Terminate
  BY <1>6 DEF Terminate, Nested, Placed, Alarm, Leads, Asks, Top, IsNoexcept, StepsQuietly, ComparesQuietly, Exempt
<1>7. CASE Catch
  BY <1>7 DEF Catch, Nested, Placed, Alarm, Leads
<1>8. CASE UNCHANGED throwVars
  BY <1>8 DEF throwVars, Nested, Placed, Alarm, Leads, Asks, Top, IsNoexcept, StepsQuietly, ComparesQuietly, Exempt
<1> QED
  BY <1>1, <1>2, <1>3, <1>4, <1>5, <1>6, <1>7, <1>8 DEF ThrowNext

\* Through whatever pile of adaptors, what a functor throws arrives at the caller of the
\* terminal, but for any() and for comparisons that a take_while takes part in.
THEOREM ExceptionsArrive == ThrowSpec => []ThrowsArrive
<1>1. FrameInv => ThrowsArrive
  BY DEF FrameInv, ThrowsArrive, Alarm
<1> QED
  BY <1>1, InitFrames, FramesStay, PTL DEF ThrowSpec

-----------------------------------------------------------------------------
(* Chains of views.  First, where a loop that goes on by next ends. *)

\* A run of a loop from i to where it ends, in n steps.
RunsTo(next, done, i, j) ==
  \E n \in Nat : \E t \in [0 .. n -> DOMAIN next] :
    /\ t[0] = i /\ t[n] = j /\ j \in done
    /\ \A k \in 0 .. n - 1 : t[k] \notin done /\ next[t[k]] = t[k + 1]

LEMMA RunsNowhere ==
  ASSUME NEW next, NEW done, NEW i \in DOMAIN next, i \in done, NEW j
  PROVE  RunsTo(next, done, i, j) <=> j = i
<1>1. ASSUME RunsTo(next, done, i, j) PROVE j = i
  <2>0. PICK n \in Nat : \E t \in [0 .. n -> DOMAIN next] :
          /\ t[0] = i /\ t[n] = j /\ j \in done
          /\ \A k \in 0 .. n - 1 : t[k] \notin done /\ next[t[k]] = t[k + 1]
    BY <1>1 DEF RunsTo
  <2>1. PICK t \in [0 .. n -> DOMAIN next] :
          /\ t[0] = i /\ t[n] = j
          /\ \A k \in 0 .. n - 1 : t[k] \notin done
    BY <2>0
  <2>2. n = 0
    <3>1. n # 0 => 0 \in 0 .. n - 1
      BY <2>1
    <3> QED
      BY <2>1, <3>1
  <2> QED
    BY <2>1, <2>2
<1>2. RunsTo(next, done, i, i)
  <2>1. PICK t : t = [k \in 0 .. 0 |-> i]
    OBVIOUS
  <2>2. t \in [0 .. 0 -> DOMAIN next] /\ t[0] = i
    BY <2>1
  <2>3. 0 \in Nat /\ \A k \in 0 .. 0 - 1 : FALSE
    OBVIOUS
  <2> QED
    BY <2>2, <2>3 DEF RunsTo
<1> QED
  BY <1>1, <1>2

LEMMA RunsOn ==
  ASSUME NEW next, NEW done, NEW i \in DOMAIN next, i \notin done, next[i] \in DOMAIN next, NEW j
  PROVE  RunsTo(next, done, i, j) <=> RunsTo(next, done, next[i], j)
<1>1. ASSUME RunsTo(next, done, i, j) PROVE RunsTo(next, done, next[i], j)
  <2>0. PICK n \in Nat : \E t \in [0 .. n -> DOMAIN next] :
          /\ t[0] = i /\ t[n] = j /\ j \in done
          /\ \A k \in 0 .. n - 1 : t[k] \notin done /\ next[t[k]] = t[k + 1]
    BY <1>1 DEF RunsTo
  <2>1. PICK t \in [0 .. n -> DOMAIN next] :
          /\ t[0] = i /\ t[n] = j /\ j \in done
          /\ \A k \in 0 .. n - 1 : t[k] \notin done /\ next[t[k]] = t[k + 1]
    BY <2>0
  <2>2. n >= 1
    BY <2>1
  <2>3. PICK u : u = [k \in 0 .. n - 1 |-> t[k + 1]]
    OBVIOUS
  <2>4. u \in [0 .. n - 1 -> DOMAIN next] /\ n - 1 \in Nat
    BY <2>1, <2>2, <2>3
  <2>5. u[0] = next[i] /\ u[n - 1] = j
    BY <2>1, <2>2, <2>3
  <2>6. ASSUME NEW k \in 0 .. (n - 1) - 1 PROVE u[k] \notin done /\ next[u[k]] = u[k + 1]
    <3>1. k \in 0 .. n - 1 /\ k + 1 \in 0 .. n - 1 /\ (k + 1) + 1 \in 0 .. n
      BY <2>1, <2>2
    <3> QED
      BY <2>1, <2>3, <3>1
  <2> QED
    BY <2>1, <2>4, <2>5, <2>6 DEF RunsTo
<1>2. ASSUME RunsTo(next, done, next[i], j) PROVE RunsTo(next, done, i, j)
  <2>0. PICK n \in Nat : \E t \in [0 .. n -> DOMAIN next] :
          /\ t[0] = next[i] /\ t[n] = j /\ j \in done
          /\ \A k \in 0 .. n - 1 : t[k] \notin done /\ next[t[k]] = t[k + 1]
    BY <1>2 DEF RunsTo
  <2>1. PICK t \in [0 .. n -> DOMAIN next] :
          /\ t[0] = next[i] /\ t[n] = j /\ j \in done
          /\ \A k \in 0 .. n - 1 : t[k] \notin done /\ next[t[k]] = t[k + 1]
    BY <2>0
  <2>2. PICK u : u = [k \in 0 .. n + 1 |-> IF k = 0 THEN i ELSE t[k - 1]]
    OBVIOUS
  <2>3. u \in [0 .. n + 1 -> DOMAIN next] /\ n + 1 \in Nat
    BY <2>1, <2>2
  <2>4. u[0] = i /\ u[n + 1] = j
    BY <2>1, <2>2
  <2>5. ASSUME NEW k \in 0 .. (n + 1) - 1 PROVE u[k] \notin done /\ next[u[k]] = u[k + 1]
    <3>1. CASE k = 0
      BY <2>1, <2>2, <3>1
    <3>2. CASE k # 0
      <4>1. k - 1 \in 0 .. n - 1 /\ (k - 1) + 1 = k /\ (k + 1) - 1 = k /\ k + 1 # 0
            /\ k \in 0 .. n + 1 /\ k + 1 \in 0 .. n + 1
        BY <3>2
      <4>2. u[k] = t[k - 1] /\ u[k + 1] = t[k]
        BY <2>2, <3>2, <4>1
      <4> QED
        BY <2>1, <4>1, <4>2
    <3> QED
      BY <3>1, <3>2
  <2> QED
    BY <2>1, <2>3, <2>4, <2>5 DEF RunsTo
<1> QED
  BY <1>1, <1>2

\* f solves the recursion by which Until is defined.
Solves(f, next, done) ==
  f = [k \in DOMAIN next |-> IF k \in done \/ next[k] \notin DOMAIN next THEN k ELSE f[next[k]]]

\* It has a solution, whether or not the loop ends.
LEMMA UntilSolved ==
  ASSUME NEW next, NEW done
  PROVE  \E f : Solves(f, next, done)
<1> DEFINE stop == {i \in DOMAIN next : i \in done \/ next[i] \notin DOMAIN next}
           ends(i) == {j \in DOMAIN next : RunsTo(next, stop, i, j)}
           f == [i \in DOMAIN next |-> CHOOSE j : j \in ends(i)]
<1>1. ASSUME NEW i \in DOMAIN next
      PROVE  f[i] = IF i \in done \/ next[i] \notin DOMAIN next THEN i ELSE f[next[i]]
  <2>1. CASE i \in stop
    <3>1. \A j : RunsTo(next, stop, i, j) <=> j = i
      BY <2>1, RunsNowhere
    <3>2. ends(i) = {i}
      BY <3>1
    <3>3. (CHOOSE j : j \in ends(i)) = i
      BY <3>2
    <3> QED
      BY <2>1, <3>3
  <2>2. CASE i \notin stop
    <3>1. i \notin done /\ next[i] \in DOMAIN next
      BY <2>2
    <3> HIDE DEF stop
    <3>2. \A j : RunsTo(next, stop, i, j) <=> RunsTo(next, stop, next[i], j)
      BY <2>2, <3>1, RunsOn
    <3>3. ends(i) = ends(next[i])
      BY <3>2
    <3>4. f[i] = f[next[i]]
      BY <3>1, <3>3
    <3> HIDE DEF f
    <3> QED
      BY <3>1, <3>4
  <2> QED
    BY <2>1, <2>2
<1>2. f = [k \in DOMAIN next |->
             IF k \in done \/ next[k] \notin DOMAIN next THEN k ELSE f[next[k]]]
  <2> HIDE DEF f
  <2>1. f = [k \in DOMAIN next |-> f[k]]
    BY DEF f
  <2> QED
    BY <1>1, <2>1
<1> HIDE DEF f
<1>3. Solves(f, next, done)
  BY <1>2 DEF Solves
<1> QED
  BY <1>3

LEMMA UntilStep ==
  ASSUME NEW next, NEW stop, NEW i \in DOMAIN next
  PROVE  Until(next, stop)[i] =
           IF stop[i] \/ next[i] \notin DOMAIN next THEN i ELSE Until(next, stop)[next[i]]
<1> DEFINE Step(g) == [k \in DOMAIN next |->
                         IF stop[k] \/ next[k] \notin DOMAIN next THEN k ELSE g[next[k]]]
           from == CHOOSE g : g = Step(g)
<1>1. Until(next, stop) = from
  BY DEF Until
<1>2. PICK done : done = {k \in DOMAIN next : stop[k]}
  OBVIOUS
<1>3. \E g : g = Step(g)
  <2>1. PICK f : Solves(f, next, done)
    BY UntilSolved
  <2>2. \A k \in DOMAIN next : k \in done <=> stop[k]
    BY <1>2
  <2>3. f = Step(f)
    BY <2>1, <2>2 DEF Solves
  <2> QED
    BY <2>3
<1>4. from = Step(from)
  <2> HIDE DEF Step
  <2> QED
    BY <1>3
<1> HIDE DEF from
<1>5. from[i] = Step(from)[i]
  BY <1>4
<1> QED
  BY <1>1, <1>5

\* p is what the loop goes through from place k of it, and at place m it stops.
GoesOn(next, stop, p, k, m) ==
  /\ k \in Nat /\ m \in Nat /\ k <= m
  /\ \A x \in k .. m : p[x] \in DOMAIN next
  /\ \A x \in k .. m - 1 : ~stop[p[x]] /\ next[p[x]] = p[x + 1]
  /\ stop[p[m]]

LEMMA UntilAlong ==
  ASSUME NEW next, NEW stop, NEW p, NEW k, NEW m, GoesOn(next, stop, p, k, m)
  PROVE  Until(next, stop)[p[k]] = p[m]
<1>0. /\ k \in Nat /\ m \in Nat /\ k <= m
      /\ \A x \in k .. m : p[x] \in DOMAIN next
      /\ \A x \in k .. m - 1 : ~stop[p[x]] /\ next[p[x]] = p[x + 1]
      /\ stop[p[m]]
  BY DEF GoesOn
<1> PICK f : f = Until(next, stop)
  OBVIOUS
<1>1. \A i \in DOMAIN next : f[i] = IF stop[i] \/ next[i] \notin DOMAIN next THEN i ELSE f[next[i]]
  BY UntilStep
<1> DEFINE B == {x \in 0 .. m : x >= k /\ f[p[x]] # p[m]}
<1>2. SUFFICES ASSUME B # {} PROVE FALSE
  BY <1>0
<1>3. B \in SUBSET (0 .. m)
  OBVIOUS
<1>4. PICK x \in B : \A y \in B : y <= x
  BY <1>0, <1>2, <1>3, GreatestExists
<1>5. x \in k .. m /\ f[p[x]] # p[m]
  BY <1>0
<1>6. CASE x = m
  BY <1>0, <1>1, <1>5, <1>6
<1>7. CASE x # m
  <2>1. x \in k .. m - 1 /\ x + 1 \in k .. m /\ x + 1 \in 0 .. m
    BY <1>0, <1>5, <1>7
  <2>2. f[p[x + 1]] = p[m]
    <3>1. x + 1 \notin B
      BY <1>4, <2>1
    <3> QED
      BY <2>1, <3>1
  <2>3. f[p[x]] = f[p[x + 1]]
    BY <1>0, <1>1, <1>5, <2>1
  <2> QED
    BY <1>5, <2>2, <2>3
<1> QED
  BY <1>6, <1>7

(* Types. *)

\* f has the types of the n piles that stack is built up from.
Types(stack, n, f) ==
  f = [k \in 1 .. n |->
         IF k = 1 THEN SourceType(stack[1].op) ELSE Adapted(stack[k], f[k - 1])]

\* The recursion by which the type of a pile is defined has a solution.
LEMMA TypesSolved ==
  ASSUME NEW stack, NEW n \in Nat
  PROVE  \E f : Types(stack, n, f)
<1> DEFINE F(m) == \E f : Types(stack, m, f)
           B == {m \in Nat : ~F(m)}
<1>1. SUFFICES ASSUME B # {} PROVE FALSE
  OBVIOUS
<1>2. B \in SUBSET Nat
  OBVIOUS
<1>3. PICK m \in B : \A y \in B : m <= y
  <2> HIDE DEF B
  <2> QED
    BY <1>1, <1>2, LeastExists
<1>4. CASE m = 0
  <2>1. PICK f : f = [k \in 1 .. m |->
                        IF k = 1 THEN SourceType(stack[1].op) ELSE Adapted(stack[k], f[k - 1])]
    <3>1. PICK f : f = [k \in 1 .. m |-> k]
      OBVIOUS
    <3>2. f = [k \in 1 .. m |-> IF k = 1 THEN SourceType(stack[1].op) ELSE Adapted(stack[k], f[k - 1])]
      BY <1>4, <3>1
    <3> QED
      BY <3>2
  <2>2. Types(stack, m, f)
    BY <2>1 DEF Types
  <2> QED
    BY <2>2
<1>5. CASE m # 0
  <2>1. m - 1 \in Nat /\ F(m - 1)
    <3> HIDE DEF F
    <3> QED
      BY <1>3, <1>5
  <2>2. PICK f : Types(stack, m - 1, f)
    BY <2>1
  <2>3. PICK g : g = [k \in 1 .. m |->
                        IF k = m
                        THEN IF k = 1 THEN SourceType(stack[1].op) ELSE Adapted(stack[m], f[m - 1])
                        ELSE f[k]]
    OBVIOUS
  <2>4. ASSUME NEW k \in 1 .. m
        PROVE  g[k] = IF k = 1 THEN SourceType(stack[1].op) ELSE Adapted(stack[k], g[k - 1])
    <3>1. CASE k = m
      <4>1. k # 1 => m - 1 \in 1 .. m /\ m - 1 # m
        BY <1>5, <3>1
      <4>2. k # 1 => g[m - 1] = f[m - 1]
        BY <2>3, <4>1
      <4> QED
        BY <2>3, <3>1, <4>2
    <3>2. CASE k # m
      <4>1. k \in 1 .. m - 1
        BY <3>2
      <4>2. g[k] = f[k]
        BY <2>3, <3>2
      <4>3. k # 1 => g[k - 1] = f[k - 1]
        <5>1. k # 1 => k - 1 \in 1 .. m /\ k - 1 # m
          BY <4>1
        <5> QED
          BY <2>3, <5>1
      <4> QED
        BY <2>2, <4>1, <4>2, <4>3 DEF Types
    <3> QED
      BY <3>1, <3>2
  <2>5. g = [k \in 1 .. m |-> IF k = 1 THEN SourceType(stack[1].op) ELSE Adapted(stack[k], g[k - 1])]
    <3>1. g = [k \in 1 .. m |-> g[k]]
      BY <2>3
    <3> QED
      BY <2>4, <3>1
  <2>6. Types(stack, m, g)
    BY <2>5 DEF Types
  <2> QED
    BY <2>6
<1> QED
  BY <1>4, <1>5

LEMMA TypeTypes ==
  ASSUME NEW stack, Len(stack) \in Nat
  PROVE  \E f : Types(stack, Len(stack), f) /\ Type(stack) = f[Len(stack)]
<1> DEFINE Step(g) == [k \in 1 .. Len(stack) |->
                         IF k = 1 THEN SourceType(stack[1].op) ELSE Adapted(stack[k], g[k - 1])]
           upto == CHOOSE g : g = Step(g)
<1>1. Type(stack) = upto[Len(stack)]
  BY DEF Type
<1>2. \E g : g = Step(g)
  <2>1. PICK f : Types(stack, Len(stack), f)
    BY TypesSolved
  <2>2. f = Step(f)
    BY <2>1 DEF Types
  <2> QED
    BY <2>2
<1>3. upto = Step(upto)
  <2> HIDE DEF Step
  <2> QED
    BY <1>2
<1> HIDE DEF upto
<1>4. Types(stack, Len(stack), upto)
  BY <1>3 DEF Types
<1> QED
  BY <1>1, <1>4

LEMMA TypeSource ==
  ASSUME NEW a
  PROVE  Type(<<a>>) = SourceType(a.op)
<1>1. Len(<<a>>) = 1 /\ <<a>>[1] = a /\ 1 \in Nat
  OBVIOUS
<1>2. PICK f : Types(<<a>>, 1, f) /\ Type(<<a>>) = f[1]
  BY <1>1, TypeTypes
<1> QED
  BY <1>1, <1>2 DEF Types

LEMMA TypeAppend ==
  ASSUME NEW S, NEW stack \in Seq(S), NEW a \in S, stack # <<>>
  PROVE  Type(Append(stack, a)) = Adapted(a, Type(stack))
<1> PICK n : n = Len(stack)
  OBVIOUS
<1> PICK more : more = Append(stack, a)
  OBVIOUS
<1>1. n \in Nat /\ n >= 1 /\ Len(more) = n + 1 /\ more[n + 1] = a /\ \A k \in 1 .. n : more[k] = stack[k]
  OBVIOUS
<1>2. PICK f : Types(stack, n, f) /\ Type(stack) = f[n]
  BY <1>1, TypeTypes
<1>3. PICK g : Types(more, n + 1, g) /\ Type(more) = g[n + 1]
  <2>1. Len(more) \in Nat /\ Len(more) = n + 1
    BY <1>1
  <2> QED
    BY <2>1, TypeTypes
<1>4. \A k \in 1 .. n : f[k] = IF k = 1 THEN SourceType(stack[1].op) ELSE Adapted(stack[k], f[k - 1])
  BY <1>2 DEF Types
<1>5. \A k \in 1 .. n + 1 : g[k] = IF k = 1 THEN SourceType(more[1].op) ELSE Adapted(more[k], g[k - 1])
  BY <1>1, <1>3 DEF Types
<1>6. f[n] = g[n]
  <2> DEFINE B == {k \in 1 .. n : f[k] # g[k]}
  <2>1. SUFFICES ASSUME B # {} PROVE FALSE
    BY <1>1
  <2>2. B \in SUBSET Nat
    OBVIOUS
  <2>3. PICK k \in B : \A y \in B : k <= y
    <3> HIDE DEF B
    <3> QED
      BY <2>1, <2>2, LeastExists
  <2>4. CASE k = 1
    BY <1>1, <1>4, <1>5, <2>3, <2>4
  <2>5. CASE k # 1
    <3>1. k - 1 \in 1 .. n /\ k \in 1 .. n /\ k \in 1 .. n + 1
      BY <1>1, <2>3, <2>5
    <3>2. f[k - 1] = g[k - 1]
      BY <2>3, <3>1
    <3>3. f[k] = Adapted(stack[k], f[k - 1]) /\ g[k] = Adapted(stack[k], g[k - 1])
      BY <1>1, <1>4, <1>5, <2>5, <3>1
    <3> QED
      BY <2>3, <3>2, <3>3
  <2> QED
    BY <2>4, <2>5
<1>7. g[n + 1] = Adapted(a, g[n])
  <2>1. n + 1 \in 1 .. n + 1 /\ n + 1 # 1 /\ (n + 1) - 1 = n
    BY <1>1
  <2> QED
    BY <1>1, <1>5, <2>1
<1> QED
  BY <1>2, <1>3, <1>6, <1>7

-----------------------------------------------------------------------------
(* The elements at some places.                                            *)

\* sel lists the c places of M, all of 1 .. n, in order, between 0 and n + 1.
Selects(sel, M, n, c) ==
  /\ sel[0] = 0 /\ sel[c + 1] = n + 1
  /\ \A j \in 1 .. c : sel[j] \in M
  /\ \A j \in 0 .. c :
       /\ sel[j] \in 0 .. n /\ sel[j + 1] \in 1 .. n + 1 /\ sel[j] < sel[j + 1]
       /\ \A x \in sel[j] + 1 .. sel[j + 1] - 1 : x \notin M

\* The number of places in M up to k.
Upto(M, k) == Cardinality({m \in M : m <= k})

LEMMA UptoFacts ==
  ASSUME NEW n \in Nat, NEW M \in SUBSET (1 .. n)
  PROVE  /\ \A k \in 0 .. n : Upto(M, k) \in Nat
         /\ Upto(M, 0) = 0 /\ Upto(M, n) = Cardinality(M)
         /\ \A k \in 1 .. n : Upto(M, k) = IF k \in M THEN Upto(M, k - 1) + 1 ELSE Upto(M, k - 1)
<1>0. \A m \in M : m \in Int /\ 1 <= m /\ m <= n
  OBVIOUS
<1>1. IsFiniteSet(M)
  <2>1. IsFiniteSet(1 .. n)
    BY FS_Interval
  <2> QED
    BY <2>1, FS_Subset
<1>2. ASSUME NEW k \in Int PROVE IsFiniteSet({m \in M : m <= k}) /\ Upto(M, k) \in Nat
  <2>1. IsFiniteSet({m \in M : m <= k})
    BY <1>1, FS_Subset
  <2> QED
    BY <2>1, FS_CardinalityType DEF Upto
<1>3. Upto(M, 0) = 0
  <2>1. {m \in M : m <= 0} = {}
    <3>1. \A m \in M : ~(m <= 0)
      BY <1>0
    <3> QED
      BY <3>1
  <2> QED
    BY <2>1, FS_EmptySet DEF Upto
<1>4. Upto(M, n) = Cardinality(M)
  <2>1. {m \in M : m <= n} = M
    BY <1>0
  <2> QED
    BY <2>1 DEF Upto
<1>5. ASSUME NEW k \in 1 .. n
      PROVE  Upto(M, k) = IF k \in M THEN Upto(M, k - 1) + 1 ELSE Upto(M, k - 1)
  <2>1. CASE k \in M
    <3>1. {m \in M : m <= k} = {m \in M : m <= k - 1} \cup {k}
      <4>1. \A m \in M : m <= k <=> m <= k - 1 \/ m = k
        BY <1>0
      <4> QED
        BY <1>0, <2>1, <4>1
    <3>2. k \notin {m \in M : m <= k - 1}
      OBVIOUS
    <3>3. IsFiniteSet({m \in M : m <= k - 1})
      <4>1. k - 1 \in Int
        OBVIOUS
      <4> QED
        BY <1>2, <4>1
    <3>4. Cardinality({m \in M : m <= k - 1} \cup {k}) = Cardinality({m \in M : m <= k - 1}) + 1
      BY <3>2, <3>3, FS_AddElement
    <3> QED
      BY <2>1, <3>1, <3>4 DEF Upto
  <2>2. CASE k \notin M
    <3>1. {m \in M : m <= k} = {m \in M : m <= k - 1}
      <4>1. \A m \in M : m <= k <=> m <= k - 1
        BY <1>0, <2>2
      <4> QED
        BY <4>1
    <3> QED
      BY <2>2, <3>1 DEF Upto
  <2> QED
    BY <2>1, <2>2
<1>6. ASSUME NEW k \in 0 .. n PROVE Upto(M, k) \in Nat
  <2>1. k \in Int
    OBVIOUS
  <2> QED
    BY <1>2, <2>1
<1> QED
  BY <1>3, <1>4, <1>5, <1>6

LEMMA UptoGrows ==
  ASSUME NEW n \in Nat, NEW M \in SUBSET (1 .. n), NEW k \in 0 .. n, NEW m \in k .. n
  PROVE  Upto(M, k) <= Upto(M, m)
<1> DEFINE B == {x \in 0 .. n : x >= k /\ ~(Upto(M, k) <= Upto(M, x))}
<1>1. SUFFICES ASSUME B # {} PROVE FALSE
  OBVIOUS
<1>2. PICK x \in B : \A y \in B : x <= y
  <2>1. B \in SUBSET Nat
    OBVIOUS
  <2> HIDE DEF B
  <2> QED
    BY <1>1, <2>1, LeastExists
<1>3. x # k
  <2>1. Upto(M, k) \in Nat
    BY UptoFacts
  <2> QED
    BY <1>2, <2>1
<1>4. x - 1 \in 0 .. n /\ x - 1 >= k /\ x - 1 \notin B /\ x \in 1 .. n
  BY <1>2, <1>3
<1>5. Upto(M, k) <= Upto(M, x - 1)
  BY <1>4
<1>6. Upto(M, x - 1) <= Upto(M, x) /\ Upto(M, x - 1) \in Nat /\ Upto(M, x) \in Nat /\ Upto(M, k) \in Nat
  <2>1. \A y \in 0 .. n : Upto(M, y) \in Nat
    BY UptoFacts
  <2>2. \A y \in 1 .. n : Upto(M, y) = IF y \in M THEN Upto(M, y - 1) + 1 ELSE Upto(M, y - 1)
    BY UptoFacts
  <2>3. Upto(M, x) = IF x \in M THEN Upto(M, x - 1) + 1 ELSE Upto(M, x - 1)
    BY <1>4, <2>2
  <2> QED
    BY <1>4, <2>1, <2>3
<1> QED
  BY <1>2, <1>5, <1>6

LEMMA UptoOrders ==
  ASSUME NEW n \in Nat, NEW M \in SUBSET (1 .. n), NEW k \in 0 .. n, NEW m \in M
  PROVE  k < m <=> Upto(M, k) < Upto(M, m)
<1>1. m \in 1 .. n /\ m - 1 \in 0 .. n /\ m \in 0 .. n
  OBVIOUS
<1>2. Upto(M, m) = Upto(M, m - 1) + 1 /\ Upto(M, m) \in Nat /\ Upto(M, m - 1) \in Nat /\ Upto(M, k) \in Nat
  BY <1>1, UptoFacts
<1>3. CASE k < m
  <2>1. k \in 0 .. m - 1 /\ m - 1 \in k .. n
    BY <1>1, <1>3
  <2>2. Upto(M, k) <= Upto(M, m - 1)
    BY <1>1, <2>1, UptoGrows
  <2> QED
    BY <1>2, <1>3, <2>2
<1>4. CASE ~(k < m)
  <2>1. k \in m .. n
    BY <1>1, <1>4
  <2>2. Upto(M, m) <= Upto(M, k)
    BY <1>1, <2>1, UptoGrows
  <2> QED
    BY <1>2, <1>4, <2>2
<1> QED
  BY <1>3, <1>4

LEMMA NthIs ==
  ASSUME NEW n \in Nat, NEW M \in SUBSET (1 .. n), NEW j \in 1 .. Cardinality(M)
  PROVE  Nth(M, j) \in M /\ Upto(M, Nth(M, j)) = j
<1> DEFINE B == {x \in 0 .. n : Upto(M, x) >= j}
<1>0. Cardinality(M) \in Nat
  BY UptoFacts
<1>1. n \in B
  BY <1>0, UptoFacts
<1>2. PICK x \in B : \A y \in B : x <= y
  <2>1. B \in SUBSET Nat
    OBVIOUS
  <2> HIDE DEF B
  <2> QED
    BY <1>1, <2>1, LeastExists
<1>3. x # 0
  <2>1. Upto(M, 0) = 0
    BY UptoFacts
  <2>2. Upto(M, x) >= j /\ j >= 1
    BY <1>0, <1>2
  <2> HIDE DEF B
  <2> QED
    BY <1>0, <2>1, <2>2
<1>4. x - 1 \in 0 .. n /\ x - 1 \notin B /\ x \in 1 .. n
  BY <1>2, <1>3
<1>5. x \in M /\ Upto(M, x) = j
  <2>1. Upto(M, x - 1) \in Nat /\ Upto(M, x) = IF x \in M THEN Upto(M, x - 1) + 1 ELSE Upto(M, x - 1)
    <3>1. \A y \in 0 .. n : Upto(M, y) \in Nat
      BY UptoFacts
    <3>2. \A y \in 1 .. n : Upto(M, y) = IF y \in M THEN Upto(M, y - 1) + 1 ELSE Upto(M, y - 1)
      BY UptoFacts
    <3> QED
      BY <1>4, <3>1, <3>2
  <2>2. ~(Upto(M, x - 1) >= j) /\ Upto(M, x) >= j
    BY <1>2, <1>4
  <2> QED
    BY <1>0, <2>1, <2>2
<1>6. Nth(M, j) = CHOOSE k \in M : Upto(M, k) = j
  BY DEF Nth, Upto
<1>7. \E k \in M : Upto(M, k) = j
  BY <1>5
<1> QED
  BY <1>6, <1>7

PicksBy(sel, c, q, M, n) ==
  /\ c \in 0 .. n /\ Selects(sel, M, n, c)
  /\ Picked(q, M) = [j \in 1 .. c |-> q[sel[j]]]

LEMMA PickedSelects ==
  ASSUME NEW n \in Nat, NEW M \in SUBSET (1 .. n), NEW q
  PROVE  \E sel, c : PicksBy(sel, c, q, M, n)
<1>1. PICK c \in Nat : c = Cardinality(M) /\ c <= n
  <2>1. IsFiniteSet(1 .. n) /\ Cardinality(1 .. n) = n
    BY FS_Interval
  <2>2. Cardinality(M) <= n
    BY <2>1, FS_Subset
  <2>3. Cardinality(M) \in Nat
    BY UptoFacts
  <2> QED
    BY <2>2, <2>3
<1>2. PICK sel : sel = [j \in 0 .. c + 1 |->
                          IF j = 0 THEN 0 ELSE IF j = c + 1 THEN n + 1 ELSE Nth(M, j)]
  OBVIOUS
<1>3. sel[0] = 0 /\ sel[c + 1] = n + 1
  BY <1>1, <1>2
<1>4. \A j \in 1 .. c : sel[j] = Nth(M, j)
  BY <1>1, <1>2
<1>5. \A j \in 1 .. c : sel[j] \in M /\ sel[j] \in 1 .. n /\ Upto(M, sel[j]) = j
  BY <1>1, <1>4, NthIs
<1>6. Upto(M, 0) = 0 /\ Upto(M, n) = c
  BY <1>1, UptoFacts
<1>7. ASSUME NEW j \in 0 .. c
      PROVE  /\ sel[j] \in 0 .. n /\ sel[j + 1] \in 1 .. n + 1 /\ sel[j] < sel[j + 1]
             /\ \A x \in sel[j] + 1 .. sel[j + 1] - 1 : x \notin M
  <2>1. sel[j] \in 0 .. n /\ Upto(M, sel[j]) = j
    <3>1. CASE j = 0
      BY <1>3, <1>6, <3>1
    <3>2. CASE j # 0
      BY <1>5, <3>2
    <3> QED
      BY <3>1, <3>2
  <2>2. CASE j = c
    <3>1. sel[j + 1] = n + 1
      BY <1>3, <2>2
    <3>2. ASSUME NEW x \in M, sel[j] < x PROVE FALSE
      <4>1. x \in 0 .. n /\ n \in 0 .. n /\ x \in 1 .. n
        OBVIOUS
      <4>2. Upto(M, sel[j]) < Upto(M, x)
        BY <2>1, <3>2, UptoOrders
      <4>3. Upto(M, x) <= Upto(M, n)
        BY <4>1, UptoGrows
      <4>4. Upto(M, x) \in Nat
        BY <4>1, UptoFacts
      <4> QED
        BY <1>6, <2>1, <2>2, <4>2, <4>3, <4>4
    <3> QED
      BY <2>1, <3>1, <3>2
  <2>3. CASE j # c
    <3>1. j + 1 \in 1 .. c
      BY <1>1, <2>3
    <3>2. sel[j + 1] \in M /\ sel[j + 1] \in 1 .. n /\ Upto(M, sel[j + 1]) = j + 1
      BY <1>5, <3>1
    <3>3. sel[j] < sel[j + 1]
      BY <1>1, <2>1, <3>2, UptoOrders
    <3>4. ASSUME NEW x \in M, sel[j] < x, x < sel[j + 1] PROVE FALSE
      <4>1. x \in 0 .. n
        OBVIOUS
      <4>2. Upto(M, sel[j]) < Upto(M, x)
        BY <2>1, <3>4, UptoOrders
      <4>3. Upto(M, x) < Upto(M, sel[j + 1])
        BY <3>2, <3>4, <4>1, UptoOrders
      <4>4. Upto(M, x) \in Nat
        BY <4>1, UptoFacts
      <4> QED
        BY <2>1, <3>2, <4>2, <4>3, <4>4
    <3> QED
      BY <2>1, <3>2, <3>3, <3>4
  <2> QED
    BY <2>2, <2>3
<1>8. Selects(sel, M, n, c)
  <2>1. \A j \in 1 .. c : sel[j] \in M
    BY <1>5
  <2> HIDE <1>2
  <2> QED
    BY <1>3, <1>7, <2>1 DEF Selects
<1>9. Picked(q, M) = [j \in 1 .. c |-> q[sel[j]]]
  <2>1. Picked(q, M) = [j \in 1 .. c |-> q[Nth(M, j)]]
    BY <1>1 DEF Picked
  <2>2. \A j \in 1 .. c : q[Nth(M, j)] = q[sel[j]]
    BY <1>4
  <2> QED
    BY <2>1, <2>2
<1>10. c \in 0 .. n
  BY <1>1
<1> QED
  BY <1>8, <1>9, <1>10 DEF PicksBy

-----------------------------------------------------------------------------
(* Adaptors, one by one.                                                   *)

LEMMA AdaptedFields ==
  ASSUME NEW a, NEW lo
  PROVE  /\ Adapted(a, lo).its = Its(a, lo)
         /\ Adapted(a, lo).incr = Incr(a, lo)
         /\ Adapted(a, lo).decr = Decr(a, lo)
         /\ Adapted(a, lo).reads = Reads(a, lo)
         /\ Adapted(a, lo).same = Same(a, lo)
         /\ Adapted(a, lo).category = Category(a, lo)
         /\ Adapted(a, lo).gives = Gives(a, lo)
  BY DEF Adapted

LEMMA SelectOps ==
  ASSUME NEW a, a.op = "select", NEW lo
  PROVE  /\ Its(a, lo) = lo.its /\ Incr(a, lo) = lo.incr /\ Decr(a, lo) = lo.decr
         /\ Category(a, lo) = lo.category
         /\ \A i \in lo.its : Reads(a, lo)[i] = lo.reads[i]
         /\ \A i, j \in lo.its : Same(a, lo)[i][j] <=> lo.same[i][j]
<1>1. Its(a, lo) = lo.its
  BY DEF Its, Joining
<1>2. Incr(a, lo) = lo.incr /\ Decr(a, lo) = lo.decr
  BY DEF Incr, Decr, Joining
<1>3. Category(a, lo) = lo.category
  BY DEF Category, Joining
<1>4. \A i \in lo.its : Reads(a, lo)[i] = lo.reads[i]
  BY <1>1 DEF Reads, Joining
<1>5. \A i, j \in lo.its : Same(a, lo)[i][j] <=> lo.same[i][j]
  BY <1>1 DEF Same, Joining
<1> QED
  BY <1>1, <1>2, <1>3, <1>4, <1>5

LEMMA TakeWhileOps ==
  ASSUME NEW a, a.op = "take_while", NEW lo
  PROVE  /\ Its(a, lo) = lo.its /\ Incr(a, lo) = lo.incr /\ Decr(a, lo) = lo.decr
         /\ Category(a, lo) = lo.category
         /\ \A i \in lo.its : Reads(a, lo)[i] = lo.reads[i]
         /\ \A i, j \in lo.its : Same(a, lo)[i][j] <=> lo.same[i][j] \/ lo.reads[i] \notin a.on
<1>1. Its(a, lo) = lo.its
  BY DEF Its, Joining
<1>2. Incr(a, lo) = lo.incr /\ Decr(a, lo) = lo.decr
  BY DEF Incr, Decr, Joining
<1>3. Category(a, lo) = lo.category
  BY DEF Category, Joining
<1>4. \A i \in lo.its : Reads(a, lo)[i] = lo.reads[i]
  BY <1>1 DEF Reads, Joining
<1>5. \A i, j \in lo.its : Same(a, lo)[i][j] <=> lo.same[i][j] \/ lo.reads[i] \notin a.on
  BY <1>1 DEF Same, Joining, Accepts
<1> QED
  BY <1>1, <1>2, <1>3, <1>4, <1>5

LEMMA ReverseOps ==
  ASSUME NEW a, a.op = "reverse", NEW lo
  PROVE  /\ Its(a, lo) = lo.its /\ Incr(a, lo) = lo.decr /\ Decr(a, lo) = lo.incr
         /\ Category(a, lo) = lo.category
         /\ \A i \in lo.its : Reads(a, lo)[i] = lo.reads[lo.decr[i]]
         /\ \A i, j \in lo.its : Same(a, lo)[i][j] <=> lo.same[i][j]
<1>1. Its(a, lo) = lo.its
  BY DEF Its, Joining
<1>2. Incr(a, lo) = lo.decr /\ Decr(a, lo) = lo.incr
  BY DEF Incr, Decr, Joining
<1>3. Category(a, lo) = lo.category
  BY DEF Category, Joining
<1>4. \A i \in lo.its : Reads(a, lo)[i] = lo.reads[lo.decr[i]]
  BY <1>1 DEF Reads, Joining
<1>5. \A i, j \in lo.its : Same(a, lo)[i][j] <=> lo.same[i][j]
  BY <1>1 DEF Same, Joining
<1> QED
  BY <1>1, <1>2, <1>3, <1>4, <1>5

LEMMA TakeOps ==
  ASSUME NEW a, a.op = "take", NEW lo
  PROVE  /\ Its(a, lo) = [base : lo.its, left : Int]
         /\ Category(a, lo) = lo.category
         /\ Incr(a, lo) = TakeIncr(a, lo)
         /\ Decr(a, lo) = [i \in Its(a, lo) |-> [base |-> lo.decr[i.base], left |-> i.left - 1]]
         /\ \A i \in Its(a, lo) : Reads(a, lo)[i] = lo.reads[i.base]
         /\ \A i, j \in Its(a, lo) : Same(a, lo)[i][j] <=> lo.same[i.base][j.base] \/ i.left = j.left
<1>1. Its(a, lo) = [base : lo.its, left : Int]
  BY DEF Its, Joining
<1>2. Incr(a, lo) = TakeIncr(a, lo)
  BY DEF Incr, Joining
<1>3. Decr(a, lo) = [i \in Its(a, lo) |-> [base |-> lo.decr[i.base], left |-> i.left - 1]]
  BY DEF Decr
<1>4. Category(a, lo) = lo.category
  BY DEF Category, Joining
<1>5. \A i \in Its(a, lo) : Reads(a, lo)[i] = lo.reads[i.base]
  BY DEF Reads, Joining
<1>6. \A i, j \in Its(a, lo) : Same(a, lo)[i][j] <=> lo.same[i.base][j.base] \/ i.left = j.left
  BY DEF Same, Joining
<1> QED
  BY <1>1, <1>2, <1>3, <1>4, <1>5, <1>6

LEMMA TakeAt ==
  ASSUME NEW a, a.op = "take", NEW lo, NEW x \in lo.its, NEW l \in Int,
         NEW i, i = [base |-> x, left |-> l]
  PROVE  /\ i \in Its(a, lo) /\ i.base = x /\ i.left = l
         /\ Incr(a, lo)[i] = [base |-> IF l + 1 < 0 THEN lo.incr[x] ELSE x, left |-> l + 1]
         /\ Decr(a, lo)[i] = [base |-> lo.decr[x], left |-> l - 1]
         /\ Reads(a, lo)[i] = lo.reads[x]
<1>1. i \in Its(a, lo) /\ i.base = x /\ i.left = l
  <2>1. Its(a, lo) = [base : lo.its, left : Int]
    BY TakeOps
  <2> QED
    BY <2>1
<1>2. Incr(a, lo)[i] = [base |-> IF l + 1 < 0 THEN lo.incr[x] ELSE x, left |-> l + 1]
  <2>1. Incr(a, lo) = TakeIncr(a, lo)
    BY TakeOps
  <2> QED
    BY <1>1, <2>1 DEF TakeIncr
<1>3. Decr(a, lo)[i] = [base |-> lo.decr[x], left |-> l - 1]
  <2>1. Decr(a, lo) = [j \in Its(a, lo) |-> [base |-> lo.decr[j.base], left |-> j.left - 1]]
    BY TakeOps
  <2> QED
    BY <1>1, <2>1
<1>4. Reads(a, lo)[i] = lo.reads[x]
  <2>1. \A j \in Its(a, lo) : Reads(a, lo)[j] = lo.reads[j.base]
    BY TakeOps
  <2> QED
    BY <1>1, <2>1
<1> QED
  BY <1>1, <1>2, <1>3, <1>4

LEMMA JoinOps ==
  ASSUME NEW a, a.op \in Joining, NEW lo
  PROVE  /\ Its(a, lo) = [base : lo.its, step : {0, 1}, leg : {"base", "value"}]
         /\ Category(a, lo) = "forward"
         /\ Incr(a, lo) = JoinIncr(a, lo)
         /\ \A i \in Its(a, lo) : Reads(a, lo)[i] = IF i.leg = "base" THEN lo.reads[i.base] ELSE Extra
         /\ \A i, j \in Its(a, lo) :
              Same(a, lo)[i][j] <=> i.leg = j.leg /\ lo.same[i.base][j.base] /\ i.step = j.step
<1>1. Its(a, lo) = [base : lo.its, step : {0, 1}, leg : {"base", "value"}]
  BY DEF Its, Joining
<1>2. Incr(a, lo) = JoinIncr(a, lo)
  BY DEF Incr, Joining
<1>3. Category(a, lo) = "forward"
  BY DEF Category, Joining
<1>4. \A i \in Its(a, lo) : Reads(a, lo)[i] = IF i.leg = "base" THEN lo.reads[i.base] ELSE Extra
  BY DEF Reads, Joining
<1>5. \A i, j \in Its(a, lo) :
        Same(a, lo)[i][j] <=> i.leg = j.leg /\ lo.same[i.base][j.base] /\ i.step = j.step
  BY DEF Same, Joining
<1> QED
  BY <1>1, <1>2, <1>3, <1>4, <1>5

LEMMA DefaultOps ==
  ASSUME NEW a, a.op = "default_if_empty", NEW lo
  PROVE  /\ Its(a, lo) = [base : lo.its, phase : 0 .. 2]
         /\ Category(a, lo) = "forward"
         /\ Incr(a, lo) = DefaultIncr(a, lo)
         /\ \A i \in Its(a, lo) : Reads(a, lo)[i] = IF i.phase = 1 THEN Extra ELSE lo.reads[i.base]
         /\ \A i, j \in Its(a, lo) : Same(a, lo)[i][j] <=> i.phase = j.phase /\ lo.same[i.base][j.base]
<1>1. Its(a, lo) = [base : lo.its, phase : 0 .. 2]
  BY DEF Its, Joining
<1>2. Incr(a, lo) = DefaultIncr(a, lo)
  BY DEF Incr, Joining
<1>3. Category(a, lo) = "forward"
  BY DEF Category, Joining
<1>4. \A i \in Its(a, lo) : Reads(a, lo)[i] = IF i.phase = 1 THEN Extra ELSE lo.reads[i.base]
  BY DEF Reads, Joining
<1>5. \A i, j \in Its(a, lo) : Same(a, lo)[i][j] <=> i.phase = j.phase /\ lo.same[i.base][j.base]
  BY DEF Same, Joining
<1> QED
  BY <1>1, <1>2, <1>3, <1>4, <1>5

LEMMA EnumerateOps ==
  ASSUME NEW a, a.op = "enumerate", NEW lo
  PROVE  /\ Its(a, lo) = [base : lo.its, index : Nat]
         /\ Category(a, lo) = "forward"
         /\ Gives(a, lo) = lo.gives
         /\ DOMAIN Incr(a, lo) = Its(a, lo)
         /\ \A i \in Its(a, lo) :
              /\ Incr(a, lo)[i] = [base |-> lo.incr[i.base], index |-> i.index + 1]
              /\ Reads(a, lo)[i] = <<i.index, lo.reads[i.base]>>
              /\ \A j \in Its(a, lo) : Same(a, lo)[i][j] <=> lo.same[i.base][j.base]
<1>1. Its(a, lo) = [base : lo.its, index : Nat]
  BY DEF Its, Joining
<1>2. Incr(a, lo) = [i \in Its(a, lo) |-> [base |-> lo.incr[i.base], index |-> i.index + 1]]
  BY DEF Incr, Joining
<1>3. Category(a, lo) = "forward" /\ Gives(a, lo) = lo.gives
  BY DEF Category, Gives, Joining
<1>4. \A i \in Its(a, lo) : Reads(a, lo)[i] = <<i.index, lo.reads[i.base]>>
  BY DEF Reads, Joining
<1>5. \A i, j \in Its(a, lo) : Same(a, lo)[i][j] <=> lo.same[i.base][j.base]
  BY DEF Same, Joining
<1>6. DOMAIN Incr(a, lo) = Its(a, lo)
  BY <1>2
<1>7. \A i \in Its(a, lo) : Incr(a, lo)[i] = [base |-> lo.incr[i.base], index |-> i.index + 1]
  BY <1>2
<1> QED
  BY <1>1, <1>3, <1>4, <1>5, <1>6, <1>7

LEMMA SecondOps ==
  ASSUME NEW a, a.op = "second", NEW lo, lo.gives # "copies"
  PROVE  /\ Its(a, lo) = lo.its /\ Incr(a, lo) = lo.incr
         /\ Category(a, lo) = lo.category
         /\ \A i \in lo.its : Reads(a, lo)[i] = lo.reads[i][2]
         /\ \A i, j \in lo.its : Same(a, lo)[i][j] <=> lo.same[i][j]
<1>1. Its(a, lo) = lo.its
  BY DEF Its, Joining
<1>2. Incr(a, lo) = lo.incr
  BY DEF Incr, Joining
<1>3. Category(a, lo) = lo.category
  BY DEF Category, Joining
<1>4. \A i \in lo.its : Reads(a, lo)[i] = lo.reads[i][2]
  BY <1>1 DEF Reads, Joining
<1>5. \A i, j \in lo.its : Same(a, lo)[i][j] <=> lo.same[i][j]
  BY <1>1 DEF Same, Joining
<1> QED
  BY <1>1, <1>2, <1>3, <1>4, <1>5

LEMMA StrideOps ==
  ASSUME NEW a, a.op = "stride", NEW lo
  PROVE  /\ Its(a, lo) = lo.its /\ Incr(a, lo) = UpTo(a.n, a.e, lo)
         /\ Category(a, lo) = "forward"
         /\ \A i \in lo.its : Reads(a, lo)[i] = lo.reads[i]
         /\ \A i, j \in lo.its : Same(a, lo)[i][j] <=> lo.same[i][j]
<1>1. Its(a, lo) = lo.its
  BY DEF Its, Joining
<1>2. Incr(a, lo) = UpTo(a.n, a.e, lo)
  BY DEF Incr, Joining, StrideIncr
<1>3. Category(a, lo) = "forward"
  BY DEF Category, Joining
<1>4. \A i \in lo.its : Reads(a, lo)[i] = lo.reads[i]
  BY <1>1 DEF Reads, Joining
<1>5. \A i, j \in lo.its : Same(a, lo)[i][j] <=> lo.same[i][j]
  BY <1>1 DEF Same, Joining
<1> QED
  BY <1>1, <1>2, <1>3, <1>4, <1>5

LEMMA WhereOps ==
  ASSUME NEW a, a.op \in {"where", "where_indexed"}, NEW lo
  PROVE  /\ Its(a, lo) = lo.its /\ Incr(a, lo) = WhereIncr(a, lo)
         /\ a.op = "where" => Decr(a, lo) = WhereDecr(a, lo)
         /\ Category(a, lo) = lo.category /\ Gives(a, lo) = lo.gives
         /\ \A i \in lo.its : Reads(a, lo)[i] = lo.reads[i]
         /\ \A i, j \in lo.its : Same(a, lo)[i][j] <=> lo.same[i][j]
<1>1. Its(a, lo) = lo.its
  BY DEF Its, Joining
<1>2. Incr(a, lo) = WhereIncr(a, lo)
  BY DEF Incr, Joining
<1>3. Category(a, lo) = lo.category /\ Gives(a, lo) = lo.gives
  BY DEF Category, Gives, Joining
<1>4. \A i \in lo.its : Reads(a, lo)[i] = lo.reads[i]
  BY <1>1 DEF Reads, Joining
<1>5. \A i, j \in lo.its : Same(a, lo)[i][j] <=> lo.same[i][j]
  <2>1. a.op \notin {"take_while", "take", "append", "prepend", "default_if_empty", "enumerate"}
    OBVIOUS
  <2>2. Same(a, lo) = [i \in lo.its |-> [j \in lo.its |-> lo.same[i][j]]]
    BY <1>1, <2>1, Zenon DEF Same, Joining
  <2> QED
    BY <2>2
<1>6. a.op = "where" => Decr(a, lo) = WhereDecr(a, lo)
  BY DEF Decr
<1> QED
  BY <1>1, <1>2, <1>3, <1>4, <1>5, <1>6

-----------------------------------------------------------------------------
(* Paths.                                                                  *)

\* The operators of a type are for all its iterators.
IsType(ty) ==
  /\ DOMAIN ty.incr = ty.its
  /\ ty.category = "bidirectional" => DOMAIN ty.decr = ty.its

\* p leads from the bound b through the n elements of q to an iterator equal to the bound e.
Path(ty, b, e, q, n, p) ==
  /\ n \in Nat /\ e \in ty.its /\ p[1] = b
  /\ \A k \in 1 .. n + 1 : p[k] \in ty.its
  /\ \A k \in 1 .. n : ~ty.same[p[k]][e] /\ ty.reads[p[k]] = q[k] /\ ty.incr[p[k]] = p[k + 1]
  /\ ty.same[p[n + 1]][e]

\* p leads through them and back, and no two of its iterators are equal.
BothWays(ty, q, n, p) ==
  /\ n \in Nat
  /\ \A k \in 1 .. n + 1 : p[k] \in ty.its
  /\ \A k \in 1 .. n : ty.reads[p[k]] = q[k] /\ ty.incr[p[k]] = p[k + 1] /\ ty.decr[p[k + 1]] = p[k]
  /\ \A j, k \in 1 .. n + 1 : ty.same[p[j]][p[k]] <=> j = k

\* A loop along a path that may go on up to place m leads there.
LEMMA LoopAlong ==
  ASSUME NEW ty, IsType(ty), NEW b, NEW e, NEW q, NEW n, NEW p, Path(ty, b, e, q, n, p),
         NEW stop, NEW k \in 1 .. n + 1, NEW m \in k .. n + 1,
         \A x \in k .. m - 1 : ~stop[p[x]], stop[p[m]]
  PROVE  Until(ty.incr, stop)[p[k]] = p[m]
<1>1. n \in Nat /\ \A x \in 1 .. n + 1 : p[x] \in DOMAIN ty.incr
  BY DEF Path, IsType
<1>2. \A x \in 1 .. n : ty.incr[p[x]] = p[x + 1]
  BY DEF Path
<1>3. \A x \in k .. m : p[x] \in DOMAIN ty.incr
  BY <1>1
<1>4. \A x \in k .. m - 1 : ~stop[p[x]] /\ ty.incr[p[x]] = p[x + 1]
  BY <1>1, <1>2
<1>5. k \in Nat /\ m \in Nat /\ k <= m
  BY <1>1
<1>6. GoesOn(ty.incr, stop, p, k, m)
  BY <1>3, <1>4, <1>5 DEF GoesOn
<1> QED
  BY <1>6, UntilAlong

\* So a loop that goes on to the end leads to the end of the path.
LEMMA WalkAlong ==
  ASSUME NEW ty, IsType(ty), NEW b, NEW e, NEW q, NEW n, NEW p, Path(ty, b, e, q, n, p)
  PROVE  Until(ty.incr, [i \in ty.its |-> ty.same[i][e]])[b] = p[n + 1]
<1> PICK stop : stop = [i \in ty.its |-> ty.same[i][e]]
  OBVIOUS
<1>1. n \in Nat /\ p[1] = b /\ \A x \in 1 .. n + 1 : p[x] \in ty.its
  BY DEF Path
<1>2. \A x \in 1 .. n : ~stop[p[x]]
  BY <1>1 DEF Path
<1>3. stop[p[n + 1]]
  BY <1>1 DEF Path
<1>4. 1 \in 1 .. n + 1 /\ n + 1 \in 1 .. n + 1 /\ (n + 1) - 1 = n
  BY <1>1
<1>5. Until(ty.incr, stop)[p[1]] = p[n + 1]
  BY <1>2, <1>3, <1>4, LoopAlong
<1> QED
  BY <1>1, <1>5

\* So do c steps, unless the path is shorter.
LEMMA UpToAlong ==
  ASSUME NEW ty, IsType(ty), NEW b, NEW e, NEW q, NEW n, NEW p, Path(ty, b, e, q, n, p),
         NEW c \in Nat, NEW k \in 1 .. n + 1
  PROVE  UpTo(c, e, ty)[p[k]] = p[IF k + c <= n + 1 THEN k + c ELSE n + 1]
<1>1. n \in Nat /\ \A x \in 1 .. n + 1 : p[x] \in ty.its
  BY DEF Path
<1> PICK m : m = IF k + c <= n + 1 THEN k + c ELSE n + 1
  OBVIOUS
<1>2. m \in k .. n + 1 /\ m - k <= c /\ (m # n + 1 => c = m - k)
  BY <1>1
<1>m. PICK marks : marks = [i : ty.its, n : Int]
  OBVIOUS
<1>n. PICK next : next = [x \in marks |-> [i |-> ty.incr[x.i], n |-> x.n - 1]]
  OBVIOUS
<1>s. PICK stop : stop = [x \in marks |-> x.n = 0 \/ ty.same[x.i][e]]
  OBVIOUS
<1>3. UpTo(c, e, ty) = [i \in ty.its |-> Until(next, stop)[[i |-> i, n |-> c]].i]
  BY <1>m, <1>n, <1>s DEF UpTo
<1>t. PICK t : t = [x \in k .. m |-> [i |-> p[x], n |-> c - (x - k)]]
  OBVIOUS
<1>4. ASSUME NEW x \in k .. m
      PROVE  /\ t[x] \in marks /\ t[x].i = p[x] /\ t[x].n = c - (x - k)
             /\ t[x] = [i |-> p[x], n |-> c - (x - k)]
  <2>1. t[x] = [i |-> p[x], n |-> c - (x - k)]
    BY <1>t
  <2>2. p[x] \in ty.its /\ c - (x - k) \in Int
    BY <1>1, <1>2
  <2> QED
    BY <1>m, <2>1, <2>2
<1>5. ASSUME NEW x \in k .. m - 1 PROVE ~stop[t[x]] /\ next[t[x]] = t[x + 1]
  <2>1. x \in 1 .. n /\ x \in k .. m /\ x + 1 \in k .. m
    BY <1>1, <1>2
  <2>2. ~ty.same[p[x]][e] /\ ty.incr[p[x]] = p[x + 1]
    BY <2>1 DEF Path
  <2>3. c - (x - k) # 0 /\ (c - (x - k)) - 1 = c - ((x + 1) - k)
    BY <1>1, <1>2
  <2>4. ~stop[t[x]]
    BY <1>s, <1>4, <2>1, <2>2, <2>3
  <2>5. next[t[x]] = [i |-> ty.incr[p[x]], n |-> (c - (x - k)) - 1]
    BY <1>n, <1>4, <2>1
  <2>6. t[x + 1] = [i |-> p[x + 1], n |-> c - ((x + 1) - k)]
    BY <1>4, <2>1
  <2> QED
    BY <2>2, <2>3, <2>4, <2>5, <2>6
<1>6. m \in k .. m /\ k \in k .. m
  BY <1>2
<1>7. stop[t[m]]
  <2>1. CASE m = n + 1
    <3>1. ty.same[p[m]][e]
      BY <2>1 DEF Path
    <3> QED
      BY <1>s, <1>4, <1>6, <3>1
  <2>2. CASE m # n + 1
    <3>1. c - (m - k) = 0
      BY <1>1, <1>2, <2>2
    <3> QED
      BY <1>s, <1>4, <1>6, <3>1
  <2> QED
    BY <2>1, <2>2
<1>8. Until(next, stop)[t[k]] = t[m]
  <2>1. DOMAIN next = marks
    BY <1>n
  <2>2. \A x \in k .. m : t[x] \in DOMAIN next
    BY <1>4, <2>1
  <2>3. k \in Nat /\ m \in Nat /\ k <= m
    BY <1>1, <1>2
  <2> QED
    <3>1. \A x \in k .. m - 1 : ~stop[t[x]] /\ next[t[x]] = t[x + 1]
      BY <1>5
    <3>2. GoesOn(next, stop, t, k, m)
      BY <1>7, <2>2, <2>3, <3>1 DEF GoesOn
    <3> QED
      BY <3>2, UntilAlong
<1>9. t[k] = [i |-> p[k], n |-> c] /\ t[m].i = p[m]
  <2>1. c - (k - k) = c
    OBVIOUS
  <2> QED
    BY <1>4, <1>6, <2>1
<1>10. UpTo(c, e, ty)[p[k]] = Until(next, stop)[t[k]].i
  <2>1. p[k] \in ty.its
    BY <1>1
  <2>2. UpTo(c, e, ty)[p[k]] = Until(next, stop)[[i |-> p[k], n |-> c]].i
    BY <1>3, <2>1
  <2> QED
    BY <1>9, <2>2
<1> QED
  BY <1>8, <1>9, <1>10

LEMMA SelectPath ==
  ASSUME NEW a, a.op = "select", NEW lo, NEW T, T = Adapted(a, lo),
         NEW b, NEW e, NEW q, NEW n, NEW p
  PROVE  /\ IsType(lo) => IsType(T)
         /\ T.category = lo.category
         /\ Path(lo, b, e, q, n, p) => Path(T, b, e, q, n, p)
         /\ BothWays(lo, q, n, p) => BothWays(T, q, n, p)
<1>1. /\ T.its = lo.its /\ T.incr = lo.incr /\ T.decr = lo.decr /\ T.category = lo.category
      /\ \A i \in lo.its : T.reads[i] = lo.reads[i]
      /\ \A i, j \in lo.its : T.same[i][j] <=> lo.same[i][j]
  BY AdaptedFields, SelectOps
<1>2. IsType(lo) => IsType(T)
  BY <1>1 DEF IsType
<1>3. Path(lo, b, e, q, n, p) => Path(T, b, e, q, n, p)
  BY <1>1 DEF Path
<1>4. BothWays(lo, q, n, p) => BothWays(T, q, n, p)
  BY <1>1 DEF BothWays
<1> QED
  BY <1>1, <1>2, <1>3, <1>4

\* From the last of a path back to its first.
LEMMA ReversePath ==
  ASSUME NEW a, a.op = "reverse", NEW lo, NEW T, T = Adapted(a, lo),
         IsType(lo), lo.category = "bidirectional",
         NEW q, NEW n, NEW p, BothWays(lo, q, n, p),
         NEW back, \A k \in 1 .. n : back[k] = q[n - k + 1]
  PROVE  /\ IsType(T)
         /\ \E r : Path(T, p[n + 1], p[1], back, n, r) /\ BothWays(T, back, n, r) /\ r[n + 1] = p[1]
<1>1. /\ T.its = lo.its /\ T.incr = lo.decr /\ T.decr = lo.incr /\ T.category = lo.category
      /\ \A i \in lo.its : T.reads[i] = lo.reads[lo.decr[i]]
      /\ \A i, j \in lo.its : T.same[i][j] <=> lo.same[i][j]
  BY AdaptedFields, ReverseOps
<1>2. IsType(T)
  BY <1>1 DEF IsType
<1>3. n \in Nat /\ \A k \in 1 .. n + 1 : p[k] \in lo.its
  BY DEF BothWays
<1> PICK r : r = [k \in 1 .. n + 1 |-> p[n + 2 - k]]
  OBVIOUS
<1>4. ASSUME NEW k \in 1 .. n + 1
      PROVE  r[k] = p[n + 2 - k] /\ n + 2 - k \in 1 .. n + 1 /\ r[k] \in T.its
  <2>1. n + 2 - k \in 1 .. n + 1
    BY <1>3
  <2> QED
    BY <1>1, <1>3, <2>1
<1>5. ASSUME NEW k \in 1 .. n
      PROVE  T.reads[r[k]] = back[k] /\ T.incr[r[k]] = r[k + 1] /\ T.decr[r[k + 1]] = r[k]
  <2>1. k \in 1 .. n + 1 /\ k + 1 \in 1 .. n + 1 /\ n - k + 1 \in 1 .. n
        /\ n + 2 - k = (n - k + 1) + 1 /\ n + 2 - (k + 1) = n - k + 1
    BY <1>3
  <2>2. r[k] = p[(n - k + 1) + 1] /\ r[k + 1] = p[n - k + 1] /\ r[k] \in lo.its
    BY <1>1, <1>4, <2>1
  <2>3. PICK m \in 1 .. n : m = n - k + 1
    BY <2>1
  <2>4. lo.reads[p[m]] = q[m] /\ lo.incr[p[m]] = p[m + 1] /\ lo.decr[p[m + 1]] = p[m]
    BY DEF BothWays
  <2>5. back[k] = q[m]
    BY <2>3
  <2> QED
    BY <1>1, <2>2, <2>3, <2>4, <2>5
<1>6. ASSUME NEW j \in 1 .. n + 1, NEW k \in 1 .. n + 1 PROVE T.same[r[j]][r[k]] <=> j = k
  <2>1. PICK x \in 1 .. n + 1, y \in 1 .. n + 1 : x = n + 2 - j /\ y = n + 2 - k
    BY <1>4
  <2>2. r[j] = p[x] /\ r[k] = p[y] /\ r[j] \in lo.its /\ r[k] \in lo.its
    BY <1>1, <1>4, <2>1
  <2>3. lo.same[p[x]][p[y]] <=> x = y
    BY DEF BothWays
  <2>4. x = y <=> j = k
    BY <1>3, <2>1
  <2> QED
    BY <1>1, <2>2, <2>3, <2>4
<1>7. r[n + 1] = p[1] /\ r[1] = p[n + 1]
  <2>1. n + 2 - (n + 1) = 1 /\ n + 2 - 1 = n + 1 /\ 1 \in 1 .. n + 1 /\ n + 1 \in 1 .. n + 1
    BY <1>3
  <2> QED
    BY <1>4, <2>1
<1>8. BothWays(T, back, n, r)
  BY <1>3, <1>4, <1>5, <1>6 DEF BothWays
<1>9. Path(T, p[n + 1], p[1], back, n, r)
  <2>1. n + 1 \in 1 .. n + 1 /\ \A k \in 1 .. n : k \in 1 .. n + 1 /\ k # n + 1
    BY <1>3
  <2>2. T.same[r[n + 1]][p[1]] /\ \A k \in 1 .. n : ~T.same[r[k]][p[1]]
    BY <1>6, <1>7, <2>1
  <2>3. p[1] \in T.its
    BY <1>4, <1>7, <2>1
  <2> QED
    BY <1>3, <1>4, <1>5, <1>7, <2>2, <2>3 DEF Path
<1> QED
  BY <1>2, <1>7, <1>8, <1>9

\* The places of the n elements of q that a accepts.
Accepted(a, q, n) == {k \in 1 .. n : Accepts(a, q[k])}

\* A filter a over a path, whose places sel lists.
Filters(a, lo, b, e, q, n, p, sel, c) ==
  /\ IsType(lo) /\ Path(lo, b, e, q, n, p) /\ a.e = e
  /\ \A k \in 1 .. n : q[k] # Off
  /\ c \in 0 .. n /\ Selects(sel, Accepted(a, q, n), n, c)

\* What where accepts of a path, and where it leads: SeekOn from after one place to the next.
LEMMA SeekAlong ==
  ASSUME NEW a, NEW lo, NEW b, NEW e, NEW q, NEW n, NEW p, NEW sel, NEW c,
         Filters(a, lo, b, e, q, n, p, sel, c), NEW j \in 0 .. c
  PROVE  SeekOn(a, lo)[p[sel[j] + 1]] = p[sel[j + 1]]
<1>0. PICK M : M = Accepted(a, q, n) /\ Selects(sel, M, n, c)
  BY DEF Filters
<1>p. /\ IsType(lo) /\ Path(lo, b, e, q, n, p) /\ a.e = e
      /\ (\A k \in 1 .. n : q[k] # Off) /\ c \in 0 .. n
  BY DEF Filters
<1>1. n \in Nat /\ \A x \in 1 .. n + 1 : p[x] \in lo.its
  BY <1>p DEF Path
<1>2. /\ sel[j] \in 0 .. n /\ sel[j + 1] \in 1 .. n + 1 /\ sel[j] < sel[j + 1]
      /\ \A x \in sel[j] + 1 .. sel[j + 1] - 1 : x \notin M
      /\ sel[c + 1] = n + 1 /\ \A x \in 1 .. c : sel[x] \in M
  BY <1>0, <1>p DEF Selects
<1>3. PICK k \in 1 .. n + 1, m \in 1 .. n + 1 : k = sel[j] + 1 /\ m = sel[j + 1] /\ k <= m
  BY <1>p, <1>1, <1>2
<1>4. PICK stop : stop = [i \in lo.its |-> lo.same[i][e] \/ lo.reads[i] = Off \/ Accepts(a, lo.reads[i])]
  OBVIOUS
<1>5. ASSUME NEW x \in k .. m - 1 PROVE ~stop[p[x]]
  <2>1. x \in 1 .. n /\ x \in 1 .. n + 1 /\ x \notin M
    BY <1>1, <1>2, <1>3
  <2>2. ~lo.same[p[x]][e] /\ lo.reads[p[x]] = q[x]
    BY <1>p, <2>1 DEF Path
  <2>3. q[x] # Off /\ ~Accepts(a, q[x]) /\ p[x] \in lo.its
    BY <1>0, <1>p, <1>1, <2>1 DEF Accepted
  <2> QED
    BY <1>4, <2>2, <2>3
<1>6. stop[p[m]]
  <2>1. p[m] \in lo.its
    BY <1>1
  <2>2. CASE m = n + 1
    <3>1. lo.same[p[m]][e]
      BY <1>p, <2>2 DEF Path
    <3> QED
      BY <1>4, <2>1, <3>1
  <2>3. CASE m # n + 1
    <3>1. j + 1 \in 1 .. c
      BY <1>p, <1>1, <1>2, <1>3, <2>3
    <3>2. m \in M
      BY <1>2, <1>3, <3>1
    <3>3. Accepts(a, q[m]) /\ m \in 1 .. n
      BY <1>0, <3>2 DEF Accepted
    <3>4. lo.reads[p[m]] = q[m]
      BY <1>p, <3>3 DEF Path
    <3> QED
      BY <1>4, <2>1, <3>3, <3>4
  <2> QED
    BY <2>2, <2>3
<1>7. Until(lo.incr, stop)[p[k]] = p[m]
  <2>1. k \in 1 .. n + 1 /\ m \in k .. n + 1
    BY <1>1, <1>3
  <2> QED
    BY <1>p, <1>5, <1>6, <2>1, LoopAlong
<1> QED
  BY <1>p, <1>3, <1>4, <1>7 DEF SeekOn

LEMMA WherePath ==
  ASSUME NEW a, a.op \in {"where", "where_indexed"}, NEW lo, NEW T, T = Adapted(a, lo),
         NEW b, NEW e, NEW q, NEW n, NEW p, NEW sel, NEW c, Filters(a, lo, b, e, q, n, p, sel, c),
         NEW w, w = [j \in 1 .. c + 1 |-> p[sel[j]]],
         NEW x, x = [j \in 1 .. c |-> q[sel[j]]]
  PROVE  Path(T, SeekOn(a, lo)[b], e, x, c, w)
<1>p. Path(lo, b, e, q, n, p) /\ c \in 0 .. n /\ Selects(sel, Accepted(a, q, n), n, c)
  BY DEF Filters
<1>1. /\ T.its = lo.its /\ T.incr = WhereIncr(a, lo)
      /\ \A i \in lo.its : T.reads[i] = lo.reads[i]
      /\ \A i, j \in lo.its : T.same[i][j] <=> lo.same[i][j]
  BY AdaptedFields, WhereOps
<1>2. n \in Nat /\ c \in Nat /\ p[1] = b /\ e \in lo.its /\ \A y \in 1 .. n + 1 : p[y] \in lo.its
  BY <1>p DEF Path
<1>3. /\ sel[0] = 0 /\ sel[c + 1] = n + 1
      /\ \A j \in 0 .. c : sel[j] \in 0 .. n /\ sel[j + 1] \in 1 .. n + 1 /\ sel[j] < sel[j + 1]
  BY <1>p DEF Selects
<1>4. ASSUME NEW j \in 1 .. c PROVE sel[j] \in 1 .. n
  <2>1. j \in 0 .. c /\ j - 1 \in 0 .. c /\ (j - 1) + 1 = j
    BY <1>2
  <2>2. sel[j - 1] \in 0 .. n /\ sel[j - 1] < sel[j] /\ sel[j] \in 0 .. n
    BY <1>3, <2>1
  <2> QED
    BY <1>2, <2>2
<1>5. ASSUME NEW j \in 0 .. c PROVE SeekOn(a, lo)[p[sel[j] + 1]] = p[sel[j + 1]]
  BY SeekAlong
<1>6. w[1] = SeekOn(a, lo)[b]
  <2>1. 0 \in 0 .. c /\ 0 + 1 = 1 /\ 1 \in 1 .. c + 1
    BY <1>2
  <2>2. SeekOn(a, lo)[p[1]] = p[sel[1]]
    BY <1>3, <1>5, <2>1
  <2> QED
    BY <1>2, <2>1, <2>2
<1>7. ASSUME NEW j \in 1 .. c + 1 PROVE w[j] = p[sel[j]] /\ sel[j] \in 1 .. n + 1 /\ w[j] \in lo.its
  <2>1. j - 1 \in 0 .. c /\ (j - 1) + 1 = j
    BY <1>2
  <2>2. sel[j] \in 1 .. n + 1
    BY <1>3, <2>1
  <2> QED
    BY <1>2, <2>2
<1>8. ASSUME NEW j \in 1 .. c
      PROVE  ~T.same[w[j]][e] /\ T.reads[w[j]] = x[j] /\ T.incr[w[j]] = w[j + 1]
  <2>1. j \in 1 .. c + 1 /\ j + 1 \in 1 .. c + 1 /\ j \in 0 .. c
    BY <1>2
  <2>2. w[j] = p[sel[j]] /\ w[j + 1] = p[sel[j + 1]] /\ w[j] \in lo.its /\ sel[j] \in 1 .. n
    BY <1>4, <1>7, <2>1
  <2>3. ~lo.same[p[sel[j]]][e] /\ lo.reads[p[sel[j]]] = q[sel[j]] /\ lo.incr[p[sel[j]]] = p[sel[j] + 1]
    BY <1>p, <2>2 DEF Path
  <2>4. x[j] = q[sel[j]]
    OBVIOUS
  <2>5. T.incr[w[j]] = SeekOn(a, lo)[lo.incr[w[j]]]
    BY <1>1, <2>2 DEF WhereIncr
  <2>6. T.incr[w[j]] = w[j + 1]
    BY <1>5, <2>1, <2>2, <2>3, <2>5
  <2>7. ~T.same[w[j]][e] /\ T.reads[w[j]] = x[j]
    BY <1>1, <1>2, <2>2, <2>3, <2>4
  <2> QED
    BY <2>6, <2>7
<1>9. T.same[w[c + 1]][e]
  <2>1. c + 1 \in 1 .. c + 1
    BY <1>2
  <2>2. w[c + 1] = p[n + 1] /\ p[n + 1] \in lo.its
    BY <1>3, <1>7, <2>1
  <2>3. lo.same[p[n + 1]][e]
    BY <1>p DEF Path
  <2> QED
    BY <1>1, <1>2, <2>2, <2>3
<1> QED
  BY <1>1, <1>2, <1>6, <1>7, <1>8, <1>9 DEF Path

\* And back: SeekBack from before one place to the one before.
LEMMA SeekBackAlong ==
  ASSUME NEW a, NEW lo, lo.category = "bidirectional",
         NEW q, NEW n, NEW p, BothWays(lo, q, n, p), a.b = p[1],
         NEW b, NEW e, NEW sel, NEW c, Filters(a, lo, b, e, q, n, p, sel, c), NEW j \in 1 .. c
  PROVE  SeekBack(a, lo)[p[sel[j + 1] - 1]] = p[sel[j]]
<1>0. PICK M : M = Accepted(a, q, n) /\ Selects(sel, M, n, c)
  BY DEF Filters
<1>p. IsType(lo) /\ (\A k \in 1 .. n : q[k] # Off) /\ c \in 0 .. n
  BY DEF Filters
<1>1. n \in Nat /\ \A x \in 1 .. n + 1 : p[x] \in lo.its
  BY DEF BothWays
<1>2. j \in 0 .. c /\ sel[j] \in M /\ sel[j] \in 1 .. n
  <2>1. j \in 0 .. c
    BY <1>p
  <2>2. sel[j] \in M
    BY <1>0 DEF Selects
  <2> QED
    BY <1>0, <2>1, <2>2 DEF Accepted
<1>3. /\ sel[j + 1] \in 1 .. n + 1 /\ sel[j] < sel[j + 1]
      /\ \A x \in sel[j] + 1 .. sel[j + 1] - 1 : x \notin M
  BY <1>0, <1>2 DEF Selects
<1>4. PICK h \in 1 .. n, k \in 1 .. n : h = sel[j] /\ k = sel[j + 1] - 1 /\ h <= k
  BY <1>1, <1>2, <1>3
<1>5. PICK stop : stop = [i \in lo.its |-> Meets(a, lo, i) \/ lo.same[i][a.b] \/ lo.reads[i] = Off]
  OBVIOUS
<1>6. PICK d \in Nat : d = k - h
  BY <1>4
<1>r. PICK r : r = [x \in 0 .. d |-> p[k - x]]
  OBVIOUS
<1>d. DOMAIN lo.decr = lo.its
  BY <1>p DEF IsType
<1>7. ASSUME NEW x \in 0 .. d
      PROVE  r[x] = p[k - x] /\ k - x \in 1 .. n /\ k - x \in 1 .. n + 1 /\ r[x] \in DOMAIN lo.decr
  <2>1. k - x \in 1 .. n /\ k - x \in 1 .. n + 1
    BY <1>1, <1>4, <1>6
  <2>2. r[x] = p[k - x]
    BY <1>r
  <2> QED
    BY <1>1, <1>d, <2>1, <2>2
<1>8. ASSUME NEW x \in 0 .. d - 1 PROVE ~stop[r[x]] /\ lo.decr[r[x]] = r[x + 1]
  <2>1. x \in 0 .. d /\ x + 1 \in 0 .. d /\ k - x \in sel[j] + 1 .. sel[j + 1] - 1
    BY <1>1, <1>2, <1>3, <1>4, <1>6
  <2>2. PICK y \in 1 .. n : y = k - x /\ y # 1 /\ y - 1 \in 1 .. n /\ y - 1 = k - (x + 1)
    BY <1>1, <1>2, <1>4, <1>7, <2>1
  <2>3. r[x] = p[y] /\ r[x + 1] = p[y - 1] /\ p[y] \in lo.its
    BY <1>1, <1>7, <2>1, <2>2
  <2>4. y \notin M
    BY <1>3, <2>1, <2>2
  <2>5. q[y] # Off /\ ~Accepts(a, q[y])
    BY <1>0, <1>p, <2>4 DEF Accepted
  <2>6. lo.reads[p[y]] = q[y]
    BY DEF BothWays
  <2>7. lo.decr[p[y]] = p[y - 1]
    <3>1. \A m \in 1 .. n : lo.decr[p[m + 1]] = p[m]
      BY DEF BothWays
    <3>2. (y - 1) + 1 = y
      BY <2>2
    <3> QED
      BY <2>2, <3>1, <3>2
  <2>8. ~lo.same[p[y]][a.b]
    <3>1. 1 \in 1 .. n + 1 /\ y \in 1 .. n + 1
      BY <1>1
    <3> QED
      BY <2>2, <3>1 DEF BothWays
  <2>9. ~Meets(a, lo, p[y])
    BY <2>5, <2>6 DEF Meets
  <2>10. ~stop[p[y]]
    BY <1>5, <2>3, <2>5, <2>6, <2>8, <2>9
  <2> QED
    BY <2>3, <2>7, <2>10
<1>9. r[d] = p[h] /\ r[0] = p[k]
  <2>1. k - d = h /\ k - 0 = k /\ d \in 0 .. d /\ 0 \in 0 .. d
    BY <1>4, <1>6
  <2> QED
    BY <1>r, <2>1
<1>10. Meets(a, lo, p[h])
  <2>1. lo.reads[p[h]] = q[h]
    BY DEF BothWays
  <2>2. q[h] # Off /\ Accepts(a, q[h])
    BY <1>0, <1>p, <1>2, <1>4 DEF Accepted
  <2> QED
    BY <2>1, <2>2 DEF Meets
<1>11. stop[r[d]]
  <2>1. p[h] \in lo.its
    BY <1>1
  <2> QED
    BY <1>5, <1>9, <1>10, <2>1
<1>12. Until(lo.decr, stop)[r[0]] = r[d]
  <2>1. 0 \in Nat /\ 0 <= d
    BY <1>6
  <2>2. \A x \in 0 .. d : r[x] \in DOMAIN lo.decr
    BY <1>7
  <2>3. \A x \in 0 .. d - 1 : ~stop[r[x]] /\ lo.decr[r[x]] = r[x + 1]
    BY <1>8
  <2> QED
    <3>1. GoesOn(lo.decr, stop, r, 0, d)
      BY <1>6, <1>11, <2>1, <2>2, <2>3 DEF GoesOn
    <3> QED
      BY <3>1, UntilAlong
<1>13. SeekBack(a, lo)[p[k]] =
         IF Meets(a, lo, Until(lo.decr, stop)[p[k]]) THEN Until(lo.decr, stop)[p[k]] ELSE a.e
  <2>1. p[k] \in lo.its
    BY <1>1
  <2> QED
    BY <1>5, <2>1 DEF SeekBack
<1> QED
  BY <1>4, <1>9, <1>10, <1>12, <1>13

LEMMA WhereBothWays ==
  ASSUME NEW a, a.op = "where", NEW lo, NEW T, T = Adapted(a, lo), lo.category = "bidirectional",
         NEW q, NEW n, NEW p, BothWays(lo, q, n, p), a.b = p[1],
         NEW sel, NEW c, Filters(a, lo, p[1], p[n + 1], q, n, p, sel, c),
         NEW w, w = [j \in 1 .. c + 1 |-> p[sel[j]]],
         NEW x, x = [j \in 1 .. c |-> q[sel[j]]]
  PROVE  BothWays(T, x, c, w)
<1>1. /\ T.its = lo.its /\ T.decr = WhereDecr(a, lo)
      /\ \A i, j \in lo.its : T.same[i][j] <=> lo.same[i][j]
  BY AdaptedFields, WhereOps
<1>p. c \in 0 .. n /\ Selects(sel, Accepted(a, q, n), n, c) /\ a.e = p[n + 1]
  BY DEF Filters
<1>2. n \in Nat /\ c \in Nat /\ \A y \in 1 .. n + 1 : p[y] \in lo.its
  BY <1>p DEF BothWays
<1>3. Path(T, SeekOn(a, lo)[p[1]], p[n + 1], x, c, w)
  BY WherePath
<1>4. /\ sel[0] = 0 /\ sel[c + 1] = n + 1 /\ \A j \in 1 .. c : sel[j] \in Accepted(a, q, n)
      /\ \A j \in 0 .. c : sel[j] \in 0 .. n /\ sel[j + 1] \in 1 .. n + 1 /\ sel[j] < sel[j + 1]
  BY <1>p DEF Selects
<1>5. ASSUME NEW j \in 1 .. c + 1 PROVE w[j] = p[sel[j]] /\ sel[j] \in 1 .. n + 1 /\ w[j] \in lo.its
  <2>1. j - 1 \in 0 .. c /\ (j - 1) + 1 = j
    BY <1>2
  <2>2. sel[j] \in 1 .. n + 1
    BY <1>4, <2>1
  <2> QED
    BY <1>2, <2>2
<1>6. ASSUME NEW j \in 1 .. c PROVE T.decr[w[j + 1]] = w[j]
  <2>1. j + 1 \in 1 .. c + 1 /\ j \in 1 .. c + 1 /\ j \in 0 .. c
    BY <1>2
  <2>2. PICK m \in 2 .. n + 1 : m = sel[j + 1]
    <3>1. sel[j + 1] \in 1 .. n + 1 /\ sel[j] < sel[j + 1] /\ sel[j] \in 1 .. n + 1
      BY <1>4, <1>5, <2>1
    <3> QED
      BY <1>2, <3>1
  <2>3. w[j + 1] = p[m] /\ w[j] = p[sel[j]] /\ p[m] \in lo.its
    BY <1>5, <2>1, <2>2
  <2>4. SeekBack(a, lo)[p[m - 1]] = p[sel[j]]
    <3>1. SeekBack(a, lo)[p[sel[j + 1] - 1]] = p[sel[j]]
      BY SeekBackAlong
    <3> QED
      BY <2>2, <3>1
  <2>5. lo.decr[p[m]] = p[m - 1]
    <3>1. \A y \in 1 .. n : lo.decr[p[y + 1]] = p[y]
      BY DEF BothWays
    <3>2. m - 1 \in 1 .. n /\ (m - 1) + 1 = m
      BY <1>2
    <3> QED
      BY <3>1, <3>2
  <2>6. ~lo.same[p[m]][a.b] /\ ~lo.same[a.b][a.e]
    <3>1. 1 \in 1 .. n + 1 /\ n + 1 \in 1 .. n + 1 /\ m \in 1 .. n + 1 /\ m # 1 /\ n + 1 # 1
      BY <1>2
    <3> QED
      BY <1>p, <3>1 DEF BothWays
  <2>7. T.decr[p[m]] = SeekBack(a, lo)[lo.decr[p[m]]]
    BY <1>1, <2>3, <2>6 DEF WhereDecr
  <2> QED
    BY <2>3, <2>4, <2>5, <2>7
<1>7. ASSUME NEW i \in 1 .. c + 1, NEW j \in 1 .. c + 1, i < j PROVE sel[i] < sel[j]
  <2> DEFINE B == {y \in 0 .. c + 1 : y > i /\ ~(sel[i] < sel[y])}
  <2>1. SUFFICES ASSUME B # {} PROVE FALSE
    BY <1>2, <1>7
  <2>2. PICK y \in B : \A z \in B : y <= z
    <3>1. B \in SUBSET Nat
      BY <1>2
    <3> HIDE DEF B
    <3> QED
      BY <2>1, <3>1, LeastExists
  <2>3. y - 1 \in 0 .. c /\ (y - 1) + 1 = y /\ y - 1 \in 0 .. c + 1 /\ y - 1 \notin B /\ y \in 1 .. c + 1
    BY <1>2, <2>2
  <2>4. sel[y - 1] < sel[y] /\ sel[y - 1] \in 0 .. n /\ sel[y] \in 1 .. n + 1 /\ sel[i] \in 1 .. n + 1
    BY <1>4, <1>5, <2>3
  <2>5. y - 1 = i \/ sel[i] < sel[y - 1]
    BY <1>2, <2>2, <2>3
  <2>6. sel[i] < sel[y]
    <3>1. CASE y - 1 = i
      BY <2>4, <3>1
    <3>2. CASE sel[i] < sel[y - 1]
      BY <2>4, <3>2
    <3> QED
      BY <2>5, <3>1, <3>2
  <2> QED
    BY <2>2, <2>6
<1>8. ASSUME NEW i \in 1 .. c + 1, NEW j \in 1 .. c + 1 PROVE T.same[w[i]][w[j]] <=> i = j
  <2>1. w[i] = p[sel[i]] /\ w[j] = p[sel[j]] /\ w[i] \in lo.its /\ w[j] \in lo.its
        /\ sel[i] \in 1 .. n + 1 /\ sel[j] \in 1 .. n + 1
    BY <1>5
  <2>2. lo.same[p[sel[i]]][p[sel[j]]] <=> sel[i] = sel[j]
    BY <2>1 DEF BothWays
  <2>3. i = j \/ i < j \/ j < i
    BY <1>2
  <2>4. sel[i] = sel[j] <=> i = j
    BY <1>7, <2>1, <2>3
  <2> QED
    BY <1>1, <2>1, <2>2, <2>4
<1>9. \A j \in 1 .. c : T.reads[w[j]] = x[j] /\ T.incr[w[j]] = w[j + 1]
  BY <1>3 DEF Path
<1>10. \A j \in 1 .. c + 1 : w[j] \in T.its
  BY <1>1, <1>5
<1> QED
  BY <1>2, <1>6, <1>8, <1>9, <1>10 DEF BothWays

LEMMA WhereIsType ==
  ASSUME NEW a, a.op \in {"where", "where_indexed"}, NEW lo, NEW T, T = Adapted(a, lo),
         a.op = "where" \/ lo.category = "forward"
  PROVE  IsType(T) /\ T.category = lo.category /\ T.gives = lo.gives
<1>1. /\ T.its = lo.its /\ T.incr = WhereIncr(a, lo) /\ T.category = lo.category /\ T.gives = lo.gives
      /\ a.op = "where" => T.decr = WhereDecr(a, lo)
  BY AdaptedFields, WhereOps
<1>2. DOMAIN WhereIncr(a, lo) = lo.its /\ DOMAIN WhereDecr(a, lo) = lo.its
  BY DEF WhereIncr, WhereDecr
<1> QED
  BY <1>1, <1>2 DEF IsType

LEMMA EnumeratePath ==
  ASSUME NEW a, a.op = "enumerate", NEW lo, NEW T, T = Adapted(a, lo),
         NEW b, NEW e, NEW q, NEW n, NEW p, Path(lo, b, e, q, n, p),
         NEW u, u = [k \in 1 .. n + 1 |-> [base |-> p[k], index |-> k - 1]],
         NEW y, y = [k \in 1 .. n |-> <<k - 1, q[k]>>]
  PROVE  /\ IsType(T) /\ T.category = "forward" /\ T.gives = lo.gives
         /\ Path(T, [base |-> b, index |-> 0], [base |-> e, index |-> 0], y, n, u)
<1>1. /\ T.its = [base : lo.its, index : Nat]
      /\ T.category = "forward" /\ T.gives = lo.gives
      /\ DOMAIN T.incr = T.its
      /\ \A i \in T.its :
           /\ T.incr[i] = [base |-> lo.incr[i.base], index |-> i.index + 1]
           /\ T.reads[i] = <<i.index, lo.reads[i.base]>>
           /\ \A j \in T.its : T.same[i][j] <=> lo.same[i.base][j.base]
  <2>1. /\ T.its = Its(a, lo) /\ T.incr = Incr(a, lo) /\ T.category = Category(a, lo)
        /\ T.gives = Gives(a, lo) /\ T.reads = Reads(a, lo) /\ T.same = Same(a, lo)
    BY AdaptedFields
  <2>2. /\ Its(a, lo) = [base : lo.its, index : Nat]
        /\ Category(a, lo) = "forward"
        /\ Gives(a, lo) = lo.gives
        /\ DOMAIN Incr(a, lo) = Its(a, lo)
        /\ \A i \in Its(a, lo) :
             /\ Incr(a, lo)[i] = [base |-> lo.incr[i.base], index |-> i.index + 1]
             /\ Reads(a, lo)[i] = <<i.index, lo.reads[i.base]>>
             /\ \A j \in Its(a, lo) : Same(a, lo)[i][j] <=> lo.same[i.base][j.base]
    BY EnumerateOps
  <2> QED
    BY <2>1, <2>2
<1>2. IsType(T)
  BY <1>1 DEF IsType
<1>3. n \in Nat /\ e \in lo.its /\ p[1] = b /\ \A k \in 1 .. n + 1 : p[k] \in lo.its
  BY DEF Path
<1>4. PICK f : f = [base |-> e, index |-> 0]
  OBVIOUS
<1>5. f \in T.its /\ f.base = e
  BY <1>1, <1>3, <1>4
<1>6. ASSUME NEW k \in 1 .. n + 1
      PROVE  u[k] \in T.its /\ u[k].base = p[k] /\ u[k].index = k - 1
  <2>1. u[k] = [base |-> p[k], index |-> k - 1]
    OBVIOUS
  <2>2. p[k] \in lo.its /\ k - 1 \in Nat
    BY <1>3
  <2> QED
    BY <1>1, <2>1, <2>2
<1>7. ASSUME NEW k \in 1 .. n
      PROVE  ~T.same[u[k]][f] /\ T.reads[u[k]] = y[k] /\ T.incr[u[k]] = u[k + 1]
  <2>1. ~lo.same[p[k]][e] /\ lo.reads[p[k]] = q[k] /\ lo.incr[p[k]] = p[k + 1]
    BY DEF Path
  <2>2. k \in 1 .. n + 1 /\ k + 1 \in 1 .. n + 1 /\ (k - 1) + 1 = k /\ (k + 1) - 1 = k
    BY <1>3
  <2>3. u[k] \in T.its /\ u[k].base = p[k] /\ u[k].index = k - 1
    BY <1>6, <2>2
  <2>4. T.incr[u[k]] = [base |-> p[k + 1], index |-> k]
    BY <1>1, <2>1, <2>2, <2>3
  <2>5. u[k + 1] = [base |-> p[k + 1], index |-> k]
    BY <2>2
  <2>6. T.reads[u[k]] = <<k - 1, q[k]>>
    <3>1. T.reads[u[k]] = <<u[k].index, lo.reads[u[k].base]>>
      BY <1>1, <2>3
    <3> QED
      BY <2>1, <2>3, <3>1
  <2>7. y[k] = <<k - 1, q[k]>>
    OBVIOUS
  <2>8. ~T.same[u[k]][f]
    BY <1>1, <1>5, <2>1, <2>3
  <2> QED
    BY <2>4, <2>5, <2>6, <2>7, <2>8
<1>8. u[1] = [base |-> b, index |-> 0]
  <2>1. 1 \in 1 .. n + 1 /\ 1 - 1 = 0
    BY <1>3
  <2> QED
    BY <1>3, <2>1
<1>9. T.same[u[n + 1]][f]
  <2>1. n + 1 \in 1 .. n + 1
    BY <1>3
  <2>2. lo.same[p[n + 1]][e]
    BY DEF Path
  <2> QED
    BY <1>1, <1>5, <1>6, <2>1, <2>2
<1>10. \A k \in 1 .. n + 1 : u[k] \in T.its
  BY <1>6
<1>11. Path(T, [base |-> b, index |-> 0], f, y, n, u)
  BY <1>3, <1>5, <1>7, <1>8, <1>9, <1>10 DEF Path
<1> QED
  BY <1>1, <1>2, <1>4, <1>11

LEMMA SecondPath ==
  ASSUME NEW a, a.op = "second", NEW lo, lo.gives # "copies", lo.category = "forward", IsType(lo),
         NEW T, T = Adapted(a, lo),
         NEW b, NEW e, NEW y, NEW n, NEW p, Path(lo, b, e, y, n, p),
         NEW z, \A k \in 1 .. n : z[k] = y[k][2]
  PROVE  IsType(T) /\ T.category = "forward" /\ Path(T, b, e, z, n, p)
<1>1. /\ T.its = lo.its /\ T.incr = lo.incr /\ T.category = "forward"
      /\ \A i \in lo.its : T.reads[i] = lo.reads[i][2]
      /\ \A i, j \in lo.its : T.same[i][j] <=> lo.same[i][j]
  BY AdaptedFields, SecondOps
<1>2. IsType(T)
  BY <1>1 DEF IsType
<1>3. Path(T, b, e, z, n, p)
  BY <1>1 DEF Path
<1> QED
  BY <1>1, <1>2, <1>3

LEMMA TakeWhilePath ==
  ASSUME NEW a, a.op = "take_while", NEW lo, IsType(lo), NEW T, T = Adapted(a, lo),
         NEW b, NEW e, NEW q, NEW n, NEW p, Path(lo, b, e, q, n, p),
         NEW m \in 0 .. n, \A k \in 1 .. m : q[k] \in a.on, m = n \/ q[m + 1] \notin a.on,
         NEW x, \A k \in 1 .. m : x[k] = q[k]
  PROVE  IsType(T) /\ T.category = lo.category /\ Path(T, b, e, x, m, p)
<1>1. /\ T.its = lo.its /\ T.incr = lo.incr /\ T.decr = lo.decr /\ T.category = lo.category
      /\ \A i \in lo.its : T.reads[i] = lo.reads[i]
      /\ \A i, j \in lo.its : T.same[i][j] <=> lo.same[i][j] \/ lo.reads[i] \notin a.on
  BY AdaptedFields, TakeWhileOps
<1>2. IsType(T)
  BY <1>1 DEF IsType
<1>3. n \in Nat /\ e \in lo.its /\ p[1] = b /\ \A k \in 1 .. n + 1 : p[k] \in lo.its
  BY DEF Path
<1>4. ASSUME NEW k \in 1 .. m
      PROVE  ~T.same[p[k]][e] /\ T.reads[p[k]] = x[k] /\ T.incr[p[k]] = p[k + 1]
  <2>1. k \in 1 .. n /\ k \in 1 .. n + 1
    BY <1>3
  <2>2. ~lo.same[p[k]][e] /\ lo.reads[p[k]] = q[k] /\ lo.incr[p[k]] = p[k + 1]
    BY <2>1 DEF Path
  <2>3. q[k] \in a.on /\ x[k] = q[k] /\ p[k] \in lo.its
    BY <1>3, <2>1
  <2> QED
    BY <1>1, <1>3, <2>2, <2>3
<1>5. T.same[p[m + 1]][e]
  <2>1. m + 1 \in 1 .. n + 1 /\ (m # n => m + 1 \in 1 .. n)
    BY <1>3
  <2>2. lo.same[p[m + 1]][e] \/ (lo.reads[p[m + 1]] = q[m + 1] /\ m # n)
    <3>1. CASE m = n
      <4>1. lo.same[p[n + 1]][e]
        BY DEF Path
      <4> QED
        BY <1>3, <3>1, <4>1
    <3>2. CASE m # n
      BY <2>1, <3>2 DEF Path
    <3> QED
      BY <3>1, <3>2
  <2> QED
    BY <1>1, <1>3, <2>1, <2>2
<1>6. m \in Nat /\ \A k \in 1 .. m + 1 : p[k] \in T.its
  BY <1>1, <1>3
<1>7. Path(T, b, e, x, m, p)
  BY <1>1, <1>3, <1>4, <1>5, <1>6 DEF Path
<1> QED
  BY <1>1, <1>2, <1>7

LEMMA PrefixBothWays ==
  ASSUME NEW ty, NEW q, NEW n, NEW p, BothWays(ty, q, n, p), NEW m \in 0 .. n,
         NEW x, \A k \in 1 .. m : x[k] = q[k]
  PROVE  BothWays(ty, x, m, p)
<1>1. n \in Nat
  BY DEF BothWays
<1>2. m \in Nat /\ (\A k \in 1 .. m : k \in 1 .. n) /\ \A k \in 1 .. m + 1 : k \in 1 .. n + 1
  BY <1>1
<1> QED
  BY <1>2 DEF BothWays

\* w and x are p and q after d places.
Trails(w, x, p, q, n, d) ==
  /\ d \in 0 .. n
  /\ \A k \in 1 .. n - d + 1 : w[k] = p[k + d]
  /\ \A k \in 1 .. n - d : x[k] = q[k + d]

LEMMA SuffixPath ==
  ASSUME NEW ty, NEW b, NEW e, NEW q, NEW n, NEW p, Path(ty, b, e, q, n, p),
         NEW d, NEW w, NEW x, Trails(w, x, p, q, n, d)
  PROVE  Path(ty, p[d + 1], e, x, n - d, w)
<1> USE DEF Trails
<1>1. n \in Nat /\ n - d \in Nat
  BY DEF Path
<1>2. PICK m \in Nat : m = n - d
  BY <1>1
<1>3. ASSUME NEW k \in 1 .. m + 1 PROVE w[k] = p[k + d] /\ k + d \in 1 .. n + 1 /\ w[k] \in ty.its
  <2>1. k + d \in 1 .. n + 1
    BY <1>1, <1>2
  <2>2. p[k + d] \in ty.its
    BY <2>1 DEF Path
  <2> QED
    BY <1>2, <2>1, <2>2
<1>4. ASSUME NEW k \in 1 .. m
      PROVE  ~ty.same[w[k]][e] /\ ty.reads[w[k]] = x[k] /\ ty.incr[w[k]] = w[k + 1]
  <2>1. PICK y \in 1 .. n : y = k + d /\ y + 1 = (k + 1) + d
    BY <1>1, <1>2
  <2>2. k \in 1 .. m + 1 /\ k + 1 \in 1 .. m + 1
    BY <1>2
  <2>3. w[k] = p[y] /\ w[k + 1] = p[y + 1] /\ x[k] = q[y]
    BY <1>2, <1>3, <2>1, <2>2
  <2> QED
    BY <2>3 DEF Path
<1>5. w[1] = p[d + 1] /\ w[m + 1] = p[n + 1]
  <2>1. 1 + d = d + 1 /\ (m + 1) + d = n + 1 /\ 1 \in 1 .. m + 1 /\ m + 1 \in 1 .. m + 1
    BY <1>1, <1>2
  <2> QED
    BY <1>3, <2>1
<1>6. e \in ty.its /\ ty.same[p[n + 1]][e]
  BY DEF Path
<1>7. Path(ty, p[d + 1], e, x, m, w)
  BY <1>2, <1>3, <1>4, <1>5, <1>6 DEF Path
<1> QED
  BY <1>2, <1>7

LEMMA SuffixBothWays ==
  ASSUME NEW ty, NEW q, NEW n, NEW p, BothWays(ty, q, n, p),
         NEW d, NEW w, NEW x, Trails(w, x, p, q, n, d)
  PROVE  BothWays(ty, x, n - d, w)
<1> USE DEF Trails
<1>1. n \in Nat /\ n - d \in Nat
  BY DEF BothWays
<1>2. PICK m \in Nat : m = n - d
  BY <1>1
<1>3. ASSUME NEW k \in 1 .. m + 1 PROVE w[k] = p[k + d] /\ k + d \in 1 .. n + 1 /\ w[k] \in ty.its
  <2>1. k + d \in 1 .. n + 1
    BY <1>1, <1>2
  <2>2. p[k + d] \in ty.its
    BY <2>1 DEF BothWays
  <2> QED
    BY <1>2, <2>1, <2>2
<1>4. ASSUME NEW k \in 1 .. m
      PROVE  ty.reads[w[k]] = x[k] /\ ty.incr[w[k]] = w[k + 1] /\ ty.decr[w[k + 1]] = w[k]
  <2>1. PICK y \in 1 .. n : y = k + d /\ y + 1 = (k + 1) + d
    BY <1>1, <1>2
  <2>2. k \in 1 .. m + 1 /\ k + 1 \in 1 .. m + 1
    BY <1>2
  <2>3. w[k] = p[y] /\ w[k + 1] = p[y + 1] /\ x[k] = q[y]
    BY <1>2, <1>3, <2>1, <2>2
  <2> QED
    BY <2>3 DEF BothWays
<1>5. ASSUME NEW i \in 1 .. m + 1, NEW j \in 1 .. m + 1 PROVE ty.same[w[i]][w[j]] <=> i = j
  <2>1. PICK y \in 1 .. n + 1, z \in 1 .. n + 1 : y = i + d /\ z = j + d
    BY <1>3
  <2>2. w[i] = p[y] /\ w[j] = p[z]
    BY <1>3, <2>1
  <2>3. ty.same[p[y]][p[z]] <=> y = z
    BY DEF BothWays
  <2>4. y = z <=> i = j
    BY <1>1, <2>1
  <2> QED
    BY <2>2, <2>3, <2>4
<1>6. BothWays(ty, x, m, w)
  BY <1>2, <1>3, <1>4, <1>5 DEF BothWays
<1> QED
  BY <1>2, <1>6

\* What TakeAt says, of the adapted type.
TakesAt(ty, lo, i, l) ==
  /\ [base |-> i, left |-> l] \in ty.its
  /\ l + 1 < 0 => ty.incr[[base |-> i, left |-> l]] = [base |-> lo.incr[i], left |-> l + 1]
  /\ ~(l + 1 < 0) => ty.incr[[base |-> i, left |-> l]] = [base |-> i, left |-> l + 1]
  /\ ty.decr[[base |-> i, left |-> l]] = [base |-> lo.decr[i], left |-> l - 1]
  /\ ty.reads[[base |-> i, left |-> l]] = lo.reads[i]

TakesSame(ty, lo) ==
  \A i, j \in lo.its, g, h \in Int :
    ty.same[[base |-> i, left |-> g]][[base |-> j, left |-> h]] <=> lo.same[i][j] \/ g = h

Takes(ty, lo) ==
  /\ IsType(ty) /\ ty.category = lo.category
  /\ \A i \in lo.its, l \in Int : TakesAt(ty, lo, i, l)
  /\ TakesSame(ty, lo)

LEMMA TakeAdapted ==
  ASSUME NEW a, a.op = "take", NEW lo, NEW T, T = Adapted(a, lo)
  PROVE  Takes(T, lo)
<1>1. /\ T.its = Its(a, lo) /\ T.incr = Incr(a, lo) /\ T.decr = Decr(a, lo)
      /\ T.reads = Reads(a, lo) /\ T.same = Same(a, lo) /\ T.category = Category(a, lo)
  BY AdaptedFields
<1>2. T.category = lo.category
  BY <1>1, TakeOps
<1>3. DOMAIN T.incr = T.its
  <2>1. Incr(a, lo) = TakeIncr(a, lo)
    BY TakeOps
  <2> QED
    BY <1>1, <2>1 DEF TakeIncr
<1>4. DOMAIN T.decr = T.its
  BY <1>1, TakeOps
<1>5. ASSUME NEW x \in lo.its, NEW l \in Int
      PROVE  [base |-> x, left |-> l] \in T.its /\ TakesAt(T, lo, x, l)
  <2>1. PICK i : i = [base |-> x, left |-> l]
    OBVIOUS
  <2>2. /\ i \in Its(a, lo)
        /\ Incr(a, lo)[i] = [base |-> IF l + 1 < 0 THEN lo.incr[x] ELSE x, left |-> l + 1]
        /\ Decr(a, lo)[i] = [base |-> lo.decr[x], left |-> l - 1]
        /\ Reads(a, lo)[i] = lo.reads[x]
    BY <2>1, TakeAt
  <2> QED
    BY <1>1, <2>1, <2>2 DEF TakesAt
<1>6. ASSUME NEW x \in lo.its, NEW y \in lo.its, NEW l \in Int, NEW m \in Int
      PROVE  T.same[[base |-> x, left |-> l]][[base |-> y, left |-> m]] <=> lo.same[x][y] \/ l = m
  <2>1. PICK i, j : i = [base |-> x, left |-> l] /\ j = [base |-> y, left |-> m]
    OBVIOUS
  <2>2. i \in Its(a, lo) /\ j \in Its(a, lo)
    BY <1>1, <1>5, <2>1
  <2>3. Same(a, lo)[i][j] <=> lo.same[i.base][j.base] \/ i.left = j.left
    BY <2>2, TakeOps
  <2> QED
    BY <1>1, <2>1, <2>3
<1> QED
  BY <1>2, <1>3, <1>4, <1>5, <1>6 DEF Takes, TakesSame, IsType

\* The path of a take whose budget at the bound is of c elements.
Taking(p, m, c) ==
  [k \in 1 .. m + 1 |-> [base |-> p[IF k <= c \/ k = 1 THEN k ELSE k - 1], left |-> (k - 1) - c]]

LEMMA TakePath ==
  ASSUME NEW a, a.op = "take", NEW lo, NEW T, T = Adapted(a, lo),
         NEW b, NEW e, NEW q, NEW n, NEW p, Path(lo, b, e, q, n, p),
         NEW c \in Nat, NEW m \in 0 .. n, m = IF c <= n THEN c ELSE n,
         NEW x, \A k \in 1 .. m : x[k] = q[k]
  PROVE  Path(T, [base |-> b, left |-> -c], [base |-> e, left |-> 0], x, m, Taking(p, m, c))
<1>0. Takes(T, lo)
  BY TakeAdapted
<1>1. n \in Nat /\ m \in Nat /\ m <= c /\ p[1] = b /\ e \in lo.its /\ \A k \in 1 .. n + 1 : p[k] \in lo.its
  BY DEF Path
<1>2. PICK u : u = Taking(p, m, c)
  OBVIOUS
<1>3. ASSUME NEW k \in 1 .. m
      PROVE  u[k] = [base |-> p[k], left |-> (k - 1) - c] /\ k \in 1 .. n /\ p[k] \in lo.its
  BY <1>1, <1>2 DEF Taking
<1>4. PICK y : y = IF m + 1 <= c \/ m = 0 THEN m + 1 ELSE m
  OBVIOUS
<1>5. u[m + 1] = [base |-> p[y], left |-> m - c] /\ y \in 1 .. n + 1 /\ p[y] \in lo.its
  <2>1. y \in 1 .. n + 1
    BY <1>1, <1>4
  <2>2. m + 1 \in 1 .. m + 1 /\ (m + 1) - 1 = m /\ (m + 1 = 1 <=> m = 0)
    BY <1>1
  <2>3. u[m + 1] = [base |-> p[IF m + 1 <= c \/ m + 1 = 1 THEN m + 1 ELSE (m + 1) - 1], left |-> ((m + 1) - 1) - c]
    BY <1>2, <2>2 DEF Taking
  <2>4. u[m + 1] = [base |-> p[y], left |-> m - c]
    BY <1>4, <2>2, <2>3
  <2> QED
    BY <1>1, <2>1, <2>4
<1>6. \A i \in lo.its, l \in Int : TakesAt(T, lo, i, l)
  BY <1>0 DEF Takes
<1>7. TakesSame(T, lo)
  BY <1>0 DEF Takes
<1>8. PICK f : f = [base |-> e, left |-> 0]
  OBVIOUS
<1>9. ASSUME NEW k \in 1 .. m
      PROVE  ~T.same[u[k]][f] /\ T.reads[u[k]] = x[k] /\ T.incr[u[k]] = u[k + 1]
  <2>1. ~lo.same[p[k]][e] /\ lo.reads[p[k]] = q[k] /\ lo.incr[p[k]] = p[k + 1]
    BY <1>3 DEF Path
  <2>2. PICK l \in Int : l = (k - 1) - c /\ l # 0 /\ l + 1 = k - c
    BY <1>1
  <2>3. u[k] = [base |-> p[k], left |-> l] /\ p[k] \in lo.its
    BY <1>3, <2>2
  <2>a. TakesAt(T, lo, p[k], l)
    BY <1>6, <2>3
  <2>4. ~T.same[u[k]][f]
    BY <1>1, <1>7, <1>8, <2>1, <2>2, <2>3 DEF TakesSame
  <2>5. T.reads[u[k]] = x[k]
    BY <2>1, <2>3, <2>a DEF TakesAt
  <2>6. T.incr[u[k]] = u[k + 1]
    <3>1. CASE k = m
      <4>1. u[k + 1] = [base |-> p[y], left |-> l + 1]
        BY <1>5, <2>2, <3>1
      <4>2. CASE l + 1 < 0
        <5>1. T.incr[u[k]] = [base |-> p[k + 1], left |-> l + 1]
          BY <2>1, <2>3, <2>a, <4>2 DEF TakesAt
        <5>2. y = k + 1
          BY <1>1, <1>4, <2>2, <3>1, <4>2
        <5> QED
          BY <4>1, <5>1, <5>2
      <4>3. CASE ~(l + 1 < 0)
        <5>1. T.incr[u[k]] = [base |-> p[k], left |-> l + 1]
          BY <2>3, <2>a, <4>3 DEF TakesAt
        <5>2. y = k
          BY <1>1, <1>4, <2>2, <3>1, <4>3
        <5> QED
          BY <4>1, <5>1, <5>2
      <4> QED
        BY <4>2, <4>3
    <3>2. CASE k # m
      <4>1. k + 1 \in 1 .. m /\ ((k + 1) - 1) - c = l + 1 /\ l + 1 < 0
        BY <1>1, <2>2, <3>2
      <4>2. u[k + 1] = [base |-> p[k + 1], left |-> l + 1]
        BY <1>3, <4>1
      <4>3. T.incr[u[k]] = [base |-> p[k + 1], left |-> l + 1]
        BY <2>1, <2>3, <2>a, <4>1 DEF TakesAt
      <4> QED
        BY <4>2, <4>3
    <3> QED
      BY <3>1, <3>2
  <2> QED
    BY <2>4, <2>5, <2>6
<1>10. T.same[u[m + 1]][f]
  <2>1. CASE c <= n
    <3>1. m - c = 0
      BY <1>1, <2>1
    <3> QED
      BY <1>1, <1>5, <1>7, <1>8, <3>1 DEF TakesSame
  <2>2. CASE ~(c <= n)
    <3>1. y = n + 1 /\ m - c \in Int
      BY <1>1, <1>4, <2>2
    <3>2. lo.same[p[n + 1]][e]
      BY DEF Path
    <3> QED
      BY <1>1, <1>5, <1>7, <1>8, <3>1, <3>2 DEF TakesSame
  <2> QED
    BY <2>1, <2>2
<1>11. u[1] = [base |-> b, left |-> -c]
  <2>1. 1 \in 1 .. m + 1 /\ (1 - 1) - c = -c
    BY <1>1
  <2>2. u[1] = [base |-> p[IF 1 <= c \/ 1 = 1 THEN 1 ELSE 1 - 1], left |-> (1 - 1) - c]
    BY <1>2, <2>1 DEF Taking
  <2> QED
    BY <1>1, <2>1, <2>2
<1>12. \A k \in 1 .. m + 1 : u[k] \in T.its
  <2>1. ASSUME NEW k \in 1 .. m + 1 PROVE u[k] \in T.its
    <3>1. CASE k = m + 1
      <4>1. PICK l \in Int : l = m - c
        BY <1>1
      <4>2. u[m + 1] = [base |-> p[y], left |-> l] /\ p[y] \in lo.its
        BY <1>5, <4>1
      <4>3. [base |-> p[y], left |-> l] \in T.its
        BY <1>6, <4>2 DEF TakesAt
      <4> QED
        BY <3>1, <4>2, <4>3
    <3>2. CASE k # m + 1
      <4>1. k \in 1 .. m
        BY <1>1, <3>2
      <4>2. PICK l \in Int : l = (k - 1) - c
        BY <1>1
      <4>3. u[k] = [base |-> p[k], left |-> l] /\ p[k] \in lo.its
        BY <1>3, <4>1, <4>2
      <4>4. [base |-> p[k], left |-> l] \in T.its
        BY <1>6, <4>3 DEF TakesAt
      <4> QED
        BY <4>3, <4>4
    <3> QED
      BY <3>1, <3>2
  <2> QED
    BY <2>1
<1>13. f \in T.its
  <2>1. PICK l \in Int : l = 0
    OBVIOUS
  <2>2. [base |-> e, left |-> l] \in T.its
    BY <1>1, <1>6 DEF TakesAt
  <2> QED
    BY <1>8, <2>1, <2>2
<1>14. Path(T, [base |-> b, left |-> -c], f, x, m, u)
  BY <1>1, <1>9, <1>10, <1>11, <1>12, <1>13 DEF Path
<1> QED
  BY <1>2, <1>8, <1>14

\* What it takes to find the end of a take whose path is u, over a path v: its budget at
\* the bound is l, and f is the end of the view below.
EndsTake(lo, b, e, x, m, u, v, l, f) ==
  /\ BothWays(lo, x, m, v) /\ l \in Int /\ m <= -l /\ f \in lo.its
  /\ b = [base |-> v[1], left |-> l] /\ e = [base |-> f, left |-> 0]
  /\ \A k \in 1 .. m : u[k] = [base |-> v[k], left |-> l + (k - 1)] /\ ~lo.same[v[k]][f]
  /\ m < -l => f = v[m + 1] /\ u[m + 1] = [base |-> v[m + 1], left |-> l + m]
  /\ m = -l => u[m + 1] = [base |-> v[IF m = 0 THEN 1 ELSE m], left |-> 0]

TakesBack(lo, b, e, x, m, u) == \E v, l, f : EndsTake(lo, b, e, x, m, u, v, l, f)

LEMMA TakeEnds ==
  ASSUME NEW lo, NEW b, NEW e, NEW q, NEW n, NEW p, Path(lo, b, e, q, n, p), BothWays(lo, q, n, p),
         e = p[n + 1], NEW c \in Nat, NEW m \in 0 .. n, m = IF c <= n THEN c ELSE n,
         NEW x, \A k \in 1 .. m : x[k] = q[k]
  PROVE  TakesBack(lo, [base |-> b, left |-> -c], [base |-> e, left |-> 0], x, m, Taking(p, m, c))
<1>1. n \in Nat /\ m \in Nat /\ m <= c /\ p[1] = b /\ e \in lo.its /\ \A k \in 1 .. n + 1 : p[k] \in lo.its
  BY DEF Path
<1>2. BothWays(lo, x, m, p)
  BY PrefixBothWays
<1>3. PICK l \in Int : l = -c
  BY <1>1
<1>4. PICK u : u = Taking(p, m, c)
  OBVIOUS
<1>5. ASSUME NEW k \in 1 .. m
      PROVE  u[k] = [base |-> p[k], left |-> l + (k - 1)] /\ ~lo.same[p[k]][e]
  <2>1. k \in 1 .. m + 1 /\ k <= c /\ k \in 1 .. n /\ (k - 1) - c = l + (k - 1)
    BY <1>1, <1>3
  <2>2. u[k] = [base |-> p[k], left |-> (k - 1) - c]
    BY <1>4, <2>1 DEF Taking
  <2>3. ~lo.same[p[k]][e]
    BY <2>1 DEF Path
  <2> QED
    BY <2>1, <2>2, <2>3
<1>6. u[m + 1] = [base |-> p[IF m + 1 <= c \/ m + 1 = 1 THEN m + 1 ELSE (m + 1) - 1], left |-> ((m + 1) - 1) - c]
  <2>1. m + 1 \in 1 .. m + 1
    BY <1>1
  <2> QED
    BY <1>4, <2>1 DEF Taking
<1>7. m < -l => e = p[m + 1] /\ u[m + 1] = [base |-> p[m + 1], left |-> l + m]
  <2>1. SUFFICES ASSUME m < -l PROVE e = p[m + 1] /\ u[m + 1] = [base |-> p[m + 1], left |-> l + m]
    OBVIOUS
  <2>2. m = n /\ m + 1 <= c /\ ((m + 1) - 1) - c = l + m
    BY <1>1, <1>3, <2>1
  <2> QED
    BY <1>6, <2>2
<1>8. m = -l => u[m + 1] = [base |-> p[IF m = 0 THEN 1 ELSE m], left |-> 0]
  <2>1. SUFFICES ASSUME m = -l PROVE u[m + 1] = [base |-> p[IF m = 0 THEN 1 ELSE m], left |-> 0]
    OBVIOUS
  <2>2. ~(m + 1 <= c) /\ ((m + 1) - 1) - c = 0 /\ (m + 1) - 1 = m /\ (m + 1 = 1 <=> m = 0)
    BY <1>1, <1>3, <2>1
  <2>3. CASE m = 0
    BY <1>6, <2>2, <2>3
  <2>4. CASE m # 0
    BY <1>6, <2>2, <2>4
  <2> QED
    BY <2>3, <2>4
<1>9. m <= -l
  BY <1>1, <1>3
<1>10. EndsTake(lo, [base |-> b, left |-> -c], [base |-> e, left |-> 0], x, m, u, p, l, e)
  BY <1>1, <1>2, <1>3, <1>5, <1>7, <1>8, <1>9 DEF EndsTake
<1> QED
  BY <1>4, <1>10 DEF TakesBack

LEMMA SuffixTakesBack ==
  ASSUME NEW lo, NEW b, NEW e, NEW q, NEW m, NEW u, TakesBack(lo, b, e, q, m, u),
         NEW d, NEW w, NEW x, Trails(w, x, u, q, m, d)
  PROVE  TakesBack(lo, u[d + 1], e, x, m - d, w)
<1> USE DEF Trails
<1>0. PICK v, l, f : EndsTake(lo, b, e, q, m, u, v, l, f)
  BY DEF TakesBack
<1>1. m \in Nat /\ BothWays(lo, q, m, v) /\ l \in Int /\ m <= -l /\ f \in lo.its /\ e = [base |-> f, left |-> 0]
  BY <1>0 DEF EndsTake, BothWays
<1>2. \A k \in 1 .. m : u[k] = [base |-> v[k], left |-> l + (k - 1)] /\ ~lo.same[v[k]][f]
  BY <1>0 DEF EndsTake
<1>3. /\ m < -l => f = v[m + 1] /\ u[m + 1] = [base |-> v[m + 1], left |-> l + m]
      /\ m = -l => u[m + 1] = [base |-> v[IF m = 0 THEN 1 ELSE m], left |-> 0]
  BY <1>0 DEF EndsTake
<1>c. PICK c \in Nat : c = m - d
  BY <1>1
<1>g. PICK g \in Int : g = l + d
  BY <1>1
<1>4. /\ c \in Nat /\ g \in Int /\ c = m - d /\ g = l + d
      /\ c <= -g /\ (c < -g <=> m < -l) /\ (c = -g <=> m = -l)
  BY <1>1, <1>c, <1>g
<1>5. \A k \in 1 .. c + 1 : w[k] = u[k + d]
  BY <1>4
<1>n. m \in Nat /\ l \in Int /\ m <= -l /\ d \in 0 .. m
  BY <1>1
<1>6. CASE d = m /\ m = -l
  <2>1. PICK y : y = v[IF m = 0 THEN 1 ELSE m] /\ y \in lo.its /\ lo.same[y][y]
    <3>1. (IF m = 0 THEN 1 ELSE m) \in 1 .. m + 1
      BY <1>1
    <3> QED
      BY <1>1, <3>1 DEF BothWays
  <2>2. PICK z : z = [k \in {1} |-> y]
    OBVIOUS
  <2>3. c = 0 /\ g = 0 /\ z[1] = y /\ w[1] = u[m + 1]
    <3>1. c = 0 /\ g = 0 /\ 1 \in 1 .. c + 1 /\ 1 + d = m + 1
      BY <1>n, <1>4, <1>6
    <3> QED
      BY <1>5, <2>2, <3>1
  <2>4. u[m + 1] = [base |-> y, left |-> 0]
    BY <1>3, <1>6, <2>1
  <2>5. BothWays(lo, x, 0, z)
    <3>1. (\A k \in 1 .. 0 + 1 : k = 1) /\ \A k \in 1 .. 0 : FALSE
      OBVIOUS
    <3>2. \A k \in 1 .. 0 + 1 : z[k] \in lo.its
      BY <2>1, <2>3, <3>1
    <3>3. \A j, k \in 1 .. 0 + 1 : lo.same[z[j]][z[k]] <=> j = k
      BY <2>1, <2>3, <3>1
    <3> QED
      BY <3>1, <3>2, <3>3 DEF BothWays
  <2>6. EndsTake(lo, u[d + 1], e, x, 0, w, z, 0, f)
    <3>1. \A k \in 1 .. 0 : FALSE
      OBVIOUS
    <3>2. u[d + 1] = [base |-> z[1], left |-> 0] /\ w[0 + 1] = [base |-> z[1], left |-> 0]
      BY <1>6, <2>3, <2>4
    <3>3. 0 \in Int /\ 0 <= -0 /\ ~(0 < -0)
      BY SMT
    <3> QED
      BY <1>1, <2>5, <3>1, <3>2, <3>3 DEF EndsTake
  <2> QED
    BY <1>4, <2>3, <2>6 DEF TakesBack
<1>7. CASE ~(d = m /\ m = -l)
  <2>1. PICK z : z = [k \in 1 .. m - d + 1 |-> v[k + d]]
    OBVIOUS
  <2>2. BothWays(lo, x, c, z)
    BY <1>1, <1>4, <2>1, SuffixBothWays
  <2>3. \A k \in 1 .. c + 1 : z[k] = v[k + d]
    BY <1>4, <2>1
  <2>4. ASSUME NEW k \in 1 .. c
        PROVE  w[k] = [base |-> z[k], left |-> g + (k - 1)] /\ ~lo.same[z[k]][f]
    <3>1. PICK y \in 1 .. m : y = k + d
      BY <1>1, <1>4
    <3>2. w[k] = u[y] /\ z[k] = v[y] /\ l + (y - 1) = g + (k - 1)
      BY <1>1, <1>4, <1>5, <2>3, <3>1
    <3> QED
      BY <1>2, <3>2
  <2>5. w[c + 1] = u[m + 1] /\ z[c + 1] = v[m + 1] /\ g + c = l + m
    <3>1. c + 1 \in 1 .. c + 1 /\ (c + 1) + d = m + 1 /\ g + c = l + m
      BY <1>n, <1>4
    <3> QED
      BY <1>5, <2>3, <3>1
  <2>6. u[d + 1] = [base |-> z[1], left |-> g]
    <3>1. 1 \in 1 .. c + 1 /\ 1 + d = d + 1
      BY <1>4
    <3>2. z[1] = v[d + 1]
      BY <2>3, <3>1
    <3>3. CASE d = m
      <4>1. m < -l /\ l + m = g
        BY <1>1, <1>4, <1>7, <3>3
      <4> QED
        BY <1>3, <3>2, <3>3, <4>1
    <3>4. CASE d # m
      <4>1. d + 1 \in 1 .. m /\ l + ((d + 1) - 1) = g
        BY <1>1, <1>4, <3>4
      <4>2. u[d + 1] = [base |-> v[d + 1], left |-> l + ((d + 1) - 1)]
        BY <1>2, <4>1
      <4> QED
        BY <3>2, <4>1, <4>2
    <3> QED
      BY <3>3, <3>4
  <2>7. c < -g => f = z[c + 1] /\ w[c + 1] = [base |-> z[c + 1], left |-> g + c]
    BY <1>3, <1>4, <2>5
  <2>8. c = -g => w[c + 1] = [base |-> z[IF c = 0 THEN 1 ELSE c], left |-> 0]
    <3>1. SUFFICES ASSUME c = -g PROVE w[c + 1] = [base |-> z[IF c = 0 THEN 1 ELSE c], left |-> 0]
      OBVIOUS
    <3>2. m = -l /\ m # d /\ c # 0 /\ m # 0 /\ c \in 1 .. c + 1 /\ c + d = m
      BY <1>n, <1>4, <1>7, <3>1
    <3>3. z[c] = v[m]
      BY <2>3, <3>2
    <3> QED
      BY <1>3, <2>5, <3>2, <3>3
  <2>9. EndsTake(lo, u[d + 1], e, x, c, w, z, g, f)
    BY <1>1, <1>4, <2>2, <2>4, <2>6, <2>7, <2>8 DEF EndsTake
  <2> QED
    BY <1>4, <2>9 DEF TakesBack
<1> QED
  BY <1>6, <1>7

\* What TakeEnd does, of the types.
TakeEndOf(ty, lo, b, e, exh) ==
  IF ty.same[b][exh] THEN b
  ELSE IF lo.same[exh.base][e.base] THEN exh
  ELSE [base |-> lo.incr[exh.base], left |-> exh.left]

\* It finds the end, unless the take shows one element.
LEMMA TakeEndFound ==
  ASSUME NEW ty, NEW lo, Takes(ty, lo), NEW b, NEW e, NEW q, NEW m, NEW u, NEW v, NEW l, NEW f,
         EndsTake(lo, b, e, q, m, u, v, l, f), u[1] = b, m # 1
  PROVE  TakeEndOf(ty, lo, b, e, u[m + 1]) = [base |-> v[m + 1], left |-> l + m]
<1>1. /\ m \in Nat /\ BothWays(lo, q, m, v) /\ l \in Int /\ m <= -l /\ f \in lo.its
      /\ b = [base |-> v[1], left |-> l] /\ e = [base |-> f, left |-> 0]
  BY DEF EndsTake, BothWays
<1>2. \A k \in 1 .. m : ~lo.same[v[k]][f]
  BY DEF EndsTake
<1>3. /\ m < -l => f = v[m + 1] /\ u[m + 1] = [base |-> v[m + 1], left |-> l + m]
      /\ m = -l => u[m + 1] = [base |-> v[IF m = 0 THEN 1 ELSE m], left |-> 0]
  BY DEF EndsTake
<1>4. \A k \in 1 .. m + 1 : v[k] \in lo.its
  BY <1>1 DEF BothWays
<1>5. TakesSame(ty, lo)
  BY DEF Takes
<1>6. 1 \in 1 .. m + 1 /\ m + 1 \in 1 .. m + 1
  BY <1>1
<1>7. CASE m = 0
  <2>1. u[m + 1] = b /\ l + m = l /\ v[m + 1] = v[1]
    BY <1>1, <1>7
  <2>2. ty.same[b][b]
    BY <1>1, <1>4, <1>5, <1>6 DEF TakesSame
  <2> QED
    BY <1>1, <2>1, <2>2 DEF TakeEndOf
<1>8. CASE m # 0 /\ m < -l
  <2>1. PICK g \in Int : g = l + m /\ g # l
    BY <1>1, <1>8
  <2>2. u[m + 1] = [base |-> v[m + 1], left |-> g] /\ f = v[m + 1]
    BY <1>3, <1>8, <2>1
  <2>3. ~lo.same[v[1]][v[m + 1]] /\ lo.same[v[m + 1]][v[m + 1]]
    BY <1>1, <1>6, <1>8 DEF BothWays
  <2>4. ~ty.same[b][u[m + 1]]
    BY <1>1, <1>4, <1>5, <1>6, <2>1, <2>2, <2>3 DEF TakesSame
  <2>5. u[m + 1].base = v[m + 1] /\ e.base = v[m + 1]
    BY <1>1, <2>2
  <2> QED
    BY <2>1, <2>2, <2>3, <2>4, <2>5 DEF TakeEndOf
<1>9. CASE m # 0 /\ m = -l
  <2>1. m \in 1 .. m + 1 /\ m \in 1 .. m /\ l # 0 /\ l + m = 0 /\ m # 1
    BY <1>1, <1>9
  <2>2. u[m + 1] = [base |-> v[m], left |-> 0]
    BY <1>3, <1>9
  <2>3. ~lo.same[v[1]][v[m]] /\ ~lo.same[v[m]][f] /\ lo.incr[v[m]] = v[m + 1]
    BY <1>1, <1>2, <1>6, <2>1 DEF BothWays
  <2>4. ~ty.same[b][u[m + 1]]
    <3>1. 0 \in Int /\ v[1] \in lo.its /\ v[m] \in lo.its
      BY <1>4, <1>6, <2>1
    <3> QED
      BY <1>1, <1>5, <2>1, <2>2, <2>3, <3>1 DEF TakesSame
  <2>5. u[m + 1].base = v[m] /\ e.base = f /\ u[m + 1].left = 0
    BY <1>1, <2>2
  <2> QED
    BY <2>1, <2>3, <2>4, <2>5 DEF TakeEndOf
<1> QED
  BY <1>1, <1>7, <1>8, <1>9

LEMMA ReversedTake ==
  ASSUME NEW a, a.op = "reverse", NEW ty, NEW lo, Takes(ty, lo), ty.category = "bidirectional",
         NEW T, T = Adapted(a, ty),
         NEW b, NEW e, NEW q, NEW m, NEW u, NEW v, NEW l, NEW f, EndsTake(lo, b, e, q, m, u, v, l, f),
         NEW back, back = [k \in 1 .. m |-> q[m - k + 1]]
  PROVE  /\ IsType(T)
         /\ \E r : Path(T, [base |-> v[m + 1], left |-> l + m], b, back, m, r)
<1>1. /\ m \in Nat /\ BothWays(lo, q, m, v) /\ l \in Int
      /\ b = [base |-> v[1], left |-> l]
      /\ \A k \in 1 .. m + 1 : v[k] \in lo.its
  BY DEF EndsTake, BothWays
<1>2. /\ T.its = ty.its /\ T.incr = ty.decr /\ T.decr = ty.incr /\ T.category = ty.category
      /\ \A i \in ty.its : T.reads[i] = ty.reads[ty.decr[i]]
      /\ \A i, j \in ty.its : T.same[i][j] <=> ty.same[i][j]
  BY AdaptedFields, ReverseOps
<1>3. IsType(T)
  BY <1>2 DEF IsType, Takes
<1>4. \A i \in lo.its, g \in Int : TakesAt(ty, lo, i, g)
  BY DEF Takes
<1>5. TakesSame(ty, lo)
  BY DEF Takes
<1>r. PICK r : r = [k \in 1 .. m + 1 |-> [base |-> v[m + 2 - k], left |-> l + (m + 1 - k)]]
  OBVIOUS
<1>6. ASSUME NEW k \in 1 .. m + 1
      PROVE  /\ r[k] = [base |-> v[m + 2 - k], left |-> l + (m + 1 - k)]
             /\ m + 2 - k \in 1 .. m + 1 /\ l + (m + 1 - k) \in Int
             /\ v[m + 2 - k] \in lo.its /\ TakesAt(ty, lo, v[m + 2 - k], l + (m + 1 - k))
             /\ r[k] \in ty.its
  <2>0. m \in Nat /\ l \in Int
    BY <1>1
  <2>1. PICK y \in 1 .. m + 1, g \in Int : y = m + 2 - k /\ g = l + (m + 1 - k)
    BY <2>0
  <2>2. v[y] \in lo.its /\ TakesAt(ty, lo, v[y], g)
    BY <1>1, <1>4
  <2>3. r[k] = [base |-> v[y], left |-> g]
    BY <1>r, <2>1
  <2>4. r[k] \in ty.its
    BY <2>2, <2>3 DEF TakesAt
  <2> QED
    BY <2>1, <2>2, <2>3, <2>4
<1>7. ASSUME NEW k \in 1 .. m
      PROVE  ~T.same[r[k]][b] /\ T.reads[r[k]] = back[k] /\ T.incr[r[k]] = r[k + 1]
  <2>y. PICK y \in 1 .. m : y = m - k + 1
    BY <1>1
  <2>g. PICK g \in Int : g = l + (m + 1 - k)
    BY <1>1
  <2>1. /\ y + 1 = m + 2 - k /\ y = m + 2 - (k + 1) /\ y = m - k + 1
        /\ g = l + (m + 1 - k) /\ g - 1 = l + (m + 1 - (k + 1)) /\ g # l
    BY <1>1, <2>y, <2>g
  <2>2. k \in 1 .. m + 1 /\ k + 1 \in 1 .. m + 1 /\ y \in 1 .. m + 1 /\ y + 1 \in 1 .. m + 1 /\ 1 \in 1 .. m + 1
    BY <1>1
  <2>3. r[k] = [base |-> v[y + 1], left |-> g] /\ TakesAt(ty, lo, v[y + 1], g) /\ r[k] \in ty.its
    BY <1>6, <2>1, <2>2
  <2>4. r[k + 1] = [base |-> v[y], left |-> g - 1]
    BY <1>6, <2>1, <2>2
  <2>5. lo.decr[v[y + 1]] = v[y] /\ lo.reads[v[y]] = q[y]
    BY <1>1 DEF BothWays
  <2>6. ty.decr[r[k]] = [base |-> v[y], left |-> g - 1]
    BY <2>3, <2>5 DEF TakesAt
  <2>7. ty.reads[[base |-> v[y], left |-> g - 1]] = q[y]
    <3>1. PICK h \in Int : h = g - 1
      OBVIOUS
    <3>2. TakesAt(ty, lo, v[y], h)
      BY <1>1, <1>4, <2>2
    <3> QED
      BY <2>5, <3>1, <3>2 DEF TakesAt
  <2>8. back[k] = q[y]
    BY <2>1
  <2>9. ~lo.same[v[y + 1]][v[1]]
    <3>1. y + 1 # 1
      BY <2>1
    <3> QED
      BY <1>1, <2>2, <3>1 DEF BothWays
  <2>10. ~ty.same[r[k]][b] /\ b \in ty.its
    <3>1. v[1] \in lo.its /\ v[y + 1] \in lo.its
      BY <1>1, <2>2
    <3>2. b \in ty.its
      BY <1>1, <1>4, <3>1 DEF TakesAt
    <3>3. b = [base |-> v[1], left |-> l] /\ l \in Int
      BY <1>1
    <3>4. ty.same[[base |-> v[y + 1], left |-> g]][[base |-> v[1], left |-> l]]
            <=> lo.same[v[y + 1]][v[1]] \/ g = l
      BY <1>5, <3>1, <3>3 DEF TakesSame
    <3> QED
      BY <2>1, <2>3, <2>9, <3>2, <3>3, <3>4
  <2> QED
    BY <1>2, <2>3, <2>4, <2>6, <2>7, <2>8, <2>10
<1>8. r[1] = [base |-> v[m + 1], left |-> l + m] /\ r[m + 1] = b
  <2>1. 1 \in 1 .. m + 1 /\ m + 1 \in 1 .. m + 1 /\ m + 2 - 1 = m + 1 /\ m + 1 - 1 = m
        /\ m + 2 - (m + 1) = 1 /\ l + (m + 1 - (m + 1)) = l
    BY <1>1
  <2> QED
    BY <1>1, <1>6, <2>1
<1>9. T.same[r[m + 1]][b] /\ b \in T.its
  <2>1. 1 \in 1 .. m + 1 /\ v[1] \in lo.its
    BY <1>1
  <2>2. b \in ty.its
    BY <1>1, <1>4, <2>1 DEF TakesAt
  <2>3. ty.same[b][b]
    BY <1>1, <1>5, <2>1 DEF TakesSame
  <2> QED
    BY <1>2, <1>8, <2>2, <2>3
<1>10. Path(T, [base |-> v[m + 1], left |-> l + m], b, back, m, r)
  BY <1>1, <1>2, <1>6, <1>7, <1>8, <1>9 DEF Path
<1> QED
  BY <1>3, <1>10

Joint(i, s, l) == [base |-> i, step |-> s, leg |-> l]

LEMMA JointAt ==
  ASSUME NEW a, a.op \in Joining, NEW lo, NEW T, T = Adapted(a, lo),
         NEW i \in lo.its, NEW s \in {0, 1}
  PROVE  /\ Joint(i, s, "base") \in T.its /\ Joint(i, s, "value") \in T.its
         /\ T.reads[Joint(i, s, "base")] = lo.reads[i] /\ T.reads[Joint(i, s, "value")] = Extra
         /\ a.op = "append" =>
              /\ T.incr[Joint(i, s, "base")] =
                   Joint(lo.incr[i], s, IF lo.same[lo.incr[i]][a.e] THEN "value" ELSE "base")
              /\ T.incr[Joint(i, s, "value")] = Joint(i, 1, "value")
         /\ a.op = "prepend" =>
              /\ ~lo.same[i][a.e] => T.incr[Joint(i, s, "base")] = Joint(lo.incr[i], s, "base")
              /\ T.incr[Joint(i, s, "value")] = Joint(i, 1, "base")
<1>1. /\ T.its = Its(a, lo) /\ T.incr = JoinIncr(a, lo)
      /\ Its(a, lo) = [base : lo.its, step : {0, 1}, leg : {"base", "value"}]
      /\ \A x \in Its(a, lo) : T.reads[x] = IF x.leg = "base" THEN lo.reads[x.base] ELSE Extra
  <2>1. T.its = Its(a, lo) /\ T.incr = Incr(a, lo) /\ T.reads = Reads(a, lo)
    BY AdaptedFields
  <2>2. /\ Its(a, lo) = [base : lo.its, step : {0, 1}, leg : {"base", "value"}]
        /\ Incr(a, lo) = JoinIncr(a, lo)
    BY JoinOps
  <2>3. ASSUME NEW x \in Its(a, lo)
        PROVE  Reads(a, lo)[x] = IF x.leg = "base" THEN lo.reads[x.base] ELSE Extra
    BY JoinOps
  <2> QED
    BY <2>1, <2>2, <2>3
<1>2. PICK x : x = Joint(i, s, "base")
  OBVIOUS
<1>3. PICK y : y = Joint(i, s, "value")
  OBVIOUS
<1>4. x \in Its(a, lo) /\ x.base = i /\ x.step = s /\ x.leg = "base"
  BY <1>1, <1>2 DEF Joint
<1>5. y \in Its(a, lo) /\ y.base = i /\ y.step = s /\ y.leg = "value"
  BY <1>1, <1>3 DEF Joint
<1>6. T.reads[x] = lo.reads[i] /\ T.reads[y] = Extra
  BY <1>1, <1>4, <1>5
<1>7. ASSUME a.op = "append"
      PROVE  /\ T.incr[x] = Joint(lo.incr[i], s, IF lo.same[lo.incr[i]][a.e] THEN "value" ELSE "base")
             /\ T.incr[y] = Joint(i, 1, "value")
  <2>1. JoinIncr(a, lo)[x] =
          [base |-> lo.incr[i], step |-> s, leg |-> IF lo.same[lo.incr[i]][a.e] THEN "value" ELSE "base"]
    BY <1>4, <1>7 DEF JoinIncr
  <2>2. JoinIncr(a, lo)[y] = [base |-> i, step |-> 1, leg |-> "value"]
    BY <1>5, <1>7 DEF JoinIncr
  <2> QED
    BY <1>1, <2>1, <2>2 DEF Joint
<1>8. ASSUME a.op = "prepend"
      PROVE  /\ ~lo.same[i][a.e] => T.incr[x] = Joint(lo.incr[i], s, "base")
             /\ T.incr[y] = Joint(i, 1, "base")
  BY <1>1, <1>4, <1>5, <1>8 DEF JoinIncr, Joint
<1> QED
  BY <1>1, <1>2, <1>3, <1>4, <1>5, <1>6, <1>7, <1>8

LEMMA JointSame ==
  ASSUME NEW a, a.op \in Joining, NEW lo, NEW T, T = Adapted(a, lo),
         NEW i \in lo.its, NEW s \in {0, 1}, NEW l \in {"base", "value"},
         NEW j \in lo.its, NEW r \in {0, 1}, NEW m \in {"base", "value"}
  PROVE  T.same[Joint(i, s, l)][Joint(j, r, m)] <=> l = m /\ lo.same[i][j] /\ s = r
<1>1. /\ Its(a, lo) = [base : lo.its, step : {0, 1}, leg : {"base", "value"}]
      /\ \A x, y \in Its(a, lo) :
           T.same[x][y] <=> x.leg = y.leg /\ lo.same[x.base][y.base] /\ x.step = y.step
  <2>1. T.same = Same(a, lo)
    BY AdaptedFields
  <2>2. Its(a, lo) = [base : lo.its, step : {0, 1}, leg : {"base", "value"}]
    BY JoinOps
  <2>3. ASSUME NEW x \in Its(a, lo), NEW y \in Its(a, lo)
        PROVE  Same(a, lo)[x][y] <=> x.leg = y.leg /\ lo.same[x.base][y.base] /\ x.step = y.step
    BY JoinOps
  <2> QED
    BY <2>1, <2>2, <2>3
<1>2. PICK x : x = Joint(i, s, l)
  OBVIOUS
<1>3. PICK y : y = Joint(j, r, m)
  OBVIOUS
<1>4. x \in Its(a, lo) /\ x.base = i /\ x.step = s /\ x.leg = l
  BY <1>1, <1>2 DEF Joint
<1>5. y \in Its(a, lo) /\ y.base = j /\ y.step = r /\ y.leg = m
  BY <1>1, <1>3 DEF Joint
<1> QED
  BY <1>1, <1>2, <1>3, <1>4, <1>5

LEMMA JoinIsType ==
  ASSUME NEW a, a.op \in Joining, NEW lo, NEW T, T = Adapted(a, lo)
  PROVE  IsType(T) /\ T.category = "forward"
<1>1. T.its = Its(a, lo) /\ T.incr = JoinIncr(a, lo) /\ T.category = "forward"
  BY AdaptedFields, JoinOps
<1>2. DOMAIN JoinIncr(a, lo) = Its(a, lo)
  BY DEF JoinIncr
<1> QED
  BY <1>1, <1>2 DEF IsType

\* T is the type of a over a path of lo, to whose end a keeps an iterator.
Lies(a, T, lo, b, e, q, n, p) == T = Adapted(a, lo) /\ a.e = e /\ Path(lo, b, e, q, n, p)

ExtraLast(x, q, n) == x[n + 1] = Extra /\ \A k \in 1 .. n : x[k] = q[k]

ExtraFirst(x, q, n) == x[1] = Extra /\ \A k \in 1 .. n : x[k + 1] = q[k]

LEMMA AppendPath ==
  ASSUME NEW a, a.op = "append", NEW lo, NEW T,
         NEW b, NEW e, NEW q, NEW n, NEW p, Lies(a, T, lo, b, e, q, n, p),
         NEW x, ExtraLast(x, q, n), NEW l, l = IF lo.same[b][e] THEN "value" ELSE "base"
  PROVE  /\ IsType(T) /\ T.category = "forward"
         /\ \E u : Path(T, Joint(b, 0, l), Joint(e, 1, "value"), x, n + 1, u)
<1> USE DEF Lies, ExtraLast
<1>0. a.op \in Joining
  BY DEF Joining
<1>1. /\ n \in Nat /\ e \in lo.its /\ p[1] = b /\ lo.same[p[n + 1]][e]
      /\ \A k \in 1 .. n + 1 : p[k] \in lo.its
  BY DEF Path
<1>u. PICK u : u = [k \in 1 .. n + 2 |->
                      IF k <= n THEN Joint(p[k], 0, "base")
                      ELSE Joint(p[n + 1], IF k = n + 1 THEN 0 ELSE 1, "value")]
  OBVIOUS
<1>2. \A k \in 1 .. n : u[k] = Joint(p[k], 0, "base")
  BY <1>1, <1>u
<1>3. u[n + 1] = Joint(p[n + 1], 0, "value") /\ u[n + 2] = Joint(p[n + 1], 1, "value")
  BY <1>1, <1>u
<1>4. p[n + 1] \in lo.its
  BY <1>1
<1>5. u[n + 1] \in T.its /\ u[n + 2] \in T.its /\ T.reads[u[n + 1]] = Extra /\ T.incr[u[n + 1]] = u[n + 2]
  BY <1>0, <1>3, <1>4, JointAt
<1>6. ~T.same[u[n + 1]][Joint(e, 1, "value")] /\ T.same[u[n + 2]][Joint(e, 1, "value")]
  BY <1>0, <1>1, <1>3, <1>4, JointSame
<1>7. Joint(e, 1, "value") \in T.its
  BY <1>0, <1>1, JointAt
<1>8. ASSUME NEW k \in 1 .. n
      PROVE  u[k] \in T.its /\ T.reads[u[k]] = x[k] /\ T.incr[u[k]] = u[k + 1]
             /\ ~T.same[u[k]][Joint(e, 1, "value")]
  <2>1. k \in 1 .. n + 1 /\ k + 1 \in 1 .. n + 1 /\ (k # n => k + 1 \in 1 .. n)
    BY <1>1
  <2>2. ~lo.same[p[k]][e] /\ lo.reads[p[k]] = q[k] /\ lo.incr[p[k]] = p[k + 1] /\ p[k] \in lo.its
    BY <1>1, <2>1 DEF Path
  <2>3. u[k] \in T.its /\ T.reads[u[k]] = x[k]
        /\ T.incr[u[k]] = Joint(p[k + 1], 0, IF lo.same[p[k + 1]][e] THEN "value" ELSE "base")
    BY <1>0, <1>2, <2>2, JointAt
  <2>4. lo.same[p[k + 1]][e] <=> k = n
    <3>1. k # n => ~lo.same[p[k + 1]][e]
      BY <2>1 DEF Path
    <3> QED
      BY <1>1, <3>1
  <2>5. T.incr[u[k]] = u[k + 1]
    BY <1>2, <1>3, <2>1, <2>3, <2>4
  <2>6. ~T.same[Joint(p[k], 0, "base")][Joint(e, 1, "value")]
    BY <1>0, <1>1, <2>2, JointSame
  <2> QED
    BY <1>2, <2>3, <2>5, <2>6
<1>9. u[1] = Joint(b, 0, l)
  <2>1. CASE n = 0
    BY <1>1, <1>3, <2>1
  <2>2. CASE n # 0
    <3>1. 1 \in 1 .. n
      BY <1>1, <2>2
    <3>2. ~lo.same[b][e]
      BY <1>1, <3>1 DEF Path
    <3> QED
      BY <1>1, <1>2, <3>1, <3>2
  <2> QED
    BY <2>1, <2>2
<1>10. Path(T, Joint(b, 0, l), Joint(e, 1, "value"), x, n + 1, u)
  <2>1. n + 1 \in Nat /\ (n + 1) + 1 = n + 2
        /\ (\A k \in 1 .. n + 1 : k \in 1 .. n \/ k = n + 1)
        /\ \A k \in 1 .. (n + 1) + 1 : k \in 1 .. n \/ k = n + 1 \/ k = n + 2
    BY <1>1
  <2>2. \A k \in 1 .. (n + 1) + 1 : u[k] \in T.its
    BY <1>5, <1>8, <2>1
  <2>3. \A k \in 1 .. n + 1 :
          ~T.same[u[k]][Joint(e, 1, "value")] /\ T.reads[u[k]] = x[k] /\ T.incr[u[k]] = u[k + 1]
    <3> TAKE k \in 1 .. n + 1
    <3>1. CASE k \in 1 .. n
      BY <1>8, <3>1
    <3>2. CASE k = n + 1
      <4>1. k + 1 = n + 2
        BY <1>1, <3>2
      <4> QED
        BY <1>5, <1>6, <3>2, <4>1
    <3> QED
      BY <2>1, <3>1, <3>2
  <2> QED
    BY <1>6, <1>7, <1>9, <2>1, <2>2, <2>3 DEF Path
<1> QED
  BY <1>0, <1>10, JoinIsType

LEMMA PrependPath ==
  ASSUME NEW a, a.op = "prepend", NEW lo, NEW T,
         NEW b, NEW e, NEW q, NEW n, NEW p, Lies(a, T, lo, b, e, q, n, p),
         NEW x, ExtraFirst(x, q, n)
  PROVE  /\ IsType(T) /\ T.category = "forward"
         /\ \E u : Path(T, Joint(b, 0, "value"), Joint(e, 1, "base"), x, n + 1, u)
<1> USE DEF Lies, ExtraFirst
<1>0. a.op \in Joining
  BY DEF Joining
<1>1. /\ n \in Nat /\ e \in lo.its /\ p[1] = b /\ lo.same[p[n + 1]][e]
      /\ \A k \in 1 .. n + 1 : p[k] \in lo.its
  BY DEF Path
<1>u. PICK u : u = [k \in 1 .. n + 2 |-> IF k = 1 THEN Joint(b, 0, "value") ELSE Joint(p[k - 1], 1, "base")]
  OBVIOUS
<1>2. \A k \in 1 .. n + 1 : u[k + 1] = Joint(p[k], 1, "base")
  <2> TAKE k \in 1 .. n + 1
  <2>1. k + 1 \in 1 .. n + 2 /\ k + 1 # 1 /\ (k + 1) - 1 = k
    BY <1>1
  <2> QED
    BY <1>u, <2>1
<1>3. u[1] = Joint(b, 0, "value") /\ 1 \in 1 .. n + 1 /\ n + 1 \in 1 .. n + 1
  BY <1>1, <1>u
<1>4. Joint(e, 1, "base") \in T.its
  BY <1>0, <1>1, JointAt
<1>5. b \in lo.its /\ p[n + 1] \in lo.its
  BY <1>1, <1>3
<1>6. /\ u[1] \in T.its /\ T.reads[u[1]] = Extra /\ T.incr[u[1]] = Joint(b, 1, "base")
      /\ ~T.same[u[1]][Joint(e, 1, "base")]
  <2>1. u[1] \in T.its /\ T.reads[u[1]] = Extra /\ T.incr[u[1]] = Joint(b, 1, "base")
    BY <1>0, <1>3, <1>5, JointAt
  <2>2. ~T.same[Joint(b, 0, "value")][Joint(e, 1, "base")]
    BY <1>0, <1>1, <1>5, JointSame
  <2> QED
    BY <1>3, <2>1, <2>2
<1>7. T.incr[u[1]] = u[1 + 1]
  BY <1>1, <1>2, <1>3, <1>6
<1>8. ASSUME NEW k \in 1 .. n + 1
      PROVE  u[k + 1] \in T.its /\ (T.same[u[k + 1]][Joint(e, 1, "base")] <=> lo.same[p[k]][e])
  <2>1. p[k] \in lo.its /\ u[k + 1] = Joint(p[k], 1, "base")
    BY <1>1, <1>2
  <2>2. T.same[Joint(p[k], 1, "base")][Joint(e, 1, "base")] <=> lo.same[p[k]][e]
    BY <1>0, <1>1, <2>1, JointSame
  <2> QED
    BY <1>0, <2>1, <2>2, JointAt
<1>9. ASSUME NEW k \in 1 .. n
      PROVE  T.reads[u[k + 1]] = x[k + 1] /\ T.incr[u[k + 1]] = u[(k + 1) + 1]
             /\ ~T.same[u[k + 1]][Joint(e, 1, "base")]
  <2>1. k \in 1 .. n + 1 /\ k + 1 \in 1 .. n + 1
    BY <1>1
  <2>2. ~lo.same[p[k]][e] /\ lo.reads[p[k]] = q[k] /\ lo.incr[p[k]] = p[k + 1] /\ p[k] \in lo.its
    BY <1>1, <2>1 DEF Path
  <2>3. u[k + 1] = Joint(p[k], 1, "base") /\ u[(k + 1) + 1] = Joint(p[k + 1], 1, "base")
    BY <1>2, <2>1
  <2>4. T.reads[u[k + 1]] = q[k] /\ T.incr[u[k + 1]] = Joint(p[k + 1], 1, "base")
    BY <1>0, <2>2, <2>3, JointAt
  <2> QED
    BY <1>8, <2>1, <2>2, <2>3, <2>4
<1>10. Path(T, Joint(b, 0, "value"), Joint(e, 1, "base"), x, n + 1, u)
  <2>1. \A k \in 1 .. (n + 1) + 1 : u[k] \in T.its
    <3> TAKE k \in 1 .. (n + 1) + 1
    <3>1. k = 1 \/ \E j \in 1 .. n + 1 : k = j + 1
      <4>1. CASE k # 1
        <5>1. k - 1 \in 1 .. n + 1 /\ k = (k - 1) + 1
          BY <1>1, <4>1
        <5> QED
          BY <5>1
      <4> QED
        BY <4>1
    <3> QED
      BY <1>6, <1>8, <3>1
  <2>2. \A k \in 1 .. n + 1 :
          ~T.same[u[k]][Joint(e, 1, "base")] /\ T.reads[u[k]] = x[k] /\ T.incr[u[k]] = u[k + 1]
    <3> TAKE k \in 1 .. n + 1
    <3>1. k = 1 \/ \E j \in 1 .. n : k = j + 1
      <4>1. CASE k # 1
        <5>1. k - 1 \in 1 .. n /\ k = (k - 1) + 1
          BY <1>1, <4>1
        <5> QED
          BY <5>1
      <4> QED
        BY <4>1
    <3> QED
      BY <1>6, <1>7, <1>9, <3>1
  <2>3. T.same[u[(n + 1) + 1]][Joint(e, 1, "base")]
    BY <1>1, <1>3, <1>8
  <2>4. n + 1 \in Nat
    BY <1>1
  <2> QED
    BY <1>3, <1>4, <2>1, <2>2, <2>3, <2>4 DEF Path
<1> QED
  BY <1>0, <1>10, JoinIsType

Filled(i, h) == [base |-> i, phase |-> h]

LEMMA DefaultAt ==
  ASSUME NEW a, a.op = "default_if_empty", NEW lo, NEW T, T = Adapted(a, lo),
         NEW i \in lo.its, NEW h \in 0 .. 2
  PROVE  /\ Filled(i, h) \in T.its
         /\ T.reads[Filled(i, h)] = IF h = 1 THEN Extra ELSE lo.reads[i]
         /\ h = 0 => T.incr[Filled(i, h)] = Filled(lo.incr[i], IF lo.same[lo.incr[i]][a.e] THEN 2 ELSE 0)
         /\ h # 0 => T.incr[Filled(i, h)] = Filled(i, 2)
<1>1. /\ T.its = Its(a, lo) /\ T.incr = DefaultIncr(a, lo) /\ T.reads = Reads(a, lo)
      /\ Its(a, lo) = [base : lo.its, phase : 0 .. 2]
  <2>1. T.its = Its(a, lo) /\ T.incr = Incr(a, lo) /\ T.reads = Reads(a, lo)
    BY AdaptedFields
  <2>2. Its(a, lo) = [base : lo.its, phase : 0 .. 2] /\ Incr(a, lo) = DefaultIncr(a, lo)
    BY DefaultOps
  <2> QED
    BY <2>1, <2>2
<1>2. PICK x : x = Filled(i, h)
  OBVIOUS
<1>3. x \in Its(a, lo) /\ x.base = i /\ x.phase = h
  BY <1>1, <1>2 DEF Filled
<1>4. Reads(a, lo)[x] = IF h = 1 THEN Extra ELSE lo.reads[i]
  BY <1>3, DefaultOps
<1>5. h = 0 => DefaultIncr(a, lo)[x] = [base |-> lo.incr[i], phase |-> IF lo.same[lo.incr[i]][a.e] THEN 2 ELSE 0]
  BY <1>3 DEF DefaultIncr
<1>6. h # 0 => DefaultIncr(a, lo)[x] = [base |-> i, phase |-> 2]
  BY <1>3 DEF DefaultIncr
<1> QED
  BY <1>1, <1>2, <1>3, <1>4, <1>5, <1>6 DEF Filled

LEMMA DefaultSame ==
  ASSUME NEW a, a.op = "default_if_empty", NEW lo, NEW T, T = Adapted(a, lo),
         NEW i \in lo.its, NEW g \in 0 .. 2, NEW j \in lo.its, NEW h \in 0 .. 2
  PROVE  T.same[Filled(i, g)][Filled(j, h)] <=> g = h /\ lo.same[i][j]
<1>1. T.same = Same(a, lo) /\ Its(a, lo) = [base : lo.its, phase : 0 .. 2]
  <2>1. T.same = Same(a, lo)
    BY AdaptedFields
  <2>2. Its(a, lo) = [base : lo.its, phase : 0 .. 2]
    BY DefaultOps
  <2> QED
    BY <2>1, <2>2
<1>2. PICK x : x = Filled(i, g)
  OBVIOUS
<1>3. PICK y : y = Filled(j, h)
  OBVIOUS
<1>4. x \in Its(a, lo) /\ x.base = i /\ x.phase = g
  BY <1>1, <1>2 DEF Filled
<1>5. y \in Its(a, lo) /\ y.base = j /\ y.phase = h
  BY <1>1, <1>3 DEF Filled
<1>6. Same(a, lo)[x][y] <=> x.phase = y.phase /\ lo.same[x.base][y.base]
  BY <1>4, <1>5, DefaultOps
<1> QED
  BY <1>1, <1>2, <1>3, <1>4, <1>5, <1>6

LEMMA DefaultIsType ==
  ASSUME NEW a, a.op = "default_if_empty", NEW lo, NEW T, T = Adapted(a, lo)
  PROVE  IsType(T) /\ T.category = "forward"
<1>1. T.its = Its(a, lo) /\ T.incr = DefaultIncr(a, lo) /\ T.category = "forward"
  BY AdaptedFields, DefaultOps
<1>2. DOMAIN DefaultIncr(a, lo) = Its(a, lo)
  BY DEF DefaultIncr
<1> QED
  BY <1>1, <1>2 DEF IsType

LEMMA DefaultEmptyPath ==
  ASSUME NEW a, a.op = "default_if_empty", NEW lo, NEW T,
         NEW b, NEW e, NEW q, NEW n, n = 0, NEW p, Lies(a, T, lo, b, e, q, n, p),
         NEW x, x[1] = Extra
  PROVE  lo.same[b][e] /\ \E u : Path(T, Filled(b, 1), Filled(e, 2), x, 1, u)
<1> USE DEF Lies
<1>1. b \in lo.its /\ e \in lo.its /\ lo.same[b][e]
  <2>1. 1 \in 1 .. 0 + 1 /\ 0 + 1 = 1
    OBVIOUS
  <2>2. p[1] \in lo.its /\ p[1] = b
    BY <2>1 DEF Path
  <2>3. lo.same[p[1]][e] /\ e \in lo.its
    BY <2>1 DEF Path
  <2> QED
    BY <2>2, <2>3
<1>2. /\ Filled(b, 1) \in T.its /\ Filled(b, 2) \in T.its /\ Filled(e, 2) \in T.its
      /\ T.reads[Filled(b, 1)] = Extra /\ T.incr[Filled(b, 1)] = Filled(b, 2)
  BY <1>1, DefaultAt
<1>3. ~T.same[Filled(b, 1)][Filled(e, 2)] /\ T.same[Filled(b, 2)][Filled(e, 2)]
  BY <1>1, DefaultSame
<1>u. PICK u : u = [k \in 1 .. 2 |-> Filled(b, k)]
  OBVIOUS
<1>4. u[1] = Filled(b, 1) /\ u[2] = Filled(b, 2)
  BY <1>u
<1>5. Path(T, Filled(b, 1), Filled(e, 2), x, 1, u)
  <2>1. 1 \in Nat /\ 1 + 1 = 2 /\ (\A k \in 1 .. 1 : k = 1) /\ \A k \in 1 .. 1 + 1 : k = 1 \/ k = 2
    OBVIOUS
  <2> QED
    BY <1>2, <1>3, <1>4, <2>1 DEF Path
<1> QED
  BY <1>1, <1>5

LEMMA DefaultPath ==
  ASSUME NEW a, a.op = "default_if_empty", NEW lo, NEW T,
         NEW b, NEW e, NEW q, NEW n, n # 0, NEW p, Lies(a, T, lo, b, e, q, n, p)
  PROVE  ~lo.same[b][e] /\ \E u : Path(T, Filled(b, 0), Filled(e, 2), q, n, u)
<1> USE DEF Lies
<1>1. /\ n \in Nat /\ e \in lo.its /\ p[1] = b /\ lo.same[p[n + 1]][e]
      /\ \A k \in 1 .. n + 1 : p[k] \in lo.its
  BY DEF Path
<1>u. PICK u : u = [k \in 1 .. n + 1 |-> Filled(p[k], IF k = n + 1 THEN 2 ELSE 0)]
  OBVIOUS
<1>2. \A k \in 1 .. n : u[k] = Filled(p[k], 0)
  <2> TAKE k \in 1 .. n
  <2>1. k \in 1 .. n + 1 /\ k # n + 1
    BY <1>1
  <2> QED
    BY <1>u, <2>1
<1>3. 1 \in 1 .. n /\ n + 1 \in 1 .. n + 1
  BY <1>1
<1>4. u[n + 1] = Filled(p[n + 1], 2) /\ p[n + 1] \in lo.its
  BY <1>1, <1>3, <1>u
<1>5. u[n + 1] \in T.its /\ Filled(e, 2) \in T.its
  BY <1>1, <1>4, DefaultAt
<1>6. T.same[u[n + 1]][Filled(e, 2)]
  BY <1>1, <1>4, DefaultSame
<1>7. ASSUME NEW k \in 1 .. n
      PROVE  u[k] \in T.its /\ T.reads[u[k]] = q[k] /\ T.incr[u[k]] = u[k + 1] /\ ~T.same[u[k]][Filled(e, 2)]
  <2>1. k \in 1 .. n + 1 /\ k + 1 \in 1 .. n + 1 /\ (k # n => k + 1 \in 1 .. n)
    BY <1>1
  <2>2. ~lo.same[p[k]][e] /\ lo.reads[p[k]] = q[k] /\ lo.incr[p[k]] = p[k + 1] /\ p[k] \in lo.its
    BY <1>1, <2>1 DEF Path
  <2>3. u[k] \in T.its /\ T.reads[u[k]] = q[k]
        /\ T.incr[u[k]] = Filled(p[k + 1], IF lo.same[p[k + 1]][e] THEN 2 ELSE 0)
    BY <1>2, <2>2, DefaultAt
  <2>4. lo.same[p[k + 1]][e] <=> k = n
    <3>1. k # n => ~lo.same[p[k + 1]][e]
      BY <2>1 DEF Path
    <3> QED
      BY <1>1, <3>1
  <2>5. T.incr[u[k]] = u[k + 1]
    BY <1>2, <1>4, <2>1, <2>3, <2>4
  <2>6. ~T.same[Filled(p[k], 0)][Filled(e, 2)]
    BY <1>1, <2>2, DefaultSame
  <2> QED
    BY <1>2, <2>3, <2>5, <2>6
<1>8. ~lo.same[b][e] /\ u[1] = Filled(b, 0)
  <2>1. ~lo.same[p[1]][e]
    BY <1>3 DEF Path
  <2> QED
    BY <1>1, <1>2, <1>3, <2>1
<1>9. \A k \in 1 .. n + 1 : u[k] \in T.its
  <2>1. \A k \in 1 .. n + 1 : k \in 1 .. n \/ k = n + 1
    BY <1>1
  <2> QED
    BY <1>5, <1>7, <2>1
<1>10. Path(T, Filled(b, 0), Filled(e, 2), q, n, u)
  BY <1>1, <1>5, <1>6, <1>7, <1>8, <1>9 DEF Path
<1> QED
  BY <1>8, <1>10

\* There are c multiples of s under n, and x holds the elements of q after them.
Strides(x, c, q, n, s) ==
  /\ c \in Nat /\ \A k \in Nat : k < c <=> k * s < n
  /\ \A k \in 1 .. c : x[k] = q[(k - 1) * s + 1]

LEMMA StridePath ==
  ASSUME NEW a, a.op = "stride", NEW lo, IsType(lo), NEW T,
         NEW s \in Nat, s >= 1, a.n = s,
         NEW b, NEW e, NEW q, NEW n, NEW p, Lies(a, T, lo, b, e, q, n, p),
         NEW c, NEW x, Strides(x, c, q, n, s)
  PROVE  /\ IsType(T) /\ T.category = "forward"
         /\ \E u : Path(T, b, e, x, c, u)
<1> USE DEF Lies
<1>1. /\ n \in Nat /\ e \in lo.its /\ p[1] = b /\ lo.same[p[n + 1]][e]
      /\ \A k \in 1 .. n + 1 : p[k] \in lo.its
  BY DEF Path
<1>2. c \in Nat /\ \A k \in Nat : k < c <=> k * s < n
  BY DEF Strides
<1>3. /\ T.its = lo.its /\ T.incr = UpTo(s, e, lo) /\ T.category = "forward"
      /\ \A i \in lo.its : T.reads[i] = lo.reads[i]
      /\ \A i, j \in lo.its : T.same[i][j] <=> lo.same[i][j]
  BY AdaptedFields, StrideOps
<1>4. IsType(T)
  <2>1. DOMAIN UpTo(s, e, lo) = lo.its
    BY DEF UpTo
  <2> QED
    BY <1>3, <2>1 DEF IsType
<1>u. PICK u : u = [k \in 1 .. c + 1 |-> p[IF k = c + 1 THEN n + 1 ELSE (k - 1) * s + 1]]
  OBVIOUS
<1>5. ASSUME NEW k \in 1 .. c
      PROVE  /\ (k - 1) * s + 1 \in 1 .. n /\ u[k] = p[(k - 1) * s + 1]
             /\ u[k + 1] = p[IF ((k - 1) * s + 1) + s <= n + 1 THEN ((k - 1) * s + 1) + s ELSE n + 1]
  <2>0. c \in Nat
    BY <1>2
  <2>y. PICK y \in Int : y = (k - 1) * s
    BY <2>0
  <2>1. k - 1 \in Nat /\ k - 1 < c /\ k \in 1 .. c + 1 /\ k + 1 \in 1 .. c + 1 /\ k # c + 1 /\ (k + 1) - 1 = k
    BY <2>0
  <2>2. y < n /\ y >= 0
    <3>1. (k - 1) * s < n
      BY <1>2, <2>1
    <3>2. (k - 1) * s >= 0
      BY <2>1
    <3> QED
      BY <2>y, <3>1, <3>2
  <2>3. k * s = y + s
    BY <2>0, <2>y
  <2>4. k < c <=> y + s < n
    <3>1. k \in Nat
      BY <2>0
    <3>2. k < c <=> k * s < n
      BY <1>2, <3>1
    <3> QED
      BY <2>3, <3>2
  <2>5. k + 1 = c + 1 <=> ~(k < c)
    BY <2>0
  <2>6. u[k + 1] = p[IF k + 1 = c + 1 THEN n + 1 ELSE (y + s) + 1]
    BY <1>u, <2>1, <2>3
  <2>7. (IF k + 1 = c + 1 THEN n + 1 ELSE (y + s) + 1) = IF (y + 1) + s <= n + 1 THEN (y + 1) + s ELSE n + 1
    BY <1>1, <2>4, <2>5
  <2>8. u[k] = p[y + 1]
    BY <1>u, <2>1, <2>y
  <2>9. y + 1 \in 1 .. n
    <3>1. n \in Nat
      BY <1>1
    <3> QED
      BY <2>2, <3>1
  <2> QED
    BY <2>6, <2>7, <2>8, <2>9, <2>y
<1>6. ASSUME NEW k \in 1 .. c
      PROVE  u[k] \in T.its /\ ~T.same[u[k]][e] /\ T.reads[u[k]] = x[k] /\ T.incr[u[k]] = u[k + 1]
  <2>1. PICK m \in 1 .. n : m = (k - 1) * s + 1
    BY <1>5
  <2>2. m \in 1 .. n + 1 /\ u[k] = p[m] /\ p[m] \in lo.its
        /\ u[k + 1] = p[IF m + s <= n + 1 THEN m + s ELSE n + 1]
    BY <1>1, <1>5, <2>1
  <2>3. UpTo(s, e, lo)[p[m]] = p[IF m + s <= n + 1 THEN m + s ELSE n + 1]
    BY <2>2, UpToAlong
  <2>4. ~lo.same[p[m]][e] /\ lo.reads[p[m]] = q[m]
    BY DEF Path
  <2>5. x[k] = q[m]
    BY <2>1 DEF Strides
  <2> QED
    BY <1>1, <1>3, <2>2, <2>3, <2>4, <2>5
<1>7. u[c + 1] = p[n + 1] /\ p[n + 1] \in T.its /\ T.same[u[c + 1]][e]
  <2>1. c + 1 \in 1 .. c + 1 /\ n + 1 \in 1 .. n + 1
    BY <1>1, <1>2
  <2> QED
    BY <1>1, <1>3, <1>u, <2>1
<1>8. u[1] = b
  <2>1. CASE c = 0
    <3>1. n = 0
      <4>1. 0 \in Nat /\ 0 * s = 0 /\ ~(0 < c)
        BY <2>1
      <4>2. ~(0 < n)
        BY <1>2, <4>1
      <4> QED
        BY <1>1, <4>2
    <3> QED
      BY <1>1, <1>7, <2>1, <3>1
  <2>2. CASE c # 0
    <3>1. 1 \in 1 .. c /\ (1 - 1) * s + 1 = 1
      BY <1>2, <2>2
    <3> QED
      BY <1>1, <1>5, <3>1
  <2> QED
    BY <2>1, <2>2
<1>9. \A k \in 1 .. c + 1 : u[k] \in T.its
  <2>1. c \in Nat
    BY <1>2
  <2>2. \A k \in 1 .. c + 1 : k \in 1 .. c \/ k = c + 1
    BY <2>1
  <2> QED
    BY <1>6, <1>7, <2>2
<1>10. Path(T, b, e, x, c, u)
  <2>1. c \in Nat /\ e \in T.its
    BY <1>1, <1>2, <1>3
  <2> QED
    BY <1>6, <1>7, <1>8, <1>9, <2>1 DEF Path
<1> QED
  BY <1>3, <1>4, <1>10

(* Views: the pile of a view, and what it shows. *)

Cuts == {"take", "take_while"}

Piled(t) == \E S : t \in Seq(S) /\ t # <<>> /\ t[1].op \notin Cuts

Clean(t) == \A k \in 1 .. Len(t) : t[k].op \notin Cuts

\* None of them under the top.
Open(t) == \A k \in 1 .. Len(t) - 1 : t[k].op \notin Cuts

\* An adaptor laid on a pile.
LEMMA PileUp ==
  ASSUME NEW t, Piled(t), NEW a, NEW w, w = Append(t, a)
  PROVE  /\ Piled(w) /\ Front(w) = t /\ Last(w) = a /\ Type(w) = Adapted(a, Type(t))
         /\ Len(w) = Len(t) + 1 /\ Len(t) \in Nat /\ (Open(w) <=> Clean(t))
<1>1. PICK S : t \in Seq(S) /\ t # <<>> /\ t[1].op \notin Cuts
  BY DEF Piled
<1>2. PICK R : R = S \cup {a}
  OBVIOUS
<1>3. t \in Seq(R) /\ a \in R
  <2>1. S \subseteq R
    BY <1>2
  <2> QED
    BY <1>1, <1>2, <2>1, SeqMonotonic
<1>4. Type(w) = Adapted(a, Type(t))
  BY <1>1, <1>3, TypeAppend
<1>5. PICK n : n = Len(t)
  OBVIOUS
<1>6. /\ n \in Nat /\ n >= 1 /\ w \in Seq(R) /\ w # <<>> /\ Len(w) = n + 1
      /\ w[n + 1] = a /\ \A k \in 1 .. n : w[k] = t[k]
  BY <1>1, <1>3, <1>5, AppendProperties, EmptySeq
<1>7. Last(w) = a
  BY <1>6 DEF Last
<1>8. Front(w) = t
  <2>1. \A i \in 1 .. n : w[i] \in R
    BY <1>3, <1>5, <1>6
  <2>2. /\ SubSeq(w, 1, n) \in Seq(R) /\ Len(SubSeq(w, 1, n)) = n
        /\ \A k \in 1 .. n : SubSeq(w, 1, n)[k] = w[k]
    BY <1>6, <2>1
  <2>3. Front(w) = SubSeq(w, 1, n)
    <3>1. Len(w) - 1 = n
      BY <1>6
    <3> QED
      BY <3>1 DEF Front
  <2>4. Len(Front(w)) = n /\ Front(w) \in Seq(R)
    BY <1>6, <2>2, <2>3
  <2>5. ASSUME NEW k \in 1 .. n PROVE Front(w)[k] = t[k]
    BY <1>6, <2>2, <2>3
  <2> QED
    BY <1>3, <1>5, <2>4, <2>5, SeqEqual
<1>9. w[1] = t[1]
  BY <1>6
<1>10. Piled(w)
  BY <1>1, <1>6, <1>9 DEF Piled
<1>11. Open(w) <=> Clean(t)
  <2>1. Len(w) - 1 = n
    BY <1>6
  <2> QED
    BY <1>5, <1>6, <2>1 DEF Open, Clean
<1> QED
  BY <1>4, <1>5, <1>6, <1>7, <1>8, <1>10, <1>11

\* A pile with a cut on top is one laid on another.
LEMMA PileTop ==
  ASSUME NEW t, Piled(t), Last(t).op \in Cuts
  PROVE  /\ Piled(Front(t)) /\ t = Append(Front(t), Last(t))
         /\ Type(t) = Adapted(Last(t), Type(Front(t)))
<1>1. PICK S : t \in Seq(S) /\ t # <<>> /\ t[1].op \notin Cuts
  BY DEF Piled
<1>2. PICK w \in Seq(S), a \in S : t = Append(w, a)
  BY <1>1, SequenceEmptyOrAppend
<1>3. PICK n : n = Len(w)
  OBVIOUS
<1>4. n \in Nat /\ Len(t) = n + 1 /\ t[n + 1] = a /\ \A k \in 1 .. n : t[k] = w[k]
  BY <1>2, <1>3, AppendProperties, LenProperties
<1>5. Last(t) = a
  BY <1>4 DEF Last
<1>6. n # 0
  BY <1>1, <1>4, <1>5
<1>7. w # <<>> /\ w[1] = t[1]
  <2>1. 1 \in 1 .. n
    BY <1>4, <1>6
  <2> QED
    BY <1>3, <1>4, <1>6, <2>1, EmptySeq
<1>8. Piled(w)
  BY <1>1, <1>7 DEF Piled
<1>9. Front(t) = w /\ Type(t) = Adapted(a, Type(w))
  BY <1>2, <1>8, PileUp
<1> QED
  BY <1>2, <1>5, <1>8, <1>9

\* How a view can be gone through backwards: by what its reverse relies on.
Backs(sh, q, p) ==
  /\ TopOp(sh) = "take" => TakesBack(Type(Front(sh.type)), sh.b, sh.e, q, Len(q), p)
  /\ TopOp(sh) = "take_while" => BothWays(Type(Front(sh.type)), q, Len(q), p)
  /\ TopOp(sh) \notin Cuts => BothWays(Type(sh.type), q, Len(q), p) /\ sh.e = p[Len(q) + 1]

\* The view sh shows q, and p is where its iterators go.
Shows(sh, q, p) ==
  /\ Piled(sh.type) /\ IsType(Type(sh.type)) /\ q \in Seq(Values)
  /\ Path(Type(sh.type), sh.b, sh.e, q, Len(q), p)
  /\ Type(sh.type).category = "bidirectional" /\ Open(sh.type) => Backs(sh, q, p)

LEMMA ShowsClean ==
  ASSUME NEW sh, NEW q, NEW p, Shows(sh, q, p),
         Type(sh.type).category = "bidirectional", Clean(sh.type)
  PROVE  BothWays(Type(sh.type), q, Len(q), p) /\ sh.e = p[Len(q) + 1]
<1>1. PICK S : sh.type \in Seq(S) /\ sh.type # <<>>
  BY DEF Shows, Piled
<1>2. PICK n : n = Len(sh.type)
  OBVIOUS
<1>3. n \in Nat /\ n >= 1
  BY <1>1, <1>2, EmptySeq
<1>4. Open(sh.type)
  BY <1>2, <1>3 DEF Open, Clean
<1>5. TopOp(sh) \notin Cuts
  <2>1. n \in 1 .. n
    BY <1>3
  <2> QED
    BY <1>2, <2>1 DEF TopOp, Last, Clean
<1> QED
  BY <1>4, <1>5 DEF Shows, Backs

\* A view made by an adaptor on another.
LEMMA ShowsOn ==
  ASSUME NEW sh, NEW lo, lo = Type(sh.type), Piled(sh.type), NEW a, NEW b, NEW e,
         NEW T, T = Adapted(a, lo), IsType(T), NEW x \in Seq(Values), NEW u, Path(T, b, e, x, Len(x), u),
         T.category = "bidirectional" /\ Clean(sh.type) =>
           /\ a.op = "take" => TakesBack(lo, b, e, x, Len(x), u)
           /\ a.op = "take_while" => BothWays(lo, x, Len(x), u)
           /\ a.op \notin Cuts => BothWays(T, x, Len(x), u) /\ e = u[Len(x) + 1]
  PROVE  Shows(On(sh, a, b, e), x, u)
<1>1. PICK w : w = Append(sh.type, a)
  OBVIOUS
<1>2. PICK v : v = On(sh, a, b, e)
  OBVIOUS
<1>3. v.type = w /\ v.b = b /\ v.e = e
  BY <1>1, <1>2 DEF On
<1>4. Piled(w) /\ Front(w) = sh.type /\ Last(w) = a /\ Type(w) = T /\ (Open(w) <=> Clean(sh.type))
  BY <1>1, PileUp
<1>5. TopOp(v) = a.op
  BY <1>3, <1>4 DEF TopOp
<1>6. T.category = "bidirectional" /\ Clean(sh.type) => Backs(v, x, u)
  BY <1>3, <1>4, <1>5 DEF Backs
<1>7. Shows(v, x, u)
  BY <1>3, <1>4, <1>6 DEF Shows
<1> QED
  BY <1>2, <1>7

LEMMA ShowsForward ==
  ASSUME NEW sh, NEW lo, lo = Type(sh.type), Piled(sh.type), NEW a, NEW b, NEW e,
         NEW T, T = Adapted(a, lo), IsType(T), T.category = "forward",
         NEW x \in Seq(Values), NEW u, Path(T, b, e, x, Len(x), u)
  PROVE  Shows(On(sh, a, b, e), x, u)
BY ShowsOn

LEMMA ShowsSome ==
  ASSUME NEW sh, NEW q, NEW p, Shows(sh, q, p)
  PROVE  /\ Piled(sh.type) /\ IsType(Type(sh.type)) /\ q \in Seq(Values) /\ Len(q) \in Nat
         /\ Path(Type(sh.type), sh.b, sh.e, q, Len(q), p)
         /\ \A k \in 1 .. Len(q) : q[k] \in Values /\ q[k] # Off
<1>1. q \in Seq(Values) /\ Off \notin Values
  BY ValuesAssumption DEF Shows
<1>2. Len(q) \in Nat /\ \A k \in 1 .. Len(q) : q[k] \in Values
  BY <1>1, LenProperties, ElementOfSeq
<1> QED
  BY <1>1, <1>2 DEF Shows

(* What the stages ask for. *)

LEMMA FirstOf ==
  ASSUME NEW q \in Seq(Values), NEW m \in 0 .. Len(q)
  PROVE  /\ SubSeq(q, 1, m) \in Seq(Values) /\ Len(SubSeq(q, 1, m)) = m
         /\ \A k \in 1 .. m : SubSeq(q, 1, m)[k] = q[k]
<1>1. \A k \in 1 .. m : q[k] \in Values
  BY ElementOfSeq, LenProperties
<1> QED
  BY <1>1

LEMMA RestOf ==
  ASSUME NEW q \in Seq(Values), NEW d \in 0 .. Len(q)
  PROVE  /\ SubSeq(q, d + 1, Len(q)) \in Seq(Values)
         /\ Len(SubSeq(q, d + 1, Len(q))) = Len(q) - d
         /\ \A k \in 1 .. Len(q) - d : SubSeq(q, d + 1, Len(q))[k] = q[k + d]
<1> PICK n : n = Len(q)
  OBVIOUS
<1>1. n \in Nat /\ d \in 0 .. n /\ \A k \in 1 .. n : q[k] \in Values
  BY ElementOfSeq, LenProperties
<1>2. \A k \in d + 1 .. n : q[k] \in Values
  BY <1>1
<1>3. /\ SubSeq(q, d + 1, n) \in Seq(Values)
      /\ Len(SubSeq(q, d + 1, n)) = n - d
  BY <1>1, <1>2
<1>4. ASSUME NEW k \in 1 .. n - d PROVE SubSeq(q, d + 1, n)[k] = q[k + d]
  <2>1. (d + 1) + k - 1 = k + d /\ k \in 1 .. n - (d + 1) + 1
    BY <1>1
  <2> QED
    BY <1>1, <1>2, <2>1
<1> QED
  BY <1>3, <1>4

LEMMA LeastOf ==
  ASSUME NEW M \in SUBSET Nat, M # {}
  PROVE  Min(M) \in M /\ \A y \in M : Min(M) <= y
<1>1. PICK k \in M : \A y \in M : k <= y
  BY LeastExists
<1> QED
  BY <1>1 DEF Min

LEMMA PrefixLengthIs ==
  ASSUME NEW q, Len(q) \in Nat, NEW S
  PROVE  /\ PrefixLength(q, S) \in 0 .. Len(q)
         /\ \A k \in 1 .. PrefixLength(q, S) : q[k] \in S
         /\ PrefixLength(q, S) = Len(q) \/ q[PrefixLength(q, S) + 1] \notin S
<1> PICK n : n = Len(q)
  OBVIOUS
<1>m. PICK M : M = {k \in 1 .. n : q[k] \notin S} \cup {n + 1}
  OBVIOUS
<1>1. n \in Nat
  OBVIOUS
<1>2. M \in SUBSET Nat /\ M # {} /\ \A k \in M : k \in 1 .. n + 1
  BY <1>m, <1>1
<1>3. PICK m : m = Min(M)
  OBVIOUS
<1>4. m \in M /\ m \in 1 .. n + 1 /\ \A y \in M : m <= y
  BY <1>2, <1>3, LeastOf
<1>5. PrefixLength(q, S) = m - 1
  BY <1>m, <1>3 DEF PrefixLength
<1>6. ASSUME NEW k \in 1 .. m - 1 PROVE q[k] \in S
  <2>1. k \in 1 .. n /\ ~(m <= k)
    BY <1>1, <1>4
  <2> QED
    BY <1>m, <1>4, <2>1
<1>7. m - 1 = n \/ q[(m - 1) + 1] \notin S
  <2>1. (m - 1) + 1 = m /\ (m - 1 # n => m # n + 1)
    BY <1>1, <1>4
  <2> QED
    BY <1>m, <1>4, <2>1
<1>8. m - 1 \in 0 .. n
  BY <1>1, <1>4
<1> QED
  BY <1>5, <1>6, <1>7, <1>8

LEMMA MinOfTwo ==
  ASSUME NEW c \in Nat, NEW n \in Nat
  PROVE  Min({c, n}) = IF c <= n THEN c ELSE n
<1>1. Min({c, n}) \in {c, n} /\ \A y \in {c, n} : Min({c, n}) <= y
  <2>1. {c, n} \in SUBSET Nat /\ {c, n} # {}
    OBVIOUS
  <2> QED
    BY <2>1, LeastOf
<1> QED
  BY <1>1

LEMMA ReverseOf ==
  ASSUME NEW q \in Seq(Values)
  PROVE  /\ Reverse(q) \in Seq(Values) /\ Len(Reverse(q)) = Len(q)
         /\ Reverse(q) = [k \in 1 .. Len(q) |-> q[Len(q) - k + 1]]
<1> PICK n : n = Len(q)
  OBVIOUS
<1>1. n \in Nat /\ \A k \in 1 .. n : q[k] \in Values
  BY ElementOfSeq, LenProperties
<1>2. Reverse(q) = [k \in 1 .. n |-> q[n - k + 1]]
  BY DEF Reverse
<1>3. \A k \in 1 .. n : n - k + 1 \in 1 .. n
  BY <1>1
<1>4. Reverse(q) \in [1 .. n -> Values]
  BY <1>1, <1>2, <1>3
<1>5. Reverse(q) \in Seq(Values) /\ Len(Reverse(q)) = n
  BY <1>1, <1>4
<1> QED
  BY <1>2, <1>5

LEMMA PickedOf ==
  ASSUME NEW q \in Seq(Values), NEW M \in SUBSET (1 .. Len(q))
  PROVE  \E sel, c :
           /\ PicksBy(sel, c, q, M, Len(q))
           /\ Picked(q, M) \in Seq(Values) /\ Len(Picked(q, M)) = c
           /\ \A j \in 1 .. c : sel[j] \in 1 .. Len(q)
<1> PICK n : n = Len(q)
  OBVIOUS
<1>1. n \in Nat /\ \A k \in 1 .. n : q[k] \in Values
  BY ElementOfSeq, LenProperties
<1>2. PICK sel, c : PicksBy(sel, c, q, M, n)
  <2>1. M \in SUBSET (1 .. n)
    OBVIOUS
  <2> QED
    BY <1>1, <2>1, PickedSelects
<1>3. c \in 0 .. n /\ Selects(sel, M, n, c) /\ Picked(q, M) = [j \in 1 .. c |-> q[sel[j]]]
  BY <1>2 DEF PicksBy
<1>4. \A j \in 1 .. c : sel[j] \in 1 .. n
  BY <1>3 DEF Selects
<1>5. Picked(q, M) \in [1 .. c -> Values]
  BY <1>1, <1>3, <1>4
<1>6. c \in Nat
  BY <1>1, <1>3
<1>7. Picked(q, M) \in Seq(Values) /\ Len(Picked(q, M)) = c
  BY <1>5, <1>6
<1> QED
  BY <1>2, <1>4, <1>7

LEMMA ElementsAre ==
  ASSUME NEW s \in Sources
  PROVE  /\ Elements(s) \in Seq(Values) /\ Len(Elements(s)) \in 0 .. Length + 1
         /\ s = "empty" => Len(Elements(s)) = 0
         /\ s = "from" => Len(Elements(s)) = Length
<1>1. Length \in Nat
  BY ValuesAssumption
<1>2. FromElements \in Seq(Values) /\ Len(FromElements) = Length
  <2>1. FromElements \in [1 .. Length -> Values]
    BY DEF FromElements, Values
  <2> QED
    BY <1>1, <2>1
<1>3. Repeated \in Seq(Values) /\ Len(Repeated) = Length
  <2>1. Repeated \in [1 .. Length -> Values]
    BY DEF Repeated, Values
  <2> QED
    BY <1>1, <2>1
<1>4. Iota = FromElements
  BY DEF Iota, FromElements
<1>5. Once \in Seq(Values) /\ Len(Once) = 1
  BY DEF Once, Values
<1>6. Nothing \in Seq(Values) /\ Len(Nothing) = 0
  BY DEF Nothing
<1>7. CASE s = "from"
  BY <1>1, <1>2, <1>7 DEF Elements
<1>8. CASE s = "iota"
  BY <1>1, <1>2, <1>4, <1>8 DEF Elements
<1>9. CASE s = "repeat"
  BY <1>1, <1>3, <1>9 DEF Elements
<1>10. CASE s = "once"
  <2>1. Elements(s) = Once
    BY <1>10 DEF Elements
  <2>2. 1 \in 0 .. Length + 1
    BY <1>1
  <2> QED
    BY <1>5, <1>10, <2>1, <2>2
<1>11. CASE s = "empty"
  BY <1>1, <1>6, <1>11 DEF Elements
<1> QED
  BY <1>7, <1>8, <1>9, <1>10, <1>11 DEF Sources

(* Each stage shows what it is to show. *)

LEMMA SelectShows ==
  ASSUME NEW sh, NEW q, NEW p, Shows(sh, q, p)
  PROVE  Shows(Selected(sh), q, p)
<1>l. PICK lo : lo = Type(sh.type)
  OBVIOUS
<1>a. PICK a : a = [op |-> "select"]
  OBVIOUS
<1>t. PICK T : T = Adapted(a, lo)
  OBVIOUS
<1>1. Piled(sh.type) /\ IsType(lo) /\ q \in Seq(Values) /\ Path(lo, sh.b, sh.e, q, Len(q), p)
  BY <1>l, ShowsSome
<1>2. a.op = "select" /\ a.op \notin Cuts
  BY <1>a DEF Cuts
<1>3. /\ IsType(T) /\ T.category = lo.category /\ Path(T, sh.b, sh.e, q, Len(q), p)
      /\ BothWays(lo, q, Len(q), p) => BothWays(T, q, Len(q), p)
  BY <1>t, <1>1, <1>2, SelectPath
<1>4. T.category = "bidirectional" /\ Clean(sh.type) =>
        BothWays(T, q, Len(q), p) /\ sh.e = p[Len(q) + 1]
  BY <1>l, <1>3, ShowsClean
<1>5. T.category = "bidirectional" /\ Clean(sh.type) =>
        /\ a.op = "take" => TakesBack(lo, sh.b, sh.e, q, Len(q), p)
        /\ a.op = "take_while" => BothWays(lo, q, Len(q), p)
        /\ a.op \notin Cuts => BothWays(T, q, Len(q), p) /\ sh.e = p[Len(q) + 1]
  BY <1>2, <1>4 DEF Cuts
<1>6. Shows(On(sh, a, sh.b, sh.e), q, p)
  BY <1>l, <1>t, <1>1, <1>3, <1>5, ShowsOn
<1> QED
  BY <1>a, <1>6 DEF Selected

\* The top of the pile is no cut.
LEMMA ShowsPlain ==
  ASSUME NEW sh, NEW lo, lo = Type(sh.type), Piled(sh.type), NEW a, a.op \notin Cuts, NEW b, NEW e,
         NEW T, T = Adapted(a, lo), IsType(T), NEW x \in Seq(Values), NEW u, Path(T, b, e, x, Len(x), u),
         T.category = "bidirectional" /\ Clean(sh.type) =>
           BothWays(T, x, Len(x), u) /\ e = u[Len(x) + 1]
  PROVE  Shows(On(sh, a, b, e), x, u)
<1>1. a.op # "take" /\ a.op # "take_while"
  BY DEF Cuts
<1>2. T.category = "bidirectional" /\ Clean(sh.type) =>
        /\ a.op = "take" => TakesBack(lo, b, e, x, Len(x), u)
        /\ a.op = "take_while" => BothWays(lo, x, Len(x), u)
        /\ a.op \notin Cuts => BothWays(T, x, Len(x), u) /\ e = u[Len(x) + 1]
  BY <1>1
<1> QED
  BY <1>2, ShowsOn

LEMMA CutNotClean ==
  ASSUME NEW t, Piled(t), Last(t).op \in Cuts
  PROVE  ~Clean(t)
<1>1. PICK S : t \in Seq(S) /\ t # <<>>
  BY DEF Piled
<1>2. Len(t) \in 1 .. Len(t)
  BY <1>1, EmptySeq
<1> QED
  BY <1>2 DEF Last, Clean

LEMMA ReverseShows ==
  ASSUME NEW sh, NEW q, NEW p, Shows(sh, q, p), Type(sh.type).category = "bidirectional",
         Open(sh.type), TopOp(sh) \notin Cuts
  PROVE  \E u : Shows(Reversed(sh), Reverse(q), u)
<1>l. PICK lo : lo = Type(sh.type)
  OBVIOUS
<1>a. PICK a : a = [op |-> "reverse"]
  OBVIOUS
<1>t. PICK T : T = Adapted(a, lo)
  OBVIOUS
<1>n. PICK n : n = Len(q)
  OBVIOUS
<1>1. Piled(sh.type) /\ IsType(lo) /\ q \in Seq(Values) /\ Path(lo, sh.b, sh.e, q, n, p)
  BY <1>l, <1>n, ShowsSome
<1>2. a.op = "reverse" /\ a.op \notin Cuts
  BY <1>a DEF Cuts
<1>3. BothWays(lo, q, n, p) /\ sh.e = p[n + 1] /\ sh.b = p[1]
  BY <1>l, <1>n, <1>1 DEF Shows, Backs, Path
<1>4. Reverse(q) \in Seq(Values) /\ Len(Reverse(q)) = n
  BY <1>n, <1>1, ReverseOf
<1>x. PICK x : x = [k \in 1 .. n |-> q[n - k + 1]]
  OBVIOUS
<1>5. x = Reverse(q)
  BY <1>n, <1>x, <1>1, ReverseOf
<1>r. \A k \in 1 .. n : x[k] = q[n - k + 1]
  BY <1>x
<1>6. IsType(T) /\ \E r : Path(T, p[n + 1], p[1], x, n, r) /\ BothWays(T, x, n, r) /\ r[n + 1] = p[1]
  <2>1. lo.category = "bidirectional"
    BY <1>l
  <2> QED
    BY <1>t, <1>r, <1>1, <1>2, <1>3, <2>1, ReversePath
<1>7. PICK r : Path(T, p[n + 1], p[1], x, n, r) /\ BothWays(T, x, n, r) /\ r[n + 1] = p[1]
  BY <1>6
<1>8. Path(T, sh.e, sh.b, x, Len(x), r) /\ x \in Seq(Values)
  BY <1>3, <1>4, <1>5, <1>7
<1>9. T.category = "bidirectional" /\ Clean(sh.type) => BothWays(T, x, Len(x), r) /\ sh.b = r[Len(x) + 1]
  BY <1>3, <1>4, <1>5, <1>7
<1>10. Shows(On(sh, a, sh.e, sh.b), x, r)
  BY <1>l, <1>t, <1>1, <1>2, <1>6, <1>8, <1>9, ShowsPlain
<1>11. Reversed(sh) = On(sh, a, sh.e, sh.b)
  BY <1>a DEF Reversed, Cuts
<1> QED
  BY <1>5, <1>10, <1>11

LEMMA ReverseTakeShows ==
  ASSUME NEW sh, NEW q, NEW p, Shows(sh, q, p), Type(sh.type).category = "bidirectional",
         Open(sh.type), TopOp(sh) = "take", Len(q) # 1
  PROVE  \E u : Shows(Reversed(sh), Reverse(q), u)
<1>y. PICK ty : ty = Type(sh.type)
  OBVIOUS
<1>l. PICK lo : lo = Type(Front(sh.type))
  OBVIOUS
<1>a. PICK a : a = [op |-> "reverse"]
  OBVIOUS
<1>t. PICK T : T = Adapted(a, ty)
  OBVIOUS
<1>n. PICK n : n = Len(q)
  OBVIOUS
<1>1. Piled(sh.type) /\ IsType(ty) /\ q \in Seq(Values) /\ Path(ty, sh.b, sh.e, q, n, p)
  BY <1>y, <1>n, ShowsSome
<1>2. a.op = "reverse" /\ a.op \notin Cuts
  BY <1>a DEF Cuts
<1>3. Last(sh.type).op = "take" /\ Last(sh.type).op \in Cuts
  BY DEF TopOp, Cuts
<1>4. TakesBack(lo, sh.b, sh.e, q, n, p)
  BY <1>l, <1>n DEF Shows, Backs
<1>5. PICK v, l, f : EndsTake(lo, sh.b, sh.e, q, n, p, v, l, f)
  BY <1>4 DEF TakesBack
<1>6. Takes(ty, lo)
  <2>1. PICK top : top = Last(sh.type)
    OBVIOUS
  <2>2. ty = Adapted(top, lo) /\ top.op = "take"
    BY <1>l, <1>y, <1>1, <1>3, <2>1, PileTop
  <2> QED
    BY <2>2, TakeAdapted
<1>7. PICK exh : exh = WalkFrom(sh)
  OBVIOUS
<1>8. exh = p[n + 1]
  <2>1. Until(ty.incr, [i \in ty.its |-> ty.same[i][sh.e]])[sh.b] = p[n + 1]
    BY <1>1, WalkAlong
  <2> QED
    BY <1>y, <1>7, <2>1 DEF WalkFrom
<1>9. PICK end : end = TakeEnd(sh)
  OBVIOUS
<1>10. end = TakeEndOf(ty, lo, sh.b, sh.e, exh)
  BY <1>l, <1>y, <1>7, <1>9 DEF TakeEnd, TakeEndOf
<1>11. p[1] = sh.b
  BY <1>1 DEF Path
<1>12. end = [base |-> v[n + 1], left |-> l + n]
  <2>1. n # 1
    BY <1>n
  <2>2. TakeEndOf(ty, lo, sh.b, sh.e, p[n + 1]) = [base |-> v[n + 1], left |-> l + n]
    BY <1>5, <1>6, <1>11, <2>1, TakeEndFound
  <2> QED
    BY <1>8, <1>10, <2>2
<1>13. Reverse(q) \in Seq(Values) /\ Len(Reverse(q)) = n
  BY <1>n, <1>1, ReverseOf
<1>x. PICK x : x = [k \in 1 .. n |-> q[n - k + 1]]
  OBVIOUS
<1>14. x = Reverse(q)
  BY <1>n, <1>x, <1>1, ReverseOf
<1>15. IsType(T) /\ \E r : Path(T, [base |-> v[n + 1], left |-> l + n], sh.b, x, n, r)
  <2>1. ty.category = "bidirectional"
    BY <1>y
  <2> QED
    BY <1>t, <1>x, <1>2, <1>5, <1>6, <2>1, ReversedTake
<1>16. PICK r : Path(T, end, sh.b, x, n, r)
  BY <1>12, <1>15
<1>17. Path(T, end, sh.b, x, Len(x), r) /\ x \in Seq(Values)
  BY <1>13, <1>14, <1>16
<1>18. T.category = "bidirectional" /\ Clean(sh.type) => BothWays(T, x, Len(x), r) /\ sh.b = r[Len(x) + 1]
  BY <1>1, <1>3, CutNotClean
<1>19. Shows(On(sh, a, end, sh.b), x, r)
  BY <1>y, <1>t, <1>1, <1>2, <1>15, <1>17, <1>18, ShowsPlain
<1>20. Reversed(sh) = On(sh, a, end, sh.b)
  BY <1>a, <1>9 DEF Reversed
<1> QED
  BY <1>14, <1>19, <1>20

LEMMA ReverseTakeWhileShows ==
  ASSUME NEW sh, NEW q, NEW p, Shows(sh, q, p), Type(sh.type).category = "bidirectional",
         Open(sh.type), TopOp(sh) = "take_while"
  PROVE  \E u : Shows(Reversed(sh), Reverse(q), u)
<1>y. PICK ty : ty = Type(sh.type)
  OBVIOUS
<1>l. PICK lo : lo = Type(Front(sh.type))
  OBVIOUS
<1>a. PICK a : a = [op |-> "reverse"]
  OBVIOUS
<1>t. PICK T : T = Adapted(a, lo)
  OBVIOUS
<1>n. PICK n : n = Len(q)
  OBVIOUS
<1>1. Piled(sh.type) /\ IsType(ty) /\ q \in Seq(Values) /\ Path(ty, sh.b, sh.e, q, n, p)
  BY <1>y, <1>n, ShowsSome
<1>2. a.op = "reverse" /\ a.op \notin Cuts
  BY <1>a DEF Cuts
<1>3. Last(sh.type).op = "take_while" /\ Last(sh.type).op \in Cuts
  BY DEF TopOp, Cuts
<1>4. BothWays(lo, q, n, p) /\ sh.b = p[1]
  BY <1>l, <1>n, <1>1 DEF Shows, Backs, Path
<1>5. IsType(lo) /\ lo.category = "bidirectional" /\ Piled(Front(sh.type))
  <2>1. PICK top : top = Last(sh.type)
    OBVIOUS
  <2>2. ty = Adapted(top, lo) /\ top.op = "take_while" /\ Piled(Front(sh.type))
    BY <1>l, <1>y, <1>1, <1>3, <2>1, PileTop
  <2>3. ty.its = lo.its /\ ty.incr = lo.incr /\ ty.decr = lo.decr /\ ty.category = lo.category
    BY <2>2, AdaptedFields, TakeWhileOps
  <2> QED
    BY <1>y, <1>1, <2>2, <2>3 DEF IsType
<1>7. PICK exh : exh = WalkFrom(sh)
  OBVIOUS
<1>8. exh = p[n + 1]
  <2>1. Until(ty.incr, [i \in ty.its |-> ty.same[i][sh.e]])[sh.b] = p[n + 1]
    BY <1>1, WalkAlong
  <2> QED
    BY <1>y, <1>7, <2>1 DEF WalkFrom
<1>13. Reverse(q) \in Seq(Values) /\ Len(Reverse(q)) = n
  BY <1>n, <1>1, ReverseOf
<1>x. PICK x : x = [k \in 1 .. n |-> q[n - k + 1]]
  OBVIOUS
<1>14. x = Reverse(q)
  BY <1>n, <1>x, <1>1, ReverseOf
<1>r. \A k \in 1 .. n : x[k] = q[n - k + 1]
  BY <1>x
<1>15. IsType(T) /\ \E r : Path(T, p[n + 1], p[1], x, n, r) /\ BothWays(T, x, n, r) /\ r[n + 1] = p[1]
  BY <1>t, <1>r, <1>2, <1>4, <1>5, ReversePath
<1>16. PICK r : Path(T, p[n + 1], p[1], x, n, r) /\ BothWays(T, x, n, r) /\ r[n + 1] = p[1]
  BY <1>15
<1>17. Path(T, exh, sh.b, x, Len(x), r) /\ x \in Seq(Values)
  BY <1>4, <1>8, <1>13, <1>14, <1>16
<1>u. PICK under : under = [type |-> Front(sh.type), b |-> sh.b, e |-> sh.e]
  OBVIOUS
<1>18. under.type = Front(sh.type)
  BY <1>u
<1>19. T.category = "bidirectional" /\ Clean(under.type) => BothWays(T, x, Len(x), r) /\ sh.b = r[Len(x) + 1]
  BY <1>4, <1>13, <1>14, <1>16
<1>20. Shows(On(under, a, exh, sh.b), x, r)
  <2>1. lo = Type(under.type) /\ Piled(under.type)
    BY <1>l, <1>5, <1>18
  <2> QED
    BY <1>t, <1>2, <1>15, <1>17, <1>19, <2>1, ShowsPlain
<1>21. Reversed(sh) = On(under, a, exh, sh.b)
  BY <1>a, <1>7, <1>18 DEF Reversed, On
<1> QED
  BY <1>14, <1>20, <1>21

LEMMA WhereShows ==
  ASSUME NEW sh, NEW q, NEW p, Shows(sh, q, p), NEW s, s.op = "where"
  PROVE  \E u : Shows(Filtered(sh, s), Picked(q, {k \in DOMAIN q : q[k] \in s.on}), u)
<1>l. PICK lo : lo = Type(sh.type)
  OBVIOUS
<1>a. PICK a : a = [op |-> s.op, on |-> Predicate(s), b |-> sh.b, e |-> sh.e]
  OBVIOUS
<1>t. PICK T : T = Adapted(a, lo)
  OBVIOUS
<1>n. PICK n : n = Len(q)
  OBVIOUS
<1>1. /\ Piled(sh.type) /\ IsType(lo) /\ q \in Seq(Values) /\ n \in Nat
      /\ Path(lo, sh.b, sh.e, q, n, p) /\ \A k \in 1 .. n : q[k] # Off
  BY <1>l, <1>n, ShowsSome
<1>2. a.op = "where" /\ a.op \notin Cuts /\ a.b = sh.b /\ a.e = sh.e /\ a.on = Predicate(s)
  BY <1>a DEF Cuts
<1>m. PICK M : M = {k \in DOMAIN q : q[k] \in s.on}
  OBVIOUS
<1>3. M \in SUBSET (1 .. n) /\ DOMAIN q = 1 .. n
  BY <1>1, <1>m, <1>n, LenProperties
<1>4. Accepted(a, q, n) = M
  <2>1. ASSUME NEW k \in 1 .. n PROVE Accepts(a, q[k]) <=> q[k] \in s.on
    BY <1>1, <1>2 DEF Accepts, Predicate
  <2> QED
    BY <1>3, <1>m, <2>1 DEF Accepted
<1>x. PICK x : x = Picked(q, M)
  OBVIOUS
<1>5. PICK sel, c : /\ PicksBy(sel, c, q, M, n) /\ x \in Seq(Values) /\ Len(x) = c
  BY <1>1, <1>3, <1>n, <1>x, PickedOf
<1>6. c \in 0 .. n /\ Selects(sel, M, n, c)
  BY <1>5 DEF PicksBy
<1>7. x = [j \in 1 .. c |-> q[sel[j]]]
  BY <1>5, <1>x DEF PicksBy
<1>w. PICK w : w = [j \in 1 .. c + 1 |-> p[sel[j]]]
  OBVIOUS
<1>8. Filters(a, lo, sh.b, sh.e, q, n, p, sel, c)
  BY <1>1, <1>2, <1>4, <1>6 DEF Filters
<1>9. IsType(T) /\ T.category = lo.category
  BY <1>t, <1>2, WhereIsType
<1>10. Path(T, SeekOn(a, lo)[sh.b], sh.e, x, c, w)
  BY <1>t, <1>w, <1>2, <1>7, <1>8, WherePath
<1>11. ASSUME T.category = "bidirectional", Clean(sh.type)
       PROVE  BothWays(T, x, Len(x), w) /\ sh.e = w[Len(x) + 1]
  <2>1. BothWays(lo, q, n, p) /\ sh.e = p[n + 1] /\ lo.category = "bidirectional"
    BY <1>l, <1>n, <1>9, <1>11, ShowsClean
  <2>2. sh.b = p[1]
    BY <1>1 DEF Path
  <2>3. Filters(a, lo, p[1], p[n + 1], q, n, p, sel, c)
    BY <1>8, <2>1, <2>2
  <2>4. a.b = p[1]
    BY <1>2, <2>2
  <2>5. BothWays(T, x, c, w)
    BY <1>t, <1>w, <1>2, <1>7, <2>1, <2>3, <2>4, WhereBothWays
  <2>6. w[c + 1] = p[n + 1]
    <3>1. c + 1 \in 1 .. c + 1
      BY <1>1, <1>6
    <3>2. sel[c + 1] = n + 1
      BY <1>6 DEF Selects
    <3> QED
      BY <1>w, <3>1, <3>2
  <2> QED
    BY <1>5, <2>1, <2>5, <2>6
<1>12. Shows(On(sh, a, SeekOn(a, lo)[sh.b], sh.e), x, w)
  <2>1. Path(T, SeekOn(a, lo)[sh.b], sh.e, x, Len(x), w) /\ x \in Seq(Values)
    BY <1>5, <1>10
  <2>2. T.category = "bidirectional" /\ Clean(sh.type) =>
          BothWays(T, x, Len(x), w) /\ sh.e = w[Len(x) + 1]
    BY <1>11
  <2> QED
    BY <1>l, <1>t, <1>1, <1>2, <1>9, <2>1, <2>2, ShowsPlain
<1>13. Filtered(sh, s) = On(sh, a, SeekOn(a, lo)[sh.b], sh.e)
  BY <1>a, <1>l DEF Filtered
<1> QED
  BY <1>m, <1>x, <1>12, <1>13

LEMMA WhereIndexedShows ==
  ASSUME NEW sh, NEW q, NEW p, Shows(sh, q, p), Type(sh.type).gives # "copies",
         NEW s, s.op = "where_indexed"
  PROVE  \E u : Shows(FilteredByIndex(sh, s), Picked(q, {k \in DOMAIN q : k - 1 \in s.on}), u)
<1>l. PICK lo : lo = Type(sh.type)
  OBVIOUS
<1>n. PICK n : n = Len(q)
  OBVIOUS
<1>1. /\ Piled(sh.type) /\ IsType(lo) /\ q \in Seq(Values) /\ n \in Nat
      /\ Path(lo, sh.b, sh.e, q, n, p) /\ \A k \in 1 .. n : q[k] \in Values
  BY <1>l, <1>n, ShowsSome
<1>i. PICK i : i = [op |-> "enumerate"]
  OBVIOUS
<1>e. PICK I : I = Adapted(i, lo)
  OBVIOUS
<1>b. PICK b, e : b = [base |-> sh.b, index |-> 0] /\ e = [base |-> sh.e, index |-> 0]
  OBVIOUS
<1>v. PICK v : v = On(sh, i, b, e)
  OBVIOUS
<1>2. Enumerated(sh) = v
  BY <1>b, <1>i, <1>v DEF Enumerated
<1>3. v.type = Append(sh.type, i) /\ v.b = b /\ v.e = e
  BY <1>v DEF On
<1>4. Piled(v.type) /\ Type(v.type) = I
  BY <1>e, <1>l, <1>1, <1>3, PileUp
<1>y. PICK y : y = [k \in 1 .. n |-> <<k - 1, q[k]>>]
  OBVIOUS
<1>r. PICK r : r = [k \in 1 .. n + 1 |-> [base |-> p[k], index |-> k - 1]]
  OBVIOUS
<1>5. /\ IsType(I) /\ I.category = "forward" /\ I.gives = lo.gives
      /\ Path(I, b, e, y, n, r)
  <2>1. i.op = "enumerate" /\ Path(lo, sh.b, sh.e, q, n, p)
    BY <1>i, <1>1
  <2>2. /\ IsType(I) /\ I.category = "forward" /\ I.gives = lo.gives
        /\ Path(I, [base |-> sh.b, index |-> 0], [base |-> sh.e, index |-> 0], y, n, r)
    BY <1>e, <1>r, <1>y, <2>1, EnumeratePath
  <2> QED
    BY <1>b, <2>2
<1>a. PICK a : a = [op |-> s.op, on |-> Predicate(s), b |-> b, e |-> e]
  OBVIOUS
<1>6. a.op = "where_indexed" /\ a.e = e /\ a.on = Predicate(s)
  BY <1>a
<1>m. PICK M : M = {k \in DOMAIN q : k - 1 \in s.on}
  OBVIOUS
<1>7. M \in SUBSET (1 .. n) /\ DOMAIN q = 1 .. n
  BY <1>1, <1>m, <1>n, LenProperties
<1>8. ASSUME NEW k \in 1 .. n
      PROVE  y[k] # Off /\ y[k] = <<k - 1, q[k]>> /\ (Accepts(a, y[k]) <=> k - 1 \in s.on)
  <2>1. k - 1 \in Nat /\ q[k] \in Values /\ y[k] = <<k - 1, q[k]>>
    BY <1>1, <1>y
  <2>2. <<k - 1, q[k]>> \in Nat \X Values /\ <<k - 1, q[k]>>[1] = k - 1
    BY <2>1
  <2>3. y[k] # Off /\ k - 1 # Off
    BY <2>1, <2>2, ValuesAssumption
  <2>4. y[k][1] \in a.on <=> k - 1 \in s.on
    BY <1>6, <2>1, <2>2, <2>3 DEF Predicate
  <2> QED
    BY <1>6, <2>1, <2>3, <2>4 DEF Accepts
<1>9. Accepted(a, y, n) = M
  BY <1>7, <1>m, <1>8 DEF Accepted
<1>x. PICK x : x = Picked(q, M)
  OBVIOUS
<1>10. PICK sel, c : /\ PicksBy(sel, c, q, M, n) /\ x \in Seq(Values) /\ Len(x) = c
                     /\ \A j \in 1 .. c : sel[j] \in 1 .. n
  BY <1>1, <1>7, <1>n, <1>x, PickedOf
<1>11. c \in 0 .. n /\ Selects(sel, M, n, c)
  BY <1>10 DEF PicksBy
<1>12. x = [j \in 1 .. c |-> q[sel[j]]]
  BY <1>10, <1>x DEF PicksBy
<1>w. PICK w : w = [j \in 1 .. c + 1 |-> r[sel[j]]]
  OBVIOUS
<1>z. PICK z : z = [j \in 1 .. c |-> y[sel[j]]]
  OBVIOUS
<1>13. Filters(a, I, b, e, y, n, r, sel, c)
  BY <1>5, <1>6, <1>8, <1>9, <1>11 DEF Filters
<1>t. PICK T : T = Adapted(a, I)
  OBVIOUS
<1>14. IsType(T) /\ T.category = "forward" /\ T.gives # "copies"
  <2>1. IsType(T) /\ T.category = I.category /\ T.gives = I.gives
    BY <1>t, <1>5, <1>6, WhereIsType
  <2> QED
    BY <1>l, <1>5, <2>1
<1>f. PICK f : f = SeekOn(a, I)[b]
  OBVIOUS
<1>15. Path(T, f, e, z, c, w)
  BY <1>f, <1>t, <1>w, <1>z, <1>6, <1>13, WherePath
<1>u. PICK u : u = On(v, a, f, e)
  OBVIOUS
<1>16. Filtered(v, s) = u
  BY <1>a, <1>f, <1>u, <1>3, <1>4 DEF Filtered
<1>17. u.type = Append(v.type, a) /\ u.b = f /\ u.e = e
  BY <1>u DEF On
<1>18. Piled(u.type) /\ Type(u.type) = T
  BY <1>t, <1>4, <1>17, PileUp
<1>g. PICK g : g = [op |-> "second"]
  OBVIOUS
<1>d. PICK D : D = Adapted(g, T)
  OBVIOUS
<1>19. \A j \in 1 .. c : x[j] = z[j][2]
  <2> TAKE j \in 1 .. c
  <2>1. sel[j] \in 1 .. n
    BY <1>10
  <2>2. y[sel[j]] = <<sel[j] - 1, q[sel[j]]>>
    BY <1>8, <2>1
  <2> QED
    BY <1>12, <1>z, <2>2
<1>20. IsType(D) /\ D.category = "forward" /\ Path(D, f, e, x, c, w)
  <2>1. g.op = "second"
    BY <1>g
  <2> QED
    BY <1>d, <1>14, <1>15, <1>19, <2>1, SecondPath
<1>21. Shows(On(u, g, f, e), x, w)
  <2>1. Path(D, f, e, x, Len(x), w) /\ x \in Seq(Values)
    BY <1>10, <1>20
  <2> QED
    BY <1>d, <1>18, <1>20, <2>1, ShowsForward
<1>22. FilteredByIndex(sh, s) = On(u, g, f, e)
  BY <1>g, <1>2, <1>16, <1>17 DEF FilteredByIndex
<1> QED
  BY <1>m, <1>x, <1>21, <1>22

LEMMA TakeShows ==
  ASSUME NEW sh, NEW q, NEW p, Shows(sh, q, p), NEW s, s.op = "take", s.n \in Int
  PROVE  \E u : Shows(Taken(sh, s), SubSeq(q, 1, Min({Magnitude(s.n), Len(q)})), u)
<1>l. PICK lo : lo = Type(sh.type)
  OBVIOUS
<1>n. PICK n : n = Len(q)
  OBVIOUS
<1>t. PICK T : T = Adapted(s, lo)
  OBVIOUS
<1>1. Piled(sh.type) /\ IsType(lo) /\ q \in Seq(Values) /\ n \in Nat /\ Path(lo, sh.b, sh.e, q, n, p)
  BY <1>l, <1>n, ShowsSome
<1>2. PICK c \in Nat : c = Magnitude(s.n)
  BY DEF Magnitude
<1>3. PICK m : m = Min({c, n})
  OBVIOUS
<1>4. m \in 0 .. n /\ m = IF c <= n THEN c ELSE n
  BY <1>1, <1>3, MinOfTwo
<1>x. PICK x : x = SubSeq(q, 1, m)
  OBVIOUS
<1>5. x \in Seq(Values) /\ Len(x) = m /\ \A k \in 1 .. m : x[k] = q[k]
  BY <1>n, <1>x, <1>1, <1>4, FirstOf
<1>b. PICK b, e : b = [base |-> sh.b, left |-> -c] /\ e = [base |-> sh.e, left |-> 0]
  OBVIOUS
<1>u. PICK u : u = Taking(p, m, c)
  OBVIOUS
<1>6. Path(T, b, e, x, m, u)
  BY <1>b, <1>t, <1>u, <1>1, <1>4, <1>5, TakePath
<1>7. IsType(T) /\ T.category = lo.category
  BY <1>t, TakeAdapted DEF Takes
<1>8. ASSUME T.category = "bidirectional", Clean(sh.type)
      PROVE  TakesBack(lo, b, e, x, m, u)
  <2>1. BothWays(lo, q, n, p) /\ sh.e = p[n + 1]
    BY <1>l, <1>n, <1>7, <1>8, ShowsClean
  <2> QED
    BY <1>b, <1>u, <1>1, <1>4, <1>5, <2>1, TakeEnds
<1>9. T.category = "bidirectional" /\ Clean(sh.type) =>
        /\ s.op = "take" => TakesBack(lo, b, e, x, Len(x), u)
        /\ s.op = "take_while" => BothWays(lo, x, Len(x), u)
        /\ s.op \notin Cuts => BothWays(T, x, Len(x), u) /\ e = u[Len(x) + 1]
  BY <1>5, <1>8 DEF Cuts
<1>10. Shows(On(sh, s, b, e), x, u)
  <2>1. Path(T, b, e, x, Len(x), u) /\ x \in Seq(Values)
    BY <1>5, <1>6
  <2> QED
    BY <1>l, <1>t, <1>1, <1>7, <1>9, <2>1, ShowsOn
<1>11. Taken(sh, s) = On(sh, s, b, e)
  BY <1>b, <1>2 DEF Taken
<1> QED
  BY <1>n, <1>x, <1>2, <1>3, <1>10, <1>11

LEMMA TakeWhileShows ==
  ASSUME NEW sh, NEW q, NEW p, Shows(sh, q, p), NEW s, s.op = "take_while"
  PROVE  \E u : Shows(TakenWhile(sh, s), SubSeq(q, 1, PrefixLength(q, s.on)), u)
<1>l. PICK lo : lo = Type(sh.type)
  OBVIOUS
<1>n. PICK n : n = Len(q)
  OBVIOUS
<1>a. PICK a : a = [op |-> "take_while", on |-> Predicate(s)]
  OBVIOUS
<1>t. PICK T : T = Adapted(a, lo)
  OBVIOUS
<1>1. /\ Piled(sh.type) /\ IsType(lo) /\ q \in Seq(Values) /\ n \in Nat /\ Path(lo, sh.b, sh.e, q, n, p)
      /\ \A k \in 1 .. n : q[k] # Off
  BY <1>l, <1>n, ShowsSome
<1>2. a.op = "take_while" /\ a.on = Predicate(s)
  BY <1>a
<1>3. PICK m : m = PrefixLength(q, s.on)
  OBVIOUS
<1>4. m \in 0 .. n /\ (\A k \in 1 .. m : q[k] \in s.on) /\ (m = n \/ q[m + 1] \notin s.on)
  BY <1>1, <1>3, <1>n, PrefixLengthIs
<1>5. (\A k \in 1 .. m : q[k] \in a.on) /\ (m = n \/ q[m + 1] \notin a.on)
  <2>1. \A k \in 1 .. n : q[k] \in a.on <=> q[k] \in s.on
    BY <1>1, <1>2 DEF Predicate
  <2>2. (\A k \in 1 .. m : k \in 1 .. n) /\ (m # n => m + 1 \in 1 .. n)
    BY <1>1, <1>4
  <2> QED
    BY <1>4, <2>1, <2>2
<1>x. PICK x : x = SubSeq(q, 1, m)
  OBVIOUS
<1>6. x \in Seq(Values) /\ Len(x) = m /\ \A k \in 1 .. m : x[k] = q[k]
  BY <1>n, <1>x, <1>1, <1>4, FirstOf
<1>7. IsType(T) /\ T.category = lo.category /\ Path(T, sh.b, sh.e, x, m, p)
  BY <1>t, <1>1, <1>2, <1>4, <1>5, <1>6, TakeWhilePath
<1>8. ASSUME T.category = "bidirectional", Clean(sh.type)
      PROVE  BothWays(lo, x, m, p)
  <2>1. BothWays(lo, q, n, p)
    BY <1>l, <1>n, <1>7, <1>8, ShowsClean
  <2> QED
    BY <1>4, <1>6, <2>1, PrefixBothWays
<1>9. T.category = "bidirectional" /\ Clean(sh.type) =>
        /\ a.op = "take" => TakesBack(lo, sh.b, sh.e, x, Len(x), p)
        /\ a.op = "take_while" => BothWays(lo, x, Len(x), p)
        /\ a.op \notin Cuts => BothWays(T, x, Len(x), p) /\ sh.e = p[Len(x) + 1]
  BY <1>2, <1>6, <1>8 DEF Cuts
<1>10. Shows(On(sh, a, sh.b, sh.e), x, p)
  <2>1. Path(T, sh.b, sh.e, x, Len(x), p) /\ x \in Seq(Values)
    BY <1>6, <1>7
  <2> QED
    BY <1>l, <1>t, <1>1, <1>7, <1>9, <2>1, ShowsOn
<1>11. TakenWhile(sh, s) = On(sh, a, sh.b, sh.e)
  BY <1>a DEF TakenWhile
<1> QED
  BY <1>x, <1>3, <1>10, <1>11

\* A view from a later first bound.
LEMMA ShowsRest ==
  ASSUME NEW sh, NEW q, NEW p, Shows(sh, q, p), NEW d \in 0 .. Len(q),
         NEW v, v = [type |-> sh.type, b |-> p[d + 1], e |-> sh.e]
  PROVE  \E u : Shows(v, SubSeq(q, d + 1, Len(q)), u)
<1>y. PICK ty : ty = Type(sh.type)
  OBVIOUS
<1>l. PICK lo : lo = Type(Front(sh.type))
  OBVIOUS
<1>n. PICK n : n = Len(q)
  OBVIOUS
<1>1. /\ Piled(sh.type) /\ IsType(ty) /\ q \in Seq(Values) /\ n \in Nat /\ Path(ty, sh.b, sh.e, q, n, p)
      /\ d \in 0 .. n
  BY <1>y, <1>n, ShowsSome
<1>2. v.type = sh.type /\ v.b = p[d + 1] /\ v.e = sh.e /\ TopOp(v) = TopOp(sh)
  BY DEF TopOp
<1>x. PICK x : x = SubSeq(q, d + 1, n)
  OBVIOUS
<1>3. x \in Seq(Values) /\ Len(x) = n - d /\ \A k \in 1 .. n - d : x[k] = q[k + d]
  BY <1>n, <1>x, <1>1, RestOf
<1>w. PICK w : w = [k \in 1 .. n - d + 1 |-> p[k + d]]
  OBVIOUS
<1>k. Trails(w, x, p, q, n, d)
  BY <1>w, <1>1, <1>3 DEF Trails
<1>4. Path(ty, p[d + 1], sh.e, x, n - d, w)
  BY <1>k, <1>1, SuffixPath
<1>5. ASSUME ty.category = "bidirectional", Open(v.type) PROVE Backs(v, x, w)
  <2>1. Backs(sh, q, p)
    BY <1>y, <1>2, <1>5 DEF Shows
  <2>2. ASSUME TopOp(sh) = "take" PROVE TakesBack(lo, v.b, v.e, x, Len(x), w)
    <3>1. TakesBack(lo, sh.b, sh.e, q, n, p)
      BY <1>l, <1>n, <2>1, <2>2 DEF Backs
    <3>2. TakesBack(lo, p[d + 1], sh.e, x, n - d, w)
      BY <1>k, <3>1, SuffixTakesBack
    <3> QED
      BY <1>2, <1>3, <3>2
  <2>3. ASSUME TopOp(sh) = "take_while" PROVE BothWays(lo, x, Len(x), w)
    <3>1. BothWays(lo, q, n, p)
      BY <1>l, <1>n, <2>1, <2>3 DEF Backs
    <3>2. BothWays(lo, x, n - d, w)
      BY <1>k, <3>1, SuffixBothWays
    <3> QED
      BY <1>3, <3>2
  <2>4. ASSUME TopOp(sh) \notin Cuts PROVE BothWays(ty, x, Len(x), w) /\ v.e = w[Len(x) + 1]
    <3>1. BothWays(ty, q, n, p) /\ sh.e = p[n + 1]
      BY <1>n, <1>y, <2>1, <2>4 DEF Backs
    <3>2. BothWays(ty, x, n - d, w)
      BY <1>k, <3>1, SuffixBothWays
    <3>3. n - d + 1 \in 1 .. n - d + 1 /\ (n - d + 1) + d = n + 1
      BY <1>1
    <3>4. w[n - d + 1] = p[n + 1]
      BY <1>w, <3>3
    <3> QED
      BY <1>2, <1>3, <3>1, <3>2, <3>4
  <2> QED
    BY <1>l, <1>y, <1>2, <2>2, <2>3, <2>4 DEF Backs
<1>6. Shows(v, x, w)
  BY <1>y, <1>1, <1>2, <1>3, <1>4, <1>5 DEF Shows
<1> QED
  BY <1>n, <1>x, <1>6

LEMMA SkipShows ==
  ASSUME NEW sh, NEW q, NEW p, Shows(sh, q, p), NEW s, s.n \in Nat
  PROVE  \E u : Shows(Skipped(sh, s), SubSeq(q, s.n + 1, Len(q)), u)
<1>y. PICK ty : ty = Type(sh.type)
  OBVIOUS
<1>n. PICK n : n = Len(q)
  OBVIOUS
<1>1. IsType(ty) /\ n \in Nat /\ Path(ty, sh.b, sh.e, q, n, p) /\ p[1] = sh.b
  BY <1>y, <1>n, ShowsSome DEF Path
<1>2. PICK c \in Nat : c = s.n
  OBVIOUS
<1>3. PICK d \in 0 .. n : d = IF c <= n THEN c ELSE n
  BY <1>1
<1>4. UpTo(c, sh.e, ty)[p[1]] = p[d + 1]
  <2>1. 1 \in 1 .. n + 1 /\ (IF 1 + c <= n + 1 THEN 1 + c ELSE n + 1) = d + 1
    BY <1>1, <1>3
  <2>2. UpTo(c, sh.e, ty)[p[1]] = p[IF 1 + c <= n + 1 THEN 1 + c ELSE n + 1]
    BY <1>1, <2>1, UpToAlong
  <2> QED
    BY <2>1, <2>2
<1>v. PICK v : v = [type |-> sh.type, b |-> p[d + 1], e |-> sh.e]
  OBVIOUS
<1>5. Skipped(sh, s) = v
  BY <1>v, <1>y, <1>1, <1>2, <1>4 DEF Skipped, SkipFrom
<1>6. SubSeq(q, d + 1, n) = SubSeq(q, c + 1, n)
  <2>1. CASE c <= n
    BY <1>3, <2>1
  <2>2. CASE ~(c <= n)
    <3>1. d + 1 \in Int /\ c + 1 \in Int /\ n \in Int /\ n < d + 1 /\ n < c + 1
      BY <1>1, <1>3, <2>2
    <3> QED
      BY <3>1, SubSeqEmpty
  <2> QED
    BY <2>1, <2>2
<1>7. \E u : Shows(v, SubSeq(q, d + 1, Len(q)), u)
  BY <1>n, <1>v, ShowsRest
<1> QED
  BY <1>n, <1>2, <1>5, <1>6, <1>7

LEMMA SkipWhileShows ==
  ASSUME NEW sh, NEW q, NEW p, Shows(sh, q, p), NEW s
  PROVE  \E u : Shows(SkippedWhile(sh, s), SubSeq(q, PrefixLength(q, s.on) + 1, Len(q)), u)
<1>y. PICK ty : ty = Type(sh.type)
  OBVIOUS
<1>n. PICK n : n = Len(q)
  OBVIOUS
<1>1. /\ IsType(ty) /\ n \in Nat /\ Path(ty, sh.b, sh.e, q, n, p) /\ p[1] = sh.b
      /\ \A k \in 1 .. n : q[k] # Off
  BY <1>y, <1>n, ShowsSome DEF Path
<1>3. PICK d : d = PrefixLength(q, s.on)
  OBVIOUS
<1>4. d \in 0 .. n /\ (\A k \in 1 .. d : q[k] \in s.on) /\ (d = n \/ q[d + 1] \notin s.on)
  BY <1>1, <1>3, <1>n, PrefixLengthIs
<1>s. PICK stop : stop = [i \in ty.its |-> ty.same[i][sh.e] \/ ty.reads[i] \notin Predicate(s)]
  OBVIOUS
<1>5. \A k \in 1 .. n + 1 : p[k] \in ty.its
  BY <1>1 DEF Path
<1>6. ASSUME NEW k \in 1 .. n
      PROVE  stop[p[k]] <=> q[k] \notin s.on
  <2>1. k \in 1 .. n + 1
    BY <1>1
  <2>2. ~ty.same[p[k]][sh.e] /\ ty.reads[p[k]] = q[k] /\ p[k] \in ty.its
    BY <1>1, <1>5, <2>1 DEF Path
  <2>3. q[k] \in Predicate(s) <=> q[k] \in s.on
    BY <1>1 DEF Predicate
  <2> QED
    BY <1>s, <2>2, <2>3
<1>7. \A k \in 1 .. (d + 1) - 1 : ~stop[p[k]]
  <2>1. \A k \in 1 .. (d + 1) - 1 : k \in 1 .. d /\ k \in 1 .. n
    BY <1>1, <1>4
  <2> QED
    BY <1>4, <1>6, <2>1
<1>8. stop[p[d + 1]]
  <2>1. CASE d = n
    <3>1. p[n + 1] \in ty.its /\ ty.same[p[n + 1]][sh.e]
      BY <1>1 DEF Path
    <3> QED
      BY <1>s, <2>1, <3>1
  <2>2. CASE d # n
    <3>1. d + 1 \in 1 .. n
      BY <1>1, <1>4, <2>2
    <3> QED
      BY <1>4, <1>6, <2>2, <3>1
  <2> QED
    BY <2>1, <2>2
<1>9. Until(ty.incr, stop)[p[1]] = p[d + 1]
  <2>1. 1 \in 1 .. n + 1 /\ d + 1 \in 1 .. n + 1
    BY <1>1, <1>4
  <2> QED
    BY <1>1, <1>7, <1>8, <2>1, LoopAlong
<1>v. PICK v : v = [type |-> sh.type, b |-> p[d + 1], e |-> sh.e]
  OBVIOUS
<1>10. SkippedWhile(sh, s) = v
  BY <1>s, <1>v, <1>y, <1>1, <1>9 DEF SkippedWhile, SkipWhileFrom
<1>11. \E u : Shows(v, SubSeq(q, d + 1, Len(q)), u)
  BY <1>n, <1>v, <1>4, ShowsRest
<1> QED
  BY <1>n, <1>3, <1>10, <1>11

LEMMA AppendShows ==
  ASSUME NEW sh, NEW q, NEW p, Shows(sh, q, p)
  PROVE  \E u : Shows(Appended(sh), Append(q, Extra), u)
<1>l. PICK lo : lo = Type(sh.type)
  OBVIOUS
<1>n. PICK n : n = Len(q)
  OBVIOUS
<1>a. PICK a : a = [op |-> "append", e |-> sh.e]
  OBVIOUS
<1>t. PICK T : T = Adapted(a, lo)
  OBVIOUS
<1>1. Piled(sh.type) /\ q \in Seq(Values) /\ n \in Nat /\ Path(lo, sh.b, sh.e, q, n, p)
  BY <1>l, <1>n, ShowsSome
<1>x. PICK x : x = Append(q, Extra)
  OBVIOUS
<1>2. x \in Seq(Values) /\ Len(x) = n + 1 /\ (\A k \in 1 .. n : x[k] = q[k]) /\ x[n + 1] = Extra
  <2>1. Extra \in Values
    BY DEF Values
  <2> QED
    BY <1>n, <1>x, <1>1, <2>1, AppendProperties
<1>3. PICK l : l = IF lo.same[sh.b][sh.e] THEN "value" ELSE "base"
  OBVIOUS
<1>4. a.op = "append" /\ a.e = sh.e
  BY <1>a
<1>b. PICK b, e : b = Joint(sh.b, 0, l) /\ e = Joint(sh.e, 1, "value")
  OBVIOUS
<1>5. IsType(T) /\ T.category = "forward" /\ \E u : Path(T, b, e, x, n + 1, u)
  <2>1. Lies(a, T, lo, sh.b, sh.e, q, n, p) /\ ExtraLast(x, q, n)
    BY <1>t, <1>1, <1>2, <1>4 DEF Lies, ExtraLast
  <2>2. /\ IsType(T) /\ T.category = "forward"
        /\ \E u : Path(T, Joint(sh.b, 0, l), Joint(sh.e, 1, "value"), x, n + 1, u)
    BY <1>3, <1>4, <2>1, AppendPath
  <2> QED
    BY <1>b, <2>2
<1>6. PICK u : Path(T, b, e, x, Len(x), u)
  BY <1>2, <1>5
<1>7. Shows(On(sh, a, b, e), x, u)
  BY <1>l, <1>t, <1>1, <1>2, <1>5, <1>6, ShowsForward
<1>8. Appended(sh) = On(sh, a, b, e)
  BY <1>a, <1>b, <1>l, <1>3 DEF Appended, Joint
<1> QED
  BY <1>x, <1>7, <1>8

LEMMA PrependShows ==
  ASSUME NEW sh, NEW q, NEW p, Shows(sh, q, p)
  PROVE  \E u : Shows(Prepended(sh), <<Extra>> \o q, u)
<1>l. PICK lo : lo = Type(sh.type)
  OBVIOUS
<1>n. PICK n : n = Len(q)
  OBVIOUS
<1>a. PICK a : a = [op |-> "prepend", e |-> sh.e]
  OBVIOUS
<1>t. PICK T : T = Adapted(a, lo)
  OBVIOUS
<1>1. Piled(sh.type) /\ q \in Seq(Values) /\ n \in Nat /\ Path(lo, sh.b, sh.e, q, n, p)
  BY <1>l, <1>n, ShowsSome
<1>x. PICK x : x = <<Extra>> \o q
  OBVIOUS
<1>2. x \in Seq(Values) /\ Len(x) = n + 1 /\ x[1] = Extra /\ \A k \in 1 .. n : x[k + 1] = q[k]
  <2>1. PICK o : o = <<Extra>>
    OBVIOUS
  <2>2. o \in Seq(Values) /\ Len(o) = 1 /\ o[1] = Extra
    BY <2>1 DEF Values
  <2>3. /\ o \o q \in Seq(Values) /\ Len(o \o q) = Len(o) + Len(q)
        /\ \A i \in 1 .. Len(o) + Len(q) : (o \o q)[i] = IF i <= Len(o) THEN o[i] ELSE q[i - Len(o)]
    BY <1>1, <2>2, ConcatProperties
  <2>4. x[1] = Extra
    <3>1. 1 \in 1 .. Len(o) + Len(q) /\ 1 <= Len(o)
      BY <1>1, <1>n, <2>2
    <3> QED
      BY <1>x, <2>1, <2>2, <2>3, <3>1
  <2>5. ASSUME NEW k \in 1 .. n PROVE x[k + 1] = q[k]
    <3>1. k + 1 \in 1 .. Len(o) + Len(q) /\ ~(k + 1 <= Len(o)) /\ (k + 1) - Len(o) = k
      BY <1>1, <1>n, <2>2
    <3> QED
      BY <1>x, <2>1, <2>3, <3>1
  <2> QED
    BY <1>1, <1>n, <1>x, <2>1, <2>2, <2>3, <2>4, <2>5
<1>4. a.op = "prepend" /\ a.e = sh.e
  BY <1>a
<1>b. PICK b, e : b = Joint(sh.b, 0, "value") /\ e = Joint(sh.e, 1, "base")
  OBVIOUS
<1>5. IsType(T) /\ T.category = "forward" /\ \E u : Path(T, b, e, x, n + 1, u)
  <2>1. Lies(a, T, lo, sh.b, sh.e, q, n, p) /\ ExtraFirst(x, q, n)
    BY <1>t, <1>1, <1>2, <1>4 DEF Lies, ExtraFirst
  <2>2. /\ IsType(T) /\ T.category = "forward"
        /\ \E u : Path(T, Joint(sh.b, 0, "value"), Joint(sh.e, 1, "base"), x, n + 1, u)
    BY <1>4, <2>1, PrependPath
  <2> QED
    BY <1>b, <2>2
<1>6. PICK u : Path(T, b, e, x, Len(x), u)
  BY <1>2, <1>5
<1>7. Shows(On(sh, a, b, e), x, u)
  BY <1>l, <1>t, <1>1, <1>2, <1>5, <1>6, ShowsForward
<1>8. Prepended(sh) = On(sh, a, b, e)
  BY <1>a, <1>b DEF Prepended, Joint
<1> QED
  BY <1>x, <1>7, <1>8

LEMMA DefaultShows ==
  ASSUME NEW sh, NEW q, NEW p, Shows(sh, q, p)
  PROVE  \E u : Shows(OrDefault(sh), IF q = <<>> THEN <<Extra>> ELSE q, u)
<1>l. PICK lo : lo = Type(sh.type)
  OBVIOUS
<1>n. PICK n : n = Len(q)
  OBVIOUS
<1>a. PICK a : a = [op |-> "default_if_empty", e |-> sh.e]
  OBVIOUS
<1>t. PICK T : T = Adapted(a, lo)
  OBVIOUS
<1>1. Piled(sh.type) /\ q \in Seq(Values) /\ n \in Nat /\ Path(lo, sh.b, sh.e, q, n, p)
  BY <1>l, <1>n, ShowsSome
<1>2. a.op = "default_if_empty" /\ a.e = sh.e
  BY <1>a
<1>3. IsType(T) /\ T.category = "forward"
  BY <1>t, <1>2, DefaultIsType
<1>p. Lies(a, T, lo, sh.b, sh.e, q, n, p)
  BY <1>t, <1>1, <1>2 DEF Lies
<1>e. PICK e : e = Filled(sh.e, 2)
  OBVIOUS
<1>4. q = <<>> <=> n = 0
  BY <1>n, <1>1, EmptySeq
<1>5. CASE n = 0
  <2>x. PICK x : x = <<Extra>>
    OBVIOUS
  <2>1. x \in Seq(Values) /\ Len(x) = 1 /\ x[1] = Extra
    BY <2>x DEF Values
  <2>2. lo.same[sh.b][sh.e] /\ \E u : Path(T, Filled(sh.b, 1), e, x, 1, u)
    <3>1. lo.same[sh.b][sh.e] /\ \E u : Path(T, Filled(sh.b, 1), Filled(sh.e, 2), x, 1, u)
      BY <1>p, <1>2, <1>5, <2>1, DefaultEmptyPath
    <3> QED
      BY <1>e, <3>1
  <2>3. PICK u : Path(T, Filled(sh.b, 1), e, x, Len(x), u)
    BY <2>1, <2>2
  <2>4. Shows(On(sh, a, Filled(sh.b, 1), e), x, u)
    BY <1>l, <1>t, <1>1, <1>3, <2>1, <2>3, ShowsForward
  <2>5. OrDefault(sh) = On(sh, a, Filled(sh.b, 1), e)
    BY <1>a, <1>e, <1>l, <2>2 DEF OrDefault, Filled
  <2> QED
    BY <1>4, <1>5, <2>x, <2>4, <2>5
<1>6. CASE n # 0
  <2>2. ~lo.same[sh.b][sh.e] /\ \E u : Path(T, Filled(sh.b, 0), e, q, n, u)
    <3>1. ~lo.same[sh.b][sh.e] /\ \E u : Path(T, Filled(sh.b, 0), Filled(sh.e, 2), q, n, u)
      BY <1>p, <1>2, <1>6, DefaultPath
    <3> QED
      BY <1>e, <3>1
  <2>3. PICK u : Path(T, Filled(sh.b, 0), e, q, Len(q), u)
    BY <1>n, <2>2
  <2>4. Shows(On(sh, a, Filled(sh.b, 0), e), q, u)
    BY <1>l, <1>t, <1>1, <1>3, <2>3, ShowsForward
  <2>5. OrDefault(sh) = On(sh, a, Filled(sh.b, 0), e)
    BY <1>a, <1>e, <1>l, <2>2 DEF OrDefault, Filled
  <2> QED
    BY <1>4, <1>6, <2>4, <2>5
<1> QED
  BY <1>5, <1>6

LEMMA StrideShows ==
  ASSUME NEW sh, NEW q, NEW p, Shows(sh, q, p), NEW s, s.n \in Nat, s.n # 0
  PROVE  \E u : Shows(Strided(sh, s), EachNth(q, s.n), u)
<1>l. PICK lo : lo = Type(sh.type)
  OBVIOUS
<1>n. PICK n : n = Len(q)
  OBVIOUS
<1>m. PICK m : m = s.n
  OBVIOUS
<1>a. PICK a : a = [op |-> "stride", n |-> m, e |-> sh.e]
  OBVIOUS
<1>t. PICK T : T = Adapted(a, lo)
  OBVIOUS
<1>1. /\ Piled(sh.type) /\ IsType(lo) /\ q \in Seq(Values) /\ n \in Nat /\ Path(lo, sh.b, sh.e, q, n, p)
      /\ \A k \in 1 .. n : q[k] \in Values
  BY <1>l, <1>n, ShowsSome
<1>2. m \in Nat /\ m >= 1
  BY <1>m
<1>c. PICK c : c = (n + m - 1) \div m
  OBVIOUS
<1>x. PICK x : x = [k \in 1 .. c |-> q[(k - 1) * m + 1]]
  OBVIOUS
<1>3. c \in Nat /\ \A k \in Nat : k < c <=> k * m < n
  BY <1>c, <1>1, <1>2, MultiplesCounted
<1>4. Strides(x, c, q, n, m)
  BY <1>x, <1>3 DEF Strides
<1>5. ASSUME NEW k \in 1 .. c PROVE q[(k - 1) * m + 1] \in Values
  <2>0. c \in Nat
    BY <1>3
  <2>1. k - 1 \in Nat /\ k - 1 < c
    BY <2>0
  <2>2. (k - 1) * m < n
    BY <1>3, <2>1
  <2>3. (k - 1) * m \in Nat
    BY <1>2, <2>1
  <2>4. PICK y \in Nat : y = (k - 1) * m
    BY <2>3
  <2>5. y + 1 \in 1 .. n
    <3>1. n \in Nat
      BY <1>1
    <3> QED
      BY <2>2, <2>4, <3>1
  <2> QED
    BY <1>1, <2>4, <2>5
<1>6. x \in Seq(Values) /\ Len(x) = c
  <2>1. x \in [1 .. c -> Values]
    BY <1>x, <1>5
  <2>2. c \in Nat
    BY <1>3
  <2> QED
    BY <2>1, <2>2
<1>7. IsType(T) /\ T.category = "forward" /\ \E u : Path(T, sh.b, sh.e, x, c, u)
  <2>1. a.op = "stride" /\ a.n = m /\ a.e = sh.e
    BY <1>a
  <2>2. Lies(a, T, lo, sh.b, sh.e, q, n, p)
    BY <1>t, <1>1, <2>1 DEF Lies
  <2> QED
    BY <1>1, <1>2, <1>4, <2>1, <2>2, StridePath
<1>8. PICK u : Path(T, sh.b, sh.e, x, Len(x), u)
  BY <1>6, <1>7
<1>9. Shows(On(sh, a, sh.b, sh.e), x, u)
  BY <1>l, <1>t, <1>1, <1>6, <1>7, <1>8, ShowsForward
<1>10. Strided(sh, s) = On(sh, a, sh.b, sh.e)
  BY <1>a, <1>m DEF Strided
<1>11. x = EachNth(q, s.n)
  BY <1>c, <1>m, <1>n, <1>x DEF EachNth
<1> QED
  BY <1>9, <1>10, <1>11

(* The source of a view shows its elements. *)

LEMMA SourceShows ==
  ASSUME NEW s \in Sources,
         NEW sh, sh = [type |-> <<[op |-> s]>>, b |-> At(1), e |-> At(Len(Elements(s)) + 1)]
  PROVE  \E p : Shows(sh, Elements(s), p)
<1>a. PICK a : a = [op |-> s]
  OBVIOUS
<1>t. PICK t : t = <<a>>
  OBVIOUS
<1>y. PICK ty : ty = SourceType(s)
  OBVIOUS
<1>q. PICK q : q = Elements(s)
  OBVIOUS
<1>n. PICK n : n = Len(q)
  OBVIOUS
<1>1. /\ q \in Seq(Values) /\ n \in 0 .. Length + 1 /\ Length \in Nat
      /\ s = "empty" => n = 0
  BY <1>n, <1>q, ElementsAre, ValuesAssumption
<1>2. sh.type = t /\ sh.b = At(1) /\ sh.e = At(n + 1)
  BY <1>a, <1>t, <1>n, <1>q
<1>3. a.op = s /\ s \notin Cuts
  BY <1>a DEF Cuts, Sources
<1>4. Piled(t)
  <2>1. PICK S : S = {a}
    OBVIOUS
  <2>2. t \in Seq(S) /\ t # <<>> /\ t[1] = a
    BY <1>t, <2>1
  <2> QED
    BY <1>3, <2>2 DEF Piled
<1>5. Type(t) = ty /\ TopOp(sh) = s
  <2>1. Type(t) = SourceType(a.op)
    BY <1>t, TypeSource
  <2>2. Len(t) = 1 /\ t[1] = a
    BY <1>t
  <2> QED
    BY <1>2, <1>3, <1>y, <2>1, <2>2 DEF TopOp, Last
<1>6. ASSUME NEW k \in 0 .. Length + 2 PROVE At(k) \in ty.its /\ At(k).at = k
  BY <1>y DEF SourceType, At
<1>7. /\ ty.incr = [i \in ty.its |-> SourceIncr(i)] /\ ty.decr = [i \in ty.its |-> SourceDecr(i)]
      /\ ty.category = "bidirectional" <=> s = "from"
  BY <1>y DEF SourceType
<1>8. /\ \A i \in ty.its : ty.reads[i] = SourceReads(s, i)
      /\ \A i, j \in ty.its : ty.same[i][j] <=> SourceSame(s, i, j)
  BY <1>y DEF SourceType
<1>9. IsType(ty)
  BY <1>7 DEF IsType
<1>p. PICK p : p = [k \in 1 .. n + 1 |-> At(k)]
  OBVIOUS
<1>10. ASSUME NEW k \in 1 .. n + 1
       PROVE  p[k] = At(k) /\ p[k] \in ty.its /\ p[k].at = k /\ k \in 0 .. Length + 2
  <2>1. k \in 0 .. Length + 2
    BY <1>1
  <2> QED
    BY <1>p, <1>6, <2>1
<1>11. ASSUME NEW k \in 1 .. n
       PROVE  ty.reads[p[k]] = q[k] /\ ty.incr[p[k]] = p[k + 1] /\ ty.decr[p[k + 1]] = p[k]
  <2>1. k \in 1 .. n + 1 /\ k + 1 \in 1 .. n + 1 /\ k < Length + 2 /\ k + 1 > 0 /\ (k + 1) - 1 = k
    BY <1>1
  <2>2. ty.incr[p[k]] = At(k + 1)
    BY <1>7, <1>10, <2>1 DEF SourceIncr
  <2>3. ty.decr[p[k + 1]] = At(k)
    BY <1>7, <1>10, <2>1 DEF SourceDecr
  <2>4. k \in DOMAIN q
    BY <1>1, <1>n, LenProperties
  <2>5. ty.reads[p[k]] = q[k]
    BY <1>8, <1>10, <1>q, <2>1, <2>4 DEF SourceReads
  <2> QED
    BY <1>10, <2>1, <2>2, <2>3, <2>5
<1>12. ASSUME NEW j \in 1 .. n + 1, NEW k \in 1 .. n + 1 PROVE ty.same[p[j]][p[k]] <=> j = k
  <2>1. p[j] = p[k] <=> j = k
    BY <1>10
  <2>2. s = "empty" => j = k
    <3>1. n = 0 => j = 1 /\ k = 1
      OBVIOUS
    <3> QED
      BY <1>1, <3>1
  <2> QED
    BY <1>8, <1>10, <2>1, <2>2 DEF SourceSame
<1>13. BothWays(ty, q, n, p)
  BY <1>1, <1>10, <1>11, <1>12 DEF BothWays
<1>14. p[1] = At(1) /\ p[n + 1] = At(n + 1) /\ n + 1 \in 1 .. n + 1
  BY <1>1, <1>10
<1>15. Path(ty, At(1), At(n + 1), q, n, p)
  <2>1. \A k \in 1 .. n : k \in 1 .. n + 1 /\ k # n + 1
    BY <1>1
  <2>2. \A k \in 1 .. n : ~ty.same[p[k]][p[n + 1]]
    BY <1>12, <1>14, <2>1
  <2>3. ty.same[p[n + 1]][p[n + 1]] /\ p[n + 1] \in ty.its
    BY <1>10, <1>12, <1>14
  <2> QED
    BY <1>1, <1>10, <1>11, <1>14, <2>2, <2>3 DEF Path
<1>16. Backs(sh, q, p)
  <2>1. TopOp(sh) # "take" /\ TopOp(sh) # "take_while"
    BY <1>3, <1>5 DEF Cuts
  <2> QED
    BY <1>2, <1>5, <1>13, <1>14, <1>n, <2>1 DEF Backs
<1>17. Shows(sh, q, p)
  BY <1>1, <1>2, <1>4, <1>5, <1>9, <1>15, <1>16, <1>n DEF Shows
<1> QED
  BY <1>q, <1>17

(* Every stage but where it goes wrong. *)

LEMMA StageIs ==
  ASSUME NEW s \in ViewStages
  PROVE  /\ s.op \in {"select", "where", "where_indexed", "take", "take_while", "skip", "skip_while",
                      "reverse", "append", "prepend", "default_if_empty", "stride"}
         /\ s.op = "take" => s.n \in Int
         /\ s.op = "skip" => s.n \in Nat
         /\ s.op = "stride" => s.n \in Nat /\ s.n # 0
<1>1. CASE s \in [op : {"select", "reverse", "append", "prepend", "default_if_empty"}]
  BY <1>1
<1>2. CASE s \in [op : {"where", "where_indexed", "take_while", "skip_while"}, on : SUBSET (Values \cup Nat)]
  BY <1>2
<1>3. CASE s \in [op : {"take"}, n : Int]
  BY <1>3
<1>4. CASE s \in [op : {"skip"}, n : Nat]
  BY <1>4
<1>5. CASE s \in [op : {"stride"}, n : Nat \ {0}]
  BY <1>5
<1> QED
  BY <1>1, <1>2, <1>3, <1>4, <1>5, StagesAssumption

\* Where reverse and where_indexed do not go wrong.
Allowed(sh, q, s) ==
  /\ s.op = "reverse" =>
       /\ Type(sh.type).category = "bidirectional" /\ Open(sh.type)
       /\ ~(TopOp(sh) = "take" /\ Len(q) = 1)
  /\ s.op = "where_indexed" => Type(sh.type).gives # "copies"

LEMMA StageShows ==
  ASSUME NEW sh, NEW q, NEW p, Shows(sh, q, p), NEW s \in ViewStages, Allowed(sh, q, s)
  PROVE  \E u : Shows(StagedOn(sh, s), Asked(q, s), u)
<1>1. CASE s.op = "select"
  <2>1. StagedOn(sh, s) = Selected(sh) /\ Asked(q, s) = q
    BY <1>1 DEF StagedOn, Asked
  <2> QED
    BY <2>1, SelectShows
<1>2. CASE s.op = "where"
  <2>1. StagedOn(sh, s) = Filtered(sh, s) /\ Asked(q, s) = Picked(q, {k \in DOMAIN q : q[k] \in s.on})
    BY <1>2 DEF StagedOn, Asked
  <2> QED
    BY <1>2, <2>1, WhereShows
<1>3. CASE s.op = "where_indexed"
  <2>1. /\ StagedOn(sh, s) = FilteredByIndex(sh, s)
        /\ Asked(q, s) = Picked(q, {k \in DOMAIN q : k - 1 \in s.on})
    BY <1>3 DEF StagedOn, Asked
  <2>2. Type(sh.type).gives # "copies"
    BY <1>3 DEF Allowed
  <2> QED
    BY <1>3, <2>1, <2>2, WhereIndexedShows
<1>4. CASE s.op = "take"
  <2>1. StagedOn(sh, s) = Taken(sh, s) /\ Asked(q, s) = SubSeq(q, 1, Min({Magnitude(s.n), Len(q)}))
    BY <1>4 DEF StagedOn, Asked
  <2> QED
    BY <1>4, <2>1, StageIs, TakeShows
<1>5. CASE s.op = "take_while"
  <2>1. StagedOn(sh, s) = TakenWhile(sh, s) /\ Asked(q, s) = SubSeq(q, 1, PrefixLength(q, s.on))
    BY <1>5 DEF StagedOn, Asked
  <2> QED
    BY <1>5, <2>1, TakeWhileShows
<1>6. CASE s.op = "skip"
  <2>1. StagedOn(sh, s) = Skipped(sh, s) /\ Asked(q, s) = SubSeq(q, s.n + 1, Len(q))
    BY <1>6 DEF StagedOn, Asked
  <2> QED
    BY <1>6, <2>1, StageIs, SkipShows
<1>7. CASE s.op = "skip_while"
  <2>1. StagedOn(sh, s) = SkippedWhile(sh, s) /\ Asked(q, s) = SubSeq(q, PrefixLength(q, s.on) + 1, Len(q))
    BY <1>7 DEF StagedOn, Asked
  <2> QED
    BY <2>1, SkipWhileShows
<1>8. CASE s.op = "reverse"
  <2>1. StagedOn(sh, s) = Reversed(sh) /\ Asked(q, s) = Reverse(q)
    BY <1>8 DEF StagedOn, Asked
  <2>2. /\ Type(sh.type).category = "bidirectional" /\ Open(sh.type)
        /\ TopOp(sh) = "take" => Len(q) # 1
    BY <1>8 DEF Allowed
  <2>3. TopOp(sh) = "take" \/ TopOp(sh) = "take_while" \/ TopOp(sh) \notin Cuts
    BY DEF Cuts
  <2> QED
    BY <2>1, <2>2, <2>3, ReverseShows, ReverseTakeShows, ReverseTakeWhileShows
<1>9. CASE s.op = "append"
  <2>1. StagedOn(sh, s) = Appended(sh) /\ Asked(q, s) = Append(q, Extra)
    BY <1>9 DEF StagedOn, Asked
  <2> QED
    BY <2>1, AppendShows
<1>10. CASE s.op = "prepend"
  <2>1. StagedOn(sh, s) = Prepended(sh) /\ Asked(q, s) = <<Extra>> \o q
    BY <1>10 DEF StagedOn, Asked
  <2> QED
    BY <2>1, PrependShows
<1>11. CASE s.op = "default_if_empty"
  <2>1. StagedOn(sh, s) = OrDefault(sh) /\ Asked(q, s) = IF q = <<>> THEN <<Extra>> ELSE q
    BY <1>11 DEF StagedOn, Asked
  <2> QED
    BY <2>1, DefaultShows
<1>12. CASE s.op = "stride"
  <2>1. StagedOn(sh, s) = Strided(sh, s) /\ Asked(q, s) = EachNth(q, s.n)
    BY <1>12 DEF StagedOn, Asked
  <2> QED
    BY <1>12, <2>1, StageIs, StrideShows
<1> QED
  BY <1>1, <1>2, <1>3, <1>4, <1>5, <1>6, <1>7, <1>8, <1>9, <1>10, <1>11, <1>12, StageIs

-----------------------------------------------------------------------------
(* The loops over a view of views. *)

\* Where a loop is on the path p of the view, and what it has read.
Looping(p) ==
  /\ mode = "calls" => cur = p[1] /\ out = <<>>
  /\ mode = "fold" => \E k \in 1 .. Len(asked) + 1 : cur = p[k] /\ out = SubSeq(asked, 1, k - 1)
  /\ mode = "folded" => out = asked
  /\ mode = "walk" => \E k \in 1 .. Len(asked) : cur = p[k]
  /\ mode = "read last" =>
       \/ Type(shape.type).category = "bidirectional" /\ ~Clean(shape.type)
       \/ asked # <<>> /\ out = <<Last(asked)>>
  /\ mode = "no last" => asked = <<>>

ViewInv == Faithful => \E p : Shows(shape, asked, p) /\ Looping(p)

LEMMA AlongView ==
  ASSUME NEW p, Shows(shape, asked, p), NEW n, n = Len(asked)
  PROVE  /\ asked \in Seq(Values) /\ n \in Nat /\ p[1] = shape.b
         /\ Type(shape.type).same[p[n + 1]][shape.e]
         /\ \A k \in 1 .. n : /\ ~Type(shape.type).same[p[k]][shape.e]
                              /\ Type(shape.type).reads[p[k]] = asked[k]
                              /\ Type(shape.type).incr[p[k]] = p[k + 1]
BY ShowsSome DEF Path

LEMMA ReadOne ==
  ASSUME NEW q \in Seq(Values), NEW k \in 1 .. Len(q)
  PROVE  Append(SubSeq(q, 1, k - 1), q[k]) = SubSeq(q, 1, k)
<1>1. PICK n \in Nat : n = Len(q)
  OBVIOUS
<1>2. k \in Int /\ k - 1 \in 0 .. n /\ k \in 0 .. n /\ (k - 1) + 1 = k
  BY <1>1
<1>3. PICK u : u = SubSeq(q, 1, k - 1)
  OBVIOUS
<1>4. PICK v : v = SubSeq(q, 1, k)
  OBVIOUS
<1>5. u \in Seq(Values) /\ Len(u) = k - 1 /\ \A j \in 1 .. k - 1 : u[j] = q[j]
  BY <1>1, <1>2, <1>3
<1>6. v \in Seq(Values) /\ Len(v) = k /\ \A j \in 1 .. k : v[j] = q[j]
  BY <1>1, <1>2, <1>4
<1>7. q[k] \in Values
  OBVIOUS
<1>8. PICK w : w = Append(u, q[k])
  OBVIOUS
<1>9. /\ w \in Seq(Values) /\ Len(w) = k /\ w[k] = q[k]
      /\ \A j \in 1 .. k - 1 : w[j] = u[j]
  BY <1>2, <1>5, <1>7, <1>8, AppendProperties
<1>10. ASSUME NEW j \in 1 .. k PROVE w[j] = v[j]
  <2>1. j = k \/ j \in 1 .. k - 1
    BY <1>2
  <2> QED
    BY <1>5, <1>6, <1>9, <2>1
<1>11. w = v
  BY <1>6, <1>9, <1>10, SeqEqual
<1> QED
  BY <1>3, <1>4, <1>8, <1>11

LEMMA ViewInvInit ==
  ASSUME ViewInit
  PROVE  ViewInv
<1>1. PICK s \in Sources :
        /\ shape = [type |-> <<[op |-> s]>>, b |-> At(1), e |-> At(Len(Elements(s)) + 1)]
        /\ asked = Elements(s)
  BY DEF ViewInit
<1>2. PICK p : Shows(shape, asked, p)
  BY <1>1, SourceShows
<1>3. p[1] = shape.b
  BY <1>2, AlongView
<1>4. Looping(p)
  BY <1>3 DEF ViewInit, Looping
<1> QED
  BY <1>2, <1>4 DEF ViewInv

\* A call that does not go wrong.
LEMMA NotAstray ==
  ASSUME NEW s, Strays(s) = {}, s.op = "reverse" => Type(shape.type).category = "bidirectional"
  PROVE  Allowed(shape, asked, s)
<1>1. ~Dangles(s)
  <2>1. "dangles" \in {"dangles", "hidden", "one"}
    OBVIOUS
  <2>2. Dangles(s) => "dangles" \in Strays(s)
    BY <2>1 DEF Strays
  <2> QED
    BY <2>2
<1>2. ~ReversesHidden(s)
  <2>1. ReversesHidden(s) => "hidden" \in Strays(s)
    BY DEF Strays
  <2> QED
    BY <2>1
<1>3. ~ReversesOne(s)
  <2>1. ReversesOne(s) => "one" \in Strays(s)
    BY DEF Strays
  <2> QED
    BY <2>1
<1>4. s.op = "reverse" => Open(shape.type)
  BY <1>2 DEF ReversesHidden, Open, Cuts
<1> QED
  BY <1>1, <1>3, <1>4 DEF Allowed, Dangles, ReversesOne

LEMMA ViewInvCall ==
  ASSUME ViewInv, NEW s \in ViewStages, CallStage(s)
  PROVE  ViewInv'
<1>1. SUFFICES ASSUME Faithful' PROVE \E u : (Shows(shape, asked, u) /\ Looping(u))'
  BY DEF ViewInv
<1>2. Strays(s) = {} /\ Faithful /\ mode = "calls"
  BY <1>1 DEF Faithful, CallStage
<1>3. PICK p : Shows(shape, asked, p) /\ Looping(p)
  BY <1>2 DEF ViewInv
<1>4. Allowed(shape, asked, s)
  BY <1>2, NotAstray DEF CallStage
<1>5. PICK u : Shows(StagedOn(shape, s), Asked(asked, s), u)
  BY <1>3, <1>4, StageShows
<1>6. Shows(shape', asked', u)
  BY <1>5 DEF CallStage
<1>7. u[1] = shape'.b
  BY <1>6, ShowsSome DEF Path
<1>8. out = <<>>
  BY <1>2, <1>3 DEF Looping
<1>9. mode' = "calls" /\ cur' = u[1] /\ out' = <<>>
  BY <1>2, <1>7, <1>8 DEF CallStage
<1>10. Looping(u)'
  BY <1>9 DEF Looping
<1> QED
  BY <1>6, <1>10

\* What a step of a loop leaves alone.
LEMMA SameView ==
  ASSUME ViewInv, shape' = shape, asked' = asked, astray' = astray,
         \A p : Shows(shape, asked, p) /\ Looping(p) => Looping(p)'
  PROVE  ViewInv'
<1>1. SUFFICES ASSUME Faithful' PROVE \E p : (Shows(shape, asked, p) /\ Looping(p))'
  BY DEF ViewInv
<1>2. Faithful /\ shape' = shape /\ asked' = asked
  BY <1>1 DEF Faithful
<1>3. PICK p : Shows(shape, asked, p) /\ Looping(p)
  BY <1>2 DEF ViewInv
<1>4. Shows(shape', asked', p)
  BY <1>2, <1>3
<1> QED
  BY <1>3, <1>4

LEMMA ViewInvLoop ==
  ASSUME ViewInv, Fold \/ Read \/ MeetEnd \/ LastBack \/ LastWalk \/ LastThrows \/ Leave
  PROVE  ViewInv'
<1>0. shape' = shape /\ asked' = asked /\ astray' = astray
  BY DEF ofView, ViewType, AtEnd, Fold, Read, MeetEnd, LastBack, LastWalk, LastThrows, Leave
<1>. SUFFICES ASSUME NEW p, Shows(shape, asked, p), Looping(p) PROVE Looping(p)'
  BY <1>0, SameView
<1>y. PICK ty : ty = Type(shape.type)
  OBVIOUS
<1>n. PICK n : n = Len(asked)
  OBVIOUS
<1>1. /\ asked \in Seq(Values) /\ n \in Nat /\ p[1] = shape.b /\ ty.same[p[n + 1]][shape.e]
      /\ \A k \in 1 .. n : /\ ~ty.same[p[k]][shape.e]
                           /\ ty.reads[p[k]] = asked[k]
                           /\ ty.incr[p[k]] = p[k + 1]
  BY <1>n, <1>y, AlongView
<1>2. asked' = asked /\ shape' = shape /\ astray' = astray /\ Len(asked') = n
  BY <1>0, <1>n
<1>3. n = 0 <=> asked = <<>>
  BY <1>1, <1>n, EmptySeq
<1>4. ~ty.same[shape.b][shape.e] => 1 \in 1 .. n /\ n \in 1 .. n /\ asked # <<>>
  <2>1. n = 0 => ty.same[shape.b][shape.e]
    BY <1>1
  <2> QED
    BY <1>1, <1>3, <2>1
<1>5. CASE Fold
  <2>1. cur' = p[1] /\ out' = <<>> /\ mode' = "fold"
    BY <1>y, <1>5 DEF ofView, ViewType, AtEnd, Fold, Looping
  <2>2. 1 \in 1 .. n + 1 /\ SubSeq(asked, 1, 1 - 1) = <<>>
    BY <1>1, <1>n
  <2> QED
    BY <1>2, <2>1, <2>2 DEF Looping
<1>6. CASE Read
  <2>1. /\ mode = "fold" /\ mode' = "fold" /\ ~ty.same[cur][shape.e]
        /\ out' = Append(out, ty.reads[cur]) /\ cur' = ty.incr[cur]
    BY <1>y, <1>6 DEF ofView, ViewType, AtEnd, Read
  <2>2. PICK k \in 1 .. n + 1 : cur = p[k] /\ out = SubSeq(asked, 1, k - 1)
    BY <1>n, <2>1 DEF Looping
  <2>3. k \in 1 .. n
    <3>1. k # n + 1
      BY <1>1, <2>1, <2>2
    <3> QED
      BY <1>1, <3>1
  <2>4. cur' = p[k + 1] /\ out' = SubSeq(asked, 1, k)
    <3>1. Append(SubSeq(asked, 1, k - 1), asked[k]) = SubSeq(asked, 1, k)
      BY <1>1, <1>n, <2>3, ReadOne
    <3> QED
      BY <1>1, <2>1, <2>2, <2>3, <3>1
  <2>5. k + 1 \in 1 .. n + 1 /\ (k + 1) - 1 = k
    BY <1>1, <2>3
  <2>6. \E j \in 1 .. Len(asked') + 1 : cur' = p[j] /\ out' = SubSeq(asked', 1, j - 1)
    BY <1>2, <2>4, <2>5
  <2> QED
    BY <2>1, <2>6 DEF Looping
<1>7. CASE MeetEnd
  <2>1. mode = "fold" /\ mode' = "folded" /\ ty.same[cur][shape.e] /\ out' = out
    BY <1>y, <1>7 DEF ofView, ViewType, AtEnd, MeetEnd
  <2>2. PICK k \in 1 .. n + 1 : cur = p[k] /\ out = SubSeq(asked, 1, k - 1)
    BY <1>n, <2>1 DEF Looping
  <2>3. k = n + 1
    <3>1. k \notin 1 .. n
      BY <1>1, <2>1, <2>2
    <3> QED
      BY <1>1, <3>1
  <2>4. k - 1 = n
    BY <1>1, <2>3
  <2>5. out' = asked'
    <3>1. SubSeq(asked, 1, n) = asked
      BY <1>1, <1>n
    <3> QED
      BY <1>2, <2>1, <2>2, <2>4, <3>1
  <2> QED
    BY <2>1, <2>5 DEF Looping
<1>8. CASE LastBack
  <2>1. /\ ty.category = "bidirectional" /\ ~ty.same[shape.b][shape.e] /\ mode' = "read last"
        /\ out' = <<ty.reads[ty.decr[shape.e]]>>
    BY <1>y, <1>8 DEF ofView, ViewType, AtEnd, LastBack
  <2>2. CASE Clean(shape.type)
    <3>1. BothWays(ty, asked, n, p) /\ shape.e = p[n + 1]
      BY <1>n, <2>1, <2>2, <1>y, ShowsClean
    <3>2. ty.decr[shape.e] = p[n] /\ ty.reads[p[n]] = asked[n]
      BY <1>4, <2>1, <3>1 DEF BothWays
    <3>3. Last(asked) = asked[n]
      BY <1>n DEF Last
    <3>4. asked' # <<>> /\ out' = <<Last(asked')>>
      BY <1>2, <1>4, <2>1, <3>2, <3>3
    <3> QED
      BY <2>1, <3>4 DEF Looping
  <2>3. CASE ~Clean(shape.type)
    BY <1>2, <1>y, <2>1, <2>3 DEF Looping
  <2> QED
    BY <2>2, <2>3
<1>9. CASE LastWalk
  <2>1. PICK next : next = ty.incr[cur]
    OBVIOUS
  <2>2. PICK k \in 1 .. n : cur = p[k]
    <3>1. CASE mode = "calls"
      <4>1. ~ty.same[shape.b][shape.e]
        BY <1>y, <1>9, <3>1 DEF ofView, ViewType, AtEnd, LastWalk
      <4> QED
        BY <1>4, <3>1, <4>1 DEF Looping
    <3>2. CASE mode = "walk"
      BY <1>n, <3>2 DEF Looping
    <3> QED
      BY <1>y, <1>9, <3>1, <3>2 DEF ofView, ViewType, AtEnd, LastWalk
  <2>3. next = p[k + 1] /\ k + 1 \in 1 .. n + 1
    BY <1>1, <2>1, <2>2
  <2>4. CASE ty.same[next][shape.e]
    <3>1. mode' = "read last" /\ out' = <<ty.reads[cur]>>
      BY <1>y, <1>9, <2>1, <2>4 DEF ofView, ViewType, AtEnd, LastWalk
    <3>2. k = n
      <4>1. k + 1 \notin 1 .. n
        BY <1>1, <2>3, <2>4
      <4> QED
        BY <1>1, <4>1
    <3>3. Last(asked) = asked[k]
      BY <1>n, <3>2 DEF Last
    <3>4. asked' # <<>> /\ out' = <<Last(asked')>>
      <4>1. n # 0
        BY <2>2
      <4> QED
        BY <1>1, <1>2, <1>3, <2>2, <3>1, <3>3, <4>1
    <3> QED
      BY <3>1, <3>4 DEF Looping
  <2>5. CASE ~ty.same[next][shape.e]
    <3>1. mode' = "walk" /\ cur' = next
      BY <1>y, <1>9, <2>1, <2>5 DEF ofView, ViewType, AtEnd, LastWalk
    <3>2. k # n
      BY <1>1, <2>3, <2>5
    <3>3. k + 1 \in 1 .. n
      BY <1>1, <3>2
    <3> QED
      BY <1>2, <2>3, <3>1, <3>3 DEF Looping
  <2> QED
    BY <2>4, <2>5
<1>10. CASE LastThrows
  <2>1. mode' = "no last" /\ ty.same[p[1]][shape.e]
    BY <1>y, <1>1, <1>10 DEF ofView, ViewType, AtEnd, LastThrows
  <2>2. 1 \notin 1 .. n
    BY <1>1, <2>1
  <2>3. n = 0
    BY <1>1, <2>2
  <2>4. asked' = <<>>
    BY <1>2, <1>3, <2>3
  <2> QED
    BY <2>1, <2>4 DEF Looping
<1>11. CASE Leave
  <2>1. mode' = "calls" /\ cur' = p[1] /\ out' = <<>>
    BY <1>y, <1>1, <1>11 DEF ofView, ViewType, AtEnd, Leave
  <2> QED
    BY <2>1 DEF Looping
<1> QED
  BY <1>5, <1>6, <1>7, <1>8, <1>9, <1>10, <1>11

LEMMA ViewInvFolds ==
  ASSUME ViewInv
  PROVE  ChainFolds
<1>1. SUFFICES ASSUME Faithful PROVE FoldOf(asked)
  BY DEF ChainFolds
<1>2. PICK p : Shows(shape, asked, p) /\ Looping(p)
  BY <1>1 DEF ViewInv
<1>n. PICK n : n = Len(asked)
  OBVIOUS
<1>3. asked \in Seq(Values) /\ n \in Nat
  BY <1>2, <1>n, ShowsSome
<1>4. ASSUME mode = "fold" PROVE IsPrefix(out, asked)
  <2>1. PICK k \in 1 .. n + 1 : out = SubSeq(asked, 1, k - 1)
    BY <1>2, <1>4, <1>n DEF Looping
  <2>2. PICK m \in 0 .. n : m = k - 1
    BY <1>3
  <2>3. Len(out) = m /\ SubSeq(out, 1, m) = SubSeq(asked, 1, m)
    BY <1>3, <1>n, <2>1, <2>2
  <2> QED
    BY <1>3, <1>n, <2>3 DEF IsPrefix
<1>5. mode = "folded" => out = asked
  BY <1>2 DEF Looping
<1> QED
  BY <1>4, <1>5 DEF FoldOf

LEMMA ViewInvLast ==
  ASSUME ViewInv
  PROVE  ChainLast
<1>1. CASE ~Faithful
  BY <1>1 DEF ChainLast, ViewType
<1>2. CASE Type(shape.type).category = "bidirectional" /\ ~Clean(shape.type) /\ Faithful
  <2>1. PICK p : Shows(shape, asked, p)
    BY <1>2 DEF ViewInv
  <2>2. DOMAIN shape.type = 1 .. Len(shape.type)
    BY <2>1 DEF Shows, Piled
  <2>3. \E k \in DOMAIN shape.type : shape.type[k].op \in {"take", "take_while"}
    BY <1>2, <2>2 DEF Clean, Cuts
  <2> QED
    BY <1>2, <2>3 DEF ChainLast, ViewType
<1>3. CASE Faithful /\ ~(Type(shape.type).category = "bidirectional" /\ ~Clean(shape.type))
  <2>1. PICK p : Looping(p)
    BY <1>3 DEF ViewInv
  <2>2. LastOf(asked)
    BY <1>3, <2>1 DEF Looping, LastOf
  <2> QED
    BY <2>2 DEF ChainLast, ViewType
<1> QED
  BY <1>1, <1>2, <1>3

THEOREM ViewInvariant == ViewSpec => []ViewInv
<1>1. ASSUME ViewInv, [ViewNext]_viewVars PROVE ViewInv'
  <2>1. CASE ViewNext
    BY <1>1, <2>1, ViewInvCall, ViewInvLoop DEF ViewNext
  <2>2. CASE UNCHANGED viewVars
    <3>1. /\ shape' = shape /\ asked' = asked /\ astray' = astray
          /\ mode' = mode /\ cur' = cur /\ out' = out
      BY <2>2 DEF viewVars
    <3>2. ASSUME NEW p, Looping(p) PROVE Looping(p)'
      BY <3>1, <3>2 DEF Looping
    <3> QED
      BY <1>1, <3>1, <3>2, SameView
  <2> QED
    BY <1>1, <2>1, <2>2
<1> QED
  BY <1>1, ViewInvInit, PTL DEF ViewSpec

\* A loop over a view made by any sequence of stages, over a source of any length, reads
\* what the stages ask for, one element after another, and ends after the last, unless
\* one of the stages was called where it goes wrong.
THEOREM ChainsFold == ViewSpec => []ChainFolds
BY ViewInvariant, ViewInvFolds, PTL

\* last() over such a view, whether it steps back from the end or walks, reads the last
\* of these elements, and throws if there is none, unless it steps back into a prefix.
THEOREM ChainsEnd == ViewSpec => []ChainLast
BY ViewInvariant, ViewInvLast, PTL
=============================================================================
