------------------------------- MODULE Lifetimes -------------------------------
(***************************************************************************)
(* What an enumerable keeps alive, and what it only points at.             *)
(*                                                                         *)
(* A program makes enumerables (handles) of containers and of each other,  *)
(* copies, moves, assigns and destroys them in any order, and discards     *)
(* containers.  A lazy stage copies the iterators of the view it is called *)
(* on and not the view: what is copied may point into a container, into a  *)
(* view that stores a functor or a default, or into a vector or map that   *)
(* materialized_range owners share.  Nothing but those owners is counted.  *)
(*                                                                         *)
(* Handles are numbered in the order they are made; the vector or map of   *)
(* an eager operation has the number of the first handle that shares it.   *)
(***************************************************************************)
EXTENDS Naturals

CONSTANTS
  MaxHandles,  \* bound on the handles a program makes
  Containers,  \* the caller's containers
  Stages,      \* the lazy stages it calls
  Pairings,    \* the stages of two ranges it calls
  Eagers       \* the eager operations it calls

VARIABLES
  made,   \* the number of handles made so far
  at,     \* what each of them holds, see Handle
  live,   \* those not destroyed
  spent,  \* those moved from, and not assigned to since
  there,  \* the containers not discarded
  ref     \* what the last terminal returned, as a view of one element

lifeVars == <<made, at, live, spent, there, ref>>

-----------------------------------------------------------------------------
(* Operations by what they do to lifetimes.                                *)

\* Lazy stages whose elements are the elements below.
Keeping == {"where", "of_type", "skip", "skip_while", "take", "take_while", "reverse",
            "distinct", "distinct_by", "stride"}

\* ... are results of a projection or copies.
Projecting == {"select", "select_indexed", "select_many", "cast", "append", "prepend"}

\* ... are read from a buffer or inner range inside the iterator.
Buffering == {"scan", "chunk", "sliding_window", "flat_map", "select_many_flatten"}

\* Views whose iterators point at a functor of the view.
PointAtFunctor == {"scan", "flat_map", "select_many_flatten"}

LazyStages ==
  Keeping \cup Projecting \cup Buffering \cup {"enumerate", "default_if_empty", "where_indexed"}

Joinings == {"concat", "union_with"}

Sorting == {"order_by", "group_by", "to_lookup"}

Relational == {"join", "left_join", "right_join", "group_join"}

SetsAndMaps ==
  {"to_unordered_set", "to_set", "to_unordered_map", "to_map", "to_dictionary", "except",
   "intersect", "except_by", "intersect_by", "union_by", "count_by", "aggregate_by", "reduce_by"}

Tails == {"take_last", "skip_last"}

EagerOps == Sorting \cup Relational \cup SetsAndMaps \cup Tails \cup {"to_vector"}

Classes ==
  LazyStages \cup Joinings \cup EagerOps \cup {"zip", "from", "first", "desc"}

\* Eager operations whose owner holds elements as they are, pairs of references too.
Copying == Tails \cup {"to_vector", "order_by", "group_by", "to_lookup"}

ASSUME LifetimesAssumption ==
  /\ MaxHandles \in Nat
  /\ Stages \subseteq LazyStages
  /\ Pairings \subseteq Joinings \cup {"zip"}
  /\ Eagers \subseteq EagerOps

-----------------------------------------------------------------------------
Handles == 1 .. MaxHandles

\* Where what operator* gives refers to.
Places == {"element", "default", "iterator", "gone"}

Handle ==
  [class : Classes,              \* the operation that made it
   from : SUBSET Containers,     \* the containers its iterators point into
   functors : SUBSET Handles,    \* the views whose functor they point at
   defaults : SUBSET Handles,    \* the views whose default they point at
   into : SUBSET Handles,        \* the owners they point into
   shares : SUBSET Handles,      \* the owners it has a shared_ptr of
   shows : SUBSET Places,
   value : BOOLEAN,              \* operator* gives a value, not a reference
   rows : BOOLEAN,               \* a value that holds references, as a pair of them
   upon : SUBSET Handles,        \* history: the views it was derived from
   sees : SUBSET Handles,        \* history: the owners those were of
   family : SUBSET Handles]      \* history: the owner it was made with, or is a copy of one with

Blank ==
  [class |-> "from", from |-> {}, functors |-> {}, defaults |-> {}, into |-> {}, shares |-> {},
   shows |-> {}, value |-> TRUE, rows |-> FALSE, upon |-> {}, sees |-> {}, family |-> {}]

Usable == live \ spent

Make(r) ==
  /\ made < MaxHandles
  /\ made' = made + 1
  /\ at' = [at EXCEPT ![made + 1] = r]
  /\ live' = live \cup {made + 1}
  /\ UNCHANGED ref

LifeInit ==
  /\ made = 0
  /\ at = [h \in Handles |-> Blank]
  /\ live = {}
  /\ spent = {}
  /\ there = Containers
  /\ ref = Blank

\* from and as_enumerable: iterators only.
FromContainer(c) ==
  /\ c \in there
  /\ Make([Blank EXCEPT !.from = {c}, !.shows = {"element"}, !.value = FALSE])
  /\ UNCHANGED <<spent, there>>

\* iota, empty, once, repeat: the iterators hold the values.
FromValues == Make(Blank) /\ UNCHANGED <<spent, there>>

-----------------------------------------------------------------------------
(* Lazy stages.                                                            *)

\* Fault: a where_iterator shows a copy of the element it stands on.
ShownCopied(op, r) == IF op \in Buffering \cup {"where"} THEN {"iterator"} ELSE r.shows

ShownBy(op, r) ==
  CASE op \in Buffering -> {"iterator"}
    [] op \in Projecting -> {}
    [] op = "default_if_empty" -> IF r.value THEN r.shows ELSE r.shows \cup {"default"}
    [] op = "where_indexed" -> IF r.value THEN {"gone"} ELSE r.shows
    [] OTHER -> r.shows

Staged(op, h) ==
  LET r == at[h] IN
  [class |-> op,
   from |-> r.from,
   functors |-> r.functors \cup IF r.class \in PointAtFunctor THEN {h} ELSE {},
   defaults |-> r.defaults \cup IF r.class = "default_if_empty" THEN {h} ELSE {},
   into |-> r.into,
   shares |-> {},
   shows |-> ShownBy(op, r),
   value |-> /\ op \notin Buffering \cup {"where_indexed"}
             /\ r.value \/ op \in Projecting \cup {"enumerate"},
   rows |-> IF op = "enumerate" THEN ~r.value \/ r.rows
            ELSE r.rows /\ op \in Keeping \cup {"default_if_empty"},
   upon |-> r.upon \cup {h},
   sees |-> r.sees \cup r.family,
   family |-> {}]

\* Stages of one range; begin() and end() of the handle are what is wrapped.  (A
\* materialized_range has a reverse of its own, see ViewAgain.)
Stage(op, h) ==
  /\ h \in Usable
  /\ op = "reverse" => at[h].shares = {}
  /\ Make(Staged(op, h))
  /\ UNCHANGED <<spent, there>>

\* concat gives references if both ranges do, zip pairs of what each gives.
Both(op, h, g) ==
  LET r == Staged(op, h)
      s == Staged(op, g)
  IN  [class |-> op,
       from |-> r.from \cup s.from,
       functors |-> r.functors \cup s.functors,
       defaults |-> r.defaults \cup s.defaults,
       into |-> r.into \cup s.into,
       shares |-> {},
       shows |-> IF op = "zip" \/ r.value = s.value THEN r.shows \cup s.shows ELSE {},
       value |-> op = "zip" \/ r.value \/ s.value,
       rows |-> IF op = "zip" THEN ~(at[h].value /\ at[g].value) \/ at[h].rows \/ at[g].rows
                ELSE at[h].rows /\ at[g].rows,
       upon |-> r.upon \cup s.upon,
       sees |-> r.sees \cup s.sees,
       family |-> {}]

Pair(op, h, g) ==
  /\ h \in Usable /\ g \in Usable
  /\ Make(Both(op, h, g))
  /\ UNCHANGED <<spent, there>>

-----------------------------------------------------------------------------
(* Eager operations: a filled vector or map, in the handle that is made.   *)

Owned(op, h) ==
  LET n == made + 1
      r == Staged(op, h)
      kept == op \in Copying /\ r.rows   \* the elements refer to what is below still
  IN  [class |-> op,
       from |-> IF kept THEN r.from ELSE {},
       functors |-> {},
       defaults |-> IF kept THEN r.defaults ELSE {},
       into |-> IF kept THEN r.into \cup {n} ELSE {n},
       shares |-> {n},
       shows |-> IF kept THEN r.shows \cup {"element"} ELSE {"element"},
       value |-> FALSE,
       rows |-> kept,
       upon |-> IF kept THEN r.upon ELSE {},
       sees |-> IF kept THEN r.sees ELSE {},
       family |-> {n}]

Materialize(op, h) ==
  /\ h \in Usable
  /\ Make(Owned(op, h))
  /\ UNCHANGED <<spent, there>>

\* Fault: the reversed range does not share the owner.
Unshared(op, h) == [at[h] EXCEPT !.class = op, !.shares = {}]

\* asc, desc and reverse of a materialized_range share its owner; asc has its type.
Again(op, h) == [at[h] EXCEPT !.class = IF op = "asc" THEN @ ELSE op]

ViewAgain(op, h) ==
  /\ h \in Usable
  /\ at[h].shares # {}
  /\ Make(Again(op, h))
  /\ UNCHANGED <<spent, there>>

-----------------------------------------------------------------------------
(* The handle as a value.                                                  *)

\* as_enumerable of an lvalue, the copy each() returns, a copy.
Copy(h) ==
  /\ h \in Usable
  /\ Make(at[h])
  /\ UNCHANGED <<spent, there>>

\* What a handle of a moved-from functor, default or shared_ptr is left with.
Husk(h) == [at[h] EXCEPT !.shares = {}]

\* as_enumerable of an rvalue, a move.
MoveHandle(h) ==
  /\ h \in Usable
  /\ made < MaxHandles
  /\ made' = made + 1
  /\ at' = [at EXCEPT ![made + 1] = at[h], ![h] = Husk(h)]
  /\ live' = live \cup {made + 1}
  /\ spent' = spent \cup {h}
  /\ UNCHANGED <<there, ref>>

\* Assignment of a handle of the same type, so neither is derived from the other.
AssignHandle(h, g) ==
  /\ h \in live /\ g \in Usable /\ h # g
  /\ at[h].class = at[g].class
  /\ h \notin at[g].upon /\ g \notin at[h].upon
  /\ at' = [at EXCEPT ![h] = at[g]]
  /\ spent' = spent \ {h}
  /\ UNCHANGED <<made, live, there, ref>>

\* (Of a handle destroyed only what it was matters, to those derived from it.)
Destroy(h) ==
  /\ h \in live
  /\ live' = live \ {h}
  /\ spent' = spent \ {h}
  /\ at' = [at EXCEPT ![h] = [Blank EXCEPT !.class = at[h].class]]
  /\ UNCHANGED <<made, there, ref>>

Discard(c) ==
  /\ c \in there
  /\ there' = there \ {c}
  /\ UNCHANGED <<made, at, live, spent, ref>>

-----------------------------------------------------------------------------
(* Terminals.                                                              *)

\* The owners some handle shares.
Held == UNION {at[k].shares : k \in live}

\* Nothing that a view with these iterators touches is gone.
Sound(r) ==
  /\ r.from \subseteq there
  /\ r.functors \cup r.defaults \subseteq Usable
  /\ r.into \subseteq Held

\* first, first_if, element_at, single: operator* of an iterator that ends with the
\* call, so what is returned refers to what a view of h alone would show.
Refer(h) ==
  /\ h \in Usable /\ Sound(at[h])
  /\ ref' = Staged("first", h)
  /\ UNCHANGED <<made, at, live, spent, there>>

\* min, max, last_if, single_if and the like return a copy, that of a row with what the
\* row refers to.
Extract(h) ==
  /\ h \in Usable /\ Sound(at[h])
  /\ ref' = IF at[h].rows THEN Staged("first", h) ELSE Blank
  /\ UNCHANGED <<made, at, live, spent, there>>

\* The others return a number or nothing.
Evaluate(h) ==
  /\ h \in Usable /\ Sound(at[h])
  /\ ref' = Blank
  /\ UNCHANGED <<made, at, live, spent, there>>

LifeNext ==
  \/ \E c \in Containers : FromContainer(c) \/ Discard(c)
  \/ FromValues
  \/ \E h \in Handles :
       \/ \E op \in Stages : Stage(op, h)
       \/ \E op \in Pairings, g \in Handles : Pair(op, h, g)
       \/ \E op \in Eagers : Materialize(op, h)
       \/ \E op \in {"asc", "desc", "reverse"} : ViewAgain(op, h)
       \/ Copy(h) \/ MoveHandle(h) \/ Destroy(h)
       \/ \E g \in Handles : AssignHandle(h, g)
       \/ Refer(h) \/ Extract(h) \/ Evaluate(h)

LifeSpec == LifeInit /\ [][LifeNext]_lifeVars

-----------------------------------------------------------------------------
(* What the documentation asks the caller to keep.                         *)

Stores == PointAtFunctor \cup {"default_if_empty"}

Kept(r) ==
  /\ r.from \subseteq there
  /\ \A a \in r.upon : at[a].class \in Stores => a \in Usable
  /\ \A o \in r.sees : \E k \in Usable : o \in at[k].family

\* A handle whose containers, functor views and materialized ranges the caller keeps
\* (of the latter, one that was made with the owner or shares it will do) touches
\* nothing that is gone, whatever else has been destroyed, moved or assigned.
NoDangling == \A h \in Usable : Kept(at[h]) => Sound(at[h])

\* What first() and the like return refers to elements, or to the default of a view,
\* that live on for as long as the same is kept, also when the handle itself is gone;
\* unless a stage reads its elements from its own iterator, or where_indexed its pairs.
ReferenceLives ==
  /\ Kept(ref) => Sound(ref)
  /\ (\A a \in ref.upon : at[a].class \notin Buffering \cup {"where_indexed"}) =>
       ref.shows \subseteq {"element", "default"}
=============================================================================
