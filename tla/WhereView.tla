------------------------------ MODULE WhereView ------------------------------
(***************************************************************************)
(* where(pred): where_view and where_iterator, with the lazy_copy_once     *)
(* cache of the first match.                                               *)
(*                                                                         *)
(* A predicate is user code, called once per trip round each loop, so the  *)
(* three loops (find_if in begin(), ++ and --) are modelled one call at a  *)
(* time: between two calls any other iterator or view of the program may   *)
(* move, and a call may throw.  An element is abstracted to whether the    *)
(* predicate accepts it (hits); iterators and views all carry the same     *)
(* predicate, the only use the assignment of iterators is meant for.       *)
(***************************************************************************)
EXTENDS Storage

CONSTANTS
  Cursors,   \* the iterator objects of the program
  Views,     \* the where_view objects of the program
  NoCursor   \* not an iterator

ASSUME NoCursorAssumption == NoCursor \notin Cursors

VARIABLES
  hits,      \* the positions whose element the predicate accepts
  view,      \* view[v]: b_, e_ and the cached first match, Unset while empty
  scanning,  \* scanning[v]: the iterator whose begin() runs find_if for v
  it,        \* it[c]: base position, begin_ and end_
  op,        \* op[c]: the loop iterator c is in
  from       \* from[c]: where c stood when its loop began (history)

vars == <<hits, view, scanning, it, op, from>>

Unset == 0

Ops == {"none", "idle", "thrown", "find", "inc", "dec"}

TypeOK ==
  /\ hits \subseteq 1 .. N
  /\ view \in [Views -> [rng : Ranges, first : {Unset} \cup Pos]]
  /\ scanning \in [Views -> Cursors \cup {NoCursor}]
  /\ it \in [Cursors -> [cur : Pos, rng : Ranges]]
  /\ op \in [Cursors -> Ops]
  /\ from \in [Cursors -> {0} \cup Pos]

Init ==
  /\ hits \in SUBSET (1 .. N)
  /\ view \in [Views -> [rng : Ranges, first : {Unset}]]
  /\ scanning = [v \in Views |-> NoCursor]
  /\ \E r \in Ranges : it = [c \in Cursors |-> [cur |-> r.b, rng |-> r]]
  /\ op = [c \in Cursors |-> "none"]
  /\ from = [c \in Cursors |-> 0]

-----------------------------------------------------------------------------
(* Building blocks.                                                        *)

\* c has a position; it is "thrown" if the predicate threw in its last step.
Standing(c) == op[c] \in {"idle", "thrown"}

Free(c) == op[c] = "none" \/ Standing(c)

\* The operation of c is over and leaves it on position x of range r.
Settle(c, x, r) ==
  /\ it' = [it EXCEPT ![c] = [cur |-> x, rng |-> r]]
  /\ op' = [op EXCEPT ![c] = "idle"]
  /\ from' = [from EXCEPT ![c] = 0]

\* c enters state o on position x of range r, having stood on position f.
Enter(c, o, x, r, f) ==
  /\ it' = [it EXCEPT ![c] = [cur |-> x, rng |-> r]]
  /\ op' = [op EXCEPT ![c] = o]
  /\ from' = [from EXCEPT ![c] = f]

\* c moves its base position to x and stays in its loop.
Move(c, x) ==
  /\ it' = [it EXCEPT ![c].cur = x]
  /\ UNCHANGED <<op, from>>

\* The forward loops go on while `cur != end_ && !pred(*cur)`.
Rejects(i) == i.cur # i.rng.e /\ i.cur \notin hits

-----------------------------------------------------------------------------
(* Faults: what the code would do with a small mistake in it.  No action   *)
(* below uses them; each breaks one of the properties at the end.          *)

\* operator++ runs on over elements the predicate accepts.
IncOverMatches(c) ==
  /\ op[c] = "inc"
  /\ it[c].cur # it[c].rng.e
  /\ Move(c, it[c].cur + 1)
  /\ UNCHANGED <<hits, view, scanning>>

\* The loop of operator-- does not stop at the physical begin.
DecPastBegin(c) ==
  /\ op[c] = "dec"
  /\ it[c].cur \notin hits
  /\ Move(c, it[c].cur - 1)
  /\ UNCHANGED <<hits, view, scanning>>

\* operator-- stays on the physical begin even if that is no match.
DecStaysAtBegin(c) ==
  /\ op[c] = "dec"
  /\ it[c].cur = it[c].rng.b \/ it[c].cur \in hits
  /\ Settle(c, it[c].cur, it[c].rng)
  /\ UNCHANGED <<hits, view, scanning>>

\* operator= takes the position and forgets the bounds.
AssignPosition(c, d) ==
  /\ Free(c)
  /\ Standing(d)
  /\ Enter(c, op[d], it[d].cur, it[c].rng, 0)
  /\ UNCHANGED <<hits, view, scanning>>

\* Copying a view whose cache is empty leaves the old cache in place.
CopyViewKeepsCache(v, w) ==
  /\ scanning[v] = NoCursor
  /\ scanning[w] = NoCursor
  /\ view' = [view EXCEPT ![v] =
       [rng |-> view[w].rng, first |-> IF view[w].first = Unset THEN @.first ELSE view[w].first]]
  /\ UNCHANGED <<hits, scanning, it, op, from>>

-----------------------------------------------------------------------------
(* where_view::begin() and end().                                          *)

BeginCached(c, v) ==
  /\ Free(c)
  /\ view[v].first # Unset
  /\ Settle(c, view[v].first, view[v].rng)
  /\ UNCHANGED <<hits, view, scanning>>

\* The view says it is not thread-safe: nobody else is in its find_if.
BeginScan(c, v) ==
  /\ Free(c)
  /\ view[v].first = Unset
  /\ scanning[v] = NoCursor
  /\ Enter(c, "find", view[v].rng.b, view[v].rng, 0)
  /\ scanning' = [scanning EXCEPT ![v] = c]
  /\ UNCHANGED <<hits, view>>

FindAdvance(c) ==
  /\ op[c] = "find"
  /\ Rejects(it[c])
  /\ Move(c, it[c].cur + 1)
  /\ UNCHANGED <<hits, view, scanning>>

\* find_if returns: cref_or_emplace engages the cache, begin() returns.
FindDone(c, v) ==
  /\ op[c] = "find"
  /\ scanning[v] = c
  /\ ~Rejects(it[c])
  /\ view' = [view EXCEPT ![v].first = it[c].cur]
  /\ scanning' = [scanning EXCEPT ![v] = NoCursor]
  /\ Settle(c, it[c].cur, it[c].rng)
  /\ UNCHANGED hits

End(c, v) ==
  /\ Free(c)
  /\ Settle(c, view[v].rng.e, view[v].rng)
  /\ UNCHANGED <<hits, view, scanning>>

-----------------------------------------------------------------------------
(* where_iterator.                                                         *)

\* do { ++cur } while ...: the caller does not increment the end.
Inc(c) ==
  /\ Standing(c)
  /\ it[c].cur # it[c].rng.e
  /\ Enter(c, "inc", it[c].cur + 1, it[c].rng, it[c].cur)
  /\ UNCHANGED <<hits, view, scanning>>

IncAdvance(c) ==
  /\ op[c] = "inc"
  /\ Rejects(it[c])
  /\ Move(c, it[c].cur + 1)
  /\ UNCHANGED <<hits, view, scanning>>

IncDone(c) ==
  /\ op[c] = "inc"
  /\ ~Rejects(it[c])
  /\ Settle(c, it[c].cur, it[c].rng)
  /\ UNCHANGED <<hits, view, scanning>>

\* The two early returns of operator--: an empty range, and the physical begin.
DecAtBounds(c) ==
  /\ Standing(c)
  /\ it[c].cur = it[c].rng.b
  /\ Settle(c, it[c].rng.e, it[c].rng)
  /\ UNCHANGED <<hits, view, scanning>>

Dec(c) ==
  /\ Standing(c)
  /\ it[c].cur # it[c].rng.b
  /\ Enter(c, "dec", it[c].cur - 1, it[c].rng, it[c].cur)
  /\ UNCHANGED <<hits, view, scanning>>

DecRetreat(c) ==
  /\ op[c] = "dec"
  /\ it[c].cur # it[c].rng.b
  /\ it[c].cur \notin hits
  /\ Move(c, it[c].cur - 1)
  /\ UNCHANGED <<hits, view, scanning>>

\* Out of the loop: on a match, or on a first element that is none.
DecDone(c) ==
  /\ op[c] = "dec"
  /\ it[c].cur = it[c].rng.b \/ it[c].cur \in hits
  /\ Settle(c, IF it[c].cur \in hits THEN it[c].cur ELSE it[c].rng.e, it[c].rng)
  /\ UNCHANGED <<hits, view, scanning>>

\* The copy constructor, and operator=, which takes position and bounds.
Assign(c, d) ==
  /\ Free(c)
  /\ Standing(d)
  /\ Enter(c, op[d], it[d].cur, it[d].rng, 0)
  /\ UNCHANGED <<hits, view, scanning>>

-----------------------------------------------------------------------------
(* Whole views: bounds, and the cache as lazy_copy_once copies it.         *)

Quiet(v) == scanning[v] = NoCursor

Rebuild(v, r) ==
  /\ Quiet(v)
  /\ view' = [view EXCEPT ![v] = [rng |-> r, first |-> Unset]]
  /\ UNCHANGED <<hits, scanning, it, op, from>>

\* The old cache is destroyed, then the other view's is copied if engaged.
CopyView(v, w) ==
  /\ Quiet(v)
  /\ Quiet(w)
  /\ view' = [view EXCEPT ![v] = view[w]]
  /\ UNCHANGED <<hits, scanning, it, op, from>>

\* As above, and the moved-from view is left with an empty cache.
MoveView(v, w) ==
  /\ v # w
  /\ Quiet(v)
  /\ Quiet(w)
  /\ view' = [view EXCEPT ![v] = view[w], ![w].first = Unset]
  /\ UNCHANGED <<hits, scanning, it, op, from>>

-----------------------------------------------------------------------------
(* What user code may do besides: throw from the predicate, and write to   *)
(* an element in place.                                                    *)

\* ++ and -- leave the base where it was; find_if leaves the cache empty.
Throw(c) ==
  /\ op[c] \in {"find", "inc", "dec"}
  /\ it[c].cur # it[c].rng.e
  /\ op' = [op EXCEPT ![c] = IF @ = "find" THEN "none" ELSE "thrown"]
  /\ from' = [from EXCEPT ![c] = 0]
  /\ scanning' = [v \in Views |-> IF scanning[v] = c THEN NoCursor ELSE scanning[v]]
  /\ UNCHANGED <<hits, view, it>>

Write(x) ==
  /\ hits' = IF x \in hits THEN hits \ {x} ELSE hits \cup {x}
  /\ UNCHANGED <<view, scanning, it, op, from>>

-----------------------------------------------------------------------------
Loop(c) ==
  \/ FindAdvance(c)
  \/ \E v \in Views : FindDone(c, v)
  \/ IncAdvance(c) \/ IncDone(c)
  \/ DecRetreat(c) \/ DecDone(c)

Call(c) ==
  \/ \E v \in Views : BeginCached(c, v) \/ BeginScan(c, v) \/ End(c, v)
  \/ Inc(c) \/ Dec(c) \/ DecAtBounds(c)
  \/ \E d \in Cursors : Assign(c, d)

OnViews ==
  \E v \in Views :
    \/ \E r \in Ranges : Rebuild(v, r)
    \/ \E w \in Views : CopyView(v, w) \/ MoveView(v, w)

Next == (\E c \in Cursors : Loop(c) \/ Throw(c) \/ Call(c)) \/ OnViews

\* The program leaves the elements alone.
Spec == Init /\ [][Next]_vars

-----------------------------------------------------------------------------
(* Correctness.                                                            *)

\* No position strictly between x and y is a match.
NoHitBetween(x, y) == \A h \in hits : ~(x < h /\ h < y)

\* An iterator whose last step has returned stands on a match of its range or at
\* its end_, after any history of begin, ++, --, copies and assignments across
\* views, and of earlier steps the predicate threw out of.
OnMatch ==
  \A c \in Cursors : op[c] = "idle" => it[c].cur \in Shown(hits, it[c].rng) \cup {it[c].rng.e}

\* However the cache of a view came about (its own find_if, or a copy, move or
\* assignment from another view), it is the first match of its own bounds.
CacheIsFirst ==
  \A v \in Views :
    view[v].first # Unset => IsFirstFrom(view[v].rng.b, view[v].first, hits, view[v].rng)

\* What each loop has established about the positions it has left behind.
Progress(c) ==
  LET i == it[c] IN
  /\ i.rng.b <= i.cur
  /\ i.cur <= i.rng.e
  /\ op[c] = "find" => NoHitBetween(i.rng.b - 1, i.cur)
  /\ op[c] = "inc" =>
       /\ i.rng.b <= from[c]
       /\ from[c] < i.cur
       /\ NoHitBetween(from[c], i.cur)
  /\ op[c] = "dec" =>
       /\ i.cur < from[c]
       /\ from[c] <= i.rng.e
       /\ NoHitBetween(i.cur, from[c])

\* No loop has passed over a match, and none has left the bounds of its range.
NoMatchPassed == \A c \in Cursors : Progress(c)

\* A find_if in progress belongs to the view it will be cached in.
ScanInv ==
  /\ \A v \in Views : scanning[v] # NoCursor =>
       /\ op[scanning[v]] = "find"
       /\ it[scanning[v]].rng = view[v].rng
  /\ \A v, w \in Views : scanning[v] = scanning[w] /\ scanning[v] # NoCursor => v = w
  /\ \A c \in Cursors : op[c] = "find" => \E v \in Views : scanning[v] = c

\* The inductive invariant.
IInv == TypeOK /\ OnMatch /\ CacheIsFirst /\ NoMatchPassed /\ ScanInv

\* Where an observer sees c: until a loop is over, at its old position.
Seen(c) ==
  IF Standing(c) THEN it[c].cur ELSE IF op[c] \in {"inc", "dec"} THEN from[c] ELSE 0

Abs == INSTANCE MultiPass WITH
  elems <- hits,
  at <- [c \in Cursors |-> Seen(c)],
  rng <- [c \in Cursors |-> it[c].rng]

\* The view is a multi-pass sequence of its matches.
Implements == Abs!AbsSpec
=============================================================================
