------------------------------ MODULE DistinctView ------------------------------
(***************************************************************************)
(* distinct() and distinct_by(f): distinct_view and distinct_iterator.     *)
(*                                                                         *)
(* begin() allocates a set of the keys met so far; the iterator inserts    *)
(* into it as it moves.  Copies of an iterator share the set through a     *)
(* shared_ptr, so that moving one of them changes what the others will     *)
(* skip.  The key function is user code, called once per trip round        *)
(* skip_seen(): between two calls other iterators may move.                *)
(***************************************************************************)
EXTENDS Storage

CONSTANTS
  Keys,      \* the keys of elements
  Sets,      \* the unordered_sets, each free while no iterator refers to it
  Cursors,   \* the iterator objects of the program
  NoSet      \* the null shared_ptr of an end iterator

ASSUME NoSetAssumption == NoSet \notin Sets

VARIABLES
  key,     \* key[x]: the key of the element at x
  rng,     \* the range of the view
  seen,    \* seen[s]: the keys in set s
  it,      \* it[c]: base position and set
  op,      \* op[c]: the operation iterator c is in
  pass     \* pass[c]: where c began, what it has stood on, and whether it alone
           \* has inserted into its set since (history)

vars == <<key, rng, seen, it, op, pass>>

TypeOK ==
  /\ key \in [1 .. N -> Keys]
  /\ rng \in Ranges
  /\ seen \in [Sets -> SUBSET Keys]
  /\ it \in [Cursors -> [cur : Pos, set : Sets \cup {NoSet}]]
  /\ op \in [Cursors -> {"none", "idle", "skip"}]
  /\ pass \in [Cursors -> [start : Pos, on : SUBSET (1 .. N), alone : BOOLEAN]]

Init ==
  /\ key \in [1 .. N -> Keys]
  /\ rng \in Ranges
  /\ seen = [s \in Sets |-> {}]
  /\ it = [c \in Cursors |-> [cur |-> rng.e, set |-> NoSet]]
  /\ op = [c \in Cursors |-> "none"]
  /\ pass = [c \in Cursors |-> [start |-> rng.e, on |-> {}, alone |-> FALSE]]

-----------------------------------------------------------------------------
Free(c) == op[c] \in {"none", "idle"}

\* No other iterator than c refers to set s.
Unreferenced(s, c) == \A d \in Cursors \ {c} : it[d].set # s

\* Fault: all iterators of the view share one set.
BeginShared(c, s) ==
  /\ Free(c)
  /\ \A d \in Cursors : it[d].set \in {s, NoSet}
  /\ it' = [it EXCEPT ![c] = [cur |-> rng.b, set |-> s]]
  /\ op' = [op EXCEPT ![c] = "skip"]
  /\ pass' = [pass EXCEPT ![c] = [start |-> rng.b, on |-> {}, alone |-> TRUE]]
  /\ UNCHANGED <<key, rng, seen>>

\* distinct_view::begin(): a new set, and skip_seen() from the constructor.
Begin(c, s) ==
  /\ Free(c)
  /\ Unreferenced(s, c)
  /\ seen' = [seen EXCEPT ![s] = {}]
  /\ it' = [it EXCEPT ![c] = [cur |-> rng.b, set |-> s]]
  /\ op' = [op EXCEPT ![c] = "skip"]
  /\ pass' = [pass EXCEPT ![c] = [start |-> rng.b, on |-> {}, alone |-> TRUE]]
  /\ UNCHANGED <<key, rng>>

\* distinct_view::end().
End(c) ==
  /\ Free(c)
  /\ it' = [it EXCEPT ![c] = [cur |-> rng.e, set |-> NoSet]]
  /\ op' = [op EXCEPT ![c] = "idle"]
  /\ pass' = [pass EXCEPT ![c] = [start |-> rng.e, on |-> {}, alone |-> FALSE]]
  /\ UNCHANGED <<key, rng, seen>>

\* operator++: the caller does not increment the end.
Inc(c) ==
  /\ op[c] = "idle"
  /\ it[c].cur # rng.e
  /\ it' = [it EXCEPT ![c].cur = @ + 1]
  /\ op' = [op EXCEPT ![c] = "skip"]
  /\ pass' = [d \in Cursors |->
       IF d # c /\ it[d].set = it[c].set THEN [pass[d] EXCEPT !.alone = FALSE] ELSE pass[d]]
  /\ UNCHANGED <<key, rng, seen>>

\* Fault: skip_seen() steps twice over a key it has met.
SkipTwo(c) ==
  /\ op[c] = "skip"
  /\ it[c].cur # rng.e
  /\ key[it[c].cur] \in seen[it[c].set]
  /\ it' = [it EXCEPT ![c].cur = @ + 2]
  /\ UNCHANGED <<key, rng, seen, op, pass>>

\* skip_seen(): the key is in the set already.
SkipStep(c) ==
  /\ op[c] = "skip"
  /\ it[c].cur # rng.e
  /\ key[it[c].cur] \in seen[it[c].set]
  /\ it' = [it EXCEPT ![c].cur = @ + 1]
  /\ UNCHANGED <<key, rng, seen, op, pass>>

\* Fault: the key of the element it stops on is not inserted.
SkipFoundUnmarked(c) ==
  /\ op[c] = "skip"
  /\ it[c].cur # rng.e
  /\ key[it[c].cur] \notin seen[it[c].set]
  /\ op' = [op EXCEPT ![c] = "idle"]
  /\ pass' = [pass EXCEPT ![c].on = @ \cup {it[c].cur}]
  /\ UNCHANGED <<key, rng, it, seen>>

\* skip_seen(): the key is inserted, the iterator stands on its element.
SkipFound(c) ==
  /\ op[c] = "skip"
  /\ it[c].cur # rng.e
  /\ key[it[c].cur] \notin seen[it[c].set]
  /\ seen' = [seen EXCEPT ![it[c].set] = @ \cup {key[it[c].cur]}]
  /\ op' = [op EXCEPT ![c] = "idle"]
  /\ pass' = [pass EXCEPT ![c].on = @ \cup {it[c].cur}]
  /\ UNCHANGED <<key, rng, it>>

SkipEnd(c) ==
  /\ op[c] = "skip"
  /\ it[c].cur = rng.e
  /\ op' = [op EXCEPT ![c] = "idle"]
  /\ UNCHANGED <<key, rng, seen, it, pass>>

\* The copy constructor and operator=: the set is shared.
Copy(c, d) ==
  /\ c # d
  /\ Free(c)
  /\ op[d] = "idle"
  /\ it' = [it EXCEPT ![c] = it[d]]
  /\ op' = [op EXCEPT ![c] = "idle"]
  /\ pass' = [pass EXCEPT ![c] =
       [start |-> it[d].cur, on |-> {it[d].cur} \ {rng.e}, alone |-> FALSE]]
  /\ UNCHANGED <<key, rng, seen>>

Loop(c) == SkipStep(c) \/ SkipFound(c) \/ SkipEnd(c)

Next ==
  \E c \in Cursors :
    \/ Loop(c) \/ End(c) \/ Inc(c)
    \/ \E s \in Sets : Begin(c, s)
    \/ \E d \in Cursors : Copy(c, d)

Spec == Init /\ [][Next]_vars

-----------------------------------------------------------------------------
(* Correctness.                                                            *)

\* The first element of the range with its key.
IsFirstOfKey(x) ==
  /\ rng.b <= x /\ x < rng.e
  /\ \A y \in rng.b .. x - 1 : key[y] # key[x]

\* No iterator, however its set is shared and moved on by copies of it, stands
\* on an element whose key has an earlier element.
OnFirstOfKey ==
  \A c \in Cursors : op[c] = "idle" /\ it[c].cur # rng.e => IsFirstOfKey(it[c].cur)

\* A pass by an iterator from begin(), no copy of which has been moved, stands
\* on every first element on its way, whatever other passes over the same view
\* are under way.
FreshPassComplete ==
  \A c \in Cursors : op[c] = "idle" /\ pass[c].alone =>
    pass[c].on = {x \in 1 .. N : IsFirstOfKey(x) /\ x <= it[c].cur}

\* An element is passed over only if some iterator that shares the set has stood
\* on an element with its key: what lies behind an iterator is in its set.
PassedIsSeen ==
  \A c \in Cursors : it[c].set # NoSet =>
    /\ \A y \in rng.b .. it[c].cur - 1 : key[y] \in seen[it[c].set]
    /\ op[c] = "idle" /\ it[c].cur # rng.e => key[it[c].cur] \in seen[it[c].set]

-----------------------------------------------------------------------------
(* The inductive invariant.                                                *)

PlaceInv ==
  \A c \in Cursors :
    /\ it[c].cur \in rng.b .. rng.e
    /\ it[c].set = NoSet => it[c].cur = rng.e /\ op[c] # "skip"

\* Iterator c alone moves its set on: the set holds what c has stood on.
AloneInv ==
  \A c \in Cursors : pass[c].alone =>
    /\ it[c].set # NoSet
    /\ op[c] \in {"idle", "skip"}
    /\ \A d \in Cursors \ {c} : it[d].set = it[c].set => op[d] = "idle" /\ ~pass[d].alone
    /\ \A k \in seen[it[c].set] : \E y \in pass[c].on : key[y] = k
    /\ \A x \in 1 .. N :
         x \in pass[c].on <=>
           IsFirstOfKey(x) /\ (x < it[c].cur \/ (x = it[c].cur /\ op[c] = "idle"))

IInv == TypeOK /\ PlaceInv /\ PassedIsSeen /\ OnFirstOfKey /\ AloneInv

-----------------------------------------------------------------------------
\* extra_views.h: "A new unordered_set is allocated on each begin() so repeated
\* full traversals stay correct."  That is so of passes from distinct_view's
\* begin(), not of passes from copies of an iterator, which is what the begin()
\* of a view derived from it (select, skip, concat, ...) returns.
EveryPassComplete ==
  \A c \in Cursors : op[c] = "idle" =>
    pass[c].on = {x \in 1 .. N : IsFirstOfKey(x) /\ pass[c].start <= x /\ x <= it[c].cur}
=============================================================================
