------------------------------ MODULE FlatMapView ------------------------------
(***************************************************************************)
(* flat_map(f): flat_map_view and flat_map_iterator.                       *)
(*                                                                         *)
(* The iterator holds the range f returned for the outer element it is at  *)
(* (inner_) and two iterators into a range (inner_cur_, inner_end_).  The  *)
(* implicit copy copies all three, so that a copy holds a range of its own *)
(* and goes on walking the one of the iterator it was copied from.  If     *)
(* ranges own their elements (f returns containers), loading the next      *)
(* range destroys the elements of the old one, whoever walks them.         *)
(*                                                                         *)
(* f is user code, called once per load_inner(): between two calls other   *)
(* iterators may move, and a call may throw.                               *)
(***************************************************************************)
EXTENDS Storage, FiniteSets

CONSTANTS
  MaxInner,   \* bound on the length of the ranges f returns
  FlatCursors,    \* the iterator objects of the program
  Source,     \* elements that live outside the iterators, no cursor
  Dead        \* elements that live no more, no cursor either

VARIABLES
  len,      \* len[x]: the length of the range f returns for the element at x
  owning,   \* whether those ranges own their elements
  outer,    \* the range of outer elements of the view
  iter,     \* iter[c]: outer position, place in the inner range, and two flags
  held,     \* held[c]: the element whose range inner_ of c is, NoRange if empty
  in,       \* in[c]: whose elements inner_cur_ of c walks
  flatOp,       \* op[c]: the operation iterator c is in
  past,     \* past[c]: the elements that c, and what it is a copy of, have left (history)
  lent      \* the iterators that, since they were made a copy, have loaded nothing (history)

flatVars == <<len, owning, outer, iter, held, in, flatOp, past, lent>>

NoRange == 0

Elements == (1 .. N) \X (1 .. MaxInner)

FlatTypeOK ==
  /\ len \in [1 .. N -> 0 .. MaxInner]
  /\ owning \in BOOLEAN
  /\ outer \in Ranges
  /\ iter \in [FlatCursors ->
       [cur : Pos, pos : 1 .. MaxInner + 1, loaded : BOOLEAN, atEnd : BOOLEAN]]
  /\ held \in [FlatCursors -> {NoRange} \cup 1 .. N]
  /\ in \in [FlatCursors -> FlatCursors \cup {Source, Dead}]
  /\ flatOp \in [FlatCursors -> {"none", "idle", "seek"}]
  /\ past \in [FlatCursors -> SUBSET Elements]
  /\ lent \subseteq FlatCursors

\* The elements the view shows.
Flat == {p \in Elements : outer.b <= p[1] /\ p[1] < outer.e /\ p[2] <= len[p[1]]}

EndIter == [cur |-> outer.e, pos |-> 1, loaded |-> FALSE, atEnd |-> TRUE]

FlatInit ==
  /\ len \in [1 .. N -> 0 .. MaxInner]
  /\ owning \in BOOLEAN
  /\ outer \in Ranges
  /\ iter = [c \in FlatCursors |-> EndIter]
  /\ held = [c \in FlatCursors |-> NoRange]
  /\ in = [c \in FlatCursors |-> Dead]
  /\ flatOp = [c \in FlatCursors |-> "none"]
  /\ past = [c \in FlatCursors |-> {}]
  /\ lent = {}

\* operator==: not a word of the inner position.
SameFlat(i, j) == i.atEnd = j.atEnd /\ (i.atEnd \/ i.cur = j.cur)

AtFlatEnd(c) == SameFlat(iter[c], EndIter)

-----------------------------------------------------------------------------
\* inner_ of c is overwritten or destroyed: nobody can walk its elements.
Lost(c, i) == [d \in FlatCursors |-> IF i[d] = c THEN Dead ELSE i[d]]

\* The position after the last of the inner range of element x.
InnerEnd(x) == len[x] + 1

\* flat_map_view::begin(): at the end if there is no outer element.
FlatBegin(c) ==
  /\ flatOp[c] = "none"
  /\ iter' = [iter EXCEPT ![c] =
       [cur |-> outer.b, pos |-> 1, loaded |-> FALSE, atEnd |-> outer.b = outer.e]]
  /\ flatOp' = [flatOp EXCEPT ![c] = IF outer.b = outer.e THEN "idle" ELSE "seek"]
  /\ past' = [past EXCEPT ![c] = {}]
  /\ UNCHANGED <<len, owning, outer, held, in, lent>>

FlatEnd(c) ==
  /\ flatOp[c] = "none"
  /\ iter' = [iter EXCEPT ![c] = EndIter]
  /\ flatOp' = [flatOp EXCEPT ![c] = "idle"]
  /\ past' = [past EXCEPT ![c] = Flat]
  /\ UNCHANGED <<len, owning, outer, held, in, lent>>

\* Fault: the flag is not cleared and the old range passes for the new one.
IncStillLoaded(c) ==
  /\ flatOp[c] = "idle"
  /\ ~iter[c].atEnd
  /\ in[c] # Dead
  /\ past' = [past EXCEPT ![c] = @ \cup {<<iter[c].cur, iter[c].pos>>}]
  /\ IF iter[c].pos + 1 = InnerEnd(held[c])
     THEN /\ iter' = [iter EXCEPT ![c].cur = @ + 1, ![c].pos = @ + 1]
          /\ flatOp' = [flatOp EXCEPT ![c] = "seek"]
     ELSE /\ iter' = [iter EXCEPT ![c].pos = @ + 1]
          /\ UNCHANGED flatOp
  /\ UNCHANGED <<len, owning, outer, held, in, lent>>

\* operator++: the caller increments neither the end nor a dead iterator.
FlatInc(c) ==
  /\ flatOp[c] = "idle"
  /\ ~iter[c].atEnd
  /\ in[c] # Dead
  /\ past' = [past EXCEPT ![c] = @ \cup {<<iter[c].cur, iter[c].pos>>}]
  /\ IF iter[c].pos + 1 = InnerEnd(held[c])
     THEN /\ iter' = [iter EXCEPT ![c].cur = @ + 1, ![c].pos = @ + 1, ![c].loaded = FALSE]
          /\ flatOp' = [flatOp EXCEPT ![c] = "seek"]
     ELSE /\ iter' = [iter EXCEPT ![c].pos = @ + 1]
          /\ UNCHANGED flatOp
  /\ UNCHANGED <<len, owning, outer, held, in, lent>>

-----------------------------------------------------------------------------
(* advance_to_valid().                                                     *)

Seeking(c) == flatOp[c] = "seek" /\ iter[c].cur # outer.e

\* Fault: others that walk the old range go on to walk the new one.
LoadKept(c) ==
  /\ Seeking(c)
  /\ ~iter[c].loaded
  /\ iter' = [iter EXCEPT ![c].pos = 1, ![c].loaded = TRUE]
  /\ held' = [held EXCEPT ![c] = iter[c].cur]
  /\ in' = [in EXCEPT ![c] = IF owning THEN c ELSE Source]
  /\ lent' = lent \ {c}
  /\ UNCHANGED <<len, owning, outer, flatOp, past>>

\* load_inner(): the range f returns replaces the one held.
Load(c) ==
  /\ Seeking(c)
  /\ ~iter[c].loaded
  /\ iter' = [iter EXCEPT ![c].pos = 1, ![c].loaded = TRUE]
  /\ held' = [held EXCEPT ![c] = iter[c].cur]
  /\ in' = [Lost(c, in) EXCEPT ![c] = IF owning THEN c ELSE Source]
  /\ lent' = lent \ {c}
  /\ UNCHANGED <<len, owning, outer, flatOp, past>>

SeekFound(c) ==
  /\ Seeking(c)
  /\ iter[c].loaded
  /\ iter[c].pos # InnerEnd(held[c])
  /\ flatOp' = [flatOp EXCEPT ![c] = "idle"]
  /\ UNCHANGED <<len, owning, outer, iter, held, in, past, lent>>

\* Fault: an empty range ends the search without a step.
SkipStays(c) ==
  /\ Seeking(c)
  /\ iter[c].loaded
  /\ iter[c].pos = InnerEnd(held[c])
  /\ iter' = [iter EXCEPT ![c].loaded = FALSE]
  /\ UNCHANGED <<len, owning, outer, held, in, flatOp, past, lent>>

SeekSkip(c) ==
  /\ Seeking(c)
  /\ iter[c].loaded
  /\ iter[c].pos = InnerEnd(held[c])
  /\ iter' = [iter EXCEPT ![c].cur = @ + 1, ![c].loaded = FALSE]
  /\ UNCHANGED <<len, owning, outer, held, in, flatOp, past, lent>>

SeekEnd(c) ==
  /\ flatOp[c] = "seek"
  /\ iter[c].cur = outer.e
  /\ iter' = [iter EXCEPT ![c].atEnd = TRUE]
  /\ flatOp' = [flatOp EXCEPT ![c] = "idle"]
  /\ UNCHANGED <<len, owning, outer, held, in, past, lent>>

-----------------------------------------------------------------------------
(* Copies, and the end of iterators.                                       *)

\* The implicit copy constructor and operator=: c gets a copy of inner_ of d
\* and walks what d walks.
FlatCopy(c, d) ==
  /\ c # d
  /\ flatOp[c] # "seek"
  /\ flatOp[d] = "idle"
  /\ iter' = [iter EXCEPT ![c] = iter[d]]
  /\ held' = [held EXCEPT ![c] = held[d]]
  /\ in' = [Lost(c, in) EXCEPT ![c] = IF in[d] = c THEN Dead ELSE in[d]]
  /\ flatOp' = [flatOp EXCEPT ![c] = "idle"]
  /\ past' = [past EXCEPT ![c] = past[d]]
  /\ lent' = lent \cup {c}
  /\ UNCHANGED <<len, owning, outer>>

\* c goes out of scope, f having thrown out of a step of it or not.
Drop(c) ==
  /\ flatOp[c] # "none"
  /\ iter' = [iter EXCEPT ![c] = EndIter]
  /\ held' = [held EXCEPT ![c] = NoRange]
  /\ in' = [Lost(c, in) EXCEPT ![c] = Dead]
  /\ flatOp' = [flatOp EXCEPT ![c] = "none"]
  /\ past' = [past EXCEPT ![c] = {}]
  /\ lent' = lent \ {c}
  /\ UNCHANGED <<len, owning, outer>>

FlatLoop(c) == Load(c) \/ SeekFound(c) \/ SeekSkip(c) \/ SeekEnd(c)

FlatNext ==
  \E c \in FlatCursors :
    \/ FlatLoop(c) \/ FlatBegin(c) \/ FlatEnd(c) \/ FlatInc(c) \/ Drop(c)
    \/ \E d \in FlatCursors : FlatCopy(c, d)

FlatSpec == FlatInit /\ [][FlatNext]_flatVars

-----------------------------------------------------------------------------
(* Correctness.                                                            *)

\* The elements before place i of x.
Before(x, i) == {p \in Flat : p[1] < x \/ (p[1] = x /\ p[2] < i)}

\* An iterator at rest stands on an element or at the end, and it, with what it
\* is a copy of, has stood on just the elements before it: none is missed
\* between two inner ranges, whatever empty ranges lie there.
ReadsFlat ==
  \A c \in FlatCursors : flatOp[c] = "idle" =>
    IF AtFlatEnd(c)
    THEN iter[c].cur = outer.e /\ past[c] = Flat
    ELSE <<iter[c].cur, iter[c].pos>> \in Flat /\ past[c] = Before(iter[c].cur, iter[c].pos)

\* An iterator reads the inner range of its own outer element: the one it, or the
\* iterator it was copied from, loaded, and never a later one in its place. What
\* it reads may have been destroyed, but not if it loaded the range itself.
ReadsOwnElement ==
  \A c \in FlatCursors : flatOp[c] = "idle" /\ ~AtFlatEnd(c) =>
    /\ held[c] = iter[c].cur
    /\ in[c] \in FlatCursors => held[in[c]] = iter[c].cur
    /\ c \notin lent => in[c] # Dead
=============================================================================
