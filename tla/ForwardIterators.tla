---------------------------- MODULE ForwardIterators ----------------------------
(***************************************************************************)
(* What a program may do with the iterators of one forward-only view, and  *)
(* what it may rely on (LegacyForwardIterator): an iterator is at a place  *)
(* in the sequence the view shows, whichever way it came there.            *)
(*                                                                         *)
(* A view is given by the operators the code of its iterator consists of.  *)
(***************************************************************************)
EXTENDS Integers, Sequences

CONSTANTS
  Walkers,
  Params,        \* what views of this kind can be made of
  First(_),      \* begin() of the view made of p
  Last(_),       \* end()
  Incr(_, _),    \* operator++
  Same(_, _, _), \* operator==
  Reads(_, _),   \* operator*
  Shown(_),      \* the sequence the view is to show
  EndStays       \* whether ++ of an end iterator is defined, and does nothing

VARIABLES
  params,   \* what the view is made of
  iters,    \* iters[c]: the iterator in variable c of the program, if there is one
  spots     \* spots[c]: the place it is at, or Unborn (history)

fwdVars == <<params, iters, spots>>

Unborn == -1

Live(c) == spots[c] # Unborn

Init ==
  /\ params \in Params
  /\ iters = [c \in Walkers |-> First(params)]
  /\ spots = [c \in Walkers |-> Unborn]

Put(c, i, k) ==
  /\ iters' = [iters EXCEPT ![c] = i]
  /\ spots' = [spots EXCEPT ![c] = k]
  /\ UNCHANGED params

Begin(c) == Put(c, First(params), 0)

End(c) == Put(c, Last(params), Len(Shown(params)))

Inc(c) ==
  /\ Live(c)
  /\ \/ spots[c] < Len(Shown(params)) /\ Put(c, Incr(params, iters[c]), spots[c] + 1)
     \/ spots[c] = Len(Shown(params)) /\ EndStays /\ Put(c, Incr(params, iters[c]), spots[c])

Copy(c, d) == Live(d) /\ Put(c, iters[d], spots[d])

Next == \E c \in Walkers : Begin(c) \/ End(c) \/ Inc(c) \/ \E d \in Walkers : Copy(c, d)

-----------------------------------------------------------------------------
\* An iterator reads the element of its place.
ReadsInOrder ==
  \A c \in Walkers : Live(c) /\ spots[c] < Len(Shown(params)) =>
    Reads(params, iters[c]) = Shown(params)[spots[c] + 1]

\* Iterators are equal when they are at the same place, and only then: a loop
\* that compares with end() goes on for as long as there are elements.
EqualIfSamePlace ==
  \A c, d \in Walkers : Live(c) /\ Live(d) =>
    (Same(params, iters[c], iters[d]) <=> spots[c] = spots[d])
=============================================================================
