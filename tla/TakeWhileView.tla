----------------------------- MODULE TakeWhileView -----------------------------
(***************************************************************************)
(* take_while(pred) and skip_while(pred): take_while_iterator, whose       *)
(* equality decides where the view ends, the reversed_view made for it,    *)
(* and the subrange skip_while returns.                                    *)
(*                                                                         *)
(* The end of a take_while_view is found anew by every comparison.  A      *)
(* reversed_view and a subrange are bounds found once, when reverse() or   *)
(* skip_while() is called.  Between two traversals the program may write   *)
(* to elements in place.                                                   *)
(***************************************************************************)
EXTENDS Storage, Sequences

VARIABLES
  accepted,    \* the positions whose element the predicate accepts
  rng,     \* the range the views were made over
  rev,     \* the base the reversed view starts from, None before it is made
  rest,    \* the begin of the subrange, None before it is made
  seen,    \* seen[f]: hits when the bounds f were found (history)
  task,    \* the traversal or search that runs, or ran last
  phase,      \* where it is
  spot,      \* the iterator it moves
  readings      \* the positions read

taskVars == <<accepted, rng, rev, rest, seen, task, phase, spot, readings>>

Unmade == 0

TaskTypeOK ==
  /\ accepted \subseteq 1 .. N
  /\ rng \in Ranges
  /\ rev \in {Unmade} \cup Pos
  /\ rest \in {Unmade} \cup Pos
  /\ seen \in [{"rev", "rest"} -> SUBSET (1 .. N)]
  /\ task \in {"none", "forward", "reverse", "rest", "last", "makeRev", "makeRest"}
  /\ phase \in {"ready", "search", "loop"}
  /\ spot \in Pos
  /\ readings \in Seq(Pos)

TaskInit ==
  /\ accepted \in SUBSET (1 .. N)
  /\ rng \in Ranges
  /\ rev = Unmade
  /\ rest = Unmade
  /\ seen = [f \in {"rev", "rest"} |-> {}]
  /\ task = "none"
  /\ phase = "ready"
  /\ spot = rng.b
  /\ readings = <<>>

-----------------------------------------------------------------------------
\* Fault: only the physical end ends the view.
SamePosition(i, j) == i = j

\* take_while_iterator::operator==, i being the left operand.
MeetsEnd(i, j) == i = j \/ i \notin accepted

\* p starts on position x.
StartTask(p, c, x) ==
  /\ phase = "ready"
  /\ task' = p
  /\ phase' = c
  /\ spot' = x
  /\ readings' = <<>>
  /\ UNCHANGED <<accepted, rng, rev, rest, seen>>

BeginForward == StartTask("forward", "loop", rng.b)

BeginReverse == rev # Unmade /\ StartTask("reverse", "loop", rev)

BeginRest == rest # Unmade /\ StartTask("rest", "loop", rest)

MakeReverse == StartTask("makeRev", "search", rng.b)

MakeRest == StartTask("makeRest", "search", rng.b)

-----------------------------------------------------------------------------
(* The traversals.                                                         *)

Performing(p) == phase = "loop" /\ task = p

\* Append x, and go on from y.
TaskRead(x, y) ==
  /\ readings' = Append(readings, x)
  /\ spot' = y
  /\ UNCHANGED <<accepted, rng, rev, rest, seen, task, phase>>

TaskForward == Performing("forward") /\ ~MeetsEnd(spot, rng.e) /\ TaskRead(spot, spot + 1)

\* Over reverse_iterator<BaseIt>: the equality of take_while plays no part.
TaskReverse == Performing("reverse") /\ spot # rng.b /\ TaskRead(spot - 1, spot - 1)

TaskRest == Performing("rest") /\ spot # rng.e /\ TaskRead(spot, spot + 1)

FinishTask ==
  /\ \/ Performing("forward") /\ MeetsEnd(spot, rng.e)
     \/ Performing("reverse") /\ spot = rng.b
     \/ Performing("rest") /\ spot = rng.e
  /\ phase' = "ready"
  /\ UNCHANGED <<accepted, rng, rev, rest, seen, task, spot, readings>>

\* last(): nothing if begin() == end(), where it throws; else *std::prev(end()).
TaskLast ==
  /\ phase = "ready"
  /\ task' = "last"
  /\ readings' = IF MeetsEnd(rng.b, rng.e) THEN <<>> ELSE <<rng.e - 1>>
  /\ UNCHANGED <<accepted, rng, rev, rest, seen, phase, spot>>

-----------------------------------------------------------------------------
(* The searches for bounds: make_bounds of reversed_view, and skip_while.  *)

Searching(p) == phase = "search" /\ task = p

\* Fault: the search increments a copy.
SearchStepCopy ==
  /\ Searching("makeRev") \/ Searching("makeRest")
  /\ ~MeetsEnd(spot, rng.e)
  /\ UNCHANGED taskVars

SearchStep ==
  /\ Searching("makeRev") \/ Searching("makeRest")
  /\ ~MeetsEnd(spot, rng.e)
  /\ spot' = spot + 1
  /\ UNCHANGED <<accepted, rng, rev, rest, seen, task, phase, readings>>

\* Fault: the reversed bounds stop before the last element accepted.
ReverseMadeShort ==
  /\ Searching("makeRev")
  /\ MeetsEnd(spot, rng.e)
  /\ rev' = IF spot = rng.b THEN spot ELSE spot - 1
  /\ seen' = [seen EXCEPT !["rev"] = accepted]
  /\ phase' = "ready"
  /\ UNCHANGED <<accepted, rng, rest, task, spot, readings>>

\* With no step made both reversed bounds are begin(), which is where it is.
ReverseMade ==
  /\ Searching("makeRev")
  /\ MeetsEnd(spot, rng.e)
  /\ rev' = spot
  /\ seen' = [seen EXCEPT !["rev"] = accepted]
  /\ phase' = "ready"
  /\ UNCHANGED <<accepted, rng, rest, task, spot, readings>>

\* Fault: the element that failed the predicate is skipped, too.
RestMadeLate ==
  /\ Searching("makeRest")
  /\ MeetsEnd(spot, rng.e)
  /\ rest' = IF spot = rng.e THEN spot ELSE spot + 1
  /\ seen' = [seen EXCEPT !["rest"] = accepted]
  /\ phase' = "ready"
  /\ UNCHANGED <<accepted, rng, rev, task, spot, readings>>

RestMade ==
  /\ Searching("makeRest")
  /\ MeetsEnd(spot, rng.e)
  /\ rest' = spot
  /\ seen' = [seen EXCEPT !["rest"] = accepted]
  /\ phase' = "ready"
  /\ UNCHANGED <<accepted, rng, rev, task, spot, readings>>

\* A write to an element between traversals.
TaskWrite(x) ==
  /\ phase = "ready"
  /\ accepted' = IF x \in accepted THEN accepted \ {x} ELSE accepted \cup {x}
  /\ task' = "none"
  /\ readings' = <<>>
  /\ UNCHANGED <<rng, rev, rest, seen, phase, spot>>

TaskStep ==
  \/ TaskForward \/ TaskReverse \/ TaskRest \/ FinishTask
  \/ SearchStep \/ ReverseMade \/ RestMade

TaskNext ==
  \/ TaskStep
  \/ BeginForward \/ BeginReverse \/ BeginRest \/ MakeReverse \/ MakeRest \/ TaskLast
  \/ \E x \in 1 .. N : TaskWrite(x)

TaskSpec == TaskInit /\ [][TaskNext]_taskVars

\* A traversal or search that has begun is run on.
TaskFairSpec == TaskSpec /\ WF_taskVars(TaskStep)

-----------------------------------------------------------------------------
(* Correctness.                                                            *)

\* The elements of S at the front of the range end at x.
IsPrefixEnd(x, S) ==
  /\ x \in rng.b .. rng.e
  /\ \A y \in rng.b .. x - 1 : y \in S
  /\ x = rng.e \/ x \notin S

Upwards(x, y) == [i \in 1 .. y - x |-> x + i - 1]

Downwards(x, y) == [i \in 1 .. y - x |-> y - i]

Performed(p) == phase = "ready" /\ task = p

\* A forward loop reads the prefix the predicate accepts now, whatever has been
\* written since the view was made.
ForwardReadsPrefix ==
  Performed("forward") => \E x \in Pos : IsPrefixEnd(x, accepted) /\ readings = Upwards(rng.b, x)

\* A reversed loop reads, backwards, the prefix that was accepted when reverse()
\* was called: later writes do not move its bounds.
ReverseReadsPrefix ==
  Performed("reverse") =>
    \E x \in Pos : IsPrefixEnd(x, seen["rev"]) /\ readings = Downwards(rng.b, x)

\* A loop over skip_while() reads what take_while() left out when the subrange
\* was made: together the two are the whole range, with no element twice.
RestReadsRest ==
  Performed("rest") =>
    \E x \in Pos : IsPrefixEnd(x, seen["rest"]) /\ readings = Upwards(x, rng.e)

\* Every traversal and every search returns.
LoopsEnd == phase # "ready" ~> phase = "ready"

-----------------------------------------------------------------------------
(* The inductive invariant.                                                *)

\* The comparisons so far have accepted everything before it.
AcceptedBelow == spot \in rng.b .. rng.e /\ \A y \in rng.b .. spot - 1 : y \in accepted

TaskLoopInv ==
  /\ phase = "search" => task \in {"makeRev", "makeRest"} /\ AcceptedBelow
  /\ phase = "loop" => task \in {"forward", "reverse", "rest"}
  /\ Performing("forward") => AcceptedBelow /\ readings = Upwards(rng.b, spot)
  /\ Performing("reverse") => spot \in rng.b .. rev /\ readings = Downwards(spot, rev) /\ rev # Unmade
  /\ Performing("rest") => spot \in rest .. rng.e /\ readings = Upwards(rest, spot) /\ rest # Unmade

BoundsInv ==
  /\ rev # Unmade => IsPrefixEnd(rev, seen["rev"])
  /\ rest # Unmade => IsPrefixEnd(rest, seen["rest"])

TaskInv ==
  /\ TaskTypeOK /\ TaskLoopInv /\ BoundsInv
  /\ ForwardReadsPrefix /\ ReverseReadsPrefix /\ RestReadsRest
=============================================================================
