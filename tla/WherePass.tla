------------------------------ MODULE WherePass ------------------------------
(***************************************************************************)
(* Whole traversals of one where_view: the loop of the fold terminals, the *)
(* reversed_view over it (reverse_iterator reads through a decremented     *)
(* copy) and last().  Between two traversals of the same view the program  *)
(* may write to elements in place, as each() does; the view keeps the      *)
(* first match it has cached.                                              *)
(***************************************************************************)
EXTENDS WhereView, Sorted, SequencesExt

CONSTANTS
  V,          \* the view that is traversed, the only one
  It,         \* the iterator the traversal moves
  Bound,      \* the iterator it is compared with
  Tmp,        \* the copy that is decremented to read; these three are all
  MaxWrites   \* bound on the writes to elements

ASSUME OneViewAssumption == Views = {V}
ASSUME ThreeCursorsAssumption ==
  Cursors = {It, Bound, Tmp} /\ It # Bound /\ Bound # Tmp /\ Tmp # It

VARIABLES
  prog,    \* the traversal that runs, or ran last; "none" after a write
  pc,      \* where it is
  out,     \* the positions it has read
  writes   \* the writes so far

passVars == <<prog, pc, out, writes>>
allVars == <<vars, passVars>>

Programs == {"forward", "reverse", "last"}

\* What has been read is kept up to a length no terminating traversal exceeds.
Read(x) == out' = IF Len(out) > N THEN out ELSE Append(out, x)

InitPass ==
  /\ Init
  /\ prog = "none"
  /\ pc = "ready"
  /\ out = <<>>
  /\ writes = 0

\* The iterator that is set to begin(); the other one is set to end().
AtBegin(p) == IF p = "forward" THEN It ELSE Bound
AtEnd(p) == IF p = "forward" THEN Bound ELSE It

Start(p) ==
  /\ pc = "ready"
  /\ BeginCached(AtBegin(p), V) \/ BeginScan(AtBegin(p), V)
  /\ prog' = p
  /\ pc' = "end"
  /\ out' = <<>>
  /\ UNCHANGED writes

TakeEnd ==
  /\ pc = "end"
  /\ op[AtBegin(prog)] = "idle"
  /\ End(AtEnd(prog), V)
  /\ pc' = "test"
  /\ UNCHANGED <<prog, out, writes>>

\* The loop condition fails, or last() finds the range empty and throws.
Finish ==
  /\ pc = "test"
  /\ op[It] = "idle"
  /\ it[It].cur = it[Bound].cur
  /\ pc' = "ready"
  /\ UNCHANGED <<vars, prog, out, writes>>

InLoop(p) ==
  /\ pc = "test"
  /\ prog \in p
  /\ op[It] = "idle"
  /\ it[It].cur # it[Bound].cur

ReadForward ==
  /\ InLoop({"forward"})
  /\ Read(it[It].cur)
  /\ Inc(It)
  /\ UNCHANGED <<prog, pc, writes>>

\* reverse_iterator::operator* and std::prev: a copy is made, ...
CopyToRead ==
  /\ InLoop({"reverse", "last"})
  /\ Assign(Tmp, It)
  /\ pc' = "prev"
  /\ UNCHANGED <<prog, out, writes>>

\* ... decremented ...
StepToRead ==
  /\ pc = "prev"
  /\ Dec(Tmp) \/ DecAtBounds(Tmp)
  /\ pc' = "read"
  /\ UNCHANGED <<prog, out, writes>>

\* Fault: operator* reads through the iterator that was not decremented.
ReadUndecremented ==
  /\ pc = "read"
  /\ prog = "reverse"
  /\ op[Tmp] = "idle"
  /\ Read(it[It].cur)
  /\ Dec(It) \/ DecAtBounds(It)
  /\ pc' = "test"
  /\ UNCHANGED <<prog, writes>>

\* ... and read; reverse_iterator::operator++ decrements the iterator itself.
ReadReverse ==
  /\ pc = "read"
  /\ prog = "reverse"
  /\ op[Tmp] = "idle"
  /\ Read(it[Tmp].cur)
  /\ Dec(It) \/ DecAtBounds(It)
  /\ pc' = "test"
  /\ UNCHANGED <<prog, writes>>

ReadLast ==
  /\ pc = "read"
  /\ prog = "last"
  /\ op[Tmp] = "idle"
  /\ Read(it[Tmp].cur)
  /\ pc' = "ready"
  /\ UNCHANGED <<vars, prog, writes>>

\* A write to an element, between two traversals.
WriteBetween(x) ==
  /\ pc = "ready"
  /\ writes < MaxWrites
  /\ Write(x)
  /\ writes' = writes + 1
  /\ prog' = "none"
  /\ out' = <<>>
  /\ UNCHANGED pc

Run ==
  \/ (\E c \in Cursors : Loop(c)) /\ UNCHANGED passVars
  \/ TakeEnd \/ Finish
  \/ ReadForward \/ CopyToRead \/ StepToRead \/ ReadReverse \/ ReadLast

NextPass ==
  \/ Run
  \/ \E p \in Programs : Start(p)
  \/ \E x \in 1 .. N : WriteBetween(x)

\* A traversal that has begun is run on; the program may stop between two.
PassSpec == InitPass /\ [][NextPass]_allVars /\ WF_allVars(Run)

-----------------------------------------------------------------------------
Returned(p) == pc = "ready" /\ prog = p

\* No write has made the cached first match anything else.
Fresh == view[V].first # Unset => IsFirstFrom(view[V].rng.b, view[V].first, hits, view[V].rng)

\* A forward traversal reads the matches in order, a reversed one the same
\* sequence backwards, last() the last of them; nothing is read twice or missed.
ReadsMatches ==
  LET all == Shown(hits, view[V].rng) IN
  Fresh =>
    /\ Returned("forward") => Lists(out, all)
    /\ Returned("reverse") => Lists(Reverse(out), all)
    /\ Returned("last") => out = IF all = {} THEN <<>> ELSE <<Max(all)>>

\* What a forward traversal reads: the cached first match, match or not, and the
\* matches after it.
FirstAndAfter ==
  LET r == view[V].rng
      first == view[V].first
  IN  ({first} \ {r.e}) \cup {y \in Shown(hits, r) : first < y}

\* A forward traversal sees every earlier write except at its first element:
\* that one stays where the cache put it.
StaleOnlyAtFirst == Returned("forward") => Lists(out, FirstAndAfter)

\* A forward traversal returns whatever has been written before it; the others
\* return if the cached first match is one.
PassEnds == pc # "ready" /\ (prog = "forward" \/ Fresh) ~> pc = "ready"

-----------------------------------------------------------------------------
\* query.h says of begin(): "First element matching `pred_` or `e_`", the bound
\* at which a reversed traversal stops.  With a stale cache it is neither, and
\* no -- ever stands on it.
EveryPassEnds == pc # "ready" ~> pc = "ready"
=============================================================================
