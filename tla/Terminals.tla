------------------------------- MODULE Terminals -------------------------------
(***************************************************************************)
(* Terminals that answer a question about a range in one loop: first_if,   *)
(* index_of (contains, any_if, all_if), last_if, single_if, single,        *)
(* average_if and count_if (sums and other folds), element_at, min_max     *)
(* (min, max, min_by, max_by), sequence_equal, percentile_by; and those of *)
(* them that have a default for an answer.                                 *)
(*                                                                         *)
(* An element is its place, and has a key.  The predicate accepts key 1.   *)
(* Doubles are taken to be exact: percentiles are hundredths of integers.  *)
(***************************************************************************)
EXTENDS Places, FiniteSetsExt

CONSTANTS
  MaxWorth,   \* keys are 0 .. MaxWorth
  MaxIndex,   \* bound on the index of element_at
  Percents    \* percentiles asked for

\* As the keys do, percentiles stand for doubles that are whole.
ASSUME WholePercents == Percents \subseteq Int

VARIABLES
  terminal,  \* the terminal
  worth,     \* worth[x]: the key of element x
  other,     \* the other range of sequence_equal, as the keys of its elements
  arg,       \* the argument of element_at or percentile_by
  direct,    \* whether the range is random-access
  reading,   \* the element the loop is at
  togo,      \* how far element_at has still to go
  found,     \* what has been found so far; in the end the answer, <<>> if there is none
  asking     \* "run", "done" or "thrown"

terminalVars == <<terminal, worth, other, arg, direct, reading, togo, found, asking>>

FirstKinds == {"first_if", "first_or_default_if", "index_of"}
LastKinds == {"last_if", "last_or_default_if"}
SingleIfKinds == {"single_if", "single_or_default_if"}
FoldKinds == {"average_if", "count_if"}
LoopKinds == FirstKinds \cup LastKinds \cup SingleIfKinds \cup FoldKinds
OneKinds == {"single", "single_or_default"}
ExtremeKinds == {"min_max", "min_max_or_default"}
AtKinds == {"element_at", "element_at_or_default"}

\* Those that throw std::out_of_range if there is no answer.
Throwing ==
  {"first_if", "last_if", "single_if", "average_if", "single", "min_max", "element_at", "percentile_by"}

TerminalInit ==
  /\ terminal \in LoopKinds \cup OneKinds \cup ExtremeKinds \cup AtKinds
              \cup {"sequence_equal", "percentile_by"}
  /\ worth \in UNION {[1 .. l -> 0 .. MaxWorth] : l \in 0 .. MaxLen}
  /\ other \in IF terminal = "sequence_equal" THEN UNION {[1 .. l -> 0 .. MaxWorth] : l \in 0 .. MaxLen}
               ELSE {<<>>}
  /\ arg \in CASE terminal \in AtKinds -> 0 .. MaxIndex
             [] terminal = "percentile_by" -> Percents
             [] OTHER -> {0}
  /\ direct \in IF terminal \in AtKinds THEN BOOLEAN ELSE {FALSE}
  /\ reading = 1
  /\ togo = arg
  /\ found = <<>>
  /\ asking = "run"

Matches(x) == worth[x] = 1

ReadAll == reading > Len(worth)

\* Out of the loop with answer a.
Answers(a) ==
  /\ found' = a
  /\ asking' = IF a = <<>> /\ terminal \in Throwing THEN "thrown" ELSE "done"
  /\ UNCHANGED <<terminal, worth, other, arg, direct, reading, togo>>

\* On with the loop, having found f.
GoesOn(f) ==
  /\ found' = f
  /\ reading' = reading + 1
  /\ UNCHANGED <<terminal, worth, other, arg, direct, togo, asking>>

-----------------------------------------------------------------------------
Looking == asking = "run" /\ terminal \in LoopKinds

Passed == Looking /\ ~ReadAll /\ ~Matches(reading) /\ GoesOn(found)

Hit == Looking /\ ~ReadAll /\ Matches(reading)

\* Fault: the first match is kept and the rest is read all the same.
FoundGoesOn == Hit /\ terminal \in FirstKinds /\ GoesOn(IF found = <<>> THEN <<reading>> ELSE found)

Found == Hit /\ terminal \in FirstKinds /\ Answers(<<reading>>)

Kept == Hit /\ terminal \in LastKinds /\ GoesOn(<<reading>>)

FoldedIn == Hit /\ terminal \in FoldKinds /\ GoesOn(Append(found, reading))

Only == Hit /\ terminal \in SingleIfKinds /\ found = <<>> /\ GoesOn(<<reading>>)

\* Fault: with a third match there is one again.
AmbiguousForgotten == Hit /\ terminal \in SingleIfKinds /\ found # <<>> /\ GoesOn(<<>>)

Ambiguous == Hit /\ terminal \in SingleIfKinds /\ found # <<>> /\ Answers(<<>>)

Looked == Looking /\ ReadAll /\ Answers(found)

\* single(): std::next(b) != e
One == asking = "run" /\ terminal \in OneKinds /\ Answers(IF Len(worth) = 1 THEN <<1>> ELSE <<>>)

-----------------------------------------------------------------------------
\* element_at: computed, or a countdown.
Jump ==
  /\ asking = "run"
  /\ terminal \in AtKinds
  /\ direct
  /\ Answers(IF Len(worth) <= arg THEN <<>> ELSE <<arg + 1>>)

CountDown ==
  /\ asking = "run"
  /\ terminal \in AtKinds
  /\ ~direct
  /\ togo > 0
  /\ ~ReadAll
  /\ togo' = togo - 1
  /\ reading' = reading + 1
  /\ UNCHANGED <<terminal, worth, other, arg, direct, found, asking>>

CountedDown ==
  /\ asking = "run"
  /\ terminal \in AtKinds
  /\ ~direct
  /\ togo = 0 \/ ReadAll
  /\ Answers(IF ReadAll THEN <<>> ELSE <<reading>>)

\* min_max: best so far, lo and hi.
Compared ==
  /\ asking = "run"
  /\ terminal \in ExtremeKinds
  /\ ~ReadAll
  /\ GoesOn(IF reading = 1 THEN <<1, 1>>
            ELSE <<IF worth[reading] < worth[found[1]] THEN reading ELSE found[1],
                   IF worth[found[2]] < worth[reading] THEN reading ELSE found[2]>>)

AllCompared == asking = "run" /\ terminal \in ExtremeKinds /\ ReadAll /\ Answers(found)

\* sequence_equal: both ranges are at it.
Paired == asking = "run" /\ terminal = "sequence_equal" /\ ~ReadAll /\ reading <= Len(other)

SameSoFar == Paired /\ worth[reading] = other[reading] /\ GoesOn(found)

Differs == Paired /\ worth[reading] # other[reading] /\ Answers(<<FALSE>>)

OneEnds ==
  /\ asking = "run"
  /\ terminal = "sequence_equal"
  /\ ReadAll \/ reading > Len(other)
  /\ Answers(<<ReadAll /\ reading > Len(other)>>)

-----------------------------------------------------------------------------
Clamp(p) == IF p < 0 THEN 0 ELSE Min({p, 100})

\* Between the order statistics next to rank (Len(s) - 1) * p / 100.
Interpolated(s, p) ==
  LET rank == Clamp(p) * (Len(s) - 1)
      i == rank \div 100
      frac == rank % 100
  IN  IF i + 1 >= Len(s) THEN 100 * s[Len(s)]
      ELSE s[i + 1] * (100 - frac) + s[i + 2] * frac

\* std::sort may leave equal keys in any order: order[j] is the element that comes to place j.
SortOrders ==
  {order \in [DOMAIN worth -> DOMAIN worth] :
     IsInjective(order) /\ \A i, j \in DOMAIN worth : i < j => worth[order[i]] <= worth[order[j]]}

Ranked ==
  /\ asking = "run"
  /\ terminal = "percentile_by"
  /\ \E order \in SortOrders :
       Answers(IF worth = <<>> THEN <<>>
               ELSE <<Interpolated([j \in DOMAIN worth |-> worth[order[j]]], arg)>>)

TerminalNext ==
  \/ Passed \/ Found \/ Kept \/ FoldedIn \/ Only \/ Ambiguous \/ Looked \/ One
  \/ Jump \/ CountDown \/ CountedDown \/ Compared \/ AllCompared
  \/ SameSoFar \/ Differs \/ OneEnds \/ Ranked

TerminalSpec == TerminalInit /\ [][TerminalNext]_terminalVars

-----------------------------------------------------------------------------
Hits == {x \in DOMAIN worth : Matches(x)}

OfSet(S, pick(_)) == IF S = {} THEN <<>> ELSE <<pick(S)>>

Least(S) == Min({x \in S : \A y \in S : worth[x] <= worth[y]})
Greatest(S) == Min({x \in S : \A y \in S : worth[x] >= worth[y]})

\* At most as many keys as p says are less than v / 100, and at most as many as
\* that leaves are greater.
Parts(v, p) ==
  LET less == Cardinality({x \in DOMAIN worth : 100 * worth[x] < v})
      more == Cardinality({x \in DOMAIN worth : 100 * worth[x] > v})
      top == Len(worth) - 1
  IN  100 * (less - 1) < Clamp(p) * top /\ 100 * (more - 1) < (100 - Clamp(p)) * top

\* What is asked for (of folds, that they fold the hits in order).
Answer ==
  CASE terminal \in FirstKinds -> OfSet(Hits, Min)
    [] terminal \in LastKinds -> OfSet(Hits, Max)
    [] terminal \in SingleIfKinds -> IF Cardinality(Hits) = 1 THEN OfSet(Hits, Min) ELSE <<>>
    [] terminal \in OneKinds -> IF Len(worth) = 1 THEN <<1>> ELSE <<>>
    [] terminal \in AtKinds -> IF arg < Len(worth) THEN <<arg + 1>> ELSE <<>>
    [] terminal \in ExtremeKinds -> OfSet(DOMAIN worth, Least) \o OfSet(DOMAIN worth, Greatest)
    [] terminal = "sequence_equal" -> <<worth = other>>

\* A terminal returns what is asked for, the first of equal extremes among them;
\* it throws, if it is one that does, when there is no answer and only then.
TerminalCorrect ==
  asking \in {"done", "thrown"} =>
    /\ IF terminal = "percentile_by"
       THEN (found = <<>> <=> worth = <<>>) /\ (found # <<>> => Parts(found[1], arg))
       ELSE IF terminal \in FoldKinds THEN Lists(found, Hits) ELSE found = Answer
    /\ asking = "thrown" <=> found = <<>> /\ terminal \in Throwing

\* No element is read (and no predicate called) once the answer is known.
StopsInTime ==
  /\ terminal \in FirstKinds => \A x \in Hits : reading <= x
  /\ terminal \in SingleIfKinds => \A x, y \in Hits : x < y => reading <= y
  /\ terminal = "sequence_equal" => \A x \in DOMAIN worth \cap DOMAIN other : worth[x] # other[x] => reading <= x
=============================================================================
