--------------------------- MODULE TerminalProofs ---------------------------
(***************************************************************************)
(* Proofs about Terminals and OrderBy, for ranges of any length and any keys. *)
(***************************************************************************)
EXTENDS Terminals, OrderBy, SortedProofs, TLAPS

(* Terminals. *)

TerminalKinds ==
  LoopKinds \cup OneKinds \cup ExtremeKinds \cup AtKinds \cup {"sequence_equal", "percentile_by"}

\* The hits of keys w before element n.
HitsBefore(w, n) == {x \in 1 .. n - 1 : w[x] = 1}

TerminalShape ==
  /\ terminal \in TerminalKinds
  /\ worth \in Seq(Int) /\ other \in Seq(Int)
  /\ arg \in Int /\ (terminal \in AtKinds => arg >= 0)
  /\ direct \in BOOLEAN
  /\ reading \in 1 .. Len(worth) + 1
  /\ asking \in {"run", "done", "thrown"}

\* No hit has been passed.
NoneSoFar == terminal \in FirstKinds /\ asking = "run" => found = <<>>

LastSoFar ==
  terminal \in LastKinds /\ asking = "run" =>
    \/ found = <<>> /\ HitsBefore(worth, reading) = {}
    \/ \E x \in HitsBefore(worth, reading) :
         found = <<x>> /\ \A y \in HitsBefore(worth, reading) : y <= x

OnlySoFar ==
  terminal \in SingleIfKinds /\ asking = "run" =>
    \/ found = <<>> /\ HitsBefore(worth, reading) = {}
    \/ \E x \in HitsBefore(worth, reading) : found = <<x>> /\ HitsBefore(worth, reading) = {x}

FoldedSoFar ==
  terminal \in FoldKinds /\ asking = "run" =>
    found \in Seq(Int) /\ Lists(found, HitsBefore(worth, reading))

\* found holds the first of the least elements before n, and the first of the greatest.
ExtremeSoFar ==
  terminal \in ExtremeKinds /\ asking = "run" =>
    IF reading = 1 THEN found = <<>>
    ELSE \E lo, hi \in 1 .. reading - 1 :
           /\ found = <<lo, hi>>
           /\ \A x \in 1 .. reading - 1 : worth[lo] <= worth[x] /\ worth[x] <= worth[hi]
           /\ \A x \in 1 .. lo - 1 : worth[lo] < worth[x]
           /\ \A x \in 1 .. hi - 1 : worth[x] < worth[hi]

AtSoFar ==
  terminal \in AtKinds /\ asking = "run" => togo \in Nat /\ togo + reading = arg + 1

SameBefore ==
  terminal = "sequence_equal" /\ asking = "run" =>
    /\ reading <= Len(other) + 1
    /\ \A x \in 1 .. reading - 1 : worth[x] = other[x]

TerminalInv ==
  /\ TerminalShape
  /\ NoneSoFar /\ LastSoFar /\ OnlySoFar /\ FoldedSoFar /\ ExtremeSoFar /\ AtSoFar /\ SameBefore
  /\ TerminalCorrect /\ StopsInTime

\* The answer is about what no step changes.
LEMMA AnswerKept ==
  ASSUME UNCHANGED <<terminal, worth, other, arg>>
  PROVE  Answer' = Answer
<1>1. Hits' = Hits
  BY DEF Hits, Matches
<1>2. OfSet(DOMAIN worth, Least)' = OfSet(DOMAIN worth, Least)
  BY DEF OfSet, Least
<1>3. OfSet(DOMAIN worth, Greatest)' = OfSet(DOMAIN worth, Greatest)
  BY DEF OfSet, Greatest
<1> QED
  BY <1>1, <1>2, <1>3 DEF Answer, OfSet

\* a is right for an answer.
Right(a) ==
  IF terminal = "percentile_by"
  THEN (a = <<>> <=> worth = <<>>) /\ (a # <<>> => Parts(a[1], arg))
  ELSE IF terminal \in FoldKinds THEN Lists(a, Hits) ELSE a = Answer

\* A right answer keeps all that is true of the loop before it.
LEMMA AnswersInv ==
  ASSUME TerminalInv, asking = "run", NEW a, Right(a), Answers(a)
  PROVE  TerminalInv'
<1>1. /\ found' = a /\ asking' \in {"done", "thrown"}
      /\ asking' = "thrown" <=> a = <<>> /\ terminal \in Throwing
      /\ UNCHANGED <<terminal, worth, other, arg, direct, reading, togo>>
  BY DEF Answers
<1>2. TerminalShape'
  BY <1>1 DEF TerminalInv, TerminalShape
<1>3. /\ NoneSoFar' /\ LastSoFar' /\ OnlySoFar' /\ FoldedSoFar' /\ ExtremeSoFar'
      /\ AtSoFar' /\ SameBefore'
  BY <1>1 DEF NoneSoFar, LastSoFar, OnlySoFar, FoldedSoFar, ExtremeSoFar, AtSoFar, SameBefore
<1>4. Hits' = Hits
  BY <1>1 DEF Hits, Matches
<1>5. StopsInTime'
  BY <1>1, <1>4 DEF TerminalInv, StopsInTime
<1>6. Answer' = Answer
  BY <1>1, AnswerKept
<1>7. Parts(found[1], arg)' = Parts(a[1], arg)
  BY <1>1 DEF Parts
<1>8. TerminalCorrect'
  BY <1>1, <1>4, <1>6, <1>7 DEF TerminalCorrect, Right
<1> QED
  BY <1>2, <1>3, <1>5, <1>8 DEF TerminalInv

LEMMA TerminalInitInv == TerminalInit => TerminalInv
<1> SUFFICES ASSUME TerminalInit PROVE TerminalInv
  OBVIOUS
<1>1. \A s \in UNION {[1 .. l -> 0 .. MaxWorth] : l \in 0 .. MaxLen} : s \in Seq(Int)
  <2> SUFFICES ASSUME NEW l \in 0 .. MaxLen, NEW s \in [1 .. l -> 0 .. MaxWorth] PROVE s \in Seq(Int)
    OBVIOUS
  <2>1. s \in [1 .. l -> Int] /\ l \in Nat
    OBVIOUS
  <2> QED
    BY <2>1
<1>2. <<>> \in Seq(Int)
  OBVIOUS
<1>3. /\ worth \in Seq(Int) /\ other \in Seq(Int) /\ reading = 1 /\ found = <<>> /\ asking = "run"
      /\ terminal \in TerminalKinds /\ direct \in BOOLEAN /\ togo = arg
  BY <1>1, <1>2 DEF TerminalInit, TerminalKinds
<1>4. arg \in Int /\ (terminal \in AtKinds => arg \in Nat)
  <2>1. CASE terminal \in AtKinds
    <3>1. arg \in 0 .. MaxIndex
      BY <2>1 DEF TerminalInit, AtKinds
    <3> QED
      BY <3>1
  <2>2. CASE terminal = "percentile_by"
    BY <2>2, WholePercents DEF TerminalInit, AtKinds
  <2>3. CASE terminal \notin AtKinds /\ terminal # "percentile_by"
    BY <2>3 DEF TerminalInit
  <2> QED
    BY <2>1, <2>2, <2>3
<1>5. Len(worth) \in Nat /\ Len(other) \in Nat
  BY <1>3
<1>6. TerminalShape
  BY <1>3, <1>4, <1>5 DEF TerminalShape
<1>7. HitsBefore(worth, 1) = {} /\ \A n \in 1 .. 1 - 1 : FALSE
  BY DEF HitsBefore
<1>8. NoneSoFar /\ LastSoFar /\ OnlySoFar /\ ExtremeSoFar
  BY <1>3, <1>7 DEF NoneSoFar, LastSoFar, OnlySoFar, ExtremeSoFar
<1>9. FoldedSoFar
  BY <1>2, <1>3, <1>7, ListsNone DEF FoldedSoFar
<1>10. AtSoFar
  BY <1>3, <1>4 DEF AtSoFar
<1>11. SameBefore
  BY <1>3, <1>5, <1>7 DEF SameBefore
<1>12. TerminalCorrect
  BY <1>3 DEF TerminalCorrect
<1>13. DOMAIN worth = 1 .. Len(worth)
  BY <1>3
<1>14. StopsInTime
  BY <1>3, <1>5, <1>13 DEF StopsInTime, Hits
<1> QED
  BY <1>6, <1>8, <1>9, <1>10, <1>11, <1>12, <1>14 DEF TerminalInv

-----------------------------------------------------------------------------
(* Loops over hits. *)

\* What is asked for by each kind: kinds are told apart by their names.
LEMMA AskedFor ==
  /\ terminal \in FirstKinds => Answer = OfSet(Hits, Min)
  /\ terminal \in LastKinds => Answer = OfSet(Hits, Max)
  /\ terminal \in SingleIfKinds =>
       Answer = IF Cardinality(Hits) = 1 THEN OfSet(Hits, Min) ELSE <<>>
  /\ terminal \in OneKinds => Answer = IF Len(worth) = 1 THEN <<1>> ELSE <<>>
  /\ terminal \in AtKinds => Answer = IF arg < Len(worth) THEN <<arg + 1>> ELSE <<>>
  /\ terminal \in ExtremeKinds =>
       Answer = OfSet(DOMAIN worth, Least) \o OfSet(DOMAIN worth, Greatest)
  /\ terminal = "sequence_equal" => Answer = <<worth = other>>
BY DEF Answer, FirstKinds, LastKinds, SingleIfKinds, OneKinds, AtKinds, ExtremeKinds

\* The least and the greatest of a set of integers.
LEMMA MinIs ==
  ASSUME NEW S \in SUBSET Int, NEW x \in S, \A y \in S : x <= y
  PROVE  Min(S) = x
<1>1. Min(S) \in S /\ \A y \in S : Min(S) <= y
  BY DEF Min
<1>2. x \in Int /\ Min(S) \in Int
  BY <1>1
<1>3. Min(S) <= x /\ x <= Min(S)
  BY <1>1
<1> QED
  BY <1>2, <1>3

LEMMA MaxIs ==
  ASSUME NEW S \in SUBSET Int, NEW x \in S, \A y \in S : y <= x
  PROVE  Max(S) = x
<1>1. Max(S) \in S /\ \A y \in S : y <= Max(S)
  BY DEF Max
<1>2. x \in Int /\ Max(S) \in Int
  BY <1>1
<1>3. Max(S) >= x /\ x >= Max(S)
  BY <1>1
<1> QED
  BY <1>2, <1>3

\* The hits there are are those before the end, and those before the next element
\* are those before this one and it.
LEMMA HitsFacts ==
  ASSUME TerminalShape
  PROVE  /\ Hits = HitsBefore(worth, Len(worth) + 1)
         /\ Len(worth) \in Nat /\ DOMAIN worth = 1 .. Len(worth) /\ reading \in Int
         /\ HitsBefore(worth, reading) \subseteq Int
         /\ \A x \in HitsBefore(worth, reading) : x < reading
         /\ ~ReadAll /\ Matches(reading) =>
              /\ reading \in 1 .. Len(worth) /\ reading \in Hits
              /\ HitsBefore(worth, reading + 1) = HitsBefore(worth, reading) \cup {reading}
         /\ ~ReadAll /\ ~Matches(reading) =>
              /\ reading \in 1 .. Len(worth) /\ reading \notin Hits
              /\ HitsBefore(worth, reading + 1) = HitsBefore(worth, reading)
         /\ ReadAll => Hits = HitsBefore(worth, reading)
<1>1. Len(worth) \in Nat /\ DOMAIN worth = 1 .. Len(worth) /\ reading \in 1 .. Len(worth) + 1
  BY DEF TerminalShape
<1>2. Len(worth) + 1 - 1 = Len(worth) /\ reading + 1 - 1 = reading
  BY <1>1
<1>3. Hits = HitsBefore(worth, Len(worth) + 1)
  BY <1>1, <1>2 DEF Hits, Matches, HitsBefore
<1>4. ReadAll => reading = Len(worth) + 1
  BY <1>1 DEF ReadAll
<1>5. 1 .. reading + 1 - 1 = (1 .. reading - 1) \cup {reading}
  BY <1>1
<1>6. /\ worth[reading] = 1 => HitsBefore(worth, reading + 1) = HitsBefore(worth, reading) \cup {reading}
      /\ worth[reading] # 1 => HitsBefore(worth, reading + 1) = HitsBefore(worth, reading)
  BY <1>5 DEF HitsBefore
<1>7. ~ReadAll => reading \in 1 .. Len(worth)
  BY <1>1 DEF ReadAll
<1>8. HitsBefore(worth, reading) \subseteq Int /\ \A x \in HitsBefore(worth, reading) : x < reading
  BY <1>1 DEF HitsBefore
<1> QED
  BY <1>1, <1>3, <1>4, <1>6, <1>7, <1>8 DEF Matches, Hits

\* The loop goes on with what is so far so.
LEMMA LoopGoesOn ==
  ASSUME TerminalInv, Looking, ~ReadAll, NEW f, GoesOn(f),
         terminal \in FirstKinds => f = <<>> /\ ~Matches(reading),
         LastSoFar', OnlySoFar', FoldedSoFar',
         terminal \in SingleIfKinds /\ Matches(reading) => found = <<>>
  PROVE  TerminalInv'
<1>1. /\ found' = f /\ reading' = reading + 1 /\ asking = "run" /\ asking' = "run"
      /\ UNCHANGED <<terminal, worth, other, arg, direct, togo>>
      /\ TerminalShape /\ terminal \in LoopKinds
  BY DEF GoesOn, Looking, TerminalInv
<1>2. /\ Len(worth) \in Nat /\ DOMAIN worth = 1 .. Len(worth) /\ reading \in Int
      /\ reading \in 1 .. Len(worth) /\ Hits \subseteq Int
      /\ Matches(reading) <=> reading \in Hits
  <2>1. Hits \subseteq DOMAIN worth
    BY DEF Hits
  <2> QED
    BY <1>1, <2>1, HitsFacts
<1>3. TerminalShape'
  <2>1. reading + 1 \in 1 .. Len(worth) + 1
    BY <1>2
  <2> QED
    BY <1>1, <2>1 DEF TerminalShape
<1>4. terminal \notin ExtremeKinds /\ terminal \notin AtKinds /\ terminal # "sequence_equal"
  BY <1>1 DEF LoopKinds, FirstKinds, LastKinds, SingleIfKinds, FoldKinds, ExtremeKinds, AtKinds
<1>5. ExtremeSoFar' /\ AtSoFar' /\ SameBefore'
  BY <1>1, <1>4 DEF ExtremeSoFar, AtSoFar, SameBefore
<1>6. NoneSoFar' /\ TerminalCorrect'
  BY <1>1 DEF NoneSoFar, TerminalCorrect
<1>7. Hits' = Hits
  BY <1>1 DEF Hits, Matches
<1>8. StopsInTime
  BY DEF TerminalInv
<1>9. ASSUME terminal \in FirstKinds, NEW x \in Hits PROVE reading + 1 <= x
  BY <1>2, <1>8, <1>9 DEF StopsInTime
<1>10. ASSUME terminal \in SingleIfKinds, NEW x \in Hits, NEW y \in Hits, x < y
       PROVE  reading + 1 <= y
  <2>1. reading <= y
    BY <1>8, <1>10 DEF StopsInTime
  <2>2. CASE y = reading
    <3>1. found = <<>>
      BY <1>2, <1>10, <2>2
    <3>2. HitsBefore(worth, reading) = {}
      BY <1>1, <1>10, <3>1 DEF TerminalInv, OnlySoFar
    <3>3. x \in HitsBefore(worth, reading)
      BY <1>2, <1>10, <2>2 DEF Hits, Matches, HitsBefore
    <3> QED
      BY <3>2, <3>3
  <2> QED
    BY <1>2, <2>1, <2>2
<1>11. StopsInTime'
  BY <1>1, <1>4, <1>7, <1>9, <1>10 DEF StopsInTime
<1> QED
  BY <1>1, <1>3, <1>5, <1>6, <1>11 DEF TerminalInv

\* No loop over hits is of two kinds.
LEMMA LoopKindsDisjoint ==
  /\ terminal \in FirstKinds => terminal \notin LastKinds /\ terminal \notin SingleIfKinds /\ terminal \notin FoldKinds
  /\ terminal \in LastKinds => terminal \notin SingleIfKinds /\ terminal \notin FoldKinds
  /\ terminal \in SingleIfKinds => terminal \notin FoldKinds
  /\ terminal \in LoopKinds => terminal # "percentile_by"
BY DEF LoopKinds, FirstKinds, LastKinds, SingleIfKinds, FoldKinds

LEMMA PassedInv == TerminalInv /\ Passed => TerminalInv'
<1> SUFFICES ASSUME TerminalInv, Passed PROVE TerminalInv'
  OBVIOUS
<1>1. /\ Looking /\ ~ReadAll /\ ~Matches(reading) /\ GoesOn(found)
      /\ found' = found /\ reading' = reading + 1 /\ asking = "run" /\ asking' = "run"
      /\ worth' = worth /\ terminal' = terminal /\ TerminalShape
  BY DEF Passed, GoesOn, Looking, TerminalInv
<1>2. HitsBefore(worth, reading + 1) = HitsBefore(worth, reading)
  BY <1>1, HitsFacts
<1>3. LastSoFar' /\ OnlySoFar' /\ FoldedSoFar'
  BY <1>1, <1>2 DEF TerminalInv, LastSoFar, OnlySoFar, FoldedSoFar
<1>4. terminal \in FirstKinds => found = <<>>
  BY <1>1 DEF TerminalInv, NoneSoFar
<1> QED
  BY <1>1, <1>3, <1>4, LoopGoesOn

LEMMA KeptInv == TerminalInv /\ Kept => TerminalInv'
<1> SUFFICES ASSUME TerminalInv, Kept PROVE TerminalInv'
  OBVIOUS
<1>1. /\ Looking /\ ~ReadAll /\ Matches(reading) /\ GoesOn(<<reading>>) /\ terminal \in LastKinds
      /\ found' = <<reading>> /\ reading' = reading + 1 /\ asking = "run" /\ asking' = "run"
      /\ worth' = worth /\ terminal' = terminal /\ TerminalShape
  BY DEF Kept, Hit, GoesOn, Looking, TerminalInv
<1>2. /\ HitsBefore(worth, reading + 1) = HitsBefore(worth, reading) \cup {reading} /\ reading \in Int
      /\ HitsBefore(worth, reading) \subseteq Int /\ \A x \in HitsBefore(worth, reading) : x < reading
  BY <1>1, HitsFacts
<1>3. \A x \in HitsBefore(worth, reading) \cup {reading} : x <= reading
  BY <1>2
<1>4. LastSoFar'
  BY <1>1, <1>2, <1>3 DEF LastSoFar
<1>5. terminal \notin FirstKinds /\ OnlySoFar' /\ FoldedSoFar' /\ terminal \notin SingleIfKinds
  BY <1>1, LoopKindsDisjoint DEF OnlySoFar, FoldedSoFar
<1> QED
  BY <1>1, <1>4, <1>5, LoopGoesOn

LEMMA FoldedInInv == TerminalInv /\ FoldedIn => TerminalInv'
<1> SUFFICES ASSUME TerminalInv, FoldedIn PROVE TerminalInv'
  OBVIOUS
<1>1. /\ Looking /\ ~ReadAll /\ Matches(reading) /\ GoesOn(Append(found, reading)) /\ terminal \in FoldKinds
      /\ found' = Append(found, reading) /\ reading' = reading + 1 /\ asking = "run" /\ asking' = "run"
      /\ worth' = worth /\ terminal' = terminal /\ TerminalShape
  BY DEF FoldedIn, Hit, GoesOn, Looking, TerminalInv
<1>2. /\ HitsBefore(worth, reading + 1) = HitsBefore(worth, reading) \cup {reading} /\ reading \in Int
      /\ \A x \in HitsBefore(worth, reading) : x < reading
  BY <1>1, HitsFacts
<1>3. found \in Seq(Int) /\ Lists(found, HitsBefore(worth, reading))
  BY <1>1 DEF TerminalInv, FoldedSoFar
<1>4. Append(found, reading) \in Seq(Int) /\ Lists(Append(found, reading), HitsBefore(worth, reading + 1))
  BY <1>2, <1>3, ListsAppend
<1>5. FoldedSoFar'
  BY <1>1, <1>4 DEF FoldedSoFar
<1>6. terminal \notin FirstKinds /\ OnlySoFar' /\ LastSoFar' /\ terminal \notin SingleIfKinds
  BY <1>1, LoopKindsDisjoint DEF OnlySoFar, LastSoFar
<1> QED
  BY <1>1, <1>5, <1>6, LoopGoesOn

LEMMA OnlyInv == TerminalInv /\ Only => TerminalInv'
<1> SUFFICES ASSUME TerminalInv, Only PROVE TerminalInv'
  OBVIOUS
<1>1. /\ Looking /\ ~ReadAll /\ Matches(reading) /\ GoesOn(<<reading>>) /\ terminal \in SingleIfKinds
      /\ found' = <<reading>> /\ reading' = reading + 1 /\ asking = "run" /\ asking' = "run"
      /\ worth' = worth /\ terminal' = terminal /\ TerminalShape /\ found = <<>>
  BY DEF Only, Hit, GoesOn, Looking, TerminalInv
<1>2. HitsBefore(worth, reading) = {}
  BY <1>1 DEF TerminalInv, OnlySoFar
<1>3. HitsBefore(worth, reading + 1) = {reading}
  BY <1>1, <1>2, HitsFacts
<1>4. OnlySoFar'
  BY <1>1, <1>3 DEF OnlySoFar
<1>5. terminal \notin FirstKinds /\ FoldedSoFar' /\ LastSoFar'
  BY <1>1, LoopKindsDisjoint DEF FoldedSoFar, LastSoFar
<1> QED
  BY <1>1, <1>4, <1>5, LoopGoesOn

LEMMA FoundInv == TerminalInv /\ Found => TerminalInv'
<1> SUFFICES ASSUME TerminalInv, Found PROVE TerminalInv'
  OBVIOUS
<1>1. /\ Looking /\ ~ReadAll /\ Matches(reading) /\ Answers(<<reading>>) /\ terminal \in FirstKinds
      /\ asking = "run" /\ TerminalShape /\ StopsInTime
  BY DEF Found, Hit, Looking, TerminalInv
<1>2. reading \in Hits /\ Hits \subseteq Int
  <2>1. Hits \subseteq DOMAIN worth
    BY DEF Hits
  <2> QED
    BY <1>1, <2>1, HitsFacts
<1>3. \A x \in Hits : reading <= x
  BY <1>1 DEF StopsInTime
<1>4. Answer = <<reading>>
  BY <1>1, <1>2, <1>3, MinIs, AskedFor DEF OfSet
<1>5. Right(<<reading>>)
  BY <1>1, <1>4, LoopKindsDisjoint DEF Right, LoopKinds
<1> QED
  BY <1>1, <1>5, AnswersInv

\* A second hit: there is no single one.
LEMMA AmbiguousInv == TerminalInv /\ Ambiguous => TerminalInv'
<1> SUFFICES ASSUME TerminalInv, Ambiguous PROVE TerminalInv'
  OBVIOUS
<1>1. /\ Looking /\ ~ReadAll /\ Matches(reading) /\ Answers(<<>>) /\ terminal \in SingleIfKinds
      /\ asking = "run" /\ TerminalShape /\ found # <<>>
  BY DEF Ambiguous, Hit, Looking, TerminalInv
<1>2. PICK x \in HitsBefore(worth, reading) : TRUE
  BY <1>1 DEF TerminalInv, OnlySoFar
<1>3. x \in Hits /\ reading \in Hits /\ x # reading
  <2>1. reading \in Hits /\ reading \in 1 .. Len(worth) /\ DOMAIN worth = 1 .. Len(worth) /\ Len(worth) \in Nat
    BY <1>1, HitsFacts
  <2> QED
    BY <1>2, <2>1 DEF HitsBefore, Hits, Matches
<1>4. Cardinality(Hits) # 1
  <2> SUFFICES ASSUME Cardinality(Hits) = 1 PROVE FALSE
    OBVIOUS
  <2>1. IsFiniteSet(Hits)
    <3>1. IsFiniteSet(1 .. Len(worth)) /\ Hits \subseteq 1 .. Len(worth)
      BY <1>1, HitsFacts, FS_Interval DEF Hits
    <3> QED
      BY <3>1, FS_Subset
  <2>2. \E y : Hits = {y}
    BY <2>1, FS_Singleton
  <2> QED
    BY <1>3, <2>2
<1>5. Answer = <<>>
  BY <1>1, <1>4, AskedFor
<1>6. Right(<<>>)
  BY <1>1, <1>5, LoopKindsDisjoint DEF Right, LoopKinds
<1> QED
  BY <1>1, <1>6, AnswersInv

LEMMA LookedInv == TerminalInv /\ Looked => TerminalInv'
<1> SUFFICES ASSUME TerminalInv, Looked PROVE TerminalInv'
  OBVIOUS
<1>1. /\ ReadAll /\ Answers(found) /\ terminal \in LoopKinds /\ asking = "run" /\ TerminalShape
  BY DEF Looked, Looking, TerminalInv
<1>2. Hits = HitsBefore(worth, reading) /\ Hits \subseteq Int
  BY <1>1, HitsFacts
<1>3. ASSUME terminal \in FirstKinds PROVE Right(found)
  <2>1. found = <<>> /\ \A x \in Hits : reading <= x
    BY <1>1, <1>3 DEF TerminalInv, NoneSoFar, StopsInTime
  <2>2. Hits = {}
    <3>1. \A x \in Hits : x < reading /\ x \in Int
      BY <1>1, <1>2, HitsFacts
    <3>2. reading \in Int
      BY <1>1, HitsFacts
    <3> QED
      BY <2>1, <3>1, <3>2
  <2> QED
    BY <1>3, <2>1, <2>2, AskedFor, LoopKindsDisjoint DEF OfSet, Right, LoopKinds
<1>4. ASSUME terminal \in LastKinds PROVE Right(found)
  <2>1. \/ found = <<>> /\ Hits = {}
        \/ \E x \in Hits : found = <<x>> /\ \A y \in Hits : y <= x
    BY <1>1, <1>2, <1>4 DEF TerminalInv, LastSoFar
  <2>2. found = OfSet(Hits, Max)
    BY <1>2, <2>1, MaxIs DEF OfSet
  <2> QED
    BY <1>1, <1>4, <2>2, AskedFor, LoopKindsDisjoint DEF Right
<1>5. ASSUME terminal \in SingleIfKinds PROVE Right(found)
  <2>1. \/ found = <<>> /\ Hits = {}
        \/ \E x \in Hits : found = <<x>> /\ Hits = {x}
    BY <1>1, <1>2, <1>5 DEF TerminalInv, OnlySoFar
  <2>2. CASE Hits = {}
    <3>1. found = <<>> /\ Cardinality(Hits) = 0
      BY <2>1, <2>2, FS_EmptySet
    <3>2. Answer = <<>>
      BY <1>5, <3>1, AskedFor
    <3> QED
      BY <1>1, <1>5, <3>1, <3>2, LoopKindsDisjoint DEF Right
  <2>3. CASE Hits # {}
    <3>1. PICK x \in Hits : found = <<x>> /\ Hits = {x}
      BY <2>1, <2>3
    <3>2. Cardinality(Hits) = 1
      BY <3>1, FS_Singleton
    <3>3. Min(Hits) = x
      <4>1. x \in Int
        BY <1>2
      <4> QED
        BY <1>2, <3>1, <4>1, MinIs
    <3>4. Answer = <<x>>
      BY <1>5, <3>1, <3>2, <3>3, AskedFor DEF OfSet
    <3> QED
      BY <1>1, <1>5, <3>1, <3>4, LoopKindsDisjoint DEF Right
  <2> QED
    BY <2>2, <2>3
<1>6. ASSUME terminal \in FoldKinds PROVE Right(found)
  BY <1>1, <1>2, <1>6, LoopKindsDisjoint DEF TerminalInv, FoldedSoFar, Right
<1>7. Right(found)
  BY <1>1, <1>3, <1>4, <1>5, <1>6 DEF LoopKinds
<1> QED
  BY <1>1, <1>7, AnswersInv

LEMMA OneInv == TerminalInv /\ One => TerminalInv'
<1> SUFFICES ASSUME TerminalInv, One PROVE TerminalInv'
  OBVIOUS
<1>1. terminal \in OneKinds /\ asking = "run"
  BY DEF One
<1>2. Right(Answer)
  BY <1>1 DEF Right, OneKinds, FoldKinds
<1>3. Answers(Answer)
  BY <1>1, AskedFor DEF One
<1> QED
  BY <1>1, <1>2, <1>3, AnswersInv

-----------------------------------------------------------------------------
(* element_at. *)

LEMMA JumpInv == TerminalInv /\ Jump => TerminalInv'
<1> SUFFICES ASSUME TerminalInv, Jump PROVE TerminalInv'
  OBVIOUS
<1>1. /\ terminal \in AtKinds /\ asking = "run" /\ arg \in Int /\ Len(worth) \in Nat
      /\ Answers(IF Len(worth) <= arg THEN <<>> ELSE <<arg + 1>>)
  BY DEF Jump, TerminalInv, TerminalShape
<1>2. Right(Answer)
  BY <1>1 DEF Right, AtKinds, FoldKinds
<1>3. Answer = IF Len(worth) <= arg THEN <<>> ELSE <<arg + 1>>
  BY <1>1, AskedFor
<1> QED
  BY <1>1, <1>2, <1>3, AnswersInv

LEMMA CountDownInv == TerminalInv /\ CountDown => TerminalInv'
<1> SUFFICES ASSUME TerminalInv, CountDown PROVE TerminalInv'
  OBVIOUS
<1>1. /\ terminal \in AtKinds /\ asking = "run" /\ ~ReadAll /\ togo > 0 /\ togo' = togo - 1
      /\ reading' = reading + 1
      /\ UNCHANGED <<terminal, worth, other, arg, direct, found, asking>>
  BY DEF CountDown
<1>2. TerminalShape /\ togo \in Nat /\ togo + reading = arg + 1
  BY <1>1 DEF TerminalInv, AtSoFar
<1>3. reading \in Int /\ reading + 1 \in 1 .. Len(worth) + 1 /\ arg \in Int
  BY <1>1, <1>2 DEF ReadAll, TerminalShape
<1>4. TerminalShape'
  BY <1>1, <1>2, <1>3 DEF TerminalShape
<1>5. AtSoFar'
  BY <1>1, <1>2, <1>3 DEF AtSoFar
<1>6. /\ terminal \notin LoopKinds /\ terminal \notin ExtremeKinds /\ terminal # "sequence_equal"
  BY <1>1 DEF LoopKinds, FirstKinds, LastKinds, SingleIfKinds, FoldKinds, ExtremeKinds, AtKinds
<1>7. /\ NoneSoFar' /\ LastSoFar' /\ OnlySoFar' /\ FoldedSoFar' /\ ExtremeSoFar' /\ SameBefore'
      /\ StopsInTime'
  BY <1>1, <1>6 DEF NoneSoFar, LastSoFar, OnlySoFar, FoldedSoFar, ExtremeSoFar, SameBefore,
       StopsInTime, LoopKinds
<1>8. TerminalCorrect'
  BY <1>1 DEF TerminalCorrect
<1> QED
  BY <1>4, <1>5, <1>7, <1>8 DEF TerminalInv

LEMMA CountedDownInv == TerminalInv /\ CountedDown => TerminalInv'
<1> SUFFICES ASSUME TerminalInv, CountedDown PROVE TerminalInv'
  OBVIOUS
<1>1. /\ terminal \in AtKinds /\ asking = "run" /\ (togo = 0 \/ ReadAll)
      /\ Answers(IF ReadAll THEN <<>> ELSE <<reading>>)
  BY DEF CountedDown
<1>2. /\ togo \in Nat /\ togo + reading = arg + 1 /\ arg \in Int /\ Len(worth) \in Nat
      /\ reading \in 1 .. Len(worth) + 1
  BY <1>1 DEF TerminalInv, AtSoFar, TerminalShape
<1>3. Right(Answer)
  BY <1>1 DEF Right, AtKinds, FoldKinds
<1>4. Answer = IF ReadAll THEN <<>> ELSE <<reading>>
  <2>1. ReadAll <=> reading = Len(worth) + 1
    BY <1>2 DEF ReadAll
  <2>2. ~ReadAll => reading = arg + 1 /\ arg < Len(worth)
    BY <1>1, <1>2, <2>1
  <2>3. ReadAll => ~(arg < Len(worth))
    BY <1>2, <2>1
  <2> QED
    BY <1>1, <2>2, <2>3, AskedFor
<1> QED
  BY <1>1, <1>3, <1>4, AnswersInv

-----------------------------------------------------------------------------
(* min_max. *)

\* The first of the least, and of the greatest.
LEMMA LeastIs ==
  ASSUME TerminalShape, NEW x \in DOMAIN worth, \A y \in DOMAIN worth : worth[x] <= worth[y],
         \A y \in 1 .. x - 1 : worth[x] < worth[y]
  PROVE  Least(DOMAIN worth) = x
<1> DEFINE S == {z \in DOMAIN worth : \A y \in DOMAIN worth : worth[z] <= worth[y]}
<1>1. DOMAIN worth = 1 .. Len(worth) /\ Len(worth) \in Nat /\ \A y \in DOMAIN worth : worth[y] \in Int
  BY DEF TerminalShape
<1>2. S \in SUBSET Int /\ x \in S
  BY <1>1
<1>3. \A y \in S : x <= y
  <2> SUFFICES ASSUME NEW y \in S, y < x PROVE FALSE
    BY <1>1
  <2>1. worth[y] <= worth[x] /\ y \in 1 .. x - 1
    BY <1>1
  <2>2. worth[x] < worth[y] /\ worth[x] \in Int /\ worth[y] \in Int
    BY <1>1, <2>1
  <2> QED
    BY <2>1, <2>2
<1>4. Min(S) = x
  BY <1>2, <1>3, MinIs
<1> QED
  BY <1>4 DEF Least

LEMMA GreatestIs ==
  ASSUME TerminalShape, NEW x \in DOMAIN worth, \A y \in DOMAIN worth : worth[y] <= worth[x],
         \A y \in 1 .. x - 1 : worth[y] < worth[x]
  PROVE  Greatest(DOMAIN worth) = x
<1> DEFINE S == {z \in DOMAIN worth : \A y \in DOMAIN worth : worth[z] >= worth[y]}
<1>1. DOMAIN worth = 1 .. Len(worth) /\ Len(worth) \in Nat /\ \A y \in DOMAIN worth : worth[y] \in Int
  BY DEF TerminalShape
<1>2. S \in SUBSET Int /\ x \in S
  BY <1>1
<1>3. \A y \in S : x <= y
  <2> SUFFICES ASSUME NEW y \in S, y < x PROVE FALSE
    BY <1>1
  <2>1. worth[y] >= worth[x] /\ y \in 1 .. x - 1
    BY <1>1
  <2>2. worth[y] < worth[x] /\ worth[x] \in Int /\ worth[y] \in Int
    BY <1>1, <2>1
  <2> QED
    BY <2>1, <2>2
<1>4. Min(S) = x
  BY <1>2, <1>3, MinIs
<1> QED
  BY <1>4 DEF Greatest

\* lo is the first of the least of w before n, hi the first of the greatest.
Extremes(w, n, lo, hi) ==
  /\ lo \in 1 .. n - 1 /\ hi \in 1 .. n - 1
  /\ \A x \in 1 .. n - 1 : w[lo] <= w[x] /\ w[x] <= w[hi]
  /\ \A x \in 1 .. lo - 1 : w[lo] < w[x]
  /\ \A x \in 1 .. hi - 1 : w[x] < w[hi]

\* With one more element, it is the least or the greatest if it is less or greater.
LEMMA ExtremesGrow ==
  ASSUME NEW w \in Seq(Int), NEW n \in 1 .. Len(w), NEW lo, NEW hi, Extremes(w, n, lo, hi)
  PROVE  Extremes(w, n + 1, IF w[n] < w[lo] THEN n ELSE lo, IF w[hi] < w[n] THEN n ELSE hi)
<1>1. Len(w) \in Nat /\ \A x \in 1 .. n : w[x] \in Int
  OBVIOUS
<1>2. n \in Int /\ n + 1 - 1 = n /\ 1 .. n = (1 .. n - 1) \cup {n}
  BY <1>1
<1>3. /\ lo \in 1 .. n - 1 /\ hi \in 1 .. n - 1
      /\ \A x \in 1 .. n - 1 : w[lo] <= w[x] /\ w[x] <= w[hi]
      /\ \A x \in 1 .. lo - 1 : w[lo] < w[x]
      /\ \A x \in 1 .. hi - 1 : w[x] < w[hi]
  BY DEF Extremes
<1>4. PICK l : l = IF w[n] < w[lo] THEN n ELSE lo
  OBVIOUS
<1>5. PICK h : h = IF w[hi] < w[n] THEN n ELSE hi
  OBVIOUS
<1>6. l \in 1 .. n /\ h \in 1 .. n
  BY <1>2, <1>3, <1>4, <1>5
<1>7. \A x \in 1 .. n : w[l] <= w[x]
  BY <1>1, <1>2, <1>3, <1>4, SMTT(30)
<1>8. \A x \in 1 .. n : w[x] <= w[h]
  BY <1>1, <1>2, <1>3, <1>5
<1>9. \A x \in 1 .. l - 1 : w[l] < w[x]
  BY <1>1, <1>2, <1>3, <1>4
<1>10. \A x \in 1 .. h - 1 : w[x] < w[h]
  BY <1>1, <1>2, <1>3, <1>5, SMTT(30)
<1>11. Extremes(w, n + 1, l, h)
  BY <1>2, <1>6, <1>7, <1>8, <1>9, <1>10 DEF Extremes
<1> QED
  BY <1>4, <1>5, <1>11

\* What the loop has found, in these terms.
LEMMA ExtremeHeld ==
  ASSUME TerminalInv, terminal \in ExtremeKinds, asking = "run"
  PROVE  IF reading = 1 THEN found = <<>>
         ELSE \E lo, hi \in 1 .. reading - 1 : found = <<lo, hi>> /\ Extremes(worth, reading, lo, hi)
BY DEF TerminalInv, ExtremeSoFar, Extremes

LEMMA ComparedInv == TerminalInv /\ Compared => TerminalInv'
<1> SUFFICES ASSUME TerminalInv, Compared PROVE TerminalInv'
  OBVIOUS
<1> DEFINE f == IF reading = 1 THEN <<1, 1>>
                ELSE <<IF worth[reading] < worth[found[1]] THEN reading ELSE found[1],
                       IF worth[found[2]] < worth[reading] THEN reading ELSE found[2]>>
<1>1. /\ terminal \in ExtremeKinds /\ asking = "run" /\ ~ReadAll
      /\ found' = f /\ reading' = reading + 1 /\ asking' = "run"
      /\ UNCHANGED <<terminal, worth, other, arg, direct, togo>>
  BY DEF Compared, GoesOn
<1> HIDE DEF f
<1>2. /\ TerminalShape /\ worth \in Seq(Int) /\ Len(worth) \in Nat /\ reading \in 1 .. Len(worth)
      /\ reading \in Int /\ reading + 1 \in 1 .. Len(worth) + 1 /\ reading + 1 - 1 = reading
  BY <1>1 DEF TerminalInv, TerminalShape, ReadAll
<1>3. \E lo, hi \in 1 .. reading : f = <<lo, hi>> /\ Extremes(worth, reading + 1, lo, hi)
  <2>1. CASE reading = 1
    <3>1. f = <<1, 1>> /\ 1 \in 1 .. reading
      BY <2>1 DEF f
    <3>2. 1 .. reading + 1 - 1 = {1} /\ 1 .. 1 - 1 = {} /\ worth[1] \in Int
      BY <1>2, <2>1
    <3> PICK l : l = 1
      OBVIOUS
    <3> PICK n : n = reading + 1
      OBVIOUS
    <3>3. n - 1 = 1 /\ l - 1 = 0
      BY <2>1
    <3>4. l \in 1 .. n - 1 /\ (\A x \in 1 .. n - 1 : x = l) /\ (\A x \in 1 .. l - 1 : FALSE)
      BY <3>3
    <3>5. worth[l] <= worth[l]
      BY <3>2
    <3>6. Extremes(worth, n, l, l)
      BY <3>4, <3>5 DEF Extremes
    <3> QED
      BY <3>1, <3>6
  <2>2. CASE reading # 1
    <3>1. PICK lo, hi \in 1 .. reading - 1 : found = <<lo, hi>> /\ Extremes(worth, reading, lo, hi)
      BY <1>1, <2>2, ExtremeHeld
    <3>2. PICK l : l = IF worth[reading] < worth[lo] THEN reading ELSE lo
      OBVIOUS
    <3>3. PICK h : h = IF worth[hi] < worth[reading] THEN reading ELSE hi
      OBVIOUS
    <3>4. Extremes(worth, reading + 1, l, h)
      BY <1>2, <3>1, <3>2, <3>3, ExtremesGrow
    <3>5. found[1] = lo /\ found[2] = hi
      BY <3>1
    <3>6. f = <<l, h>>
      BY <2>2, <3>2, <3>3, <3>5 DEF f
    <3>7. l \in 1 .. reading /\ h \in 1 .. reading
      BY <1>2, <3>4 DEF Extremes
    <3> QED
      BY <3>4, <3>6, <3>7
  <2> QED
    BY <2>1, <2>2
<1>4. ExtremeSoFar'
  <2>1. PICK lo, hi \in 1 .. reading : f = <<lo, hi>> /\ Extremes(worth, reading + 1, lo, hi)
    BY <1>3
  <2>2. reading' # 1 /\ 1 .. reading' - 1 = 1 .. reading
    BY <1>1, <1>2
  <2>3. /\ \A x \in 1 .. reading : worth[lo] <= worth[x] /\ worth[x] <= worth[hi]
        /\ \A x \in 1 .. lo - 1 : worth[lo] < worth[x]
        /\ \A x \in 1 .. hi - 1 : worth[x] < worth[hi]
    BY <1>2, <2>1 DEF Extremes
  <2> QED
    BY <1>1, <2>1, <2>2, <2>3 DEF ExtremeSoFar
<1>5. TerminalShape'
  BY <1>1, <1>2 DEF TerminalShape
<1>6. /\ terminal \notin LoopKinds /\ terminal \notin AtKinds /\ terminal # "sequence_equal"
  BY <1>1 DEF LoopKinds, FirstKinds, LastKinds, SingleIfKinds, FoldKinds, ExtremeKinds, AtKinds
<1>7. /\ NoneSoFar' /\ LastSoFar' /\ OnlySoFar' /\ FoldedSoFar' /\ AtSoFar' /\ SameBefore'
      /\ StopsInTime'
  BY <1>1, <1>6 DEF NoneSoFar, LastSoFar, OnlySoFar, FoldedSoFar, AtSoFar, SameBefore,
       StopsInTime, LoopKinds
<1>8. TerminalCorrect'
  BY <1>1 DEF TerminalCorrect
<1> QED
  BY <1>4, <1>5, <1>7, <1>8 DEF TerminalInv

LEMMA AllComparedInv == TerminalInv /\ AllCompared => TerminalInv'
<1> SUFFICES ASSUME TerminalInv, AllCompared PROVE TerminalInv'
  OBVIOUS
<1>1. terminal \in ExtremeKinds /\ asking = "run" /\ ReadAll /\ Answers(found)
  BY DEF AllCompared
<1>2. /\ TerminalShape /\ Len(worth) \in Nat /\ DOMAIN worth = 1 .. Len(worth)
      /\ reading = Len(worth) + 1 /\ reading - 1 = Len(worth)
  BY <1>1 DEF TerminalInv, TerminalShape, ReadAll
<1>3. Answer = OfSet(DOMAIN worth, Least) \o OfSet(DOMAIN worth, Greatest)
  BY <1>1, AskedFor
<1>4. found = Answer
  <2>1. CASE reading = 1
    <3>1. DOMAIN worth = {}
      BY <1>2, <2>1
    <3>2. Answer = <<>> \o <<>>
      BY <1>3, <3>1 DEF OfSet
    <3> QED
      BY <1>1, <2>1, <3>2, ExtremeHeld
  <2>2. CASE reading # 1
    <3>1. PICK lo, hi \in 1 .. reading - 1 : found = <<lo, hi>> /\ Extremes(worth, reading, lo, hi)
      BY <1>1, <2>2, ExtremeHeld
    <3>2. lo \in DOMAIN worth /\ hi \in DOMAIN worth
      BY <1>2, <3>1
    <3>3. Least(DOMAIN worth) = lo
      BY <1>2, <3>1, <3>2, LeastIs DEF Extremes
    <3>4. Greatest(DOMAIN worth) = hi
      BY <1>2, <3>1, <3>2, GreatestIs DEF Extremes
    <3>5. Answer = <<lo>> \o <<hi>>
      BY <1>3, <3>2, <3>3, <3>4 DEF OfSet
    <3>6. <<lo>> \o <<hi>> = <<lo, hi>>
      BY TwoOnes
    <3> QED
      BY <3>1, <3>5, <3>6
  <2> QED
    BY <2>1, <2>2
<1>5. Right(found)
  BY <1>1, <1>4 DEF Right, ExtremeKinds, FoldKinds
<1> QED
  BY <1>1, <1>5, AnswersInv

-----------------------------------------------------------------------------
(* sequence_equal. *)

LEMMA SameSoFarInv == TerminalInv /\ SameSoFar => TerminalInv'
<1> SUFFICES ASSUME TerminalInv, SameSoFar PROVE TerminalInv'
  OBVIOUS
<1>1. /\ terminal = "sequence_equal" /\ asking = "run" /\ ~ReadAll /\ reading <= Len(other)
      /\ worth[reading] = other[reading]
      /\ found' = found /\ reading' = reading + 1 /\ asking' = "run"
      /\ UNCHANGED <<terminal, worth, other, arg, direct, togo>>
  BY DEF SameSoFar, Paired, GoesOn
<1>2. /\ TerminalShape /\ reading \in 1 .. Len(worth) /\ Len(worth) \in Nat /\ Len(other) \in Nat
      /\ reading \in Int /\ reading + 1 \in 1 .. Len(worth) + 1 /\ reading + 1 - 1 = reading
      /\ DOMAIN worth = 1 .. Len(worth) /\ DOMAIN other = 1 .. Len(other)
  BY <1>1 DEF TerminalInv, TerminalShape, ReadAll
<1>3. TerminalShape'
  BY <1>1, <1>2 DEF TerminalShape
<1>4. SameBefore'
  <2>1. \A x \in 1 .. reading : worth[x] = other[x]
    BY <1>1, <1>2 DEF TerminalInv, SameBefore
  <2> QED
    BY <1>1, <1>2, <2>1 DEF SameBefore
<1>5. /\ terminal \notin LoopKinds /\ terminal \notin AtKinds /\ terminal \notin ExtremeKinds
  BY <1>1 DEF LoopKinds, FirstKinds, LastKinds, SingleIfKinds, FoldKinds, ExtremeKinds, AtKinds
<1>6. NoneSoFar' /\ LastSoFar' /\ OnlySoFar' /\ FoldedSoFar' /\ AtSoFar' /\ ExtremeSoFar'
  BY <1>1, <1>5 DEF NoneSoFar, LastSoFar, OnlySoFar, FoldedSoFar, AtSoFar, ExtremeSoFar, LoopKinds
<1>7. ASSUME NEW x \in DOMAIN worth \cap DOMAIN other, worth[x] # other[x] PROVE reading + 1 <= x
  <2>1. reading <= x /\ reading # x /\ x \in Int
    BY <1>1, <1>2, <1>7 DEF TerminalInv, StopsInTime
  <2> QED
    BY <1>2, <2>1
<1>8. StopsInTime'
  BY <1>1, <1>5, <1>7 DEF StopsInTime, LoopKinds
<1>9. TerminalCorrect'
  BY <1>1 DEF TerminalCorrect
<1> QED
  BY <1>3, <1>4, <1>6, <1>8, <1>9 DEF TerminalInv

LEMMA DiffersInv == TerminalInv /\ Differs => TerminalInv'
<1> SUFFICES ASSUME TerminalInv, Differs PROVE TerminalInv'
  OBVIOUS
<1>1. /\ terminal = "sequence_equal" /\ asking = "run" /\ worth[reading] # other[reading]
      /\ Answers(<<FALSE>>)
  BY DEF Differs, Paired
<1>2. (worth = other) = FALSE
  BY <1>1
<1>3. Answer = <<FALSE>>
  BY <1>1, <1>2, AskedFor
<1>4. Right(<<FALSE>>)
  BY <1>1, <1>3 DEF Right, FoldKinds
<1> QED
  BY <1>1, <1>4, AnswersInv

LEMMA OneEndsInv == TerminalInv /\ OneEnds => TerminalInv'
<1> SUFFICES ASSUME TerminalInv, OneEnds PROVE TerminalInv'
  OBVIOUS
<1> DEFINE both == ReadAll /\ reading > Len(other)
<1>1. /\ terminal = "sequence_equal" /\ asking = "run" /\ (ReadAll \/ reading > Len(other))
      /\ Answers(<<both>>)
  BY DEF OneEnds
<1>2. /\ worth \in Seq(Int) /\ other \in Seq(Int) /\ Len(worth) \in Nat /\ Len(other) \in Nat
      /\ reading \in 1 .. Len(worth) + 1 /\ reading <= Len(other) + 1
      /\ \A x \in 1 .. reading - 1 : worth[x] = other[x]
  BY <1>1 DEF TerminalInv, TerminalShape, SameBefore
<1>3. both <=> worth = other
  <2>1. ASSUME both PROVE worth = other
    <3>1. Len(worth) = reading - 1 /\ Len(other) = reading - 1
      BY <1>2, <2>1 DEF ReadAll
    <3> QED
      BY <1>2, <3>1
  <2>2. ASSUME worth = other PROVE both
    BY <1>1, <1>2, <2>2 DEF ReadAll
  <2> QED
    BY <2>1, <2>2
<1>4. both = (worth = other)
  BY <1>3
<1>5. Answer = <<both>>
  BY <1>1, <1>4, AskedFor
<1>6. Right(<<both>>)
  BY <1>1, <1>5 DEF Right, FoldKinds
<1> QED
  BY <1>1, <1>6, AnswersInv

-----------------------------------------------------------------------------
(* percentile_by. *)

\* A set that a sequence of n elements covers has at most n.
LEMMA CoveredBy ==
  ASSUME NEW n \in Nat, NEW f, NEW S, \A x \in S : \E j \in 1 .. n : x = f[j]
  PROVE  Cardinality(S) \in Nat /\ Cardinality(S) <= n
<1> DEFINE J == {j \in 1 .. n : f[j] \in S}
           g == [j \in J |-> f[j]]
<1>1. IsFiniteSet(1 .. n) /\ Cardinality(1 .. n) = n
  <2>1. Cardinality(1 .. n) = IF 1 > n THEN 0 ELSE n - 1 + 1
    BY FS_Interval
  <2> QED
    BY <2>1, FS_Interval
<1>2. IsFiniteSet(J) /\ Cardinality(J) <= n
  <2>1. J \in SUBSET (1 .. n)
    OBVIOUS
  <2> QED
    BY <1>1, <2>1, FS_Subset
<1>3. g \in Surjection(J, S)
  BY DEF Surjection
<1>4. IsFiniteSet(S) /\ Cardinality(S) <= Cardinality(J)
  BY <1>2, <1>3, FS_Surjection
<1> QED
  BY <1>2, <1>4, FS_CardinalityType

\* 0 <= d * f <= 100 * d for a part f of a hundred.
LEMMA Part ==
  ASSUME NEW d \in Int, NEW f \in 0 .. 100, d >= 0
  PROVE  0 <= d * f /\ d * f <= 100 * d
OBVIOUS

LEMMA ClampType == ASSUME NEW p \in Int PROVE Clamp(p) \in 0 .. 100
<1>1. CASE p < 0
  BY <1>1 DEF Clamp
<1>2. CASE ~(p < 0)
  <2>1. Min({p, 100}) = IF p <= 100 THEN p ELSE 100
    <3>1. {p, 100} \in SUBSET Int
      OBVIOUS
    <3>2. CASE p <= 100
      BY <3>1, <3>2, MinIs
    <3>3. CASE ~(p <= 100)
      BY <3>1, <3>3, MinIs
    <3> QED
      BY <3>2, <3>3
  <2>2. Clamp(p) = IF p <= 100 THEN p ELSE 100
    BY <1>2, <2>1 DEF Clamp
  <2> QED
    BY <1>2, <2>2
<1> QED
  BY <1>1, <1>2

\* An order of all elements reaches each of them.
LEMMA OrderReaches ==
  ASSUME NEW n \in Nat, NEW order \in [1 .. n -> 1 .. n], IsInjective(order)
  PROVE  \A x \in 1 .. n : \E j \in 1 .. n : order[j] = x
<1>1. order \in Injection(1 .. n, 1 .. n)
  BY DEF IsInjective, Injection
<1>2. IsFiniteSet(1 .. n)
  BY FS_Interval
<1>3. order \in Surjection(1 .. n, 1 .. n)
  BY <1>1, <1>2, FS_Injection
<1> QED
  BY <1>3 DEF Surjection

\* How far p percent of the way through n elements is, in hundredths.
Hundredths(n, p) == Clamp(p) * (n - 1)

LEMMA HundredthsFacts ==
  ASSUME NEW n \in Nat, n >= 1, NEW p \in Int
  PROVE  /\ Hundredths(n, p) \in Int
         /\ 0 <= Hundredths(n, p) /\ Hundredths(n, p) <= 100 * (n - 1)
         /\ (100 - Clamp(p)) * (n - 1) = 100 * (n - 1) - Hundredths(n, p)
<1>1. PICK c : c = Clamp(p)
  OBVIOUS
<1>2. PICK d : d = n - 1
  OBVIOUS
<1>3. c \in 0 .. 100 /\ c \in Int
  BY <1>1, ClampType
<1>4. d \in Int /\ d >= 0
  BY <1>2
<1>5. 0 <= d * c /\ d * c <= 100 * d
  BY <1>3, <1>4, Part
<1>6. d * c = c * d /\ c * d \in Int /\ (100 - c) * d = 100 * d - c * d
  BY <1>3, <1>4
<1>7. Hundredths(n, p) = c * d
  BY <1>1, <1>2 DEF Hundredths
<1> QED
  BY <1>1, <1>2, <1>5, <1>6, <1>7

\* Between a and b, f hundredths of the way.
Blend(a, b, f) == a * (100 - f) + b * f

LEMMA BlendBetween ==
  ASSUME NEW a \in Int, NEW b \in Int, a <= b, NEW f \in 0 .. 99
  PROVE  /\ Blend(a, b, f) \in Int
         /\ 100 * a <= Blend(a, b, f) /\ Blend(a, b, f) <= 100 * b
         /\ f = 0 => Blend(a, b, f) = 100 * a
<1>1. PICK d \in Int : d = b - a
  OBVIOUS
<1>2. d >= 0 /\ b = a + d /\ f \in 0 .. 100
  BY <1>1
<1>3. 0 <= d * f /\ d * f <= 100 * d /\ d * f \in Int
  BY <1>2, Part
<1>4. Blend(a, b, f) = 100 * a + d * f
  <2>1. a * (100 - f) + (a + d) * f = 100 * a + d * f
    OBVIOUS
  <2> QED
    BY <1>2, <2>1 DEF Blend
<1>5. PICK m \in Int : m = d * f
  BY <1>3
<1>6. 100 * a <= 100 * a + m /\ 100 * a + m <= 100 * b
  BY <1>2, <1>3, <1>5
<1>7. f = 0 => m = 0
  BY <1>5
<1> QED
  BY <1>4, <1>5, <1>6, <1>7

\* s holds the n keys w in their order.
InOrder(s, w, order, n) ==
  /\ w \in Seq(Int) /\ Len(w) = n /\ s \in Seq(Int) /\ Len(s) = n
  /\ order \in [1 .. n -> 1 .. n] /\ IsInjective(order)
  /\ \A j \in 1 .. n : s[j] = w[order[j]]
  /\ \A j, k \in 1 .. n : j <= k => s[j] <= s[k]

\* v lies i whole and f hundredths of the way through s.
Lies(s, n, i, f, v) ==
  /\ i = n - 1 => f = 0 /\ v = 100 * s[n]
  /\ i < n - 1 =>
       /\ 100 * s[i + 1] <= v /\ v <= 100 * s[i + 2]
       /\ f = 0 => v = 100 * s[i + 1]

LEMMA PercentileLies ==
  ASSUME NEW n \in Nat, n >= 1, NEW s, NEW w, NEW order, InOrder(s, w, order, n), NEW p \in Int
  PROVE  \E i \in 0 .. n - 1, f \in 0 .. 99, v \in Int :
           v = Interpolated(s, p) /\ Hundredths(n, p) = 100 * i + f /\ Lies(s, n, i, f, v)
<1>1. PICK rank \in Int : rank = Hundredths(n, p)
  BY HundredthsFacts
<1>2. 0 <= rank /\ rank <= 100 * (n - 1)
  BY <1>1, HundredthsFacts
<1>3. PICK i \in Int : i = rank \div 100
  OBVIOUS
<1>4. PICK f \in Int : f = rank % 100
  OBVIOUS
<1>5. f \in 0 .. 99 /\ rank = 100 * i + f
  BY <1>3, <1>4
<1>6. i \in 0 .. n - 1 /\ (i = n - 1 => f = 0)
  BY <1>2, <1>5
<1>7. Len(s) = n
  BY DEF InOrder
<1>8. Interpolated(s, p) = IF i + 1 >= n THEN 100 * s[n] ELSE Blend(s[i + 1], s[i + 2], f)
  BY <1>1, <1>3, <1>4, <1>7 DEF Interpolated, Hundredths, Blend
<1>9. PICK v : v = Interpolated(s, p)
  OBVIOUS
<1>10. CASE i < n - 1
  <2>1. i + 1 \in 1 .. n /\ i + 2 \in 1 .. n /\ i + 1 <= i + 2 /\ ~(i + 1 >= n)
    BY <1>6, <1>10
  <2>2. s[i + 1] \in Int /\ s[i + 2] \in Int /\ s[i + 1] <= s[i + 2]
    BY <2>1 DEF InOrder
  <2>3. v = Blend(s[i + 1], s[i + 2], f)
    BY <1>8, <1>9, <2>1
  <2>4. /\ v \in Int /\ 100 * s[i + 1] <= v /\ v <= 100 * s[i + 2]
        /\ f = 0 => v = 100 * s[i + 1]
    BY <1>5, <2>2, <2>3, BlendBetween
  <2>5. Lies(s, n, i, f, v)
    BY <1>6, <1>10, <2>4 DEF Lies
  <2> QED
    BY <1>1, <1>5, <1>6, <1>9, <2>4, <2>5
<1>11. CASE i = n - 1
  <2>1. i + 1 >= n /\ n \in 1 .. n
    BY <1>11
  <2>2. s[n] \in Int
    BY <2>1 DEF InOrder
  <2>3. v = 100 * s[n] /\ v \in Int
    BY <1>8, <1>9, <2>1, <2>2
  <2>4. Lies(s, n, i, f, v)
    BY <1>6, <1>11, <2>3 DEF Lies
  <2> QED
    BY <1>1, <1>5, <1>6, <1>9, <2>3, <2>4
<1> QED
  BY <1>6, <1>10, <1>11

\* The elements with keys w that are less, and greater, than v / 100.
Lesser(w, n, v) == {x \in 1 .. n : 100 * w[x] < v}
Greater(w, n, v) == {x \in 1 .. n : 100 * w[x] > v}

LEMMA Reached ==
  ASSUME NEW n \in Nat, NEW s, NEW w, NEW order, InOrder(s, w, order, n), NEW x \in 1 .. n
  PROVE  \E j \in 1 .. n : order[j] = x /\ s[j] = w[x]
<1>1. PICK j \in 1 .. n : order[j] = x
  BY OrderReaches DEF InOrder
<1> QED
  BY <1>1 DEF InOrder

\* At most k are less, if only the first k in order may be; and at most n - k
\* greater, if only those after them may be.
LEMMA FewLess ==
  ASSUME NEW n \in Nat, NEW s, NEW w, NEW order, InOrder(s, w, order, n), NEW v \in Int,
         NEW k \in Nat
  PROVE  (\A j \in 1 .. n : 100 * s[j] < v => j <= k) =>
           Cardinality(Lesser(w, n, v)) \in Nat /\ Cardinality(Lesser(w, n, v)) <= k
<1> SUFFICES ASSUME \A j \in 1 .. n : 100 * s[j] < v => j <= k
             PROVE  Cardinality(Lesser(w, n, v)) \in Nat /\ Cardinality(Lesser(w, n, v)) <= k
  OBVIOUS
<1>1. ASSUME NEW x \in Lesser(w, n, v) PROVE \E j \in 1 .. k : x = order[j]
  <2>1. x \in 1 .. n /\ 100 * w[x] < v
    BY DEF Lesser
  <2>2. PICK j \in 1 .. n : order[j] = x /\ s[j] = w[x]
    BY <2>1, Reached
  <2>3. j \in 1 .. k
    BY <2>1, <2>2
  <2> QED
    BY <2>2, <2>3
<1> QED
  BY <1>1, CoveredBy

LEMMA FewGreater ==
  ASSUME NEW n \in Nat, NEW s, NEW w, NEW order, InOrder(s, w, order, n), NEW v \in Int,
         NEW k \in 0 .. n
  PROVE  (\A j \in 1 .. n : 100 * s[j] > v => j > k) =>
           Cardinality(Greater(w, n, v)) \in Nat /\ Cardinality(Greater(w, n, v)) <= n - k
<1> SUFFICES ASSUME \A j \in 1 .. n : 100 * s[j] > v => j > k
             PROVE  Cardinality(Greater(w, n, v)) \in Nat /\ Cardinality(Greater(w, n, v)) <= n - k
  OBVIOUS
<1>1. PICK m \in Nat : m = n - k
  OBVIOUS
<1>2. PICK f : f = [j \in 1 .. m |-> order[j + k]]
  OBVIOUS
<1>3. ASSUME NEW x \in Greater(w, n, v) PROVE \E j \in 1 .. m : x = f[j]
  <2>1. x \in 1 .. n /\ 100 * w[x] > v
    BY DEF Greater
  <2>2. PICK j \in 1 .. n : order[j] = x /\ s[j] = w[x]
    BY <2>1, Reached
  <2>3. j > k
    BY <2>1, <2>2
  <2>4. j - k \in 1 .. m /\ j - k + k = j
    BY <1>1, <2>3
  <2>5. f[j - k] = order[j]
    BY <1>2, <2>4
  <2> QED
    BY <2>2, <2>4, <2>5
<1>4. Cardinality(Greater(w, n, v)) \in Nat /\ Cardinality(Greater(w, n, v)) <= m
  BY <1>3, CoveredBy
<1> QED
  BY <1>1, <1>4

\* v parts n keys w at h hundredths.
PartsFrom(w, n, v, h) ==
  /\ 100 * (Cardinality(Lesser(w, n, v)) - 1) < h
  /\ 100 * (Cardinality(Greater(w, n, v)) - 1) < 100 * (n - 1) - h

LEMMA PartsSum ==
  ASSUME NEW n \in Nat, NEW i \in Int, NEW f \in 0 .. 99, NEW less \in Nat, NEW more \in Nat,
         less <= i + 1, f = 0 => less <= i, more <= n - (i + 1)
  PROVE  100 * (less - 1) < 100 * i + f /\ 100 * (more - 1) < 100 * (n - 1) - (100 * i + f)
<1>1. CASE f = 0
  BY <1>1
<1>2. CASE f >= 1
  BY <1>2
<1> QED
  BY <1>1, <1>2

\* A percentile that lies so parts the keys.
LEMMA PartsAt ==
  ASSUME NEW n \in Nat, n >= 1, NEW s, NEW w, NEW order, InOrder(s, w, order, n),
         NEW i \in 0 .. n - 1, NEW f \in 0 .. 99, NEW v \in Int, Lies(s, n, i, f, v)
  PROVE  PartsFrom(w, n, v, 100 * i + f)
<1>1. \A j \in 1 .. n : s[j] \in Int
  BY DEF InOrder
<1>2. \A j, k \in 1 .. n : j <= k => s[j] <= s[k]
  BY DEF InOrder
<1>3. PICK less : less = Cardinality(Lesser(w, n, v))
  OBVIOUS
<1>4. PICK more : more = Cardinality(Greater(w, n, v))
  OBVIOUS
<1>5. CASE i = n - 1
  <2>1. f = 0 /\ v = 100 * s[n] /\ n \in 1 .. n /\ n - 1 \in Nat /\ n \in 0 .. n
    BY <1>5 DEF Lies
  <2>2. \A j \in 1 .. n : 100 * s[j] < v => j <= n - 1
    BY <2>1
  <2>3. less \in Nat /\ less <= n - 1
    BY <1>3, <2>1, <2>2, FewLess
  <2>4. \A j \in 1 .. n : 100 * s[j] > v => j > n
    <3> SUFFICES ASSUME NEW j \in 1 .. n PROVE ~(100 * s[j] > v)
      OBVIOUS
    <3>1. s[j] <= s[n] /\ s[j] \in Int /\ s[n] \in Int
      BY <1>1, <1>2, <2>1
    <3> QED
      BY <2>1, <3>1
  <2>5. more \in Nat /\ more <= n - n
    BY <1>4, <2>1, <2>4, FewGreater
  <2>6. less <= i /\ less <= i + 1 /\ more <= n - (i + 1)
    BY <1>5, <2>3, <2>5
  <2> QED
    BY <1>3, <1>4, <2>3, <2>5, <2>6, PartsSum DEF PartsFrom
<1>6. CASE i < n - 1
  <2>1. i + 1 \in 1 .. n /\ i + 2 \in 1 .. n /\ i \in Nat /\ i + 1 \in Nat /\ i + 1 \in 0 .. n
    BY <1>6
  <2>2. 100 * s[i + 1] <= v /\ v <= 100 * s[i + 2] /\ (f = 0 => v = 100 * s[i + 1])
    BY <1>6 DEF Lies
  <2>3. \A j \in 1 .. n : 100 * s[j] < v => j <= i + 1
    <3> SUFFICES ASSUME NEW j \in 1 .. n, i + 2 <= j PROVE ~(100 * s[j] < v)
      BY <2>1
    <3>1. s[i + 2] <= s[j] /\ s[j] \in Int /\ s[i + 2] \in Int
      BY <1>1, <1>2, <2>1
    <3> QED
      BY <2>2, <3>1
  <2>4. f = 0 => \A j \in 1 .. n : 100 * s[j] < v => j <= i
    <3> SUFFICES ASSUME f = 0, NEW j \in 1 .. n, i + 1 <= j PROVE ~(100 * s[j] < v)
      BY <2>1
    <3>1. s[i + 1] <= s[j] /\ s[j] \in Int /\ s[i + 1] \in Int
      BY <1>1, <1>2, <2>1
    <3> QED
      BY <2>2, <3>1
  <2>5. \A j \in 1 .. n : 100 * s[j] > v => j > i + 1
    <3> SUFFICES ASSUME NEW j \in 1 .. n, j <= i + 1 PROVE ~(100 * s[j] > v)
      BY <2>1
    <3>1. s[j] <= s[i + 1] /\ s[j] \in Int /\ s[i + 1] \in Int
      BY <1>1, <1>2, <2>1
    <3> QED
      BY <2>2, <3>1
  <2>6. less \in Nat /\ less <= i + 1
    BY <1>3, <2>1, <2>3, FewLess
  <2>7. f = 0 => less <= i
    BY <1>3, <2>1, <2>4, FewLess
  <2>8. more \in Nat /\ more <= n - (i + 1)
    BY <1>4, <2>1, <2>5, FewGreater
  <2> QED
    BY <1>3, <1>4, <2>1, <2>6, <2>7, <2>8, PartsSum DEF PartsFrom
<1>7. i = n - 1 \/ i < n - 1
  OBVIOUS
<1> QED
  BY <1>5, <1>6, <1>7

\* The percentile of any order parts the keys.
LEMMA PercentileParts ==
  ASSUME NEW n \in Nat, n >= 1, NEW s, NEW w, NEW order, InOrder(s, w, order, n), NEW p \in Int,
         NEW v, v = Interpolated(s, p)
  PROVE  /\ 100 * (Cardinality(Lesser(w, n, v)) - 1) < Clamp(p) * (n - 1)
         /\ 100 * (Cardinality(Greater(w, n, v)) - 1) < (100 - Clamp(p)) * (n - 1)
<1>0. PICK i \in 0 .. n - 1, f \in 0 .. 99, u \in Int :
        u = Interpolated(s, p) /\ Hundredths(n, p) = 100 * i + f /\ Lies(s, n, i, f, u)
  BY PercentileLies
<1>1. v \in Int /\ Hundredths(n, p) = 100 * i + f /\ Lies(s, n, i, f, v)
  BY <1>0
<1>2. PartsFrom(w, n, v, 100 * i + f)
  <2>1. v \in Int /\ Lies(s, n, i, f, v)
    BY <1>1
  <2> QED
    BY <2>1, PartsAt
<1>3. /\ Clamp(p) * (n - 1) = 100 * i + f
      /\ (100 - Clamp(p)) * (n - 1) = 100 * (n - 1) - (100 * i + f)
  BY <1>1, HundredthsFacts DEF Hundredths
<1> QED
  BY <1>2, <1>3 DEF PartsFrom

LEMMA RankedInv == TerminalInv /\ Ranked => TerminalInv'
<1> SUFFICES ASSUME TerminalInv, Ranked PROVE TerminalInv'
  OBVIOUS
<1>1. asking = "run" /\ terminal = "percentile_by"
  BY DEF Ranked
<1>2. PICK order \in SortOrders :
        Answers(IF worth = <<>> THEN <<>>
                ELSE <<Interpolated([j \in DOMAIN worth |-> worth[order[j]]], arg)>>)
  BY DEF Ranked
<1>a1. PICK v : v = Interpolated([j \in DOMAIN worth |-> worth[order[j]]], arg)
  OBVIOUS
<1>a2. PICK n : n = Len(worth)
  OBVIOUS
<1>3. worth \in Seq(Int) /\ n \in Nat /\ DOMAIN worth = 1 .. n /\ arg \in Int
  BY <1>a2 DEF TerminalInv, TerminalShape
<1>4. CASE worth = <<>>
  <2>1. Right(<<>>)
    BY <1>1, <1>4 DEF Right
  <2> QED
    BY <1>1, <1>2, <1>4, <2>1, AnswersInv
<1>5. CASE worth # <<>>
  <2>1. n >= 1
    BY <1>3, <1>5, <1>a2
  <2>2. /\ order \in [1 .. n -> 1 .. n] /\ IsInjective(order)
        /\ \A j, k \in 1 .. n : j < k => worth[order[j]] <= worth[order[k]]
    BY <1>3 DEF SortOrders
  <2>3. PICK s : s = [j \in 1 .. n |-> worth[order[j]]]
    OBVIOUS
  <2>8. /\ s \in Seq(Int) /\ Len(s) = n /\ \A j \in 1 .. n : s[j] = worth[order[j]] /\ s[j] \in Int
    BY <1>3, <2>2, <2>3
  <2>9. \A j, k \in 1 .. n : j <= k => s[j] <= s[k]
    <3> SUFFICES ASSUME NEW j \in 1 .. n, NEW k \in 1 .. n, j <= k PROVE s[j] <= s[k]
      OBVIOUS
    <3>1. CASE j = k
      BY <2>8, <3>1
    <3>2. CASE j < k
      BY <2>2, <2>8, <3>2
    <3> QED
      BY <1>3, <3>1, <3>2
  <2>10. v = Interpolated(s, arg)
    BY <1>3, <1>a1, <2>3
  <2>11. InOrder(s, worth, order, n)
    BY <1>3, <1>a2, <2>2, <2>8, <2>9 DEF InOrder
  <2>4. /\ 100 * (Cardinality(Lesser(worth, n, v)) - 1) < Clamp(arg) * (n - 1)
        /\ 100 * (Cardinality(Greater(worth, n, v)) - 1) < (100 - Clamp(arg)) * (n - 1)
    BY <1>3, <2>1, <2>10, <2>11, PercentileParts
  <2>5. Parts(v, arg)
    BY <1>3, <1>a2, <2>4 DEF Parts, Lesser, Greater
  <2>6. Right(<<v>>)
    BY <1>1, <1>5, <2>5 DEF Right
  <2>7. Answers(<<v>>)
    BY <1>2, <1>5, <1>a1
  <2> QED
    BY <1>1, <2>6, <2>7, AnswersInv
<1> QED
  BY <1>4, <1>5

-----------------------------------------------------------------------------
LEMMA TerminalNextInv == TerminalInv /\ [TerminalNext]_terminalVars => TerminalInv'
<1> SUFFICES ASSUME TerminalInv, [TerminalNext]_terminalVars PROVE TerminalInv'
  OBVIOUS
<1>1. CASE UNCHANGED terminalVars
  <2>1. UNCHANGED <<terminal, worth, other, arg, direct, reading, togo, found, asking>>
    BY <1>1 DEF terminalVars
  <2>2. /\ TerminalShape' /\ NoneSoFar' /\ LastSoFar' /\ OnlySoFar' /\ FoldedSoFar' /\ ExtremeSoFar'
        /\ AtSoFar' /\ SameBefore'
    BY <2>1 DEF TerminalInv, TerminalShape, NoneSoFar, LastSoFar, OnlySoFar, FoldedSoFar,
         ExtremeSoFar, AtSoFar, SameBefore
  <2>3. Hits' = Hits /\ Answer' = Answer /\ Parts(found[1], arg)' = Parts(found[1], arg)
    BY <2>1, AnswerKept DEF Hits, Matches, Parts
  <2>4. TerminalCorrect' /\ StopsInTime'
    BY <2>1, <2>3 DEF TerminalInv, TerminalCorrect, StopsInTime
  <2> QED
    BY <2>2, <2>4 DEF TerminalInv
<1>2. CASE Passed \/ Found \/ Kept \/ FoldedIn \/ Only \/ Ambiguous \/ Looked \/ One
  BY <1>2, PassedInv, FoundInv, KeptInv, FoldedInInv, OnlyInv, AmbiguousInv, LookedInv, OneInv
<1>3. CASE Jump \/ CountDown \/ CountedDown \/ Compared \/ AllCompared
  BY <1>3, JumpInv, CountDownInv, CountedDownInv, ComparedInv, AllComparedInv
<1>4. CASE SameSoFar \/ Differs \/ OneEnds \/ Ranked
  BY <1>4, SameSoFarInv, DiffersInv, OneEndsInv, RankedInv
<1> QED
  BY <1>1, <1>2, <1>3, <1>4 DEF TerminalNext

\* A terminal returns the first or last match, the only one, the element at an
\* index, the first of equal extremes, whether two ranges are equal, or a
\* percentile that parts the range as asked, for a range of any length; and throws
\* if it is one that does, when there is no answer and only then.
THEOREM TerminalsAnswer == TerminalSpec => []TerminalCorrect
<1>1. TerminalInv => TerminalCorrect
  BY DEF TerminalInv
<1> QED
  BY <1>1, TerminalInitInv, TerminalNextInv, PTL DEF TerminalSpec

\* No terminal reads past the element that decides, whatever the range.
THEOREM TerminalsStop == TerminalSpec => []StopsInTime
<1>1. TerminalInv => StopsInTime
  BY DEF TerminalInv
<1> QED
  BY <1>1, TerminalInitInv, TerminalNextInv, PTL DEF TerminalSpec

-----------------------------------------------------------------------------
(* order_by. *)

\* Keys a come before keys b by the filters f: at the first level where they differ.
KeysFirst(f, a, b) ==
  \E l \in DOMAIN f :
    /\ \A m \in 1 .. l - 1 : a[m] = b[m]
    /\ a[l] # b[l]
    /\ (f[l] = "asc") = (a[l] < b[l])

OrderShape ==
  /\ filters \in Seq({"asc", "desc"}) /\ Len(filters) >= 1
  /\ keys \in Seq([DOMAIN filters -> Int])

OrderInv == OrderShape /\ OrderCorrect

\* Keys that differ, differ at a first level.
LEMMA FirstDifference ==
  ASSUME NEW n \in Nat, NEW a \in [1 .. n -> Int], NEW b \in [1 .. n -> Int], a # b
  PROVE  \E l \in 1 .. n : a[l] # b[l] /\ \A m \in 1 .. l - 1 : a[m] = b[m]
<1> DEFINE D == {l \in 1 .. n : a[l] # b[l]}
<1>1. D # {}
  OBVIOUS
<1>2. D \in SUBSET Nat
  OBVIOUS
<1>3. PICK l \in D : \A m \in D : l <= m
  BY <1>1, <1>2, LeastExists
<1>4. ASSUME NEW m \in 1 .. l - 1 PROVE a[m] = b[m]
  <2>1. m \in 1 .. n /\ ~(l <= m)
    OBVIOUS
  <2> QED
    BY <1>3, <2>1
<1> QED
  BY <1>3, <1>4

\* KeysFirst is a strict order, total on keys that differ.
LEMMA KeysTotal ==
  ASSUME NEW n \in Nat, NEW f \in [1 .. n -> {"asc", "desc"}],
         NEW a \in [1 .. n -> Int], NEW b \in [1 .. n -> Int], a # b
  PROVE  KeysFirst(f, a, b) \/ KeysFirst(f, b, a)
<1>1. PICK l \in 1 .. n : a[l] # b[l] /\ \A m \in 1 .. l - 1 : a[m] = b[m]
  BY FirstDifference
<1>2. a[l] \in Int /\ b[l] \in Int /\ DOMAIN f = 1 .. n
  OBVIOUS
<1>3. CASE (f[l] = "asc") = (a[l] < b[l])
  BY <1>1, <1>2, <1>3 DEF KeysFirst
<1>4. CASE (f[l] = "asc") # (a[l] < b[l])
  <2>1. (f[l] = "asc") = (b[l] < a[l])
    BY <1>1, <1>2, <1>4
  <2>2. b[l] # a[l] /\ \A m \in 1 .. l - 1 : b[m] = a[m]
    BY <1>1
  <2> QED
    BY <1>2, <2>1, <2>2 DEF KeysFirst
<1> QED
  BY <1>3, <1>4

LEMMA KeysAsymmetric ==
  ASSUME NEW n \in Nat, NEW f \in [1 .. n -> {"asc", "desc"}],
         NEW a \in [1 .. n -> Int], NEW b \in [1 .. n -> Int], KeysFirst(f, a, b)
  PROVE  a # b /\ ~KeysFirst(f, b, a)
<1>1. DOMAIN f = 1 .. n
  OBVIOUS
<1>2. PICK l \in 1 .. n :
        (\A m \in 1 .. l - 1 : a[m] = b[m]) /\ a[l] # b[l] /\ (f[l] = "asc") = (a[l] < b[l])
  BY <1>1 DEF KeysFirst
<1>3. ASSUME KeysFirst(f, b, a) PROVE FALSE
  <2>1. PICK k \in 1 .. n :
          (\A m \in 1 .. k - 1 : b[m] = a[m]) /\ b[k] # a[k] /\ (f[k] = "asc") = (b[k] < a[k])
    BY <1>1, <1>3 DEF KeysFirst
  <2>2. k = l
    <3>1. ~(k < l)
      <4>1. k < l => k \in 1 .. l - 1
        OBVIOUS
      <4> QED
        BY <1>2, <2>1, <4>1
    <3>2. ~(l < k)
      <4>1. l < k => l \in 1 .. k - 1
        OBVIOUS
      <4> QED
        BY <1>2, <2>1, <4>1
    <3> QED
      BY <3>1, <3>2
  <2>3. a[l] \in Int /\ b[l] \in Int
    OBVIOUS
  <2> QED
    BY <1>2, <2>1, <2>2, <2>3
<1> QED
  BY <1>2, <1>3

LEMMA KeysTransitive ==
  ASSUME NEW n \in Nat, NEW f \in [1 .. n -> {"asc", "desc"}],
         NEW a \in [1 .. n -> Int], NEW b \in [1 .. n -> Int], NEW c \in [1 .. n -> Int],
         KeysFirst(f, a, b), KeysFirst(f, b, c)
  PROVE  KeysFirst(f, a, c)
<1>1. DOMAIN f = 1 .. n
  OBVIOUS
<1>2. PICK l \in 1 .. n :
        (\A m \in 1 .. l - 1 : a[m] = b[m]) /\ a[l] # b[l] /\ (f[l] = "asc") = (a[l] < b[l])
  BY <1>1 DEF KeysFirst
<1>3. PICK k \in 1 .. n :
        (\A m \in 1 .. k - 1 : b[m] = c[m]) /\ b[k] # c[k] /\ (f[k] = "asc") = (b[k] < c[k])
  BY <1>1 DEF KeysFirst
<1>4. \A m \in 1 .. n : a[m] \in Int /\ b[m] \in Int /\ c[m] \in Int
  OBVIOUS
<1>5. CASE k < l
  <2>1. k \in 1 .. l - 1 /\ \A m \in 1 .. k - 1 : m \in 1 .. l - 1
    BY <1>5
  <2>2. a[k] = b[k] /\ \A m \in 1 .. k - 1 : a[m] = c[m]
    BY <1>2, <1>3, <2>1
  <2> QED
    BY <1>1, <1>3, <2>2 DEF KeysFirst
<1>6. CASE l < k
  <2>1. l \in 1 .. k - 1 /\ \A m \in 1 .. l - 1 : m \in 1 .. k - 1
    BY <1>6
  <2>2. b[l] = c[l] /\ \A m \in 1 .. l - 1 : a[m] = c[m]
    BY <1>2, <1>3, <2>1
  <2> QED
    BY <1>1, <1>2, <2>2 DEF KeysFirst
<1>7. CASE l = k
  <2>1. \A m \in 1 .. l - 1 : a[m] = c[m]
    BY <1>2, <1>3, <1>7
  <2>2. a[l] # c[l] /\ (f[l] = "asc") = (a[l] < c[l])
    <3>1. a[l] \in Int /\ b[l] \in Int /\ c[l] \in Int
      BY <1>4
    <3> QED
      BY <1>2, <1>3, <1>7, <3>1
  <2> QED
    BY <1>1, <2>1, <2>2 DEF KeysFirst
<1> QED
  BY <1>5, <1>6, <1>7

-----------------------------------------------------------------------------
\* What lexicographic_compare computes, with the levels at which the first element
\* is less or greater as asked (P) and those at which keys are tied (T): there is a
\* function as its recursion says, ...
Recurs(n, P, T, g) == \A l \in 1 .. n : g[l] = (l \in P \/ (l < n /\ l \in T /\ g[l + 1]))

LEMMA FromExists ==
  ASSUME NEW n \in Nat, NEW P, NEW T
  PROVE  \E g \in [1 .. n -> BOOLEAN] : Recurs(n, P, T, g)
<1> DEFINE W(l) == \E k \in l .. n : k \in P /\ \A m \in l .. k - 1 : m \in T
<1>1. ASSUME NEW l \in 1 .. n PROVE W(l) <=> l \in P \/ (l < n /\ l \in T /\ W(l + 1))
  <2>1. ASSUME W(l) PROVE l \in P \/ (l < n /\ l \in T /\ W(l + 1))
    <3>1. PICK k \in l .. n : k \in P /\ \A m \in l .. k - 1 : m \in T
      BY <2>1
    <3>2. CASE k # l
      <4>1. l < n /\ l \in l .. k - 1 /\ k \in l + 1 .. n /\ \A m \in l + 1 .. k - 1 : m \in l .. k - 1
        BY <3>2
      <4> QED
        BY <3>1, <4>1
    <3> QED
      BY <3>1, <3>2
  <2>2. ASSUME l \in P PROVE W(l)
    <3>1. l \in l .. n /\ \A m \in l .. l - 1 : FALSE
      OBVIOUS
    <3> QED
      BY <2>2, <3>1
  <2>3. ASSUME l < n, l \in T, W(l + 1) PROVE W(l)
    <3>1. PICK k \in l + 1 .. n : k \in P /\ \A m \in l + 1 .. k - 1 : m \in T
      BY <2>3
    <3>2. k \in l .. n /\ \A m \in l .. k - 1 : m = l \/ m \in l + 1 .. k - 1
      OBVIOUS
    <3> QED
      BY <2>3, <3>1, <3>2
  <2> QED
    BY <2>1, <2>2, <2>3
<1> HIDE DEF W
<1>2. PICK g : g = [l \in 1 .. n |-> W(l)]
  OBVIOUS
<1>3. ASSUME NEW l \in 1 .. n PROVE g[l] = (l \in P \/ (l < n /\ l \in T /\ g[l + 1]))
  <2>1. l < n => l + 1 \in 1 .. n /\ g[l + 1] = W(l + 1)
    BY <1>2
  <2>2. g[l] = W(l)
    BY <1>2
  <2>3. (l \in P \/ (l < n /\ l \in T /\ W(l + 1))) <=> (l \in P \/ (l < n /\ l \in T /\ g[l + 1]))
    BY <2>1
  <2>4. W(l) \in BOOLEAN
    BY DEF W
  <2> QED
    BY <1>1, <2>2, <2>3, <2>4
<1>4. g \in [1 .. n -> BOOLEAN]
  BY <1>2 DEF W
<1> QED
  BY <1>3, <1>4 DEF Recurs

\* ... and whatever function is says whether there is a first level that decides.
LEMMA FromFirst ==
  ASSUME NEW n \in Nat, n >= 1, NEW P, NEW T, NEW g, Recurs(n, P, T, g)
  PROVE  g[1] <=> \E l \in 1 .. n : l \in P /\ \A m \in 1 .. l - 1 : m \in T
<1>0. \A l \in 1 .. n : g[l] = (l \in P \/ (l < n /\ l \in T /\ g[l + 1]))
  BY DEF Recurs
<1>1. ASSUME NEW l \in 1 .. n, l \in P, \A m \in 1 .. l - 1 : m \in T, ~g[1] PROVE FALSE
  <2> DEFINE S == {k \in 1 .. l : ~g[k]}
  <2>1. 1 \in S /\ S \in SUBSET (0 .. n)
    BY <1>1
  <2>2. PICK k \in S : \A j \in S : j <= k
    BY <2>1, GreatestExists
  <2>3. k # l
    BY <1>0, <1>1
  <2>4. k + 1 \in 1 .. l /\ k \in 1 .. l - 1 /\ k < n /\ ~(k + 1 <= k)
    BY <2>3
  <2>5. g[k + 1]
    BY <2>2, <2>4
  <2>6. k \in T /\ k \in 1 .. n /\ ~g[k]
    BY <1>1, <2>4
  <2>7. g[k] = (k \in P \/ (k < n /\ k \in T /\ g[k + 1]))
    BY <1>0, <2>6
  <2> QED
    BY <2>4, <2>5, <2>6, <2>7
<1>2. ASSUME g[1] PROVE \E l \in 1 .. n : l \in P /\ \A m \in 1 .. l - 1 : m \in T
  <2> DEFINE S == {k \in 1 .. n : g[k] /\ \A m \in 1 .. k - 1 : m \in T}
  <2>1. 1 \in S /\ S \in SUBSET (0 .. n)
    <3>1. 1 \in 1 .. n /\ \A m \in 1 .. 1 - 1 : FALSE
      OBVIOUS
    <3> QED
      BY <1>2, <3>1
  <2>2. PICK k \in S : \A j \in S : j <= k
    BY <2>1, GreatestExists
  <2>3. CASE k \in P
    BY <2>3
  <2>4. CASE k \notin P
    <3>1. k < n /\ k \in T /\ g[k + 1]
      BY <1>0, <2>4
    <3>2. k + 1 \in 1 .. n /\ ~(k + 1 <= k) /\ \A m \in 1 .. k + 1 - 1 : m = k \/ m \in 1 .. k - 1
      BY <3>1
    <3>3. k + 1 \in S
      BY <3>1, <3>2
    <3> QED
      BY <2>2, <3>2, <3>3
  <2> QED
    BY <2>3, <2>4
<1> QED
  BY <1>1, <1>2

\* So the recursion compares by the first level where keys differ.
LEMMA LexFirst ==
  ASSUME OrderShape, NEW x \in DOMAIN keys, NEW y \in DOMAIN keys
  PROVE  LexLess(x, y) <=> KeysFirst(filters, keys[x], keys[y])
<1> PICK n : n = Len(filters)
  OBVIOUS
<1>1. n \in Nat /\ n >= 1 /\ DOMAIN filters = 1 .. n /\ \A l \in 1 .. n : filters[l] \in {"asc", "desc"}
  BY DEF OrderShape
<1>2. \A l \in 1 .. n : keys[x][l] \in Int /\ keys[y][l] \in Int
  BY <1>1 DEF OrderShape
<1>a. PICK P : P = {l \in 1 .. n : Primary(l, x, y)}
  OBVIOUS
<1>b. PICK T : T = {l \in 1 .. n : Tied(l, x, y)}
  OBVIOUS
<1> DEFINE Step(g) == [l \in DOMAIN filters |->
                         \/ Primary(l, x, y)
                         \/ l < Len(filters) /\ Tied(l, x, y) /\ g[l + 1]]
           from == CHOOSE g : g = Step(g)
           Pure(g) == [l \in 1 .. n |-> l \in P \/ (l < n /\ l \in T /\ g[l + 1])]
<1>3. LexLess(x, y) = from[1]
  BY DEF LexLess
<1>4. \A g : Step(g) = Pure(g)
  <2> SUFFICES ASSUME NEW g PROVE Step(g) = Pure(g)
    OBVIOUS
  <2>1. \A l \in 1 .. n :
          (Primary(l, x, y) \/ (l < n /\ Tied(l, x, y) /\ g[l + 1])) = (l \in P \/ (l < n /\ l \in T /\ g[l + 1]))
    BY <1>a, <1>b
  <2> QED
    BY <1>1, <2>1
<1>5. \E g : g = Pure(g)
  <2> HIDE DEF Step, from
  <2>1. PICK g \in [1 .. n -> BOOLEAN] : Recurs(n, P, T, g)
    <3>1. n \in Nat
      BY <1>1
    <3> QED
      BY <3>1, FromExists
  <2>2. g = Pure(g)
    BY <2>1 DEF Recurs
  <2> QED
    BY <2>2
<1> HIDE DEF Step
<1>6. from = Pure(from)
  <2> HIDE DEF Pure
  <2>1. \E g : g = Step(g)
    BY <1>4, <1>5
  <2>2. from = Step(from)
    BY <2>1
  <2> QED
    BY <1>4, <2>2
<1> HIDE DEF from
<1>7. Recurs(n, P, T, from)
  BY <1>6 DEF Recurs
<1> HIDE DEF Pure
<1>8. from[1] <=> \E l \in 1 .. n : l \in P /\ \A m \in 1 .. l - 1 : m \in T
  BY <1>1, <1>7, FromFirst
<1>9. ASSUME NEW l \in 1 .. n
      PROVE  l \in P <=> keys[x][l] # keys[y][l] /\ (filters[l] = "asc") = (keys[x][l] < keys[y][l])
  BY <1>1, <1>2, <1>a DEF Primary
<1>10. ASSUME NEW l \in 1 .. n PROVE l \in T <=> keys[x][l] = keys[y][l]
  BY <1>b DEF Tied
<1>11. ASSUME NEW l \in 1 .. n, l \in P, \A m \in 1 .. l - 1 : m \in T
       PROVE  KeysFirst(filters, keys[x], keys[y])
  <2>1. \A m \in 1 .. l - 1 : m \in 1 .. n
    BY <1>1
  <2>2. \A m \in 1 .. l - 1 : keys[x][m] = keys[y][m]
    BY <1>10, <1>11, <2>1
  <2> QED
    BY <1>1, <1>9, <1>11, <2>2 DEF KeysFirst
<1>12. ASSUME KeysFirst(filters, keys[x], keys[y])
       PROVE  \E l \in 1 .. n : l \in P /\ \A m \in 1 .. l - 1 : m \in T
  <2>1. PICK l \in 1 .. n :
          /\ \A m \in 1 .. l - 1 : keys[x][m] = keys[y][m]
          /\ keys[x][l] # keys[y][l] /\ (filters[l] = "asc") = (keys[x][l] < keys[y][l])
    BY <1>1, <1>12 DEF KeysFirst
  <2>2. \A m \in 1 .. l - 1 : m \in 1 .. n
    BY <1>1
  <2> QED
    BY <1>9, <1>10, <2>1, <2>2
<1> QED
  BY <1>3, <1>8, <1>11, <1>12

-----------------------------------------------------------------------------
(* What comes first, and how many come before an element. *)

LEMMA ComesFirstIs ==
  ASSUME NEW x, NEW y
  PROVE  ComesFirst(x, y) <=> KeysFirst(filters, keys[x], keys[y]) \/ (keys[x] = keys[y] /\ x < y)
BY DEF ComesFirst, KeysFirst

LEMMA ComesFirstOrder ==
  ASSUME OrderShape, NEW x \in DOMAIN keys, NEW y \in DOMAIN keys
  PROVE  /\ x # y => ComesFirst(x, y) \/ ComesFirst(y, x)
         /\ ComesFirst(x, y) => x # y /\ ~ComesFirst(y, x)
         /\ \A z \in DOMAIN keys : ComesFirst(x, y) /\ ComesFirst(y, z) => ComesFirst(x, z)
<1>1. PICK n \in Nat : filters \in [1 .. n -> {"asc", "desc"}] /\ DOMAIN filters = 1 .. n
  BY DEF OrderShape
<1>2. \A z \in DOMAIN keys : keys[z] \in [1 .. n -> Int] /\ z \in Int
  BY <1>1 DEF OrderShape
<1>3. PICK f \in [1 .. n -> {"asc", "desc"}] : f = filters
  BY <1>1
<1>4. PICK a \in [1 .. n -> Int] : a = keys[x]
  BY <1>2
<1>5. PICK b \in [1 .. n -> Int] : b = keys[y]
  BY <1>2
<1>6. x \in Int /\ y \in Int
  BY <1>2
<1>7. /\ ComesFirst(x, y) <=> KeysFirst(f, a, b) \/ (a = b /\ x < y)
      /\ ComesFirst(y, x) <=> KeysFirst(f, b, a) \/ (b = a /\ y < x)
  BY <1>3, <1>4, <1>5, ComesFirstIs
<1>8. x # y => ComesFirst(x, y) \/ ComesFirst(y, x)
  <2>1. a # b => KeysFirst(f, a, b) \/ KeysFirst(f, b, a)
    BY KeysTotal
  <2>2. x # y => x < y \/ y < x
    BY <1>6
  <2> QED
    BY <1>7, <2>1, <2>2
<1>9. /\ KeysFirst(f, a, b) => a # b /\ ~KeysFirst(f, b, a)
      /\ KeysFirst(f, b, a) => b # a
  BY KeysAsymmetric
<1>10. ComesFirst(x, y) => x # y /\ ~ComesFirst(y, x)
  <2>1. x = y => a = b
    BY <1>4, <1>5
  <2>2. x < y => x # y /\ ~(y < x)
    BY <1>6
  <2> QED
    BY <1>7, <1>9, <2>1, <2>2
<1>11. ASSUME NEW z \in DOMAIN keys, ComesFirst(x, y), ComesFirst(y, z) PROVE ComesFirst(x, z)
  <2>1. PICK c \in [1 .. n -> Int] : c = keys[z]
    BY <1>2
  <2>2. z \in Int
    BY <1>2
  <2>3. /\ ComesFirst(y, z) <=> KeysFirst(f, b, c) \/ (b = c /\ y < z)
        /\ ComesFirst(x, z) <=> KeysFirst(f, a, c) \/ (a = c /\ x < z)
    BY <1>3, <1>4, <1>5, <2>1, ComesFirstIs
  <2>4. KeysFirst(f, a, b) /\ KeysFirst(f, b, c) => KeysFirst(f, a, c)
    BY KeysTransitive
  <2>5. x < y /\ y < z => x < z
    BY <1>6, <2>2
  <2> QED
    BY <1>7, <1>11, <2>3, <2>4, <2>5
<1> QED
  BY <1>8, <1>10, <1>11

Before(x) == {y \in DOMAIN keys : ComesFirst(y, x)}

\* std::stable_sort counts the elements that come before.
LEMMA RankIs ==
  ASSUME OrderShape, NEW x \in DOMAIN keys
  PROVE  Rank(x) = 1 + Cardinality(Before(x))
<1>1. ASSUME NEW y \in DOMAIN keys
      PROVE  (LexLess(y, x) \/ (~LexLess(x, y) /\ y < x)) <=> ComesFirst(y, x)
  <2>1. PICK n \in Nat : filters \in [1 .. n -> {"asc", "desc"}] /\ DOMAIN filters = 1 .. n
    BY DEF OrderShape
  <2>2. keys[x] \in [1 .. n -> Int] /\ keys[y] \in [1 .. n -> Int]
    BY <2>1 DEF OrderShape
  <2>3. /\ LexLess(y, x) <=> KeysFirst(filters, keys[y], keys[x])
        /\ LexLess(x, y) <=> KeysFirst(filters, keys[x], keys[y])
    BY LexFirst
  <2>4. ComesFirst(y, x) <=> KeysFirst(filters, keys[y], keys[x]) \/ (keys[y] = keys[x] /\ y < x)
    BY ComesFirstIs
  <2>5. keys[x] # keys[y] =>
          KeysFirst(filters, keys[x], keys[y]) \/ KeysFirst(filters, keys[y], keys[x])
    BY <2>1, <2>2, KeysTotal
  <2>6. /\ KeysFirst(filters, keys[x], keys[y]) => keys[x] # keys[y] /\ ~KeysFirst(filters, keys[y], keys[x])
        /\ KeysFirst(filters, keys[y], keys[x]) => keys[y] # keys[x]
    BY <2>1, <2>2, KeysAsymmetric
  <2> QED
    BY <2>3, <2>4, <2>5, <2>6
<1>2. {y \in DOMAIN keys : LexLess(y, x) \/ (~LexLess(x, y) /\ y < x)} = Before(x)
  BY <1>1 DEF Before
<1> QED
  BY <1>2 DEF Rank

\* Ranks are different places of the range, lower for what comes first.
LEMMA RankPlaces ==
  ASSUME OrderShape
  PROVE  /\ \A x \in DOMAIN keys : Rank(x) \in DOMAIN keys
         /\ \A x, y \in DOMAIN keys : ComesFirst(x, y) => Rank(x) < Rank(y)
<1>1. PICK n \in Nat : DOMAIN keys = 1 .. n
  BY DEF OrderShape
<1>2. IsFiniteSet(DOMAIN keys) /\ Cardinality(DOMAIN keys) = n
  <2>1. IsFiniteSet(1 .. n) /\ Cardinality(1 .. n) = IF 1 > n THEN 0 ELSE n - 1 + 1
    BY FS_Interval
  <2> QED
    BY <1>1, <2>1
<1>3. ASSUME NEW x \in DOMAIN keys
      PROVE  /\ IsFiniteSet(Before(x)) /\ x \notin Before(x)
             /\ Cardinality(Before(x)) \in Nat /\ Cardinality(Before(x)) < n
  <2>1. x \notin Before(x)
    BY ComesFirstOrder DEF Before
  <2>2. Before(x) \cup {x} \subseteq DOMAIN keys
    BY DEF Before
  <2>3. IsFiniteSet(Before(x)) /\ Cardinality(Before(x) \cup {x}) <= n
    <3>1. Before(x) \in SUBSET DOMAIN keys /\ (Before(x) \cup {x}) \in SUBSET DOMAIN keys
      BY <2>2
    <3> QED
      BY <1>2, <3>1, FS_Subset
  <2>4. Cardinality(Before(x) \cup {x}) = Cardinality(Before(x)) + 1
    BY <2>1, <2>3, FS_AddElement
  <2>5. Cardinality(Before(x)) \in Nat
    BY <2>3, FS_CardinalityType
  <2> QED
    BY <2>1, <2>3, <2>4, <2>5
<1>4. ASSUME NEW x \in DOMAIN keys PROVE Rank(x) \in DOMAIN keys
  <2>1. Rank(x) = 1 + Cardinality(Before(x))
    BY RankIs
  <2>2. Cardinality(Before(x)) \in Nat /\ Cardinality(Before(x)) < n
    BY <1>3
  <2> QED
    BY <1>1, <2>1, <2>2
<1>5. ASSUME NEW x \in DOMAIN keys, NEW y \in DOMAIN keys, ComesFirst(x, y) PROVE Rank(x) < Rank(y)
  <2>1. (Before(x) \cup {x}) \in SUBSET Before(y)
    <3>1. x \in Before(y)
      BY <1>5 DEF Before
    <3>2. ASSUME NEW z \in Before(x) PROVE z \in Before(y)
      <4>1. z \in DOMAIN keys /\ ComesFirst(z, x)
        BY DEF Before
      <4>2. ComesFirst(z, y)
        BY <1>5, <4>1, ComesFirstOrder
      <4> QED
        BY <4>1, <4>2 DEF Before
    <3> QED
      BY <3>1, <3>2
  <2>2. Cardinality(Before(x) \cup {x}) <= Cardinality(Before(y))
    BY <1>3, <2>1, FS_Subset
  <2>3. Cardinality(Before(x) \cup {x}) = Cardinality(Before(x)) + 1
    BY <1>3, FS_AddElement
  <2>4. Cardinality(Before(x)) \in Nat /\ Cardinality(Before(y)) \in Nat
    BY <1>3
  <2>5. Rank(x) = 1 + Cardinality(Before(x)) /\ Rank(y) = 1 + Cardinality(Before(y))
    BY RankIs
  <2> QED
    BY <2>2, <2>3, <2>4, <2>5
<1> QED
  BY <1>4, <1>5

\* So each place is the rank of one element.
LEMMA RankReaches ==
  ASSUME OrderShape, NEW j \in DOMAIN keys
  PROVE  \E x \in DOMAIN keys : Rank(x) = j
<1>1. PICK n \in Nat : DOMAIN keys = 1 .. n
  BY DEF OrderShape
<1>2. IsFiniteSet(DOMAIN keys)
  BY <1>1, FS_Interval
<1>3. PICK r : r = [x \in DOMAIN keys |-> Rank(x)]
  OBVIOUS
<1>4. ASSUME NEW x \in DOMAIN keys, NEW y \in DOMAIN keys, Rank(x) = Rank(y) PROVE x = y
  <2>1. Rank(x) \in Int /\ Rank(y) \in Int
    BY <1>1, RankPlaces
  <2>2. ~(Rank(x) < Rank(y)) /\ ~(Rank(y) < Rank(x))
    BY <1>4, <2>1
  <2>3. ~ComesFirst(x, y) /\ ~ComesFirst(y, x)
    BY <2>2, RankPlaces
  <2> QED
    BY <2>3, ComesFirstOrder
<1>5. r \in [DOMAIN keys -> DOMAIN keys] /\ \A x \in DOMAIN keys : r[x] = Rank(x)
  BY <1>3, RankPlaces
<1>6. r \in Injection(DOMAIN keys, DOMAIN keys)
  BY <1>4, <1>5 DEF Injection, IsInjective
<1>7. r \in Surjection(DOMAIN keys, DOMAIN keys)
  BY <1>2, <1>6, FS_Injection
<1> QED
  BY <1>5, <1>7 DEF Surjection

-----------------------------------------------------------------------------
LEMMA OrderInitInv == OrderInit => OrderInv
<1> SUFFICES ASSUME OrderInit PROVE OrderInv
  OBVIOUS
<1>1. PICK l \in 1 .. MaxLevels : filters \in [1 .. l -> {"asc", "desc"}]
  BY DEF OrderInit
<1>2. l \in Nat /\ l >= 1
  OBVIOUS
<1>3. filters \in Seq({"asc", "desc"}) /\ Len(filters) = l /\ DOMAIN filters = 1 .. l
  BY <1>1, <1>2
<1>4. PICK n \in 0 .. MaxSorted : keys \in [1 .. n -> [DOMAIN filters -> 0 .. MaxRank]]
  BY DEF OrderInit
<1>5. n \in Nat /\ keys \in [1 .. n -> [DOMAIN filters -> Int]]
  BY <1>4
<1>6. keys \in Seq([DOMAIN filters -> Int])
  BY <1>5
<1>7. ordering # "done"
  BY DEF OrderInit
<1> QED
  BY <1>2, <1>3, <1>6, <1>7 DEF OrderInv, OrderShape, OrderCorrect

LEMMA SortInv == OrderInv /\ Sort => OrderInv'
<1> SUFFICES ASSUME OrderInv, Sort PROVE OrderInv'
  OBVIOUS
<1>1. /\ OrderShape /\ UNCHANGED <<filters, keys>>
      /\ sorted' = [j \in DOMAIN keys |-> CHOOSE x \in DOMAIN keys : Rank(x) = j]
  BY DEF OrderInv, Sort
<1>2. OrderShape'
  BY <1>1 DEF OrderShape
<1>3. PICK n \in Nat : DOMAIN keys = 1 .. n
  BY <1>1 DEF OrderShape
<1>4. PICK s : s = sorted'
  OBVIOUS
<1>5. ASSUME NEW j \in DOMAIN keys PROVE s[j] \in DOMAIN keys /\ Rank(s[j]) = j
  <2>1. s[j] = CHOOSE x \in DOMAIN keys : Rank(x) = j
    BY <1>1, <1>4
  <2> QED
    BY <1>1, <2>1, RankReaches
<1>6. s \in Seq(DOMAIN keys) /\ Len(s) = n /\ DOMAIN s = 1 .. n
  <2>1. s \in [1 .. n -> DOMAIN keys]
    <3>1. s = [j \in DOMAIN keys |-> s[j]]
      BY <1>1, <1>4
    <3> QED
      BY <1>3, <1>5, <3>1
  <2> QED
    BY <2>1
<1>7. Range(s) = DOMAIN keys
  <2>1. ASSUME NEW x \in DOMAIN keys PROVE \E j \in DOMAIN s : s[j] = x
    <3>1. Rank(x) \in DOMAIN keys
      BY <1>1, RankPlaces
    <3>2. s[Rank(x)] \in DOMAIN keys /\ Rank(s[Rank(x)]) = Rank(x)
      BY <1>5, <3>1
    <3>3. s[Rank(x)] = x
      <4>1. Rank(x) \in Int
        BY <1>3, <3>1
      <4>2. ~(Rank(x) < Rank(x))
        BY <4>1
      <4>3. ~ComesFirst(s[Rank(x)], x) /\ ~ComesFirst(x, s[Rank(x)])
        BY <1>1, <3>2, <4>2, RankPlaces
      <4> QED
        BY <1>1, <3>2, <4>3, ComesFirstOrder
    <3> QED
      BY <1>3, <1>6, <3>1, <3>3
  <2>2. ASSUME NEW j \in DOMAIN s PROVE s[j] \in DOMAIN keys
    BY <1>3, <1>5, <1>6
  <2> QED
    BY <2>1, <2>2 DEF Range
<1>8. ASSUME NEW j \in 1 .. Len(s) - 1 PROVE ComesFirst(s[j], s[j + 1])
  <2>1. j \in DOMAIN keys /\ j + 1 \in DOMAIN keys /\ j \in Int /\ ~(j + 1 < j) /\ j # j + 1
    BY <1>3, <1>6
  <2>2. /\ s[j] \in DOMAIN keys /\ Rank(s[j]) = j
        /\ s[j + 1] \in DOMAIN keys /\ Rank(s[j + 1]) = j + 1
    BY <1>5, <2>1
  <2>3. ~ComesFirst(s[j + 1], s[j])
    BY <1>1, <2>1, <2>2, RankPlaces
  <2>4. s[j] # s[j + 1]
    BY <2>1, <2>2
  <2> QED
    BY <1>1, <2>2, <2>3, <2>4, ComesFirstOrder
<1>9. ASSUME NEW x, NEW y PROVE ComesFirst(x, y)' <=> ComesFirst(x, y)
  BY <1>1 DEF ComesFirst
<1>10. OrderCorrect'
  BY <1>1, <1>4, <1>7, <1>8, <1>9 DEF OrderCorrect
<1> QED
  BY <1>2, <1>10 DEF OrderInv

\* order_by returns each element once, by all its filters and otherwise in the
\* order of the range, however many filters there are and whichever way they sort.
THEOREM OrderedStably == OrderSpec => []OrderCorrect
<1>1. OrderInv /\ UNCHANGED orderVars => OrderInv'
  <2> SUFFICES ASSUME OrderInv, UNCHANGED orderVars PROVE OrderInv'
    OBVIOUS
  <2>1. UNCHANGED <<filters, keys, sorted, ordering>>
    BY DEF orderVars
  <2>2. OrderShape'
    BY <2>1 DEF OrderInv, OrderShape
  <2>3. ASSUME NEW x, NEW y PROVE ComesFirst(x, y)' <=> ComesFirst(x, y)
    BY <2>1 DEF ComesFirst
  <2>4. OrderCorrect'
    BY <2>1, <2>3 DEF OrderInv, OrderCorrect
  <2> QED
    BY <2>2, <2>4 DEF OrderInv
<1>2. OrderInv => OrderCorrect
  BY DEF OrderInv
<1> QED
  BY <1>1, <1>2, OrderInitInv, SortInv, PTL DEF OrderSpec

=============================================================================
