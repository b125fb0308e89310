------------------------------- MODULE ScanView -------------------------------
(***************************************************************************)
(* scan(seed, f): scan_view and scan_iterator.                             *)
(*                                                                         *)
(* The result of folding is taken to be the sequence of what was folded in *)
(* (seed: the empty one), each element as its position and the value it    *)
(* had when f was called.  An iterator keeps the result before its element *)
(* and, once it has been read, the result at it.  Elements may be written  *)
(* to between any two operations.  f may throw, in operator* and in        *)
(* operator++.  So may the ++ of the base, after acc_ was assigned; that   *)
(* of a view of the library (where, distinct, flat_map) has moved off the  *)
(* element by then and is not at its end, so that the scan_iterator is as  *)
(* after a step that returned.  An iterator of the user's that throws      *)
(* before it moves is left out.                                            *)
(***************************************************************************)
EXTENDS Integers, Sequences

CONSTANTS
  Scanners,   \* the iterators of the program
  MaxFolded,  \* bound on the length of the range
  Values      \* what an element can be

VARIABLES
  val,     \* val[x]: the element at position x
  scan,    \* scan[c]: position, result before it, result at it (cache), whether fn_ is set
  shown,   \* shown[c]: what * returned last on the way of c to where it is (history)
  at       \* at[c]: whether c is an iterator (history)

scanVars == <<val, scan, shown, at>>

Empty == <<>>      \* of the cache: a result has at least one element

EndPos == Len(val) + 1

ScanInit ==
  /\ val \in UNION {[1 .. n -> Values] : n \in 0 .. MaxFolded}
  /\ scan = [c \in Scanners |-> <<>>]
  /\ shown = [c \in Scanners |-> Empty]
  /\ at = [c \in Scanners |-> FALSE]

\* f(acc, *cur)
Folded(i) == Append(i.acc, <<i.cur, val[i.cur]>>)

Set(c, i, s) ==
  /\ scan' = [scan EXCEPT ![c] = i]
  /\ shown' = [shown EXCEPT ![c] = s]
  /\ at' = [at EXCEPT ![c] = TRUE]
  /\ UNCHANGED val

ScanBegin(c) == Set(c, [cur |-> 1, acc |-> <<>>, cache |-> Empty, fn |-> EndPos # 1], Empty)

ScanEnd(c) == Set(c, [cur |-> EndPos, acc |-> <<>>, cache |-> Empty, fn |-> FALSE], Empty)

\* operator*: throws at the end, without f.
Deref(c) ==
  /\ at[c]
  /\ scan[c].fn
  /\ LET res == IF scan[c].cache = Empty THEN Folded(scan[c]) ELSE scan[c].cache
     IN  Set(c, [scan[c] EXCEPT !.cache = res], res)

\* The step of operator++ with the result at the element as the new acc_.
ScanStep(c, res) ==
  Set(c, [cur |-> scan[c].cur + 1, acc |-> res, cache |-> Empty, fn |-> scan[c].cur + 1 # EndPos],
      shown[c])

\* Fault: f is called again for an element that has been read.
IncFoldsAgain(c) ==
  /\ at[c]
  /\ \/ scan[c].fn /\ ScanStep(c, Folded(scan[c]))
     \/ ~scan[c].fn /\ UNCHANGED scanVars

\* operator++: the end stays.
ScanInc(c) ==
  /\ at[c]
  /\ \/ scan[c].fn /\ ScanStep(c, IF scan[c].cache = Empty THEN Folded(scan[c]) ELSE scan[c].cache)
     \/ ~scan[c].fn /\ UNCHANGED scanVars

\* Fault: the base is stepped before f is called.
FoldThrowsStepped(c) ==
  /\ at[c]
  /\ scan[c].fn
  /\ scan[c].cache = Empty
  /\ Set(c, [scan[c] EXCEPT !.cur = @ + 1, !.fn = scan[c].cur + 1 # EndPos], shown[c])

\* f throws in operator* or operator++, which call it first: nothing is assigned.
FoldThrows(c) ==
  /\ at[c]
  /\ scan[c].fn
  /\ scan[c].cache = Empty
  /\ UNCHANGED scanVars

\* The implicit copy takes the cache along.
ScanCopy(c, d) == at[d] /\ Set(c, scan[d], shown[d])

ScanWrite(x) ==
  /\ \E v \in Values : val' = [val EXCEPT ![x] = v]
  /\ UNCHANGED <<scan, shown, at>>

ScanNext ==
  \/ \E c \in Scanners :
       \/ ScanBegin(c) \/ ScanEnd(c) \/ Deref(c) \/ ScanInc(c) \/ FoldThrows(c)
       \/ \E d \in Scanners : ScanCopy(c, d)
  \/ \E x \in DOMAIN val : ScanWrite(x)

ScanSpec == ScanInit /\ [][ScanNext]_scanVars

-----------------------------------------------------------------------------
InOrder(res, n) == Len(res) = n /\ \A k \in 1 .. n : res[k][1] = k

\* Every element up to where an iterator is has been folded in once, read or not,
\* although f may have thrown on it before.
FoldsEachOnce ==
  \A c \in Scanners : at[c] /\ scan[c].fn =>
    /\ InOrder(scan[c].acc, scan[c].cur - 1)
    /\ scan[c].cache # Empty => InOrder(scan[c].cache, scan[c].cur)

\* What an iterator has shown is what its later results are built on, whatever
\* has been written to the elements since.
CarriesShown ==
  \A c \in Scanners : at[c] /\ scan[c].fn =>
    LET now == IF scan[c].cache = Empty THEN scan[c].acc ELSE scan[c].cache
    IN  Len(shown[c]) <= Len(now) /\ SubSeq(now, 1, Len(shown[c])) = shown[c]
=============================================================================
