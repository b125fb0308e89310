-------------------------------- MODULE JoinOps --------------------------------
(***************************************************************************)
(* join, group_join, left_join, right_join: one side is filed in an        *)
(* unordered_multimap, the other looks its partners up in one pass.        *)
(*                                                                         *)
(* An element is its place.  The order of elements with the same key in    *)
(* the multimap is not specified, and any is possible here.                *)
(***************************************************************************)
EXTENDS Places, SequencesExt

CONSTANTS
  MaxSide,   \* bound on the lengths of the two sides
  Nobody     \* std::nullopt

VARIABLES
  joinOp,   \* the operation
  left,     \* left[x]: the key of element x of this range
  right,    \* right[x]: the key of element x of the argument
  joining,  \* "file", "look" or "done"
  probe,    \* the element the loop is at
  buckets,  \* buckets[k]: the elements filed with key k, as equal_range gives them
  joined    \* *owner

joinVars == <<joinOp, left, right, joining, probe, buckets, joined>>

\* The side in the multimap, and the side the rows are made for.
FiledSide == IF joinOp = "right_join" THEN left ELSE right
DrivingSide == IF joinOp = "right_join" THEN right ELSE left

Sides == UNION {[1 .. l -> Keys] : l \in 0 .. MaxSide}

JoinInit ==
  /\ joinOp \in {"join", "group_join", "left_join", "right_join"}
  /\ left \in Sides
  /\ right \in Sides
  /\ joining = "file"
  /\ probe = 1
  /\ buckets = [k \in Keys |-> <<>>]
  /\ joined = <<>>

\* map.emplace(key, element)
File ==
  /\ joining = "file"
  /\ probe <= Len(FiledSide)
  /\ \E j \in 1 .. Len(buckets[FiledSide[probe]]) + 1 :
       buckets' = [buckets EXCEPT ![FiledSide[probe]] = InsertAt(@, j, probe)]
  /\ probe' = probe + 1
  /\ UNCHANGED <<joinOp, left, right, joining, joined>>

Filed ==
  /\ joining = "file"
  /\ probe > Len(FiledSide)
  /\ joining' = "look"
  /\ probe' = 1
  /\ UNCHANGED <<joinOp, left, right, buckets, joined>>

Pairs(x, s) == [j \in DOMAIN s |-> <<x, s[j]>>]

\* Fault: the outer joins have no row for an element without a partner.
RowsInner(x, s) == IF joinOp = "group_join" THEN <<<<x, s>>>> ELSE Pairs(x, s)

\* The rows for element x, whose partners are s.
RowsFor(x, s) ==
  CASE joinOp = "group_join" -> <<<<x, s>>>>
    [] joinOp \in {"left_join", "right_join"} /\ s = <<>> -> <<<<x, Nobody>>>>
    [] OTHER -> Pairs(x, s)

Look ==
  /\ joining = "look"
  /\ probe <= Len(DrivingSide)
  /\ joined' = joined \o RowsFor(probe, buckets[DrivingSide[probe]])
  /\ probe' = probe + 1
  /\ UNCHANGED <<joinOp, left, right, joining, buckets>>

JoinReturn ==
  /\ joining = "look"
  /\ probe > Len(DrivingSide)
  /\ joining' = "done"
  /\ UNCHANGED <<joinOp, left, right, probe, buckets, joined>>

JoinNext == File \/ Filed \/ Look \/ JoinReturn

JoinSpec == JoinInit /\ [][JoinNext]_joinVars

-----------------------------------------------------------------------------
Partners(x) == {y \in DOMAIN FiledSide : FiledSide[y] = DrivingSide[x]}

\* s holds each element of set ps once.
OnceEach(s, ps) == Len(s) = Cardinality(ps) /\ Range(s) = ps

\* Every pair of elements with the same key has one row (group_join: is in the
\* row of its element); an element without a partner has a row of its own in an
\* outer join and none in an inner one; rows are in the order of the driving side.
JoinCorrect ==
  joining = "done" =>
    /\ \A j \in 1 .. Len(joined) - 1 : joined[j][1] <= joined[j + 1][1]
    /\ IF joinOp = "group_join"
       THEN /\ Len(joined) = Len(DrivingSide)
            /\ \A x \in DOMAIN DrivingSide : OnceEach(joined[x][2], Partners(x))
       ELSE OnceEach(joined,
              {e \in (DOMAIN DrivingSide) \X (DOMAIN FiledSide) : e[2] \in Partners(e[1])} \cup
              {<<x, Nobody>> : x \in {x \in DOMAIN DrivingSide : joinOp # "join" /\ Partners(x) = {}}})
=============================================================================
