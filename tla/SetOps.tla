-------------------------------- MODULE SetOps --------------------------------
(***************************************************************************)
(* except, intersect, except_by, intersect_by, union_by: one pass over     *)
(* each side with hash sets, into a vector; to_set and to_unordered_set:   *)
(* one pass over one side, into a set.                                     *)
(*                                                                         *)
(* An element is its side and place, and is worth its key (for except,     *)
(* intersect and the sets the key is the value).  A key function that      *)
(* throws leaves no result, and nothing else that could be seen.           *)
(***************************************************************************)
EXTENDS Places

CONSTANTS MaxLeft, MaxRight   \* bounds on the lengths of the two sides

VARIABLES
  setOp,    \* the operation
  mine,     \* mine[x]: the key of element x of this range
  theirs,   \* theirs[x]: the key of element x of the argument
  pass,     \* the loop the operation is in: "right", "left", "rest" or "done"
  here,     \* the element that loop is at
  asked,    \* ban / want: the keys of the argument
  yielded,  \* the keys of the elements chosen
  chosen    \* *owner; of a set, in the order of insertion

setVars == <<setOp, mine, theirs, pass, here, asked, yielded, chosen>>

SetKinds == {"except", "intersect", "union", "to_set"}

SetInit ==
  /\ setOp \in SetKinds
  /\ mine \in UNION {[1 .. n -> Keys] : n \in 0 .. MaxLeft}
  /\ theirs \in UNION {[1 .. n -> Keys] : n \in 0 .. MaxRight}
  /\ setOp = "to_set" => theirs = <<>>
  /\ pass = IF setOp \in {"union", "to_set"} THEN "left" ELSE "right"
  /\ here = 1
  /\ asked = {}
  /\ yielded = {}
  /\ chosen = <<>>

\* Whether the operation is for elements of this side with key k at all.
Wanted(k) ==
  CASE setOp = "except" -> k \notin asked
    [] setOp = "intersect" -> k \in asked
    [] OTHER -> TRUE

EnterPass(s) ==
  /\ pass' = s
  /\ here' = 1
  /\ UNCHANGED <<setOp, mine, theirs, asked, yielded, chosen>>

\* The loop over rhs that fills the set to ask.
AskRight ==
  /\ pass = "right"
  /\ here <= Len(theirs)
  /\ asked' = asked \cup {theirs[here]}
  /\ here' = here + 1
  /\ UNCHANGED <<setOp, mine, theirs, pass, yielded, chosen>>

RightAsked == pass = "right" /\ here > Len(theirs) /\ EnterPass("left")

\* Fault: elements with the same key are not counted as one.
PushEvery(e, k) ==
  IF Wanted(k)
  THEN chosen' = Append(chosen, e) /\ yielded' = yielded \cup {k}
  ELSE UNCHANGED <<chosen, yielded>>

\* if (wanted && yielded.insert(k).second) owner->push_back(*it); or owner->insert(*it),
\* which keeps the element that is there
Push(e, k) ==
  IF Wanted(k) /\ k \notin yielded
  THEN chosen' = Append(chosen, e) /\ yielded' = yielded \cup {k}
  ELSE UNCHANGED <<chosen, yielded>>

PushLeft ==
  /\ pass = "left"
  /\ here <= Len(mine)
  /\ Push(<<"left", here>>, mine[here])
  /\ here' = here + 1
  /\ UNCHANGED <<setOp, mine, theirs, pass, asked>>

LeftPushed ==
  /\ pass = "left"
  /\ here > Len(mine)
  /\ EnterPass(IF setOp = "union" THEN "rest" ELSE "done")

\* union_by goes on with the right side.
PushRight ==
  /\ pass = "rest"
  /\ here <= Len(theirs)
  /\ Push(<<"right", here>>, theirs[here])
  /\ here' = here + 1
  /\ UNCHANGED <<setOp, mine, theirs, pass, asked>>

RightPushed == pass = "rest" /\ here > Len(theirs) /\ EnterPass("done")

SetNext == AskRight \/ RightAsked \/ PushLeft \/ LeftPushed \/ PushRight \/ RightPushed

SetSpec == SetInit /\ [][SetNext]_setVars

-----------------------------------------------------------------------------
\* The places of s whose key does not occur before.
Firsts(s) == {j \in DOMAIN s : \A h \in 1 .. j - 1 : s[h] # s[j]}

\* What the documentation calls the result: distinct, of the left side.
Expected ==
  CASE setOp = "except" -> {<<"left", j>> : j \in {j \in Firsts(mine) : mine[j] \notin Range(theirs)}}
    [] setOp = "intersect" -> {<<"left", j>> : j \in {j \in Firsts(mine) : mine[j] \in Range(theirs)}}
    [] setOp = "to_set" -> {<<"left", j>> : j \in Firsts(mine)}
    [] setOp = "union" -> {<<"left", j>> : j \in Firsts(mine)} \cup
         {<<"right", j>> : j \in {j \in Firsts(theirs) : theirs[j] \notin Range(mine)}}

Earlier(e, f) == (e[1] = f[1] /\ e[2] < f[2]) \/ (e[1] = "left" /\ f[1] = "right")

\* The result holds the first element of each key it is to hold, and no other,
\* in the order in which they occur.
SetOpCorrect ==
  pass = "done" =>
    /\ Range(chosen) = Expected
    /\ \A j \in 1 .. Len(chosen) - 1 : Earlier(chosen[j], chosen[j + 1])
=============================================================================
