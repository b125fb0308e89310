------------------------------- MODULE MCChains -------------------------------
(***************************************************************************)
(* One run of TLC for what several views, iterators, handles or frames do  *)
(* together: each behaviour is one of Lifetimes, Exceptions, Pipeline or    *)
(* WhereView, extended here, as "part" says, and the variables of the      *)
(* others stay as they began.                                              *)
(***************************************************************************)
EXTENDS Lifetimes, Exceptions, Pipeline, WhereView

CONSTANTS v1, v2, c1, c2

VARIABLE part

\* Of WhereView: two views, two iterators, and the whole of the storage, its middle
\* and an empty range.
WhereViews == {v1, v2}
WhereCursors == {c1, c2}
WhereRanges == {[b |-> 1, e |-> N + 1], [b |-> 2, e |-> N], [b |-> 2, e |-> 2]}

\* Every stage of Pipeline, those with a predicate with one that may accept Extra.
ChainStages ==
  [op : {"select", "reverse", "append", "prepend", "default_if_empty"}]
    \cup [op : {"take"}, n : {0, 1, 2}]
    \cup [op : {"skip"}, n : {1}]
    \cup [op : {"stride"}, n : {2}]
    \cup [op : {"where"}, on : {{2, 3}, {1, 3, Extra}}]
    \cup [op : {"take_while"}, on : {{1, 2, 3}, {1, 2, Extra}}]
    \cup [op : {"skip_while"}, on : {{1}}]
    \cup [op : {"where_indexed"}, on : {{1, 2}}]

\* (The properties of a part say nothing of the states of another.)
NoLives == made = 0 /\ at = <<>> /\ live = {} /\ spent = {} /\ there = {} /\ ref = Blank
NoViews ==
  /\ wild = FALSE /\ chain = <<>> /\ shape = [type |-> <<>>, b |-> At(0), e |-> At(0)]
  /\ cur = At(0) /\ out = <<>> /\ mode = "none" /\ asked = <<>> /\ astray = {}
NoThrows == pile = <<>> /\ calls = <<>> /\ fate = "none"
NoWhere ==
  /\ hits = {} /\ scanning = [v \in Views |-> NoCursor]
  /\ view = [v \in Views |-> [rng |-> [b |-> 2, e |-> 2], first |-> Unset]]
  /\ it = [c \in Cursors |-> [cur |-> 2, rng |-> [b |-> 2, e |-> 2]]]
  /\ op = [c \in Cursors |-> "none"] /\ from = [c \in Cursors |-> 0]

ChainInit ==
  \/ part = "lifetimes" /\ LifeInit /\ NoViews /\ NoThrows /\ NoWhere
  \/ part = "pipeline" /\ ViewInit /\ NoLives /\ NoThrows /\ NoWhere
  \/ part = "exceptions" /\ ThrowInit /\ NoLives /\ NoViews /\ NoWhere
  \/ part = "where" /\ Init /\ NoLives /\ NoViews /\ NoThrows

ChainNext ==
  \/ part = "lifetimes" /\ LifeNext /\ UNCHANGED <<part, viewVars, throwVars, vars>>
  \/ part = "pipeline" /\ ViewNext /\ UNCHANGED <<part, lifeVars, throwVars, vars>>
  \/ part = "exceptions" /\ ThrowNext /\ UNCHANGED <<part, lifeVars, viewVars, vars>>
  \/ part = "where" /\ Next /\ UNCHANGED <<part, lifeVars, viewVars, throwVars>>

ChainSpec == ChainInit /\ [][ChainNext]_<<part, lifeVars, viewVars, throwVars, vars>>
=============================================================================
