-------------------------------- MODULE MCCalls --------------------------------
(***************************************************************************)
(* One run of TLC for what one call, or the iterators or walks of one      *)
(* view, do on their own: each behaviour is one of the modules extended    *)
(* here, as "part" says, and what the others have for variables stays      *)
(* empty.                                                                  *)
(***************************************************************************)
EXTENDS Combinators, WherePass, TakeWhileView, FlatMapView, ScanView, SetOps, TailOps,
  RowTerminals, GroupOps, JoinOps, OrderBy, Terminals, TakeView

VARIABLE part

AskedPercents == {-5, 0, 25, 50, 60, 100, 120}

WalkRanges == {[b |-> 1, e |-> N + 1], [b |-> 2, e |-> N], [b |-> 2, e |-> 2]}

WalkViews == {V}
WalkCursors == {It, Bound, Tmp}

\* The variables of one part only.
ofForward == <<combined, params, iters, spots>>
ofRows == <<kind, key, whole, bound, was, row, lo, hi, stage>>

callVars ==
  <<part, ofForward, allVars, taskVars, flatVars, scanVars, setVars, tailVars, ofRows,
    groupVars, joinVars, orderVars, terminalVars, takeVars>>

\* Part x is the one that runs: all else is empty, or where properties look at it
\* tells that nothing is under way, ...
Begins(x) ==
  /\ part = x
  /\ x # "forward" => combined = "none" /\ params = <<>> /\ iters = <<>> /\ spots = <<>>
  /\ x # "flat_map" =>
       /\ len = <<>> /\ owning = <<>> /\ outer = <<>> /\ iter = <<>> /\ held = <<>> /\ in = <<>>
       /\ past = <<>> /\ lent = <<>> /\ flatOp = [c \in FlatCursors |-> "none"]
  /\ x # "scan" =>
       val = <<>> /\ scan = <<>> /\ shown = <<>> /\ at = [c \in Scanners |-> FALSE]
  /\ x # "sets" =>
       /\ setOp = <<>> /\ mine = <<>> /\ theirs = <<>> /\ here = <<>> /\ asked = <<>>
       /\ yielded = <<>> /\ chosen = <<>> /\ pass = "none"
  /\ x # "tails" =>
       /\ tailOp = <<>> /\ size = <<>> /\ count = <<>> /\ random = <<>> /\ next = <<>>
       /\ stop = <<>> /\ ring = <<>> /\ work = "none"
  /\ x # "groups" =>
       /\ groupOp = "none" /\ key1 = <<>> /\ key2 = <<>> /\ filing = <<>> /\ index = <<>>
       /\ groups = <<>> /\ grouping = "none"
  /\ x # "joins" =>
       /\ joinOp = "none" /\ left = <<>> /\ right = <<>> /\ probe = <<>> /\ buckets = <<>>
       /\ joined = <<>> /\ joining = "none"
  /\ x # "order" => filters = <<>> /\ keys = <<>> /\ sorted = <<>> /\ ordering = "none"
  /\ x # "terminals" =>
       /\ terminal = "none" /\ worth = <<>> /\ other = <<>> /\ arg = <<>> /\ direct = <<>>
       /\ reading = <<>> /\ togo = <<>> /\ found = <<>> /\ asking = "none"
  /\ x # "rows" =>
       /\ kind = <<>> /\ key = <<>> /\ whole = <<>> /\ bound = <<>> /\ was = <<>> /\ row = <<>> /\ lo = <<>> /\ hi = <<>>
       /\ stage = "none"
  /\ x # "where" =>
       /\ hits = <<>> /\ view = [v \in Views |-> [first |-> Unset]] /\ scanning = <<>> /\ it = <<>>
       /\ op = <<>> /\ from = <<>> /\ prog = "none" /\ out = <<>> /\ writes = <<>> /\ pc = "none"
  /\ x # "take" =>
       /\ span = [b |-> 1, e |-> 1] /\ n = 0 /\ walk = "none" /\ doing = "ready"
       /\ taker = [cur |-> 1, left |-> 0] /\ limit = taker /\ taken = <<>>
  /\ x # "take_while" =>
       /\ accepted = <<>> /\ rng = <<>> /\ rev = <<>> /\ rest = <<>> /\ seen = <<>> /\ spot = <<>>
       /\ task = "none" /\ readings = <<>> /\ phase = "none"

\* ... and stays so.
Goes(x) ==
  /\ part = x
  /\ x # "forward" => UNCHANGED ofForward
  /\ x # "flat_map" => UNCHANGED flatVars
  /\ x # "scan" => UNCHANGED scanVars
  /\ x # "sets" => UNCHANGED setVars
  /\ x # "tails" => UNCHANGED tailVars
  /\ x # "groups" => UNCHANGED groupVars
  /\ x # "joins" => UNCHANGED joinVars
  /\ x # "order" => UNCHANGED orderVars
  /\ x # "terminals" => UNCHANGED terminalVars
  /\ x # "rows" => UNCHANGED ofRows
  /\ x # "where" => UNCHANGED allVars
  /\ x # "take" => UNCHANGED takeVars
  /\ x # "take_while" => UNCHANGED taskVars
  /\ UNCHANGED part

CallsInit ==
  \/ Begins("forward") /\ CombinedInit
  \/ Begins("flat_map") /\ FlatInit
  \/ Begins("scan") /\ ScanInit
  \/ Begins("sets") /\ SetInit
  \/ Begins("tails") /\ TailInit
  \/ Begins("groups") /\ GroupInit
  \/ Begins("joins") /\ JoinInit
  \/ Begins("order") /\ OrderInit
  \/ Begins("terminals") /\ TerminalInit
  \/ Begins("rows") /\ RowInit
  \/ Begins("where") /\ InitPass
  \/ Begins("take") /\ TakeInit
  \/ Begins("take_while") /\ TaskInit

CallsNext ==
  \/ Goes("forward") /\ CombinedNext
  \/ Goes("flat_map") /\ FlatNext
  \/ Goes("scan") /\ ScanNext
  \/ Goes("sets") /\ SetNext
  \/ Goes("tails") /\ TailNext
  \/ Goes("groups") /\ GroupNext
  \/ Goes("joins") /\ JoinNext
  \/ Goes("order") /\ Sort
  \/ Goes("terminals") /\ TerminalNext
  \/ Goes("rows") /\ RowNext
  \/ Goes("where") /\ NextPass
  \/ Goes("take") /\ TakeNext
  \/ Goes("take_while") /\ TaskNext
  \/ {"done", "thrown"} \cap {pass, work, stage, grouping, joining, ordering, asking} # {} /\ UNCHANGED callVars

\* The loop a step of an iterator is in, and a traversal or search that has begun,
\* go on.
CallsSpec ==
  /\ CallsInit
  /\ [][CallsNext]_callVars
  /\ \A c \in FlatCursors : WF_flatVars(Goes("flat_map") /\ FlatLoop(c))
  /\ WF_allVars(Goes("where") /\ Run)
  /\ WF_taskVars(Goes("take_while") /\ TaskStep)
  /\ WF_takeVars(Goes("take") /\ WalkStep)

-----------------------------------------------------------------------------
(* Liveness.                                                               *)

\* Each step of a flat_map_iterator returns, however many inner ranges are empty.
StepEnds == \A c \in FlatCursors : flatOp[c] = "seek" ~> flatOp[c] # "seek"

\* Traversals and searches return; those of where(pred) over a stale cached match
\* if they are forward ones.
WalksEnd ==
  /\ pc \notin {"none", "ready"} /\ (prog = "forward" \/ Fresh) ~> pc = "ready"
  /\ phase \notin {"none", "ready"} ~> phase = "ready"
=============================================================================
