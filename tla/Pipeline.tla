-------------------------------- MODULE Pipeline --------------------------------
(***************************************************************************)
(* Views of views: a source, up to MaxStages stages called on it one after *)
(* another, and a terminal that loops over the result.                     *)
(*                                                                         *)
(* Each stage wraps the iterator type of the view it is called on, so an   *)
(* iterator is a position of the source under a pile of adaptors, and each *)
(* of ++, --, == and * is handled by the adaptor on top or passed down.    *)
(* The pile is the sequence "type", the source first and its top last; a   *)
(* stage may add several adaptors (where_indexed), none (skip), or take    *)
(* one off (reverse of a take_while).  Only some carry state of their own: *)
(*                                                                         *)
(*   take               [base, left]            left: remaining_           *)
(*   append, prepend    [base, step, leg]       step: of the single_iterator *)
(*   default_if_empty   [base, phase]                                      *)
(*   enumerate          [base, index]                                      *)
(*                                                                         *)
(* An element of the source is its position, Extra is the value added by   *)
(* append, prepend or default_if_empty, and select is any one-to-one       *)
(* projection, so that it shows the element itself.                        *)
(***************************************************************************)
EXTENDS Integers, SequencesExt, FiniteSetsExt

CONSTANTS
  Length,      \* of the source
  MaxStages,   \* bound on the number of stages called on it
  MaxReads,    \* bound on the elements one loop reads
  ViewStages,  \* the calls a program makes, as records [op, ...]
  Extra,       \* a value that is not of the source
  Off          \* what is read outside the source

Values == 1 .. Length \cup {Extra}

ASSUME ValuesAssumption ==
  Length \in Nat /\ Off \notin Values \cup Nat \cup (Nat \X Values)

ASSUME StagesAssumption ==
  ViewStages \subseteq
    [op : {"select", "reverse", "append", "prepend", "default_if_empty"}]
      \cup [op : {"where", "where_indexed", "take_while", "skip_while"}, on : SUBSET (Values \cup Nat)]
      \cup [op : {"take"}, n : Int] \cup [op : {"skip"}, n : Nat] \cup [op : {"stride"}, n : Nat \ {0}]

VARIABLES
  wild,    \* what a predicate answers when it is asked about memory outside the source
  chain,   \* the stages called since
  shape,   \* the view they made: [type, b, e], its iterator type and bounds
  cur,     \* the iterator of the loop under way
  out,     \* the elements that loop has read
  mode,    \* "calls": between calls; else the terminal under way or ended
  asked,   \* (history) what the stages ask for
  astray   \* (history) which of the calls that go wrong have been made

viewVars == <<wild, chain, shape, cur, out, mode, asked, astray>>

-----------------------------------------------------------------------------
(* Factories.  What each source counts over, front to back.                *)

Sources == {"from", "iota", "repeat", "once", "empty"}

FromElements == [x \in 1 .. Length |-> x]
Iota == [x \in 1 .. Length |-> x]
Repeated == [x \in 1 .. Length |-> Extra]
Once == <<Extra>>
Nothing == <<>>

Elements(s) ==
  CASE s = "from" -> FromElements
    [] s = "iota" -> Iota
    [] s = "repeat" -> Repeated
    [] s = "once" -> Once
    [] s = "empty" -> Nothing

\* A position of the source.  (A record, as the iterators built on it are.)
At(x) == [at |-> x]

SourceIncr(i) == At(IF i.at < Length + 2 THEN i.at + 1 ELSE i.at)

SourceDecr(i) == At(IF i.at > 0 THEN i.at - 1 ELSE i.at)

SourceReads(s, i) == IF i.at \in DOMAIN Elements(s) THEN Elements(s)[i.at] ELSE Off

\* All empty_iterators are equal.
SourceSame(s, i, j) == i = j \/ s = "empty"

-----------------------------------------------------------------------------
(* Iterator types.  A type is a record of                                  *)
(*   its             the iterators of the type                             *)
(*   incr, decr      ++ and --, as functions of an iterator                *)
(*   reads, same     * and ==                                              *)
(*   category        "bidirectional" or "forward"                          *)
(*   gives           "references" to elements that outlive the iterator,   *)
(*                   or "copies"                                           *)
(* and an adaptor a makes one of the type lo below it.                     *)

SourceType(s) ==
  LET its == [at : 0 .. Length + 2] IN
  [its      |-> its,
   incr     |-> [i \in its |-> SourceIncr(i)],
   decr     |-> [i \in its |-> SourceDecr(i)],
   reads    |-> [i \in its |-> SourceReads(s, i)],
   same     |-> [i \in its |-> [j \in its |-> SourceSame(s, i, j)]],
   category |-> IF s = "from" THEN "bidirectional" ELSE "forward",
   gives    |-> IF s = "from" THEN "references" ELSE "copies"]

Joining == {"append", "prepend"}

Its(a, lo) ==
  CASE a.op = "take" -> [base : lo.its, left : Int]
    [] a.op \in Joining -> [base : lo.its, step : {0, 1}, leg : {"base", "value"}]
    [] a.op = "default_if_empty" -> [base : lo.its, phase : 0 .. 2]
    [] a.op = "enumerate" -> [base : lo.its, index : Nat]
    [] OTHER -> lo.its

Category(a, lo) ==
  IF a.op \in Joining \cup {"default_if_empty", "enumerate", "stride"}
  THEN "forward" ELSE lo.category

Gives(a, lo) ==
  CASE a.op \in Joining -> "copies"
    [] a.op = "second" -> "references"
    [] OTHER -> lo.gives

\* A loop that goes on by next until stop.  (A step that leads to no iterator ends it.)
Until(next, stop) ==
  LET from[i \in DOMAIN next] ==
        LET j == next[i] IN IF stop[i] \/ j \notin DOMAIN next THEN i ELSE from[j]
  IN  from

\* Up to n steps, none from the end e.
UpTo(n, e, lo) ==
  LET marks == [i : lo.its, n : Int]
      loop  == Until([m \in marks |-> [i |-> lo.incr[m.i], n |-> m.n - 1]],
                     [m \in marks |-> m.n = 0 \/ lo.same[m.i][e]])
  IN  [i \in lo.its |-> loop[[i |-> i, n |-> n]].i]

\* The predicate of adaptor or stage a on x, which where_indexed asks about the index.
Accepts(a, x) == IF a.op = "where_indexed" /\ x # Off THEN x[1] \in a.on ELSE x \in a.on

\* where, the loop shared by operator++ and find_if.  A search that has left the
\* source is cut short, what it would do there is undefined.
SeekOn(a, lo) ==
  Until(lo.incr,
        [i \in lo.its |-> lo.same[i][a.e] \/ lo.reads[i] = Off \/ Accepts(a, lo.reads[i])])

Meets(a, lo, i) == lo.reads[i] # Off /\ Accepts(a, lo.reads[i])

\* Fault: the loop of operator-- gives up at the first bound before it tests it.
SeekBackOpen(a, lo) ==
  LET loop == Until(lo.decr,
                    [i \in lo.its |-> Meets(a, lo, i) \/ lo.same[i][a.b] \/ lo.reads[i] = Off])
  IN  [i \in lo.its |->
         IF ~lo.same[loop[i]][a.b] /\ Meets(a, lo, loop[i]) THEN loop[i] ELSE a.e]

\* where, back to its first bound: the loop of operator--.
SeekBack(a, lo) ==
  LET loop == Until(lo.decr,
                    [i \in lo.its |-> Meets(a, lo, i) \/ lo.same[i][a.b] \/ lo.reads[i] = Off])
  IN  [i \in lo.its |-> IF Meets(a, lo, loop[i]) THEN loop[i] ELSE a.e]

WhereDecr(a, lo) ==
  LET back == SeekBack(a, lo) IN
  [i \in lo.its |->
     IF lo.same[i][a.e]
     THEN IF lo.same[a.b][a.e] THEN i ELSE back[lo.decr[i]]
     ELSE IF lo.same[i][a.b] THEN a.e ELSE back[lo.decr[i]]]

WhereIncr(a, lo) ==
  LET on == SeekOn(a, lo) IN [i \in lo.its |-> on[lo.incr[i]]]

StrideIncr(a, lo) == UpTo(a.n, a.e, lo)

TakeIncr(a, lo) ==
  [i \in Its(a, lo) |->
     [base |-> IF i.left + 1 < 0 THEN lo.incr[i.base] ELSE i.base, left |-> i.left + 1]]

\* concat with a single_view behind (append) or in front (prepend) of the base.
JoinIncr(a, lo) ==
  [i \in Its(a, lo) |->
     LET j == lo.incr[i.base] IN
     CASE a.op = "append" /\ i.leg = "base" ->
            [base |-> j, step |-> i.step, leg |-> IF lo.same[j][a.e] THEN "value" ELSE "base"]
       [] a.op = "prepend" /\ i.leg = "base" ->
            IF lo.same[i.base][a.e] THEN i ELSE [base |-> j, step |-> i.step, leg |-> "base"]
       [] i.leg = "value" ->
            [base |-> i.base, step |-> 1, leg |-> IF a.op = "append" THEN "value" ELSE "base"]]

DefaultIncr(a, lo) ==
  [i \in Its(a, lo) |->
     LET j == lo.incr[i.base] IN
     IF i.phase = 0 THEN [base |-> j, phase |-> IF lo.same[j][a.e] THEN 2 ELSE 0]
     ELSE [base |-> i.base, phase |-> 2]]

\* operator++
Incr(a, lo) ==
  CASE a.op \in {"select", "second", "take_while"} -> lo.incr
    [] a.op \in {"where", "where_indexed"} -> WhereIncr(a, lo)
    [] a.op = "take" -> TakeIncr(a, lo)
    [] a.op = "reverse" -> lo.decr
    [] a.op = "stride" -> StrideIncr(a, lo)
    [] a.op = "enumerate" ->
         [i \in Its(a, lo) |-> [base |-> lo.incr[i.base], index |-> i.index + 1]]
    [] a.op \in Joining -> JoinIncr(a, lo)
    [] a.op = "default_if_empty" -> DefaultIncr(a, lo)

\* operator--, of those that have one.
Decr(a, lo) ==
  CASE a.op \in {"select", "take_while"} -> lo.decr
    [] a.op = "where" -> WhereDecr(a, lo)
    [] a.op = "take" ->
         [i \in Its(a, lo) |-> [base |-> lo.decr[i.base], left |-> i.left - 1]]
    [] a.op = "reverse" -> lo.incr
    [] OTHER -> <<>>

\* operator*
Reads(a, lo) ==
  [i \in Its(a, lo) |->
     CASE a.op = "reverse" -> lo.reads[lo.decr[i]]
       [] a.op = "second" -> IF lo.gives = "copies" THEN Off ELSE lo.reads[i][2]
       [] a.op = "enumerate" -> <<i.index, lo.reads[i.base]>>
       [] a.op \in Joining -> IF i.leg = "base" THEN lo.reads[i.base] ELSE Extra
       [] a.op = "default_if_empty" -> IF i.phase = 1 THEN Extra ELSE lo.reads[i.base]
       [] a.op = "take" -> lo.reads[i.base]
       [] OTHER -> lo.reads[i]]

\* operator==; take_while asks its predicate about the left operand.
Same(a, lo) ==
  [i \in Its(a, lo) |-> [j \in Its(a, lo) |->
     CASE a.op = "take_while" -> lo.same[i][j] \/ ~Accepts(a, lo.reads[i])
       [] a.op = "take" -> lo.same[i.base][j.base] \/ i.left = j.left
       [] a.op \in Joining ->
            i.leg = j.leg /\ lo.same[i.base][j.base] /\ i.step = j.step
       [] a.op = "default_if_empty" -> i.phase = j.phase /\ lo.same[i.base][j.base]
       [] a.op = "enumerate" -> lo.same[i.base][j.base]
       [] OTHER -> lo.same[i][j]]]

Adapted(a, lo) ==
  [its   |-> Its(a, lo),
   incr  |-> Incr(a, lo),
   decr  |-> Decr(a, lo),
   reads |-> Reads(a, lo),
   same  |-> Same(a, lo),
   category |-> Category(a, lo),
   gives |-> Gives(a, lo)]

\* The type of a pile.
Type(pile) ==
  LET upto[k \in 1 .. Len(pile)] ==
        IF k = 1 THEN SourceType(pile[1].op) ELSE Adapted(pile[k], upto[k - 1])
  IN  upto[Len(pile)]

-----------------------------------------------------------------------------
(* Stages: what begin() and end() of the view below give is wrapped.       *)

On(sh, a, b, e) == [type |-> Append(sh.type, a), b |-> b, e |-> e]

\* What the predicate of stage s accepts.
Predicate(s) == s.on \cup (IF wild THEN {Off} ELSE {})

\* select, select_many, cast
Selected(sh) == On(sh, [op |-> "select"], sh.b, sh.e)

\* where and of_type: begin() is what find_if finds between the bounds.
Filtered(sh, s) ==
  LET a == [op |-> s.op, on |-> Predicate(s), b |-> sh.b, e |-> sh.e]
  IN  On(sh, a, SeekOn(a, Type(sh.type))[sh.b], sh.e)

Magnitude(n) == IF n < 0 THEN -n ELSE n

\* take: two iterators that differ in their budget.
Taken(sh, s) ==
  On(sh, s, [base |-> sh.b, left |-> -Magnitude(s.n)], [base |-> sh.e, left |-> 0])

TakenWhile(sh, s) == On(sh, [op |-> "take_while", on |-> Predicate(s)], sh.b, sh.e)

\* skip: the bounds of a subrange, of the same iterator type.
SkipFrom(sh, n) == UpTo(n, sh.e, Type(sh.type))[sh.b]

Skipped(sh, s) == [type |-> sh.type, b |-> SkipFrom(sh, s.n), e |-> sh.e]

SkipWhileFrom(sh, s) ==
  LET ty == Type(sh.type)
  IN  Until(ty.incr, [i \in ty.its |-> ty.same[i][sh.e] \/ ty.reads[i] \notin Predicate(s)])[sh.b]

SkippedWhile(sh, s) == [type |-> sh.type, b |-> SkipWhileFrom(sh, s), e |-> sh.e]

\* Where a forward loop meets the end.
WalkFrom(sh) ==
  LET ty == Type(sh.type) IN Until(ty.incr, [i \in ty.its |-> ty.same[i][sh.e]])[sh.b]

\* Fault: the generic reversed_view, whatever the iterator type.
ReversedAsIs(sh) == On(sh, [op |-> "reverse"], sh.e, sh.b)

\* The first bound of a reversed take: the end of the prefix, from what the walk met.
TakeEnd(sh) ==
  LET lo  == Type(Front(sh.type))
      exh == WalkFrom(sh)
  IN  IF Type(sh.type).same[sh.b][exh] THEN sh.b
      ELSE IF lo.same[exh.base][sh.e.base] THEN exh
      ELSE [base |-> lo.incr[exh.base], left |-> exh.left]

TopOp(sh) == Last(sh.type).op

\* reverse: generic, and for take_n_iterator and take_while_iterator on top.
Reversed(sh) ==
  LET rev == [op |-> "reverse"]
  IN  CASE TopOp(sh) = "take" -> On(sh, rev, TakeEnd(sh), sh.b)
        [] TopOp(sh) = "take_while" ->
             [type |-> Append(Front(sh.type), rev), b |-> WalkFrom(sh), e |-> sh.b]
        [] OTHER -> On(sh, rev, sh.e, sh.b)

Appended(sh) ==
  On(sh, [op |-> "append", e |-> sh.e],
     [base |-> sh.b, step |-> 0, leg |-> IF Type(sh.type).same[sh.b][sh.e] THEN "value" ELSE "base"],
     [base |-> sh.e, step |-> 1, leg |-> "value"])

Prepended(sh) ==
  On(sh, [op |-> "prepend", e |-> sh.e],
     [base |-> sh.b, step |-> 0, leg |-> "value"],
     [base |-> sh.e, step |-> 1, leg |-> "base"])

OrDefault(sh) ==
  On(sh, [op |-> "default_if_empty", e |-> sh.e],
     [base |-> sh.b, phase |-> IF Type(sh.type).same[sh.b][sh.e] THEN 1 ELSE 0],
     [base |-> sh.e, phase |-> 2])

Strided(sh, s) == On(sh, [op |-> "stride", n |-> s.n, e |-> sh.e], sh.b, sh.e)

Enumerated(sh) ==
  On(sh, [op |-> "enumerate"], [base |-> sh.b, index |-> 0], [base |-> sh.e, index |-> 0])

\* enumerate, where, select of the second of each pair.
FilteredByIndex(sh, s) ==
  LET w == Filtered(Enumerated(sh), s) IN On(w, [op |-> "second"], w.b, w.e)

StagedOn(sh, s) ==
  CASE s.op = "select" -> Selected(sh)
    [] s.op = "where" -> Filtered(sh, s)
    [] s.op = "where_indexed" -> FilteredByIndex(sh, s)
    [] s.op = "take" -> Taken(sh, s)
    [] s.op = "take_while" -> TakenWhile(sh, s)
    [] s.op = "skip" -> Skipped(sh, s)
    [] s.op = "skip_while" -> SkippedWhile(sh, s)
    [] s.op = "reverse" -> Reversed(sh)
    [] s.op = "append" -> Appended(sh)
    [] s.op = "prepend" -> Prepended(sh)
    [] s.op = "default_if_empty" -> OrDefault(sh)
    [] s.op = "stride" -> Strided(sh, s)

-----------------------------------------------------------------------------
(* What each stage is to show of what the view below shows.                *)

PrefixLength(s, S) == Min({k \in 1 .. Len(s) : s[k] \notin S} \cup {Len(s) + 1}) - 1

\* The elements of q at the places in M.
Nth(M, j) == CHOOSE k \in M : Cardinality({m \in M : m <= k}) = j

Picked(q, M) == [j \in 1 .. Cardinality(M) |-> q[Nth(M, j)]]

\* The first of q and every n-th after it.
EachNth(q, n) == [k \in 1 .. (Len(q) + n - 1) \div n |-> q[(k - 1) * n + 1]]

Asked(q, s) ==
  CASE s.op = "select" -> q
    [] s.op = "where" -> Picked(q, {k \in DOMAIN q : q[k] \in s.on})
    [] s.op = "where_indexed" -> Picked(q, {k \in DOMAIN q : k - 1 \in s.on})
    [] s.op = "take" -> SubSeq(q, 1, Min({Magnitude(s.n), Len(q)}))
    [] s.op = "take_while" -> SubSeq(q, 1, PrefixLength(q, s.on))
    [] s.op = "skip" -> SubSeq(q, s.n + 1, Len(q))
    [] s.op = "skip_while" -> SubSeq(q, PrefixLength(q, s.on) + 1, Len(q))
    [] s.op = "reverse" -> Reverse(q)
    [] s.op = "append" -> Append(q, Extra)
    [] s.op = "prepend" -> <<Extra>> \o q
    [] s.op = "default_if_empty" -> IF q = <<>> THEN <<Extra>> ELSE q
    [] s.op = "stride" -> EachNth(q, s.n)

-----------------------------------------------------------------------------
(* Calls after which a view does not show what is asked.                   *)

\* where_indexed projects a reference into a pair that is gone by then.
Dangles(s) == s.op = "where_indexed" /\ Type(shape.type).gives = "copies"

\* A view with a take or take_while under its top adaptor is reversed.
ReversesHidden(s) ==
  s.op = "reverse" /\ \E k \in 1 .. Len(shape.type) - 1 : shape.type[k].op \in {"take", "take_while"}

\* A take that shows one element is reversed.
ReversesOne(s) == s.op = "reverse" /\ TopOp(shape) = "take" /\ Len(asked) = 1

Strays(s) ==
  {w \in {"dangles", "hidden", "one"} :
     CASE w = "dangles" -> Dangles(s) [] w = "hidden" -> ReversesHidden(s) [] w = "one" -> ReversesOne(s)}

Faithful == astray = {}

-----------------------------------------------------------------------------
ViewInit ==
  /\ \E s \in Sources :
       /\ shape = [type |-> <<[op |-> s]>>, b |-> At(1), e |-> At(Len(Elements(s)) + 1)]
       /\ asked = Elements(s)
  /\ astray = {}
  /\ wild \in BOOLEAN
  /\ chain = <<>>
  /\ cur = shape.b /\ out = <<>>
  /\ mode = "calls"

\* A stage is called on the view made so far.  (Bound: the model stops at a view that
\* already goes wrong, whose stages may loop for ever.)
CallStage(s) ==
  /\ mode = "calls"
  /\ Len(chain) < MaxStages /\ Faithful
  /\ s.op = "reverse" => Type(shape.type).category = "bidirectional"
  /\ s.op = "skip_while" => Type(shape.type).gives = "references"
  /\ chain' = Append(chain, s)
  /\ shape' = StagedOn(shape, s)
  /\ cur' = shape'.b
  /\ asked' = Asked(asked, s) /\ astray' = Strays(s)
  /\ UNCHANGED <<wild, out, mode>>

ofView == <<wild, chain, shape, asked, astray>>

ViewType == Type(shape.type)

AtEnd(i) == ViewType.same[i][shape.e]

\* A terminal that folds, or a range-for.
Fold ==
  /\ mode = "calls"
  /\ mode' = "fold"
  /\ UNCHANGED <<ofView, cur, out>>

Read ==
  /\ mode = "fold"
  /\ ~AtEnd(cur)
  /\ Len(out) < MaxReads
  /\ out' = Append(out, ViewType.reads[cur])
  /\ cur' = ViewType.incr[cur]
  /\ UNCHANGED <<ofView, mode>>

MeetEnd ==
  /\ mode = "fold"
  /\ AtEnd(cur)
  /\ mode' = "folded"
  /\ UNCHANGED <<ofView, cur, out>>

\* last() on bidirectional iterators steps back from the end.
LastBack ==
  /\ mode = "calls"
  /\ ViewType.category = "bidirectional"
  /\ ~AtEnd(shape.b)
  /\ mode' = "read last"
  /\ out' = <<ViewType.reads[ViewType.decr[shape.e]]>>
  /\ UNCHANGED <<ofView, cur>>

\* last() on others walks, a copy one step behind.
LastWalk ==
  /\ mode \in {"calls", "walk"}
  /\ ViewType.category = "forward"
  /\ mode = "calls" => ~AtEnd(shape.b)
  /\ LET next == ViewType.incr[cur]
     IN  IF AtEnd(next)
         THEN mode' = "read last" /\ out' = <<ViewType.reads[cur]>> /\ UNCHANGED cur
         ELSE mode' = "walk" /\ cur' = next /\ UNCHANGED out
  /\ UNCHANGED ofView

LastThrows ==
  /\ mode = "calls"
  /\ AtEnd(shape.b)
  /\ mode' = "no last"
  /\ UNCHANGED <<ofView, cur, out>>

\* The terminal has returned or thrown, or the loop is left early: back to the caller.
Leave ==
  /\ mode \notin {"calls", "walk"}
  /\ mode' = "calls"
  /\ cur' = shape.b
  /\ out' = <<>>
  /\ UNCHANGED ofView

ViewNext ==
  \/ \E s \in ViewStages : CallStage(s)
  \/ Fold \/ Read \/ MeetEnd
  \/ LastBack \/ LastWalk \/ LastThrows
  \/ Leave

ViewSpec == ViewInit /\ [][ViewNext]_viewVars

-----------------------------------------------------------------------------
FoldOf(q) ==
  /\ mode = "fold" => IsPrefix(out, q)
  /\ mode = "folded" => out = q

LastOf(q) ==
  /\ mode = "read last" => q # <<>> /\ out = <<Last(q)>>
  /\ mode = "no last" => q = <<>>

\* A loop over a view of views reads what its stages ask for, one after another, and
\* ends there, but for the exceptions above: stages change each other's iterators
\* only through the bounds and operators they are given.
ChainFolds == Faithful => FoldOf(asked)

\* last() reads the last of that sequence, and throws if there is none; but, over
\* iterators that step back, the end of a take or take_while is not where it stops.
ChainLast ==
  LET cut == \E k \in DOMAIN shape.type : shape.type[k].op \in {"take", "take_while"}
  IN  (Faithful /\ ~(cut /\ ViewType.category = "bidirectional")) => LastOf(asked)

\* What the documentation says of reverse: any view over a prefix, reversed, shows
\* the elements of the prefix.  It does not, when the take is not on top.
ReverseComposes == "one" \notin astray => FoldOf(asked)
=============================================================================
