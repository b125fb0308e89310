# qb-linq in TLA+

qb-linq is a header-only C++17 library of lazy, C#-style queries. A query is a chain of
*views*; a view is a pair of iterators with a function, and nothing happens until a
*terminal* (`to_vector`, `aggregate`, `last`, ...) walks it. The library runs in one
thread, keeps nothing on disk and talks to nobody. What is hard in it is elsewhere: in
iterators with hidden state (a cached first match, a budget, a shared set), in equalities
that are not equality of positions, in what user code does between two steps, and in the
order in which legal calls are made. These modules are about that.

## 1. The system

All sources are under `src/include/qb/linq/`.

| component | where | state it keeps | operations |
|---|---|---|---|
| `where_view`, `where_iterator` | `query.h`, `iterators.h` | the view: bounds, predicate, cached first match; the iterator: base position, both bounds | `begin`, `end`, `++`, `--`, copy, `=` |
| `lazy_copy_once` | `detail/lazy_copy_once.h` | a value or nothing | fill on first use, copy, move, assign |
| `take_n_view`, `take_n_iterator`, `reversed_view` over it | `query.h`, `iterators.h` | base position and a budget counting up to 0 | `++`, `--`, `==`, search for the reversed bounds |
| `take_while_view`, its iterator and `reversed_view` | same | base position, predicate | `++`, `--`, `==`, search for the reversed bounds |
| `subrange` (`skip`, `skip_while`) | `query.h`, `detail/query_range.h` | two iterators found when the view is made | the search |
| `distinct_view`, `distinct_iterator` | `detail/extra_views.h` | base position; a set of keys shared by all copies | `begin`, `++`, copy |
| `reverse_iterator`, generic `reversed_view` | `reverse_iterator.h`, `query.h` | one base iterator | `*` through a decremented copy, `++`, `==` |
| `select_view` | `iterators.h` | base iterator | projection on reading |
| `concat`, `zip`, `zip3`, `append`, `prepend`, `union_with`, `default_if_empty` | `detail/extra_views.h` | an iterator per leg, which leg is walked | `++`, `==` against a canonical end |
| `scan` | `detail/extra_views.h` | base iterator, accumulator, value cached for `*` | `*`, `++`, copy |
| `flat_map` | `detail/extra_views.h` | outer iterator, an inner range of its own, two iterators into an inner range | `++`, copy |
| `chunk`, `stride`, `sliding_window`, `enumerate` | `detail/extra_views.h` | base iterator and a window or counter | `++` |
| materialising operations (`order_by`, `group_by`, joins, set operations, `take_last`, `skip_last`) | `query.h`, `detail/order.h`, `detail/group_by.h` | containers built in one pass | the pass |
| terminals | `detail/query_range.h` | locals | one loop each |
| factories (`from`, `iota`, `repeat`, ...) | `query.h`, `enumerable.h` | bounds | - |
| `materialized_range` | `query.h`, `detail/order.h` | a vector or map that copies share, and iterators into it | copy, `asc`, `desc`, `reverse` |
| `enumerable` | `enumerable.h` | the view it wraps | forwards every call; copied, moved, assigned, destroyed |

**How they interact.** Views nest: an iterator of the outer view holds an iterator of the
inner one and moves it. Terminals drive the outermost iterator. Predicates, projections and
key functions are user code called in the middle of `++`, `--`, `begin()` and `==`; they may
throw, and may use other iterators and copies of the same view. Between two walks user code may write to the
elements (`each` is made for it). Copies of a view copy its cache; copies of a
`distinct_iterator` share its set; a copy of a `flat_map_iterator` walks the inner range of the
original. A lazy stage keeps the iterators of the view it is called on and not the view, so that
some handles must be kept by the caller and some need not. An exception of user code passes
every frame between it and the caller, and some of those are `noexcept`.

**What is hard.** The state that outlives one walk (the cached match, the bounds of a
reversed view, the shared set) and becomes stale; ends that are met in more than one way
(`take_n_iterator`, `take_while_iterator`), so that code which steps back from an end starts
in the wrong place; loops that end only if a step lands exactly on a bound; user code that
runs, or throws, half-way through a step; a view on top of a view, which steps with one adaptor
and compares with another; iterators that point into views and containers that are gone. `PROJECT.json` lists each such place as a hazard,
with the line, and with the properties that cover it.

**What makes each component correct.** A view shows one sequence: every walk of it, forwards
or backwards, whatever other walks are under way and in whatever order begin, end, copies and
steps are made, reads that sequence or the part of it that it should, misses nothing, reads
nothing twice, stays in the source range, and returns.

## 2. The modules

```
Storage                    positions, ranges, neighbours of a position among those shown
 |-- MultiPass             what a view promises (abstract)
 |-- WhereView             where(pred), one step at a time
 |    `-- WherePass        whole walks: fold loop, reverse, last, writes between them
 |         |-- MCWherePass      . instance for TLC
 |         `-- WhereViewProofs  about both, with the refinement of MultiPass
 |-- TakeWhileView         take_while(pred), its reversed_view, skip_while
 |-- DistinctView          distinct(), distinct_by(f)
 |    |-- MCDistinctView
 |    `-- DistinctProofs
 `-- FlatMapView           flat_map(f)
      `-- FlatMapLast      last() over it
           `-- MCFlatMapLast

TakeView                   take(n): walks, reversed bounds, with a storage and a ptrdiff_t of its own
 |-- MCTakeView
 `-- TakeViewProofs

ForwardIterators           what a program may do with the iterators of a forward-only view
LegViews                   concat, zip, zip3, default_if_empty
WindowViews                chunk, stride, sliding_window, enumerate
 `-- Combinators           the sum of these three
ScanView                   scan(seed, f)
 `-- ExtraViewsProofs      about Combinators, TakeWhileView, FlatMapView and ScanView

Sorted                     what it is to list places in order
 |-- SortedProofs          lemmas about lists and counting, extended by five other modules of proofs
 `-- Places                elements as places with keys
      |-- GroupOps         count_by, aggregate_by, reduce_by, group_by, maps, dictionaries
      |-- JoinOps          join, group_join, left_join, right_join
      |-- SetOps           except, intersect, union_by, their _by forms, to_set
      |-- TailOps          take_last, skip_last
      `-- Terminals        searches, single, element_at, extremes, sequence_equal, percentiles
OrderBy                    order_by
RowTerminals               min, max, min_by, max_by, min_max over rows that hold references
 |-- OperationsProofs      about RowTerminals, GroupOps, JoinOps, SetOps, TailOps
 `-- TerminalProofs        about Terminals and OrderBy

Pipeline                   views of views: a chain of stages on a source, and loops over it
 `-- MCPipeline
Lifetimes                  handles, containers, shared owners: what keeps what alive
Exceptions                 frames between a functor that throws and the caller
 `-- ChainProofs           about Pipeline and these two

MCChains                   instance for TLC of Pipeline, Lifetimes, Exceptions, WhereView: it
                           extends them all
MCCalls                    likewise of Combinators, WherePass, TakeView, TakeWhileView, FlatMapView,
                           ScanView, SetOps, TailOps, GroupOps, JoinOps, OrderBy, Terminals,
                           RowTerminals
```

Elements are abstracted to what the view asks of them: whether the predicate accepts the
element (`hits`), or its key (`key`). A base iterator is a position `1 .. N + 1`, a view is
made over a half-open `[b, e)` of such positions, and `Ranges` is the set of ranges a model
looks at.

**WhereView.** Any number of views and iterators. `begin()` returns the cached match
(`BeginCached`) or runs `find_if` (`BeginScan`, `FindAdvance`, `FindDone`, the last of which
fills the cache); `operator++` is `Inc`, `IncAdvance`, `IncDone`; `operator--` is
`DecAtBounds` for its early returns and `Dec`, `DecRetreat`, `DecDone` for its loop. One call
of the predicate is one step, so that between two calls any other iterator or view may move,
and `Throw` is a call that throws. Such interleavings contain those a predicate can bring
about by using other iterators itself, which are properly nested. `Assign` is the
copy constructor and `operator=` of the iterator, which takes position and bounds; `CopyView`,
`MoveView` and `Rebuild` are what happens to views, the cache included. `from` is a history
variable: where the loop under way began.

**WherePass** composes three iterators of one `WhereView` into the programs that walk it: a
fold loop; the loop over `reverse()`, where `reverse_iterator` reads through a copy it
decrements; and `last()`. `WriteBetween` is the user writing to an element.

**TakeView** has one iterator (`taker`) and its bound (`limit`) per walk. `Same` is the equality that is met
by either half, `Incr` the step that leaves the base alone when it exhausts the budget,
`TakeCount` the negation with the guard at the smallest `ptrdiff_t`; integers are
`PtrMin .. PtrMax`. `BoundStep` and `BoundFound` are `make_bounds` of the dedicated
`reversed_view`. The prefix that walks should read (`PrefixLen`) is defined by what the library says of the
argument (`Magnitude`), not by `TakeCount`.

**TakeWhileView** has the same shape; the bounds of the reversed view (`rev`) and of the
subrange of `skip_while` (`rest`) are found once and kept while `Write` changes elements.

**DistinctView.** Iterators refer to sets of keys; `Begin` takes a set nobody refers to, `Copy`
shares one. `skip_seen()` is `SkipStep`, `SkipFound`, `SkipEnd`, one call of the key function
each.

**FlatMapView.** `inner_` of an iterator is named by the element whose range it holds (`held`),
and the two inner iterators by whose elements they walk (`in`): those of an iterator's own
`inner_`, or, if `f` returns ranges that do not own their elements, of the `Source`. `Load`
overwrites `inner_`, and `Lost` is what becomes of everybody who walks its elements. `FlatCopy` is
the implicit copy: a range of one's own, and the walk of the other's. `FlatMapLast` runs `last()`
on it, with its two local iterators.

**ForwardIterators** is a client: variables holding iterators that are begun, copied and moved in
any order. It is instantiated once for each view of `LegViews` and `WindowViews`, which give
`begin()`, `end()`, `++`, `==` and `*` as operators on what an iterator stores. What the view is
to show (`ConcatShown`, ...) is defined apart from them. `ScanView` has actions of its own, because
`operator*` fills a cache and elements can be written to between two calls; what is folded is
recorded as the sequence of elements folded. `FoldThrows` is `f` throwing in either operator, before anything is assigned.

**SetOps, TailOps, GroupOps, JoinOps, OrderBy, Terminals** are loops, one element per step, from
a call to its return. An element is its place and has a key, so that results tell equal
elements apart. Where the library leaves an order open (equal keys of an `unordered_multimap`), any
is possible. `std::stable_sort` is defined by what it does with a strict weak order (`Rank`);
doubles are exact.

**RowTerminals** is about one consequence of types: `value_type` drops the reference of what `*`
returns and not those inside it, so that a local variable of a row of `enumerate()` or `zip()` is
bound to the element it was initialised with, and assigning another row to it writes to that
element. `Moved` and `Written` are the two halves of that assignment.

**Pipeline** composes. A view is the pile of adaptors its iterator type is made of, the source at the bottom,
and two iterators, `begin()` and `end()`. `Type` makes the iterator type of a pile, one adaptor on another (`Adapted`), as
a record of functions: `incr`, `decr`, `reads` and `same` are `++`, `--`, `*` and `==`, and each adaptor
says what its own do and whom they call. `take` compares by budget, `take_while` asks its predicate about the left
operand, `select` and `where` compare as what is below them, `reverse` exchanges steps. `CallStage` calls one more
stage (a search, for `skip` and `skip_while`; a choice of bounds, for `reverse`), `Fold` and its `Read` and `MeetEnd` are a terminal,
`LastBack`, `LastWalk` and `LastThrows` are `last()`. The history `asked` is what the stages ask for, each a
function of sequences (`Asked`). Three kinds of calls are set apart by name, because the code does not
give what is asked (`Dangles`, `ReversesHidden`, `ReversesOne`); `astray` records which were made, and a chain without
them is `Faithful`. Zip and distinct, and the views with a buffer, are not stages here. A loop inside an
operator (`Until`) that would never end has no value; none is met.

**Lifetimes** says nothing of elements. A handle is a record of what its iterators point into
(containers, the functor or the default of a view, an owner's vector), and of what it shares
(`shared_ptr` of `materialized_range`). Every operation of `enumerable` is one of a few classes
(`Keeping`, `Projecting`, `Buffering`, ...) by what it does to that record (`Staged`, `Both`, `Owned`,
`Again`). The caller copies, moves, assigns and destroys handles and discards containers in any order;
`Refer`, `Extract` and `Evaluate` are terminals, by what they return. `Kept` is what the
documentation asks the caller to keep.

**Exceptions** says nothing of results. A frame is an operator of an adaptor; `Asks` is the set of
operators its code calls below, and `IsNoexcept` whether it is `noexcept`, which for some adaptors depends on what is below.
A functor throws in any frame that calls one; `Unwind` leaves a frame, `Terminate` is the frame that may not be left.

**Sums.** In `Combinators`, `MCCalls` and `MCChains` the first state chooses a view, an
operation or a part, and the variables of the others stay empty. A run then asks one question of many
components: do calls and views keep their promise one by one, and do they together. The client of the forward-only
views is two iterators. The properties of an extended module are checked as they stand there, and are those the
theorems are about; those of the instances in `Combinators` are restated for their part.

Definitions commented "Fault" are small mistakes the code does not make; no action uses them. `PROJECT.json`
pairs each property with one that breaks it ("mutants"), and maps every other definition to
its lines ("map").

## 3. What is checked

| run | shows | distinct states |
|---|---|---|
| `distinct_view` | no iterator stands on a key met before (`OnFirstOfKey`); a pass whose set nobody else moves on is complete (`FreshPassComplete`); what is behind an iterator is in its set (`PassedIsSeen`) | 166 610 (up to symmetry) |
| `calls` | one view or one call at a time, see below | 441 038 |
| `chains` | several views, iterators or handles, see below | 1 112 693 |

`calls`, by part:

* `where`, whole walks: a walk over a view whose cached match is still right reads the matches, forwards,
  backwards, or the last (`ReadsMatches`); with a stale cache a forward walk is wrong at its first element
  only (`StaleOnlyAtFirst`);
* `take_while`, `skip_while`: forward walks follow the elements as they are (`ForwardReadsPrefix`), reversed
  ones and `skip_while` as they were when the view was made (`ReverseReadsPrefix`, `RestReadsRest`);
* `take(n)`: forward walks read the prefix (`ReadsPrefix`), reversed ones the prefix backwards if not one element is
  asked for (`ReadsPrefixReversed`; for that case see `take_reverse_one`); the base never leaves the prefix
  (`BaseOnTaken`), nor a budget its width (`TakeTypeOK`);
* the forward-only views: iterators over `concat`, `zip`, `default_if_empty`, `chunk`, `stride`,
  `sliding_window`, `enumerate` read the element of their place (`ReadInOrder`) and are equal just when they are
  at the same one, the end among them (`EqualIfSamePlace`); `scan` folds each element once, also if `f` has thrown on it
  (`FoldsEachOnce`) and builds on what it has shown (`CarriesShown`); `flat_map` misses no inner element
  (`ReadsFlat`) and reads none of another outer element (`ReadsOwnElement`);
* the operations: each gives what its definition asks for (`SetOpCorrect`, `TailCorrect`, `GroupCorrect`,
  `JoinCorrect`, `OrderCorrect`, `TerminalCorrect`, `RowsAnswered`), and a search reads no further than the answer
  (`StopsInTime`);
* loops, walks and searches that have begun end (`StepEnds`, `WalksEnd`, `TakeEnds`).

`chains`, by part:

* `WhereView`: an iterator at rest is on a match or at its end (`OnMatch`); a cache is the first match of its own
  view (`CacheIsFirst`); no loop passes a match, throwing or not (`NoMatchPassed`); views and iterators implement
  `MultiPass` (`Implements`);
* `Pipeline`: a loop over up to three stages on every source reads what the stages ask for (`ChainFolds`),
  and `last()` reads the last of it (`ChainLast`), for every chain that is `Faithful`;
* `Lifetimes`: a handle whose containers, storing views and ranges are kept touches nothing that is gone
  (`NoDangling`); what `first()` and the like return refers to what lives on (`ReferenceLives`), but for
  stages that show their own iterator's buffer or a temporary;
* `Exceptions`: what a functor throws reaches the caller, but out of `any()` and of two comparisons
  (`ThrowsArrive`).

Nine runs look for, and find, a disagreement between the code and what it says of itself:

| run | the code |
|---|---|
| `where_reverse_stale` | the first match is cached for the life of the view. If `each` makes it a non-match, `begin()` is no longer a match or the end; `--` stops at matches and at the end only, so a reversed walk never meets its bound and goes round for ever |
| `take_last` | `last()` is `*std::prev(end())`, and `end()` of a prefix view is the end of the source: `take(2).last()` of 1, 2, 3 is 3. The same holds of `take_while` (`TaskLast` of `TakeWhileView`) |
| `take_reverse_one` | the dedicated `reversed_view` compares `begin()` with the exhausted iterator to see whether the prefix is empty. The iterator `take(1)` has exhausted has not moved its base, so that they are equal: `take(1).reverse()` of 1, 2, 3 shows nothing |
| `take_int_min` | the documentation calls `take(INT_MIN)` empty. The argument is a `ptrdiff_t` and the guard is for the smallest of those: where it is wider than `int`, everything is taken (a test of the library expects that) |
| `distinct_derived` | the "new set on each `begin()`" is not had by views derived from a `distinct_view`: they copy one iterator, with its set, and their second walk finds every key met already |
| `flat_map_last` | `last()` reads through a copy of the iterator it has moved to the end. If `f` returns containers by value and the last outer elements have empty ones, the way to the end overwrites the container the copy walks: a use after free (seen by the address sanitizer for ranges of 1, 2 and 0 elements) |
| `chain_reverse` | the bounds of the prefix are found only by a `reverse()` called on the prefix view itself. With a `select`, `where`, `skip` or `enumerate` in between, it starts at the end of the source: `take(2).select(id).reverse()` of 1, 2, 3 is 3, 2, 1. |
| `rows_min_max` | `min_max()` over `enumerate()` has two local pairs that hold references to the first element; assigning the greatest to one overwrites the other. Over 3, 1, 5 the minimum is (0, 5), and the first element becomes 5 |
| `throws_terminate` | `any()` is `noexcept` and runs a predicate; so is `operator==` of `take` and of the views of `extra_views.h`, which over a `take_while` runs one: `std::terminate` |

Each was compiled and observed as described, on a 64-bit target (`distinct().select(f)`
walked twice shows its first element only the second time).

**Bounds.** `N` is 3 to 5. Each view looks at an element and its neighbours, so that three
elements give a first, an inner and a last one, with every choice of which are shown; `take`
needs five for a prefix with an inside and a rest. Ranges include the whole storage, a proper
part, and the empty range, in `TakeView` (`Spans`) and `TakeWhileView` all of them. Two views and two
iterators are the smallest program in which a cache can come from another view and an
assignment from another range; three iterators in `DistinctView` let one be copied while a
third walks. `PtrMax` 7 keeps `ptrdiff_t` wider than the storage (`Length` 5), and `IntMax` 3 an `int` narrower.

In `calls`, ranges of up to 4 (`MaxLen`, `MaxLeft`, `MaxRows`; `MaxFolded` 3; the second range of a join or set operation up to 3,
`MaxRight`), inner ranges of up to 2 (`MaxInner`) and sizes up to 6 (`MaxSize`, `MaxCount`) include empty ones,
short last windows and windows longer than the range; three outer elements put an empty inner range first, between
others and last; four elements with three keys have a key once, twice and three times. `MaxWrites` 2 bounds the writes to
elements: one makes a cache stale, a second repairs it or moves the first match. What was read is recorded up
to one element more than any walk that ends can read.

In `chains`, three stages (`MaxStages`) on a source of four (`Length`) put every stage under and over every other with one
between them; predicates accept an inner part, or the added element; `MaxReads` 8 is twice the source, and a loop
that reads more is cut off there and would be wrong by then; after a call that goes wrong (`astray`) loops are run and no further stage is called. Four handles (`MaxHandles`) are a view that stores, one
derived from it, a copy or a pair of those, and a range made of it; one container and one stage of each class of `Lifetimes` are
enough, the classes being all it tells apart. Three adaptors (`MaxPile`) put one between a `take_while` and the comparison
above it. The theorems below have no such bounds.

**Symmetry** is used in one run, `distinct_view`, whose properties are safety properties and whose
constants (keys, sets, iterators) are interchangeable.

**Deadlock** is checked but in three runs. Between walks a new one can begin, and after the return
of an operation the only step is to stay (`Returned`), so that a loop that could not go on would be found. In
`chains`, `rows_min_max` and `throws_terminate` a program really stops: it has made its last handle and
destroyed them, its call has returned, or it was terminated.

**Fairness.** Only weak fairness of the steps of a walk that has begun: `Run` of `WherePass`, `WalkStep` of
`TakeView`, `TaskStep` of `TakeWhileView` (its searches included), and `FlatLoop(c)` of `FlatMapView`, the loop
a call of `++` or `begin()` is in. The code justifies it: a walk is a loop in one thread, which nothing suspends.
Nothing obliges the program to begin a walk, so that no fairness is put on `Start`, `StartWalk` or on writes. `WalksEnd`, `TakeEnds` and
`StepEnds` are then statements about the loops alone.

## 4. What is proved

For every length of the storage and of ranges, legs and windows, set of ranges, keys, number of views, iterators
and handles, and width of integers, and each type invariant a run checks too. Every invariant the runs check is a
theorem. The assumptions on constants are named in the modules:

| assumption | says |
|---|---|
| `LengthAssumption`, `RangesAssumption` (`Storage`) | the storage has a length, and ranges are half-open parts of it |
| `WidthAssumption` (`TakeView`) | the storage has a length, and `ptrdiff_t` can count it |
| `NoCursorAssumption`, `NoSetAssumption` | "nobody" is no iterator, "no set" no set |
| `OneViewAssumption`, `ThreeCursorsAssumption` (`WherePass`) | a walk has one view and three different iterators |
| `LegsAssumption` (`Combinators`), `WholePercents` (`Terminals`) | bounds on lengths and sizes are numbers; percents are whole ones |
| `ValuesAssumption` (`Pipeline`) | the source has a length, and what is read outside it is no element |
| `StagesAssumption` (`Pipeline`) | the calls are those the library has, with any counts and predicates: a `skip` is not negative, a `stride` not 0 (the code makes 0 a 1) |
| `LifetimesAssumption` | the stages and pairings are some of those the library has |

**Views on their own.**

* `WhereViewProofs`, about `WhereView`: `OnMatch`, `CacheIsFirst`, `NoMatchPassed`. None is inductive. `OnMatch`
  needs to know what a loop has passed (`NoMatchPassed`, by the history `from`); filling a
  cache is right only if the `find_if` under way is over the bounds of the view it is for, by
  one iterator, which no view operation may pull away (`ScanInv`). `IInv` is their conjunction
  with `TypeOK`.
  And `Spec => Implements`: an iterator is seen at its old place until
  its loop is over (`Seen`); the step that ends the loop is `First`, `Forward` or `Backward`
  of `MultiPass`, because `IInv` says nothing shown lies between; a step that throws is `Stray`;
  the rest stutters.
* The same module, about `WherePass`: `ReadsMatches` and `StaleOnlyAtFirst`. `IInv` is of no use here, because elements
  are written to between walks; `PassInv` starts anew. Where the program is says which loop may be
  running (`Turns`); the bounds are found first (`Opening`) and are those of the view from then on (`Opened`); a forward
  walk has read what `FirstAndAfter` lists, the cached element and the matches behind it, up to where its iterator rests or
  last rested (`Forwards`), whether the cache is stale or not; a reversed one, over a cache that is not stale, the matches from the end down to there
  (`Backwards`); the copy it reads through passes no match (`Reading`). A reversed walk over a stale cache
  has no such invariant: that is `where_reverse_stale`.
* `TakeViewProofs`: `ReadsPrefix`, `ReadsPrefixReversed`, `BaseOnTaken`. The invariant (`TakeInv`)
  counts the steps of `++` made (`Used`) and says where they lead: to the element of that
  number, except after the exhausting step, which does not move. `ReverseInv` is the same
  count run backwards; it says why a `take` of one shows nothing.
* `DistinctProofs`: `OnFirstOfKey`, `PassedIsSeen`, `FreshPassComplete`. Sharing is what
  makes it hard: `AloneInv` says that the set of a pass that nobody disturbed holds the keys of
  what that pass stood on, and that who shares it is at rest.
* `ExtraViewsProofs`, about the seven views of `Combinators`: `ReadInOrder` and `EqualIfSamePlace`. `CombinedInv` says of
  every live iterator that it stores what its place demands (`Placed`); for each view that is a relation of its own
  (`ConcatAt`, `ZipAt`, ...), with lemmas that `begin()` and `end()` make the iterators of the first place and of the end
  (`..Ends`), that `++` leads to the next place (`..Step`), what is read there (`..Faithful`) and when two are equal
  (`..Equal`). The hard places are the ends. `concat` is at the same end whether it walked there or not, also over empty legs;
  the step of `zip` at the last element of the shortest leg leads to the tuple of all ends, and not to that of the legs it has; the last window of `chunk`
  may be short; `stride` shows the multiples of its step, which are counted by division (`Multiples`); the windows of `sliding_window`
  at the tail of the range are short, and all of them are if the range is shorter than a window.
* For `take_while`: `ForwardReadsPrefix`, `ReverseReadsPrefix`, `RestReadsRest`. What lies
  before the iterator has been accepted (`AcceptedBelow`); the bounds found are the end of
  the prefix in the elements as they were then (`BoundsInv`, by the history `seen`).
* For `flat_map`, `ReadsFlat` and `ReadsOwnElement`, if `Source` and `Dead` are no
  iterators (`Sensible`, a hypothesis of both). `Rests` is the two together for an iterator at rest;
  `Seeks` is what they come from, inside `advance_to_valid()`: behind the iterator lie the elements of
  the ranges before its outer element, and if it has loaded a range it is at the first place of its own. What
  a step of one iterator does to the others is said once (`Others`): it takes the elements they walk,
  or leaves them what they had. For `scan`, `FoldsEachOnce` and `CarriesShown`: `Fits` relates
  an iterator to what it has shown, through the result it goes on from (`Now`), the cache or the accumulator.

**Views together** (`ChainProofs`).

* `NoDangling`, `ReferenceLives`. Neither says why something is alive; the invariant
  does. A view points only at views it was derived from, of a class that stores (`Points`), and into owners that it was
  derived from a range of or shares (`Owners`); a handle of the family of an owner, unless moved
  from, shares it (`Backed`).
* `ThrowsArrive`, for piles of any height. Frames are `Nested`: each was called by the
  one before it. `Alarm` says that an exception stands only in frames that let it out; it is kept because a
  frame that is `noexcept` and not exempt calls, through however many adaptors, only frames that are.
* `ChainFolds`, `ChainLast`, for sources and chains of any length, any counts and predicates, in any order. What the loop of
  one view reads is not enough to know what a stage called on it will show. `Shows` is: a path of iterators that `++`
  leads along from `begin()` to one that is equal to `end()`, that are not equal to it before, and whose `*` are the
  elements asked for (`Path`); and, where `reverse` may be called, that `--` leads back along it and that
  its iterators are all different (`BothWays`). Two views promise less. That of `take` is equal to
  its end where the budget is out and does not step back from there, so that of it `TakesBack` is said: its
  base goes both ways, and where on it the budget runs out; `take_while` is unlike itself in which side asks, so that
  of it the same is said of its base. Each stage has a lemma that it keeps this: the loops of `where`, `skip`, `skip_while` and
  `stride` are runs along the path below (`RunsTo`, `LoopAlong`), whose places are counted (`PickedOf`, `MultiplesCounted`); the hard
  ones are `where` backwards, which stops at its first bound whether that is a match or not, `skip` on `take`, whose end can be met early,
  and the three bounds of `reverse`. `ViewInv` adds where the loop under way is on the path (`Looping`).

**Operations** (`OperationsProofs`).

* For rows, `RowsAnswered`. `LowSoFar` and `HighSoFar` are the usual loop invariants,
  which hold although the loop writes to memory, because only the first element is written to
  (`FirstOnly`), by the variable that is compared with (`Second`).
* For set operations, `SetOpCorrect`: before
  any element is asked for, the set to ask is that of the whole argument (`AskInv`); from then on the result is what
  the places behind the loop give (`OfMine`, `OfTheirs`), because the set of keys yielded tells whether an element is the
  first with its key (`LeftInv`, `RestInv`).
* For `take_last` and `skip_last`, `TailCorrect`: what has been
  copied is always a `Span`, from `Foremost` to the element the loop is at, and where the four branches differ is in
  `Foremost` and in `Behind`, the end of their loop.
* For groups, `GroupCorrect`. Rows and the index that finds them are two structures that have to agree, for the elements filed so
  far: `index[k]` is the row of `k`, and row `j` is found by its key (`RowsSoFar`); counts are kept
  apart from the order of their keys until the end (`CountsSoFar`); `group_by` has a map under each key (`TreeSoFar`); a map
  holds the last place of each key, and `to_dictionary` has met none twice (`MapSoFar`).
* For joins, `JoinCorrect`. Every bucket holds the places filed with its key, in any order (`Bucketed`), and the result
  holds the pairs of each place of the driving side looked at, once each, places in order (`JoinedSoFar`). That a row is added once and
  nothing is lost is counted: a sequence `Holds` a set if it has its members and its length.

**Terminals** (`TerminalProofs`).

* `TerminalCorrect`, `StopsInTime`. There is one clause for each kind of loop (`NoneSoFar` for those that stop at a hit, `LastSoFar`, `OnlySoFar`,
  `FoldedSoFar`, `ExtremeSoFar`, `AtSoFar`, `SameBefore`), all about the elements before the one the loop is at; `ExtremeSoFar`
  says of both extremes that they are the first of their kind. A percentile is a place with enough below it and enough above, in every order `std::sort` may leave (`SortOrders`).
* `OrderCorrect`. The comparison (`LexLess`) is a recursion over levels; that it is decided by the first level that differs
  (`KeysFirst`) is shown by a least counterexample. Ties broken by place make it a strict total order (`ComesFirst`), so that
  counting who comes before an element (`Rank`) is a bijection, and what it lists is sorted and stable.

`SortedProofs` has what these share: `Lists` (a set of places in order), `Holds` (in any order), what appending does to either,
that a set of numbers has a least member and, if bounded, a greatest, by well-ordering, and how many multiples of a number are below another.

**Only model-checked.** That walks return (`StepEnds`, `WalksEnd`, `TakeEnds`): liveness is out of the prover's
reach. The nine disagreements, which are counterexamples. Proved about the model alone, and not about C++: everything section 5 leaves out.

## 5. What is not modelled, and the plan

Left out for good:

* `type_traits.h`, `compressed_fn`, overload sets, and what does not compile (`where` over `take_while` with a predicate that cannot
  be assigned, `skip_while` over views that give values, `order_by` and `to_vector` over rows of references, `from` over raw pointers);
* the single header (generated from the headers the map names), tests, benchmarks, build files;
* raw object lifetime in `lazy_copy_once`: that a destroyed value is not read is a matter of C++ storage, not of the protocol;
* the lifetime of a temporary source: `for (... : from(std::string("abc")).enumerate())`, which the README of the
  library shows, is what `linq.h` says must not be done;
* random-access arithmetic of `reverse_iterator`, which no part of the library uses;
* variances and sums of doubles, which are floating-point questions; kinds of order other than `asc` and `desc`;
* copy constructors of functors and elements that throw.

Incrementing an end iterator and comparing iterators of different views are undefined by the
contract of iterators, and no action does it.

`scan` over a base whose `++` throws: the accumulator has been assigned by then. A `++` of the library's views that throws
(`where`, `distinct`, `flat_map`) has moved off the element and is not at its end, which leaves the `scan_iterator` as a step that
returns does; an iterator of the user's that throws before it moves would be folded twice, and is left out.

What is left to do: **stages with state of their own in Pipeline**, `distinct`, `scan`, `flat_map`, `chunk` and `zip`. Their
iterators are modelled, and what copies of them do under a stage above is known for `distinct` only (`distinct_derived`). A
type is a record of functions, and `Shows` asks of it only what its operators answer, so that each is one more adaptor and one more lemma.

## 6. Running it

`tlc -config Chains.cfg MCChains.tla`, and so on for the other pairs of `PROJECT.json`
("runs"); `tlapm WhereViewProofs.tla` and the other modules named `*Proofs`.
