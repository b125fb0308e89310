------------------------------ MODULE Combinators ------------------------------
(***************************************************************************)
(* The views of extra_views.h over legs and windows, as one specification: *)
(* each behaviour is about the view named by "view".                       *)
(***************************************************************************)
EXTENDS Integers, Sequences

CONSTANTS
  MaxLeg, MaxSize,   \* LegViews, WindowViews
  Walkers            \* the iterators of the program

ASSUME LegsAssumption == MaxLeg \in Nat /\ MaxSize \in Nat

VARIABLES
  combined,
  params, iters, spots   \* ForwardIterators

Legs == INSTANCE LegViews
Windows == INSTANCE WindowViews

Concat == INSTANCE ForwardIterators WITH Params <- Legs!ConcatParams, First <- Legs!ConcatFirst,
  Last <- Legs!ConcatLast, Incr <- Legs!ConcatIncr, Same <- Legs!ConcatSame,
  Reads <- Legs!ConcatReads, Shown <- Legs!ConcatShown, EndStays <- TRUE

Zipped == INSTANCE ForwardIterators WITH Params <- Legs!ZipParams, First <- Legs!ZipFirst,
  Last <- Legs!ZipLast, Incr <- Legs!ZipIncr, Same <- Legs!ZipSame,
  Reads <- Legs!ZipReads, Shown <- Legs!ZipShown, EndStays <- TRUE

OrDefault == INSTANCE ForwardIterators WITH Params <- Legs!DefaultParams,
  First <- Legs!DefaultFirst, Last <- Legs!DefaultLast, Incr <- Legs!DefaultIncr,
  Same <- Legs!DefaultSame, Reads <- Legs!DefaultReads, Shown <- Legs!DefaultShown,
  EndStays <- TRUE

Chunk == INSTANCE ForwardIterators WITH Params <- Windows!SizedParams,
  First <- Windows!ChunkFirst, Last <- Windows!ChunkLast, Incr <- Windows!ChunkIncr,
  Same <- Windows!ChunkSame, Reads <- Windows!ChunkReads, Shown <- Windows!ChunkShown,
  EndStays <- TRUE

Stride == INSTANCE ForwardIterators WITH Params <- Windows!StrideParams,
  First <- Windows!StrideFirst, Last <- Windows!StrideLast, Incr <- Windows!StrideIncr,
  Same <- Windows!StrideSame, Reads <- Windows!StrideReads, Shown <- Windows!StrideShown,
  EndStays <- TRUE

Sliding == INSTANCE ForwardIterators WITH Params <- Windows!SizedParams,
  First <- Windows!SlidingFirst, Last <- Windows!SlidingLast, Incr <- Windows!SlidingIncr,
  Same <- Windows!SlidingSame, Reads <- Windows!SlidingReads, Shown <- Windows!SlidingShown,
  EndStays <- FALSE

Enumerate == INSTANCE ForwardIterators WITH Params <- Windows!EnumerateParams,
  First <- Windows!EnumerateFirst, Last <- Windows!EnumerateLast, Incr <- Windows!EnumerateIncr,
  Same <- Windows!EnumerateSame, Reads <- Windows!EnumerateReads, Shown <- Windows!EnumerateShown,
  EndStays <- FALSE

-----------------------------------------------------------------------------
CombinedInit ==
  \/ combined = "concat" /\ Concat!Init
  \/ combined = "zip" /\ Zipped!Init
  \/ combined = "default_if_empty" /\ OrDefault!Init
  \/ combined = "chunk" /\ Chunk!Init
  \/ combined = "stride" /\ Stride!Init
  \/ combined = "sliding_window" /\ Sliding!Init
  \/ combined = "enumerate" /\ Enumerate!Init

CombinedNext ==
  /\ UNCHANGED combined
  /\ \/ combined = "concat" /\ Concat!Next
     \/ combined = "zip" /\ Zipped!Next
     \/ combined = "default_if_empty" /\ OrDefault!Next
     \/ combined = "chunk" /\ Chunk!Next
     \/ combined = "stride" /\ Stride!Next
     \/ combined = "sliding_window" /\ Sliding!Next
     \/ combined = "enumerate" /\ Enumerate!Next

CombinedSpec == CombinedInit /\ [][CombinedNext]_<<combined, params, iters, spots>>

-----------------------------------------------------------------------------
\* An iterator over legs (concat, zip, default_if_empty) reads the element of its
\* place, on whichever leg that is; one of chunk, stride, sliding_window or
\* enumerate the window, element or numbered element, also where the range runs out.
ReadInOrder ==
  /\ combined = "concat" => Concat!ReadsInOrder
  /\ combined = "zip" => Zipped!ReadsInOrder
  /\ combined = "default_if_empty" => OrDefault!ReadsInOrder
  /\ combined = "chunk" => Chunk!ReadsInOrder
  /\ combined = "stride" => Stride!ReadsInOrder
  /\ combined = "sliding_window" => Sliding!ReadsInOrder
  /\ combined = "enumerate" => Enumerate!ReadsInOrder

\* Such iterators are equal when they are at the same place, and only then: the
\* end is one, whether a loop meets it on the first leg, the last, or some; the
\* last window, short or not, is not the end, and a step does not pass it.
EqualIfSamePlace ==
  /\ combined = "concat" => Concat!EqualIfSamePlace
  /\ combined = "zip" => Zipped!EqualIfSamePlace
  /\ combined = "default_if_empty" => OrDefault!EqualIfSamePlace
  /\ combined = "chunk" => Chunk!EqualIfSamePlace
  /\ combined = "stride" => Stride!EqualIfSamePlace
  /\ combined = "sliding_window" => Sliding!EqualIfSamePlace
  /\ combined = "enumerate" => Enumerate!EqualIfSamePlace
=============================================================================
