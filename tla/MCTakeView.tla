------------------------------ MODULE MCTakeView ------------------------------
(* Every range of a short storage, every argument of a narrow ptrdiff_t. *)
EXTENDS TakeView

CONSTANT IntMax   \* the largest int, where int is narrower than ptrdiff_t

IntMin == -IntMax - 1

\* README.md, take(n): "`INT_MIN` -> empty".  A loop over take(INT_MIN) reads nothing.
IntMinTakesNothing == WalkReturned("forward") /\ n = IntMin => taken = <<>>
=============================================================================
