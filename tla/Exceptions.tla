------------------------------ MODULE Exceptions ------------------------------
(***************************************************************************)
(* A functor of user code throws somewhere below a terminal: which frames  *)
(* the exception has to pass on its way to the caller, and which of them   *)
(* are declared noexcept.                                                  *)
(*                                                                         *)
(* An iterator of a view of views is a pile of adaptors over the iterator  *)
(* of a container, its top last.  An operator that an adaptor does not     *)
(* define is that of an adaptor below.  Some adaptors declare their steps  *)
(* noexcept if those below are, some their comparison unconditionally.     *)
(* What the frames of a call compute is left out: a frame makes the calls  *)
(* its code can make, in any order, and a functor may throw in any.        *)
(***************************************************************************)
EXTENDS Naturals, Sequences

CONSTANT MaxPile   \* bound on the adaptors piled up

VARIABLES
  pile,   \* the adaptors of the iterator of the view
  calls,  \* the frames, as records [op, at]: operator op of adaptor at; last called last
  fate    \* "runs", "flies" (unwinding), "caught" by the caller, or "terminated"

throwVars == <<pile, calls, fate>>

-----------------------------------------------------------------------------
\* Adaptors whose steps move the iterator below once and do no more.
Plain == {"select", "take", "take_while", "reverse"}

\* Adaptors whose comparison is noexcept.
Silent ==
  {"take", "concat", "zip", "default_if_empty", "distinct", "enumerate", "chunk", "stride",
   "scan", "flat_map", "sliding_window"}

ForwardOnly == Silent \ {"take"}

Adaptors == Plain \cup Silent \cup {"where"}

\* Those that have operator op themselves.
Defining(op) ==
  CASE op = "==" -> Silent \cup {"take_while", "reverse"}
    [] op = "*" -> Adaptors \ {"where", "take", "take_while"}
    [] OTHER -> Adaptors

-----------------------------------------------------------------------------
(* The operators of the iterator below that the code of adaptor a calls,   *)
(* and "user" if it calls the functor.                                     *)

SearchAsks == {"==", "*", "user"}

IncrAsks(a) ==
  CASE a \in {"select", "take", "take_while", "enumerate"} -> {"++"}
    [] a = "reverse" -> {"--"}
    [] a \in {"concat", "zip", "default_if_empty", "stride"} -> {"++", "=="}
    [] a \in {"chunk", "sliding_window"} -> {"++", "==", "*"}
    [] OTHER -> {"++"} \cup SearchAsks

DecrAsks(a) ==
  CASE a \in {"select", "take", "take_while"} -> {"--"}
    [] a = "reverse" -> {"++"}
    [] a = "where" -> {"--"} \cup SearchAsks
    [] OTHER -> {}

SameAsks(a) == IF a = "take_while" THEN SearchAsks ELSE {"=="}

ReadAsks(a) ==
  CASE a \in {"select", "scan"} -> {"*", "user"}
    [] a = "reverse" -> {"--", "*"}
    [] a \in {"chunk", "sliding_window", "flat_map"} -> {}
    [] OTHER -> {"*"}

\* begin() of the view whose iterators a is on top of.
BeginAsks(a) ==
  CASE a \in {"where", "distinct", "flat_map"} -> {"++"} \cup SearchAsks
    [] a \in {"chunk", "sliding_window"} -> {"++", "==", "*"}
    [] a \in {"concat", "zip", "default_if_empty", "scan"} -> {"=="}
    [] OTHER -> {}

\* Any terminal or stage, but any().
TerminalAsks == {"begin", "++", "--", "==", "*", "user"}

AnyAsks == {"begin", "=="}

Asks(f) ==
  CASE f.op = "++" -> IncrAsks(pile[f.at])
    [] f.op = "--" -> DecrAsks(pile[f.at])
    [] f.op = "==" -> SameAsks(pile[f.at])
    [] f.op = "*" -> ReadAsks(pile[f.at])
    [] f.op = "begin" -> BeginAsks(pile[f.at])
    [] f.op = "terminal" -> TerminalAsks
    [] f.op = "any" -> AnyAsks

-----------------------------------------------------------------------------
(* noexcept.                                                               *)

\* Fault: where says of its steps what select and take say of theirs.
StepsLikePlain(k) == \A j \in 1 .. k : pile[j] \in Plain \cup {"where"}

\* ++ and -- of adaptor k: noexcept if those below are, down to the container's.
StepsQuietly(k) == \A j \in 1 .. k : pile[j] \in Plain

\* == of adaptor k, looked up through those that have none or go by the one below.
ComparesQuietly(k) ==
  \A j \in 1 .. k : pile[j] = "take_while" => \E i \in j + 1 .. k : pile[i] \in Silent

\* Functors are not noexcept, so neither is * of select.
IsNoexcept(f) ==
  \/ f.op \in {"++", "--"} /\ StepsQuietly(f.at)
  \/ f.op = "==" /\ ComparesQuietly(f.at)
  \/ f.op = "any"

-----------------------------------------------------------------------------
\* reverse asks for bidirectional iterators, and takes a take_while off.
Wellformed(p) ==
  \A k \in DOMAIN p : p[k] = "reverse" =>
    /\ \A j \in 1 .. k - 1 : p[j] \notin ForwardOnly
    /\ k > 1 => p[k - 1] # "take_while"

ThrowInit ==
  /\ pile \in UNION {[1 .. k -> Adaptors] : k \in 0 .. MaxPile}
  /\ Wellformed(pile)
  /\ calls = <<>>
  /\ fate = "runs"

\* The program calls a terminal, perhaps again after one has thrown.
CallTerminal(op) ==
  /\ fate \in {"runs", "caught"} /\ calls = <<>>
  /\ calls' = <<[op |-> op, at |-> Len(pile) + 1]>>
  /\ fate' = "runs"
  /\ UNCHANGED pile

\* The frame f calls operator op, which adaptor k defines and none between does.
Leads(f, op, k) ==
  /\ op \in Asks(f) \ {"user"}
  /\ k < f.at /\ pile[k] \in Defining(op)
  /\ \A j \in k + 1 .. f.at - 1 : pile[j] \notin Defining(op)

Top == calls[Len(calls)]

EnterFrame(op, k) ==
  /\ fate = "runs" /\ calls # <<>>
  /\ Leads(Top, op, k)
  /\ calls' = Append(calls, [op |-> op, at |-> k])
  /\ UNCHANGED <<pile, fate>>

Return ==
  /\ fate = "runs" /\ calls # <<>>
  /\ calls' = SubSeq(calls, 1, Len(calls) - 1)
  /\ UNCHANGED <<pile, fate>>

\* The functor throws.
FunctorThrows ==
  /\ fate = "runs" /\ calls # <<>>
  /\ "user" \in Asks(Top)
  /\ fate' = "flies"
  /\ UNCHANGED <<pile, calls>>

\* The exception leaves the frame on top ...
Unwind ==
  /\ fate = "flies" /\ calls # <<>>
  /\ ~IsNoexcept(Top)
  /\ calls' = SubSeq(calls, 1, Len(calls) - 1)
  /\ UNCHANGED <<pile, fate>>

\* ... or may not: std::terminate.
Terminate ==
  /\ fate = "flies" /\ calls # <<>>
  /\ IsNoexcept(Top)
  /\ fate' = "terminated"
  /\ UNCHANGED <<pile, calls>>

Catch ==
  /\ fate = "flies" /\ calls = <<>>
  /\ fate' = "caught"
  /\ UNCHANGED <<pile, calls>>

Operators == {"++", "--", "==", "*", "begin"}

ThrowNext ==
  \/ \E op \in {"terminal", "any"} : CallTerminal(op)
  \/ \E op \in Operators, k \in 1 .. MaxPile : EnterFrame(op, k)
  \/ Return \/ FunctorThrows \/ Unwind \/ Terminate \/ Catch

ThrowSpec == ThrowInit /\ [][ThrowNext]_throwVars

-----------------------------------------------------------------------------
\* any(), and a comparison that a take_while below takes part in.
Exempt(f) == f.op = "any" \/ (f.op = "==" /\ \E j \in 1 .. f.at : pile[j] = "take_while")

\* What a functor throws arrives at the caller of the terminal, from whatever depth and
\* through whatever steps, but for two places: any() is noexcept, and so is the
\* comparison of adaptors that may be piled on a take_while, which asks its predicate.
ThrowsArrive == fate = "terminated" => Exempt(Top)

\* linq_exceptions_test.cpp: "User callables may throw; terminals must propagate".
TerminalsPropagate == fate # "terminated"
=============================================================================
