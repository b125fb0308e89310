----------------------------- MODULE SortedProofs -----------------------------
(***************************************************************************)
(* Lemmas on lists of places, for the proofs about operations.             *)
(***************************************************************************)
EXTENDS Sorted, SequencesExt, FiniteSetTheorems, SequenceTheorems, WellFoundedInduction, TLAPS

\* Lists of nothing and of one place.
LEMMA ListsNone == Lists(<<>>, {})
BY DEF Lists, Range

LEMMA ListsOne ==
  ASSUME NEW x \in Int
  PROVE  Lists(<<x>>, {x})
<1>1. Len(<<x>>) = 1 /\ DOMAIN <<x>> = {1} /\ <<x>>[1] = x
  OBVIOUS
<1> QED
  BY <1>1 DEF Lists, Range

\* A list of a set that is not empty has a first, one of the set.
LEMMA ListsFirst ==
  ASSUME NEW s \in Seq(Int), NEW S, Lists(s, S), S # {}
  PROVE  Len(s) \in Nat /\ Len(s) >= 1 /\ 1 \in DOMAIN s /\ s[1] \in S
<1>1. Len(s) \in Nat /\ DOMAIN s = 1 .. Len(s)
  OBVIOUS
<1>2. PICK j \in 1 .. Len(s) : TRUE
  BY <1>1 DEF Lists, Range
<1> QED
  BY <1>1, <1>2 DEF Lists, Range

\* s holds each of S once, in any order.
Holds(s, S) == Range(s) = S /\ IsInjective(s)

LEMMA HoldsNone == Holds(<<>>, {})
BY DEF Holds, Range, IsInjective

\* A sequence that holds each of a set once is as long as the set is large.
LEMMA HoldsCount ==
  ASSUME NEW R, NEW s \in Seq(R), NEW S, Holds(s, S)
  PROVE  IsFiniteSet(S) /\ Cardinality(S) = Len(s)
<1>1. Len(s) \in Nat /\ DOMAIN s = 1 .. Len(s) /\ s \in [1 .. Len(s) -> R]
  OBVIOUS
<1>2. s \in Bijection(1 .. Len(s), S)
  BY <1>1 DEF Holds, Range, IsInjective, Bijection, Injection, Surjection, IsInjective
<1>3. ExistsBijection(1 .. Len(s), S)
  BY <1>2 DEF ExistsBijection
<1> QED
  BY <1>1, <1>3, FS_CountingElements, FS_NatBijection

\* One more, at any place.
LEMMA HoldsInsert ==
  ASSUME NEW s \in Seq(Int), NEW S, Holds(s, S), NEW x \in Int, x \notin S,
         NEW j \in 1 .. Len(s) + 1
  PROVE  InsertAt(s, j, x) \in Seq(Int) /\ Holds(InsertAt(s, j, x), S \cup {x})
<1> PICK t : t = InsertAt(s, j, x)
  OBVIOUS
<1> PICK n : n = Len(s)
  OBVIOUS
<1>1. n \in Nat /\ DOMAIN s = 1 .. n /\ \A i \in 1 .. n : s[i] \in Int /\ s[i] \in S
  BY DEF Holds, Range
<1>2. /\ t \in Seq(Int) /\ Len(t) = n + 1 /\ t[j] = x
      /\ \A i \in 1 .. n + 1 : i < j => t[i] = s[i]
      /\ \A i \in 1 .. n + 1 : j < i => t[i] = s[i - 1]
  <2> DEFINE a == SubSeq(s, 1, j - 1)
             b == SubSeq(s, j, n)
             c == a \o <<x>>
  <2>0. j \in Int /\ 1 <= j /\ j <= n + 1
    BY <1>1
  <2>1. a \in Seq(Int) /\ Len(a) = j - 1 /\ \A i \in 1 .. j - 1 : a[i] = s[i]
    BY <1>1, <2>0
  <2>2. b \in Seq(Int) /\ Len(b) = n - j + 1 /\ \A i \in 1 .. n - j + 1 : b[i] = s[j + i - 1]
    BY <1>1, <2>0
  <2>3. t = c \o b
    BY DEF InsertAt
  <2> HIDE DEF a, b
  <2>4. c \in Seq(Int) /\ Len(c) = j /\ c[j] = x /\ \A i \in 1 .. j - 1 : c[i] = a[i]
    BY <2>0, <2>1
  <2> HIDE DEF c
  <2>5. /\ t \in Seq(Int) /\ Len(t) = n + 1 /\ \A i \in 1 .. j : t[i] = c[i]
        /\ \A i \in 1 .. n - j + 1 : t[j + i] = b[i]
    <3>0. b \in Seq(Int) /\ c \in Seq(Int)
      BY <2>2, <2>4
    <3>1. /\ t \in Seq(Int) /\ Len(t) = Len(c) + Len(b)
          /\ \A i \in 1 .. Len(c) : t[i] = c[i]
          /\ \A i \in 1 .. Len(b) : t[Len(c) + i] = b[i]
      BY <2>3, <3>0, SMTT(30)
    <3>2. j + (n - j + 1) = n + 1
      BY <1>1, <2>0
    <3> QED
      BY <2>2, <2>4, <3>1, <3>2, <2>0
  <2>6. ASSUME NEW i \in 1 .. n + 1, i < j PROVE t[i] = s[i]
    <3>1. i \in 1 .. j - 1 /\ i \in 1 .. j
      BY <2>0, <2>6
    <3> QED
      BY <2>1, <2>4, <2>5, <3>1
  <2>7. ASSUME NEW i \in 1 .. n + 1, j < i PROVE t[i] = s[i - 1]
    <3> PICK m : m = i - j
      OBVIOUS
    <3>1. m \in 1 .. n - j + 1 /\ j + m = i /\ j + m - 1 = i - 1
      BY <1>1, <2>0, <2>7
    <3>2. t[j + m] = b[m] /\ b[m] = s[j + m - 1]
      BY <2>2, <2>5, <3>1
    <3> QED
      BY <3>1, <3>2
  <2> QED
    BY <2>0, <2>4, <2>5, <2>6, <2>7
<1>3. DOMAIN t = 1 .. n + 1 /\ j \in 1 .. n + 1 /\ j \in Int
  BY <1>1, <1>2
<1>4. \A i \in 1 .. n + 1 : i = j \/ (i < j /\ i \in 1 .. n) \/ (j < i /\ i - 1 \in 1 .. n)
  BY <1>1, <1>3
<1>5. Range(t) = S \cup {x}
  <2>1. \A i \in 1 .. n + 1 : t[i] \in S \cup {x}
    BY <1>1, <1>2, <1>4
  <2>2. ASSUME NEW y \in S PROVE \E i \in 1 .. n + 1 : t[i] = y
    <3>1. PICK i \in 1 .. n : s[i] = y
      BY <1>1 DEF Holds, Range
    <3>2. CASE i < j
      BY <1>1, <1>2, <3>1, <3>2
    <3>3. CASE j <= i
      <4>1. i + 1 \in 1 .. n + 1 /\ j < i + 1 /\ i + 1 - 1 = i
        BY <1>1, <1>3, <3>3
      <4>2. t[i + 1] = s[i]
        BY <1>2, <4>1
      <4> QED
        BY <3>1, <4>1, <4>2
    <3> QED
      BY <1>1, <1>3, <3>2, <3>3
  <2>3. Range(t) = {t[i] : i \in 1 .. n + 1}
    BY <1>3 DEF Range
  <2>4. \E i \in 1 .. n + 1 : t[i] = x
    BY <1>2, <1>3
  <2> QED
    BY <2>1, <2>2, <2>3, <2>4
<1>6. IsInjective(t)
  <2> SUFFICES ASSUME NEW i1 \in 1 .. n + 1, NEW i2 \in 1 .. n + 1, t[i1] = t[i2] PROVE i1 = i2
    BY <1>3 DEF IsInjective
  <2>1. \A p, q \in 1 .. n : s[p] = s[q] => p = q
    BY <1>1 DEF Holds, IsInjective
  <2>2. \A i \in 1 .. n + 1 : i # j => t[i] # x
    BY <1>1, <1>2, <1>4
  <2>3. i1 = j <=> i2 = j
    BY <1>2, <2>2
  <2>4. CASE i1 = j
    BY <2>3, <2>4
  <2>5. CASE i1 < j
    <3>1. i1 \in 1 .. n /\ t[i1] = s[i1]
      BY <1>2, <1>3, <1>4, <2>5
    <3>2. CASE i2 < j
      <4>1. i2 \in 1 .. n /\ t[i2] = s[i2]
        BY <1>2, <1>3, <1>4, <3>2
      <4> QED
        BY <2>1, <3>1, <4>1
    <3>3. CASE j < i2
      <4>1. i2 - 1 \in 1 .. n /\ t[i2] = s[i2 - 1]
        BY <1>2, <1>3, <1>4, <3>3
      <4>2. i1 = i2 - 1
        BY <2>1, <3>1, <4>1
      <4> QED
        BY <1>3, <2>5, <3>3, <4>2
    <3> QED
      BY <1>3, <2>3, <2>5, <3>2, <3>3
  <2>6. CASE j < i1
    <3>1. i1 - 1 \in 1 .. n /\ t[i1] = s[i1 - 1]
      BY <1>2, <1>3, <1>4, <2>6
    <3>2. CASE j < i2
      <4>1. i2 - 1 \in 1 .. n /\ t[i2] = s[i2 - 1]
        BY <1>2, <1>3, <1>4, <3>2
      <4>2. i1 - 1 = i2 - 1
        BY <2>1, <3>1, <4>1
      <4> QED
        BY <1>1, <4>2
    <3>3. CASE i2 < j
      <4>1. i2 \in 1 .. n /\ t[i2] = s[i2]
        BY <1>2, <1>3, <1>4, <3>3
      <4>2. i2 = i1 - 1
        BY <2>1, <3>1, <4>1
      <4> QED
        BY <1>3, <2>6, <3>3, <4>2
    <3> QED
      BY <1>3, <2>3, <2>6, <3>2, <3>3
  <2> QED
    BY <1>3, <2>4, <2>5, <2>6
<1> QED
  BY <1>2, <1>5, <1>6 DEF Holds

\* Two in a row.
LEMMA HoldsConcat ==
  ASSUME NEW R, NEW s \in Seq(R), NEW t \in Seq(R), NEW S, NEW T, Holds(s, S), Holds(t, T),
         S \cap T = {}
  PROVE  Holds(s \o t, S \cup T)
<1> PICK n : n = Len(s)
  OBVIOUS
<1> PICK m : m = Len(t)
  OBVIOUS
<1> PICK u : u = s \o t
  OBVIOUS
<1>1. /\ n \in Nat /\ m \in Nat /\ DOMAIN s = 1 .. n /\ DOMAIN t = 1 .. m
      /\ DOMAIN u = 1 .. n + m /\ \A i \in 1 .. n : u[i] = s[i]
      /\ \A i \in 1 .. m : u[n + i] = t[i]
  OBVIOUS
<1>2. /\ \A i \in 1 .. n : s[i] \in S
      /\ \A i \in 1 .. m : t[i] \in T
      /\ \A y \in S : \E i \in 1 .. n : s[i] = y
      /\ \A y \in T : \E i \in 1 .. m : t[i] = y
  BY <1>1 DEF Holds, Range
<1>3. /\ \A i \in 1 .. n + m : i \in 1 .. n \/ (i - n \in 1 .. m /\ n + (i - n) = i)
      /\ \A i \in 1 .. n : i \in 1 .. n + m
      /\ \A i \in 1 .. m : n + i \in 1 .. n + m
  BY <1>1
<1>4. ASSUME NEW i \in 1 .. n + m
      PROVE  (i \in 1 .. n /\ u[i] = s[i] /\ u[i] \in S) \/ (i - n \in 1 .. m /\ u[i] = t[i - n] /\ u[i] \in T)
  <2>1. CASE i \in 1 .. n
    BY <1>1, <1>2, <2>1
  <2>2. CASE i - n \in 1 .. m /\ n + (i - n) = i
    BY <1>1, <1>2, <2>2
  <2> QED
    BY <1>3, <2>1, <2>2
<1>5. Range(u) = S \cup T
  <2>1. \A y \in S \cup T : \E i \in 1 .. n + m : u[i] = y
    BY <1>1, <1>2, <1>3
  <2>2. Range(u) = {u[i] : i \in 1 .. n + m}
    BY <1>1 DEF Range
  <2> QED
    BY <1>4, <2>1, <2>2
<1>6. IsInjective(u)
  <2> SUFFICES ASSUME NEW i1 \in 1 .. n + m, NEW i2 \in 1 .. n + m, u[i1] = u[i2] PROVE i1 = i2
    BY <1>1 DEF IsInjective
  <2>1. /\ \A p, q \in 1 .. n : s[p] = s[q] => p = q
        /\ \A p, q \in 1 .. m : t[p] = t[q] => p = q
    BY <1>1 DEF Holds, IsInjective
  <2>2. (i1 \in 1 .. n /\ i2 \in 1 .. n /\ s[i1] = s[i2]) \/
        (i1 - n \in 1 .. m /\ i2 - n \in 1 .. m /\ t[i1 - n] = t[i2 - n])
    BY <1>4
  <2>3. CASE i1 - n = i2 - n
    BY <1>1, <2>3
  <2> QED
    BY <2>1, <2>2, <2>3
<1> QED
  BY <1>5, <1>6 DEF Holds

\* Two sequences of one.
LEMMA TwoOnes ==
  ASSUME NEW x \in Int, NEW y \in Int
  PROVE  <<x>> \o <<y>> = <<x, y>>
<1> PICK t : t = <<x, y>>
  OBVIOUS
<1> PICK s : s = <<x>> \o <<y>>
  OBVIOUS
<1>1. t \in Seq(Int) /\ Len(t) = 2 /\ t[1] = x /\ t[2] = y
  OBVIOUS
<1>2. s \in Seq(Int) /\ Len(s) = 2 /\ s[1] = x /\ s[2] = y
  OBVIOUS
<1>3. \A i \in 1 .. Len(s) : s[i] = t[i]
  <2>1. Len(s) \in Nat /\ \A i \in 1 .. 2 : i = 1 \/ i = 2
    BY <1>2
  <2> QED
    BY <1>1, <1>2, <2>1
<1>4. s = t
  BY <1>1, <1>2, <1>3, SeqEqual
<1> QED
  BY <1>4

\* A set of naturals that is not empty has a least.
LEMMA LeastExists ==
  ASSUME NEW S \in SUBSET Nat, S # {}
  PROVE  \E x \in S : \A y \in S : x <= y
<1>1. IsWellFoundedOn(OpToRel(<, Nat), Nat)
  BY NatLessThanWellFounded, Zenon
<1>2. PICK x \in S : \A y \in S : ~(<<y, x>> \in OpToRel(<, Nat))
  BY <1>1, WFMin, Zenon
<1>3. ASSUME NEW y \in S PROVE x <= y
  <2>1. ~(<<y, x>> \in OpToRel(<, Nat))
    BY <1>2, Zenon
  <2>2. ~(y < x)
    <3>1. x \in Nat /\ y \in Nat
      OBVIOUS
    <3> QED
      BY <2>1, <3>1 DEF OpToRel
  <2>3. x \in Nat /\ y \in Nat
    OBVIOUS
  <2> QED
    BY <2>2, <2>3
<1> QED
  BY <1>3

\* And a set of naturals that has a bound, a greatest.
LEMMA GreatestExists ==
  ASSUME NEW n \in Nat, NEW S \in SUBSET (0 .. n), S # {}
  PROVE  \E x \in S : \A y \in S : y <= x
<1> DEFINE T == {t \in 0 .. n : n - t \in S}
<1>1. T \in SUBSET Nat
  OBVIOUS
<1>2. T # {}
  <2>1. PICK x \in S : TRUE
    OBVIOUS
  <2>2. n - x \in 0 .. n /\ n - (n - x) = x
    OBVIOUS
  <2> QED
    BY <2>1, <2>2
<1>3. PICK t \in T : \A u \in T : t <= u
  BY <1>1, <1>2, LeastExists
<1>4. n - t \in S
  OBVIOUS
<1>5. ASSUME NEW y \in S PROVE y <= n - t
  <2>1. n - y \in 0 .. n /\ n - (n - y) = y
    OBVIOUS
  <2>2. n - y \in T
    BY <2>1
  <2>3. t <= n - y
    BY <1>3, <2>2
  <2> QED
    BY <2>3
<1> QED
  BY <1>4, <1>5
\* A list grows at its end by what is greater than all in it, ...
LEMMA ListsAppend ==
  ASSUME NEW s \in Seq(Int), NEW S, NEW x \in Int, Lists(s, S), \A y \in S : y < x
  PROVE  Lists(Append(s, x), S \cup {x})
<1> DEFINE t == Append(s, x)
<1>1. /\ Len(t) = Len(s) + 1 /\ t[Len(s) + 1] = x /\ \A j \in 1 .. Len(s) : t[j] = s[j]
      /\ Len(s) \in Nat /\ DOMAIN s = 1 .. Len(s) /\ DOMAIN t = 1 .. Len(s) + 1
  OBVIOUS
<1> HIDE DEF t
<1>2. Range(t) = S \cup {x}
  <2>1. \A j \in 1 .. Len(s) + 1 : t[j] \in S \cup {x}
    <3>1. \A j \in 1 .. Len(s) : s[j] \in S
      BY <1>1 DEF Lists, Range
    <3>2. \A j \in 1 .. Len(s) + 1 : j \in 1 .. Len(s) \/ j = Len(s) + 1
      BY <1>1
    <3> QED
      BY <1>1, <3>1, <3>2
  <2>2. \A y \in S : \E j \in 1 .. Len(s) + 1 : t[j] = y
    BY <1>1 DEF Lists, Range
  <2> QED
    BY <1>1, <2>1, <2>2 DEF Range
<1>3. \A j \in 1 .. Len(t) - 1 : t[j] < t[j + 1]
  <2> SUFFICES ASSUME NEW j \in 1 .. Len(s) PROVE t[j] < t[j + 1]
    BY <1>1
  <2>1. CASE j = Len(s)
    BY <1>1, <2>1 DEF Lists, Range
  <2>2. CASE j # Len(s)
    <3>0. Len(s) \in Nat
      BY <1>1
    <3>1. j \in 1 .. Len(s) - 1 /\ j + 1 \in 1 .. Len(s)
      BY <2>2, <3>0
    <3> QED
      BY <1>1, <3>1 DEF Lists
  <2> QED
    BY <2>1, <2>2
<1> QED
  BY <1>2, <1>3 DEF Lists, t

\* ... and one read backwards by what is less.
LEMMA ListsAppendBack ==
  ASSUME NEW s \in Seq(Int), NEW S, NEW x \in Int, Lists(Reverse(s), S), \A y \in S : x < y
  PROVE  Lists(Reverse(Append(s, x)), S \cup {x})
<1> DEFINE t == Append(s, x)
           n == Len(s)
           u == Reverse(s)
           w == Reverse(t)
<1>1. /\ Len(t) = n + 1 /\ t[n + 1] = x /\ \A j \in 1 .. n : t[j] = s[j]
      /\ n \in Nat
  OBVIOUS
<1> HIDE DEF t
<1>2. /\ u = [j \in 1 .. n |-> s[n - j + 1]]
      /\ w = [j \in 1 .. n + 1 |-> t[n + 1 - j + 1]]
  BY <1>1 DEF Reverse
<1>3. /\ DOMAIN u = 1 .. n /\ DOMAIN w = 1 .. n + 1 /\ w[1] = x
      /\ \A j \in 1 .. n : w[j + 1] = u[j]
      /\ Len(u) = n /\ Len(w) = n + 1
  <2>1. DOMAIN u = 1 .. n /\ DOMAIN w = 1 .. n + 1 /\ Len(u) = n /\ Len(w) = n + 1
    BY <1>1, <1>2
  <2>2. 1 \in 1 .. n + 1 /\ n + 1 - 1 + 1 = n + 1
    BY <1>1
  <2>3. w[1] = x
    BY <1>1, <1>2, <2>2
  <2>4. ASSUME NEW j \in 1 .. n PROVE w[j + 1] = u[j]
    <3>1. j + 1 \in 1 .. n + 1 /\ n + 1 - (j + 1) + 1 = n - j + 1 /\ n - j + 1 \in 1 .. n
      BY <1>1
    <3> QED
      BY <1>1, <1>2, <3>1
  <2> QED
    BY <2>1, <2>3, <2>4
<1> HIDE DEF u, w, n
<1>4. Range(w) = S \cup {x}
  <2>1. \A j \in 1 .. n + 1 : w[j] \in S \cup {x}
    <3> SUFFICES ASSUME NEW j \in 1 .. n + 1, j # 1 PROVE w[j] \in S
      BY <1>3
    <3>1. j - 1 \in 1 .. n /\ w[(j - 1) + 1] = u[j - 1] /\ (j - 1) + 1 = j
      BY <1>1, <1>3
    <3> QED
      BY <1>3, <3>1 DEF Lists, Range, u
  <2>2. \A y \in S : \E j \in 1 .. n : u[j] = y
    BY <1>3 DEF Lists, Range, u
  <2>3. \A j \in 1 .. n : j + 1 \in 1 .. n + 1
    BY <1>1
  <2>4. \A y \in S \cup {x} : \E j \in 1 .. n + 1 : w[j] = y
    <3>1. 1 \in 1 .. n + 1
      BY <1>1
    <3> QED
      BY <1>3, <2>2, <2>3, <3>1
  <2>5. Range(w) = {w[j] : j \in 1 .. n + 1}
    BY <1>3 DEF Range
  <2> QED
    BY <2>1, <2>4, <2>5
<1>5. \A j \in 1 .. Len(w) - 1 : w[j] < w[j + 1]
  <2> SUFFICES ASSUME NEW j \in 1 .. n PROVE w[j] < w[j + 1]
    BY <1>1, <1>3
  <2>1. CASE j = 1
    <3>1. u[1] \in S /\ w[2] = u[1]
      BY <1>1, <1>3, <2>1 DEF Lists, Range, u
    <3> QED
      BY <1>3, <2>1, <3>1
  <2>2. CASE j # 1
    <3>1. j - 1 \in 1 .. n - 1 /\ j - 1 \in 1 .. n /\ (j - 1) + 1 = j
      BY <1>1, <2>2
    <3>2. u[j - 1] < u[(j - 1) + 1]
      BY <1>3, <3>1 DEF Lists, u
    <3> QED
      BY <1>3, <3>1, <3>2
  <2> QED
    BY <2>1, <2>2
<1> QED
  BY <1>4, <1>5 DEF Lists, w, t

\* The multiples of c below n, counted.
LEMMA MultiplesCounted ==
  ASSUME NEW n \in Nat, NEW c \in Nat, c >= 1
  PROVE  /\ (n + c - 1) \div c \in Nat
         /\ \A k \in Nat : k < (n + c - 1) \div c <=> k * c < n
<1>1. PICK m \in Int : m = (n + c - 1) \div c
  OBVIOUS
<1>2. m * c <= n + c - 1 /\ n + c - 1 < m * c + c
  <2>1. PICK r \in Int : r = (n + c - 1) % c
    OBVIOUS
  <2>2. n + c - 1 = c * m + r /\ 0 <= r /\ r < c
    BY <1>1, <2>1
  <2>3. c * m = m * c
    OBVIOUS
  <2> QED
    BY <2>2, <2>3
<1>3. m >= 0
  <2> SUFFICES ASSUME m <= -1 PROVE FALSE
    OBVIOUS
  <2>1. m * c <= -c
    <3>1. m * c = -((-m - 1) * c) - c /\ (-m - 1) * c >= 0
      OBVIOUS
    <3> QED
      BY <3>1
  <2> QED
    BY <1>2, <2>1
<1>4. ASSUME NEW k \in Nat, k < m PROVE k * c < n
  <2>1. m * c = k * c + c + (m - k - 1) * c /\ (m - k - 1) * c >= 0
    BY <1>4
  <2> QED
    BY <1>2, <2>1
<1>5. ASSUME NEW k \in Nat, m <= k PROVE ~(k * c < n)
  <2>1. k * c = m * c + (k - m) * c /\ (k - m) * c >= 0
    BY <1>5
  <2> QED
    BY <1>2, <2>1
<1> QED
  BY <1>1, <1>3, <1>4, <1>5
=============================================================================
