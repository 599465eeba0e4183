---------------------------- MODULE CommonLemmas ----------------------------
(***************************************************************************)
(* Facts that the proofs of several components use: least and greatest     *)
(* elements, induction over the natural numbers, division and rounding,    *)
(* counting, and what updating, extending and cutting a sequence leaves in *)
(* it.                                                                     *)
(*                                                                         *)
(* Induction is stated for a set instead of a predicate: a proof names the *)
(* set {n \in Nat : P(n)} and shows that it is closed.                     *)
(***************************************************************************)
EXTENDS Integers, Sequences, FiniteSets, FiniteSetsExt, FiniteSetTheorems, TLAPS

\* A set of natural numbers that is not empty has a least element.
LEMMA LeastNat ==
  ASSUME NEW S \in SUBSET Nat, S # {}
  PROVE  \E n \in S : \A m \in S : n <= m
<1> DEFINE R == {ss \in Nat \X Nat : ss[1] < ss[2]}
<1>1. IsWellFoundedOn(R, Nat)
  BY NatLessThanWellFounded DEF OpToRel
<1>2. \A x, y \in Nat : <<y, x>> \in R <=> y < x
  OBVIOUS
<1> HIDE DEF R
<1>3. PICK x \in S : \A y \in S : ~(<<y, x>> \in R)
  BY <1>1, WFMin
<1>4. ASSUME NEW y \in S PROVE x <= y
  <2>1. x \in Nat /\ y \in Nat
    BY <1>3
  <2>2. ~(y < x)
    BY <1>2, <1>3, <2>1
  <2> QED BY <2>1, <2>2
<1> QED BY <1>3, <1>4

\* What holds of 0, and of n + 1 whenever it holds of n, holds of every number.
LEMMA NatSet ==
  ASSUME NEW S, 0 \in S, \A n \in Nat : n \in S => n + 1 \in S
  PROVE  \A n \in Nat : n \in S
<1> SUFFICES ASSUME NEW k \in Nat, k \notin S PROVE FALSE
  OBVIOUS
<1> DEFINE T == Nat \ S
<1>1. T \in SUBSET Nat /\ T # {}
  OBVIOUS
<1>2. PICK n \in T : \A m \in T : n <= m
  <2> HIDE DEF T
  <2> QED BY LeastNat, <1>1
<1>3. n # 0
  BY <1>2
<1>4. n - 1 \in Nat /\ n - 1 \in S /\ (n - 1) + 1 = n
  BY <1>2, <1>3
<1> QED BY <1>4

\* The same up to a bound.
LEMMA NatSetUpTo ==
  ASSUME NEW N \in Nat, NEW S, 0 \in S,
         \A n \in 0..N : n < N /\ n \in S => n + 1 \in S
  PROVE  \A n \in 0..N : n \in S
<1> DEFINE T == {n \in Nat : n <= N => n \in S}
<1>1. 0 \in T
  OBVIOUS
<1>2. \A n \in Nat : n \in T => n + 1 \in T
  OBVIOUS
<1>3. \A n \in Nat : n \in T
  <2> HIDE DEF T
  <2> QED BY <1>1, <1>2, NatSet
<1> QED BY <1>3

\* Min of a set of natural numbers is its least element.
LEMMA MinIn ==
  ASSUME NEW S \in SUBSET Nat, S # {}
  PROVE  Min(S) \in S /\ \A m \in S : Min(S) <= m
BY LeastNat DEF Min

\* Max of a bounded set of natural numbers is its greatest element.
LEMMA MaxIn ==
  ASSUME NEW N \in Nat, NEW S \in SUBSET (0..N), S # {}
  PROVE  Max(S) \in S /\ \A m \in S : m <= Max(S)
<1> DEFINE T == {n \in Nat : N - n \in S}
<1>1. T \in SUBSET Nat /\ T # {}
  <2>1. PICK x \in S : TRUE
    OBVIOUS
  <2>2. N - x \in Nat /\ N - (N - x) = x
    OBVIOUS
  <2> QED BY <2>1, <2>2
<1>2. PICK n \in T : \A m \in T : n <= m
  <2> HIDE DEF T
  <2> QED BY <1>1, LeastNat
<1>3. N - n \in S
  BY <1>2
<1>4. ASSUME NEW m \in S PROVE m <= N - n
  <2>1. N - m \in Nat /\ N - (N - m) = m
    OBVIOUS
  <2>2. N - m \in T
    BY <2>1
  <2> QED BY <1>2, <2>1, <2>2
<1>5. \E x \in S : \A m \in S : m <= x
  BY <1>3, <1>4
<1> QED BY <1>5 DEF Max

\* The quotient and the remainder of a division.
LEMMA DivMod ==
  ASSUME NEW n \in Nat, NEW d \in Nat, d # 0
  PROVE  /\ n \div d \in Nat /\ n % d \in 0..(d - 1)
         /\ n = d * (n \div d) + (n % d)
OBVIOUS

\* The quotient is the only number of its kind.
LEMMA DivUnique ==
  ASSUME NEW n \in Nat, NEW d \in Nat, d # 0, NEW q \in Nat, d * q <= n, n < d * q + d
  PROVE  n \div d = q
OBVIOUS

\* A quotient and a number below it: q <= n \div d says that q whole d's fit in n.
LEMMA DivAtLeast ==
  ASSUME NEW n \in Nat, NEW d \in Nat, d # 0, NEW q \in Nat
  PROVE  q <= n \div d <=> d * q <= n
<1> DEFINE m == n \div d
           r == n % d
<1>1. m \in Nat /\ r \in 0..(d - 1) /\ n = d * m + r
  BY DivMod
<1> HIDE DEF m, r
<1>2. CASE q <= m
  <2>1. PICK e \in Nat : m = q + e
    BY <1>1, <1>2
  <2>2. d * m = d * q + d * e /\ d * e \in Nat /\ d * q \in Nat
    BY <2>1
  <2> QED BY <1>1, <1>2, <2>2 DEF m
<1>3. CASE m < q
  <2>1. PICK e \in Nat : q = m + 1 + e
    <3>1. q - m - 1 \in Nat /\ q = m + 1 + (q - m - 1)
      BY <1>1, <1>3
    <3> QED BY <3>1
  <2>2. d * q = d * m + d + d * e /\ d * e \in Nat /\ d * m \in Nat
    BY <1>1, <2>1
  <2> QED BY <1>1, <1>3, <2>2 DEF m
<1> QED BY <1>1, <1>2, <1>3

\* Division keeps the order.
LEMMA DivMono ==
  ASSUME NEW a \in Nat, NEW b \in Nat, NEW d \in Nat, d # 0, a <= b
  PROVE  a \div d <= b \div d
<1>1. a \div d \in Nat /\ b \div d \in Nat /\ d * (a \div d) \in Nat /\ d * (a \div d) <= a
  BY DivMod
<1> QED BY <1>1, DivAtLeast

\* A multiple of d is divided without a remainder.
LEMMA DivExact ==
  ASSUME NEW q \in Nat, NEW d \in Nat, d # 0
  PROVE  (d * q) \div d = q /\ (d * q) % d = 0
<1> DEFINE n == d * q
<1>1. n \in Nat /\ d * q <= n /\ n < d * q + d
  OBVIOUS
<1>2. n \div d = q
  <2> HIDE DEF n
  <2> QED BY <1>1, DivUnique
<1>3. n = d * (n \div d) + (n % d) /\ n % d \in Nat
  <2> HIDE DEF n
  <2> QED BY <1>1, DivMod
<1> QED BY <1>2, <1>3

\* Two multiples of d are added quotient by quotient.
LEMMA DivSum ==
  ASSUME NEW a \in Nat, NEW b \in Nat, NEW d \in Nat, d # 0, a % d = 0, b % d = 0
  PROVE  (a + b) % d = 0 /\ (a + b) \div d = (a \div d) + (b \div d)
<1> DEFINE p == a \div d
           q == b \div d
<1>1. p \in Nat /\ q \in Nat /\ a = d * p /\ b = d * q
  BY DivMod
<1> HIDE DEF p, q
<1>2. a + b = d * (p + q)
  BY <1>1
<1>3. (d * (p + q)) \div d = p + q /\ (d * (p + q)) % d = 0
  BY <1>1, DivExact
<1> QED BY <1>2, <1>3 DEF p, q

\* Rounding n down to a multiple of d.
LEMMA RoundDown ==
  ASSUME NEW n \in Nat, NEW d \in Nat, d # 0
  PROVE  /\ (n \div d) * d \in 0..n /\ n < (n \div d) * d + d
         /\ ((n \div d) * d) % d = 0 /\ ((n \div d) * d) \div d = n \div d
<1> DEFINE q == n \div d
<1>1. q \in Nat /\ n % d \in 0..(d - 1) /\ n = d * q + (n % d)
  BY DivMod
<1>2. (d * q) \div d = q /\ (d * q) % d = 0
  <2> HIDE DEF q
  <2> QED BY <1>1, DivExact
<1>3. q * d = d * q /\ d * q \in Nat
  <2> HIDE DEF q
  <2> QED BY <1>1
<1> HIDE DEF q
<1>4. q * d \in 0..n /\ n < q * d + d
  BY <1>1, <1>3
<1>5. (q * d) % d = 0 /\ (q * d) \div d = q
  BY <1>2, <1>3
<1> QED BY <1>4, <1>5 DEF q

\* Rounding n up to a multiple of d.
LEMMA RoundUp ==
  ASSUME NEW n \in Nat, NEW d \in Nat, d # 0
  PROVE  LET up == ((n + d - 1) \div d) * d IN
         /\ up \in Nat /\ n <= up /\ up < n + d /\ up % d = 0
         /\ up \div d = (n + d - 1) \div d
<1> DEFINE m == n + d - 1
<1>1. m \in Nat
  OBVIOUS
<1>2. /\ (m \div d) * d \in 0..m /\ m < (m \div d) * d + d
      /\ ((m \div d) * d) % d = 0 /\ ((m \div d) * d) \div d = m \div d
  <2> HIDE DEF m
  <2> QED BY <1>1, RoundDown
<1> QED BY <1>1, <1>2

\* Min and Max of two numbers.
LEMMA MinMaxOfTwo ==
  ASSUME NEW a \in Int, NEW b \in Int
  PROVE  /\ Min({a, b}) = IF a <= b THEN a ELSE b
         /\ Max({a, b}) = IF a <= b THEN b ELSE a
<1>1. \E x \in {a, b} : \A y \in {a, b} : x <= y
  OBVIOUS
<1>2. \E x \in {a, b} : \A y \in {a, b} : x >= y
  OBVIOUS
<1> QED BY <1>1, <1>2 DEF Min, Max

-----------------------------------------------------------------------------
(* Sequences.                                                               *)

\* A sequence with one element replaced.
LEMMA SeqUpdate ==
  ASSUME NEW T, NEW s \in Seq(T), NEW i \in DOMAIN s, NEW e \in T
  PROVE  LET u == [s EXCEPT ![i] = e] IN
         /\ u \in Seq(T) /\ Len(u) = Len(s) /\ DOMAIN u = DOMAIN s /\ DOMAIN u = 1..Len(s)
         /\ u[i] = e /\ \A j \in DOMAIN s : j # i => u[j] = s[j]
<1>1. Len(s) \in Nat /\ DOMAIN s = 1..Len(s)
  OBVIOUS
<1> DEFINE u == [s EXCEPT ![i] = e]
<1>2. u \in [1..Len(s) -> T] /\ DOMAIN u = 1..Len(s)
  BY <1>1
<1>3. u \in Seq(T) /\ Len(u) = Len(s)
  BY <1>1, <1>2
<1> QED BY <1>1, <1>2, <1>3

\* A sequence with an element added.
LEMMA SeqAppend ==
  ASSUME NEW T, NEW s \in Seq(T), NEW e \in T
  PROVE  LET u == Append(s, e) IN
         /\ Len(s) \in Nat /\ u \in Seq(T) /\ Len(u) = Len(s) + 1
         /\ DOMAIN u = 1..(Len(s) + 1) /\ DOMAIN s = 1..Len(s)
         /\ u[Len(s) + 1] = e /\ \A j \in 1..Len(s) : u[j] = s[j]
OBVIOUS

\* The first n elements of a sequence.
LEMMA SeqPrefix ==
  ASSUME NEW T, NEW s \in Seq(T), NEW n \in 0..Len(s)
  PROVE  LET u == SubSeq(s, 1, n) IN
         /\ u \in Seq(T) /\ Len(u) = n /\ DOMAIN u = 1..n /\ DOMAIN s = 1..Len(s)
         /\ \A j \in 1..n : u[j] = s[j]
OBVIOUS

\* Two sequences of the same elements are the same.
LEMMA SeqSame ==
  ASSUME NEW T, NEW s \in Seq(T), NEW u \in Seq(T), Len(s) = Len(u),
         \A j \in 1..Len(s) : s[j] = u[j]
  PROVE  s = u
<1>1. s \in [1..Len(s) -> T] /\ u \in [1..Len(s) -> T]
  OBVIOUS
<1> QED BY <1>1

\* f repeats g from x on, N times: what a walk along pointers computes.
Repeats(f, N, g, x) ==
  f = [k \in 0..N |-> f[k]] /\ f[0] = x /\ \A k \in 1..N : f[k] = g[f[k - 1]]

\* There is such a function, with values where g has them.
LEMMA Repeated ==
  ASSUME NEW S, NEW x \in S, NEW g \in [S -> S], NEW N \in Nat
  PROVE  \E f : Repeats(f, N, g, x) /\ \A k \in 0..N : f[k] \in S
<1> DEFINE Good == {n \in Nat : \E f \in [0..n -> S] :
                                  f[0] = x /\ \A k \in 1..n : f[k] = g[f[k - 1]]}
<1>1. 0 \in Good
  <2> DEFINE f == [k \in 0..0 |-> x]
  <2>1. f \in [0..0 -> S] /\ f[0] = x /\ \A k \in 1..0 : f[k] = g[f[k - 1]]
    OBVIOUS
  <2> QED BY <2>1
<1>2. ASSUME NEW n \in Nat, n \in Good PROVE n + 1 \in Good
  <2>1. PICK f \in [0..n -> S] : f[0] = x /\ \A k \in 1..n : f[k] = g[f[k - 1]]
    BY <1>2
  <2> DEFINE h == [k \in 0..(n + 1) |-> IF k = n + 1 THEN g[f[n]] ELSE f[k]]
  <2>2. h \in [0..(n + 1) -> S]
    <3>1. f[n] \in S /\ g[f[n]] \in S
      OBVIOUS
    <3>2. \A k \in 0..(n + 1) : k # n + 1 => k \in 0..n
      OBVIOUS
    <3> QED BY <3>1, <3>2
  <2>3. /\ \A k \in 0..n : h[k] = f[k]
        /\ h[n + 1] = g[f[n]]
    OBVIOUS
  <2> HIDE DEF h
  <2>4. ASSUME NEW k \in 1..(n + 1) PROVE h[k] = g[h[k - 1]]
    <3>1. CASE k = n + 1
      BY <2>3, <3>1
    <3>2. CASE k # n + 1
      <4>1. k \in 1..n /\ k \in 0..n /\ k - 1 \in 0..n
        BY <3>2
      <4> QED BY <2>1, <2>3, <4>1
    <3> QED BY <3>1, <3>2
  <2>5. h[0] = x
    BY <2>1, <2>3
  <2> QED BY <2>2, <2>4, <2>5
<1>3. N \in Good
  <2> HIDE DEF Good
  <2> QED BY <1>1, <1>2, NatSet
<1>4. PICK f \in [0..N -> S] : f[0] = x /\ \A k \in 1..N : f[k] = g[f[k - 1]]
  BY <1>3
<1>5. Repeats(f, N, g, x) /\ \A k \in 0..N : f[k] \in S
  BY <1>4 DEF Repeats
<1> QED BY <1>5

-----------------------------------------------------------------------------
(* Counting.                                                                *)

\* A bijection, as a set of pairs would give it: f takes each element of A to one of B,
\* no two to the same, and every element of B is reached.
LEMMA SameCount ==
  ASSUME NEW A, NEW B, NEW f, IsFiniteSet(A),
         \A a \in A : f[a] \in B,
         \A a, c \in A : f[a] = f[c] => a = c,
         \A b \in B : \E a \in A : f[a] = b
  PROVE  IsFiniteSet(B) /\ Cardinality(A) = Cardinality(B)
<1> DEFINE g == [a \in A |-> f[a]]
<1>1. /\ g \in [A -> B] /\ \A a, c \in A : g[a] = g[c] => a = c
      /\ \A b \in B : \E a \in A : g[a] = b
  OBVIOUS
<1>2. g \in Bijection(A, B)
  BY <1>1 DEF Bijection, Injection, Surjection, IsInjective
<1> HIDE DEF g
<1>3. ExistsBijection(A, B)
  BY <1>2 DEF ExistsBijection
<1>4. IsFiniteSet(B)
  BY <1>2, FS_Surjection DEF Bijection
<1> QED BY <1>3, <1>4, FS_Bijection

\* Those of the numbers A that come after fewer than n others are n, or all of them.
LEMMA FirstFew ==
  ASSUME NEW N \in Nat, NEW A \in SUBSET (1..N), NEW n \in Nat
  PROVE  Cardinality({k \in A : Cardinality({j \in A : j < k}) < n})
           = IF n <= Cardinality(A) THEN n ELSE Cardinality(A)
<1> DEFINE Rank(k) == Cardinality(A \cap (1..k))
           F       == {k \in A : Cardinality({j \in A : j < k}) < n}
           Good    == {m \in 0..N : Cardinality(F \cap (1..m))
                                      = IF n <= Rank(m) THEN n ELSE Rank(m)}
<1>1. \A k \in A : k \in F <=> Rank(k - 1) < n
  <2> SUFFICES ASSUME NEW k \in A PROVE k \in F <=> Rank(k - 1) < n
    OBVIOUS
  <2>1. {j \in A : j < k} = A \cap (1..(k - 1))
    <3>1. \A j \in A : j < k <=> j \in 1..(k - 1)
      OBVIOUS
    <3> QED BY <3>1, Zenon
  <2> QED BY <2>1, Zenon
<1>2. F \in SUBSET A
  OBVIOUS
<1> HIDE DEF F
<1>3. \A m \in Nat : /\ IsFiniteSet(A \cap (1..m)) /\ Rank(m) \in Nat
                     /\ IsFiniteSet(F \cap (1..m)) /\ Cardinality(F \cap (1..m)) \in Nat
  <2> SUFFICES ASSUME NEW m \in Nat
               PROVE  /\ IsFiniteSet(A \cap (1..m)) /\ Rank(m) \in Nat
                      /\ IsFiniteSet(F \cap (1..m)) /\ Cardinality(F \cap (1..m)) \in Nat
    OBVIOUS
  <2>1. IsFiniteSet(1..m)
    BY FS_Interval
  <2>2. IsFiniteSet(A \cap (1..m)) /\ IsFiniteSet(F \cap (1..m))
    BY <2>1, FS_Subset
  <2> QED BY <2>2, FS_CardinalityType
<1>4. 0 \in Good
  <2>1. A \cap (1..0) = {} /\ F \cap (1..0) = {}
    OBVIOUS
  <2>2. Rank(0) = 0 /\ Cardinality(F \cap (1..0)) = 0
    BY <2>1, FS_EmptySet
  <2> HIDE DEF Rank
  <2> QED BY <2>2
<1>5. ASSUME NEW m \in 0..N, m < N, m \in Good PROVE m + 1 \in Good
  <2>1. m + 1 \in 0..N /\ m \in Nat /\ (m + 1) - 1 = m
    BY <1>5
  <2>2. Cardinality(F \cap (1..m)) = IF n <= Rank(m) THEN n ELSE Rank(m)
    BY <1>5
  <2> SUFFICES Cardinality(F \cap (1..(m + 1))) = IF n <= Rank(m + 1) THEN n ELSE Rank(m + 1)
    BY <2>1
  <2>3. Rank(m) \in Nat
    BY <1>3, <2>1
  <2>4. CASE m + 1 \notin A
    <3>1. A \cap (1..(m + 1)) = A \cap (1..m) /\ F \cap (1..(m + 1)) = F \cap (1..m)
      BY <1>2, <2>4
    <3> QED BY <2>2, <3>1
  <2>5. CASE m + 1 \in A
    <3>1. A \cap (1..(m + 1)) = (A \cap (1..m)) \cup {m + 1} /\ m + 1 \notin A \cap (1..m)
      BY <2>5
    <3>2. Rank(m + 1) = Rank(m) + 1
      BY <1>3, <2>1, <3>1, FS_AddElement
    <3>3. CASE Rank(m) < n
      <4>1. m + 1 \in F
        BY <1>1, <2>1, <2>5, <3>3
      <4>2. /\ F \cap (1..(m + 1)) = (F \cap (1..m)) \cup {m + 1}
            /\ m + 1 \notin F \cap (1..m)
        BY <4>1
      <4>3. Cardinality(F \cap (1..(m + 1))) = Cardinality(F \cap (1..m)) + 1
        BY <1>3, <2>1, <4>2, FS_AddElement
      <4> QED BY <2>2, <2>3, <3>2, <3>3, <4>3
    <3>4. CASE ~(Rank(m) < n)
      <4>1. m + 1 \notin F
        BY <1>1, <2>1, <2>5, <3>4
      <4>2. F \cap (1..(m + 1)) = F \cap (1..m)
        BY <4>1
      <4> QED BY <2>2, <2>3, <3>2, <3>4, <4>2
    <3> QED BY <3>3, <3>4
  <2> QED BY <2>4, <2>5
<1>6. N \in Good
  <2>1. N \in 0..N
    OBVIOUS
  <2> HIDE DEF Good
  <2> QED BY <1>4, <1>5, <2>1, NatSetUpTo
<1>7. A \cap (1..N) = A /\ F \cap (1..N) = F
  BY <1>2
<1>8. Cardinality(F) = IF n <= Cardinality(A) THEN n ELSE Cardinality(A)
  BY <1>6, <1>7
<1> QED BY <1>8 DEF F

\* f is a recursion over the numbers up to N: step k applies g[k].
Steps(f, N, S, g, x) ==
  f \in [0..N -> S] /\ f[0] = x /\ \A k \in 1..N : f[k] = g[k][f[k - 1]]

\* There is a function that a recursion over the numbers up to N defines.
LEMMA Stepped ==
  ASSUME NEW S, NEW x \in S, NEW N \in Nat, NEW g \in [1..N -> [S -> S]]
  PROVE  \E f : Steps(f, N, S, g, x)
<1> DEFINE Good == {n \in 0..N : \E f \in [0..n -> S] :
                                  f[0] = x /\ \A k \in 1..n : f[k] = g[k][f[k - 1]]}
<1>1. 0 \in Good
  <2> DEFINE f == [k \in 0..0 |-> x]
  <2>1. f \in [0..0 -> S] /\ f[0] = x /\ \A k \in 1..0 : f[k] = g[k][f[k - 1]]
    OBVIOUS
  <2>2. 0 \in 0..N
    OBVIOUS
  <2> HIDE DEF f
  <2> QED BY <2>1, <2>2
<1>2. ASSUME NEW n \in 0..N, n < N, n \in Good PROVE n + 1 \in Good
  <2>1. PICK f \in [0..n -> S] : f[0] = x /\ \A k \in 1..n : f[k] = g[k][f[k - 1]]
    BY <1>2
  <2> DEFINE y == g[n + 1][f[n]]
             h == [k \in 0..(n + 1) |-> IF k = n + 1 THEN y ELSE f[k]]
  <2>2. f[n] \in S /\ n + 1 \in 1..N /\ y \in S
    <3>1. f[n] \in S /\ n + 1 \in 1..N
      BY <1>2
    <3> QED BY <3>1
  <2> HIDE DEF y
  <2>3. h \in [0..(n + 1) -> S]
    <3>1. \A k \in 0..(n + 1) : k # n + 1 => k \in 0..n
      OBVIOUS
    <3> QED BY <2>2, <3>1
  <2>4. /\ \A k \in 0..n : h[k] = f[k]
        /\ h[n + 1] = y
    OBVIOUS
  <2> HIDE DEF h
  <2>5. ASSUME NEW k \in 1..(n + 1) PROVE h[k] = g[k][h[k - 1]]
    <3>1. CASE k = n + 1
      <4>1. k - 1 = n /\ n \in 0..n
        BY <3>1
      <4>2. h[k - 1] = f[n] /\ h[k] = y
        BY <2>4, <3>1, <4>1
      <4> QED BY <3>1, <4>2 DEF y
    <3>2. CASE k # n + 1
      <4>1. k \in 1..n /\ k \in 0..n /\ k - 1 \in 0..n
        BY <3>2
      <4> QED BY <2>1, <2>4, <4>1
    <3> QED BY <3>1, <3>2
  <2>6. h[0] = x
    BY <2>1, <2>4
  <2>7. n + 1 \in 0..N
    BY <1>2
  <2> QED BY <2>3, <2>5, <2>6, <2>7
<1>3. N \in Good
  <2> HIDE DEF Good
  <2>1. N \in 0..N
    OBVIOUS
  <2> QED BY <1>1, <1>2, <2>1, NatSetUpTo
<1> QED BY <1>3 DEF Steps
\* A function on 1..N is a sequence.
LEMMA FunctionIsSeq ==
  ASSUME NEW S, NEW N \in Nat, NEW f, f \in [1..N -> S]
  PROVE  f \in Seq(S) /\ Len(f) = N
OBVIOUS

=============================================================================
