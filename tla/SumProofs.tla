------------------------------- MODULE SumProofs -------------------------------
(***************************************************************************)
(* Finite sets of numbers: what is extreme in them, that they can be        *)
(* listed, and what a sum over one is worth.  A sum of the community        *)
(* modules is a fold: a function over all subsets, chosen so that each is   *)
(* its first element more than what is left without it.  That there is      *)
(* such a function, and only one, and that the order does not matter, is    *)
(* proved from the smallest set for which it would be false.                *)
(***************************************************************************)
EXTENDS Functions, FiniteSetTheorems, WellFoundedInduction, TLAPS, Integers, Sequences

-----------------------------------------------------------------------------
(* Division with remainder.                                                  *)

LEMMA Floored ==
    ASSUME NEW x \in Int, NEW d \in Int, d > 0
    PROVE  x \div d \in Int /\ d * (x \div d) <= x /\ x < d * (x \div d) + d
OBVIOUS

LEMMA FlooredBounds ==
    ASSUME NEW x \in Int, NEW d \in Int, d > 0, NEW q \in Int
    PROVE  (d * q <= x => q <= x \div d) /\ (x < d * q + d => x \div d <= q)
<1> DEFINE r == x \div d
<1>1. r \in Int /\ d * r <= x /\ x < d * r + d
  BY Floored
<1> HIDE DEF r
<1>2. ASSUME d * q <= x PROVE q <= r
  <2>1. d * q < d * r + d
    BY <1>1, <1>2
  <2>2. d * (r + 1 - q) > 0
    BY <1>1, <2>1
  <2> QED
    BY <1>1, <2>2
<1>3. ASSUME x < d * q + d PROVE r <= q
  <2>1. d * r < d * q + d
    BY <1>1, <1>3
  <2>2. d * (q + 1 - r) > 0
    BY <1>1, <2>1
  <2> QED
    BY <1>1, <2>2
<1> QED
  BY <1>2, <1>3 DEF r

\* A quotient of two numbers is one, and no more than its dividend.
LEMMA Quotient ==
    ASSUME NEW a \in Nat, NEW d \in Nat, d > 0
    PROVE  a \div d \in Nat /\ d * (a \div d) <= a /\ a < d * (a \div d) + d /\ a \div d <= a
<1>1. a \div d \in Int /\ d * (a \div d) <= a /\ a < d * (a \div d) + d
  BY Floored
<1> DEFINE y == a \div d
<1> HIDE DEF y
<1>2. y \in Int /\ d * y <= a /\ a < d * y + d
  BY <1>1 DEF y
<1>3. y \in Nat
  <2>1. SUFFICES ASSUME y <= -1 PROVE FALSE
    BY <1>2
  <2>2. d * y <= d * (-1)
    BY <1>2, <2>1
  <2> QED BY <1>2, <2>2
<1>4. y <= d * y
  BY <1>3
<1>5. d * y \in Int
  BY <1>3
<1>6. y <= a
  <2> DEFINE m == d * y
  <2> HIDE DEF m
  <2> QED BY <1>2, <1>3, <1>4, <1>5 DEF m
<1> QED BY <1>2, <1>3, <1>6 DEF y

\* A quotient grows with its dividend.
LEMMA QuotientGrows ==
    ASSUME NEW a \in Nat, NEW b \in Nat, a <= b, NEW d \in Nat, d > 0
    PROVE  a \div d <= b \div d
<1> DEFINE x == a \div d  y == b \div d
<1>1. /\ x \in Nat /\ d * x <= a /\ a < d * x + d
      /\ y \in Nat /\ d * y <= b /\ b < d * y + d
  BY Quotient
<1> HIDE DEF x, y
<1>2. x <= y
  <2>1. SUFFICES ASSUME x >= y + 1 PROVE FALSE
    BY <1>1
  <2>2. d * x >= d * (y + 1)
    BY <1>1, <2>1
  <2>3. d * (y + 1) = d * y + d
    BY <1>1
  <2> DEFINE p == d * x  r == d * y
  <2>4. p \in Int /\ r \in Int
    BY <1>1
  <2>5. p >= r + d
    BY <2>2, <2>3
  <2> HIDE DEF p, r
  <2> QED BY <1>1, <2>4, <2>5 DEF p, r
<1> QED BY <1>2 DEF x, y

-----------------------------------------------------------------------------
(* Finite sets, and what is extreme in them.                                 *)

\* Of any sets of a finite set's elements, some are smallest.
LEMMA SmallestSet ==
    ASSUME NEW S, IsFiniteSet(S), NEW X, X \subseteq SUBSET S, X # {}
    PROVE  \E A \in X : \A B \in X : B \subseteq A => B = A
<1> DEFINE R == StrictSubsetOrdering(S)
<1>1. IsWellFoundedOn(R, SUBSET S)
  BY FS_StrictSubsetOrderingWellFounded, FS_FiniteSubsetsOfFinite
<1> HIDE DEF R
<1>2. PICK A \in X : \A B \in X : ~(<<B, A>> \in R)
  BY <1>1, WFMin
<1>3. ASSUME NEW B \in X, B \subseteq A PROVE B = A
  <2>1. ~(<<B, A>> \in R)
    BY <1>2
  <2> QED
    BY <2>1, <1>3 DEF R, StrictSubsetOrdering
<1> QED
  BY <1>3

\* What a list holds is finite.
LEMMA ListIsFinite ==
    ASSUME NEW S, NEW s \in Seq(S)
    PROVE  IsFiniteSet({s[i] : i \in DOMAIN s}) /\ IsFiniteSet(DOMAIN s)
<1> DEFINE T == {s[i] : i \in DOMAIN s}
<1>1. DOMAIN s = 1..Len(s) /\ Len(s) \in Nat
  OBVIOUS
<1>2. IsFiniteSet(DOMAIN s)
  BY <1>1, FS_Interval
<1>3. s \in [DOMAIN s -> T] /\ \A t \in T : \E i \in DOMAIN s : s[i] = t
  OBVIOUS
<1> HIDE DEF T
<1>4. s \in Surjection(DOMAIN s, T)
  BY <1>3 DEF Surjection
<1> QED
  BY <1>2, <1>4, FS_Surjection DEF T

\* Of finitely many weights one is the largest.
LEMMA Heaviest ==
    ASSUME NEW S, IsFiniteSet(S), S # {}, NEW w, \A x \in S : w[x] \in Int
    PROVE  \E x \in S : \A y \in S : w[x] >= w[y]
<1> DEFINE X == {A \in SUBSET S : A # {} /\ ~\E x \in A : \A y \in A : w[x] >= w[y]}
<1>1. SUFFICES ASSUME X # {} PROVE FALSE
  OBVIOUS
<1>2. PICK A \in X : \A B \in X : B \subseteq A => B = A
  <2>1. X \subseteq SUBSET S
    OBVIOUS
  <2> HIDE DEF X
  <2> QED
    BY <1>1, <2>1, SmallestSet
<1>3. A \in SUBSET S /\ A # {} /\ ~\E x \in A : \A y \in A : w[x] >= w[y]
  OBVIOUS
<1>4. PICK a \in A : TRUE
  BY <1>3
<1> DEFINE B == A \ {a}
<1>5. CASE B = {}
  <2>1. \A y \in A : y = a
    BY <1>5
  <2>2. w[a] \in Int
    BY <1>3, <1>4
  <2> QED
    BY <1>3, <2>1, <2>2
<1>6. CASE B # {}
  <2>1. PICK b \in B : \A y \in B : w[b] >= w[y]
    <3>1. B \in SUBSET S /\ B \subseteq A /\ B # A
      BY <1>3
    <3> QED
      BY <1>2, <1>6, <3>1
  <2>2. w[a] \in Int /\ \A y \in B : w[y] \in Int
    BY <1>3
  <2>3. CASE w[a] >= w[b]
    <3>1. \A y \in A : w[a] >= w[y]
      BY <2>1, <2>2, <2>3
    <3> QED
      BY <1>3, <3>1
  <2>4. CASE ~(w[a] >= w[b])
    <3>1. \A y \in A : w[b] >= w[y]
      BY <2>1, <2>2, <2>4
    <3> QED
      BY <1>3, <2>1, <3>1
  <2> QED
    BY <2>3, <2>4
<1> QED
  BY <1>5, <1>6

LEMMA LeastNumber ==
    ASSUME NEW S, IsFiniteSet(S), S # {}, S \subseteq Int
    PROVE  \E i \in S : \A j \in S : i <= j
<1> DEFINE w == [i \in S |-> -i]
<1>1. \A i \in S : w[i] \in Int /\ w[i] = -i
  OBVIOUS
<1> HIDE DEF w
<1>2. PICK i \in S : \A j \in S : w[i] >= w[j]
  BY <1>1, Heaviest
<1>3. \A j \in S : i <= j
  BY <1>1, <1>2
<1> QED
  BY <1>3

\* What holds at zero and passes from each number to the next is reached.
LEMMA Reached ==
    ASSUME NEW n \in Nat, NEW A, 0 \in A,
           \A k \in 0..n : k + 1 <= n /\ k \in A => k + 1 \in A
    PROVE  \A k \in 0..n : k \in A
<1> DEFINE X == {k \in 0..n : k \notin A}
<1>1. SUFFICES ASSUME X # {} PROVE FALSE
  OBVIOUS
<1>2. IsFiniteSet(X) /\ X \subseteq Int
  <2>1. IsFiniteSet(0..n)
    BY FS_Interval
  <2> QED BY <2>1, FS_Subset
<1> HIDE DEF X
<1>3. PICK m \in X : \A j \in X : m <= j
  BY <1>1, <1>2, LeastNumber
<1>4. m \in 0..n /\ m \notin A /\ \A k \in 0..n : k \notin A => m <= k
  BY <1>3 DEF X
<1>5. m # 0 /\ m - 1 \in 0..n /\ (m - 1) + 1 = m
  BY <1>4
<1>6. m - 1 \in A
  BY <1>4, <1>5
<1> QED BY <1>4, <1>5, <1>6

\* A finite set of numbers can be listed in their order.
LEMMA Enumerated ==
    ASSUME NEW S, IsFiniteSet(S), S \subseteq Int
    PROVE  \E s \in [1..Cardinality(S) -> S] : \A i, j \in DOMAIN s : i < j => s[i] < s[j]
<1> DEFINE Listed(T) == \E s \in [1..Cardinality(T) -> T] :
                           \A i, j \in 1..Cardinality(T) : i < j => s[i] < s[j]
           X == {A \in SUBSET S : ~Listed(A)}
<1>1. SUFFICES ASSUME X # {} PROVE FALSE
  OBVIOUS
<1>2. PICK A \in X : \A B \in X : B \subseteq A => B = A
  <2>1. X \subseteq SUBSET S
    OBVIOUS
  <2>2. IsFiniteSet(S)
    OBVIOUS
  <2> HIDE DEF X, Listed
  <2> QED
    BY ONLY <1>1, <2>1, <2>2, SmallestSet
<1>3. IsFiniteSet(A) /\ A \subseteq Int /\ A \in SUBSET S /\ ~Listed(A)
  BY FS_Subset
<1>4. A # {}
  <2>1. SUFFICES ASSUME A = {} PROVE FALSE
    OBVIOUS
  <2>2. Cardinality(A) = 0
    BY <2>1, FS_EmptySet
  <2> DEFINE e == [i \in 1..0 |-> 0]
  <2>3. e \in [1..Cardinality(A) -> A] /\ ~\E i \in 1..Cardinality(A) : TRUE
    BY <2>2
  <2> HIDE DEF e
  <2> QED
    BY <1>3, <2>3
<1> DEFINE w == [x \in A |-> x]
<1>5. PICK m \in A : \A x \in A : m >= x
  <2>1. \A x \in A : w[x] \in Int /\ w[x] = x
    BY <1>3
  <2> HIDE DEF w
  <2>2. PICK m \in A : \A x \in A : w[m] >= w[x]
    BY <1>3, <1>4, <2>1, Heaviest
  <2> QED
    BY <2>1, <2>2
<1> DEFINE B == A \ {m}  n == Cardinality(B)
<1>6. B \in SUBSET S /\ B \subseteq A /\ B # A
  BY <1>3
<1>7. Listed(B)
  BY <1>2, <1>6
<1>8. n \in Nat /\ Cardinality(A) = n + 1
  <2>1. Cardinality(A \ {m}) = Cardinality(A) - 1 /\ Cardinality(A \ {m}) \in Nat
    BY <1>3, <1>5, FS_RemoveElement, FS_CardinalityType
  <2>2. Cardinality(A) \in Nat
    BY <1>3, FS_CardinalityType
  <2> QED
    BY <2>1, <2>2
<1> HIDE DEF n
<1>9. PICK s \in [1..n -> B] : \A i, j \in 1..n : i < j => s[i] < s[j]
  BY <1>7 DEF n
<1> DEFINE t == [i \in 1..(n + 1) |-> IF i = n + 1 THEN m ELSE s[i]]
<1>10. \A i \in 1..(n + 1) : i = n + 1 \/ i \in 1..n
  BY <1>8
<1>11. t \in [1..(n + 1) -> A]
  BY <1>9, <1>10
<1>12. \A x \in B : x < m
  BY <1>3, <1>5
<1>13. \A i, j \in 1..(n + 1) : i < j => t[i] < t[j]
  <2>1. SUFFICES ASSUME NEW i \in 1..(n + 1), NEW j \in 1..(n + 1), i < j PROVE t[i] < t[j]
    OBVIOUS
  <2>2. i \in 1..n /\ t[i] = s[i] /\ s[i] \in B
    BY <1>8, <1>9, <2>1
  <2>3. CASE j = n + 1
    BY <1>12, <2>2, <2>3
  <2>4. CASE j # n + 1
    BY <1>9, <1>10, <2>1, <2>2, <2>4
  <2> QED
    BY <2>3, <2>4
<1> QED
  BY <1>3, <1>8, <1>11, <1>13

-----------------------------------------------------------------------------
(* A fold is well defined.                                                   *)

\* The element that a fold takes first.
First(s) == CHOOSE x \in s : TRUE

IsSumOver(A, f, g) ==
    g = [s \in SUBSET A |-> IF s = {} THEN 0 ELSE f[First(s)] + g[s \ {First(s)}]]

LEMMA SumIsChosen ==
    ASSUME NEW f, NEW S
    PROVE  SumFunctionOnSet(f, S) = (CHOOSE g : IsSumOver(S, f, g))[S]
BY DEF SumFunctionOnSet, FoldFunctionOnSet, MapThenFoldSet, IsSumOver, First

LEMMA SumOverAt ==
    ASSUME NEW A, NEW f, NEW g, IsSumOver(A, f, g), NEW s \in SUBSET A
    PROVE  /\ s = {} => g[s] = 0
           /\ s # {} => g[s] = f[First(s)] + g[s \ {First(s)}]
BY DEF IsSumOver

LEMMA FirstIsIn == ASSUME NEW s, s # {} PROVE First(s) \in s
BY DEF First

LEMMA SumOverUnique ==
    ASSUME NEW S, IsFiniteSet(S), NEW A \in SUBSET S, NEW B \in SUBSET S, NEW f, NEW g, NEW h,
           IsSumOver(A, f, g), IsSumOver(B, f, h), NEW s \in SUBSET (A \cap B)
    PROVE  g[s] = h[s]
<1> DEFINE X == {x \in SUBSET (A \cap B) : g[x] # h[x]}
<1>1. SUFFICES ASSUME X # {} PROVE FALSE
  OBVIOUS
<1>2. PICK x \in X : \A y \in X : y \subseteq x => y = x
  <2>1. X \subseteq SUBSET S
    OBVIOUS
  <2> HIDE DEF X
  <2> QED
    BY <1>1, <2>1, SmallestSet
<1>3. x \in SUBSET A /\ x \in SUBSET B /\ g[x] # h[x]
  OBVIOUS
<1>4. x # {}
  BY <1>3, SumOverAt
<1> DEFINE y == x \ {First(x)}
<1>5. y \in SUBSET (A \cap B) /\ y \subseteq x /\ y # x
  BY <1>3, <1>4, FirstIsIn
<1>6. g[y] = h[y]
  BY <1>2, <1>5
<1>7. g[x] = f[First(x)] + g[y] /\ h[x] = f[First(x)] + h[y]
  BY <1>3, <1>4, SumOverAt
<1> QED
  BY <1>3, <1>6, <1>7

LEMMA SumOverExists ==
    ASSUME NEW S, IsFiniteSet(S), NEW f
    PROVE  \E g : IsSumOver(S, f, g)
<1> DEFINE X == {A \in SUBSET S : ~\E g : IsSumOver(A, f, g)}
<1>1. SUFFICES ASSUME X # {} PROVE FALSE
  OBVIOUS
<1>2. PICK A \in X : \A B \in X : B \subseteq A => B = A
  <2>1. X \subseteq SUBSET S
    OBVIOUS
  <2> HIDE DEF X
  <2> QED
    BY <1>1, <2>1, SmallestSet
<1>3. A \in SUBSET S /\ ~\E g : IsSumOver(A, f, g)
  OBVIOUS
<1> DEFINE Of(s) == CHOOSE g : IsSumOver(s, f, g)
<1>4. ASSUME NEW s \in SUBSET A, s # A PROVE IsSumOver(s, f, Of(s))
  <2>1. \E g : IsSumOver(s, f, g)
    BY <1>2, <1>3, <1>4
  <2> QED
    BY <2>1
<1> HIDE DEF Of
<1> DEFINE G == [s \in SUBSET A |->
                    IF s = A THEN IF A = {} THEN 0 ELSE f[First(A)] + Of(A \ {First(A)})[A \ {First(A)}]
                    ELSE Of(s)[s]]
           H == [s \in SUBSET A |-> IF s = {} THEN 0 ELSE f[First(s)] + G[s \ {First(s)}]]
<1>5. ASSUME NEW s \in SUBSET A PROVE G[s] = H[s]
  <2>1. CASE s = {}
    <3>1. CASE A = {}
      BY <2>1, <3>1
    <3>2. CASE A # {}
      <4>1. IsSumOver(s, f, Of(s)) /\ s \in SUBSET s
        BY <1>4, <2>1, <3>2
      <4>2. Of(s)[s] = 0
        BY <2>1, <4>1, SumOverAt
      <4> QED
        BY <2>1, <3>2, <4>2
    <3> QED
      BY <3>1, <3>2
  <2>2. CASE s # {}
    <3> DEFINE r == s \ {First(s)}
    <3>1. r \in SUBSET A /\ r # A /\ r \in SUBSET s /\ r \in SUBSET S /\ s \in SUBSET S
      BY <1>3, <2>2, FirstIsIn
    <3>2. G[r] = Of(r)[r]
      BY <3>1
    <3>3. CASE s = A
      BY <2>2, <3>2, <3>3
    <3>4. CASE s # A
      <4>1. IsSumOver(s, f, Of(s)) /\ IsSumOver(r, f, Of(r))
        BY <1>4, <3>1, <3>4
      <4>2. Of(s)[s] = f[First(s)] + Of(s)[r]
        BY <2>2, <4>1, SumOverAt
      <4>3. Of(s)[r] = Of(r)[r]
        <5>1. r \in SUBSET (s \cap r)
          BY <3>1
        <5> QED
          BY <3>1, <4>1, <5>1, SumOverUnique
      <4>4. G[s] = Of(s)[s] /\ H[s] = f[First(s)] + G[r]
        BY <2>2, <3>4
      <4> QED
        BY <3>2, <4>2, <4>3, <4>4
    <3> QED
      BY <3>3, <3>4
  <2> QED
    BY <2>1, <2>2
<1>6. G = H
  BY <1>5
<1>7. IsSumOver(A, f, G)
  <2>1. G = [s \in SUBSET A |-> IF s = {} THEN 0 ELSE f[First(s)] + G[s \ {First(s)}]]
    BY <1>6
  <2> HIDE DEF G
  <2> QED
    BY <2>1 DEF IsSumOver
<1> QED
  BY <1>3, <1>7

-----------------------------------------------------------------------------
(* Sums.                                                                     *)

\* A sum is its first summand more than the rest.
LEMMA SumFirst ==
    ASSUME NEW S, IsFiniteSet(S), NEW f
    PROVE  /\ SumFunctionOnSet(f, {}) = 0
           /\ S # {} => SumFunctionOnSet(f, S) =
                           f[First(S)] + SumFunctionOnSet(f, S \ {First(S)})
<1> DEFINE Of(s) == CHOOSE g : IsSumOver(s, f, g)
<1>1. ASSUME NEW s \in SUBSET S PROVE IsSumOver(s, f, Of(s)) /\ SumFunctionOnSet(f, s) = Of(s)[s]
  <2>1. IsFiniteSet(s)
    BY FS_Subset
  <2>2. \E g : IsSumOver(s, f, g)
    BY <2>1, SumOverExists
  <2> QED
    BY <2>2, SumIsChosen
<1> HIDE DEF Of
<1>2. SumFunctionOnSet(f, {}) = 0
  <2>1. {} \in SUBSET S /\ {} \in SUBSET {}
    OBVIOUS
  <2>2. IsSumOver({}, f, Of({})) /\ SumFunctionOnSet(f, {}) = Of({})[{}]
    BY <1>1, <2>1
  <2> QED
    BY <2>1, <2>2, SumOverAt
<1>3. ASSUME S # {}
      PROVE  SumFunctionOnSet(f, S) = f[First(S)] + SumFunctionOnSet(f, S \ {First(S)})
  <2> DEFINE r == S \ {First(S)}
  <2>1. r \in SUBSET S /\ S \in SUBSET S /\ r \in SUBSET (S \cap r)
    OBVIOUS
  <2> HIDE DEF r
  <2>2. Of(S)[r] = Of(r)[r]
    <3>1. IsSumOver(S, f, Of(S)) /\ IsSumOver(r, f, Of(r))
      BY <1>1, <2>1
    <3> QED
      BY <2>1, <3>1, SumOverUnique
  <2>3. Of(S)[S] = f[First(S)] + Of(S)[r]
    BY <1>1, <1>3, <2>1, SumOverAt DEF r
  <2> QED
    BY <1>1, <2>1, <2>2, <2>3 DEF r
<1> QED
  BY <1>2, <1>3

\* The sum of integers is one.
LEMMA SumIsInt ==
    ASSUME NEW S, IsFiniteSet(S), NEW f, \A x \in S : f[x] \in Int
    PROVE  SumFunctionOnSet(f, S) \in Int
<1> DEFINE X == {A \in SUBSET S : SumFunctionOnSet(f, A) \notin Int}
<1>1. SUFFICES ASSUME X # {} PROVE FALSE
  OBVIOUS
<1>2. PICK A \in X : \A B \in X : B \subseteq A => B = A
  <2>1. X \subseteq SUBSET S
    OBVIOUS
  <2> HIDE DEF X
  <2> QED
    BY <1>1, <2>1, SmallestSet
<1>3. IsFiniteSet(A) /\ A \in SUBSET S
  BY FS_Subset
<1>4. A # {}
  <2>1. SumFunctionOnSet(f, {}) = 0
    BY SumFirst
  <2>2. SumFunctionOnSet(f, A) \notin Int
    OBVIOUS
  <2> QED
    BY <2>1, <2>2
<1> DEFINE B == A \ {First(A)}
<1>5. B \in SUBSET S /\ B \subseteq A /\ B # A /\ First(A) \in S
  BY <1>3, <1>4, FirstIsIn
<1>6. SumFunctionOnSet(f, B) \in Int
  BY <1>2, <1>5
<1>7. SumFunctionOnSet(f, A) = f[First(A)] + SumFunctionOnSet(f, B)
  BY <1>3, <1>4, SumFirst
<1> QED
  BY <1>5, <1>6, <1>7

\* The order does not matter: any summand may be taken out.
LEMMA SumRemove ==
    ASSUME NEW S, IsFiniteSet(S), NEW f, \A x \in S : f[x] \in Int, NEW x \in S
    PROVE  SumFunctionOnSet(f, S) = f[x] + SumFunctionOnSet(f, S \ {x})
<1> DEFINE Ok(A) == \A y \in A : SumFunctionOnSet(f, A) = f[y] + SumFunctionOnSet(f, A \ {y})
           X == {A \in SUBSET S : ~Ok(A)}
<1>1. SUFFICES ASSUME X # {} PROVE FALSE
  OBVIOUS
<1>2. PICK A \in X : \A B \in X : B \subseteq A => B = A
  <2>1. X \subseteq SUBSET S
    OBVIOUS
  <2> HIDE DEF X
  <2> QED
    BY <1>1, <2>1, SmallestSet
<1>3. IsFiniteSet(A) /\ A \in SUBSET S
  BY FS_Subset
<1>4. PICK y \in A : SumFunctionOnSet(f, A) # f[y] + SumFunctionOnSet(f, A \ {y})
  OBVIOUS
<1> DEFINE c == First(A)
<1>5. c \in A /\ SumFunctionOnSet(f, A) = f[c] + SumFunctionOnSet(f, A \ {c})
  BY <1>3, <1>4, SumFirst, FirstIsIn
<1>6. y # c
  BY <1>4, <1>5
<1> HIDE DEF c
<1>7. Ok(A \ {c}) /\ Ok(A \ {y})
  <2>1. /\ A \ {c} \in SUBSET S /\ A \ {c} \subseteq A /\ A \ {c} # A
        /\ A \ {y} \in SUBSET S /\ A \ {y} \subseteq A /\ A \ {y} # A
    BY <1>3, <1>5
  <2> HIDE DEF Ok
  <2> QED
    BY <1>2, <2>1
<1>8. /\ SumFunctionOnSet(f, A \ {c}) = f[y] + SumFunctionOnSet(f, (A \ {c}) \ {y})
      /\ SumFunctionOnSet(f, A \ {y}) = f[c] + SumFunctionOnSet(f, (A \ {y}) \ {c})
  BY <1>5, <1>6, <1>7
<1>9. (A \ {c}) \ {y} = (A \ {y}) \ {c}
  OBVIOUS
<1>10. /\ f[c] \in Int /\ f[y] \in Int
       /\ SumFunctionOnSet(f, (A \ {y}) \ {c}) \in Int
  <2>1. IsFiniteSet((A \ {y}) \ {c}) /\ \A z \in (A \ {y}) \ {c} : f[z] \in Int
    BY <1>3, FS_RemoveElement
  <2>2. SumFunctionOnSet(f, (A \ {y}) \ {c}) \in Int
    BY <2>1, SumIsInt
  <2> QED
    BY <1>3, <1>4, <1>5, <2>2
<1> DEFINE T == SumFunctionOnSet(f, (A \ {y}) \ {c})
<1>11. /\ SumFunctionOnSet(f, A \ {c}) = f[y] + T
       /\ SumFunctionOnSet(f, A \ {y}) = f[c] + T
  BY <1>8, <1>9
<1> HIDE DEF X, Ok, T
<1>12. SumFunctionOnSet(f, A) = f[c] + (f[y] + T) /\ T \in Int
  BY <1>5, <1>10, <1>11 DEF T
<1>13. SumFunctionOnSet(f, A) = f[y] + (f[c] + T)
  BY <1>10, <1>12
<1> QED
  BY <1>4, <1>11, <1>13

\* Only the summands count, not the functions they come from.
LEMMA SumCong ==
    ASSUME NEW S, IsFiniteSet(S), NEW f, NEW g, \A x \in S : f[x] = g[x]
    PROVE  SumFunctionOnSet(f, S) = SumFunctionOnSet(g, S)
<1> DEFINE X == {A \in SUBSET S : SumFunctionOnSet(f, A) # SumFunctionOnSet(g, A)}
<1>1. SUFFICES ASSUME X # {} PROVE FALSE
  OBVIOUS
<1>2. PICK A \in X : \A B \in X : B \subseteq A => B = A
  <2>1. X \subseteq SUBSET S
    OBVIOUS
  <2> HIDE DEF X
  <2> QED
    BY <1>1, <2>1, SmallestSet
<1>3. IsFiniteSet(A) /\ A \in SUBSET S /\ SumFunctionOnSet(f, A) # SumFunctionOnSet(g, A)
  BY FS_Subset
<1>4. A # {}
  BY <1>3, SumFirst
<1> DEFINE B == A \ {First(A)}
<1>5. B \in SUBSET S /\ B \subseteq A /\ B # A /\ First(A) \in S
  BY <1>3, <1>4, FirstIsIn
<1>6. SumFunctionOnSet(f, B) = SumFunctionOnSet(g, B)
  BY <1>2, <1>5
<1>7. /\ SumFunctionOnSet(f, A) = f[First(A)] + SumFunctionOnSet(f, B)
      /\ SumFunctionOnSet(g, A) = g[First(A)] + SumFunctionOnSet(g, B)
  BY <1>3, <1>4, SumFirst
<1> QED
  BY <1>3, <1>5, <1>6, <1>7

\* A sum may be formed class by class.
LEMMA SumByClass ==
    ASSUME NEW S, IsFiniteSet(S), NEW f, \A x \in S : f[x] \in Int,
           NEW C, IsFiniteSet(C), NEW class, \A x \in S : class[x] \in C
    PROVE  SumFunction([c \in C |-> SumFunctionOnSet(f, {x \in S : class[x] = c})])
              = SumFunctionOnSet(f, S)
<1> DEFINE In(A, c) == {x \in A : class[x] = c}
           Parts(A) == [c \in C |-> SumFunctionOnSet(f, In(A, c))]
           X == {A \in SUBSET S : SumFunctionOnSet(Parts(A), C) # SumFunctionOnSet(f, A)}
<1>0. SumFunction(Parts(S)) = SumFunctionOnSet(Parts(S), C)
  BY DEF SumFunction
<1>1. SUFFICES ASSUME X # {} PROVE FALSE
  BY <1>0
<1>2. PICK A \in X : \A B \in X : B \subseteq A => B = A
  <2>1. X \subseteq SUBSET S
    OBVIOUS
  <2> HIDE DEF X
  <2> QED
    BY <1>1, <2>1, SmallestSet
<1>3. IsFiniteSet(A) /\ A \in SUBSET S
      /\ SumFunctionOnSet(Parts(A), C) # SumFunctionOnSet(f, A)
  BY FS_Subset
<1>4. ASSUME NEW B \in SUBSET S, NEW c \in C
      PROVE  /\ IsFiniteSet(In(B, c))
             /\ SumFunctionOnSet(f, In(B, c)) \in Int
             /\ Parts(B)[c] = SumFunctionOnSet(f, In(B, c))
  <2>1. In(B, c) \in SUBSET S
    OBVIOUS
  <2>2. IsFiniteSet(In(B, c)) /\ \A x \in In(B, c) : f[x] \in Int
    BY <2>1, FS_Subset
  <2> QED
    BY <2>2, SumIsInt
<1>5. CASE A = {}
  <2>1. \A D \in SUBSET C : SumFunctionOnSet(Parts({}), D) = 0
    <3> DEFINE Y == {D \in SUBSET C : SumFunctionOnSet(Parts({}), D) # 0}
    <3>1. SUFFICES ASSUME Y # {} PROVE FALSE
      OBVIOUS
    <3>2. PICK D \in Y : \A E \in Y : E \subseteq D => E = D
      <4>1. Y \subseteq SUBSET C
        OBVIOUS
      <4> HIDE DEF Y
      <4> QED
        BY <3>1, <4>1, SmallestSet
    <3>3. IsFiniteSet(D) /\ D \in SUBSET C /\ SumFunctionOnSet(Parts({}), D) # 0
      BY FS_Subset
    <3>4. D # {}
      BY <3>3, SumFirst
    <3> DEFINE E == D \ {First(D)}
    <3>5. E \in SUBSET C /\ E \subseteq D /\ E # D /\ First(D) \in C
      BY <3>3, <3>4, FirstIsIn
    <3>6. SumFunctionOnSet(Parts({}), E) = 0
      BY <3>2, <3>5
    <3>7. Parts({})[First(D)] = 0
      <4>1. In({}, First(D)) = {}
        OBVIOUS
      <4>2. Parts({})[First(D)] = SumFunctionOnSet(f, {})
        BY <3>5, <4>1
      <4> QED
        BY <4>2, SumFirst
    <3> DEFINE P == Parts({})
    <3> HIDE DEF Parts, Y, E, P
    <3>8. SumFunctionOnSet(P, D) = P[First(D)] + SumFunctionOnSet(P, E)
      BY <3>3, <3>4, SumFirst DEF E
    <3> QED
      BY <3>3, <3>6, <3>7, <3>8 DEF P
  <2> QED
    BY <1>3, <1>5, <2>1, SumFirst
<1>6. CASE A # {}
  <2> DEFINE x == First(A)
             B == A \ {x}
             k == class[x]
  <2>1. x \in A /\ x \in S /\ k \in C
    BY <1>3, <1>6, FirstIsIn
  <2>2. B \in SUBSET S /\ B \subseteq A /\ B # A
    BY <1>3, <2>1
  <2>3. SumFunctionOnSet(Parts(B), C) = SumFunctionOnSet(f, B)
    BY <1>2, <2>2
  <2>4. SumFunctionOnSet(f, A) = f[x] + SumFunctionOnSet(f, B)
    BY <1>3, <1>6, SumFirst
  <2> HIDE DEF x, X
  <2>5. Parts(A)[k] = f[x] + Parts(B)[k]
    <3>1. x \in In(A, k) /\ In(A, k) \ {x} = In(B, k)
      BY <2>1
    <3>2. IsFiniteSet(In(A, k)) /\ \A y \in In(A, k) : f[y] \in Int
      BY <1>3, <1>4, <2>1
    <3> HIDE DEF In, Parts
    <3>3. SumFunctionOnSet(f, In(A, k)) = f[x] + SumFunctionOnSet(f, In(A, k) \ {x})
      BY <3>1, <3>2, SumRemove
    <3> QED
      BY <1>3, <1>4, <2>1, <2>2, <3>1, <3>3
  <2>6. \A c \in C \ {k} : Parts(A)[c] = Parts(B)[c]
    <3>1. ASSUME NEW c \in C \ {k} PROVE In(A, c) = In(B, c)
      OBVIOUS
    <3> QED
      BY <3>1
  <2>7. \A c \in C : Parts(A)[c] \in Int /\ Parts(B)[c] \in Int
    BY <1>3, <1>4, <2>2
  <2> HIDE DEF Parts, k, B
  <2>8. /\ SumFunctionOnSet(Parts(A), C) = Parts(A)[k] + SumFunctionOnSet(Parts(A), C \ {k})
        /\ SumFunctionOnSet(Parts(B), C) = Parts(B)[k] + SumFunctionOnSet(Parts(B), C \ {k})
    BY <2>1, <2>7, SumRemove
  <2>9. IsFiniteSet(C \ {k})
    BY FS_RemoveElement
  <2>10. /\ SumFunctionOnSet(Parts(A), C \ {k}) = SumFunctionOnSet(Parts(B), C \ {k})
         /\ SumFunctionOnSet(Parts(B), C \ {k}) \in Int
    BY <2>6, <2>7, <2>9, SumCong, SumIsInt
  <2> QED
    BY <1>3, <2>1, <2>3, <2>4, <2>5, <2>7, <2>8, <2>10
<1> QED
  BY <1>5, <1>6

\* A sum of larger numbers is larger.
LEMMA SumMono ==
    ASSUME NEW S, IsFiniteSet(S), NEW f, NEW g,
           \A x \in S : f[x] \in Int /\ g[x] \in Int /\ f[x] <= g[x]
    PROVE  SumFunctionOnSet(f, S) <= SumFunctionOnSet(g, S)
<1> DEFINE X == {A \in SUBSET S : ~(SumFunctionOnSet(f, A) <= SumFunctionOnSet(g, A))}
<1>1. SUFFICES ASSUME X # {} PROVE FALSE
  OBVIOUS
<1>2. PICK A \in X : \A B \in X : B \subseteq A => B = A
  <2>1. X \subseteq SUBSET S
    OBVIOUS
  <2> HIDE DEF X
  <2> QED
    BY <1>1, <2>1, SmallestSet
<1>3. IsFiniteSet(A) /\ A \in SUBSET S /\ ~(SumFunctionOnSet(f, A) <= SumFunctionOnSet(g, A))
  BY FS_Subset
<1>4. A # {}
  BY <1>3, SumFirst
<1> DEFINE B == A \ {First(A)}
<1>5. B \in SUBSET S /\ B \subseteq A /\ B # A /\ First(A) \in S /\ IsFiniteSet(B)
  BY <1>3, <1>4, FirstIsIn, FS_Subset
<1>6. SumFunctionOnSet(f, B) <= SumFunctionOnSet(g, B)
  BY <1>2, <1>5
<1>7. /\ SumFunctionOnSet(f, A) = f[First(A)] + SumFunctionOnSet(f, B)
      /\ SumFunctionOnSet(g, A) = g[First(A)] + SumFunctionOnSet(g, B)
  BY <1>3, <1>4, SumFirst
<1>8. SumFunctionOnSet(f, B) \in Int /\ SumFunctionOnSet(g, B) \in Int
  BY <1>5, SumIsInt
<1> QED
  BY <1>3, <1>5, <1>6, <1>7, <1>8

\* A factor may be taken out of a sum.
LEMMA SumScale ==
    ASSUME NEW S, IsFiniteSet(S), NEW f, NEW g, NEW c \in Int,
           \A x \in S : f[x] \in Int /\ g[x] = c * f[x]
    PROVE  SumFunctionOnSet(g, S) = c * SumFunctionOnSet(f, S)
<1> DEFINE X == {A \in SUBSET S : SumFunctionOnSet(g, A) # c * SumFunctionOnSet(f, A)}
<1>1. SUFFICES ASSUME X # {} PROVE FALSE
  OBVIOUS
<1>2. PICK A \in X : \A B \in X : B \subseteq A => B = A
  <2>1. X \subseteq SUBSET S
    OBVIOUS
  <2> HIDE DEF X
  <2> QED
    BY <1>1, <2>1, SmallestSet
<1>3. IsFiniteSet(A) /\ A \in SUBSET S /\ SumFunctionOnSet(g, A) # c * SumFunctionOnSet(f, A)
  BY FS_Subset
<1>4. A # {}
  <2>1. SumFunctionOnSet(f, {}) = 0 /\ SumFunctionOnSet(g, {}) = 0
    BY SumFirst
  <2>2. c * 0 = 0
    OBVIOUS
  <2> QED
    BY <1>3, <2>1, <2>2
<1> DEFINE B == A \ {First(A)}  x == First(A)  F == SumFunctionOnSet(f, B)
<1>5. B \in SUBSET S /\ B \subseteq A /\ B # A /\ x \in S /\ IsFiniteSet(B)
  BY <1>3, <1>4, FirstIsIn, FS_Subset
<1>6. SumFunctionOnSet(g, B) = c * F
  BY <1>2, <1>5
<1>7. /\ SumFunctionOnSet(f, A) = f[x] + F
      /\ SumFunctionOnSet(g, A) = g[x] + SumFunctionOnSet(g, B)
  BY <1>3, <1>4, SumFirst
<1>8. F \in Int /\ f[x] \in Int /\ g[x] = c * f[x]
  BY <1>5, SumIsInt
<1> HIDE DEF F, x, B
<1>9. c * (f[x] + F) = c * f[x] + c * F
  BY <1>8
<1> QED
  BY <1>3, <1>6, <1>7, <1>8, <1>9

\* To count is to sum up ones.
LEMMA CountIsSum ==
    ASSUME NEW S, IsFiniteSet(S), NEW f, \A x \in S : f[x] = 1
    PROVE  SumFunctionOnSet(f, S) = Cardinality(S)
<1> DEFINE X == {A \in SUBSET S : SumFunctionOnSet(f, A) # Cardinality(A)}
<1>1. SUFFICES ASSUME X # {} PROVE FALSE
  OBVIOUS
<1>2. PICK A \in X : \A B \in X : B \subseteq A => B = A
  <2>1. X \subseteq SUBSET S
    OBVIOUS
  <2> HIDE DEF X
  <2> QED
    BY <1>1, <2>1, SmallestSet
<1>3. IsFiniteSet(A) /\ A \in SUBSET S /\ SumFunctionOnSet(f, A) # Cardinality(A)
  BY FS_Subset
<1>4. A # {}
  BY <1>3, SumFirst, FS_EmptySet
<1> DEFINE B == A \ {First(A)}
<1>5. B \in SUBSET S /\ B \subseteq A /\ B # A /\ First(A) \in A
  BY <1>3, <1>4, FirstIsIn
<1>6. SumFunctionOnSet(f, B) = Cardinality(B)
  BY <1>2, <1>5
<1>7. SumFunctionOnSet(f, A) = 1 + SumFunctionOnSet(f, B)
  BY <1>3, <1>4, <1>5, SumFirst
<1>8. Cardinality(B) = Cardinality(A) - 1 /\ Cardinality(A) \in Nat
  BY <1>3, <1>5, FS_RemoveElement, FS_CardinalityType
<1> QED
  BY <1>3, <1>6, <1>7, <1>8

\* A sum over two parts.
LEMMA SumSplit ==
    ASSUME NEW S, IsFiniteSet(S), NEW T \in SUBSET S, NEW f, \A x \in S : f[x] \in Int
    PROVE  SumFunctionOnSet(f, S) = SumFunctionOnSet(f, T) + SumFunctionOnSet(f, S \ T)
<1> DEFINE X == {A \in SUBSET S : SumFunctionOnSet(f, A)
                   # SumFunctionOnSet(f, A \cap T) + SumFunctionOnSet(f, A \ T)}
<1>1. SUFFICES ASSUME X # {} PROVE FALSE
  <2>1. S \cap T = T /\ S \in SUBSET S
    OBVIOUS
  <2> QED BY <2>1
<1>2. PICK A \in X : \A B \in X : B \subseteq A => B = A
  <2>1. X \subseteq SUBSET S
    OBVIOUS
  <2> HIDE DEF X
  <2> QED BY <1>1, <2>1, SmallestSet
<1>3. IsFiniteSet(A) /\ A \in SUBSET S /\ A \cap T \subseteq A /\ A \ T \subseteq A
  BY FS_Subset
<1>4. IsFiniteSet(A \cap T) /\ IsFiniteSet(A \ T)
  BY <1>3, FS_Subset
<1>5. A # {}
  <2>1. SumFunctionOnSet(f, {}) = 0
    BY SumFirst, FS_EmptySet
  <2>2. A = {} => A \cap T = {} /\ A \ T = {}
    OBVIOUS
  <2>3. 0 = 0 + 0
    OBVIOUS
  <2> QED BY <2>1, <2>2, <2>3
<1>6. PICK x \in A : TRUE
  BY <1>5
<1> DEFINE B == A \ {x}
<1>7. B \in SUBSET S /\ B \subseteq A /\ B # A /\ x \in S /\ f[x] \in Int
  BY <1>3, <1>6
<1>8. SumFunctionOnSet(f, B) = SumFunctionOnSet(f, B \cap T) + SumFunctionOnSet(f, B \ T)
  BY <1>2, <1>7
<1>9. SumFunctionOnSet(f, A) = f[x] + SumFunctionOnSet(f, B)
  BY <1>3, <1>6, SumRemove
<1>10. /\ IsFiniteSet(B \cap T) /\ IsFiniteSet(B \ T)
       /\ B \cap T \subseteq S /\ B \ T \subseteq S
  BY <1>3, FS_Subset
<1>11. SumFunctionOnSet(f, B \cap T) \in Int /\ SumFunctionOnSet(f, B \ T) \in Int
  BY <1>10, SumIsInt
<1>14. SumFunctionOnSet(f, A) # SumFunctionOnSet(f, A \cap T) + SumFunctionOnSet(f, A \ T)
  BY <1>2
<1>12. CASE x \in T
  <2> DEFINE Z == A \cap T
  <2>1. x \in Z /\ Z \ {x} = B \cap T /\ A \ T = B \ T
    BY <1>6, <1>12
  <2>2. IsFiniteSet(Z) /\ \A y \in Z : f[y] \in Int
    BY <1>3, <1>4
  <2> HIDE DEF Z
  <2>3. SumFunctionOnSet(f, Z) = f[x] + SumFunctionOnSet(f, Z \ {x})
    BY <2>1, <2>2, SumRemove
  <2>4. SumFunctionOnSet(f, A \cap T) = f[x] + SumFunctionOnSet(f, B \cap T)
    BY <2>1, <2>3 DEF Z
  <2>5. SumFunctionOnSet(f, A \ T) = SumFunctionOnSet(f, B \ T)
    BY <2>1
  <2> HIDE DEF B
  <2> QED BY <1>7, <1>8, <1>9, <1>11, <1>14, <2>4, <2>5
<1>13. CASE x \notin T
  <2> DEFINE Z == A \ T
  <2>1. x \in Z /\ Z \ {x} = B \ T /\ A \cap T = B \cap T
    BY <1>6, <1>13
  <2>2. IsFiniteSet(Z) /\ \A y \in Z : f[y] \in Int
    BY <1>3, <1>4
  <2> HIDE DEF Z
  <2>3. SumFunctionOnSet(f, Z) = f[x] + SumFunctionOnSet(f, Z \ {x})
    BY <2>1, <2>2, SumRemove
  <2>4. SumFunctionOnSet(f, A \ T) = f[x] + SumFunctionOnSet(f, B \ T)
    BY <2>1, <2>3 DEF Z
  <2>5. SumFunctionOnSet(f, A \cap T) = SumFunctionOnSet(f, B \cap T)
    BY <2>1
  <2> HIDE DEF B
  <2> QED BY <1>7, <1>8, <1>9, <1>11, <1>14, <2>4, <2>5
<1> QED BY <1>12, <1>13

\* Nothing sums to nothing.
LEMMA SumOfZero ==
    ASSUME NEW S, IsFiniteSet(S), NEW f, \A x \in S : f[x] = 0
    PROVE  SumFunctionOnSet(f, S) = 0
<1>1. \A x \in S : f[x] \in Int /\ f[x] = 0 * f[x]
  OBVIOUS
<1>2. 0 \in Int
  OBVIOUS
<1>3. SumFunctionOnSet(f, S) = 0 * SumFunctionOnSet(f, S) /\ SumFunctionOnSet(f, S) \in Int
  BY <1>1, <1>2, SumScale, SumIsInt
<1> QED BY <1>3

\* Natural numbers sum to one.
LEMMA SumIsNat ==
    ASSUME NEW S, IsFiniteSet(S), NEW f, \A x \in S : f[x] \in Nat
    PROVE  SumFunctionOnSet(f, S) \in Nat
<1> DEFINE z == [x \in S |-> 0]
<1>1. \A x \in S : z[x] = 0 /\ z[x] \in Int /\ f[x] \in Int /\ z[x] <= f[x]
  OBVIOUS
<1> HIDE DEF z
<1>2. SumFunctionOnSet(z, S) = 0
  BY <1>1, SumOfZero
<1>3. SumFunctionOnSet(z, S) <= SumFunctionOnSet(f, S) /\ SumFunctionOnSet(f, S) \in Int
  BY <1>1, SumMono, SumIsInt
<1> QED BY <1>2, <1>3
\* Parts in proportion sum to a total in proportion.
LEMMA SumInProportion ==
    ASSUME NEW S, IsFiniteSet(S), NEW f, NEW w, NEW c \in Int, NEW d \in Int,
           \A x \in S : f[x] \in Int /\ w[x] \in Int /\ c * f[x] <= d * w[x]
    PROVE  c * SumFunctionOnSet(f, S) <= d * SumFunctionOnSet(w, S)
<1> DEFINE l == [x \in S |-> c * f[x]]  r == [x \in S |-> d * w[x]]
<1>1. \A x \in S : /\ l[x] = c * f[x] /\ r[x] = d * w[x]
                   /\ f[x] \in Int /\ w[x] \in Int
  OBVIOUS
<1>2. \A x \in S : l[x] \in Int /\ r[x] \in Int /\ l[x] <= r[x]
  OBVIOUS
<1> HIDE DEF l, r
<1>3. SumFunctionOnSet(l, S) = c * SumFunctionOnSet(f, S)
  BY <1>1, SumScale
<1>4. SumFunctionOnSet(r, S) = d * SumFunctionOnSet(w, S)
  BY <1>1, SumScale
<1>5. SumFunctionOnSet(l, S) <= SumFunctionOnSet(r, S)
  BY <1>2, SumMono
<1> QED BY <1>3, <1>4, <1>5
=============================================================================
