--------------------------- MODULE FiniteInduction ---------------------------
(***************************************************************************)
(* Induction and recursion for the proofs of the other modules, stated     *)
(* about sets and functions: a lemma whose parameter is an operator could  *)
(* be stated more simply, but no backend used here can instantiate it.     *)
(* Also: least and greatest elements, and the numbering of a finite set.   *)
(***************************************************************************)
EXTENDS Integers, FiniteSets, FiniteSetTheorems, NaturalsInduction, TLAPS

\* A set of natural numbers that is not empty has a least element.
LEMMA LeastNat ==
  ASSUME NEW T \in SUBSET Nat, T # {}
  PROVE  \E m \in T : \A k \in T : m <= k
<1> DEFINE less == {s \in Nat \X Nat : s[1] < s[2]}
<1>1. IsWellFoundedOn(less, Nat)
  BY NatLessThanWellFounded DEF OpToRel
<1>2. \A x, y \in Nat : y < x => <<y, x>> \in less
  OBVIOUS
<1> HIDE DEF less
<1>3. PICK m \in T : \A k \in T : <<k, m>> \notin less
  BY <1>1, WFMin
<1>4. ASSUME NEW k \in T
      PROVE  m <= k
  <2>1. m \in Nat /\ k \in Nat /\ ~(k < m)
    BY <1>2, <1>3
  <2>. QED
    BY ONLY <2>1
<1>. QED
  BY <1>4

\* Induction: a set that holds 0, and with each number the next, holds them all.
LEMMA NatSetInduction ==
  ASSUME NEW T, 0 \in T, \A n \in Nat : n \in T => n + 1 \in T
  PROVE  \A n \in Nat : n \in T
<1>. SUFFICES ASSUME Nat \ T # {}
              PROVE  FALSE
  OBVIOUS
<1>1. PICK m \in Nat \ T : \A k \in Nat \ T : m <= k
  BY LeastNat
<1>2. m - 1 \in Nat
  BY <1>1
<1>3. m - 1 \in T
  BY <1>1, <1>2
<1>. QED
  BY <1>2, <1>3

\* The same up to a bound.
LEMMA UpTo ==
  ASSUME NEW N \in Nat, NEW T, 0 \in T, \A n \in 1 .. N : n - 1 \in T => n \in T
  PROVE  \A n \in 0 .. N : n \in T
<1> DEFINE U == {n \in Nat : n <= N => n \in T}
<1>1. 0 \in U
  OBVIOUS
<1>2. ASSUME NEW n \in Nat, n \in U
      PROVE  n + 1 \in U
  BY <1>2
<1> HIDE DEF U
<1>3. \A n \in Nat : n \in U
  BY <1>1, <1>2, NatSetInduction
<1>. QED
  BY <1>3 DEF U

\* Induction over the subsets of a finite set.
LEMMA SubsetInduction ==
  ASSUME NEW S, IsFiniteSet(S), NEW T, {} \in T,
         \A U \in SUBSET S : \A x \in S \ U : U \in T => U \union {x} \in T
  PROVE  S \in T
<1> DEFINE C == {n \in Nat : \A U \in SUBSET S : Cardinality(U) = n => U \in T}
<1>1. \A U \in SUBSET S : IsFiniteSet(U) /\ Cardinality(U) \in Nat
  BY FS_Subset, FS_CardinalityType
<1>2. 0 \in C
  <2>1. \A U \in SUBSET S : Cardinality(U) = 0 => U = {}
    BY <1>1, FS_EmptySet
  <2>. QED
    BY <2>1
<1>3. ASSUME NEW n \in Nat, n \in C
      PROVE  n + 1 \in C
  <2>. SUFFICES ASSUME NEW U \in SUBSET S, Cardinality(U) = n + 1
                PROVE  U \in T
    OBVIOUS
  <2>1. U # {}
    <3>1. Cardinality({}) = 0 /\ n + 1 # 0
      BY FS_EmptySet
    <3>. QED
      BY ONLY <3>1, Cardinality(U) = n + 1
  <2>2. PICK x \in U : TRUE
    BY <2>1
  <2>3. Cardinality(U \ {x}) = n
    <3>1. Cardinality(U \ {x}) = Cardinality(U) - 1
      BY <1>1, FS_RemoveElement
    <3>. QED
      BY ONLY <3>1, Cardinality(U) = n + 1, n \in Nat
  <2>4. U \ {x} \in T
    BY <1>3, <2>3
  <2>5. (U \ {x}) \union {x} = U
    OBVIOUS
  <2>6. (U \ {x}) \union {x} \in T
    BY <2>4
  <2>. QED
    BY <2>5, <2>6
<1> HIDE DEF C
<1>4. \A n \in Nat : n \in C
  BY <1>2, <1>3, NatSetInduction
<1>. QED
  BY <1>1, <1>4 DEF C
-----------------------------------------------------------------------------
\* A finite set of integers that is not empty has a least and a greatest element.
LEMMA FiniteBounds ==
  ASSUME NEW S \in SUBSET Int, IsFiniteSet(S), S # {}
  PROVE  /\ \E m \in S : \A k \in S : m <= k
         /\ \E m \in S : \A k \in S : k <= m
<1> DEFINE T == {U \in SUBSET S : U # {} => /\ \E m \in U : \A k \in U : m <= k
                                            /\ \E m \in U : \A k \in U : k <= m}
<1>1. {} \in T
  OBVIOUS
<1>2. ASSUME NEW U \in SUBSET S, NEW x \in S \ U, U \in T
      PROVE  U \union {x} \in T
  <2>1. CASE U = {}
    BY <2>1
  <2>2. CASE U # {}
    <3>1. PICK a \in U : \A k \in U : a <= k
      BY <1>2, <2>2
    <3>2. PICK b \in U : \A k \in U : k <= b
      BY <1>2, <2>2
    <3>3. \E m \in U \union {x} : \A k \in U \union {x} : m <= k
      <4>1. CASE x <= a
        BY <3>1, <4>1
      <4>2. CASE a <= x
        BY <3>1, <4>2
      <4>. QED
        BY <4>1, <4>2
    <3>4. \E m \in U \union {x} : \A k \in U \union {x} : k <= m
      <4>1. CASE b <= x
        BY <3>2, <4>1
      <4>2. CASE x <= b
        BY <3>2, <4>2
      <4>. QED
        BY <4>1, <4>2
    <3>. QED
      BY <3>3, <3>4
  <2>. QED
    BY <2>1, <2>2
<1> HIDE DEF T
<1>3. S \in T
  BY <1>1, <1>2, SubsetInduction
<1>. QED
  BY <1>3 DEF T
-----------------------------------------------------------------------------
\* A value for each step out of N and each value before it; and a run of such steps from a.
StepsOf(N, V) == [(1 .. N) \X V -> V]

IsRun(f, N, V, a, step) ==
  /\ f \in [0 .. N -> V] /\ f[0] = a
  /\ \A k \in 1 .. N : f[k] = step[<<k, f[k - 1]>>]

\* A function defined by recursion on 0 .. N exists.
LEMMA RecursionUpTo ==
  ASSUME NEW N \in Nat, NEW V, NEW a \in V, NEW step \in StepsOf(N, V)
  PROVE  \E f : IsRun(f, N, V, a, step)
<1>. USE DEF StepsOf
<1> DEFINE P(n) == \E f \in [0 .. n -> V] :
                     f[0] = a /\ \A k \in 1 .. n : f[k] = step[<<k, f[k - 1]>>]
           T == {n \in 0 .. N : P(n)}
<1>1. 0 \in T
  <2> DEFINE g == [k \in 0 .. 0 |-> a]
  <2>1. g \in [0 .. 0 -> V] /\ g[0] = a /\ 1 .. 0 = {}
    OBVIOUS
  <2> HIDE DEF g
  <2>2. P(0)
    BY <2>1
  <2>. QED
    BY <2>2
<1>2. ASSUME NEW n \in 1 .. N, n - 1 \in T
      PROVE  n \in T
  <2>1. PICK f \in [0 .. n - 1 -> V] :
          f[0] = a /\ \A k \in 1 .. n - 1 : f[k] = step[<<k, f[k - 1]>>]
    BY <1>2
  <2> DEFINE g == [k \in 0 .. n |-> IF k = n THEN step[<<n, f[n - 1]>>] ELSE f[k]]
  <2>2. f[n - 1] \in V
    OBVIOUS
  <2>3. g \in [0 .. n -> V] /\ g[0] = a
    BY <2>1, <2>2
  <2>4. ASSUME NEW k \in 1 .. n
        PROVE  g[k] = step[<<k, g[k - 1]>>]
    <3>1. k - 1 \in 0 .. n /\ k - 1 # n /\ g[k - 1] = f[k - 1]
      OBVIOUS
    <3>2. CASE k = n
      BY <3>1, <3>2
    <3>3. CASE k # n
      <4>1. k \in 1 .. n - 1 /\ g[k] = f[k]
        BY <3>3
      <4>. QED
        BY <2>1, <3>1, <4>1
    <3>. QED
      BY <3>2, <3>3
  <2> HIDE DEF g
  <2>. QED
    BY <2>3, <2>4
<1> HIDE DEF T
<1>3. \A n \in 0 .. N : n \in T
  BY <1>1, <1>2, UpTo
<1>4. P(N)
  BY <1>3 DEF T
<1>. QED
  BY <1>4 DEF IsRun
\* Whatever takes the same steps is that function.
LEMMA RunsAgree ==
  ASSUME NEW N \in Nat, NEW V, NEW a, NEW step, NEW g, IsRun(g, N, V, a, step),
         NEW f, f[0] = a, \A k \in 1 .. N : f[k - 1] \in V => f[k] = step[<<k, f[k - 1]>>]
  PROVE  \A k \in 0 .. N : f[k] = g[k]
<1> DEFINE T == {k \in 0 .. N : f[k] = g[k]}
<1>1. g \in [0 .. N -> V] /\ g[0] = a /\ \A k \in 1 .. N : g[k] = step[<<k, g[k - 1]>>]
  BY DEF IsRun
<1>2. 0 \in T
  BY <1>1
<1>3. ASSUME NEW k \in 1 .. N, k - 1 \in T
      PROVE  k \in T
  <2>1. k \in 0 .. N /\ k - 1 \in 0 .. N /\ f[k - 1] = g[k - 1]
    BY <1>3
  <2>2. f[k - 1] \in V
    BY <1>1, <2>1
  <2>3. f[k] = g[k]
    BY <1>1, <2>1, <2>2
  <2>. QED
    BY <2>1, <2>3
<1> HIDE DEF T
<1>4. \A k \in 0 .. N : k \in T
  BY <1>2, <1>3, UpTo
<1>. QED
  BY <1>4 DEF T
-----------------------------------------------------------------------------
\* The elements of a finite set of integers are numbered from the greatest down.
LEMMA NumberedDown ==
  ASSUME NEW S \in SUBSET Int, IsFiniteSet(S)
  PROVE  /\ Cardinality(S) \in Nat
         /\ \A k \in S : Cardinality({j \in S : k <= j}) \in 1 .. Cardinality(S)
         /\ \A k, l \in S : k < l =>
              Cardinality({j \in S : l <= j}) < Cardinality({j \in S : k <= j})
         /\ \A n \in 1 .. Cardinality(S) : \E k \in S : Cardinality({j \in S : k <= j}) = n
<1> DEFINE above(k) == {j \in S : k <= j}
           number == [k \in S |-> Cardinality(above(k))]
<1>1. Cardinality(S) \in Nat
  BY FS_CardinalityType
<1>2. ASSUME NEW k \in S
      PROVE  IsFiniteSet(above(k)) /\ Cardinality(above(k)) \in 1 .. Cardinality(S)
  <2>1. above(k) \in SUBSET S /\ k \in above(k)
    OBVIOUS
  <2>2. /\ IsFiniteSet(above(k)) /\ Cardinality(above(k)) \in Nat
        /\ Cardinality(above(k)) <= Cardinality(S)
    BY <2>1, FS_Subset, FS_CardinalityType
  <2>3. Cardinality(above(k)) # 0
    BY <2>1, <2>2, FS_EmptySet
  <2>. QED
    BY ONLY <1>1, <2>2, <2>3
<1>3. ASSUME NEW k \in S, NEW l \in S, k < l
      PROVE  Cardinality(above(l)) < Cardinality(above(k))
  <2>1. above(l) \in SUBSET above(k) /\ k \in above(k) /\ k \notin above(l)
    <3>1. \A j \in S : j \in Int /\ (l <= j => k <= j)
      BY <1>3
    <3>2. k <= k /\ ~(l <= k)
      BY <1>3
    <3>. QED
      BY <3>1, <3>2
  <2>2. /\ Cardinality(above(l)) <= Cardinality(above(k))
        /\ Cardinality(above(l)) # Cardinality(above(k))
    BY <1>2, <2>1, FS_Subset
  <2>3. Cardinality(above(l)) \in Nat /\ Cardinality(above(k)) \in Nat
    BY <1>1, <1>2
  <2>. QED
    BY ONLY <2>2, <2>3
<1>4. \A n \in 1 .. Cardinality(S) : \E k \in S : Cardinality(above(k)) = n
  <2>1. number \in [S -> 1 .. Cardinality(S)]
    BY <1>2
  <2>2. ASSUME NEW k \in S, NEW l \in S, k # l
        PROVE  number[k] # number[l]
    <3>1. Cardinality(above(k)) \in Int /\ Cardinality(above(l)) \in Int
      BY <1>1, <1>2
    <3>2. k < l \/ l < k
      BY <2>2
    <3>. QED
      BY <1>3, <3>1, <3>2
  <2>3. number \in Injection(S, 1 .. Cardinality(S))
    BY <2>1, <2>2 DEF Injection, IsInjective
  <2>4. /\ IsFiniteSet(1 .. Cardinality(S))
        /\ Cardinality(1 .. Cardinality(S)) = Cardinality(S)
    <3>1. 1 \in Int /\ Cardinality(S) \in Int
      BY <1>1
    <3>2. /\ IsFiniteSet(1 .. Cardinality(S))
          /\ Cardinality(1 .. Cardinality(S))
               = IF 1 > Cardinality(S) THEN 0 ELSE Cardinality(S) - 1 + 1
      BY ONLY <3>1, FS_Interval
    <3>. QED
      BY ONLY <1>1, <3>2
  <2>5. number \in Surjection(S, 1 .. Cardinality(S))
    BY <2>3, <2>4, FS_Injection
  <2>. QED
    BY <2>5 DEF Surjection
<1>. QED
  BY <1>1, <1>2, <1>3, <1>4
=============================================================================
