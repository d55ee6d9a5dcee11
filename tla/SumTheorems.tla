----------------------------- MODULE SumTheorems -----------------------------
(***************************************************************************)
(* Facts about numbers, finite sets and sums that the proofs of the other  *)
(* modules share.  The induction theorems of the library have an operator  *)
(* as parameter; here an induction is the choice of a least                *)
(* counterexample.                                                         *)
(***************************************************************************)
EXTENDS FiniteSetTheorems, TLAPS

\* A set of natural numbers that is not empty has a least element.
LEMMA LeastNumber ==
    ASSUME NEW T \in SUBSET Nat, T # {}
    PROVE  \E n \in T : \A m \in T : n <= m
<1>1. PICK n \in T : \A m \in T : ~(<<m, n>> \in OpToRel(<, Nat))
    BY NatLessThanWellFounded, WFMin
<1>2. ASSUME NEW m \in T
      PROVE  n <= m
    <2>1. ~(m < n)
        BY <1>1 DEF OpToRel
    <2>2. m \in Nat /\ n \in Nat
        OBVIOUS
    <2> QED BY <2>1, <2>2
<1> QED BY <1>2

\* A set of numbers with an upper bound has a greatest element.
LEMMA GreatestNumber ==
    ASSUME NEW T, NEW n \in Nat, T \subseteq 0..n, T # {}
    PROVE  \E m \in T : \A k \in T : m >= k
<1> DEFINE D == {n - m : m \in T}
<1>1. D \in SUBSET Nat /\ D # {}
    <2>1. \A m \in T : n - m \in Nat
        OBVIOUS
    <2> QED BY <2>1
<1>2. PICK d \in D : \A e \in D : d <= e
    BY <1>1, LeastNumber
<1>3. PICK m \in T : d = n - m
    BY <1>2
<1>4. ASSUME NEW k \in T
      PROVE  m >= k
    <2>1. n - m <= n - k
        BY <1>2, <1>3
    <2>2. m \in Nat /\ k \in Nat
        OBVIOUS
    <2> QED BY <2>1, <2>2
<1> QED BY <1>4

\* What holds of 0, and of n + 1 if it holds of n, holds of all numbers.
LEMMA SetInduction ==
    ASSUME NEW T, 0 \in T, \A n \in Nat : n \in T => n + 1 \in T
    PROVE  Nat \subseteq T
<1> SUFFICES ASSUME Nat \ T # {}
             PROVE  FALSE
    OBVIOUS
<1>1. PICK n \in Nat \ T : \A m \in Nat \ T : n <= m
    <2>1. Nat \ T \in SUBSET Nat
        OBVIOUS
    <2> QED BY <2>1, LeastNumber
<1>2. n # 0 /\ n - 1 \in Nat
    OBVIOUS
<1>3. n - 1 \in T
    BY <1>1, <1>2
<1>4. (n - 1) + 1 = n
    OBVIOUS
<1> QED BY <1>2, <1>3, <1>4

\* What holds of the empty set, and of a set if it holds of the set without any one of
\* its elements, holds of every finite set.
LEMMA SubsetInduction ==
    ASSUME NEW S, IsFiniteSet(S), NEW T, {} \in T,
           \A R \in SUBSET S : R # {} /\ (\A x \in R : R \ {x} \in T) => R \in T
    PROVE  \A R \in SUBSET S : R \in T
<1> DEFINE N == {n \in Nat : \A R \in SUBSET S : Cardinality(R) = n => R \in T}
<1>1. \A R \in SUBSET S : IsFiniteSet(R) /\ Cardinality(R) \in Nat
    BY FS_Subset, FS_CardinalityType
<1>2. 0 \in N
    BY <1>1, FS_EmptySet
<1>3. \A n \in Nat : n \in N => n + 1 \in N
    <2> SUFFICES ASSUME NEW n \in Nat, n \in N, NEW R \in SUBSET S, Cardinality(R) = n + 1
                 PROVE  R \in T
        OBVIOUS
    <2>1. R # {}
        BY <1>1, FS_EmptySet
    <2>2. ASSUME NEW x \in R
          PROVE  R \ {x} \in T
        <3>1. Cardinality(R \ {x}) = n /\ R \ {x} \in SUBSET S
            BY <1>1, FS_RemoveElement
        <3> QED BY <3>1
    <2> QED BY <2>1, <2>2
<1>4. Nat \subseteq N
    <2> HIDE DEF N
    <2> QED BY <1>2, <1>3, SetInduction
<1> QED BY <1>1, <1>4
-----------------------------------------------------------------------------
(***************************************************************************)
(* Sums over finite sets                                                   *)
(***************************************************************************)
\* The element of a set that a sum takes first.
Pick(R) == CHOOSE x \in R : TRUE

\* g is the table of the sums over the sets of D.
Tabulates(g, F, D) ==
    g = [R \in D |-> IF R = {} THEN 0 ELSE F[Pick(R)] + g[R \ {Pick(R)}]]

LEMMA PickFrom == \A R : R # {} => Pick(R) \in R
BY DEF Pick

\* There is such a table.
LEMMA TableExists ==
    ASSUME NEW S, IsFiniteSet(S), NEW F, \A x \in S : F[x] \in Nat
    PROVE  \E g \in [SUBSET S -> Nat] : Tabulates(g, F, SUBSET S)
<1> DEFINE D(n) == {R \in SUBSET S : Cardinality(R) <= n}
           N == {n \in Nat : \E g \in [D(n) -> Nat] : Tabulates(g, F, D(n))}
<1>1. \A R \in SUBSET S : /\ IsFiniteSet(R) /\ Cardinality(R) \in Nat
                          /\ Cardinality(R) <= Cardinality(S)
    BY FS_Subset, FS_CardinalityType
<1>2. 0 \in N
    <2> DEFINE g == [R \in D(0) |-> 0]
    <2>1. \A R \in D(0) : R = {}
        BY <1>1, FS_EmptySet
    <2>2. g \in [D(0) -> Nat] /\ Tabulates(g, F, D(0))
        BY <2>1 DEF Tabulates
    <2> QED BY <2>2
<1>3. ASSUME NEW n \in Nat, n \in N
      PROVE  n + 1 \in N
    <2>1. PICK g \in [D(n) -> Nat] : Tabulates(g, F, D(n))
        BY <1>3
    <2> DEFINE h == [R \in D(n + 1) |-> IF R = {} THEN 0 ELSE F[Pick(R)] + g[R \ {Pick(R)}]]
    <2>2. ASSUME NEW R \in D(n + 1), R # {}
          PROVE  R \ {Pick(R)} \in D(n) /\ Pick(R) \in S
        <3>1. Pick(R) \in R
            BY <2>2, PickFrom
        <3>2. Cardinality(R \ {Pick(R)}) = Cardinality(R) - 1
            BY <1>1, <3>1, FS_RemoveElement
        <3> QED BY <1>1, <3>1, <3>2
    <2>3. D(n) \subseteq D(n + 1)
        BY <1>1
    <2>4. h \in [D(n + 1) -> Nat]
        <3>1. ASSUME NEW R \in D(n + 1), R # {}
              PROVE  F[Pick(R)] + g[R \ {Pick(R)}] \in Nat
            <4>1. F[Pick(R)] \in Nat /\ g[R \ {Pick(R)}] \in Nat
                BY <2>2, <3>1
            <4> QED BY <4>1
        <3> QED BY <3>1
    <2>5. \A R \in D(n) : h[R] = g[R]
        <3>1. \A R \in D(n) : g[R] = IF R = {} THEN 0 ELSE F[Pick(R)] + g[R \ {Pick(R)}]
            BY <2>1 DEF Tabulates
        <3> HIDE DEF D
        <3> QED BY <2>3, <3>1
    <2>6. ASSUME NEW R \in D(n + 1)
          PROVE  h[R] = IF R = {} THEN 0 ELSE F[Pick(R)] + h[R \ {Pick(R)}]
        <3>1. CASE R = {}
            BY <3>1
        <3>2. CASE R # {}
            <4>1. R \ {Pick(R)} \in D(n)
                BY <2>2, <3>2
            <4>2. h[R \ {Pick(R)}] = g[R \ {Pick(R)}]
                BY <2>5, <4>1
            <4>3. h[R] = F[Pick(R)] + g[R \ {Pick(R)}]
                BY <3>2
            <4> QED BY <3>2, <4>2, <4>3
        <3> QED BY <3>1, <3>2
    <2> HIDE DEF h, D
    <2>7. Tabulates(h, F, D(n + 1))
        BY <2>4, <2>6 DEF Tabulates
    <2>8. \E u \in [D(n + 1) -> Nat] : Tabulates(u, F, D(n + 1))
        BY <2>4, <2>7
    <2> QED BY <2>8
<1>4. Nat \subseteq N
    <2> HIDE DEF N
    <2> QED BY <1>2, <1>3, SetInduction
<1>5. Cardinality(S) \in N
    BY <1>4, FS_CardinalityType
<1>6. D(Cardinality(S)) = SUBSET S
    BY <1>1
<1> QED BY <1>5, <1>6

\* Tables of the same function agree.
LEMMA TablesAgree ==
    ASSUME NEW S, IsFiniteSet(S), NEW F, NEW Q \in SUBSET S, NEW g, NEW h,
           Tabulates(g, F, SUBSET S), Tabulates(h, F, SUBSET Q)
    PROVE  g[Q] = h[Q]
<1>1. \A R \in SUBSET S : g[R] = IF R = {} THEN 0 ELSE F[Pick(R)] + g[R \ {Pick(R)}]
    BY DEF Tabulates
<1>2. \A R \in SUBSET Q : h[R] = IF R = {} THEN 0 ELSE F[Pick(R)] + h[R \ {Pick(R)}]
    BY DEF Tabulates
<1>3. \A R \in SUBSET Q : R \in SUBSET S
    OBVIOUS
<1> DEFINE T == {R \in SUBSET Q : g[R] = h[R]}
<1>4. {} \in T
    BY <1>1, <1>2
<1>5. ASSUME NEW R \in SUBSET Q, R # {}, \A x \in R : R \ {x} \in T
      PROVE  R \in T
    <2>1. Pick(R) \in R
        BY <1>5, PickFrom
    <2>2. g[R \ {Pick(R)}] = h[R \ {Pick(R)}]
        BY <1>5, <2>1
    <2>3. g[R] = h[R]
        BY <1>1, <1>2, <1>3, <1>5, <2>2
    <2> QED BY <2>3
<1>6. Q \in T
    <2> HIDE DEF T
    <2>1. IsFiniteSet(Q)
        BY FS_Subset
    <2>2. \A R \in SUBSET Q : R \in T
        BY <1>4, <1>5, <2>1, SubsetInduction
    <2> QED BY <2>2
<1> QED BY <1>6

\* g has the sums of F over the subsets of S.
HasSums(g, F, S) ==
    /\ g \in [SUBSET S -> Nat]
    /\ Tabulates(g, F, SUBSET S)
    /\ \A R \in SUBSET S : SumFunctionOnSet(F, R) = g[R]

\* The sum of the library is the entry of a table.
LEMMA SumIsTabulated ==
    ASSUME NEW F, NEW R
    PROVE  SumFunctionOnSet(F, R) = (CHOOSE g : Tabulates(g, F, SUBSET R))[R]
BY DEF SumFunctionOnSet, FoldFunctionOnSet, MapThenFoldSet, Tabulates, Pick

LEMMA SumTable ==
    ASSUME NEW S, IsFiniteSet(S), NEW F, \A x \in S : F[x] \in Nat
    PROVE  \E g : HasSums(g, F, S)
<1>1. PICK g \in [SUBSET S -> Nat] : Tabulates(g, F, SUBSET S)
    BY TableExists
<1>2. ASSUME NEW R \in SUBSET S
      PROVE  SumFunctionOnSet(F, R) = g[R]
    <2>1. IsFiniteSet(R) /\ \A x \in R : F[x] \in Nat
        BY FS_Subset
    <2> DEFINE h == CHOOSE h : Tabulates(h, F, SUBSET R)
    <2>2. Tabulates(h, F, SUBSET R)
        <3>1. \E u : Tabulates(u, F, SUBSET R)
            BY <2>1, TableExists
        <3> QED BY <3>1
    <2>3. SumFunctionOnSet(F, R) = h[R]
        BY SumIsTabulated
    <2> HIDE DEF h
    <2>4. g[R] = h[R]
        BY <1>1, <2>2, TablesAgree
    <2> QED BY <2>3, <2>4
<1> QED BY <1>1, <1>2 DEF HasSums

\* The summands over S are numbers.
Numbers(F, S) == \A x \in S : F[x] \in Nat

\* A sum is a number, 0 over the empty set, and any element may be taken out.
LEMMA SumProperties ==
    ASSUME NEW S, IsFiniteSet(S), NEW F, Numbers(F, S)
    PROVE  /\ SumFunctionOnSet(F, S) \in Nat
           /\ SumFunctionOnSet(F, {}) = 0
           /\ \A x \in S :
                 /\ SumFunctionOnSet(F, S \ {x}) \in Nat /\ F[x] \in Nat
                 /\ SumFunctionOnSet(F, S) = F[x] + SumFunctionOnSet(F, S \ {x})
<1>0. PICK g : HasSums(g, F, S)
    BY SumTable DEF Numbers
<1>1. /\ g \in [SUBSET S -> Nat] /\ Tabulates(g, F, SUBSET S)
      /\ \A R \in SUBSET S : SumFunctionOnSet(F, R) = g[R]
    BY <1>0 DEF HasSums
<1>2. \A R \in SUBSET S : g[R] = IF R = {} THEN 0 ELSE F[Pick(R)] + g[R \ {Pick(R)}]
    BY <1>1 DEF Tabulates
<1> DEFINE T == {R \in SUBSET S : \A x \in R : g[R] = F[x] + g[R \ {x}]}
<1>4. {} \in T
    OBVIOUS
<1>5. ASSUME NEW R \in SUBSET S, R # {}, \A x \in R : R \ {x} \in T
      PROVE  R \in T
    <2> SUFFICES ASSUME NEW x \in R
                 PROVE  g[R] = F[x] + g[R \ {x}]
        OBVIOUS
    <2>1. PICK y \in R : g[R] = F[y] + g[R \ {y}]
        BY <1>2, <1>5, PickFrom
    <2>2. CASE x = y
        BY <2>1, <2>2
    <2>3. CASE x # y
        <3>1. g[R \ {y}] = F[x] + g[(R \ {y}) \ {x}]
            BY <1>5, <2>3
        <3>2. g[R \ {x}] = F[y] + g[(R \ {x}) \ {y}]
            BY <1>5, <2>3
        <3>3. (R \ {y}) \ {x} = (R \ {x}) \ {y}
            OBVIOUS
        <3>4. F[x] \in Nat /\ F[y] \in Nat /\ g[(R \ {y}) \ {x}] \in Nat
            BY <1>1 DEF Numbers
        <3>5. g[R \ {x}] = F[y] + g[(R \ {y}) \ {x}]
            BY <3>2, <3>3
        <3> QED BY <2>1, <3>1, <3>4, <3>5
    <2> QED BY <2>2, <2>3
<1>7. \A R \in SUBSET S : \A x \in R : g[R] = F[x] + g[R \ {x}]
    <2>1. \A R \in SUBSET S : R \in T
        <3> HIDE DEF T
        <3> QED BY <1>4, <1>5, SubsetInduction
    <2> QED BY <2>1
<1>8. g[{}] = 0 /\ {} \in SUBSET S /\ S \in SUBSET S
    BY <1>2
<1>9. \A R \in SUBSET S : g[R] \in Nat
    BY <1>1
<1>10. ASSUME NEW x \in S
       PROVE  /\ SumFunctionOnSet(F, S \ {x}) \in Nat /\ F[x] \in Nat
              /\ SumFunctionOnSet(F, S) = F[x] + SumFunctionOnSet(F, S \ {x})
    <2>1. S \ {x} \in SUBSET S /\ F[x] \in Nat
        BY DEF Numbers
    <2>2. SumFunctionOnSet(F, S \ {x}) = g[S \ {x}] /\ SumFunctionOnSet(F, S) = g[S]
        BY <1>1, <1>8, <2>1
    <2>3. g[S] = F[x] + g[S \ {x}] /\ g[S \ {x}] \in Nat
        BY <1>7, <1>8, <1>9, <2>1
    <2> QED BY <2>1, <2>2, <2>3
<1>11. SumFunctionOnSet(F, S) \in Nat /\ SumFunctionOnSet(F, {}) = 0
    BY <1>1, <1>8, <1>9
<1> QED BY <1>10, <1>11

\* The sum of lower summands is lower.
LEMMA SumMonotone ==
    ASSUME NEW S, IsFiniteSet(S), NEW F, NEW G,
           Numbers(F, S), Numbers(G, S), \A x \in S : F[x] <= G[x]
    PROVE  SumFunctionOnSet(F, S) <= SumFunctionOnSet(G, S)
<1> DEFINE T == {R \in SUBSET S : SumFunctionOnSet(F, R) <= SumFunctionOnSet(G, R)}
<1>1. {} \in T
    <2>1. SumFunctionOnSet(F, {}) = 0 /\ SumFunctionOnSet(G, {}) = 0
        BY SumProperties
    <2> QED BY <2>1
<1>2. ASSUME NEW R \in SUBSET S, R # {}, \A x \in R : R \ {x} \in T
      PROVE  R \in T
    <2>0. IsFiniteSet(R) /\ Numbers(F, R) /\ Numbers(G, R)
        BY FS_Subset DEF Numbers
    <2>1. PICK x \in R : TRUE
        BY <1>2
    <2>2. /\ SumFunctionOnSet(F, R \ {x}) \in Nat
          /\ SumFunctionOnSet(F, R) = F[x] + SumFunctionOnSet(F, R \ {x})
        BY <2>0, SumProperties
    <2>3. /\ SumFunctionOnSet(G, R \ {x}) \in Nat
          /\ SumFunctionOnSet(G, R) = G[x] + SumFunctionOnSet(G, R \ {x})
        BY <2>0, SumProperties
    <2>4. SumFunctionOnSet(F, R \ {x}) <= SumFunctionOnSet(G, R \ {x})
        BY <1>2
    <2>5. F[x] \in Nat /\ G[x] \in Nat /\ F[x] <= G[x]
        BY DEF Numbers
    <2>6. SumFunctionOnSet(F, R) <= SumFunctionOnSet(G, R)
        BY <2>2, <2>3, <2>4, <2>5
    <2> QED BY <2>6
<1>3. \A R \in SUBSET S : R \in T
    <2> HIDE DEF T
    <2> QED BY <1>1, <1>2, SubsetInduction
<1> QED BY <1>3

LEMMA SumEqual ==
    ASSUME NEW S, IsFiniteSet(S), NEW F, NEW G, Numbers(F, S), \A x \in S : G[x] = F[x]
    PROVE  SumFunctionOnSet(F, S) = SumFunctionOnSet(G, S)
<1>1. Numbers(G, S) /\ \A x \in S : F[x] <= G[x] /\ G[x] <= F[x]
    BY DEF Numbers
<1>2. SumFunctionOnSet(F, S) <= SumFunctionOnSet(G, S)
    BY <1>1, SumMonotone
<1>3. SumFunctionOnSet(G, S) <= SumFunctionOnSet(F, S)
    BY <1>1, SumMonotone
<1>4. SumFunctionOnSet(F, S) \in Nat /\ SumFunctionOnSet(G, S) \in Nat
    BY <1>1, SumProperties
<1> QED BY <1>2, <1>3, <1>4

\* Sums of sums.
LEMMA SumPlus ==
    ASSUME NEW S, IsFiniteSet(S), NEW F, NEW G, NEW H,
           Numbers(F, S), Numbers(G, S), \A x \in S : H[x] = F[x] + G[x]
    PROVE  SumFunctionOnSet(H, S) = SumFunctionOnSet(F, S) + SumFunctionOnSet(G, S)
<1> DEFINE T == {R \in SUBSET S :
                    SumFunctionOnSet(H, R) = SumFunctionOnSet(F, R) + SumFunctionOnSet(G, R)}
<1>0. Numbers(H, S)
    BY DEF Numbers
<1>1. {} \in T
    <2>1. SumFunctionOnSet(F, {}) = 0 /\ SumFunctionOnSet(G, {}) = 0 /\ SumFunctionOnSet(H, {}) = 0
        BY <1>0, SumProperties
    <2> QED BY <2>1
<1>2. ASSUME NEW R \in SUBSET S, R # {}, \A x \in R : R \ {x} \in T
      PROVE  R \in T
    <2>0. IsFiniteSet(R) /\ Numbers(F, R) /\ Numbers(G, R)
        BY FS_Subset DEF Numbers
    <2>1. PICK x \in R : TRUE
        BY <1>2
    <2>2. /\ SumFunctionOnSet(F, R \ {x}) \in Nat
          /\ SumFunctionOnSet(F, R) = F[x] + SumFunctionOnSet(F, R \ {x})
        BY <2>0, SumProperties
    <2>3. /\ SumFunctionOnSet(G, R \ {x}) \in Nat
          /\ SumFunctionOnSet(G, R) = G[x] + SumFunctionOnSet(G, R \ {x})
        BY <2>0, SumProperties
    <2>8. Numbers(H, R)
        BY <1>0 DEF Numbers
    <2>4. SumFunctionOnSet(H, R) = H[x] + SumFunctionOnSet(H, R \ {x})
        BY ZenonT(60), <1>0, <2>0, <2>8, SumProperties
    <2>5. SumFunctionOnSet(H, R \ {x}) = SumFunctionOnSet(F, R \ {x}) + SumFunctionOnSet(G, R \ {x})
        BY <1>2
    <2>6. F[x] \in Nat /\ G[x] \in Nat /\ H[x] = F[x] + G[x]
        BY DEF Numbers
    <2>7. SumFunctionOnSet(H, R) = SumFunctionOnSet(F, R) + SumFunctionOnSet(G, R)
        BY <2>2, <2>3, <2>4, <2>5, <2>6
    <2> QED BY <2>7
<1>3. \A R \in SUBSET S : R \in T
    <2> HIDE DEF T
    <2> QED BY <1>1, <1>2, SubsetInduction
<1> QED BY <1>3

\* A sum is positive if and only if a summand is.
LEMMA SumPositive ==
    ASSUME NEW S, IsFiniteSet(S), NEW F, Numbers(F, S)
    PROVE  SumFunctionOnSet(F, S) > 0 <=> \E x \in S : F[x] > 0
<1> DEFINE T == {R \in SUBSET S : SumFunctionOnSet(F, R) > 0 => \E x \in R : F[x] > 0}
<1>1. {} \in T
    <2>1. SumFunctionOnSet(F, {}) = 0
        BY SumProperties
    <2> QED BY <2>1
<1>2. ASSUME NEW R \in SUBSET S, R # {}, \A x \in R : R \ {x} \in T
      PROVE  R \in T
    <2>0. IsFiniteSet(R) /\ Numbers(F, R)
        BY FS_Subset DEF Numbers
    <2>1. PICK x \in R : TRUE
        BY <1>2
    <2>2. /\ SumFunctionOnSet(F, R \ {x}) \in Nat /\ F[x] \in Nat
          /\ SumFunctionOnSet(F, R) = F[x] + SumFunctionOnSet(F, R \ {x})
        BY <2>0, SumProperties
    <2>3. SumFunctionOnSet(F, R \ {x}) > 0 => \E y \in R \ {x} : F[y] > 0
        BY <1>2
    <2>4. SumFunctionOnSet(F, R) > 0 => F[x] > 0 \/ SumFunctionOnSet(F, R \ {x}) > 0
        BY <2>2
    <2>5. SumFunctionOnSet(F, R) > 0 => \E y \in R : F[y] > 0
        BY <2>3, <2>4, Zenon
    <2> QED BY <2>5
<1>3. \A R \in SUBSET S : R \in T
    <2> HIDE DEF T
    <2> QED BY <1>1, <1>2, SubsetInduction
<1>4. ASSUME NEW x \in S, F[x] > 0
      PROVE  SumFunctionOnSet(F, S) > 0
    <2>1. /\ SumFunctionOnSet(F, S \ {x}) \in Nat /\ F[x] \in Nat
          /\ SumFunctionOnSet(F, S) = F[x] + SumFunctionOnSet(F, S \ {x})
        BY SumProperties
    <2> QED BY <1>4, <2>1
<1>5. SumFunctionOnSet(F, S) > 0 => \E x \in S : F[x] > 0
    BY <1>3
<1> QED BY <1>4, <1>5, Zenon

\* Summands of 0 do not count.
LEMMA SumExtend ==
    ASSUME NEW S, IsFiniteSet(S), NEW F, Numbers(F, S), NEW R \in SUBSET S,
           \A x \in S \ R : F[x] = 0
    PROVE  SumFunctionOnSet(F, S) = SumFunctionOnSet(F, R)
<1> DEFINE D == S \ R
           T == {Q \in SUBSET D : SumFunctionOnSet(F, R \cup Q) = SumFunctionOnSet(F, R)}
<1>1. {} \in T
    <2>1. R \cup {} = R
        OBVIOUS
    <2> QED BY <2>1
<1>2. ASSUME NEW Q \in SUBSET D, Q # {}, \A x \in Q : Q \ {x} \in T
      PROVE  Q \in T
    <2>0. IsFiniteSet(R \cup Q) /\ Numbers(F, R \cup Q)
        <3>1. R \cup Q \subseteq S
            OBVIOUS
        <3> QED BY <3>1, FS_Subset DEF Numbers
    <2>1. PICK x \in Q : TRUE
        BY <1>2
    <2>2. x \in R \cup Q /\ (R \cup Q) \ {x} = R \cup (Q \ {x}) /\ F[x] = 0
        OBVIOUS
    <2>3. /\ SumFunctionOnSet(F, R \cup Q) = F[x] + SumFunctionOnSet(F, (R \cup Q) \ {x})
          /\ SumFunctionOnSet(F, (R \cup Q) \ {x}) \in Nat
        BY <2>0, <2>2, SumProperties
    <2>4. SumFunctionOnSet(F, R \cup (Q \ {x})) = SumFunctionOnSet(F, R)
        BY <1>2
    <2>5. SumFunctionOnSet(F, (R \cup Q) \ {x}) = SumFunctionOnSet(F, R)
        BY <2>2, <2>4
    <2>6. SumFunctionOnSet(F, R \cup Q) = SumFunctionOnSet(F, R)
        BY <2>2, <2>3, <2>5
    <2> QED BY <2>6
<1>3. D \in T
    <2>1. IsFiniteSet(D)
        BY FS_Difference
    <2> HIDE DEF D, T
    <2>2. \A Q \in SUBSET D : Q \in T
        BY <1>1, <1>2, <2>1, SubsetInduction
    <2> QED BY <2>2
<1>4. R \cup (S \ R) = S
    OBVIOUS
<1> QED BY <1>3, <1>4

\* The sum over a part is lower.
LEMMA SumSubset ==
    ASSUME NEW S, IsFiniteSet(S), NEW F, Numbers(F, S), NEW R \in SUBSET S
    PROVE  SumFunctionOnSet(F, R) <= SumFunctionOnSet(F, S)
<1> DEFINE G == [x \in S |-> IF x \in R THEN F[x] ELSE 0]
<1>1. Numbers(G, S) /\ (\A x \in S : G[x] <= F[x]) /\ \A x \in S \ R : G[x] = 0
    BY DEF Numbers
<1>2. IsFiniteSet(R) /\ Numbers(F, R) /\ \A x \in R : G[x] = F[x]
    BY FS_Subset DEF Numbers
<1> HIDE DEF G
<1>3. SumFunctionOnSet(F, R) = SumFunctionOnSet(G, R)
    BY <1>2, SumEqual
<1>4. SumFunctionOnSet(G, S) = SumFunctionOnSet(G, R)
    BY <1>1, SumExtend
<1>5. SumFunctionOnSet(G, S) <= SumFunctionOnSet(F, S)
    BY <1>1, SumMonotone
<1> QED BY <1>3, <1>4, <1>5

\* A sum of which one summand becomes larger.
LEMMA SumIncrease ==
    ASSUME NEW S, IsFiniteSet(S), NEW F, NEW G, Numbers(F, S), NEW y \in S, NEW n \in Nat,
           \A x \in S : G[x] = IF x = y THEN F[x] + n ELSE F[x]
    PROVE  SumFunctionOnSet(G, S) = SumFunctionOnSet(F, S) + n
<1>1. Numbers(G, S)
    BY DEF Numbers
<1>2. /\ SumFunctionOnSet(F, S) = F[y] + SumFunctionOnSet(F, S \ {y})
      /\ SumFunctionOnSet(F, S \ {y}) \in Nat /\ F[y] \in Nat
    BY SumProperties
<1>3. SumFunctionOnSet(G, S) = G[y] + SumFunctionOnSet(G, S \ {y})
    BY <1>1, SumProperties
<1>4. SumFunctionOnSet(F, S \ {y}) = SumFunctionOnSet(G, S \ {y})
    <2>1. IsFiniteSet(S \ {y}) /\ Numbers(F, S \ {y}) /\ \A x \in S \ {y} : G[x] = F[x]
        BY FS_RemoveElement DEF Numbers
    <2> QED BY <2>1, SumEqual
<1>5. G[y] = F[y] + n
    OBVIOUS
<1> QED BY <1>2, <1>3, <1>4, <1>5
=============================================================================
