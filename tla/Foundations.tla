----------------------------- MODULE Foundations -----------------------------
(* What the proofs of several components need of numbers, finite sets and     *)
(* sequences: extrema of sets, the existence of functions defined by recursion *)
(* in the form the provers can use, the concatenation of sequences, the ranks  *)
(* of the elements of a set, and how many places of a function have a value.   *)
EXTENDS Integers, Sequences, SequencesExt, SequenceTheorems, FiniteSets,
        FiniteSetTheorems, WellFoundedInduction, TLAPS

\* A non-empty set of naturals has a least element.
LEMMA NatMin ==
    ASSUME NEW T \in SUBSET Nat, T # {}
    PROVE  \E x \in T : \A y \in T : x <= y
<1> DEFINE R == {p \in Nat \X Nat : p[1] < p[2]}
<1>1. R = OpToRel(<, Nat)
  BY DEF OpToRel
<1>2. IsWellFoundedOn(R, Nat)
  BY <1>1, NatLessThanWellFounded
<1>3. PICK x \in T : \A y \in T : <<y, x>> \notin R
  <2> HIDE DEF R
  <2> QED BY <1>2, WFMin
<1>4. ASSUME NEW y \in T PROVE x <= y
  <2>1. <<y, x>> \notin R
    BY <1>3
  <2>2. x \in Nat /\ y \in Nat
    OBVIOUS
  <2>3. ~(y < x)
    BY <2>1, <2>2
  <2> QED BY <2>2, <2>3
<1> QED
  BY <1>4

\* A non-empty set of naturals up to n has a greatest element.
LEMMA NatMax ==
    ASSUME NEW n \in Nat, NEW T \in SUBSET (1..n), T # {}
    PROVE  \E x \in T : \A y \in T : y <= x
<1> DEFINE U == {n - x : x \in T}
<1>1. U \in SUBSET Nat
  <2>1. \A x \in T : n - x \in Nat
    BY SMT
  <2> QED BY <2>1
<1>2. U # {}
  OBVIOUS
<1>3. PICK u \in U : \A w \in U : u <= w
  <2> HIDE DEF U
  <2> QED BY <1>1, <1>2, NatMin
<1>4. PICK x \in T : u = n - x
  BY <1>3
<1>5. ASSUME NEW y \in T PROVE y <= x
  <2>1. n - y \in U
    OBVIOUS
  <2>2. n - x <= n - y
    BY <2>1, <1>3, <1>4
  <2>3. x \in 1..n /\ y \in 1..n
    OBVIOUS
  <2> HIDE DEF U
  <2> QED BY <2>2, <2>3
<1> QED
  BY <1>5

-----------------------------------------------------------------------------
(* Recursion over data: sub[n] is the set of the parts of n.                  *)

\* Data is finitely deep: every non-empty set of it has an element none of
\* whose parts is in the set.
Founded(N, sub) ==
    \A S \in SUBSET N : S # {} => \E n \in S : sub[n] \cap S = {}

\* g gives the value of n from n and the values of its parts, and f is what it
\* defines on D.
FromParts(N, V, sub, g) ==
    \A n \in N : \A e, f \in [N -> V] :
        (\A m \in sub[n] : e[m] = f[m]) => g[n][e] = g[n][f]
Defines(g, f, D) == \A n \in D : f[n] = g[n][f]
ClosedUnder(D, sub) == \A n \in D : sub[n] \subseteq D
Recursive(N, V, sub, g) ==
    /\ V # {} /\ sub \in [N -> SUBSET N] /\ Founded(N, sub)
    /\ g \in [N -> [[N -> V] -> V]] /\ FromParts(N, V, sub, g)

\* Functions that agree on data when they agree on its parts are the same.
LEMMA Agree ==
    ASSUME NEW N, NEW sub \in [N -> SUBSET N], Founded(N, sub), NEW e, NEW f,
           \A n \in N : (\A m \in sub[n] : e[m] = f[m]) => e[n] = f[n]
    PROVE  \A n \in N : e[n] = f[n]
<1> DEFINE S == {n \in N : e[n] # f[n]}
<1>1. SUFFICES ASSUME S # {} PROVE FALSE
  OBVIOUS
<1>2. PICK n \in S : sub[n] \cap S = {}
  BY <1>1 DEF Founded
<1>3. \A m \in sub[n] : m \in N
  BY <1>2
<1>4. \A m \in sub[n] : e[m] = f[m]
  BY <1>2, <1>3
<1> QED BY <1>2, <1>4

\* Two functions that g defines agree.
LEMMA DefinedOnce ==
    ASSUME NEW N, NEW V, NEW sub \in [N -> SUBSET N], Founded(N, sub),
           NEW g, FromParts(N, V, sub, g),
           NEW D \in SUBSET N, NEW e \in [N -> V], NEW f \in [N -> V],
           ClosedUnder(D, sub), Defines(g, e, D), Defines(g, f, D)
    PROVE  \A n \in D : e[n] = f[n]
<1> DEFINE S == {n \in D : e[n] # f[n]}
<1>1. SUFFICES ASSUME S # {} PROVE FALSE
  OBVIOUS
<1>2. PICK n \in S : sub[n] \cap S = {}
  BY <1>1 DEF Founded
<1>3. \A m \in sub[n] : e[m] = f[m]
  BY <1>2 DEF ClosedUnder
<1>4. g[n][e] = g[n][f]
  BY <1>2, <1>3 DEF FromParts
<1> QED BY <1>2, <1>4 DEF Defines

\* There is a function that g defines.
LEMMA Recursion ==
    ASSUME NEW N, NEW V, NEW sub, NEW g, Recursive(N, V, sub, g)
    PROVE  \E f \in [N -> V] : \A n \in N : f[n] = g[n][f]
<1> USE DEF Recursive
<1> DEFINE F == [N -> V]
           Piece(D, f) == ClosedUnder(D, sub) /\ Defines(g, f, D)
           Has(m, v) == \E D \in SUBSET N : \E f \in F : m \in D /\ Piece(D, f) /\ f[m] = v
           K == {m \in N : \E v \in V : Has(m, v)}
<1>1. PICK v0 \in V : TRUE
  OBVIOUS
<1> DEFINE h == [m \in N |-> IF m \in K THEN CHOOSE v \in V : Has(m, v) ELSE v0]
<1>2. ASSUME NEW D \in SUBSET N, NEW f \in F, NEW E \in SUBSET N, NEW e \in F,
             Piece(D, f), Piece(E, e), NEW m \in D \cap E
      PROVE  f[m] = e[m]
  <2> DEFINE C == D \cap E
  <2>1. ClosedUnder(C, sub) /\ Defines(g, f, C) /\ Defines(g, e, C) /\ C \in SUBSET N
    BY <1>2 DEF ClosedUnder, Defines
  <2> HIDE DEF C
  <2>2. \A n \in C : f[n] = e[n]
    BY <2>1, DefinedOnce
  <2> QED BY <2>2 DEF C
<1>3. h \in F
  OBVIOUS
<1>4. ASSUME NEW D \in SUBSET N, NEW f \in F, Piece(D, f), NEW m \in D
      PROVE  m \in K /\ h[m] = f[m]
  <2>1. f[m] \in V /\ Has(m, f[m])
    BY <1>4
  <2>2. m \in K
    BY <2>1
  <2>3. h[m] \in V /\ Has(m, h[m])
    <3> HIDE DEF Has
    <3> QED BY <2>2
  <2>4. PICK E \in SUBSET N, e \in F : m \in E /\ Piece(E, e) /\ e[m] = h[m]
    BY <2>3
  <2> HIDE DEF h, K, Has, Piece, F
  <2>5. f[m] = e[m]
    BY <1>2, <1>4, <2>4
  <2> QED BY <2>2, <2>4, <2>5
<1>5. ASSUME NEW m \in K
      PROVE  sub[m] \subseteq K /\ h[m] = g[m][h]
  <2>1. PICK D \in SUBSET N, f \in F : m \in D /\ Piece(D, f)
    BY <1>5
  <2>2. sub[m] \subseteq D /\ f[m] = g[m][f]
    BY <2>1 DEF ClosedUnder, Defines
  <2>3. \A n \in D : n \in K /\ h[n] = f[n]
    <3> HIDE DEF h, K, Piece, F
    <3> QED BY <1>4, <2>1
  <2>4. g[m][h] = g[m][f]
    <3>1. \A n \in sub[m] : h[n] = f[n]
      BY <2>2, <2>3
    <3>2. m \in N
      OBVIOUS
    <3> HIDE DEF h, K
    <3> QED BY <1>3, <2>1, <3>1, <3>2 DEF FromParts
  <2> HIDE DEF h, K, Piece
  <2> QED BY <2>1, <2>2, <2>3, <2>4
<1>6. K = N
  <2>1. SUFFICES ASSUME N \ K # {} PROVE FALSE
    BY Zenon
  <2> DEFINE S == N \ K
  <2>2. PICK m \in S : sub[m] \cap S = {}
    <3> HIDE DEF K
    <3> QED BY <2>1 DEF Founded
  <2> DEFINE D == K \cup {m}
             f == [h EXCEPT ![m] = g[m][h]]
  <2>3. D \in SUBSET N /\ m \in N /\ m \notin K
    BY <2>2
  <2>4. g[m][h] \in V
    <3>1. g[m] \in [[N -> V] -> V] /\ h \in [N -> V]
      BY <1>3, <2>3
    <3> HIDE DEF h
    <3> QED BY <3>1
  <2>5. f \in F /\ f[m] = g[m][h] /\ \A n \in N : n # m => f[n] = h[n]
    <3> HIDE DEF h
    <3> QED BY <1>3, <2>3, <2>4
  <2>6. sub[m] \subseteq K
    <3>1. sub[m] \subseteq N
      BY <2>3
    <3> HIDE DEF K
    <3> QED BY <2>2, <3>1
  <2> HIDE DEF h, f, K, F
  <2>7. \A n \in D : sub[n] \subseteq K
    BY <1>5, <2>6
  <2>8. ClosedUnder(D, sub)
    BY <2>7 DEF ClosedUnder
  <2>9. ASSUME NEW n \in D PROVE f[n] = g[n][f]
    <3>1. g[n][h] = g[n][f]
      <4>1. \A k \in sub[n] : h[k] = f[k]
        BY <2>3, <2>5, <2>7
      <4>2. n \in N
        BY <2>3
      <4>3. h \in [N -> V] /\ f \in [N -> V]
        BY <1>3, <2>5 DEF F
      <4> QED BY <4>1, <4>2, <4>3 DEF FromParts
    <3>2. CASE n = m
      BY <2>5, <3>1, <3>2
    <3>3. CASE n # m
      BY <1>5, <2>3, <2>5, <3>1, <3>3
    <3> QED BY <3>2, <3>3
  <2>10. Piece(D, f)
    BY <2>8, <2>9 DEF Defines
  <2>11. m \in K
    <3> HIDE DEF Piece
    <3> QED BY <1>4, <2>3, <2>5, <2>10
  <2> QED BY <2>3, <2>11
<1> HIDE DEF h, K, F
<1> QED BY <1>3, <1>5, <1>6 DEF F

-----------------------------------------------------------------------------
(* Concatenations.                                                          *)

\* The concatenation of the first k of n sequences, one at a time.
LEMMA Concatenation ==
    ASSUME NEW S, NEW n \in Nat, NEW h \in [1..n -> Seq(S)]
    PROVE  /\ FlattenSeq([i \in 1..0 |-> h[i]]) = <<>>
           /\ \A k \in 0..n : FlattenSeq([i \in 1..k |-> h[i]]) \in Seq(S)
           /\ \A k \in 1..n : FlattenSeq([i \in 1..k |-> h[i]])
                                = FlattenSeq([i \in 1..(k - 1) |-> h[i]]) \o h[k]
<1> DEFINE N == 1..n
           V == Seq(S)
           sub == [i \in N |-> {j \in N : j = i - 1}]
           g == [i \in N |-> [f \in [N -> V] |-> IF i = 1 THEN h[i] ELSE f[i - 1] \o h[i]]]
<1>1. sub \in [N -> SUBSET N] /\ V # {}
  <2>1. <<>> \in V
    OBVIOUS
  <2> QED BY <2>1
<1>2. Founded(N, sub)
  <2> SUFFICES ASSUME NEW T \in SUBSET N, T # {} PROVE \E i \in T : sub[i] \cap T = {}
    BY DEF Founded
  <2>1. PICK i \in T : \A j \in T : i <= j
    <3>1. T \in SUBSET Nat
      OBVIOUS
    <3> QED BY <3>1, NatMin
  <2>2. \A j \in sub[i] : j \notin T
    BY <2>1
  <2> QED BY <2>2
<1>3. \A i \in N : i # 1 => i - 1 \in N /\ i - 1 \in sub[i]
  OBVIOUS
<1>4. g \in [N -> [[N -> V] -> V]]
  <2>1. ASSUME NEW i \in N, NEW f \in [N -> V]
        PROVE  (IF i = 1 THEN h[i] ELSE f[i - 1] \o h[i]) \in V
    <3>1. CASE i = 1
      BY <3>1
    <3>2. CASE i # 1
      <4>1. f[i - 1] \in Seq(S) /\ h[i] \in Seq(S)
        BY <1>3, <3>2
      <4>2. f[i - 1] \o h[i] \in Seq(S)
        BY <4>1
      <4> QED BY <3>2, <4>2
    <3> QED BY <3>1, <3>2
  <2> QED BY <2>1
<1>5. FromParts(N, V, sub, g)
  <2> SUFFICES ASSUME NEW i \in N, NEW e \in [N -> V], NEW f \in [N -> V],
                      \A m \in sub[i] : e[m] = f[m]
               PROVE  g[i][e] = g[i][f]
    BY DEF FromParts
  <2>1. i # 1 => e[i - 1] = f[i - 1]
    BY <1>3
  <2> QED BY <2>1
<1>6. PICK F \in [N -> V] : \A i \in N : F[i] = IF i = 1 THEN h[i] ELSE F[i - 1] \o h[i]
  <2>1. PICK F \in [N -> V] : \A i \in N : F[i] = g[i][F]
    <3>1. Recursive(N, V, sub, g)
      <4> HIDE DEF N, V, sub, g
      <4> QED BY <1>1, <1>2, <1>4, <1>5 DEF Recursive
    <3> HIDE DEF N, V, sub, g
    <3> QED BY <3>1, Recursion
  <2> QED BY <2>1
<1> HIDE DEF sub, g
<1>7. ASSUME NEW k \in 1..n PROVE FlattenSeq([i \in 1..k |-> h[i]]) = F[k]
  <2> DEFINE s == [i \in 1..k |-> h[i]]
             Is(f) == f = [i \in 1..k |-> IF i = 1 THEN s[i] ELSE f[i - 1] \o s[i]]
             c == CHOOSE f : Is(f)
             r == [i \in 1..k |-> F[i]]
  <2>1. \A i \in 1..k : i \in N /\ s[i] = h[i] /\ (i # 1 => i - 1 \in 1..k)
    OBVIOUS
  <2>2. Is(r)
    <3>1. \A i \in 1..k : r[i] = IF i = 1 THEN s[i] ELSE r[i - 1] \o s[i]
      BY <1>6, <2>1
    <3> HIDE DEF s
    <3> QED BY <3>1
  <2>3. Is(c)
    <3> HIDE DEF Is, r
    <3> QED BY <2>2
  <2>4. \A i \in 1..k : c[i] = IF i = 1 THEN s[i] ELSE c[i - 1] \o s[i]
    <3> HIDE DEF c, s
    <3> QED BY <2>3
  <2>5. \A i \in 1..k : c[i] = F[i]
    <3> DEFINE B == {i \in 1..k : c[i] # F[i]}
    <3>1. SUFFICES ASSUME B # {} PROVE FALSE
      OBVIOUS
    <3>2. PICK i \in B : \A j \in B : i <= j
      <4> HIDE DEF c
      <4>1. B \in SUBSET Nat
        OBVIOUS
      <4> HIDE DEF B
      <4> QED BY <3>1, <4>1, NatMin
    <3> HIDE DEF c, s
    <3>3. i \in 1..k /\ c[i] # F[i]
      OBVIOUS
    <3>4. i # 1 => c[i - 1] = F[i - 1]
      <4>1. i # 1 => i - 1 \in 1..k /\ i - 1 \notin B
        BY <2>1, <3>2, <3>3
      <4> QED BY <4>1
    <3>5. c[i] = IF i = 1 THEN s[i] ELSE c[i - 1] \o s[i]
      BY <2>4, <3>3
    <3>6. F[i] = IF i = 1 THEN h[i] ELSE F[i - 1] \o h[i]
      BY <1>6, <2>1, <3>3
    <3> QED BY <2>1, <3>3, <3>4, <3>5, <3>6
  <2>6. Len(s) = k /\ k # 0
    OBVIOUS
  <2>7. FlattenSeq(s) = c[Len(s)]
    <3>1. FlattenSeq(s) = (CHOOSE f : f = [i \in 1..Len(s) |->
                              IF i = 1 THEN s[i] ELSE f[i - 1] \o s[i]])[Len(s)]
      <4> HIDE DEF s
      <4> QED BY <2>6 DEF FlattenSeq
    <3> HIDE DEF s
    <3> QED BY <2>6, <3>1
  <2>8. c[Len(s)] = F[k]
    <3> HIDE DEF c, s
    <3> QED BY <2>5, <2>6
  <2> QED BY <2>7, <2>8
<1>8. FlattenSeq([i \in 1..0 |-> h[i]]) = <<>>
  <2>1. [i \in 1..0 |-> h[i]] = <<>>
    OBVIOUS
  <2>2. FlattenSeq(<<>>) = <<>>
    BY DEF FlattenSeq
  <2> QED BY <2>1, <2>2
<1>9. ASSUME NEW k \in 0..n PROVE FlattenSeq([i \in 1..k |-> h[i]]) \in Seq(S)
  <2>1. CASE k = 0
    <3>1. <<>> \in Seq(S)
      OBVIOUS
    <3> QED BY <1>8, <2>1, <3>1
  <2>2. CASE k # 0
    <3>1. k \in 1..n
      BY <2>2
    <3>2. F[k] \in Seq(S)
      BY <3>1
    <3> QED BY <1>7, <3>1, <3>2
  <2> QED BY <2>1, <2>2
<1>10. ASSUME NEW k \in 1..n
       PROVE  FlattenSeq([i \in 1..k |-> h[i]]) = FlattenSeq([i \in 1..(k - 1) |-> h[i]]) \o h[k]
  <2>1. F[k] = IF k = 1 THEN h[k] ELSE F[k - 1] \o h[k]
    BY <1>6
  <2>2. CASE k = 1
    <3>1. FlattenSeq([i \in 1..(k - 1) |-> h[i]]) = <<>>
      BY <1>8, <2>2
    <3>2. h[k] \in Seq(S)
      OBVIOUS
    <3>3. <<>> \o h[k] = h[k]
      BY <3>2
    <3> QED BY <1>7, <2>1, <2>2, <3>1, <3>3
  <2>3. CASE k # 1
    <3>1. k - 1 \in 1..n
      BY <2>3
    <3> QED BY <1>7, <2>1, <2>3, <3>1
  <2> QED BY <2>2, <2>3
<1> QED BY <1>8, <1>9, <1>10

-----------------------------------------------------------------------------
(* Ranks.                                                                   *)

Rank(I, i) == Cardinality({j \in I : j < i})

\* The elements of a finite set of numbers have the ranks 0, 1, 2...
LEMMA Ranks ==
    ASSUME NEW I \in SUBSET Nat, IsFiniteSet(I)
    PROVE  /\ Cardinality(I) \in Nat
           /\ \A i \in I : Rank(I, i) \in 0..(Cardinality(I) - 1)
           /\ \A i, j \in I : Rank(I, i) = Rank(I, j) => i = j
           /\ \A k \in 0..(Cardinality(I) - 1) : \E i \in I : Rank(I, i) = k
<1> DEFINE n == Cardinality(I)
           Less(i) == {j \in I : j < i}
           rank == [i \in I |-> Rank(I, i)]
<1>1. n \in Nat
  BY FS_CardinalityType
<1>2. ASSUME NEW i \in I
      PROVE  /\ IsFiniteSet(Less(i)) /\ Rank(I, i) = Cardinality(Less(i))
             /\ Rank(I, i) \in 0..(n - 1)
  <2>1. Less(i) \in SUBSET I /\ i \notin Less(i)
    OBVIOUS
  <2> HIDE DEF Less
  <2>2. IsFiniteSet(Less(i)) /\ Cardinality(Less(i)) <= n /\ (n = Cardinality(Less(i)) => I = Less(i))
    BY <2>1, FS_Subset
  <2>3. Cardinality(Less(i)) \in Nat
    BY <2>2, FS_CardinalityType
  <2>4. Rank(I, i) = Cardinality(Less(i))
    BY DEF Rank, Less
  <2> HIDE DEF n
  <2> QED BY <1>1, <2>1, <2>2, <2>3, <2>4
<1>3. ASSUME NEW i \in I, NEW j \in I, i < j PROVE Rank(I, i) < Rank(I, j)
  <2>1. Less(i) \in SUBSET Less(j) /\ i \in Less(j) /\ i \notin Less(i)
    <3>1. \A h \in I : h < i => h < j
      <4>1. i \in Nat /\ j \in Nat /\ I \subseteq Nat
        OBVIOUS
      <4> QED BY <1>3, <4>1
    <3>2. ~(i < i)
      OBVIOUS
    <3> QED BY <1>3, <3>1, <3>2
  <2> HIDE DEF Less
  <2>2. /\ Cardinality(Less(i)) <= Cardinality(Less(j))
        /\ Cardinality(Less(j)) = Cardinality(Less(i)) => Less(i) = Less(j)
    BY <1>2, <2>1, FS_Subset
  <2> QED BY <1>1, <1>2, <2>1, <2>2
<1>4. \A i, j \in I : Rank(I, i) = Rank(I, j) => i = j
  <2> SUFFICES ASSUME NEW i \in I, NEW j \in I, Rank(I, i) = Rank(I, j), i # j PROVE FALSE
    OBVIOUS
  <2>1. Rank(I, i) \in Int /\ Rank(I, j) \in Int
    <3>1. Rank(I, i) \in 0..(n - 1) /\ Rank(I, j) \in 0..(n - 1)
      BY <1>2
    <3> HIDE DEF n
    <3> QED BY <1>1, <3>1
  <2>2. i < j \/ j < i
    OBVIOUS
  <2> QED BY <1>3, <2>1, <2>2
<1>5. \A k \in 0..(n - 1) : \E i \in I : Rank(I, i) = k
  <2> DEFINE N == 0..(n - 1)
  <2>1. IsFiniteSet(N) /\ Cardinality(N) = n
    <3> HIDE DEF n
    <3>1. 0 \in Int /\ n - 1 \in Int
      BY <1>1
    <3>2. Cardinality(N) = (IF 0 > n - 1 THEN 0 ELSE (n - 1) - 0 + 1) /\ IsFiniteSet(N)
      BY <3>1, FS_Interval
    <3> QED BY <1>1, <3>2
  <2>2. rank \in Injection(I, N)
    BY <1>2, <1>4 DEF Injection, IsInjective
  <2>3. rank \in Surjection(I, N)
    <3> HIDE DEF rank, N
    <3> QED BY <2>1, <2>2, FS_Injection
  <2> HIDE DEF N
  <2> QED BY <2>3 DEF Surjection, N
<1> QED BY <1>1, <1>2, <1>4, <1>5

-----------------------------------------------------------------------------
(* Counting: what changing a function in one place does to the number of the  *)
(* places that have a value, the arithmetic of reference counts.              *)

CountOf(S, f, x) == Cardinality({h \in S : f[h] = x})

\* The number is a natural number, and zero if no element has the value.
LEMMA CountType ==
    ASSUME NEW S, IsFiniteSet(S), NEW f, NEW x
    PROVE  /\ CountOf(S, f, x) \in Nat
           /\ CountOf(S, f, x) = 0 <=> \A h \in S : f[h] # x
<1> DEFINE T == {h \in S : f[h] = x}
<1>1. IsFiniteSet(T) BY FS_Subset
<1>2. Cardinality(T) \in Nat BY <1>1, FS_CardinalityType
<1>3. Cardinality(T) = 0 <=> T = {} BY <1>1, FS_EmptySet
<1>4. T = {} <=> \A h \in S : f[h] # x OBVIOUS
<1>5. QED BY <1>2, <1>3, <1>4 DEF CountOf

\* One place of the function is changed.
LEMMA CountMoved ==
    ASSUME NEW S, IsFiniteSet(S), NEW f, NEW g, NEW h \in S, NEW x,
           \A k \in S \ {h} : g[k] = f[k]
    PROVE  /\ (g[h] = x <=> f[h] = x) => CountOf(S, g, x) = CountOf(S, f, x)
           /\ g[h] = x /\ f[h] # x => CountOf(S, g, x) = CountOf(S, f, x) + 1
           /\ g[h] # x /\ f[h] = x => CountOf(S, g, x) = CountOf(S, f, x) - 1
<1> DEFINE T == {k \in S : f[k] = x}
           U == {k \in S : g[k] = x}
<1>1. IsFiniteSet(T) /\ IsFiniteSet(U) BY FS_Subset
<1>2. Cardinality(T) \in Nat /\ Cardinality(U) \in Nat BY <1>1, FS_CardinalityType
<1>3. CountOf(S, f, x) = Cardinality(T) /\ CountOf(S, g, x) = Cardinality(U)
  BY DEF CountOf
<1>4. CASE g[h] = x <=> f[h] = x
  <2>1. T = U BY <1>4
  <2>2. QED BY <2>1, <1>2, <1>3, <1>4
<1>5. CASE g[h] = x /\ f[h] # x
  <2>1. U = T \cup {h} BY <1>5
  <2>2. h \notin T BY <1>5
  <2>3. Cardinality(U) = Cardinality(T) + 1 BY <2>1, <2>2, <1>1, FS_AddElement
  <2>4. QED BY <2>3, <1>2, <1>3, <1>5
<1>6. CASE g[h] # x /\ f[h] = x
  <2>1. U = T \ {h} BY <1>6
  <2>2. h \in T BY <1>6
  <2>3. Cardinality(U) = Cardinality(T) - 1 BY <2>1, <2>2, <1>1, FS_RemoveElement
  <2>4. QED BY <2>3, <1>2, <1>3, <1>6
<1>7. QED BY <1>4, <1>5, <1>6

\* One if x is y, and one if x is an element of S: the changes of counts.
Is(x, y) == IF x = y THEN 1 ELSE 0
In(x, S) == IF x \in S THEN 1 ELSE 0

LEMMA IsType == \A x, y : Is(x, y) \in Nat
BY DEF Is

\* Two sets that differ in one element at most.
LEMMA SetMoved ==
    ASSUME NEW S, NEW T, IsFiniteSet(S), IsFiniteSet(T), NEW h, S \ {h} = T \ {h}
    PROVE  /\ Cardinality(T) + In(h, S) = Cardinality(S) + In(h, T)
           /\ Cardinality(S) \in Nat /\ Cardinality(T) \in Nat
<1>1. Cardinality(S) \in Nat /\ Cardinality(T) \in Nat BY FS_CardinalityType
<1>2. CASE h \in S <=> h \in T
  <2>1. S = T BY <1>2
  <2>2. QED BY <2>1, <1>1
<1>3. CASE h \in T /\ h \notin S
  <2>1. T = S \cup {h} BY <1>3
  <2>2. Cardinality(T) = Cardinality(S) + 1 BY <2>1, <1>3, FS_AddElement
  <2>3. QED BY <2>2, <1>1, <1>3 DEF In
<1>4. CASE h \in S /\ h \notin T
  <2>1. S = T \cup {h} BY <1>4
  <2>2. Cardinality(S) = Cardinality(T) + 1 BY <2>1, <1>4, FS_AddElement
  <2>3. QED BY <2>2, <1>1, <1>4 DEF In
<1>5. QED BY <1>2, <1>3, <1>4

\* A place of a function that gets another value.
LEMMA CountIs ==
    ASSUME NEW S, IsFiniteSet(S), NEW f, NEW g, NEW h \in S, NEW x,
           \A k \in S \ {h} : g[k] = f[k]
    PROVE  CountOf(S, g, x) + Is(x, f[h]) = CountOf(S, f, x) + Is(x, g[h])
<1> DEFINE T == {k \in S : f[k] = x}
           U == {k \in S : g[k] = x}
<1>1. IsFiniteSet(T) /\ IsFiniteSet(U) BY FS_Subset
<1>2. T \ {h} = U \ {h} OBVIOUS
<1>3. In(h, T) = Is(x, f[h]) /\ In(h, U) = Is(x, g[h]) BY DEF In, Is
<1> HIDE DEF T, U
<1>4. Cardinality(U) + In(h, T) = Cardinality(T) + In(h, U) BY <1>1, <1>2, SetMoved
<1>5. QED BY <1>3, <1>4 DEF CountOf, T, U
=============================================================================
