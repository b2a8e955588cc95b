-------------------------------- MODULE Sums --------------------------------
(***************************************************************************)
(* Facts about MapThenSumSet, for the models that count: hits of a window, *)
(* strikes of a log.  The community module defines the sum by recursion on *)
(* the set.  What a recursion computes for every set is a matter of        *)
(* induction, and the library's induction rules take a predicate as their  *)
(* parameter; SumIsCount argues by a least counterexample instead, whose   *)
(* existence NatLessThanWellFounded and WFMin give.  It equates the sum    *)
(* with the cardinality of a set of pairs; everything else follows from    *)
(* what is known of finite sets.                                           *)
(***************************************************************************)
EXTENDS FiniteSetsExt, FiniteSetTheorems, WellFoundedInduction, TLAPS

\* The sum of f over S, as the models write it.
SumOf(f, S) == MapThenSumSet(LAMBDA x : f[x], S)

\* What the sum counts: for each member of S as many pairs as f says.
Pairs(f, S) == UNION { {x} \X (1 .. f[x]) : x \in S }

LEMMA Strip ==
  ASSUME NEW x, NEW n \in Nat
  PROVE  IsFiniteSet({x} \X (1 .. n)) /\ Cardinality({x} \X (1 .. n)) = n
<1>1. IsFiniteSet({x}) /\ Cardinality({x}) = 1
  BY FS_Singleton
<1>2. IsFiniteSet(1 .. n) /\ Cardinality(1 .. n) = n
  BY FS_Interval
<1>3. IsFiniteSet({x} \X (1 .. n)) /\ Cardinality({x} \X (1 .. n)) = Cardinality({x}) * Cardinality(1 .. n)
  BY <1>1, <1>2, FS_Product
<1>4. 1 * n = n
  OBVIOUS
<1> QED BY <1>1, <1>2, <1>3, <1>4

LEMMA PairsFinite ==
  ASSUME NEW S, IsFiniteSet(S), NEW f, \A x \in S : f[x] \in Nat
  PROVE  IsFiniteSet(Pairs(f, S)) /\ Cardinality(Pairs(f, S)) \in Nat
<1> DEFINE P(x) == {x} \X (1 .. f[x])
           T == { P(x) : x \in S }
           strip == [x \in S |-> P(x)]
<1>1. \A x \in S : IsFiniteSet(P(x))
  BY Strip
<1>2. strip \in Surjection(S, T)
  BY DEF Surjection
<1>3. IsFiniteSet(T)
  BY <1>2, FS_Surjection
<1>4. IsFiniteSet(UNION T)
  BY <1>1, <1>3, FS_UNION
<1> QED BY <1>4, FS_CardinalityType DEF Pairs

LEMMA PairsEmpty ==
  ASSUME NEW f
  PROVE  Cardinality(Pairs(f, {})) = 0
<1>1. Pairs(f, {}) = {}
  BY DEF Pairs
<1> QED BY <1>1, FS_EmptySet

LEMMA PairsStep ==
  ASSUME NEW S, IsFiniteSet(S), NEW f, \A y \in S : f[y] \in Nat, NEW x \in S
  PROVE  Cardinality(Pairs(f, S)) = f[x] + Cardinality(Pairs(f, S \ {x}))
<1> DEFINE A == {x} \X (1 .. f[x])
           B == Pairs(f, S \ {x})
<1>1. Pairs(f, S) = A \cup B
  BY DEF Pairs
<1>2. A \cap B = {}
  BY DEF Pairs
<1>3. IsFiniteSet(B) /\ Cardinality(B) \in Nat
  <2>1. IsFiniteSet(S \ {x})
    BY FS_Difference
  <2> QED BY <2>1, PairsFinite
<1>4. IsFiniteSet(A) /\ Cardinality(A) = f[x] /\ f[x] \in Nat
  BY Strip
<1> HIDE DEF A, B
<1>5. Cardinality(A \cup B) = Cardinality(A) + Cardinality(B) - Cardinality(A \cap B)
  BY <1>3, <1>4, FS_Union
<1>6. Cardinality(A \cap B) = 0
  BY <1>2, FS_EmptySet
<1> QED BY <1>1, <1>3, <1>4, <1>5, <1>6 DEF B

\* The recursion in MapThenSumSet.
SumNext(f, s, it) == IF s = {} THEN 0 ELSE f[CHOOSE x \in s : TRUE] + it[s \ {CHOOSE x \in s : TRUE}]

\* MapThenSumSet takes some function that satisfies the recursion, if there is one.
LEMMA SumUnfolds ==
  ASSUME NEW f, NEW S, NEW g, g = [s \in SUBSET S |-> SumNext(f, s, g)]
  PROVE  \E it : it = [s \in SUBSET S |-> SumNext(f, s, it)] /\ SumOf(f, S) = it[S]
<1> DEFINE it == CHOOSE it : it = [s \in SUBSET S |-> SumNext(f, s, it)]
<1>1. it = [s \in SUBSET S |-> SumNext(f, s, it)]
  OBVIOUS
<1>2. SumOf(f, S) = it[S]
  BY DEF SumOf, MapThenSumSet, MapThenFoldSet, SumNext
<1> QED BY <1>1, <1>2

\* A smallest set whose sum is not the number of its pairs cannot exist.
LEMMA SumIsCount ==
  ASSUME NEW S, IsFiniteSet(S), NEW f, \A x \in S : f[x] \in Nat
  PROVE  SumOf(f, S) = Cardinality(Pairs(f, S))
<1> DEFINE C(s) == Cardinality(Pairs(f, s))
           g == [s \in SUBSET S |-> C(s)]
<1>f. \A s \in SUBSET S : IsFiniteSet(s) /\ Cardinality(s) \in Nat
  BY FS_Subset, FS_CardinalityType
<1>1. \A s \in SUBSET S : s # {} =>
        C(s) = f[CHOOSE x \in s : TRUE] + C(s \ {CHOOSE x \in s : TRUE})
  <2> SUFFICES ASSUME NEW s \in SUBSET S, s # {}
               PROVE  C(s) = f[CHOOSE x \in s : TRUE] + C(s \ {CHOOSE x \in s : TRUE})
    OBVIOUS
  <2>1. IsFiniteSet(s) /\ (CHOOSE x \in s : TRUE) \in s /\ \A y \in s : f[y] \in Nat
    BY <1>f
  <2> QED BY <2>1, PairsStep
<1>2. C({}) = 0
  BY PairsEmpty
<1> HIDE DEF C
<1>3. g = [s \in SUBSET S |-> SumNext(f, s, g)]
  <2>1. \A s \in SUBSET S : g[s] = SumNext(f, s, g)
    <3> SUFFICES ASSUME NEW s \in SUBSET S PROVE C(s) = SumNext(f, s, g)
      OBVIOUS
    <3>1. s \ {CHOOSE x \in s : TRUE} \in SUBSET S
      OBVIOUS
    <3> QED BY <1>1, <1>2, <3>1 DEF SumNext
  <2> QED BY <2>1
<1>4. PICK it : it = [s \in SUBSET S |-> SumNext(f, s, it)] /\ SumOf(f, S) = it[S]
  BY <1>3, SumUnfolds
<1> DEFINE Bad == { n \in Nat : \E s \in SUBSET S : Cardinality(s) = n /\ it[s] # C(s) }
<1>5. Bad = {}
  <2> SUFFICES ASSUME Bad # {} PROVE FALSE
    OBVIOUS
  <2>1. PICK n \in Bad : \A m \in Bad : ~(m < n)
    <3>1. Bad \subseteq Nat
      OBVIOUS
    <3> HIDE DEF Bad
    <3>2. \E n \in Bad : \A m \in Bad : ~(<<m, n>> \in OpToRel(<, Nat))
      BY <3>1, NatLessThanWellFounded, WFMin
    <3> QED BY <3>1, <3>2 DEF OpToRel
  <2>2. PICK s \in SUBSET S : Cardinality(s) = n /\ it[s] # C(s)
    OBVIOUS
  <2>3. it[s] = SumNext(f, s, it)
    BY <1>4
  <2>4. s # {}
    BY <1>2, <2>2, <2>3 DEF SumNext
  <2> DEFINE x == CHOOSE x \in s : TRUE
             r == s \ {x}
  <2>5. x \in s /\ it[s] = f[x] + it[r] /\ C(s) = f[x] + C(r)
    BY <1>1, <2>3, <2>4 DEF SumNext
  <2> HIDE DEF x
  <2>6. Cardinality(r) = n - 1 /\ r \in SUBSET S /\ n \in Nat
    BY <1>f, <2>2, <2>5, FS_RemoveElement
  <2>7. Cardinality(r) \in Nat
    BY <1>f, <2>6
  <2>8. it[r] # C(r)
    BY <2>2, <2>5
  <2>9. Cardinality(r) \in Bad
    BY <2>6, <2>7, <2>8
  <2>10. ~(Cardinality(r) < n)
    BY <2>1, <2>9
  <2> QED BY <2>6, <2>10
<1>6. it[S] = C(S)
  <2>1. Cardinality(S) \in Nat
    BY <1>f
  <2> QED BY <1>5, <2>1
<1> QED BY <1>4, <1>6 DEF C

\* Whatever is matched one to one with something no smaller sums to no more.
LEMMA SumMatched ==
  ASSUME NEW S, NEW T, IsFiniteSet(S), IsFiniteSet(T), NEW f, NEW g,
         \A x \in S : f[x] \in Nat, \A y \in T : g[y] \in Nat,
         NEW m, \A x \in S : f[x] > 0 => m[x] \in T /\ f[x] <= g[m[x]],
         \A x, y \in S : f[x] > 0 /\ f[y] > 0 /\ m[x] = m[y] => x = y
  PROVE  SumOf(f, S) <= SumOf(g, T) /\ SumOf(f, S) \in Nat /\ SumOf(g, T) \in Nat
<1> DEFINE A == Pairs(f, S)
           B == Pairs(g, T)
           move == [p \in A |-> <<m[p[1]], p[2]>>]
<1>1. /\ IsFiniteSet(B) /\ Cardinality(A) \in Nat /\ Cardinality(B) \in Nat
      /\ SumOf(f, S) = Cardinality(A) /\ SumOf(g, T) = Cardinality(B)
  BY PairsFinite, SumIsCount
<1>2. \A p \in A : /\ p = <<p[1], p[2]>> /\ p[1] \in S /\ p[2] \in 1 .. f[p[1]] /\ f[p[1]] > 0
                   /\ p[2] \in 1 .. g[m[p[1]]] /\ m[p[1]] \in T
  <2> SUFFICES ASSUME NEW x \in S, NEW n \in 1 .. f[x]
               PROVE  f[x] > 0 /\ n \in 1 .. g[m[x]] /\ m[x] \in T
    BY DEF Pairs
  <2>1. f[x] \in Nat /\ f[x] > 0
    OBVIOUS
  <2>2. m[x] \in T /\ f[x] <= g[m[x]] /\ g[m[x]] \in Nat
    BY <2>1
  <2> QED BY <2>1, <2>2
<1>3. move \in [A -> B]
  BY <1>2 DEF Pairs
<1>4. \A p, q \in A : move[p] = move[q] => p = q
  BY <1>2
<1>5. move \in Injection(A, B)
  BY <1>3, <1>4 DEF Injection, IsInjective
<1> QED BY <1>1, <1>5, FS_Injection

\* A sum of naturals is one.
LEMMA SumTyped ==
  ASSUME NEW S, IsFiniteSet(S), NEW f, \A x \in S : f[x] \in Nat
  PROVE  SumOf(f, S) \in Nat
  BY SumIsCount, PairsFinite

\* A larger set, or larger terms, give no smaller sum.
LEMMA SumGrows ==
  ASSUME NEW S, NEW T, IsFiniteSet(T), NEW f, NEW g, S \subseteq T,
         \A x \in S : f[x] \in Nat /\ f[x] <= g[x], \A y \in T : g[y] \in Nat
  PROVE  SumOf(f, S) <= SumOf(g, T) /\ SumOf(f, S) \in Nat /\ SumOf(g, T) \in Nat
<1>1. IsFiniteSet(S)
  BY FS_Subset
<1> DEFINE same == [x \in S |-> x]
<1>2. \A x \in S : same[x] = x
  OBVIOUS
<1> HIDE DEF same
<1> QED BY <1>1, <1>2, SumMatched

\* Only what is not zero counts.
LEMMA SumSame ==
  ASSUME NEW S, NEW T, IsFiniteSet(S), IsFiniteSet(T), NEW f, NEW g,
         \A x \in S : f[x] \in Nat, \A y \in T : g[y] \in Nat,
         \A x \in S : f[x] > 0 => x \in T /\ g[x] = f[x],
         \A y \in T : g[y] > 0 => y \in S /\ f[y] = g[y]
  PROVE  SumOf(f, S) = SumOf(g, T)
<1>1. Pairs(f, S) = Pairs(g, T)
  <2>1. ASSUME NEW x \in S, NEW n \in 1 .. f[x] PROVE x \in T /\ n \in 1 .. g[x]
    <3>1. f[x] \in Nat /\ f[x] > 0
      OBVIOUS
    <3> QED BY <3>1
  <2>2. ASSUME NEW y \in T, NEW n \in 1 .. g[y] PROVE y \in S /\ n \in 1 .. f[y]
    <3>1. g[y] \in Nat /\ g[y] > 0
      OBVIOUS
    <3> QED BY <3>1
  <2> QED BY <2>1, <2>2 DEF Pairs
<1> QED BY <1>1, SumIsCount

\* One member set apart.
LEMMA SumWith ==
  ASSUME NEW S, IsFiniteSet(S), NEW f, \A y \in S : f[y] \in Nat, NEW x \in S
  PROVE  SumOf(f, S) = f[x] + SumOf(f, S \ {x}) /\ SumOf(f, S \ {x}) \in Nat
<1>1. IsFiniteSet(S \ {x})
  BY FS_Difference
<1>2. SumOf(f, S \ {x}) = Cardinality(Pairs(f, S \ {x})) /\ Cardinality(Pairs(f, S \ {x})) \in Nat
  BY <1>1, SumIsCount, PairsFinite
<1>3. SumOf(f, S) = Cardinality(Pairs(f, S))
  BY SumIsCount
<1> QED BY <1>2, <1>3, PairsStep

\* One member of the sum grows.
LEMMA SumBumped ==
  ASSUME NEW S, IsFiniteSet(S), NEW f, NEW g, NEW x \in S, NEW n \in Nat,
         \A y \in S : f[y] \in Nat, g[x] = f[x] + n, \A y \in S \ {x} : g[y] = f[y]
  PROVE  SumOf(g, S) = SumOf(f, S) + n /\ SumOf(f, S) \in Nat
<1>1. IsFiniteSet(S \ {x}) /\ \A y \in S : f[y] \in Nat /\ g[y] \in Nat
  <2>1. \A y \in S : g[y] \in Nat
    OBVIOUS
  <2> QED BY <2>1, FS_Difference
<1>2. SumOf(f, S) = f[x] + SumOf(f, S \ {x}) /\ SumOf(f, S \ {x}) \in Nat
  BY <1>1, SumWith
<1>3. SumOf(g, S) = g[x] + SumOf(g, S \ {x})
  BY <1>1, SumWith
<1>4. SumOf(g, S \ {x}) = SumOf(f, S \ {x})
  BY <1>1, SumSame
<1>5. g[x] = f[x] + n /\ f[x] \in Nat
  OBVIOUS
<1> QED BY <1>2, <1>3, <1>4, <1>5

\* Shares of a sum taken from disjoint parts of it.
LEMMA SumParted ==
  ASSUME NEW S, NEW T, IsFiniteSet(S), IsFiniteSet(T), NEW f, NEW g,
         \A x \in S : f[x] \in Nat, \A y \in T : g[y] \in Nat,
         NEW part, \A x \in S : part[x] \subseteq T /\ f[x] <= SumOf(g, part[x]),
         \A x, y \in S : x # y => part[x] \cap part[y] = {}
  PROVE  SumOf(f, S) <= SumOf(g, T) /\ SumOf(f, S) \in Nat /\ SumOf(g, T) \in Nat
<1> DEFINE A == Pairs(f, S)
           B == Pairs(g, T)
           Places(x, e) == /\ \A i \in 1 .. f[x] : e[i] \in Pairs(g, part[x])
                           /\ \A i, j \in 1 .. f[x] : e[i] = e[j] => i = j
           at == [x \in S |-> CHOOSE e : Places(x, e)]
           move == [p \in A |-> at[p[1]][p[2]]]
<1>1. /\ IsFiniteSet(B) /\ Cardinality(A) \in Nat /\ Cardinality(B) \in Nat
      /\ SumOf(f, S) = Cardinality(A) /\ SumOf(g, T) = Cardinality(B)
  BY PairsFinite, SumIsCount
<1>2. ASSUME NEW x \in S PROVE \E e : Places(x, e)
  <2> DEFINE Q == Pairs(g, part[x])
  <2>1. IsFiniteSet(part[x]) /\ \A y \in part[x] : g[y] \in Nat
    BY FS_Subset
  <2>2. IsFiniteSet(Q) /\ Cardinality(Q) \in Nat /\ SumOf(g, part[x]) = Cardinality(Q)
    BY <2>1, PairsFinite, SumIsCount
  <2> HIDE DEF Q
  <2>3. PICK e : e \in Bijection(1 .. Cardinality(Q), Q)
    BY <2>2, FS_CardinalityType DEF ExistsBijection
  <2>4. /\ \A i \in 1 .. Cardinality(Q) : e[i] \in Q
        /\ \A i, j \in 1 .. Cardinality(Q) : e[i] = e[j] => i = j
    BY <2>3 DEF Bijection, Injection, Surjection, IsInjective
  <2>5. \A i \in 1 .. f[x] : i \in 1 .. Cardinality(Q)
    BY <2>2
  <2>6. Places(x, e)
    BY <2>4, <2>5 DEF Q
  <2> HIDE DEF Places
  <2> QED BY <2>6
<1>3. \A x \in S : Places(x, at[x])
  <2> HIDE DEF Places
  <2> QED BY <1>2
<1>4. \A p \in A : p = <<p[1], p[2]>> /\ p[1] \in S /\ p[2] \in 1 .. f[p[1]]
  BY DEF Pairs
<1> HIDE DEF at
<1>5. \A p \in A : move[p] \in Pairs(g, part[p[1]])
  BY <1>3, <1>4
<1>6. ASSUME NEW x \in S, NEW q \in Pairs(g, part[x]) PROVE q \in B /\ q[1] \in part[x]
  BY <1>6 DEF Pairs
<1>7. move \in [A -> B]
  <2>1. \A p \in A : move[p] \in B
    BY <1>4, <1>5, <1>6
  <2> HIDE DEF A, B
  <2> QED BY <2>1
<1>8. ASSUME NEW p \in A, NEW q \in A, move[p] = move[q] PROVE p = q
  <2>1. p[1] = q[1]
    <3>1. move[p][1] \in part[p[1]] /\ move[q][1] \in part[q[1]]
      BY <1>4, <1>5, <1>6
    <3> HIDE DEF move, A
    <3> QED BY <1>4, <1>8, <3>1
  <2>2. at[p[1]][p[2]] = at[p[1]][q[2]] /\ p[2] \in 1 .. f[p[1]] /\ q[2] \in 1 .. f[p[1]]
    BY <1>4, <1>8, <2>1
  <2>3. p[2] = q[2]
    BY <1>3, <1>4, <2>2
  <2> QED BY <1>4, <2>1, <2>3
<1>9. move \in Injection(A, B)
  BY <1>7, <1>8 DEF Injection, IsInjective
<1> QED BY <1>1, <1>9, FS_Injection
=============================================================================
