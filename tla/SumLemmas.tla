------------------------------ MODULE SumLemmas ------------------------------
(***************************************************************************)
(* The laws of SumOver the ledger proofs rest on: a sum is a natural       *)
(* number, it depends only on the summands, it grows with its index set,   *)
(* a new index adds exactly its own summand, disjoint sums add up, a       *)
(* renumbering changes nothing, and a table has one sum by rows and by     *)
(* columns.                                                                *)
(***************************************************************************)
EXTENDS Sums, FiniteSetTheorems, TLAPS

\* The units of a finite index set are finitely many.
LEMMA UnitsFinite ==
  ASSUME NEW S, IsFiniteSet(S), NEW f, \A x \in S : f[x] \in Nat
  PROVE  IsFiniteSet(Units(f, S))
<1> DEFINE block(x) == {x} \X (1 .. f[x])
           blocks == {block(x) : x \in S}
           asFunction == [x \in S |-> block(x)]
<1>1. asFunction \in Surjection(S, blocks)
  BY DEF Surjection
<1>2. IsFiniteSet(blocks)
  BY <1>1, FS_Surjection
<1>3. ASSUME NEW x \in S PROVE IsFiniteSet(block(x))
  <2>1. IsFiniteSet({x})
    BY FS_Singleton
  <2>2. IsFiniteSet(1 .. f[x])
    BY FS_Interval
  <2> QED
    BY <2>1, <2>2, FS_Product
<1>4. IsFiniteSet(UNION blocks)
  BY <1>2, <1>3, FS_UNION
<1> QED
  BY <1>4 DEF Units

\* A sum of naturals over a finite set is a natural number.
LEMMA SumNat ==
  ASSUME NEW S, IsFiniteSet(S), NEW f, \A x \in S : f[x] \in Nat
  PROVE  SumOver(f, S) \in Nat
BY UnitsFinite, FS_CardinalityType DEF SumOver

\* A sum over no index is zero.
LEMMA SumEmpty ==
  ASSUME NEW f
  PROVE  SumOver(f, {}) = 0
<1>1. Units(f, {}) = {}
  BY DEF Units
<1> QED
  BY <1>1, FS_EmptySet, Zenon DEF SumOver

\* A sum depends on the summands only.
LEMMA SumAgree ==
  ASSUME NEW S, NEW f, NEW g, \A x \in S : f[x] = g[x]
  PROVE  SumOver(f, S) = SumOver(g, S)
<1>1. {{x} \X (1 .. f[x]) : x \in S} = {{x} \X (1 .. g[x]) : x \in S}
  OBVIOUS
<1> QED
  BY <1>1 DEF SumOver, Units

\* A sum over fewer indices is no larger.
LEMMA SumSubset ==
  ASSUME NEW S, IsFiniteSet(S), NEW T \in SUBSET S,
         NEW f, \A x \in S : f[x] \in Nat
  PROVE  SumOver(f, T) <= SumOver(f, S)
<1>1. IsFiniteSet(Units(f, S))
  BY UnitsFinite
<1>2. Units(f, T) \subseteq Units(f, S)
  BY DEF Units
<1> QED
  BY <1>1, <1>2, FS_Subset DEF SumOver

\* The units of one index number exactly its summand.
LEMMA BlockSize ==
  ASSUME NEW x, NEW n \in Nat
  PROVE  /\ IsFiniteSet({x} \X (1 .. n))
         /\ Cardinality({x} \X (1 .. n)) = n
<1>1. IsFiniteSet({x}) /\ Cardinality({x}) = 1
  BY FS_Singleton
<1>2. IsFiniteSet(1 .. n) /\ Cardinality(1 .. n) = n
  BY FS_Interval
<1>3. /\ IsFiniteSet({x} \X (1 .. n))
      /\ Cardinality({x} \X (1 .. n)) = Cardinality({x}) * Cardinality(1 .. n)
  BY <1>1, <1>2, FS_Product
<1> QED
  BY <1>1, <1>2, <1>3

\* A new index adds exactly its own summand.
LEMMA SumAdd ==
  ASSUME NEW S, IsFiniteSet(S), NEW x, x \notin S,
         NEW f, \A y \in S \cup {x} : f[y] \in Nat
  PROVE  SumOver(f, S \cup {x}) = SumOver(f, S) + f[x]
<1> DEFINE block == {x} \X (1 .. f[x])
<1>1. IsFiniteSet(Units(f, S))
  BY UnitsFinite
<1>2. IsFiniteSet(block) /\ Cardinality(block) = f[x]
  BY BlockSize
<1>3. Units(f, S \cup {x}) = Units(f, S) \cup block
  BY DEF Units
<1>4. Cardinality(Units(f, S) \cap block) = 0
  <2>1. Units(f, S) \cap block = {}
    BY DEF Units
  <2> QED
    BY <2>1, FS_EmptySet, Zenon
<1>5. Cardinality(Units(f, S) \cup block)
        = Cardinality(Units(f, S)) + Cardinality(block)
            - Cardinality(Units(f, S) \cap block)
  BY <1>1, <1>2, FS_Union
<1>6. Cardinality(Units(f, S)) \in Nat /\ f[x] \in Nat
  BY <1>1, FS_CardinalityType
<1>7. SumOver(f, S \cup {x}) = Cardinality(Units(f, S) \cup block)
  BY <1>3, Zenon DEF SumOver
<1>8. SumOver(f, S) = Cardinality(Units(f, S))
  BY DEF SumOver
<1> HIDE DEF block
<1> QED
  BY <1>2, <1>4, <1>5, <1>6, <1>7, <1>8
\* Two sums over disjoint indices make one.
LEMMA SumUnion ==
  ASSUME NEW S, IsFiniteSet(S), NEW T, IsFiniteSet(T), S \cap T = {},
         NEW f, \A x \in S \cup T : f[x] \in Nat
  PROVE  SumOver(f, S \cup T) = SumOver(f, S) + SumOver(f, T)
<1>1. /\ IsFiniteSet(Units(f, S)) /\ Cardinality(Units(f, S)) \in Nat
      /\ IsFiniteSet(Units(f, T)) /\ Cardinality(Units(f, T)) \in Nat
  BY UnitsFinite, FS_CardinalityType
<1>2. Units(f, S \cup T) = Units(f, S) \cup Units(f, T)
  BY DEF Units
<1>3. Units(f, S) \cap Units(f, T) = {}
  BY DEF Units
<1>4. Cardinality(Units(f, S) \cup Units(f, T))
        = Cardinality(Units(f, S)) + Cardinality(Units(f, T))
            - Cardinality(Units(f, S) \cap Units(f, T))
  BY <1>1, FS_Union
<1>5. Cardinality(Units(f, S) \cap Units(f, T)) = 0
  BY <1>3, FS_EmptySet, Zenon
<1>6. /\ SumOver(f, S \cup T) = Cardinality(Units(f, S) \cup Units(f, T))
      /\ SumOver(f, S) = Cardinality(Units(f, S))
      /\ SumOver(f, T) = Cardinality(Units(f, T))
  BY <1>2, Zenon DEF SumOver
<1> QED
  BY <1>1, <1>4, <1>5, <1>6

\* g on T is f on S with every index k lower.
Shifted(k, S, T, f, g) ==
  /\ \A i \in Nat : i \in T <=> i + k \in S
  /\ \A i \in S : i >= k /\ f[i] \in Nat
  /\ \A i \in T : g[i] = f[i + k]

\* Renumbering the indices changes no sum.
LEMMA SumShift ==
  ASSUME NEW k \in Nat, NEW S \in SUBSET Nat, IsFiniteSet(S), NEW T \in SUBSET Nat,
         NEW f, NEW g, Shifted(k, S, T, f, g)
  PROVE  SumOver(g, T) = SumOver(f, S)
<1> USE DEF Shifted
<1> DEFINE back == [u \in Units(f, S) |-> <<u[1] - k, u[2]>>]
<1>1. ASSUME NEW u \in Units(f, S)
      PROVE  /\ u = <<u[1], u[2]>> /\ u[1] \in S /\ u[2] \in 1 .. f[u[1]]
             /\ back[u] \in Units(g, T)
  <2>1. /\ u = <<u[1], u[2]>> /\ u[1] \in S /\ u[2] \in 1 .. f[u[1]]
    BY DEF Units
  <2>2. /\ u[1] - k \in Nat /\ u[1] - k \in T /\ g[u[1] - k] = f[u[1]]
    <3>1. u[1] \in Nat /\ u[1] >= k
      BY <2>1
    <3>2. u[1] - k \in Nat /\ (u[1] - k) + k = u[1]
      BY <3>1
    <3> QED
      BY <2>1, <3>2
  <2>3. <<u[1] - k, u[2]>> \in {u[1] - k} \X (1 .. g[u[1] - k])
    BY <2>1, <2>2
  <2> QED
    BY <2>1, <2>2, <2>3 DEF Units
<1>2. back \in [Units(f, S) -> Units(g, T)]
  BY <1>1
<1>3. ASSUME NEW u \in Units(f, S), NEW v \in Units(f, S), back[u] = back[v]
      PROVE  u = v
  <2>1. u[1] - k = v[1] - k /\ u[2] = v[2]
    BY <1>3
  <2>2. u[1] \in Nat /\ v[1] \in Nat
    BY <1>1
  <2>3. u[1] = v[1]
    BY <2>1, <2>2
  <2>4. u = <<u[1], u[2]>> /\ v = <<v[1], v[2]>>
    BY <1>1
  <2> HIDE DEF back
  <2> QED
    BY <2>1, <2>3, <2>4, Zenon
<1>4. ASSUME NEW v \in Units(g, T) PROVE \E u \in Units(f, S) : back[u] = v
  <2>1. /\ v = <<v[1], v[2]>> /\ v[1] \in T /\ v[2] \in 1 .. g[v[1]]
    BY DEF Units
  <2>2. v[1] \in Nat /\ v[1] + k \in S /\ g[v[1]] = f[v[1] + k]
    BY <2>1
  <2>3. <<v[1] + k, v[2]>> \in {v[1] + k} \X (1 .. f[v[1] + k])
    BY <2>1, <2>2
  <2>4. <<v[1] + k, v[2]>> \in Units(f, S)
    BY <2>2, <2>3 DEF Units
  <2>5. (v[1] + k) - k = v[1]
    BY <2>2
  <2> QED
    BY <2>1, <2>4, <2>5
<1> HIDE DEF back
<1>5. back \in Bijection(Units(f, S), Units(g, T))
  <2>1. back \in Injection(Units(f, S), Units(g, T))
    BY <1>2, <1>3 DEF Injection, IsInjective
  <2>2. back \in Surjection(Units(f, S), Units(g, T))
    BY <1>2, <1>4 DEF Surjection
  <2> QED
    BY <2>1, <2>2 DEF Bijection
<1>6. IsFiniteSet(Units(f, S))
  BY UnitsFinite
<1>7. ExistsBijection(Units(f, S), Units(g, T))
  BY <1>5 DEF ExistsBijection
<1>8. Cardinality(Units(g, T)) = Cardinality(Units(f, S))
  BY <1>6, <1>7, FS_Bijection
<1> QED
  BY <1>8 DEF SumOver

\* What a sum gains is what its one changed summand gains.
LEMMA SumPut ==
  ASSUME NEW S, IsFiniteSet(S), NEW x \in S, NEW f, NEW g,
         \A y \in S : f[y] \in Nat /\ g[y] \in Nat,
         \A y \in S \ {x} : f[y] = g[y]
  PROVE  SumOver(g, S) + f[x] = SumOver(f, S) + g[x]
<1> DEFINE rest == S \ {x}
<1>1. IsFiniteSet(rest) /\ x \notin rest /\ S = rest \cup {x}
  BY FS_RemoveElement
<1>2. SumOver(f, rest) = SumOver(g, rest)
  BY SumAgree
<1>3. SumOver(f, S) = SumOver(f, rest) + f[x]
  BY <1>1, SumAdd, Zenon
<1>4. SumOver(g, S) = SumOver(g, rest) + g[x]
  BY <1>1, SumAdd, Zenon
<1>5. SumOver(f, rest) \in Nat
  BY <1>1, SumNat
<1> HIDE DEF rest
<1> QED
  BY <1>2, <1>3, <1>4, <1>5

\* Indices that contribute nothing may be left out of a sum.
LEMMA SumSkip ==
  ASSUME NEW S, NEW T \in SUBSET S, NEW f, NEW g,
         \A x \in T : g[x] = f[x], \A x \in S \ T : g[x] = 0
  PROVE  SumOver(g, S) = SumOver(f, T)
<1>1. \A x \in S \ T : 1 .. g[x] = {}
  OBVIOUS
<1>2. Units(g, S) = Units(f, T)
  BY <1>1 DEF Units
<1> QED
  BY <1>2 DEF SumOver

\* The sum of two summands is the sum of the sums.
LEMMA SumPlus ==
  ASSUME NEW S, IsFiniteSet(S), NEW f, NEW g, NEW h,
         \A x \in S : f[x] \in Nat /\ g[x] \in Nat /\ h[x] = f[x] + g[x]
  PROVE  SumOver(h, S) = SumOver(f, S) + SumOver(g, S)
<1> DEFINE T == {u \in Units(h, S) : u[2] > f[u[1]]}
           down == [u \in T |-> <<u[1], u[2] - f[u[1]]>>]
<1>1. ASSUME NEW k, NEW u
      PROVE  u \in Units(k, S) <=> u = <<u[1], u[2]>> /\ u[1] \in S /\ u[2] \in 1 .. k[u[1]]
  BY DEF Units
<1>2. /\ IsFiniteSet(Units(h, S)) /\ IsFiniteSet(Units(f, S)) /\ IsFiniteSet(Units(g, S))
  BY UnitsFinite
<1>3. T \subseteq Units(h, S) /\ IsFiniteSet(T)
  BY <1>2, FS_Subset
<1>4. Units(h, S) = Units(f, S) \cup T /\ Units(f, S) \cap T = {}
  BY <1>1
<1>5. ASSUME NEW u \in T PROVE down[u] \in Units(g, S)
  <2>1. /\ u = <<u[1], u[2]>> /\ u[1] \in S /\ u[2] \in 1 .. h[u[1]] /\ u[2] > f[u[1]]
    BY <1>1
  <2>2. u[2] - f[u[1]] \in 1 .. g[u[1]]
    BY <2>1
  <2>3. <<u[1], u[2] - f[u[1]]>> \in Units(g, S)
    BY <2>1, <2>2 DEF Units
  <2> QED
    BY <2>3
<1>6. ASSUME NEW u \in T, NEW v \in T, down[u] = down[v] PROVE u = v
  <2>1. u[1] = v[1] /\ u[2] - f[u[1]] = v[2] - f[v[1]]
    BY <1>6
  <2>2. /\ u = <<u[1], u[2]>> /\ v = <<v[1], v[2]>>
        /\ u[1] \in S /\ u[2] \in Nat /\ v[2] \in Nat
    BY <1>1
  <2>3. u[2] = v[2]
    BY <2>1, <2>2
  <2> HIDE DEF down, T
  <2> QED
    BY <2>1, <2>2, <2>3, Zenon
<1>7. ASSUME NEW v \in Units(g, S) PROVE \E u \in T : down[u] = v
  <2>1. v = <<v[1], v[2]>> /\ v[1] \in S /\ v[2] \in 1 .. g[v[1]]
    BY <1>1
  <2> DEFINE u == <<v[1], v[2] + f[v[1]]>>
  <2>2. u[1] = v[1] /\ u[2] = v[2] + f[v[1]]
    OBVIOUS
  <2>3. u[2] \in 1 .. h[v[1]] /\ u[2] > f[v[1]] /\ u[2] - f[v[1]] = v[2]
    BY <2>1, <2>2
  <2>4. u \in Units(h, S)
    BY <2>1, <2>2, <2>3 DEF Units
  <2>5. u \in T
    BY <2>2, <2>3, <2>4
  <2>6. down[u] = <<v[1], v[2]>>
    BY <2>2, <2>3, <2>5
  <2> QED
    BY <2>1, <2>5, <2>6
<1> HIDE DEF down, T
<1>8. ExistsBijection(T, Units(g, S))
  <2>1. down \in [T -> Units(g, S)]
    BY <1>5 DEF down
  <2>2. down \in Injection(T, Units(g, S))
    BY <2>1, <1>6 DEF Injection, IsInjective
  <2>3. down \in Surjection(T, Units(g, S))
    BY <2>1, <1>7 DEF Surjection
  <2> QED
    BY <2>2, <2>3 DEF Bijection, ExistsBijection
<1>9. Cardinality(T) = Cardinality(Units(g, S))
  BY <1>3, <1>8, FS_Bijection
<1>10. Cardinality(Units(h, S)) = Cardinality(Units(f, S)) + Cardinality(T)
  <2>1. Cardinality(Units(f, S) \cup T)
          = Cardinality(Units(f, S)) + Cardinality(T) - Cardinality(Units(f, S) \cap T)
    BY <1>2, <1>3, FS_Union
  <2>2. Cardinality(Units(f, S) \cap T) = 0
    BY <1>4, FS_EmptySet, Zenon
  <2>3. Cardinality(Units(f, S)) \in Nat /\ Cardinality(T) \in Nat
    BY <1>2, <1>3, FS_CardinalityType
  <2>4. Cardinality(Units(h, S)) = Cardinality(Units(f, S) \cup T)
    BY <1>4, Zenon
  <2> QED
    BY <2>1, <2>2, <2>3, <2>4
<1> QED
  BY <1>9, <1>10 DEF SumOver

\* Summands moved between two functions keep the sum.
LEMMA SumMoves ==
  ASSUME NEW S, IsFiniteSet(S), NEW f, NEW g, NEW h, NEW k,
         \A x \in S : /\ f[x] \in Nat /\ g[x] \in Nat /\ h[x] \in Nat /\ k[x] \in Nat
                      /\ f[x] + g[x] = h[x] + k[x]
  PROVE  SumOver(f, S) + SumOver(g, S) = SumOver(h, S) + SumOver(k, S)
<1> DEFINE both == [x \in S |-> f[x] + g[x]]
<1>1. SumOver(both, S) = SumOver(f, S) + SumOver(g, S)
  BY SumPlus
<1>2. \A x \in S : both[x] = h[x] + k[x]
  OBVIOUS
<1> HIDE DEF both
<1>3. SumOver(both, S) = SumOver(h, S) + SumOver(k, S)
  BY <1>2, SumPlus
<1> QED
  BY <1>1, <1>3

\* A sum with one summand that counts.
LEMMA SumSingle ==
  ASSUME NEW S, NEW x \in S, NEW f, NEW n \in Nat,
         \A y \in S : f[y] = IF y = x THEN n ELSE 0
  PROVE  SumOver(f, S) = n
<1>1. SumOver(f, S) = SumOver(f, {x})
  BY SumSkip
<1>2. Units(f, {x}) = {x} \X (1 .. n)
  BY DEF Units
<1> QED
  BY <1>1, <1>2, BlockSize DEF SumOver

\* No summand is larger than the sum.
LEMMA SumBounds ==
  ASSUME NEW S, IsFiniteSet(S), NEW x \in S, NEW f, \A y \in S : f[y] \in Nat
  PROVE  f[x] <= SumOver(f, S)
<1>1. SumOver(f, {x}) <= SumOver(f, S)
  BY SumSubset
<1>2. SumOver(f, {x}) = f[x]
  BY SumSingle
<1> QED
  BY <1>1, <1>2

\* Larger summands make a larger sum.
LEMMA SumMonotone ==
  ASSUME NEW S, IsFiniteSet(S), NEW f, NEW g,
         \A x \in S : f[x] \in Nat /\ g[x] \in Nat /\ f[x] <= g[x]
  PROVE  SumOver(f, S) <= SumOver(g, S)
<1>1. IsFiniteSet(Units(g, S))
  BY UnitsFinite
<1>2. Units(f, S) \subseteq Units(g, S)
  BY DEF Units
<1> QED
  BY <1>1, <1>2, FS_Subset DEF SumOver

\* A sum of equal summands.
LEMMA SumSame ==
  ASSUME NEW S, IsFiniteSet(S), NEW c \in Nat, NEW f, \A x \in S : f[x] = c
  PROVE  SumOver(f, S) = c * Cardinality(S)
<1>1. Units(f, S) = S \X (1 .. c)
  BY DEF Units
<1>2. IsFiniteSet(1 .. c) /\ Cardinality(1 .. c) = c
  BY FS_Interval
<1>3. Cardinality(S \X (1 .. c)) = Cardinality(S) * Cardinality(1 .. c)
  BY <1>2, FS_Product
<1>4. Cardinality(S) \in Nat
  BY FS_CardinalityType
<1>5. SumOver(f, S) = Cardinality(S) * c
  BY <1>1, <1>2, <1>3 DEF SumOver
<1> QED
  BY <1>4, <1>5

(***************************************************************************)
(* Finite sets of naturals, by rank: the largest member needs no induction *)
(* over the set.                                                           *)
(***************************************************************************)
Upto(S, i) == {j \in S : j <= i}

\* An element of a finite set of naturals is told by how many are below it.
LEMMA RankInjective ==
  ASSUME NEW S \in SUBSET Nat, IsFiniteSet(S), NEW i \in S, NEW j \in S,
         Cardinality(Upto(S, i)) = Cardinality(Upto(S, j))
  PROVE  i = j
<1>1. ASSUME NEW a \in S, NEW b \in S, a <= b,
             Cardinality(Upto(S, a)) = Cardinality(Upto(S, b))
      PROVE  a = b
  <2>1. Upto(S, a) \in SUBSET Upto(S, b)
    <3>1. a \in Nat /\ b \in Nat /\ \A x \in S : x \in Nat
      OBVIOUS
    <3>2. \A x \in Nat : x <= a => x <= b
      BY <1>1, <3>1
    <3> QED
      BY <3>1, <3>2 DEF Upto
  <2>2. IsFiniteSet(Upto(S, b))
    BY FS_Subset DEF Upto
  <2>3. Upto(S, b) = Upto(S, a)
    BY <1>1, <2>1, <2>2, FS_Subset
  <2>4. b \in Upto(S, a)
    BY <2>3 DEF Upto
  <2> QED
    BY <1>1, <2>4 DEF Upto
<1>2. i <= j \/ j <= i
  OBVIOUS
<1> QED
  BY <1>1, <1>2

\* Every number up to the size of the set is the rank of an element.
LEMMA RankSurjective ==
  ASSUME NEW S \in SUBSET Nat, IsFiniteSet(S)
  PROVE  /\ \A i \in S : Cardinality(Upto(S, i)) \in 1 .. Cardinality(S)
         /\ \A k \in 1 .. Cardinality(S) : \E i \in S : Cardinality(Upto(S, i)) = k
<1> DEFINE n == Cardinality(S)
           rank == [i \in S |-> Cardinality(Upto(S, i))]
<1>1. n \in Nat
  BY FS_CardinalityType
<1>2. ASSUME NEW i \in S PROVE Cardinality(Upto(S, i)) \in 1 .. n
  <2>1. Upto(S, i) \in SUBSET S /\ i \in Upto(S, i)
    BY DEF Upto
  <2>2. IsFiniteSet(Upto(S, i)) /\ Cardinality(Upto(S, i)) <= n
    BY <2>1, FS_Subset
  <2>3. Cardinality(Upto(S, i)) \in Nat /\ Cardinality(Upto(S, i)) # 0
    BY <2>1, <2>2, FS_CardinalityType, FS_EmptySet
  <2> HIDE DEF n
  <2> QED
    BY <1>1, <2>2, <2>3
<1>3. IsFiniteSet(1 .. n) /\ Cardinality(1 .. n) = n
  <2> HIDE DEF n
  <2> QED
    BY <1>1, FS_Interval
<1>4. rank \in Injection(S, 1 .. n)
  <2>1. rank \in [S -> 1 .. n]
    BY <1>2
  <2>2. \A i, j \in S : rank[i] = rank[j] => i = j
    BY RankInjective
  <2> QED
    BY <2>1, <2>2 DEF Injection, IsInjective
<1>5. rank \in Surjection(S, 1 .. n)
  BY <1>3, <1>4, FS_Injection
<1>6. \A k \in 1 .. n : \E i \in S : rank[i] = k
  BY <1>5 DEF Surjection
<1> QED
  BY <1>2, <1>6

\* A finite set of naturals that is not empty has a largest member.
LEMMA LargestMember ==
  ASSUME NEW S \in SUBSET Nat, IsFiniteSet(S), S # {}
  PROVE  \E m \in S : \A x \in S : x <= m
<1> DEFINE n == Cardinality(S)
<1>1. n \in Nat /\ n # 0
  BY FS_CardinalityType, FS_EmptySet
<1>2. n \in 1 .. n
  <2> HIDE DEF n
  <2> QED
    BY <1>1
<1>3. PICK m \in S : Cardinality(Upto(S, m)) = n
  BY <1>2, RankSurjective
<1>4. Upto(S, m) = S
  BY <1>3, FS_Subset DEF Upto
<1> QED
  BY <1>4 DEF Upto

\* ... and a smallest one.
LEMMA SmallestMember ==
  ASSUME NEW S \in SUBSET Nat, IsFiniteSet(S), S # {}
  PROVE  \E m \in S : \A x \in S : m <= x
<1>1. PICK top \in S : \A x \in S : x <= top
  BY LargestMember
<1> DEFINE below == [x \in S |-> top - x]
           R == {top - x : x \in S}
<1>2. below \in Surjection(S, R)
  BY DEF Surjection
<1>3. IsFiniteSet(R)
  BY <1>2, FS_Surjection
<1>4. R \in SUBSET Nat /\ R # {}
  BY <1>1
<1>5. PICK r \in R : \A y \in R : y <= r
  BY <1>3, <1>4, LargestMember
<1>6. PICK m \in S : r = top - m
  OBVIOUS
<1>7. \A x \in S : top - x <= top - m
  BY <1>5, <1>6
<1>8. \A x \in S : m <= x
  <2> SUFFICES ASSUME NEW x \in S PROVE m <= x
    OBVIOUS
  <2>1. top - x <= top - m /\ top \in Nat /\ x \in Nat /\ m \in Nat
    BY <1>7
  <2> QED
    BY ONLY <2>1, SMT
<1> QED
  BY <1>8, Zenon

(***************************************************************************)
(* Sums of sums                                                            *)
(***************************************************************************)
Tagged(D, A) == UNION {{x} \X D[x] : x \in A}

\* Finite sets that are kept apart by an index have as many members together
\* as the sum of their sizes.
LEMMA SumOfSizes ==
  ASSUME NEW A, IsFiniteSet(A), NEW D, \A x \in A : IsFiniteSet(D[x]),
         NEW f, \A x \in A : f[x] = Cardinality(D[x])
  PROVE  Cardinality(Tagged(D, A)) = SumOver(f, A)
<1> DEFINE b == [x \in A |-> CHOOSE g : g \in Bijection(1 .. f[x], D[x])]
           h == [u \in Units(f, A) |-> <<u[1], b[u[1]][u[2]]>>]
<1>1. \A x \in A : f[x] \in Nat /\ b[x] \in Bijection(1 .. f[x], D[x])
  BY FS_CardinalityType DEF ExistsBijection
<1>2. ASSUME NEW u \in Units(f, A)
      PROVE  u[1] \in A /\ u[2] \in 1 .. f[u[1]] /\ u = <<u[1], u[2]>>
  BY DEF Units
<1> HIDE DEF b
<1>3. \A u \in Units(f, A) : b[u[1]][u[2]] \in D[u[1]]
  BY <1>1, <1>2 DEF Bijection, Injection
<1>4. h \in [Units(f, A) -> Tagged(D, A)]
  BY <1>2, <1>3 DEF Tagged
<1>5. ASSUME NEW u \in Units(f, A), NEW v \in Units(f, A), h[u] = h[v] PROVE u = v
  <2>1. u[1] = v[1] /\ b[u[1]][u[2]] = b[u[1]][v[2]]
    BY <1>5
  <2>2. u[2] = v[2]
    BY <1>1, <1>2, <2>1 DEF Bijection, Injection, IsInjective
  <2> QED
    BY <1>2, <2>1, <2>2
<1>6. ASSUME NEW t \in Tagged(D, A) PROVE \E u \in Units(f, A) : h[u] = t
  <2>1. PICK x \in A : \E y \in D[x] : t = <<x, y>>
    BY DEF Tagged
  <2>2. PICK y \in D[x] : t = <<x, y>>
    BY <2>1
  <2>3. PICK k \in 1 .. f[x] : b[x][k] = y
    BY <1>1 DEF Bijection, Surjection
  <2>4. <<x, k>> \in Units(f, A)
    BY DEF Units
  <2>5. h[<<x, k>>] = <<x, y>>
    BY <2>3, <2>4
  <2> QED
    BY <2>2, <2>4, <2>5
<1>7. h \in Bijection(Units(f, A), Tagged(D, A))
  BY <1>4, <1>5, <1>6 DEF Bijection, Injection, Surjection, IsInjective
<1>8. IsFiniteSet(Units(f, A))
  BY <1>1, UnitsFinite
<1> QED
  BY <1>7, <1>8, FS_Bijection DEF ExistsBijection, SumOver

\* A table f of naturals with row sums r; g is the table turned, with its
\* column sums c.
IsTable(A, B, f, g, r, c) ==
  /\ IsFiniteSet(A) /\ IsFiniteSet(B)
  /\ \A x \in A, y \in B : f[x][y] \in Nat /\ g[y][x] = f[x][y]
  /\ \A x \in A : r[x] = SumOver(f[x], B)
  /\ \A y \in B : c[y] = SumOver(g[y], A)

\* A table of naturals has the same sum by rows and by columns.
LEMMA SumExchange ==
  ASSUME NEW A, NEW B, NEW f, NEW g, NEW r, NEW c, IsTable(A, B, f, g, r, c)
  PROVE  SumOver(r, A) = SumOver(c, B)
<1> USE DEF IsTable
<1> DEFINE R == [x \in A |-> Units(f[x], B)]
           C == [y \in B |-> Units(g[y], A)]
           h == [t \in Tagged(R, A) |-> <<t[2][1], <<t[1], t[2][2]>>>>]
<1>1. \A x \in A : IsFiniteSet(R[x]) /\ r[x] = Cardinality(R[x])
  BY UnitsFinite DEF SumOver
<1>2. \A y \in B : IsFiniteSet(C[y]) /\ c[y] = Cardinality(C[y])
  BY UnitsFinite DEF SumOver
<1>3. /\ Cardinality(Tagged(R, A)) = SumOver(r, A)
      /\ Cardinality(Tagged(C, B)) = SumOver(c, B)
  <2> HIDE DEF R, C
  <2> QED
    BY <1>1, <1>2, SumOfSizes
<1>4. \A t : t \in Tagged(R, A)
         <=> \E x \in A, y \in B : \E k \in 1 .. f[x][y] : t = <<x, <<y, k>>>>
  BY DEF Tagged, Units
<1>5. \A t : t \in Tagged(C, B)
         <=> \E y \in B, x \in A : \E k \in 1 .. f[x][y] : t = <<y, <<x, k>>>>
  BY DEF Tagged, Units
<1> HIDE DEF R, C
<1>6. ASSUME NEW t \in Tagged(R, A), NEW x, NEW y, NEW k, t = <<x, <<y, k>>>>
      PROVE  h[t] = <<y, <<x, k>>>>
  BY <1>6
<1> HIDE DEF h
<1>7. ASSUME NEW t \in Tagged(R, A) PROVE h[t] \in Tagged(C, B)
  <2>1. PICK x \in A, y \in B : \E k \in 1 .. f[x][y] : t = <<x, <<y, k>>>>
    BY <1>4
  <2>2. PICK k \in 1 .. f[x][y] : t = <<x, <<y, k>>>>
    BY <2>1
  <2> QED
    BY <1>5, <1>6, <2>2
<1>8. ASSUME NEW t \in Tagged(R, A), NEW u \in Tagged(R, A), h[t] = h[u] PROVE t = u
  <2>1. PICK x \in A, y \in B : \E k \in 1 .. f[x][y] : t = <<x, <<y, k>>>>
    BY <1>4
  <2>2. PICK k \in 1 .. f[x][y] : t = <<x, <<y, k>>>>
    BY <2>1
  <2>3. PICK x2 \in A, y2 \in B : \E k2 \in 1 .. f[x2][y2] : u = <<x2, <<y2, k2>>>>
    BY <1>4
  <2>4. PICK k2 \in 1 .. f[x2][y2] : u = <<x2, <<y2, k2>>>>
    BY <2>3
  <2>5. <<y, <<x, k>>>> = <<y2, <<x2, k2>>>>
    BY <1>6, <1>8, <2>2, <2>4
  <2> QED
    BY <2>2, <2>4, <2>5
<1>9. ASSUME NEW s \in Tagged(C, B) PROVE \E t \in Tagged(R, A) : h[t] = s
  <2>1. PICK y \in B, x \in A : \E k \in 1 .. f[x][y] : s = <<y, <<x, k>>>>
    BY <1>5
  <2>2. PICK k \in 1 .. f[x][y] : s = <<y, <<x, k>>>>
    BY <2>1
  <2>3. <<x, <<y, k>>>> \in Tagged(R, A)
    BY <1>4
  <2> QED
    BY <1>6, <2>2, <2>3
<1>10. h \in Bijection(Tagged(R, A), Tagged(C, B))
  <2>1. h \in [Tagged(R, A) -> Tagged(C, B)]
    BY <1>7 DEF h
  <2> QED
    BY <1>8, <1>9, <2>1 DEF Bijection, Injection, Surjection, IsInjective
<1>11. IsFiniteSet(Tagged(R, A))
  <2> DEFINE blocks == {{x} \X R[x] : x \in A}
             asFunction == [x \in A |-> {x} \X R[x]]
  <2>1. asFunction \in Surjection(A, blocks)
    BY DEF Surjection
  <2>2. IsFiniteSet(blocks)
    BY <2>1, FS_Surjection
  <2>3. ASSUME NEW x \in A PROVE IsFiniteSet({x} \X R[x])
    <3>1. IsFiniteSet({x}) /\ IsFiniteSet(R[x])
      BY <1>1, FS_Singleton
    <3> QED
      BY <3>1, FS_Product
  <2> QED
    BY <2>2, <2>3, FS_UNION DEF Tagged
<1> QED
  BY <1>3, <1>10, <1>11, FS_Bijection DEF ExistsBijection

=============================================================================
