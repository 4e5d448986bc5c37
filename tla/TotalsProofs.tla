---------------------------- MODULE TotalsProofs ----------------------------
(* What the proofs of the other modules need to know about Total. *)
EXTENDS Totals, FiniteSetTheorems, TLAPS

\* The units of x alone.
Column(f, x) == {x} \X (1..f[x])

LEMMA ColumnCardinality ==
    ASSUME NEW S, NEW f \in [S -> Nat], NEW x \in S
    PROVE  /\ IsFiniteSet(Column(f, x))
           /\ Cardinality(Column(f, x)) = f[x]
<1>1. f[x] \in Nat
  OBVIOUS
<1>2. IsFiniteSet(1..f[x]) /\ Cardinality(1..f[x]) = f[x]
  BY <1>1, FS_Interval
<1>3. IsFiniteSet({x}) /\ Cardinality({x}) = 1
  BY FS_Singleton
<1>4. /\ IsFiniteSet({x} \X (1..f[x]))
      /\ Cardinality({x} \X (1..f[x])) = Cardinality({x}) * Cardinality(1..f[x])
  BY <1>2, <1>3, FS_Product
<1> QED
  BY <1>1, <1>2, <1>3, <1>4 DEF Column

LEMMA UnitsMember ==
    ASSUME NEW S, NEW f \in [S -> Nat], NEW u
    PROVE  u \in Units(f) <=> \E x \in S : u \in Column(f, x)
BY DEF Units, Column

\* The set of columns is the image of S under a function, which is finite.
LEMMA UnitsFinite ==
    ASSUME NEW S, IsFiniteSet(S), NEW f \in [S -> Nat]
    PROVE  IsFiniteSet(Units(f))
<1> DEFINE cols == { Column(f, x) : x \in S }
           g == [x \in S |-> Column(f, x)]
<1>1. g \in Surjection(S, cols)
  BY DEF Surjection
<1>2. IsFiniteSet(cols)
  BY <1>1, FS_Surjection
<1>3. \A T \in cols : IsFiniteSet(T)
  BY ColumnCardinality
<1>4. IsFiniteSet(UNION cols)
  <2> HIDE DEF cols
  <2> QED BY <1>2, <1>3, FS_UNION
<1>5. Units(f) = UNION cols
  BY DEF Units, Column
<1> QED
  BY <1>4, <1>5

\* A total is a natural number that no summand exceeds.
THEOREM TotalType ==
    ASSUME NEW S, IsFiniteSet(S), NEW f \in [S -> Nat]
    PROVE  /\ Total(f) \in Nat
           /\ \A x \in S : f[x] <= Total(f)
<1>1. IsFiniteSet(Units(f))
  BY UnitsFinite
<1>2. Total(f) \in Nat
  BY <1>1, FS_CardinalityType DEF Total
<1>3. ASSUME NEW x \in S PROVE f[x] <= Total(f)
  <2>1. Column(f, x) \in SUBSET Units(f)
    BY UnitsMember
  <2>2. Cardinality(Column(f, x)) <= Cardinality(Units(f))
    BY <1>1, <2>1, FS_Subset
  <2> QED
    BY <2>2, ColumnCardinality DEF Total
<1> QED
  BY <1>2, <1>3

\* Changing one summand changes the total by the difference.
THEOREM TotalExcept ==
    ASSUME NEW S, IsFiniteSet(S), NEW f \in [S -> Nat], NEW x \in S,
           NEW n \in Nat
    PROVE  Total([f EXCEPT ![x] = n]) = Total(f) - f[x] + n
<1> DEFINE h == [f EXCEPT ![x] = n]
<1>0. h \in [S -> Nat] /\ h[x] = n /\ \A y \in S \ {x} : h[y] = f[y]
  OBVIOUS
<1> HIDE DEF h
<1> DEFINE rest == Units(f) \ Column(f, x)
<1>1. IsFiniteSet(Units(f)) /\ IsFiniteSet(Units(h))
  BY <1>0, UnitsFinite
<1>2. \A y, z \in S : y # z => Column(f, y) \cap Column(f, z) = {}
  BY DEF Column
<1>3. \A y \in S \ {x} : Column(h, y) = Column(f, y)
  BY <1>0 DEF Column
<1>4. Column(h, x) \cap rest = {}
  BY <1>0, UnitsMember DEF Column
<1>5. Units(h) = rest \cup Column(h, x)
  <2>1. ASSUME NEW u \in Units(h) PROVE u \in rest \cup Column(h, x)
    <3>1. PICK y \in S : u \in Column(h, y)
      BY <1>0, <2>1, UnitsMember
    <3>2. CASE y = x
      BY <3>1, <3>2
    <3>3. CASE y # x
      <4>1. u \in Column(f, y)
        BY <1>3, <3>1, <3>3
      <4> QED
        BY <4>1, <3>3, <1>2, UnitsMember
    <3> QED BY <3>2, <3>3
  <2>2. ASSUME NEW u \in rest PROVE u \in Units(h)
    <3>1. PICK y \in S : u \in Column(f, y)
      BY UnitsMember
    <3>2. y # x
      BY <3>1
    <3> QED
      BY <1>0, <1>3, <3>1, <3>2, UnitsMember
  <2>3. Column(h, x) \subseteq Units(h)
    BY <1>0, UnitsMember
  <2> QED BY <2>1, <2>2, <2>3
<1>6. /\ IsFiniteSet(rest)
      /\ Cardinality(rest) = Cardinality(Units(f)) - f[x]
  <2>1. Column(f, x) = Units(f) \cap Column(f, x)
    BY UnitsMember
  <2>2. /\ IsFiniteSet(rest)
        /\ Cardinality(rest) =
             Cardinality(Units(f)) - Cardinality(Units(f) \cap Column(f, x))
    BY <1>1, FS_Difference
  <2> QED
    BY <2>1, <2>2, ColumnCardinality
<1>7. IsFiniteSet(Column(h, x)) /\ Cardinality(Column(h, x)) = n
  BY <1>0, ColumnCardinality
<1>8. Cardinality(rest \cap Column(h, x)) = 0
  <2>1. rest \cap Column(h, x) = {}
    BY <1>4
  <2> QED BY <2>1, FS_EmptySet
<1>9. Cardinality(rest \cup Column(h, x)) =
        Cardinality(rest) + Cardinality(Column(h, x))
          - Cardinality(rest \cap Column(h, x))
  <2> HIDE DEF rest
  <2> QED BY <1>6, <1>7, FS_Union
<1>10. Cardinality(Units(f)) \in Nat /\ f[x] \in Nat
  BY <1>1, FS_CardinalityType
<1>11. Cardinality(Units(h)) = Cardinality(Units(f)) - f[x] + n
  <2> HIDE DEF rest
  <2> QED BY <1>5, <1>6, <1>7, <1>8, <1>9, <1>10
<1> QED
  BY <1>11 DEF Total, h

\* A total is zero exactly when every summand is.
THEOREM TotalZero ==
    ASSUME NEW S, IsFiniteSet(S), NEW f \in [S -> Nat]
    PROVE  Total(f) = 0 <=> \A x \in S : f[x] = 0
<1>1. ASSUME Total(f) = 0 PROVE \A x \in S : f[x] = 0
  BY <1>1, TotalType
<1>2. ASSUME \A x \in S : f[x] = 0 PROVE Total(f) = 0
  <2>1. Units(f) = {}
    BY <1>2, UnitsMember DEF Column
  <2> QED
    BY <2>1, FS_EmptySet DEF Total
<1> QED
  BY <1>1, <1>2

\* A function that is nowhere larger has no larger total.
THEOREM TotalMonotone ==
    ASSUME NEW S, IsFiniteSet(S), NEW f \in [S -> Nat], NEW g \in [S -> Nat],
           \A x \in S : f[x] <= g[x]
    PROVE  Total(f) <= Total(g)
<1>1. ASSUME NEW x \in S PROVE Column(f, x) \subseteq Column(g, x)
  BY DEF Column
<1>2. ASSUME NEW u \in Units(f) PROVE u \in Units(g)
  <2>1. PICK x \in S : u \in Column(f, x)
    BY <1>2, UnitsMember
  <2> QED  BY <1>1, <2>1, UnitsMember
<1>3. Units(f) \in SUBSET Units(g)
  BY <1>2
<1>4. IsFiniteSet(Units(g))
  BY UnitsFinite
<1> QED
  BY <1>3, <1>4, FS_Subset DEF Total

\* A total can be taken in two parts.
LEMMA TotalSplit ==
    ASSUME NEW S, IsFiniteSet(S), NEW T, IsFiniteSet(T), S \cap T = {},
           NEW f \in [S -> Nat], NEW g \in [T -> Nat],
           NEW D, D = S \cup T, NEW h \in [D -> Nat],
           \A x \in S : h[x] = f[x], \A x \in T : h[x] = g[x]
    PROVE  Total(h) = Total(f) + Total(g)
<1>1. /\ \A x \in S : Column(h, x) = Column(f, x)
      /\ \A x \in T : Column(h, x) = Column(g, x)
  BY DEF Column
<1>2. Units(h) = Units(f) \cup Units(g)
  <2>1. ASSUME NEW u PROVE u \in Units(h) <=> u \in Units(f) \/ u \in Units(g)
    BY <1>1, UnitsMember
  <2> QED BY <2>1
<1>3. Units(f) \cap Units(g) = {}
  <2>1. ASSUME NEW u \in Units(f), u \in Units(g) PROVE FALSE
    <3>1. PICK x \in S : u \in Column(f, x)
      BY UnitsMember
    <3>2. PICK y \in T : u \in Column(g, y)
      BY <2>1, UnitsMember
    <3> QED BY <3>1, <3>2 DEF Column
  <2> QED BY <2>1
<1>4. IsFiniteSet(Units(f)) /\ IsFiniteSet(Units(g))
  BY UnitsFinite
<1>5. Cardinality(Units(f)) \in Nat /\ Cardinality(Units(g)) \in Nat
  BY <1>4, FS_CardinalityType
<1>6. Cardinality(Units(f) \cup Units(g)) =
        Cardinality(Units(f)) + Cardinality(Units(g)) - 0
  BY <1>3, <1>4, FS_Union, FS_EmptySet
<1> QED
  BY <1>2, <1>5, <1>6 DEF Total

\* Renaming the domain leaves the total alone.
LEMMA TotalReindex ==
    ASSUME NEW S, IsFiniteSet(S), NEW T, NEW p \in Bijection(S, T),
           NEW f \in [S -> Nat], NEW g \in [T -> Nat],
           \A x \in S : f[x] = g[p[x]]
    PROVE  Total(f) = Total(g)
<1>1. /\ p \in [S -> T]
      /\ \A x, y \in S : p[x] = p[y] => x = y
      /\ \A y \in T : \E x \in S : p[x] = y
  BY DEF Bijection, Injection, Surjection, IsInjective
<1> DEFINE b == [u \in Units(f) |-> <<p[u[1]], u[2]>>]
<1>2. ASSUME NEW u \in Units(f)
      PROVE  u[1] \in S /\ u[2] \in 1..f[u[1]] /\ u = <<u[1], u[2]>>
  <2>1. PICK x \in S : u \in Column(f, x)
    BY UnitsMember
  <2> QED BY <2>1 DEF Column
<1>3. b \in [Units(f) -> Units(g)]
  <2>1. ASSUME NEW u \in Units(f) PROVE <<p[u[1]], u[2]>> \in Units(g)
    <3>1. p[u[1]] \in T /\ <<p[u[1]], u[2]>> \in Column(g, p[u[1]])
      BY <1>1, <1>2 DEF Column
    <3> QED BY <3>1, UnitsMember
  <2> QED BY <2>1
<1>4. ASSUME NEW u \in Units(f), NEW v \in Units(f), b[u] = b[v] PROVE u = v
  <2>1. p[u[1]] = p[v[1]] /\ u[2] = v[2]
    BY <1>4
  <2> QED BY <1>1, <1>2, <2>1
<1>5. ASSUME NEW v \in Units(g) PROVE \E u \in Units(f) : b[u] = v
  <2>1. PICK y \in T : v \in Column(g, y)
    BY UnitsMember
  <2>2. PICK x \in S : p[x] = y
    BY <1>1
  <2>3. v[2] \in 1..f[x] /\ v = <<p[x], v[2]>>
    BY <2>1, <2>2 DEF Column
  <2>4. <<x, v[2]>> \in Units(f)
    BY <2>3, UnitsMember DEF Column
  <2>5. b[<<x, v[2]>>] = v
    BY <2>3, <2>4
  <2> QED BY <2>4, <2>5
<1>6. b \in Bijection(Units(f), Units(g))
  <2> HIDE DEF b
  <2> QED BY <1>3, <1>4, <1>5 DEF Bijection, Injection, Surjection, IsInjective
<1>7. IsFiniteSet(Units(f))
  BY UnitsFinite
<1>8. ExistsBijection(Units(f), Units(g))
  <2> HIDE DEF b
  <2> QED BY <1>6 DEF ExistsBijection
<1> QED
  BY <1>7, <1>8, FS_Bijection DEF Total

\* h is f on 1..m and k after it.
Joins(m, n, f, k, h) ==
    /\ f \in [1 .. m -> Nat]
    /\ k \in [(m + 1) .. (m + n) -> Nat]
    /\ h \in [1 .. (m + n) -> Nat]
    /\ \A i \in 1 .. m : h[i] = f[i]
    /\ \A i \in (m + 1) .. (m + n) : h[i] = k[i]

\* k is g, shifted by m.
Shifts(m, n, g, k) ==
    /\ g \in [1 .. n -> Nat]
    /\ k \in [(m + 1) .. (m + n) -> Nat]
    /\ \A i \in 1 .. n : g[i] = k[i + m]

\* h is f followed by g.
Concats(m, n, f, g, h) ==
    /\ f \in [1 .. m -> Nat]
    /\ g \in [1 .. n -> Nat]
    /\ h \in [1 .. (m + n) -> Nat]
    /\ \A i \in 1 .. m : h[i] = f[i]
    /\ \A i \in 1 .. n : h[i + m] = g[i]

LEMMA IntervalSplit ==
    ASSUME NEW m \in Nat, NEW n \in Nat, NEW f, NEW k, NEW h
    PROVE  Joins(m, n, f, k, h) => Total(h) = Total(f) + Total(k)
<1>0. SUFFICES ASSUME Joins(m, n, f, k, h) PROVE Total(h) = Total(f) + Total(k)
  OBVIOUS
<1>a. PICK lo : lo = 1 .. m
  OBVIOUS
<1>b. PICK hi : hi = (m + 1) .. (m + n)
  OBVIOUS
<1>1. IsFiniteSet(lo) /\ IsFiniteSet(hi)
  BY <1>a, <1>b, FS_Interval
<1>2. lo \cap hi = {} 
  BY <1>a, <1>b
<1>c. PICK dom : dom = 1 .. (m + n)
  OBVIOUS
<1>3. dom = lo \cup hi /\ h \in [dom -> Nat]
  BY <1>0, <1>a, <1>b, <1>c DEF Joins
<1>4. f \in [lo -> Nat] /\ k \in [hi -> Nat]
  BY <1>0, <1>a, <1>b DEF Joins
<1>5. /\ \A i \in lo : h[i] = f[i]
      /\ \A i \in hi : h[i] = k[i]
  <2>1. /\ \A i \in 1 .. m : h[i] = f[i]
        /\ \A i \in (m + 1) .. (m + n) : h[i] = k[i]
    BY <1>0, Zenon DEF Joins
  <2> QED BY <1>a, <1>b, <2>1, Zenon
<1>6. h \in [(lo \cup hi) -> Nat]
  BY <1>3, Zenon
<1> QED BY <1>1, <1>2, <1>4, <1>5, <1>6, TotalSplit

LEMMA IntervalShift ==
    ASSUME NEW m \in Nat, NEW n \in Nat, NEW g, NEW k
    PROVE  Shifts(m, n, g, k) => Total(g) = Total(k)
<1>0. SUFFICES ASSUME Shifts(m, n, g, k) PROVE Total(g) = Total(k)
  OBVIOUS
<1>a. PICK dom : dom = 1 .. n
  OBVIOUS
<1>b. PICK hi : hi = (m + 1) .. (m + n)
  OBVIOUS
<1>c. PICK p : p = [i \in 1 .. n |-> i + m]
  OBVIOUS
<1>1. IsFiniteSet(dom) 
  BY <1>a, FS_Interval
<1>2. p \in [dom -> hi]
  BY <1>a, <1>b, <1>c
<1>3. \A i, j \in dom : p[i] = p[j] => i = j
  BY <1>a, <1>b, <1>c
<1>4. ASSUME NEW j \in hi PROVE \E i \in dom : p[i] = j
  <2>1. j - m \in dom /\ p[j - m] = j
    BY <1>a, <1>b, <1>c
  <2> QED BY <2>1
<1>5. \A i \in dom : g[i] = k[p[i]]
  BY <1>0, <1>a, <1>b, <1>c DEF Shifts
<1>6. g \in [dom -> Nat] /\ k \in [hi -> Nat]
  BY <1>0, <1>a, <1>b DEF Shifts
<1>7. p \in Bijection(dom, hi)
  BY <1>2, <1>3, <1>4 DEF Bijection, Injection, Surjection, IsInjective
<1> QED BY <1>1, <1>5, <1>6, <1>7, TotalReindex

\* The total of one list of numbers followed by another.
LEMMA TotalConcat ==
    ASSUME NEW m \in Nat, NEW n \in Nat, NEW f, NEW g, NEW h
    PROVE  Concats(m, n, f, g, h) => Total(h) = Total(f) + Total(g)
<1>0. SUFFICES ASSUME Concats(m, n, f, g, h) PROVE Total(h) = Total(f) + Total(g)
  OBVIOUS
<1>1. PICK k : k = [i \in (m + 1) .. (m + n) |-> h[i]]
  OBVIOUS
<1>2. Joins(m, n, f, k, h)
  BY <1>0, <1>1 DEF Concats, Joins
<1>3. Shifts(m, n, g, k)
  BY <1>0, <1>1 DEF Concats, Shifts
<1>4. Total(h) = Total(f) + Total(k)
  BY <1>2, IntervalSplit
<1>5. Total(g) = Total(k)
  BY <1>3, IntervalShift
<1> QED BY <1>4, <1>5

\* The total of zeros and ones counts the ones.
LEMMA TotalIndicator ==
    ASSUME NEW S, IsFiniteSet(S), NEW f \in [S -> Nat],
           \A x \in S : f[x] \in {0, 1}
    PROVE  Total(f) = Cardinality({x \in S : f[x] = 1})
<1> DEFINE ones == {x \in S : f[x] = 1}
<1>1. IsFiniteSet(ones)
  BY FS_Subset
<1>2. IsFiniteSet({1}) /\ Cardinality({1}) = 1
  BY FS_Singleton
<1>3. Units(f) = ones \X {1}
  <2>1. ASSUME NEW u PROVE u \in Units(f) <=> u \in ones \X {1}
    <3>1. ASSUME NEW x \in S PROVE u \in Column(f, x) <=> x \in ones /\ u = <<x, 1>>
      BY DEF Column
    <3> QED BY <3>1, UnitsMember
  <2> QED BY <2>1
<1>4. Cardinality(ones) \in Nat
  BY <1>1, FS_CardinalityType
<1>5. Cardinality(ones \X {1}) = Cardinality(ones) * 1
  <2> HIDE DEF ones
  <2> QED BY <1>1, <1>2, FS_Product
<1> QED
  <2> HIDE DEF ones
  <2>1. Total(f) = Cardinality(ones)
    BY <1>3, <1>4, <1>5 DEF Total
  <2> QED BY <2>1 DEF ones

=============================================================================
