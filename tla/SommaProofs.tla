----------------------------- MODULE SommaProofs -----------------------------
(***************************************************************************)
(* Facts about the sum of module Somma: it is a natural number, it is 0    *)
(* for the zero function, it grows with the function, and it changes by    *)
(* what one place changes.                                                 *)
(***************************************************************************)
EXTENDS Somma, FiniteSetTheorems, FunctionTheorems, TLAPS

\* The units of one place.
Colonna(x, n) == {<<x, k>> : k \in 1 .. n}

LEMMA ColonnaFinita ==
  ASSUME NEW x, NEW n \in Nat
  PROVE  IsFiniteSet(Colonna(x, n)) /\ Cardinality(Colonna(x, n)) = n
<1> DEFINE h == [k \in 1 .. n |-> <<x, k>>]
<1>1. IsFiniteSet(1 .. n) /\ Cardinality(1 .. n) = n
  BY FS_Interval
<1>2. ExistsBijection(1 .. n, Colonna(x, n))
  <2>1. h \in Bijection(1 .. n, Colonna(x, n))
    <3>1. h \in [1 .. n -> Colonna(x, n)]
      BY DEF Colonna
    <3>2. \A a, b \in 1 .. n : h[a] = h[b] => a = b
      OBVIOUS
    <3>3. \A t \in Colonna(x, n) : \E k \in 1 .. n : h[k] = t
      BY DEF Colonna
    <3> HIDE DEF h
    <3> QED
      BY <3>1, <3>2, <3>3, Fun_IsBij
  <2> QED
    BY <2>1 DEF ExistsBijection
<1> QED
  BY <1>1, <1>2, FS_Bijection

LEMMA UnitaFinita ==
  ASSUME NEW D, IsFiniteSet(D), NEW f \in [D -> Nat]
  PROVE  IsFiniteSet(Unita(f)) /\ Somma(f) \in Nat
<1> DEFINE C == {Colonna(x, f[x]) : x \in D}
           h == [x \in D |-> Colonna(x, f[x])]
<1>1. IsFiniteSet(C)
  <2>1. h \in [D -> C] /\ \A t \in C : \E x \in D : h[x] = t
    OBVIOUS
  <2> HIDE DEF h, C
  <2>2. h \in Surjection(D, C)
    BY <2>1, Fun_IsSurj
  <2> QED
    BY <2>2, FS_Surjection
<1>2. \A T \in C : IsFiniteSet(T)
  BY ColonnaFinita
<1>3. UNION C = Unita(f)
  BY DEF Unita, Colonna
<1>4. IsFiniteSet(UNION C)
  <2> HIDE DEF C
  <2> QED
    BY <1>1, <1>2, FS_UNION
<1>5. IsFiniteSet(Unita(f))
  BY <1>3, <1>4
<1> QED
  BY <1>5, FS_CardinalityType DEF Somma

LEMMA SommaZero ==
  ASSUME NEW D, NEW f \in [D -> Nat], \A x \in D : f[x] = 0
  PROVE  Somma(f) = 0
<1>1. Unita(f) = {}
  BY DEF Unita
<1> QED
  BY <1>1, FS_EmptySet DEF Somma

LEMMA SommaMonotona ==
  ASSUME NEW D, IsFiniteSet(D), NEW f \in [D -> Nat], NEW g \in [D -> Nat],
         \A x \in D : f[x] <= g[x]
  PROVE  Somma(f) <= Somma(g)
<1>1. Unita(f) \subseteq Unita(g)
  <2>1. \A x \in D : 1 .. f[x] \subseteq 1 .. g[x]
    OBVIOUS
  <2> QED
    BY <2>1 DEF Unita
<1> QED
  BY <1>1, UnitaFinita, FS_Subset DEF Somma

\* The sum as one place and the rest, the rest being the units of the other
\* places.
Altrove(f, d) == UNION {Colonna(x, f[x]) : x \in DOMAIN f \ {d}}

LEMMA SommaDivisa ==
  ASSUME NEW D, IsFiniteSet(D), NEW f \in [D -> Nat], NEW d \in D
  PROVE  /\ Somma(f) = Cardinality(Altrove(f, d)) + f[d]
         /\ Cardinality(Altrove(f, d)) \in Nat
<1>1. Unita(f) = Altrove(f, d) \cup Colonna(d, f[d])
  BY DEF Unita, Altrove, Colonna
<1>2. Altrove(f, d) \cap Colonna(d, f[d]) = {}
  BY DEF Altrove, Colonna
<1>3. IsFiniteSet(Altrove(f, d))
  <2>1. Altrove(f, d) \in SUBSET Unita(f)
    BY <1>1
  <2> QED
    BY <2>1, UnitaFinita, FS_Subset
<1>4. IsFiniteSet(Colonna(d, f[d])) /\ Cardinality(Colonna(d, f[d])) = f[d]
  BY ColonnaFinita
<1>5. Cardinality(Unita(f)) =
        Cardinality(Altrove(f, d)) + Cardinality(Colonna(d, f[d])) - Cardinality({})
  BY <1>1, <1>2, <1>3, <1>4, FS_Union
<1>6. Cardinality(Altrove(f, d)) \in Nat
  BY <1>3, FS_CardinalityType
<1> QED
  BY <1>4, <1>5, <1>6, FS_EmptySet DEF Somma

LEMMA SommaAlmeno ==
  ASSUME NEW D, IsFiniteSet(D), NEW f \in [D -> Nat], NEW d \in D
  PROVE  f[d] <= Somma(f)
BY SommaDivisa

LEMMA SommaCambia ==
  ASSUME NEW D, IsFiniteSet(D), NEW f \in [D -> Nat], NEW g \in [D -> Nat],
         NEW d \in D, \A x \in D \ {d} : g[x] = f[x]
  PROVE  Somma(g) = Somma(f) - f[d] + g[d]
<1>1. Altrove(g, d) = Altrove(f, d)
  BY DEF Altrove
<1>2. /\ Somma(f) = Cardinality(Altrove(f, d)) + f[d]
      /\ Cardinality(Altrove(f, d)) \in Nat
  BY SommaDivisa
<1>3. Somma(g) = Cardinality(Altrove(g, d)) + g[d]
  BY SommaDivisa
<1> QED
  BY <1>1, <1>2, <1>3

LEMMA SommaUguale ==
  ASSUME NEW D, NEW f \in [D -> Nat], NEW g \in [D -> Nat], \A x \in D : g[x] = f[x]
  PROVE  Somma(g) = Somma(f)
<1>1. g = f
  OBVIOUS
<1> QED
  BY <1>1

LEMMA UnitaElemento ==
  ASSUME NEW D, NEW f \in [D -> Nat], NEW t
  PROVE  t \in Unita(f) <=> \E x \in D : \E k \in 1 .. f[x] : t = <<x, k>>
BY DEF Unita

\* The sum of a pointwise sum: the units of g are put on top of those of f.
LEMMA SommaPiu ==
  ASSUME NEW D, IsFiniteSet(D), NEW f \in [D -> Nat], NEW g \in [D -> Nat],
         NEW h \in [D -> Nat], \A x \in D : h[x] = f[x] + g[x]
  PROVE  Somma(h) = Somma(f) + Somma(g)
<1> DEFINE su == [t \in Unita(g) |-> <<t[1], f[t[1]] + t[2]>>]
           S == {su[t] : t \in Unita(g)}
<1>1. \A x \in D : \A k \in 1 .. g[x] : <<x, k>> \in Unita(g) /\ su[<<x, k>>] = <<x, f[x] + k>>
  BY UnitaElemento
<1>2. su \in Bijection(Unita(g), S)
  <2>1. su \in [Unita(g) -> S] /\ \A t \in S : \E u \in Unita(g) : su[u] = t
    OBVIOUS
  <2>2. ASSUME NEW a \in Unita(g), NEW b \in Unita(g), su[a] = su[b]
        PROVE  a = b
    <3>1. PICK x \in D, k \in Nat : k \in 1 .. g[x] /\ a = <<x, k>>
      BY UnitaElemento
    <3>2. PICK y \in D, l \in Nat : l \in 1 .. g[y] /\ b = <<y, l>>
      BY UnitaElemento
    <3>3. <<x, f[x] + k>> = <<y, f[y] + l>>
      BY <1>1, <2>2, <3>1, <3>2
    <3>4. x = y /\ f[x] + k = f[y] + l
      BY <3>3
    <3>5. f[x] \in Nat
      OBVIOUS
    <3>6. k = l
      BY <3>4, <3>5
    <3> QED
      BY <3>1, <3>2, <3>4, <3>6
  <2> HIDE DEF su, S
  <2> QED
    BY <2>1, <2>2, Fun_IsBij
<1>3. IsFiniteSet(S) /\ Cardinality(S) = Cardinality(Unita(g))
  <2> HIDE DEF su, S
  <2> QED
    BY <1>2, UnitaFinita, FS_Bijection DEF ExistsBijection
<1>4. \A t : t \in S <=> \E x \in D : \E k \in 1 .. g[x] : t = <<x, f[x] + k>>
  <2>1. ASSUME NEW t \in S PROVE \E x \in D : \E k \in 1 .. g[x] : t = <<x, f[x] + k>>
    <3>1. PICK u \in Unita(g) : t = su[u]
      OBVIOUS
    <3>2. PICK x \in D, k \in Nat : k \in 1 .. g[x] /\ u = <<x, k>>
      BY UnitaElemento
    <3> QED
      BY <1>1, <3>1, <3>2
  <2>2. ASSUME NEW x \in D, NEW k \in 1 .. g[x] PROVE <<x, f[x] + k>> \in S
    <3> HIDE DEF su
    <3>1. <<x, k>> \in Unita(g) /\ su[<<x, k>>] = <<x, f[x] + k>>
      BY <1>1
    <3> QED
      BY <3>1, Zenon
  <2> QED
    BY <2>1, <2>2
<1> HIDE DEF su, S
<1>5. Unita(h) = Unita(f) \cup S
  <2>1. ASSUME NEW t \in Unita(h) PROVE t \in Unita(f) \cup S
    <3>1. PICK x \in D, k \in Nat : k \in 1 .. h[x] /\ t = <<x, k>>
      BY UnitaElemento
    <3>2. f[x] \in Nat /\ g[x] \in Nat /\ h[x] = f[x] + g[x]
      OBVIOUS
    <3>3. CASE k <= f[x]
      <4>1. k \in 1 .. f[x]
        BY <3>1, <3>2, <3>3
      <4> QED
        BY <3>1, <4>1, UnitaElemento
    <3>4. CASE k > f[x]
      <4>1. k - f[x] \in 1 .. g[x] /\ f[x] + (k - f[x]) = k
        BY <3>1, <3>2, <3>4
      <4> QED
        BY <1>4, <3>1, <4>1
    <3> QED
      BY <3>2, <3>3, <3>4
  <2>2. ASSUME NEW t \in Unita(f) PROVE t \in Unita(h)
    <3>1. PICK x \in D, k \in Nat : k \in 1 .. f[x] /\ t = <<x, k>>
      BY UnitaElemento
    <3>2. k \in 1 .. h[x]
      <4>1. f[x] \in Nat /\ g[x] \in Nat /\ h[x] = f[x] + g[x]
        OBVIOUS
      <4> QED
        BY <3>1, <4>1
    <3> QED
      BY <3>1, <3>2, UnitaElemento
  <2>3. ASSUME NEW t \in S PROVE t \in Unita(h)
    <3>1. PICK x \in D, k \in Nat : k \in 1 .. g[x] /\ t = <<x, f[x] + k>>
      BY <1>4
    <3>2. f[x] + k \in 1 .. h[x]
      <4>1. f[x] \in Nat /\ g[x] \in Nat /\ h[x] = f[x] + g[x]
        OBVIOUS
      <4> QED
        BY <3>1, <4>1
    <3> QED
      BY <3>1, <3>2, UnitaElemento
  <2> QED
    BY <2>1, <2>2, <2>3
<1>6. Unita(f) \cap S = {}
  <2> SUFFICES ASSUME NEW t \in Unita(f), t \in S PROVE FALSE
    OBVIOUS
  <2>1. PICK x \in D, k \in Nat : k \in 1 .. f[x] /\ t = <<x, k>>
    BY UnitaElemento
  <2>2. PICK y \in D, l \in Nat : l \in 1 .. g[y] /\ t = <<y, f[y] + l>>
    BY <1>4
  <2>3. x = y /\ k = f[y] + l
    BY <2>1, <2>2
  <2>4. f[x] \in Nat /\ g[y] \in Nat
    OBVIOUS
  <2> QED
    BY <2>1, <2>2, <2>3, <2>4
<1>7. IsFiniteSet(Unita(f)) /\ Cardinality(Unita(f)) \in Nat /\ Cardinality(S) \in Nat
  BY <1>3, UnitaFinita, FS_CardinalityType
<1>8. Cardinality(Unita(h)) = Cardinality(Unita(f)) + Cardinality(S) - Cardinality({})
  BY <1>3, <1>5, <1>6, <1>7, FS_Union
<1> QED
  BY <1>3, <1>7, <1>8, FS_EmptySet DEF Somma

\* Renaming the places does not change the sum.
LEMMA SommaRinomina ==
  ASSUME NEW D, IsFiniteSet(D), NEW E, NEW b \in Bijection(D, E),
         NEW f \in [D -> Nat], NEW g \in [E -> Nat], \A x \in D : g[b[x]] = f[x]
  PROVE  Somma(g) = Somma(f)
<1> DEFINE h == [t \in Unita(f) |-> <<b[t[1]], t[2]>>]
<1>0. /\ b \in [D -> E] /\ \A x, y \in D : b[x] = b[y] => x = y
      /\ \A e \in E : \E x \in D : b[x] = e
  BY Fun_BijectionProperties
<1>1. \A x \in D : \A k \in 1 .. f[x] : <<x, k>> \in Unita(f) /\ h[<<x, k>>] = <<b[x], k>>
  BY UnitaElemento
<1>2. \A t \in Unita(f) : h[t] \in Unita(g)
  <2> TAKE t \in Unita(f)
  <2>1. PICK x \in D, k \in Nat : k \in 1 .. f[x] /\ t = <<x, k>>
    BY UnitaElemento
  <2>2. b[x] \in E /\ k \in 1 .. g[b[x]]
    BY <1>0, <2>1
  <2> QED
    BY <1>1, <2>1, <2>2, UnitaElemento
<1>3. \A t \in Unita(g) : \E u \in Unita(f) : h[u] = t
  <2> TAKE t \in Unita(g)
  <2>1. PICK e \in E, k \in Nat : k \in 1 .. g[e] /\ t = <<e, k>>
    BY UnitaElemento
  <2>2. PICK x \in D : b[x] = e
    BY <1>0
  <2>3. k \in 1 .. f[x]
    BY <2>1, <2>2
  <2> HIDE DEF h
  <2>4. <<x, k>> \in Unita(f) /\ h[<<x, k>>] = t
    BY <1>1, <2>1, <2>2, <2>3
  <2> QED
    BY <2>4, Zenon
<1>4. ASSUME NEW t \in Unita(f), NEW u \in Unita(f), h[t] = h[u]
      PROVE  t = u
  <2>1. PICK x \in D, k \in Nat : k \in 1 .. f[x] /\ t = <<x, k>>
    BY UnitaElemento
  <2>2. PICK y \in D, l \in Nat : l \in 1 .. f[y] /\ u = <<y, l>>
    BY UnitaElemento
  <2>3. <<b[x], k>> = <<b[y], l>>
    BY <1>1, <1>4, <2>1, <2>2
  <2> QED
    BY <1>0, <2>1, <2>2, <2>3
<1>5. h \in Bijection(Unita(f), Unita(g))
  <2>1. h \in [Unita(f) -> Unita(g)]
    BY <1>2
  <2> HIDE DEF h
  <2> QED
    BY <1>3, <1>4, <2>1, Fun_IsBij
<1> HIDE DEF h
<1> QED
  BY <1>5, UnitaFinita, FS_Bijection DEF ExistsBijection, Somma

\* The sum over a sequence that grows by an element at the end.
LEMMA SommaAccoda ==
  ASSUME NEW n \in Nat, NEW f \in [1 .. n -> Nat], NEW g \in [1 .. n + 1 -> Nat],
         \A i \in 1 .. n : g[i] = f[i]
  PROVE  Somma(g) = Somma(f) + g[n + 1]
<1> DEFINE D == 1 .. n + 1
           d == n + 1
<1>1. IsFiniteSet(D) /\ d \in D
  BY FS_Interval
<1>2. Altrove(g, d) = Unita(f)
  <2>1. DOMAIN g \ {d} = 1 .. n
    OBVIOUS
  <2> QED
    BY <2>1 DEF Altrove, Unita, Colonna
<1>3. Somma(g) = Cardinality(Altrove(g, d)) + g[d]
  <2> HIDE DEF D, d
  <2>1. g \in [D -> Nat]
    BY DEF D
  <2> QED
    BY <1>1, <2>1, SommaDivisa
<1> QED
  BY <1>2, <1>3 DEF Somma

\* The sum over a sequence that loses its d-th element.
LEMMA SommaEstrai ==
  ASSUME NEW n \in Nat, NEW d \in 1 .. n, NEW f \in [1 .. n -> Nat],
         NEW g \in [1 .. n - 1 -> Nat],
         \A i \in 1 .. n - 1 : g[i] = f[IF i < d THEN i ELSE i + 1]
  PROVE  Somma(g) = Somma(f) - f[d]
<1> DEFINE E == (1 .. n) \ {d}
           e == [i \in E |-> f[i]]
           b == [i \in 1 .. n - 1 |-> IF i < d THEN i ELSE i + 1]
<1>1. e \in [E -> Nat] /\ IsFiniteSet(1 .. n) /\ IsFiniteSet(1 .. n - 1)
  <2>1. n - 1 \in Int /\ n \in Int
    OBVIOUS
  <2>2. IsFiniteSet(1 .. n) /\ IsFiniteSet(1 .. n - 1)
    BY <2>1, FS_Interval
  <2> QED
    BY <2>2
<1>2. Somma(f) = Somma(e) + f[d] /\ Somma(e) \in Nat /\ f[d] \in Nat
  <2>1. Altrove(f, d) = Unita(e)
    BY DEF Altrove, Unita, Colonna
  <2>2. /\ Somma(f) = Cardinality(Altrove(f, d)) + f[d]
        /\ Cardinality(Altrove(f, d)) \in Nat
    BY <1>1, SommaDivisa
  <2> QED
    BY <2>1, <2>2 DEF Somma
<1>3. b \in Bijection(1 .. n - 1, E)
  <2>1. b \in [1 .. n - 1 -> E] /\ \A i, j \in 1 .. n - 1 : b[i] = b[j] => i = j
    OBVIOUS
  <2>2. ASSUME NEW k \in E PROVE \E i \in 1 .. n - 1 : b[i] = k
    <3>1. CASE k < d
      <4>1. k \in 1 .. n - 1 /\ b[k] = k
        BY <3>1
      <4> QED
        BY <4>1
    <3>2. CASE k > d
      <4>1. k - 1 \in 1 .. n - 1 /\ b[k - 1] = k
        BY <3>2
      <4> QED
        BY <4>1
    <3> QED
      BY <3>1, <3>2
  <2> HIDE DEF b, E
  <2> QED
    BY <2>1, <2>2, Fun_IsBij
<1>4. \A i \in 1 .. n - 1 : e[b[i]] = g[i]
  <2> TAKE i \in 1 .. n - 1
  <2>1. (IF i < d THEN i ELSE i + 1) \in E
    OBVIOUS
  <2> QED
    BY <2>1
<1>5. Somma(e) = Somma(g)
  <2> HIDE DEF b, e, E
  <2> QED
    BY <1>1, <1>3, <1>4, SommaRinomina
<1> QED
  BY <1>2, <1>5

=============================================================================
