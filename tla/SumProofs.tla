------------------------------- MODULE SumProofs --------------------------------
(* MapThenSumSet of the community modules, of a function over a finite set: it exists, is a     *)
(* natural number, is additive, and of a function that is not zero at one place only its value.  *)
(* A recursive function over the places of a sequence exists, and so does a sequence of the       *)
(* elements of a set in the order of their keys.                                                  *)
EXTENDS Naturals, FiniteSets, FiniteSetsExt, SequencesExt, Functions, FiniteSetTheorems, WellFoundedInduction, NaturalsInduction, TLAPS

\* What the library's sum of f is the value of, at S: one element is taken after the other.
Chosen(s) == CHOOSE x \in s : TRUE
SumsUp(g, f, S) == g = [s \in SUBSET S |-> IF s = {} THEN 0 ELSE f[Chosen(s)] + g[s \ {Chosen(s)}]]
Total(f, S) == MapThenSumSet(LAMBDA x : f[x], S)

LEMMA SumsUpIf ==
    ASSUME NEW S, NEW f, NEW g, g = [s \in SUBSET S |-> g[s]],
           \A s \in SUBSET S : g[s] = IF s = {} THEN 0 ELSE f[Chosen(s)] + g[s \ {Chosen(s)}]
    PROVE  SumsUp(g, f, S)
  BY DEF SumsUp

\* It is counted by the pairs of an element and a number up to its value.
LEMMA SumExists ==
    ASSUME NEW S, IsFiniteSet(S), NEW f \in [S -> Nat]
    PROVE  \E g \in [SUBSET S -> Nat] : SumsUp(g, f, S)
<1> DEFINE Pairs(s) == UNION {{x} \X (1 .. f[x]) : x \in s}
           g == [s \in SUBSET S |-> Cardinality(Pairs(s))]
<1>1. ASSUME NEW x \in S
      PROVE  IsFiniteSet({x} \X (1 .. f[x])) /\ Cardinality({x} \X (1 .. f[x])) = f[x]
  <2>1. f[x] \in Nat
    OBVIOUS
  <2>2. IsFiniteSet({x}) /\ Cardinality({x}) = 1
    BY FS_Singleton
  <2>3. IsFiniteSet(1 .. f[x]) /\ Cardinality(1 .. f[x]) = f[x]
    BY <2>1, FS_Interval
  <2>4. PICK A, B : A = {x} /\ B = 1 .. f[x]
    OBVIOUS
  <2>5. IsFiniteSet(A) /\ IsFiniteSet(B) /\ Cardinality(A) = 1 /\ Cardinality(B) = f[x]
    BY <2>2, <2>3, <2>4
  <2>6. IsFiniteSet(A \X B) /\ Cardinality(A \X B) = Cardinality(A) * Cardinality(B)
    BY <2>5, FS_Product
  <2>7. 1 * f[x] = f[x]
    BY <2>1
  <2> QED BY <2>4, <2>5, <2>6, <2>7
<1>2. ASSUME NEW s \in SUBSET S
      PROVE  IsFiniteSet(Pairs(s))
  <2>1. IsFiniteSet(s)
    BY FS_Subset
  <2>2. IsFiniteSet({{x} \X (1 .. f[x]) : x \in s})
    <3>1. [x \in s |-> {x} \X (1 .. f[x])] \in Surjection(s, {{x} \X (1 .. f[x]) : x \in s})
      BY DEF Surjection
    <3> QED BY <2>1, <3>1, FS_Surjection
  <2> QED BY <1>1, <2>2, FS_UNION
<1>3. g \in [SUBSET S -> Nat]
  <2>1. \A s \in SUBSET S : Cardinality(Pairs(s)) \in Nat
    BY <1>2, FS_CardinalityType
  <2> HIDE DEF Pairs
  <2> QED BY <2>1
<1>4. ASSUME NEW s \in SUBSET S
      PROVE  g[s] = IF s = {} THEN 0 ELSE f[Chosen(s)] + g[s \ {Chosen(s)}]
  <2>1. CASE s = {}
    <3>1. Pairs(s) = {}
      BY <2>1
    <3> HIDE DEF Pairs
    <3> QED BY <2>1, <3>1, FS_EmptySet
  <2>2. CASE s # {}
    <3>1. PICK x \in s : x = Chosen(s)
      BY <2>2 DEF Chosen
    <3>2. Pairs(s) = ({x} \X (1 .. f[x])) \cup Pairs(s \ {x})
      OBVIOUS
    <3>3. ({x} \X (1 .. f[x])) \cap Pairs(s \ {x}) = {}
      OBVIOUS
    <3>4. x \in S /\ s \ {x} \in SUBSET S
      OBVIOUS
    <3>5. IsFiniteSet(Pairs(s \ {x})) /\ Cardinality(Pairs(s \ {x})) \in Nat /\ f[x] \in Nat
      BY <1>2, <3>4, FS_CardinalityType
    <3>6. IsFiniteSet({x} \X (1 .. f[x])) /\ Cardinality({x} \X (1 .. f[x])) = f[x]
      BY <1>1, <3>4
    <3> HIDE DEF Pairs
    <3>7. Cardinality(Pairs(s)) = f[x] + Cardinality(Pairs(s \ {x})) - Cardinality({})
      BY <3>2, <3>3, <3>5, <3>6, FS_Union
    <3>8. Cardinality(Pairs(s)) = f[x] + Cardinality(Pairs(s \ {x}))
      BY <3>5, <3>7, FS_EmptySet
    <3> QED BY <2>2, <3>1, <3>4, <3>8
  <2> QED BY <2>1, <2>2
<1>5. g = [s \in SUBSET S |-> g[s]]
  OBVIOUS
<1> HIDE DEF g
<1> QED BY <1>3, <1>4, <1>5, SumsUpIf

LEMMA SumIsUnique ==
    ASSUME NEW S, IsFiniteSet(S), NEW f, NEW g, NEW h, SumsUp(g, f, S), SumsUp(h, f, S)
    PROVE  \A s \in SUBSET S : g[s] = h[s]
<1> DEFINE T == {s \in SUBSET S : g[s] # h[s]}
<1> SUFFICES ASSUME T # {} PROVE FALSE
  OBVIOUS
<1>1. T \subseteq FiniteSubsetsOf(S)
  BY FS_Subset DEF FiniteSubsetsOf
<1>2. PICK s \in T : \A r \in T : ~(<<r, s>> \in StrictSubsetOrdering(S))
  <2> HIDE DEF T
  <2> QED BY <1>1, FS_StrictSubsetOrderingWellFounded, WFMin
<1>3. CASE s = {}
  <2>1. g[s] = 0 /\ h[s] = 0
    BY <1>3 DEF SumsUp
  <2> QED BY <2>1
<1>4. CASE s # {}
  <2>1. PICK x \in s : x = Chosen(s)
    BY <1>4 DEF Chosen
  <2>2. s \ {x} \in SUBSET S /\ <<s \ {x}, s>> \in StrictSubsetOrdering(S)
    BY DEF StrictSubsetOrdering
  <2>3. g[s \ {x}] = h[s \ {x}]
    BY <1>2, <2>2
  <2>4. g[s] = f[x] + g[s \ {x}] /\ h[s] = f[x] + h[s \ {x}]
    BY <1>4, <2>1 DEF SumsUp
  <2> QED BY <2>3, <2>4
<1> QED BY <1>3, <1>4

LEMMA TotalSumsUp ==
    ASSUME NEW S, IsFiniteSet(S), NEW f \in [S -> Nat]
    PROVE  \E g \in [SUBSET S -> Nat] : SumsUp(g, f, S) /\ Total(f, S) = g[S]
<1>1. PICK g : g \in [SUBSET S -> Nat] /\ SumsUp(g, f, S)
  BY SumExists
<1> DEFINE h == CHOOSE h : h = [s \in SUBSET S |->
                  IF s = {} THEN 0 ELSE f[CHOOSE x \in s : TRUE] + h[s \ {CHOOSE x \in s : TRUE}]]
<1>2. h = [s \in SUBSET S |-> IF s = {} THEN 0 ELSE f[CHOOSE x \in s : TRUE] + h[s \ {CHOOSE x \in s : TRUE}]]
  BY <1>1 DEF SumsUp, Chosen
<1>3. Total(f, S) = h[S]
  BY DEF Total, MapThenSumSet, MapThenFoldSet
<1> HIDE DEF h
<1>4. SumsUp(h, f, S)
  BY <1>2 DEF SumsUp, Chosen
<1>5. h[S] = g[S]
  BY <1>1, <1>4, SumIsUnique
<1> QED BY <1>1, <1>3, <1>5

\* What sums up as f does is its total.
LEMMA TotalIs ==
    ASSUME NEW S, IsFiniteSet(S), NEW f \in [S -> Nat], NEW g, SumsUp(g, f, S)
    PROVE  Total(f, S) = g[S] /\ Total(f, S) \in Nat
<1>1. PICK h : h \in [SUBSET S -> Nat] /\ SumsUp(h, f, S) /\ Total(f, S) = h[S]
  BY TotalSumsUp
<1> QED BY <1>1, SumIsUnique

LEMMA TotalAdds ==
    ASSUME NEW S, IsFiniteSet(S), NEW f \in [S -> Nat], NEW g \in [S -> Nat]
    PROVE  Total([x \in S |-> f[x] + g[x]], S) = Total(f, S) + Total(g, S)
<1>1. PICK p : p \in [SUBSET S -> Nat] /\ SumsUp(p, f, S) /\ Total(f, S) = p[S]
  BY TotalSumsUp
<1>2. PICK q : q \in [SUBSET S -> Nat] /\ SumsUp(q, g, S) /\ Total(g, S) = q[S]
  BY TotalSumsUp
<1> DEFINE b == [x \in S |-> f[x] + g[x]]
           r == [s \in SUBSET S |-> p[s] + q[s]]
<1>3. ASSUME NEW s \in SUBSET S
      PROVE  r[s] = IF s = {} THEN 0 ELSE b[Chosen(s)] + r[s \ {Chosen(s)}]
  <2>1. CASE s = {}
    BY <1>1, <1>2, <2>1 DEF SumsUp
  <2>2. CASE s # {}
    <3>1. PICK x \in s : x = Chosen(s)
      BY <2>2 DEF Chosen
    <3>2. p[s] = f[x] + p[s \ {x}] /\ q[s] = g[x] + q[s \ {x}]
      BY <1>1, <1>2, <2>2, <3>1 DEF SumsUp
    <3>3. f[x] \in Nat /\ g[x] \in Nat /\ p[s \ {x}] \in Nat /\ q[s \ {x}] \in Nat
      BY <1>1, <1>2
    <3>4. r[s] = p[s] + q[s] /\ r[s \ {x}] = p[s \ {x}] + q[s \ {x}] /\ b[x] = f[x] + g[x]
      OBVIOUS
    <3> HIDE DEF r, b
    <3>5. r[s] = b[x] + r[s \ {x}]
      BY <3>2, <3>3, <3>4
    <3> QED BY <2>2, <3>1, <3>5
  <2> QED BY <2>1, <2>2
<1>4. SumsUp(r, b, S)
  <2>1. r = [s \in SUBSET S |-> r[s]]
    OBVIOUS
  <2> HIDE DEF r, b
  <2> QED BY <1>3, <2>1, SumsUpIf
<1>5. b \in [S -> Nat] /\ r[S] = p[S] + q[S]
  BY <1>1, <1>2
<1> HIDE DEF r, b
<1>6. Total(b, S) = r[S]
  BY <1>4, <1>5, TotalIs
<1> QED BY <1>1, <1>2, <1>5, <1>6 DEF b

\* The sum of a function that is n at one place, or nowhere, and 0 elsewhere
LEMMA TotalOfOne ==
    ASSUME NEW S, IsFiniteSet(S), NEW a, NEW n \in Nat
    PROVE  Total([x \in S |-> IF x = a THEN n ELSE 0], S) = IF a \in S THEN n ELSE 0
<1> DEFINE f == [x \in S |-> IF x = a THEN n ELSE 0]
           g == [s \in SUBSET S |-> IF a \in s THEN n ELSE 0]
<1>1. ASSUME NEW s \in SUBSET S
      PROVE  g[s] = IF s = {} THEN 0 ELSE f[Chosen(s)] + g[s \ {Chosen(s)}]
  <2>1. CASE s = {}
    BY <2>1
  <2>2. CASE s # {}
    <3>1. PICK x \in s : x = Chosen(s)
      BY <2>2 DEF Chosen
    <3>2. g[s] = f[x] + g[s \ {x}]
      OBVIOUS
    <3> HIDE DEF f, g
    <3> QED BY <2>2, <3>1, <3>2
  <2> QED BY <2>1, <2>2
<1>2. SumsUp(g, f, S)
  <2>1. g = [s \in SUBSET S |-> g[s]]
    OBVIOUS
  <2> HIDE DEF g, f
  <2> QED BY <1>1, <2>1, SumsUpIf
<1>3. f \in [S -> Nat] /\ g[S] = IF a \in S THEN n ELSE 0
  OBVIOUS
<1> HIDE DEF f, g
<1> QED BY <1>2, <1>3, TotalIs DEF f

\* The sum of 1 or 0 at each place is at most the number of places.
LEMMA TotalOfSome ==
    ASSUME NEW S, IsFiniteSet(S), NEW A
    PROVE  Total([x \in S |-> IF x \in A THEN 1 ELSE 0], S) = Cardinality(A \cap S)
<1> DEFINE f == [x \in S |-> IF x \in A THEN 1 ELSE 0]
           g == [s \in SUBSET S |-> Cardinality(A \cap s)]
<1>1. ASSUME NEW s \in SUBSET S
      PROVE  g[s] = IF s = {} THEN 0 ELSE f[Chosen(s)] + g[s \ {Chosen(s)}]
  <2>1. CASE s = {}
    BY <2>1, FS_EmptySet
  <2>2. CASE s # {}
    <3>1. PICK x \in s : x = Chosen(s)
      BY <2>2 DEF Chosen
    <3>2. IsFiniteSet(A \cap (s \ {x})) /\ Cardinality(A \cap (s \ {x})) \in Nat
      BY FS_Subset, FS_CardinalityType
    <3>3. Cardinality(A \cap s) = f[x] + Cardinality(A \cap (s \ {x}))
      <4>1. CASE x \in A
        <5>1. A \cap s = (A \cap (s \ {x})) \cup {x} /\ x \notin A \cap (s \ {x})
          BY <4>1
        <5>2. Cardinality(A \cap s) = Cardinality(A \cap (s \ {x})) + 1
          BY <3>2, <5>1, FS_AddElement
        <5> QED BY <3>2, <4>1, <5>2
      <4>2. CASE x \notin A
        <5>1. A \cap s = A \cap (s \ {x})
          BY <4>2
        <5> QED BY <3>2, <4>2, <5>1
      <4> QED BY <4>1, <4>2
    <3>4. g[s] = f[x] + g[s \ {x}]
      BY <3>3
    <3> HIDE DEF f, g
    <3> QED BY <2>2, <3>1, <3>4
  <2> QED BY <2>1, <2>2
<1>2. SumsUp(g, f, S)
  <2>1. g = [s \in SUBSET S |-> g[s]]
    OBVIOUS
  <2> HIDE DEF g, f
  <2> QED BY <1>1, <2>1, SumsUpIf
<1>3. f \in [S -> Nat] /\ g[S] = Cardinality(A \cap S)
  OBVIOUS
<1> HIDE DEF f, g
<1> QED BY <1>2, <1>3, TotalIs DEF f

\* A sum of natural numbers is one.
LEMMA TotalIsNat ==
    ASSUME NEW S, IsFiniteSet(S), NEW f \in [S -> Nat]
    PROVE  Total(f, S) \in Nat
<1>1. PICK g : g \in [SUBSET S -> Nat] /\ SumsUp(g, f, S) /\ Total(f, S) = g[S]
  BY TotalSumsUp
<1> QED BY <1>1

\* One value changes, and the sum by as much.
LEMMA TotalOfChange ==
    ASSUME NEW S, IsFiniteSet(S), NEW f \in [S -> Nat], NEW a \in S, NEW n \in Nat
    PROVE  Total([f EXCEPT ![a] = n], S) + f[a] = Total(f, S) + n
<1>1. PICK rest \in [S -> Nat] : rest = [f EXCEPT ![a] = 0]
  OBVIOUS
<1>2. ASSUME NEW k \in Nat, NEW h \in [S -> Nat], h = [f EXCEPT ![a] = k]
      PROVE  Total(h, S) = Total(rest, S) + k
  <2>1. PICK one \in [S -> Nat] : one = [x \in S |-> IF x = a THEN k ELSE 0]
    OBVIOUS
  <2>2. Total(one, S) = k
    BY <2>1, TotalOfOne
  <2>3. \A x \in S : rest[x] + one[x] = h[x]
    BY <1>1, <1>2, <2>1
  <2>4. [x \in S |-> rest[x] + one[x]] = h
    BY <2>3
  <2>5. Total([x \in S |-> rest[x] + one[x]], S) = Total(rest, S) + Total(one, S)
    BY TotalAdds
  <2> QED BY <2>2, <2>4, <2>5
<1>3. f[a] \in Nat /\ f = [f EXCEPT ![a] = f[a]] /\ [f EXCEPT ![a] = n] \in [S -> Nat]
  OBVIOUS
<1>4. Total([f EXCEPT ![a] = n], S) = Total(rest, S) + n
  BY <1>2, <1>3
<1>5. Total(f, S) = Total(rest, S) + f[a]
  BY <1>2, <1>3
<1>6. Total(rest, S) \in Nat
  BY TotalIsNat
<1> QED BY <1>3, <1>4, <1>5, <1>6

\* Zeros
LEMMA TotalOfNone ==
    ASSUME NEW S, IsFiniteSet(S)
    PROVE  Total([x \in S |-> 0], S) = 0
<1>1. [x \in S |-> 0] = [x \in S |-> IF x \in {} THEN 1 ELSE 0]
  OBVIOUS
<1>2. Total([x \in S |-> IF x \in {} THEN 1 ELSE 0], S) = Cardinality({} \cap S)
  BY TotalOfSome
<1> QED BY <1>1, <1>2, FS_EmptySet

--------------------------------------------------------------------------------
(* Functions that go from each place to the next *)

LEMMA Least ==
    ASSUME NEW T \in SUBSET Nat, T # {}
    PROVE  \E t \in T : \A y \in T : ~(y < t)
<1>1. PICK t \in T : \A y \in T : ~(<<y, t>> \in OpToRel(<, Nat))
  BY WFMin, NatLessThanWellFounded
<1> QED BY <1>1 DEF OpToRel

Stepwise(g, N, a, F) == g = [n \in 0..N |-> IF n = 0 THEN a ELSE F[<<n, g[n - 1]>>]]

LEMMA StepsExist ==
    ASSUME NEW N \in Nat, NEW T, NEW a \in T, NEW F \in [(1..N) \X T -> T]
    PROVE  \E g \in [0..N -> T] : Stepwise(g, N, a, F)
<1> DEFINE Goes(g, m) == \A n \in 0..m : g[n] = IF n = 0 THEN a ELSE F[<<n, g[n - 1]>>]
           Missing == {m \in 0..N : ~ \E g \in [0..m -> T] : Goes(g, m)}
<1>1. Missing = {}
  <2> SUFFICES ASSUME Missing # {} PROVE FALSE
    OBVIOUS
  <2>1. PICK m \in Missing : \A k \in Missing : ~(k < m)
    <3>1. Missing \in SUBSET Nat
      OBVIOUS
    <3> HIDE DEF Missing
    <3> QED BY <3>1, Least
  <2>2. m \in 0..N /\ ~ \E g \in [0..m -> T] : Goes(g, m)
    BY <2>1
  <2>3. CASE m = 0
    <3>1. PICK g : g = [n \in 0..0 |-> a]
      OBVIOUS
    <3>2. g \in [0..m -> T] /\ Goes(g, m)
      BY <2>3, <3>1
    <3> QED BY <2>2, <3>2
  <2>4. CASE m # 0
    <3>1. m - 1 \in 0..N /\ m - 1 < m /\ m - 1 \notin Missing
      <4>1. m - 1 \in 0..N /\ m - 1 < m
        BY <2>2, <2>4
      <4> HIDE DEF Missing
      <4> QED BY <2>1, <4>1
    <3>2. PICK f \in [0..(m - 1) -> T] : Goes(f, m - 1)
      BY <3>1
    <3>3. PICK b : b = F[<<m, f[m - 1]>>]
      OBVIOUS
    <3>4. b \in T
      <4>1. m \in 1..N /\ m - 1 \in 0..(m - 1)
        BY <2>2, <2>4
      <4> QED BY <3>2, <3>3, <4>1
    <3>5. PICK g : g = [n \in 0..m |-> IF n = m THEN b ELSE f[n]]
      OBVIOUS
    <3>6. g \in [0..m -> T]
      <4>1. \A n \in 0..m : n # m => n \in 0..(m - 1)
        BY <2>2
      <4> QED BY <3>2, <3>4, <3>5, <4>1
    <3>7. ASSUME NEW n \in 0..m PROVE g[n] = IF n = 0 THEN a ELSE F[<<n, g[n - 1]>>]
      <4>1. CASE n = m
        <5>1. n - 1 \in 0..m /\ n - 1 # m
          BY <2>2, <2>4, <4>1
        <5>2. g[n - 1] = f[m - 1]
          BY <3>5, <4>1, <5>1
        <5> QED BY <2>4, <3>3, <3>5, <4>1, <5>2
      <4>2. CASE n # m /\ n # 0
        <5>1. n \in 0..(m - 1) /\ n - 1 \in 0..m /\ n - 1 # m
          BY <2>2, <4>2
        <5> QED BY <3>2, <3>5, <4>2, <5>1
      <4>3. CASE n # m /\ n = 0
        <5>1. n \in 0..(m - 1)
          BY <2>2, <4>3
        <5> QED BY <3>2, <3>5, <4>3, <5>1
      <4> QED BY <4>1, <4>2, <4>3
    <3> QED BY <2>2, <3>6, <3>7
  <2> QED BY <2>3, <2>4
<1>2. PICK g \in [0..N -> T] : Goes(g, N)
  <2>1. N \in 0..N
    OBVIOUS
  <2> QED BY <1>1, <2>1
<1>3. g = [n \in 0..N |-> g[n]]
  OBVIOUS
<1>4. g = [n \in 0..N |-> IF n = 0 THEN a ELSE F[<<n, g[n - 1]>>]]
  BY <1>2, <1>3
<1> QED BY <1>4 DEF Stepwise

--------------------------------------------------------------------------------
(* Sorting *)

\* A set whose elements have keys of their own can be put in the order of the keys.
LEMMA SortingExists ==
    ASSUME NEW S, IsFiniteSet(S), NEW k \in [S -> Nat], \A x, y \in S : k[x] = k[y] => x = y
    PROVE  \E s \in SetToSeqs(S) : \A i, j \in DOMAIN s : i < j => k[s[i]] < k[s[j]]
<1>1. PICK n \in Nat : n = Cardinality(S)
  BY FS_CardinalityType
<1>2. PICK below : below = [x \in S |-> {y \in S : k[y] <= k[x]}]
  OBVIOUS
<1>3. PICK r : r = [x \in S |-> Cardinality(below[x])]
  OBVIOUS
<1>4. ASSUME NEW x \in S PROVE r[x] \in 1..n
  <2>1. below[x] \in SUBSET S /\ x \in below[x]
    BY <1>2
  <2>2. IsFiniteSet(below[x]) /\ Cardinality(below[x]) <= n /\ Cardinality(below[x]) \in Nat
    BY <1>1, <2>1, FS_Subset, FS_CardinalityType
  <2>3. Cardinality(below[x]) # 0
    BY <2>1, <2>2, FS_EmptySet
  <2> QED BY <1>1, <1>3, <2>2, <2>3
<1>5. ASSUME NEW x \in S, NEW y \in S, k[x] < k[y] PROVE r[x] < r[y]
  <2>1. below[x] \in SUBSET below[y] /\ y \in below[y] /\ y \notin below[x] /\ below[y] \in SUBSET S
    BY <1>2, <1>5
  <2>2. IsFiniteSet(below[y])
    BY <2>1, FS_Subset
  <2>3. Cardinality(below[x]) <= Cardinality(below[y]) /\ Cardinality(below[x]) # Cardinality(below[y])
    BY <2>1, <2>2, FS_Subset
  <2>4. r[x] \in Nat /\ r[y] \in Nat
    BY <1>1, <1>4
  <2> QED BY <1>3, <2>3, <2>4
<1>6. ASSUME NEW x \in S, NEW y \in S, r[x] = r[y] PROVE x = y
  <2>1. k[x] \in Nat /\ k[y] \in Nat /\ r[x] \in Nat /\ r[y] \in Nat
    BY <1>1, <1>4
  <2>2. ~(k[x] < k[y]) /\ ~(k[y] < k[x])
    BY <1>5, <1>6, <2>1
  <2> QED BY <2>1, <2>2
<1>7. \A i \in 1..n : \E x \in S : r[x] = i
  <2>1. r \in Injection(S, 1..n)
    BY <1>3, <1>4, <1>6 DEF Injection, IsInjective
  <2>2. IsFiniteSet(1..n) /\ Cardinality(1..n) = n
    BY <1>1, FS_Interval
  <2>3. r \in Surjection(S, 1..n)
    BY <1>1, <2>1, <2>2, FS_Injection
  <2> QED BY <2>3 DEF Surjection
<1>8. PICK s : s = [i \in 1..n |-> CHOOSE x \in S : r[x] = i]
  OBVIOUS
<1>9. \A i \in 1..n : s[i] \in S /\ r[s[i]] = i
  BY <1>7, <1>8
<1>10. s \in SetToSeqs(S)
  <2>1. s \in [1..n -> S] /\ \A i, j \in 1..n : i # j => s[i] # s[j]
    BY <1>8, <1>9
  <2> QED BY <1>1, <2>1 DEF SetToSeqs
<1>11. ASSUME NEW i \in 1..n, NEW j \in 1..n, i < j PROVE k[s[i]] < k[s[j]]
  <2>1. s[i] \in S /\ s[j] \in S /\ r[s[i]] = i /\ r[s[j]] = j
    BY <1>9
  <2>2. k[s[i]] \in Nat /\ k[s[j]] \in Nat
    BY <2>1
  <2>3. ~(k[s[j]] < k[s[i]])
    BY <1>5, <1>11, <2>1
  <2>4. k[s[i]] # k[s[j]]
    BY <1>11, <2>1
  <2> QED BY <2>2, <2>3, <2>4
<1>12. DOMAIN s = 1..n
  BY <1>8
<1> QED BY <1>10, <1>11, <1>12
================================================================================
