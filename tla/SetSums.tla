------------------------------ MODULE SetSums ------------------------------
(***************************************************************************)
(* What SumFunctionOnSet of the community modules computes over a finite   *)
(* set: the sums of reserved quantities, of units of stock and of units    *)
(* recommended.  The laws are proved from the definition of the fold, by   *)
(* a smallest set on which they would fail.                                *)
(***************************************************************************)
EXTENDS Functions, FiniteSets, FiniteSetTheorems, TLAPS

\* The element the fold takes from s, and its totals of the subsets of S.
PickedFrom(s) == CHOOSE x \in s : TRUE

Totals(f, S, g) ==
  g = [s \in SUBSET S |-> IF s = {} THEN 0 ELSE f[PickedFrom(s)] + g[s \ {PickedFrom(s)}]]

\* The sum is the fold at the whole set.
LEMMA SumIsTotal ==
  ASSUME NEW f, NEW S
  PROVE  SumFunctionOnSet(f, S) = (CHOOSE g : Totals(f, S, g))[S]
BY DEF SumFunctionOnSet, FoldFunctionOnSet, MapThenFoldSet, Totals, PickedFrom

\* A set of naturals has a least element.
LEMMA LeastNatural ==
  ASSUME NEW B \in SUBSET Nat, B # {}
  PROVE  \E n \in B : \A m \in B : n <= m
<1>1. \E n \in B : \A m \in B : ~(<<m, n>> \in OpToRel(<, Nat))
  BY WFMin, NatLessThanWellFounded
<1>2. PICK n \in B : \A m \in B : ~(<<m, n>> \in OpToRel(<, Nat))
  BY <1>1
<1>3. ASSUME NEW m \in B PROVE n <= m
  <2>1. m \in Nat /\ n \in Nat
    OBVIOUS
  <2>2. ~(m < n)
    BY <1>2, <2>1 DEF OpToRel
  <2> QED BY <2>1, <2>2
<1> QED BY <1>3

\* The fold exists: partial ones are extended by one element at a time.
LEMMA TotalsExist ==
  ASSUME NEW f, NEW S, IsFiniteSet(S)
  PROVE  \E g : Totals(f, S, g)
<1> DEFINE Below(n) == { s \in SUBSET S : Cardinality(s) <= n }
           Part(n, g) == g = [s \in Below(n) |->
                               IF s = {} THEN 0 ELSE f[PickedFrom(s)] + g[s \ {PickedFrom(s)}]]
           Bad == { n \in Nat : ~ \E g : Part(n, g) }
<1>1. \A s \in SUBSET S : IsFiniteSet(s) /\ Cardinality(s) \in Nat
  BY FS_Subset, FS_CardinalityType
<1>2. \A s \in SUBSET S : s # {} =>
        /\ PickedFrom(s) \in s
        /\ s \ {PickedFrom(s)} \in SUBSET S
        /\ Cardinality(s \ {PickedFrom(s)}) = Cardinality(s) - 1
        /\ Cardinality(s) > 0
  <2> SUFFICES ASSUME NEW s \in SUBSET S, s # {}
               PROVE  /\ PickedFrom(s) \in s
                      /\ s \ {PickedFrom(s)} \in SUBSET S
                      /\ Cardinality(s \ {PickedFrom(s)}) = Cardinality(s) - 1
                      /\ Cardinality(s) > 0
    OBVIOUS
  <2>1. PickedFrom(s) \in s
    BY DEF PickedFrom
  <2>2. Cardinality(s \ {PickedFrom(s)}) = Cardinality(s) - 1
    BY <2>1, <1>1, FS_RemoveElement
  <2>3. Cardinality(s) # 0
    BY <1>1, FS_EmptySet
  <2> QED BY <2>1, <2>2, <2>3, <1>1
<1>3. Bad = {}
  <2>1. SUFFICES ASSUME Bad # {} PROVE FALSE
    OBVIOUS
  <2>2. Bad \in SUBSET Nat
    OBVIOUS
  <2>3. PICK n \in Bad : \A m \in Bad : n <= m
    BY <2>1, <2>2, LeastNatural
  <2>4. n \in Nat /\ ~ \E g : Part(n, g)
    OBVIOUS
  <2>5. CASE n = 0
    <3> DEFINE g == [s \in Below(0) |-> 0]
    <3>1. \A s \in Below(0) : s = {}
      <4>1. SUFFICES ASSUME NEW s \in SUBSET S, Cardinality(s) <= 0, s # {} PROVE FALSE
        OBVIOUS
      <4>2. Cardinality(s) > 0 /\ Cardinality(s) \in Nat
        BY <4>1, <1>1, <1>2
      <4> QED BY <4>1, <4>2
    <3>2. Part(0, g)
      BY <3>1
    <3> QED BY <2>4, <2>5, <3>2
  <2>6. CASE n # 0
    <3>1. n - 1 \in Nat /\ ~(n <= n - 1)
      BY <2>4, <2>6
    <3>2. n - 1 \notin Bad
      <4> HIDE DEF Bad
      <4> QED BY <2>3, <3>1
    <3>a. PICK g : Part(n - 1, g)
      BY <3>1, <3>2
    <3> DEFINE h == [s \in Below(n) |-> IF s = {} THEN 0 ELSE f[PickedFrom(s)] + g[s \ {PickedFrom(s)}]]
    <3>3. \A s \in Below(n - 1) :
            /\ s \in Below(n)
            /\ g[s] = IF s = {} THEN 0 ELSE f[PickedFrom(s)] + g[s \ {PickedFrom(s)}]
      <4>1. SUFFICES ASSUME NEW s \in SUBSET S, Cardinality(s) <= n - 1
                     PROVE  /\ s \in Below(n)
                            /\ g[s] = IF s = {} THEN 0 ELSE f[PickedFrom(s)] + g[s \ {PickedFrom(s)}]
        OBVIOUS
      <4>2. Cardinality(s) <= n
        BY <4>1, <1>1, <2>4
      <4>3. s \in Below(n) /\ s \in Below(n - 1)
        BY <4>1, <4>2
      <4>4. g[s] = IF s = {} THEN 0 ELSE f[PickedFrom(s)] + g[s \ {PickedFrom(s)}]
        <5> HIDE DEF Below
        <5> QED BY <3>a, <4>3
      <4> QED BY <4>3, <4>4
    <3>4. \A s \in Below(n - 1) : h[s] = g[s]
      BY <3>3
    <3>5. \A s \in Below(n) : s # {} => s \ {PickedFrom(s)} \in Below(n - 1)
      BY <1>1, <1>2, <2>4
    <3>6. \A s \in Below(n) : s # {} => h[s \ {PickedFrom(s)}] = g[s \ {PickedFrom(s)}]
      BY <3>4, <3>5
    <3>7. Part(n, h)
      BY <3>6
    <3> QED BY <3>7, <2>4
  <2> QED BY <2>5, <2>6
<1>4. PICK g : Part(Cardinality(S), g)
  BY <1>3, FS_CardinalityType
<1>5. Below(Cardinality(S)) = SUBSET S
  BY FS_Subset
<1>6. Totals(f, S, g)
  BY <1>4, <1>5 DEF Totals
<1> QED BY <1>6

\* The sum is what a fold that exists says.
LEMMA TotalOfSum ==
  ASSUME NEW f, NEW S, IsFiniteSet(S)
  PROVE  \E g : Totals(f, S, g) /\ SumFunctionOnSet(f, S) = g[S]
<1>1. Totals(f, S, CHOOSE g : Totals(f, S, g))
  BY TotalsExist
<1> QED BY <1>1, SumIsTotal

\* Sets of subsets of a finite set have a smallest element by inclusion.
LEMMA SmallestSubset ==
  ASSUME NEW S, IsFiniteSet(S), NEW B \in SUBSET (SUBSET S), B # {}
  PROVE  \E s \in B : \A t \in B : t \subseteq s => t = s
<1>1. FiniteSubsetsOf(S) = SUBSET S
  BY FS_FiniteSubsetsOfFinite
<1>2. IsWellFoundedOn(StrictSubsetOrdering(S), SUBSET S)
  BY <1>1, FS_StrictSubsetOrderingWellFounded
<1>3. PICK s \in B : \A t \in B : ~(<<t, s>> \in StrictSubsetOrdering(S))
  BY <1>2, WFMin
<1>4. ASSUME NEW t \in B, t \subseteq s PROVE t = s
  <2>1. t \in SUBSET S /\ s \in SUBSET S
    OBVIOUS
  <2> QED BY <1>3, <1>4, <2>1 DEF StrictSubsetOrdering
<1> QED BY <1>4

\* Folds of summands that agree on T agree on the subsets of T.
LEMMA TotalsAgree ==
  ASSUME NEW f, NEW S, IsFiniteSet(S), NEW g, Totals(f, S, g),
         NEW h, NEW T \in SUBSET S, NEW k, Totals(h, T, k),
         \A x \in T : f[x] = h[x]
  PROVE  \A s \in SUBSET T : g[s] = k[s]
<1> DEFINE Bad == { s \in SUBSET T : g[s] # k[s] }
<1> SUFFICES ASSUME Bad # {} PROVE FALSE
  OBVIOUS
<1>1. PICK s \in Bad : \A t \in Bad : t \subseteq s => t = s
  <2>1. Bad \in SUBSET (SUBSET T) /\ IsFiniteSet(T)
    BY FS_Subset
  <2> HIDE DEF Bad
  <2> QED BY <2>1, SmallestSubset
<1>2. s \in SUBSET T /\ s \in SUBSET S /\ g[s] # k[s]
  OBVIOUS
<1>3. g[s] = IF s = {} THEN 0 ELSE f[PickedFrom(s)] + g[s \ {PickedFrom(s)}]
  BY <1>2 DEF Totals
<1>4. k[s] = IF s = {} THEN 0 ELSE h[PickedFrom(s)] + k[s \ {PickedFrom(s)}]
  BY <1>2 DEF Totals
<1>5. s # {}
  BY <1>2, <1>3, <1>4
<1>6. PickedFrom(s) \in s
  BY <1>5 DEF PickedFrom
<1>7. s \ {PickedFrom(s)} \notin Bad
  <2> HIDE DEF Bad
  <2> QED BY <1>1, <1>6
<1>8. g[s \ {PickedFrom(s)}] = k[s \ {PickedFrom(s)}]
  BY <1>2, <1>7
<1> QED BY <1>2, <1>3, <1>4, <1>5, <1>6, <1>8

\* Only the summands in the set count.
LEMMA SumCongruent ==
  ASSUME NEW f, NEW g, NEW S, IsFiniteSet(S), \A x \in S : f[x] = g[x]
  PROVE  SumFunctionOnSet(f, S) = SumFunctionOnSet(g, S)
<1>1. PICK h : Totals(f, S, h) /\ SumFunctionOnSet(f, S) = h[S]
  BY TotalOfSum
<1>2. PICK k : Totals(g, S, k) /\ SumFunctionOnSet(g, S) = k[S]
  BY TotalOfSum
<1>3. \A s \in SUBSET S : h[s] = k[s]
  BY <1>1, <1>2, TotalsAgree
<1> QED BY <1>1, <1>2, <1>3

\* Nothing sums up to zero.
LEMMA SumEmpty ==
  ASSUME NEW f
  PROVE  SumFunctionOnSet(f, {}) = 0
<1>1. PICK h : Totals(f, {}, h) /\ SumFunctionOnSet(f, {}) = h[{}]
  BY TotalOfSum, FS_EmptySet
<1> QED BY <1>1 DEF Totals

\* The sum of a set, by the element the fold picks first.
LEMMA SumFirst ==
  ASSUME NEW f, NEW S, IsFiniteSet(S), S # {}
  PROVE  SumFunctionOnSet(f, S) = f[PickedFrom(S)] + SumFunctionOnSet(f, S \ {PickedFrom(S)})
<1> DEFINE T == S \ {PickedFrom(S)}
<1>1. T \in SUBSET S /\ IsFiniteSet(T)
  BY FS_Subset
<1>2. PICK h : Totals(f, S, h) /\ SumFunctionOnSet(f, S) = h[S]
  BY TotalOfSum
<1>3. PICK k : Totals(f, T, k) /\ SumFunctionOnSet(f, T) = k[T]
  BY <1>1, TotalOfSum
<1>4. \A s \in SUBSET T : h[s] = k[s]
  <2> HIDE DEF T
  <2> QED BY <1>1, <1>2, <1>3, TotalsAgree
<1>5. h[S] = f[PickedFrom(S)] + h[T]
  BY <1>2 DEF Totals
<1> QED BY <1>2, <1>3, <1>4, <1>5

\* A sum of integers is an integer.
LEMMA SumInt ==
  ASSUME NEW f, NEW S, IsFiniteSet(S), \A x \in S : f[x] \in Int
  PROVE  SumFunctionOnSet(f, S) \in Int
<1> DEFINE Bad == { s \in SUBSET S : SumFunctionOnSet(f, s) \notin Int }
<1> SUFFICES ASSUME Bad # {} PROVE FALSE
  OBVIOUS
<1>1. PICK s \in Bad : \A t \in Bad : t \subseteq s => t = s
  <2>1. Bad \in SUBSET (SUBSET S)
    OBVIOUS
  <2> HIDE DEF Bad
  <2> QED BY <2>1, SmallestSubset
<1>2. s \in SUBSET S /\ IsFiniteSet(s) /\ SumFunctionOnSet(f, s) \notin Int
  BY FS_Subset
<1>3. s # {}
  BY <1>2, SumEmpty
<1>4. PickedFrom(s) \in s /\ PickedFrom(s) \in S
  BY <1>2, <1>3 DEF PickedFrom
<1>5. s \ {PickedFrom(s)} \notin Bad
  <2> HIDE DEF Bad
  <2> QED BY <1>1, <1>4
<1>6. SumFunctionOnSet(f, s \ {PickedFrom(s)}) \in Int
  BY <1>2, <1>5
<1>7. SumFunctionOnSet(f, s) = f[PickedFrom(s)] + SumFunctionOnSet(f, s \ {PickedFrom(s)})
  BY <1>2, <1>3, SumFirst
<1>8. f[PickedFrom(s)] \in Int
  BY <1>4
<1> QED BY <1>2, <1>6, <1>7, <1>8

\* The sum of a set, by any of its elements.
LEMMA SumRemove ==
  ASSUME NEW f, NEW S, IsFiniteSet(S), \A x \in S : f[x] \in Int, NEW x \in S
  PROVE  SumFunctionOnSet(f, S) = f[x] + SumFunctionOnSet(f, S \ {x})
<1> DEFINE Fine(s) == \A y \in s : SumFunctionOnSet(f, s) = f[y] + SumFunctionOnSet(f, s \ {y})
           Bad == { s \in SUBSET S : ~Fine(s) }
<1>0. SUFFICES ASSUME Bad # {} PROVE FALSE
  OBVIOUS
<1>1. PICK s \in Bad : \A t \in Bad : t \subseteq s => t = s
  <2>1. Bad \in SUBSET (SUBSET S)
    OBVIOUS
  <2> HIDE DEF Bad
  <2> QED BY <1>0, <2>1, SmallestSubset
<1>2. s \in SUBSET S /\ IsFiniteSet(s)
  BY FS_Subset
<1>3. PICK y \in s : SumFunctionOnSet(f, s) # f[y] + SumFunctionOnSet(f, s \ {y})
  OBVIOUS
<1> DEFINE z == PickedFrom(s)
<1>4. z \in s
  BY DEF PickedFrom
<1>5. SumFunctionOnSet(f, s) = f[z] + SumFunctionOnSet(f, s \ {z})
  BY <1>2, <1>3, SumFirst
<1>6. z # y
  BY <1>3, <1>5
<1> HIDE DEF z
<1>7. \A t \in SUBSET s : t # s => Fine(t)
  <2>1. \A t \in SUBSET s : t # s => t \notin Bad
    <3> HIDE DEF Bad
    <3> QED BY <1>1
  <2> HIDE DEF Fine
  <2> QED BY <2>1, <1>2
<1>8. SumFunctionOnSet(f, s \ {z}) = f[y] + SumFunctionOnSet(f, (s \ {z}) \ {y})
  BY <1>3, <1>4, <1>6, <1>7
<1>9. SumFunctionOnSet(f, s \ {y}) = f[z] + SumFunctionOnSet(f, (s \ {y}) \ {z})
  BY <1>3, <1>4, <1>6, <1>7
<1>10. (s \ {y}) \ {z} = (s \ {z}) \ {y}
  OBVIOUS
<1>11. SumFunctionOnSet(f, (s \ {z}) \ {y}) \in Int
  <2>1. (s \ {z}) \ {y} \in SUBSET S /\ IsFiniteSet((s \ {z}) \ {y})
    BY <1>2, FS_Subset
  <2> QED BY <2>1, SumInt
<1>12. f[y] \in Int /\ f[z] \in Int
  BY <1>2, <1>4
<1> DEFINE w == SumFunctionOnSet(f, (s \ {z}) \ {y})
<1>13. SumFunctionOnSet(f, s) = f[z] + (f[y] + w) /\ SumFunctionOnSet(f, s \ {y}) = f[z] + w
  BY <1>5, <1>8, <1>9, <1>10
<1>14. w \in Int
  BY <1>11
<1> HIDE DEF w
<1> QED BY <1>3, <1>12, <1>13, <1>14

\* One more element adds its summand.
LEMMA SumAdd ==
  ASSUME NEW f, NEW S, IsFiniteSet(S), NEW x, x \notin S,
         \A y \in S \cup {x} : f[y] \in Int
  PROVE  SumFunctionOnSet(f, S \cup {x}) = SumFunctionOnSet(f, S) + f[x]
<1>1. IsFiniteSet(S \cup {x})
  BY FS_AddElement
<1>2. (S \cup {x}) \ {x} = S
  OBVIOUS
<1>3. SumFunctionOnSet(f, S \cup {x}) = f[x] + SumFunctionOnSet(f, (S \cup {x}) \ {x})
  BY <1>1, SumRemove
<1>4. SumFunctionOnSet(f, S) \in Int /\ f[x] \in Int
  BY SumInt
<1> DEFINE a == SumFunctionOnSet(f, S)
           b == SumFunctionOnSet(f, S \cup {x})
<1>5. b = f[x] + a
  BY <1>2, <1>3
<1>6. a \in Int
  BY <1>4
<1>7. b = a + f[x]
  <2> HIDE DEF a, b
  <2> QED BY <1>4, <1>5, <1>6
<1> QED BY <1>7

\* Sums of disjoint sets add up.
LEMMA SumUnion ==
  ASSUME NEW f, NEW S, IsFiniteSet(S), NEW T, IsFiniteSet(T), S \cap T = {},
         \A x \in S \cup T : f[x] \in Int
  PROVE  SumFunctionOnSet(f, S \cup T) = SumFunctionOnSet(f, S) + SumFunctionOnSet(f, T)
<1> DEFINE Fine(s) == SumFunctionOnSet(f, S \cup s)
                        = SumFunctionOnSet(f, S) + SumFunctionOnSet(f, s)
           Bad == { s \in SUBSET T : ~Fine(s) }
<1>0. SUFFICES ASSUME Bad # {} PROVE FALSE
  OBVIOUS
<1>1. PICK s \in Bad : \A t \in Bad : t \subseteq s => t = s
  <2>1. Bad \in SUBSET (SUBSET T)
    OBVIOUS
  <2> HIDE DEF Bad
  <2> QED BY <1>0, <2>1, SmallestSubset
<1>2. s \in SUBSET T /\ IsFiniteSet(s) /\ ~Fine(s)
  BY FS_Subset
<1>3. SumFunctionOnSet(f, S) \in Int
  BY SumInt
<1>4. s # {}
  <2>1. CASE s = {}
    <3>1. S \cup s = S
      BY <2>1
    <3>2. SumFunctionOnSet(f, s) = 0
      BY <2>1, SumEmpty
    <3>3. SumFunctionOnSet(f, S) + 0 = SumFunctionOnSet(f, S)
      BY <1>3
    <3> QED BY <1>2, <3>1, <3>2, <3>3
  <2> QED BY <2>1
<1>5. PICK x \in s : TRUE
  BY <1>4
<1> DEFINE r == s \ {x}
<1>6. /\ r \in SUBSET T /\ IsFiniteSet(r) /\ x \notin r
      /\ s = r \cup {x} /\ S \cup s = (S \cup r) \cup {x} /\ x \notin S \cup r
      /\ IsFiniteSet(S \cup r)
  BY <1>2, FS_Subset, FS_Union
<1>7. Fine(r)
  <2>1. r \notin Bad
    <3> HIDE DEF Bad
    <3> QED BY <1>1
  <2> HIDE DEF Fine
  <2> QED BY <2>1, <1>6
<1> HIDE DEF r
<1> DEFINE a == SumFunctionOnSet(f, S)
           b == SumFunctionOnSet(f, r)
           c == SumFunctionOnSet(f, S \cup r)
           d == SumFunctionOnSet(f, s)
           e == SumFunctionOnSet(f, S \cup s)
<1>8. d = b + f[x]
  BY <1>6, <1>2, SumAdd
<1>9. e = c + f[x]
  BY <1>6, <1>2, SumAdd
<1>10. a \in Int /\ b \in Int /\ f[x] \in Int
  BY <1>2, <1>6, SumInt
<1>11. c = a + b /\ ~(e = a + d)
  BY <1>2, <1>7
<1> HIDE DEF a, b, c, d, e
<1> QED BY <1>8, <1>9, <1>10, <1>11

\* Larger summands give no smaller sum.
LEMMA SumLarger ==
  ASSUME NEW f, NEW g, NEW S, IsFiniteSet(S),
         \A x \in S : f[x] \in Int /\ g[x] \in Int /\ f[x] <= g[x]
  PROVE  SumFunctionOnSet(f, S) <= SumFunctionOnSet(g, S)
<1> DEFINE Fine(s) == SumFunctionOnSet(f, s) <= SumFunctionOnSet(g, s)
           Bad == { s \in SUBSET S : ~Fine(s) }
<1>0. SUFFICES ASSUME Bad # {} PROVE FALSE
  OBVIOUS
<1>1. PICK s \in Bad : \A t \in Bad : t \subseteq s => t = s
  <2>1. Bad \in SUBSET (SUBSET S)
    OBVIOUS
  <2> HIDE DEF Bad
  <2> QED BY <1>0, <2>1, SmallestSubset
<1>2. s \in SUBSET S /\ IsFiniteSet(s) /\ ~Fine(s)
  BY FS_Subset
<1>3. s # {}
  BY <1>2, SumEmpty
<1>4. PICK x \in s : TRUE
  BY <1>3
<1> DEFINE r == s \ {x}
<1>5. r \in SUBSET S /\ IsFiniteSet(r)
  BY <1>2, FS_Subset
<1>6. Fine(r)
  <2>1. r \notin Bad
    <3> HIDE DEF Bad
    <3> QED BY <1>1
  <2> HIDE DEF Fine
  <2> QED BY <2>1, <1>5
<1> DEFINE a == SumFunctionOnSet(f, r)
           b == SumFunctionOnSet(g, r)
           c == SumFunctionOnSet(f, s)
           d == SumFunctionOnSet(g, s)
<1>7. c = f[x] + a
  BY <1>2, SumRemove
<1>8. d = g[x] + b
  BY <1>2, SumRemove
<1>9. a \in Int /\ b \in Int
  BY <1>5, SumInt
<1>10. f[x] \in Int /\ g[x] \in Int /\ f[x] <= g[x]
  BY <1>2
<1>11. a <= b /\ ~(c <= d)
  BY <1>2, <1>6
<1> HIDE DEF a, b, c, d
<1> QED BY <1>7, <1>8, <1>9, <1>10, <1>11

\* A sum of naturals is a natural.
LEMMA SumNat ==
  ASSUME NEW f, NEW S, IsFiniteSet(S), \A x \in S : f[x] \in Nat
  PROVE  SumFunctionOnSet(f, S) \in Nat
<1> DEFINE Bad == { s \in SUBSET S : SumFunctionOnSet(f, s) \notin Nat }
<1> SUFFICES ASSUME Bad # {} PROVE FALSE
  OBVIOUS
<1>1. PICK s \in Bad : \A t \in Bad : t \subseteq s => t = s
  <2>1. Bad \in SUBSET (SUBSET S)
    OBVIOUS
  <2> HIDE DEF Bad
  <2> QED BY <2>1, SmallestSubset
<1>2. s \in SUBSET S /\ IsFiniteSet(s) /\ SumFunctionOnSet(f, s) \notin Nat
  BY FS_Subset
<1>3. s # {}
  BY <1>2, SumEmpty
<1>4. PickedFrom(s) \in s /\ PickedFrom(s) \in S
  BY <1>2, <1>3 DEF PickedFrom
<1>5. s \ {PickedFrom(s)} \notin Bad
  <2> HIDE DEF Bad
  <2> QED BY <1>1, <1>4
<1>6. SumFunctionOnSet(f, s \ {PickedFrom(s)}) \in Nat
  BY <1>2, <1>5
<1>7. SumFunctionOnSet(f, s) = f[PickedFrom(s)] + SumFunctionOnSet(f, s \ {PickedFrom(s)})
  BY <1>2, <1>3, SumFirst
<1>8. f[PickedFrom(s)] \in Nat
  BY <1>4
<1> QED BY <1>2, <1>6, <1>7, <1>8

\* A part sums up to no more than the whole.
LEMMA SumSubset ==
  ASSUME NEW f, NEW S, IsFiniteSet(S), \A x \in S : f[x] \in Nat, NEW T \in SUBSET S
  PROVE  SumFunctionOnSet(f, T) <= SumFunctionOnSet(f, S)
<1> DEFINE R == S \ T
           a == SumFunctionOnSet(f, T)
           b == SumFunctionOnSet(f, R)
           c == SumFunctionOnSet(f, S)
<1>1. IsFiniteSet(T) /\ IsFiniteSet(R) /\ T \cup R = S /\ T \cap R = {}
  BY FS_Subset
<1>2. SumFunctionOnSet(f, T \cup R) = a + b
  <2> HIDE DEF R
  <2> QED BY <1>1, SumUnion
<1>3. c = a + b
  BY <1>1, <1>2
<1>4. a \in Nat /\ b \in Nat
  BY <1>1, SumNat
<1>5. a <= c
  <2> HIDE DEF a, b, c
  <2> QED BY <1>3, <1>4
<1> QED BY <1>5
============================================================================
