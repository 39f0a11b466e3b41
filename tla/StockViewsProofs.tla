-------------------------- MODULE StockViewsProofs --------------------------
(***************************************************************************)
(* Proofs about StockViews: the FEFO recommendation takes what expires     *)
(* first and no more than asked or than there is, and the aging report     *)
(* counts each balance in the one band its days belong to.                 *)
(***************************************************************************)
EXTENDS StockViews, SetSums, SequenceTheorems, TLAPS

----------------------------------------------------------------------------
(* Sets in an order.                                                       *)

\* R is a strict total order of S.
Total(S, R) ==
  /\ \A x \in S : <<x, x>> \notin R
  /\ \A x, y \in S : x = y \/ <<x, y>> \in R \/ <<y, x>> \in R
  /\ \A x, y, z \in S : <<x, y>> \in R /\ <<y, z>> \in R => <<x, z>> \in R

LEMMA Greatest ==
  ASSUME NEW S, IsFiniteSet(S), NEW R, Total(S, R), NEW T \in SUBSET S, T # {}
  PROVE  \E g \in T : \A x \in T : x = g \/ <<x, g>> \in R
<1> DEFINE Tops(t) == { g \in t : \A x \in t : x = g \/ <<x, g>> \in R }
           Bad == { t \in SUBSET S : t # {} /\ Tops(t) = {} }
<1>1. Bad \in SUBSET (SUBSET S)
  OBVIOUS
<1>2. SUFFICES ASSUME Bad # {} PROVE FALSE
  OBVIOUS
<1>3. PICK t \in Bad : \A u \in Bad : u \subseteq t => u = t
  <2> HIDE DEF Bad
  <2> QED BY <1>1, <1>2, SmallestSubset
<1>4. t \in SUBSET S /\ t # {} /\ Tops(t) = {}
  BY <1>3
<1>5. PICK x : x \in t
  BY <1>4
<1> DEFINE others == t \ {x}
<1>6. CASE others = {}
  <2>1. x \in Tops(t)
    BY <1>5, <1>6
  <2> QED BY <1>4, <2>1
<1>7. CASE others # {}
  <2>1. others \notin Bad
    <3> HIDE DEF Bad
    <3> QED BY <1>3, <1>5
  <2>2. PICK g \in others : \A y \in others : y = g \/ <<y, g>> \in R
    BY <1>4, <1>7, <2>1
  <2>3. x \in S /\ g \in S /\ x # g /\ \A y \in t : y \in S
    BY <1>4, <1>5, <2>2
  <2>4. CASE <<x, g>> \in R
    <3>1. g \in Tops(t)
      BY <2>2, <2>4
    <3> QED BY <1>4, <3>1
  <2>5. CASE <<g, x>> \in R
    <3>1. \A y \in t : y = x \/ <<y, x>> \in R
      BY <2>2, <2>3, <2>5 DEF Total
    <3>2. x \in Tops(t)
      BY <1>5, <3>1
    <3> QED BY <1>4, <3>2
  <2> QED BY <2>3, <2>4, <2>5 DEF Total
<1> QED BY <1>6, <1>7

Sorted(s, R) == \A m, n \in DOMAIN s : m < n => <<s[m], s[n]>> \in R

LEMMA Enumerations ==
  ASSUME NEW S, IsFiniteSet(S), NEW s \in SetToSeqs(S)
  PROVE  /\ DOMAIN s = 1 .. Cardinality(S) /\ Cardinality(S) \in Nat
         /\ s \in Seq(S) /\ Len(s) = Cardinality(S)
         /\ \A m, n \in DOMAIN s : m # n => s[m] # s[n]
         /\ Range(s) = S
<1>1. /\ s \in [1 .. Cardinality(S) -> S] /\ DOMAIN s = 1 .. Cardinality(S)
      /\ Cardinality(S) \in Nat
      /\ \A m, n \in 1 .. Cardinality(S) : m # n => s[m] # s[n]
  BY FS_CardinalityType DEF SetToSeqs
<1>2. s \in Seq(S) /\ Len(s) = Cardinality(S)
  BY <1>1, SeqDef, LenProperties
<1>3. Range(s) = S
  <2>1. IsFiniteSet(1 .. Cardinality(S)) /\ Cardinality(1 .. Cardinality(S)) = Cardinality(S)
    BY <1>1, FS_Interval
  <2>2. s \in Injection(1 .. Cardinality(S), S)
    BY <1>1 DEF Injection, IsInjective
  <2>3. s \in Surjection(1 .. Cardinality(S), S)
    BY <2>1, <2>2, FS_Injection
  <2> QED
    BY <1>1, <2>3 DEF Surjection, Range
<1> QED
  BY <1>1, <1>2, <1>3

\* A finite set can be put in a total order.
LEMMA SortedExists ==
  ASSUME NEW S, IsFiniteSet(S), NEW R, Total(S, R)
  PROVE  \E s \in SetToSeqs(S) : Sorted(s, R)
<1> DEFINE Fine(T) == \E s \in SetToSeqs(T) : Sorted(s, R)
           Bad == { T \in SUBSET S : ~Fine(T) }
<1>1. SUFFICES ASSUME Bad # {} PROVE FALSE
  OBVIOUS
<1>2. Bad \in SUBSET (SUBSET S)
  OBVIOUS
<1>3. PICK T \in Bad : \A U \in Bad : U \subseteq T => U = T
  <2> HIDE DEF Bad
  <2> QED BY <1>1, <1>2, SmallestSubset
<1>4. T \in SUBSET S /\ ~Fine(T) /\ IsFiniteSet(T)
  BY FS_Subset
<1>5. CASE T = {}
  <2> DEFINE s == [i \in 1 .. 0 |-> i]
  <2>1. Cardinality(T) = 0
    BY <1>5, FS_EmptySet
  <2>2. s \in [1 .. Cardinality(T) -> T] /\ DOMAIN s = {} /\ 1 .. 0 = {}
    BY <1>5, <2>1
  <2>3. s \in SetToSeqs(T) /\ Sorted(s, R)
    <3> HIDE DEF s
    <3> QED BY <2>1, <2>2 DEF SetToSeqs, Sorted
  <2> QED BY <1>4, <2>3
<1>6. CASE T # {}
  <2>1. PICK g \in T : \A x \in T : x = g \/ <<x, g>> \in R
    BY <1>4, <1>6, Greatest
  <2> DEFINE U == T \ {g}
             k == Cardinality(T)
  <2>2. U \in SUBSET S /\ U \notin Bad /\ IsFiniteSet(U)
    <3> HIDE DEF Bad
    <3> QED BY <1>3, <1>4, <2>1, FS_Subset
  <2>3. PICK s \in SetToSeqs(U) : Sorted(s, R)
    BY <2>2
  <2>4. Cardinality(U) = k - 1 /\ k \in Nat
    BY <1>4, <2>1, FS_RemoveElement, FS_CardinalityType
  <2>5. /\ DOMAIN s = 1 .. (k - 1) /\ k >= 1
        /\ \A m \in 1 .. (k - 1) : s[m] \in U
        /\ \A m, n \in 1 .. (k - 1) : m # n => s[m] # s[n]
    <3>1. DOMAIN s = 1 .. Cardinality(U) /\ Cardinality(U) \in Nat /\ Range(s) = U
          /\ \A m, n \in DOMAIN s : m # n => s[m] # s[n]
      BY <2>2, <2>3, Enumerations
    <3>2. \A m \in DOMAIN s : s[m] \in U
      BY <3>1 DEF Range
    <3> HIDE DEF k, U
    <3> QED BY <2>4, <3>1, <3>2
  <2> DEFINE longer == [i \in 1 .. k |-> IF i = k THEN g ELSE s[i]]
  <2> HIDE DEF k
  <2>6. \A i \in 1 .. k : i = k \/ i \in 1 .. (k - 1)
    BY <2>4
  <2>7. longer \in [1 .. k -> T]
    BY <2>1, <2>5, <2>6
  <2>8. \A m, n \in 1 .. k : m # n => longer[m] # longer[n]
    BY <2>5, <2>6
  <2>9. Sorted(longer, R)
    <3> SUFFICES ASSUME NEW m \in 1 .. k, NEW n \in 1 .. k, m < n
                 PROVE  <<longer[m], longer[n]>> \in R
      BY DEF Sorted
    <3>1. m \in 1 .. (k - 1) /\ longer[m] = s[m]
      BY <2>4, <2>6
    <3>2. CASE n = k
      BY <2>1, <2>5, <3>1, <3>2
    <3>3. CASE n # k
      <4>1. n \in 1 .. (k - 1) /\ longer[n] = s[n]
        BY <2>6, <3>3
      <4> QED BY <2>3, <2>5, <3>1, <4>1 DEF Sorted
    <3> QED BY <3>2, <3>3
  <2>10. longer \in SetToSeqs(T)
    <3> HIDE DEF longer
    <3> QED BY <2>7, <2>8 DEF SetToSeqs, k
  <2> QED BY <1>4, <2>9, <2>10
<1> QED BY <1>5, <1>6

----------------------------------------------------------------------------
(* The rows loaded, and those to take.                                     *)

\* The two orders as sets of pairs of rows.
Queried(rows, S) == { p \in S \X S : QueriedBefore(rows, p[1], p[2]) }

Taken(rows, S) == { p \in S \X S : TakenBefore(rows, p[1], p[2]) }

InQueryOrder(rows) ==
  CHOOSE s \in SetToSeqs(DOMAIN rows) :
    \A m, n \in DOMAIN s : m < n => QueriedBefore(rows, s[m], s[n])

LEMMA LoadedIs ==
  ASSUME NEW rows
  PROVE  Loaded(rows) = SubSeq(InQueryOrder(rows), 1, Min({MaxResults, Len(rows)}))
BY DEF Loaded, InOrder, InQueryOrder

LEMMA EligibleIs ==
  ASSUME NEW rows
  PROVE  Eligible(rows) = CHOOSE s \in SetToSeqs(InStock(rows)) :
           \A m, n \in DOMAIN s : m < n => TakenBefore(rows, s[m], s[n])
BY DEF Eligible, InOrder

LEMMA RowFields ==
  ASSUME ViewsAssumption, NEW rows \in Seq(Balances), NEW i \in DOMAIN rows
  PROVE  /\ rows[i].expires \in Int \/ rows[i].expires = Never
         /\ rows[i].made \in Int /\ rows[i].quantity \in Int
         /\ i \in Nat /\ Never \notin Int
<1>1. rows[i] \in Balances /\ i \in Nat
  OBVIOUS
<1>2. \A b \in Balances :
        (b.expires \in Int \/ b.expires = Never) /\ b.made \in Int /\ b.quantity \in Int
  BY DEF Balances, Expiries
<1> QED
  BY <1>1, <1>2 DEF ViewsAssumption

LEMMA OrdersTotal ==
  ASSUME ViewsAssumption, NEW rows \in Seq(Balances), NEW S, S \subseteq DOMAIN rows
  PROVE  /\ Total(S, Queried(rows, S)) /\ Total(S, Taken(rows, S))
         /\ \A x, y \in S : <<x, y>> \in Queried(rows, S) <=> QueriedBefore(rows, x, y)
         /\ \A x, y \in S : <<x, y>> \in Taken(rows, S) <=> TakenBefore(rows, x, y)
<1>1. /\ \A x, y \in S : <<x, y>> \in Queried(rows, S) <=> QueriedBefore(rows, x, y)
      /\ \A x, y \in S : <<x, y>> \in Taken(rows, S) <=> TakenBefore(rows, x, y)
  BY DEF Queried, Taken
<1>2. ASSUME NEW x \in S
      PROVE  ~QueriedBefore(rows, x, x) /\ ~TakenBefore(rows, x, x)
  BY RowFields DEF QueriedBefore, TakenBefore, ExpiresBefore
<1>3. ASSUME NEW x \in S, NEW y \in S
      PROVE  /\ x = y \/ QueriedBefore(rows, x, y) \/ QueriedBefore(rows, y, x)
             /\ x = y \/ TakenBefore(rows, x, y) \/ TakenBefore(rows, y, x)
  <2>1. /\ rows[x].expires \in Int \/ rows[x].expires = Never
        /\ rows[y].expires \in Int \/ rows[y].expires = Never
        /\ rows[x].made \in Int /\ rows[y].made \in Int
        /\ x \in Nat /\ y \in Nat /\ Never \notin Int
    BY RowFields
  <2> QED BY <2>1 DEF QueriedBefore, TakenBefore, ExpiresBefore
<1>4. ASSUME NEW x \in S, NEW y \in S, NEW z \in S
      PROVE  /\ QueriedBefore(rows, x, y) /\ QueriedBefore(rows, y, z)
                  => QueriedBefore(rows, x, z)
             /\ TakenBefore(rows, x, y) /\ TakenBefore(rows, y, z)
                  => TakenBefore(rows, x, z)
  <2>1. /\ rows[x].expires \in Int \/ rows[x].expires = Never
        /\ rows[y].expires \in Int \/ rows[y].expires = Never
        /\ rows[z].expires \in Int \/ rows[z].expires = Never
        /\ rows[x].made \in Int /\ rows[y].made \in Int /\ rows[z].made \in Int
        /\ x \in Nat /\ y \in Nat /\ z \in Nat /\ Never \notin Int
    BY RowFields
  <2> QED BY <2>1 DEF QueriedBefore, TakenBefore, ExpiresBefore
<1>5. Total(S, Queried(rows, S))
  <2> DEFINE R == Queried(rows, S)
  <2>1. \A x, y \in S : <<x, y>> \in R <=> QueriedBefore(rows, x, y)
    BY <1>1
  <2>2. /\ \A x \in S : <<x, x>> \notin R
        /\ \A x, y \in S : x = y \/ <<x, y>> \in R \/ <<y, x>> \in R
        /\ \A x, y, z \in S : <<x, y>> \in R /\ <<y, z>> \in R => <<x, z>> \in R
    <3> HIDE DEF R
    <3> QED BY <1>2, <1>3, <1>4, <2>1
  <2> QED BY <2>2 DEF Total
<1>6. Total(S, Taken(rows, S))
  <2> DEFINE R == Taken(rows, S)
  <2>1. \A x, y \in S : <<x, y>> \in R <=> TakenBefore(rows, x, y)
    BY <1>1
  <2>2. /\ \A x \in S : <<x, x>> \notin R
        /\ \A x, y \in S : x = y \/ <<x, y>> \in R \/ <<y, x>> \in R
        /\ \A x, y, z \in S : <<x, y>> \in R /\ <<y, z>> \in R => <<x, z>> \in R
    <3> HIDE DEF R
    <3> QED BY <1>2, <1>3, <1>4, <2>1
  <2> QED BY <2>2 DEF Total
<1> QED
  BY <1>1, <1>5, <1>6

\* Each element once.
Distinct(s) == \A m, n \in DOMAIN s : m # n => s[m] # s[n]

LEMMA QueryOrder ==
  ASSUME ViewsAssumption, NEW rows \in Seq(Balances)
  PROVE  /\ IsFiniteSet(DOMAIN rows) /\ Cardinality(DOMAIN rows) = Len(rows)
         /\ InQueryOrder(rows) \in SetToSeqs(DOMAIN rows)
         /\ \A m, n \in DOMAIN InQueryOrder(rows) :
              m < n => QueriedBefore(rows, InQueryOrder(rows)[m], InQueryOrder(rows)[n])
<1> DEFINE S == DOMAIN rows
<1>1. S = 1 .. Len(rows) /\ Len(rows) \in Nat
  OBVIOUS
<1>2. IsFiniteSet(S) /\ Cardinality(S) = Len(rows)
  <2> HIDE DEF S
  <2> QED BY <1>1, FS_Interval
<1>3. S \subseteq DOMAIN rows
  OBVIOUS
<1>4. PICK s \in SetToSeqs(S) : Sorted(s, Queried(rows, S))
  <2> HIDE DEF S
  <2> QED BY <1>2, <1>3, OrdersTotal, SortedExists
<1>5. \A m, n \in DOMAIN s : m < n => QueriedBefore(rows, s[m], s[n])
  <2> HIDE DEF S
  <2>1. \A m \in DOMAIN s : s[m] \in S
    BY <1>2, Enumerations DEF Range
  <2> QED BY <1>3, <1>4, <2>1, OrdersTotal DEF Sorted
<1>6. \E c \in SetToSeqs(DOMAIN rows) :
        \A m, n \in DOMAIN c : m < n => QueriedBefore(rows, c[m], c[n])
  BY <1>4, <1>5
<1>7. /\ InQueryOrder(rows) \in SetToSeqs(DOMAIN rows)
      /\ \A m, n \in DOMAIN InQueryOrder(rows) :
           m < n => QueriedBefore(rows, InQueryOrder(rows)[m], InQueryOrder(rows)[n])
  BY <1>6, Zenon DEF InQueryOrder
<1> QED
  BY <1>2, <1>7

LEMMA LoadedFacts ==
  ASSUME ViewsAssumption, NEW rows \in Seq(Balances)
  PROVE  /\ Loaded(rows) \in Seq(DOMAIN rows) /\ Distinct(Loaded(rows))
         /\ Range(Loaded(rows)) \subseteq DOMAIN rows /\ IsFiniteSet(Range(Loaded(rows)))
         /\ \A j \in Range(Loaded(rows)), i \in DOMAIN rows \ Range(Loaded(rows)) :
              QueriedBefore(rows, j, i)
<1> DEFINE S == DOMAIN rows
           o == InQueryOrder(rows)
           top == Min({MaxResults, Len(rows)})
           s == SubSeq(o, 1, top)
<1>1. /\ IsFiniteSet(S) /\ Cardinality(S) = Len(rows) /\ o \in SetToSeqs(S)
      /\ \A m, n \in DOMAIN o : m < n => QueriedBefore(rows, o[m], o[n])
  BY QueryOrder
<1>2. /\ DOMAIN o = 1 .. Len(rows) /\ Len(rows) \in Nat
      /\ o \in Seq(S) /\ Len(o) = Len(rows)
      /\ \A m, n \in DOMAIN o : m # n => o[m] # o[n]
      /\ Range(o) = S
  <2> HIDE DEF S, o
  <2> QED BY <1>1, Enumerations
<1>3. top \in 0 .. Len(rows)
  <2>1. MaxResults \in Nat /\ Len(rows) \in Nat
    BY ViewsAssumption, <1>2 DEF ViewsAssumption
  <2>2. \E x \in {MaxResults, Len(rows)} : \A y \in {MaxResults, Len(rows)} : x <= y
    BY <2>1
  <2> QED BY <2>1, <2>2 DEF Min
<1>4. Loaded(rows) = s
  BY LoadedIs
<1> HIDE DEF S, o, top
<1>5. s \in Seq(S) /\ Len(s) = top /\ DOMAIN s = 1 .. top /\ \A i \in 1 .. top : s[i] = o[i]
  BY <1>2, <1>3, SubSeqProperties
<1> HIDE DEF s
<1>6. Distinct(s)
  BY <1>2, <1>3, <1>5 DEF Distinct
<1>7. Range(s) \subseteq S /\ IsFiniteSet(Range(s))
  <2>1. Range(s) \subseteq S
    BY <1>5 DEF Range
  <2> QED BY <1>1, <2>1, FS_Subset
<1>8. ASSUME NEW j \in Range(s), NEW i \in S \ Range(s)
      PROVE  QueriedBefore(rows, j, i)
  <2>1. PICK m \in 1 .. top : j = o[m]
    BY <1>5 DEF Range
  <2>2. PICK n \in 1 .. Len(rows) : i = o[n]
    BY <1>2 DEF Range
  <2>3. n \notin 1 .. top
    BY <1>5, <2>2 DEF Range
  <2> QED BY <1>1, <1>2, <1>3, <2>1, <2>2, <2>3
<1> QED
  BY <1>4, <1>5, <1>6, <1>7, <1>8 DEF S

LEMMA EligibleFacts ==
  ASSUME ViewsAssumption, NEW rows \in Seq(Balances)
  PROVE  /\ Eligible(rows) \in Seq(InStock(rows)) /\ Distinct(Eligible(rows))
         /\ Range(Eligible(rows)) = InStock(rows)
         /\ \A m, n \in DOMAIN Eligible(rows) :
              m < n => TakenBefore(rows, Eligible(rows)[m], Eligible(rows)[n])
<1> DEFINE S == InStock(rows)
           e == Eligible(rows)
<1>1. S \subseteq DOMAIN rows /\ IsFiniteSet(S)
  <2>1. S \subseteq Range(Loaded(rows))
    BY DEF InStock
  <2> QED BY <2>1, LoadedFacts, FS_Subset
<1>2. PICK s \in SetToSeqs(S) : Sorted(s, Taken(rows, S))
  <2> HIDE DEF S
  <2> QED BY <1>1, OrdersTotal, SortedExists
<1>3. \A m, n \in DOMAIN s : m < n => TakenBefore(rows, s[m], s[n])
  <2> HIDE DEF S
  <2>1. \A m \in DOMAIN s : s[m] \in S
    BY <1>1, <1>2, Enumerations DEF Range
  <2> QED BY <1>1, <1>2, <2>1, OrdersTotal DEF Sorted
<1>4. /\ e \in SetToSeqs(S)
      /\ \A m, n \in DOMAIN e : m < n => TakenBefore(rows, e[m], e[n])
  BY <1>2, <1>3, EligibleIs, Zenon
<1>5. e \in Seq(S) /\ Range(e) = S /\ \A m, n \in DOMAIN e : m # n => e[m] # e[n]
  <2> HIDE DEF S, e
  <2> QED BY <1>1, <1>4, Enumerations
<1> QED
  BY <1>4, <1>5 DEF Distinct

LEMMA AskedFacts ==
  ASSUME ViewsAssumption, NEW q \in Questions
  PROVE  /\ q.rows \in Seq(Balances) /\ q.view \in {"fefo", "aging"}
         /\ q.view = "fefo" => q.wanted \in Nat \ {0}
         /\ q.view = "aging" =>
              /\ q.bounds \in Seq(Nat \ {0}) /\ Len(q.bounds) \in Nat /\ Len(q.bounds) >= 2
              /\ \A k, l \in DOMAIN q.bounds : k < l => q.bounds[k] < q.bounds[l]
<1>1. Asked(q)
  BY DEF ViewsAssumption
<1>2. CASE q \in [view : {"fefo"}, rows : Seq(Balances), wanted : Nat \ {0}]
  BY <1>2
<1>3. CASE /\ q \in [view : {"aging"}, rows : Seq(Balances), bounds : Seq(Nat \ {0})]
           /\ Len(q.bounds) \in 2 .. 8
           /\ \A k, l \in DOMAIN q.bounds : k < l => q.bounds[k] < q.bounds[l]
  <2>1. /\ q.rows \in Seq(Balances) /\ q.view = "aging"
        /\ q.bounds \in Seq(Nat \ {0})
    BY <1>3
  <2>2. Len(q.bounds) \in Nat /\ Len(q.bounds) >= 2
    <3>1. Len(q.bounds) \in 2 .. 8
      BY <1>3, Zenon
    <3>2. \A n \in 2 .. 8 : n \in Nat /\ n >= 2
      OBVIOUS
    <3> QED BY <3>1, <3>2, Zenon
  <2>3. \A k, l \in DOMAIN q.bounds : k < l => q.bounds[k] < q.bounds[l]
    BY <1>3, Zenon
  <2> QED
    BY <2>1, <2>2, <2>3, Zenon
<1> QED
  BY <1>1, <1>2, <1>3 DEF Asked

\* What is left of the rows after the first.
LEMMA RestFacts ==
  ASSUME NEW S, NEW s \in Seq(S), s # <<>>, Distinct(s)
  PROVE  /\ Head(s) \in Range(s) /\ Head(s) \notin Range(Tail(s))
         /\ Range(s) = Range(Tail(s)) \cup {Head(s)}
         /\ Tail(s) \in Seq(S) /\ Distinct(Tail(s))
         /\ \A n \in DOMAIN Tail(s) : n + 1 \in DOMAIN s /\ Tail(s)[n] = s[n + 1]
         /\ 1 \in DOMAIN s /\ Head(s) = s[1]
<1>1. /\ Tail(s) \in Seq(S) /\ Len(Tail(s)) = Len(s) - 1 /\ Len(s) \in Nat /\ Len(s) >= 1
      /\ \A n \in 1 .. Len(Tail(s)) : Tail(s)[n] = s[n + 1]
      /\ Head(s) = s[1] /\ DOMAIN s = 1 .. Len(s) /\ DOMAIN Tail(s) = 1 .. Len(Tail(s))
  BY HeadTailProperties, EmptySeq, LenProperties
<1> DEFINE t == Tail(s)
           h == Head(s)
<1>2. /\ \A n \in DOMAIN t : n \in Nat /\ n >= 1 /\ n + 1 \in DOMAIN s /\ t[n] = s[n + 1]
      /\ 1 \in DOMAIN s /\ h = s[1] /\ \A n \in DOMAIN s : n \in Nat /\ n >= 1
      /\ \A n \in DOMAIN s : n = 1 \/ (n - 1 \in DOMAIN t /\ t[n - 1] = s[n])
  BY <1>1
<1> HIDE DEF t, h
<1>3. h \in Range(s) /\ h \notin Range(t)
  BY <1>2 DEF Range, Distinct
<1>4. Distinct(t)
  BY <1>2 DEF Distinct
<1>5. Range(s) = Range(t) \cup {h}
  <2>1. ASSUME NEW x \in Range(s) PROVE x = h \/ x \in Range(t)
    <3>1. PICK n \in DOMAIN s : x = s[n]
      BY DEF Range
    <3> QED BY <1>2, <3>1 DEF Range
  <2>2. ASSUME NEW x \in Range(t) PROVE x \in Range(s)
    BY <1>2 DEF Range
  <2> QED BY <1>3, <2>1, <2>2
<1> QED
  BY <1>1, <1>2, <1>3, <1>4, <1>5 DEF t, h

----------------------------------------------------------------------------
(* The bands of the aging report.                                          *)

\* The bounds, by their position, that lie below some days.
Below(n, bounds, days) == { k \in 1 .. n : bounds[k] < days }

\* The bounds below a number of days are the first ones.
LEMMA BelowIsPrefix ==
  ASSUME NEW n \in Nat, NEW bounds \in [1 .. n -> Nat], NEW days \in Int,
         \A k, l \in 1 .. n : k < l => bounds[k] < bounds[l]
  PROVE  \E c \in 0 .. n : /\ Below(n, bounds, days) = 1 .. c
                           /\ Cardinality(Below(n, bounds, days)) = c
<1> USE DEF Below
<1> DEFINE below == Below(n, bounds, days)
           above == (1 .. (n + 1)) \ below
<1>1. above \in SUBSET Nat /\ n + 1 \in above
  OBVIOUS
<1>2. PICK k \in above : \A m \in above : k <= m
  <2> HIDE DEF above
  <2> QED BY <1>1, LeastNatural
<1>3. k \in 1 .. (n + 1) /\ k \notin below
  BY <1>2
<1>4. \A m \in 1 .. (k - 1) : m \in below
  <2> SUFFICES ASSUME NEW m \in 1 .. (k - 1), m \notin below PROVE FALSE
    OBVIOUS
  <2>1. m \in 1 .. (n + 1) /\ m < k
    BY <1>3
  <2>2. m \in above
    BY <2>1
  <2> HIDE DEF above
  <2> QED BY <1>2, <1>3, <2>1, <2>2
<1>5. \A m \in below : m < k
  <2> SUFFICES ASSUME NEW m \in 1 .. n, bounds[m] < days, m >= k PROVE FALSE
    BY <1>3
  <2>1. k \in 1 .. n
    BY <1>3
  <2>2. bounds[k] <= bounds[m] /\ bounds[k] \in Nat /\ bounds[m] \in Nat
    BY <2>1
  <2>3. bounds[k] < days
    BY <2>2
  <2> QED BY <1>3, <2>1, <2>3
<1>6. below = 1 .. (k - 1) /\ k - 1 \in 0 .. n
  <2>1. ASSUME NEW m \in below PROVE m \in 1 .. (k - 1)
    <3>1. m \in Nat /\ m >= 1 /\ k \in Nat
      BY <1>3
    <3>2. m < k
      BY <1>5
    <3> HIDE DEF below
    <3> QED BY <3>1, <3>2
  <2>2. k - 1 \in 0 .. n
    BY <1>3
  <2> HIDE DEF below
  <2> QED BY <1>4, <2>1, <2>2
<1>7. Cardinality(1 .. (k - 1)) = k - 1
  BY <1>6, FS_Interval
<1> QED
  BY <1>6, <1>7

Bands == [from : Int \cup {Never}, to : Int \cup {Never}, quantity : Int, lots : Int]

\* The list of bands, but for what has been counted in each.
Banded(list, bounds) ==
  LET n == Len(bounds)
  IN  /\ list \in Seq(Bands)
      /\ Len(list) = n + 3
      /\ list[1].from = Never /\ list[n + 3].from = Never
      /\ \A k \in 1 .. n : /\ list[k + 1].from = IF k = 1 THEN 0 ELSE bounds[k - 1] + 1
                           /\ list[k + 1].to = bounds[k]
      /\ list[n + 2].from = bounds[n] + 1 /\ list[n + 2].to = Never

\* The band a balance is counted in is the one its days belong to.
LEMMA BandChosen ==
  ASSUME ViewsAssumption, NEW bounds \in Seq(Nat \ {0}), Len(bounds) >= 2,
         \A k, l \in DOMAIN bounds : k < l => bounds[k] < bounds[l],
         NEW list, Banded(list, bounds), NEW days, days \in Int \/ days = Never
  PROVE  SelectBucket(list, days) = BandOf(days, bounds) /\ BandOf(days, bounds) \in DOMAIN list
<1> DEFINE n == Len(bounds)
<1>1. /\ n \in Nat /\ n >= 2 /\ DOMAIN bounds = 1 .. n /\ Never \notin Int
      /\ \A k \in 1 .. n : bounds[k] \in Nat /\ bounds[k] > 0
      /\ DOMAIN list = 1 .. (n + 3) /\ Len(list) = n + 3
  <2>1. n \in Nat /\ n >= 2 /\ DOMAIN bounds = 1 .. n
    OBVIOUS
  <2>2. \A k \in 1 .. n : bounds[k] \in Nat /\ bounds[k] > 0
    OBVIOUS
  <2>3. Never \notin Int
    BY DEF ViewsAssumption
  <2>4. Len(list) = n + 3 /\ \E S : list \in Seq(S)
    BY DEF Banded
  <2>5. DOMAIN list = 1 .. (n + 3)
    BY <2>4, LenProperties
  <2> QED BY <2>1, <2>2, <2>3, <2>4, <2>5
<1>2. CASE days = Never
  BY <1>1, <1>2 DEF SelectBucket, BandOf
<1>3. CASE days \in Int /\ days < 0
  <2>1. days # Never
    BY <1>1, <1>3
  <2> QED BY <1>1, <1>3, <2>1 DEF SelectBucket, BandOf
<1>4. CASE days \in Int /\ days >= 0
  <2> DEFINE within(b) == b.from # Never /\ days >= b.from /\ (b.to = Never \/ days <= b.to)
             found == { k \in DOMAIN list : within(list[k]) }
             below == Below(n, bounds, days)
  <2>1. PICK c \in 0 .. n : below = 1 .. c /\ Cardinality(below) = c
    <3>1. bounds \in [1 .. n -> Nat]
      BY <1>1
    <3>2. n \in Nat /\ days \in Int /\ \A k, l \in 1 .. n : k < l => bounds[k] < bounds[l]
      BY <1>1, <1>4
    <3> HIDE DEF n
    <3> QED BY <3>1, <3>2, BelowIsPrefix
  <2>2. BandOf(days, bounds) = c + 2
    <3>1. days # Never /\ ~(days < 0)
      BY <1>1, <1>4
    <3>2. { k \in DOMAIN bounds : bounds[k] < days } = below
      BY <1>1 DEF Below
    <3> HIDE DEF below
    <3>3. BandOf(days, bounds) = 2 + Cardinality(below)
      BY <3>1, <3>2 DEF BandOf
    <3> QED BY <2>1, <3>3
  <2>3. c + 2 \in DOMAIN list /\ \A k \in 1 .. n : k \in below <=> k <= c
    <3>1. n \in Nat /\ DOMAIN list = 1 .. (n + 3)
      BY <1>1
    <3> HIDE DEF below, n
    <3> QED BY <2>1, <3>1
  <2>4. found = {c + 2}
    <3>1. ASSUME NEW k \in 1 .. n PROVE within(list[k + 1]) <=> k = c + 1
      <4> DEFINE b == list[k + 1]
      <4>1. /\ b.from = IF k = 1 THEN 0 ELSE bounds[k - 1] + 1
            /\ b.to = bounds[k]
        BY DEF Banded
      <4>2. /\ bounds[k] \in Nat /\ k \in Nat /\ k >= 1 /\ k <= n
            /\ k # 1 => k - 1 \in 1 .. n /\ bounds[k - 1] \in Nat
        BY <1>1
      <4>3. b.from \in Int /\ b.to \in Int
        <5> HIDE DEF b
        <5> QED BY <4>1, <4>2
      <4>4. b.from # Never /\ b.to # Never
        BY <1>1, <4>3
      <4>5. days >= b.from <=> k <= c + 1
        <5>1. CASE k = 1
          <6> HIDE DEF b
          <6> QED BY <1>4, <4>1, <4>2, <5>1
        <5>2. CASE k # 1
          <6>1. days >= b.from <=> bounds[k - 1] < days
            <7>1. PICK low \in Nat : low = bounds[k - 1] /\ b.from = low + 1
              BY <4>1, <4>2, <5>2
            <7>2. days >= low + 1 <=> low < days
              BY <1>4
            <7> QED BY <7>1, <7>2, Zenon
          <6>2. (k - 1 \in below <=> k - 1 <= c) /\ (k - 1 <= c <=> k <= c + 1)
            <7> HIDE DEF below
            <7> QED BY <2>1, <2>3, <4>2, <5>2
          <6>3. k - 1 \in below <=> bounds[k - 1] < days
            BY <4>2, <5>2 DEF Below
          <6> QED BY <6>1, <6>2, <6>3, Zenon
        <5> QED BY <5>1, <5>2
      <4>6. days <= b.to <=> ~(k <= c)
        <5>1. k \in below <=> k <= c
          BY <2>3
        <5>2. k \in below <=> bounds[k] < days
          BY DEF Below
        <5>3. days <= bounds[k] <=> ~(bounds[k] < days)
          BY <1>4, <4>2
        <5> QED BY <4>1, <5>1, <5>2, <5>3
      <4> HIDE DEF b
      <4>7. (b.from # Never /\ days >= b.from /\ (b.to = Never \/ days <= b.to)) <=> k = c + 1
        BY <4>2, <4>4, <4>5, <4>6
      <4> QED BY <4>7 DEF b
    <3>2. within(list[n + 2]) <=> c = n
      <4> DEFINE b == list[n + 2]
      <4>1. b.from = bounds[n] + 1 /\ b.to = Never
        BY DEF Banded
      <4>2. bounds[n] \in Nat /\ n \in 1 .. n
        BY <1>1
      <4>3. b.from # Never /\ (days >= b.from <=> bounds[n] < days)
        <5> HIDE DEF b
        <5> QED BY <1>1, <1>4, <4>1, <4>2
      <4>4. bounds[n] < days <=> n <= c
        <5>1. n \in below <=> bounds[n] < days
          BY <4>2 DEF Below
        <5> HIDE DEF below
        <5> QED BY <2>3, <4>2, <5>1
      <4>6. n <= c <=> c = n
        <5> HIDE DEF n, below
        <5> QED BY <1>1, <2>1
      <4> HIDE DEF b
      <4>5. (b.from # Never /\ days >= b.from /\ (b.to = Never \/ days <= b.to)) <=> c = n
        BY <4>1, <4>3, <4>4, <4>6, Zenon
      <4> QED BY <4>5 DEF b
    <3>3. ~within(list[1]) /\ ~within(list[n + 3])
      BY DEF Banded
    <3>4. \A j \in 1 .. (n + 3) : j = 1 \/ j = n + 2 \/ j = n + 3 \/ (j - 1 \in 1 .. n /\ j = (j - 1) + 1)
      <4>1. n \in Nat
        BY <1>1
      <4> HIDE DEF n, below, found
      <4> QED BY <4>1
    <3>5. ASSUME NEW j \in DOMAIN list PROVE within(list[j]) <=> j = c + 2
      <4> HIDE DEF within
      <4>1. j \in 1 .. (n + 3) /\ j \in Nat
        BY <1>1
      <4>2. CASE j - 1 \in 1 .. n
        <5>1. within(list[(j - 1) + 1]) <=> j - 1 = c + 1
          BY <3>1, <4>2
        <5>2. (j - 1) + 1 = j
          BY <4>1
        <5> QED BY <2>1, <4>1, <5>1, <5>2
      <4>3. CASE j = n + 2
        <5>1. within(list[j]) <=> c = n
          BY <3>2, <4>3
        <5>2. c = n <=> j = c + 2
          <6> HIDE DEF n, below
          <6> QED BY <1>1, <2>1, <4>3
        <5> QED BY <5>1, <5>2
      <4>4. CASE j = 1 \/ j = n + 3
        <5>1. ~within(list[j])
          BY <3>3, <4>4
        <5>2. j # c + 2
          BY <1>1, <2>1, <4>4
        <5> QED BY <5>1, <5>2
      <4> QED BY <3>4, <4>1, <4>2, <4>3, <4>4
    <3> HIDE DEF within
    <3> QED BY <2>3, <3>5
  <2>5. Min({c + 2}) = c + 2
    BY DEF Min
  <2>6. days # Never /\ ~(days < 0)
    BY <1>1, <1>4
  <2>7. SelectBucket(list, days) = c + 2
    <3>1. SelectBucket(list, days) = IF found = {} THEN Len(list) - 1 ELSE Min(found)
      BY <2>6 DEF SelectBucket
    <3> HIDE DEF found
    <3> QED BY <2>4, <2>5, <3>1
  <2> QED BY <2>2, <2>3, <2>7
<1> QED
  BY <1>2, <1>3, <1>4

Quantity(rows) == [i \in DOMAIN rows |-> rows[i].quantity]

\* The balances of seen that are counted in band k.
Counted(rows, bounds, seen, k) ==
  { i \in seen : rows[i].quantity > 0 /\ BandOf(rows[i].expires, bounds) = k }

\* Every band holds what was seen of it, togo being still to come.
Tallied(rows, bounds, togo, list) ==
  /\ Banded(list, bounds)
  /\ togo \in Seq(DOMAIN rows) /\ Distinct(togo)
  /\ Range(togo) \subseteq Range(Loaded(rows))
  /\ \A k \in DOMAIN list :
       LET counted == Counted(rows, bounds, Range(Loaded(rows)) \ Range(togo), k)
       IN  /\ list[k].quantity = SumFunctionOnSet(Quantity(rows), counted)
           /\ list[k].lots = Cardinality(counted)

LEMMA UnitsIs ==
  ASSUME ViewsAssumption, Rows \in Seq(Balances), NEW T, T \subseteq DOMAIN Rows
  PROVE  Units(T) = SumFunctionOnSet(Quantity(Rows), T)
<1> DEFINE f == [i \in T |-> Rows[i].quantity]
<1>1. IsFiniteSet(T)
  BY QueryOrder, FS_Subset
<1>2. \A i \in T : f[i] = Quantity(Rows)[i]
  BY DEF Quantity
<1>3. Units(T) = SumFunctionOnSet(f, T)
  BY DEF Units, SumFunction
<1> HIDE DEF f
<1> QED
  BY <1>1, <1>2, <1>3, SumCongruent

LEMMA QuantityInt ==
  ASSUME ViewsAssumption, NEW rows \in Seq(Balances)
  PROVE  \A i \in DOMAIN rows : Quantity(rows)[i] = rows[i].quantity /\ Quantity(rows)[i] \in Int
BY RowFields DEF Quantity

LEMMA BucketFields ==
  ASSUME NEW from \in Int \cup {Never}, NEW to \in Int \cup {Never}
  PROVE  /\ Bucket(from, to) \in Bands
         /\ Bucket(from, to).from = from /\ Bucket(from, to).to = to
         /\ Bucket(from, to).quantity = 0 /\ Bucket(from, to).lots = 0
BY DEF Bucket, Bands

LEMMA Appended ==
  ASSUME NEW S, NEW s \in Seq(S), NEW t \in Seq(S)
  PROVE  /\ s \o t \in Seq(S) /\ Len(s \o t) = Len(s) + Len(t)
         /\ \A k \in 1 .. Len(s) : (s \o t)[k] = s[k]
         /\ \A k \in 1 .. Len(t) : (s \o t)[Len(s) + k] = t[k]
<1> DEFINE l == s \o t
           c == Len(s)
           d == Len(t)
<1>1. /\ l \in Seq(S) /\ Len(l) = Len(s) + Len(t)
      /\ \A k \in 1 .. Len(s) + Len(t) : l[k] = IF k <= Len(s) THEN s[k] ELSE t[k - Len(s)]
  BY ConcatProperties, Zenon
<1>2. c \in Nat /\ d \in Nat
  OBVIOUS
<1> HIDE DEF l, c, d
<1>3. Len(l) = c + d /\ \A k \in 1 .. (c + d) : l[k] = IF k <= c THEN s[k] ELSE t[k - c]
  BY <1>1 DEF c, d
<1>4. \A k \in 1 .. c : l[k] = s[k]
  BY <1>2, <1>3
<1>5. \A k \in 1 .. d : l[c + k] = t[k]
  <2> SUFFICES ASSUME NEW k \in 1 .. d PROVE l[c + k] = t[k]
    OBVIOUS
  <2>1. c + k \in 1 .. (c + d) /\ ~(c + k <= c) /\ (c + k) - c = k
    BY <1>2
  <2> QED BY <1>3, <2>1
<1> QED
  BY <1>1, <1>2, <1>3, <1>4, <1>5 DEF l, c, d

\* createAgingBuckets: the bands, with nothing counted.
LEMMA BandsCreated ==
  ASSUME ViewsAssumption, NEW bounds \in Seq(Nat \ {0}), Len(bounds) >= 2
  PROVE  /\ Banded(CreateBuckets(bounds), bounds)
         /\ \A k \in DOMAIN CreateBuckets(bounds) :
              CreateBuckets(bounds)[k].quantity = 0 /\ CreateBuckets(bounds)[k].lots = 0
<1> DEFINE n == Len(bounds)
           start(k) == IF k = 1 THEN 0 ELSE bounds[k - 1] + 1
           middle == [k \in DOMAIN bounds |-> Bucket(start(k), bounds[k])]
           list == CreateBuckets(bounds)
<1>1. /\ n \in Nat /\ n >= 2 /\ DOMAIN bounds = 1 .. n
      /\ \A k \in 1 .. n : bounds[k] \in Nat
  OBVIOUS
<1>2. /\ \A k \in 1 .. n : start(k) \in Int \cup {Never} /\ bounds[k] \in Int \cup {Never}
      /\ bounds[n] + 1 \in Int \cup {Never} /\ -1 \in Int \cup {Never}
      /\ Never \in Int \cup {Never}
  <2> HIDE DEF n
  <2>1. \A k \in 1 .. n : k = 1 \/ k - 1 \in 1 .. n
    BY <1>1
  <2> QED BY <1>1, <2>1
<1>3. \A k \in 1 .. n : middle[k] = Bucket(start(k), bounds[k])
  BY <1>1
<1>4. middle \in Seq(Bands) /\ Len(middle) = n
  <2>1. DOMAIN middle = 1 .. n
    BY <1>1
  <2>2. middle = [k \in DOMAIN middle |-> middle[k]]
    OBVIOUS
  <2> HIDE DEF middle, n, start
  <2>3. \A k \in 1 .. n : middle[k] \in Bands
    <3> SUFFICES ASSUME NEW k \in 1 .. n PROVE middle[k] \in Bands
      OBVIOUS
    <3>1. PICK f, g : f = start(k) /\ g = bounds[k]
      OBVIOUS
    <3>2. f \in Int \cup {Never} /\ g \in Int \cup {Never} /\ middle[k] = Bucket(f, g)
      BY <1>2, <1>3, <3>1
    <3> QED BY <3>2, BucketFields
  <2>4. middle \in [1 .. n -> Bands]
    BY <2>1, <2>2, <2>3
  <2> QED BY <1>1, <2>1, <2>4, SeqDef, LenProperties
<1> DEFINE a == Bucket(Never, -1)
           y == Bucket(bounds[n] + 1, Never)
           z == Bucket(Never, Never)
<1>5. list = <<a>> \o middle \o <<y, z>>
  BY DEF CreateBuckets
<1>6. /\ a \in Bands /\ a.from = Never /\ a.quantity = 0 /\ a.lots = 0
      /\ y \in Bands /\ y.from = bounds[n] + 1 /\ y.to = Never
      /\ y.quantity = 0 /\ y.lots = 0
      /\ z \in Bands /\ z.from = Never /\ z.quantity = 0 /\ z.lots = 0
  <2>1. a \in Bands /\ a.from = Never /\ a.quantity = 0 /\ a.lots = 0
    <3>1. PICK f : f = -1
      OBVIOUS
    <3>2. f \in Int \cup {Never} /\ a = Bucket(Never, f)
      BY <3>1
    <3>3. /\ Bucket(Never, f) \in Bands /\ Bucket(Never, f).from = Never
          /\ Bucket(Never, f).quantity = 0 /\ Bucket(Never, f).lots = 0
      BY ONLY <1>2, <3>2, BucketFields
    <3> HIDE DEF a
    <3> QED BY <3>2, <3>3
  <2>2. /\ y \in Bands /\ y.from = bounds[n] + 1 /\ y.to = Never
        /\ y.quantity = 0 /\ y.lots = 0
    <3>1. PICK f : f = bounds[n] + 1
      OBVIOUS
    <3>2. f \in Int \cup {Never} /\ y = Bucket(f, Never)
      BY <1>2, <3>1
    <3>3. y \in Bands /\ y.from = f /\ y.to = Never /\ y.quantity = 0 /\ y.lots = 0
      <4>1. /\ Bucket(f, Never) \in Bands
            /\ Bucket(f, Never).from = f /\ Bucket(f, Never).to = Never
            /\ Bucket(f, Never).quantity = 0 /\ Bucket(f, Never).lots = 0
        BY ONLY <1>2, <3>2, BucketFields
      <4> HIDE DEF y
      <4> QED BY <3>2, <4>1
    <3> QED BY <3>1, <3>3, Zenon
  <2>3. z \in Bands /\ z.from = Never /\ z.quantity = 0 /\ z.lots = 0
    BY <1>2, BucketFields, Zenon
  <2> QED BY <2>1, <2>2, <2>3
<1>7. \A k \in 1 .. n : /\ middle[k].from = start(k) /\ middle[k].to = bounds[k]
                        /\ middle[k].quantity = 0 /\ middle[k].lots = 0
  <2> HIDE DEF middle, n, start
  <2> SUFFICES ASSUME NEW k \in 1 .. n
               PROVE  /\ middle[k].from = start(k) /\ middle[k].to = bounds[k]
                      /\ middle[k].quantity = 0 /\ middle[k].lots = 0
    OBVIOUS
  <2>1. PICK f, g : f = start(k) /\ g = bounds[k]
    OBVIOUS
  <2>2. f \in Int \cup {Never} /\ g \in Int \cup {Never} /\ middle[k] = Bucket(f, g)
    BY <1>2, <1>3, <2>1
  <2>3. /\ Bucket(f, g).from = f /\ Bucket(f, g).to = g
        /\ Bucket(f, g).quantity = 0 /\ Bucket(f, g).lots = 0
    BY <2>2, BucketFields
  <2> QED BY <2>1, <2>2, <2>3, Zenon
<1> HIDE DEF list, a, y, z, middle
<1>8. /\ list \in Seq(Bands) /\ Len(list) = n + 3 /\ DOMAIN list = 1 .. (n + 3)
      /\ list[1] = a /\ \A k \in 1 .. n : list[k + 1] = middle[k]
      /\ list[n + 2] = y /\ list[n + 3] = z
  <2> HIDE DEF n
  <2>1. a \in Bands /\ y \in Bands /\ z \in Bands /\ middle \in Seq(Bands) /\ n = Len(middle)
    BY <1>4, <1>6
  <2> DEFINE one == <<a>>
             two == <<y, z>>
  <2>2. /\ one \in Seq(Bands) /\ Len(one) = 1 /\ one[1] = a
        /\ two \in Seq(Bands) /\ Len(two) = 2 /\ two[1] = y /\ two[2] = z
    BY <2>1
  <2> DEFINE front == one \o middle
  <2>3. list = front \o two
    BY <1>5
  <2> HIDE DEF one, two, list, n
  <2>4. /\ front \in Seq(Bands) /\ Len(front) = 1 + n /\ n \in Nat
        /\ \A k \in 1 .. 1 : front[k] = one[k]
        /\ \A k \in 1 .. n : front[1 + k] = middle[k]
    <3>1. /\ front \in Seq(Bands) /\ Len(front) = Len(one) + Len(middle)
          /\ \A k \in 1 .. Len(one) : front[k] = one[k]
          /\ \A k \in 1 .. Len(middle) : front[Len(one) + k] = middle[k]
      <4>1. front = one \o middle
        OBVIOUS
      <4>2. one \in Seq(Bands) /\ middle \in Seq(Bands)
        BY <2>1, <2>2
      <4> HIDE DEF front
      <4> QED BY <4>1, <4>2, Appended
    <3>2. Len(one) = 1 /\ Len(middle) = n /\ n \in Nat
      BY <2>1, <2>2
    <3> HIDE DEF front
    <3> QED BY <3>1, <3>2
  <2> HIDE DEF front
  <2> DEFINE c == 1 + n
  <2>5. /\ front \in Seq(Bands) /\ two \in Seq(Bands)
        /\ c = Len(front) /\ 2 = Len(two)
    BY <2>2, <2>4
  <2> HIDE DEF c
  <2>6. /\ list \in Seq(Bands) /\ Len(list) = c + 2
        /\ \A k \in 1 .. c : list[k] = front[k]
        /\ \A k \in 1 .. 2 : list[c + k] = two[k]
    <3>1. /\ list \in Seq(Bands) /\ Len(list) = Len(front) + Len(two)
          /\ \A k \in 1 .. Len(front) : list[k] = front[k]
          /\ \A k \in 1 .. Len(two) : list[Len(front) + k] = two[k]
      BY <2>3, <2>5, Appended
    <3> QED BY <2>5, <3>1
  <2>7. list[1] = a
    BY <2>2, <2>4, <2>6 DEF c
  <2>8. ASSUME NEW k \in 1 .. n PROVE list[k + 1] = middle[k]
    <3>1. k + 1 = 1 + k /\ 1 + k \in 1 .. c
      BY <2>4 DEF c
    <3> QED BY <2>4, <2>6, <3>1
  <2>9. list[n + 2] = y /\ list[n + 3] = z
    <3>1. n + 2 = c + 1 /\ n + 3 = c + 2
      BY <2>4 DEF c
    <3>2. list[c + 1] = y /\ list[c + 2] = z
      BY <2>2, <2>6
    <3> QED BY <3>1, <3>2
  <2>10. Len(list) = n + 3
    BY <2>4, <2>6 DEF c
  <2> QED BY <2>6, <2>7, <2>8, <2>9, <2>10, LenProperties
<1>9. \A k \in 1 .. n : /\ list[k + 1].from = start(k) /\ list[k + 1].to = bounds[k]
                        /\ list[k + 1].quantity = 0 /\ list[k + 1].lots = 0
  <2> HIDE DEF n, start
  <2> QED BY <1>7, <1>8
<1>10. \A j \in DOMAIN list : list[j].quantity = 0 /\ list[j].lots = 0
  <2> SUFFICES ASSUME NEW j \in 1 .. (n + 3) PROVE list[j].quantity = 0 /\ list[j].lots = 0
    BY <1>8
  <2> HIDE DEF n
  <2>1. j = 1 \/ j = n + 2 \/ j = n + 3 \/ (j - 1 \in 1 .. n /\ j = (j - 1) + 1)
    BY <1>1
  <2>2. CASE j - 1 \in 1 .. n /\ j = (j - 1) + 1
    BY <1>9, <2>2, Zenon
  <2>3. CASE j = 1 \/ j = n + 2 \/ j = n + 3
    BY <1>6, <1>8, <2>3
  <2> QED BY <2>1, <2>2, <2>3
<1>11. Banded(list, bounds)
  <2>1. list[1].from = Never /\ list[n + 3].from = Never
    BY <1>6, <1>8
  <2>2. list[n + 2].from = bounds[n] + 1 /\ list[n + 2].to = Never
    BY <1>6, <1>8
  <2>3. list \in Seq(Bands) /\ Len(list) = n + 3
    BY <1>8
  <2> QED BY <1>9, <2>1, <2>2, <2>3, Zenon DEF Banded
<1> QED
  BY <1>10, <1>11 DEF list

LEMMA BandGrows ==
  ASSUME NEW old \in Bands, NEW q \in Int
  PROVE  \E band : /\ band = [old EXCEPT !.quantity = @ + q, !.lots = @ + 1]
                   /\ band \in Bands /\ band.from = old.from /\ band.to = old.to
                   /\ band.quantity = old.quantity + q /\ band.lots = old.lots + 1
<1> DEFINE more == [old EXCEPT !.quantity = @ + q]
           band == [old EXCEPT !.quantity = @ + q, !.lots = @ + 1]
<1>1. old.quantity + q \in Int /\ old.lots + 1 \in Int
  BY DEF Bands
<1>2. /\ more \in Bands /\ more.from = old.from /\ more.to = old.to
      /\ more.quantity = old.quantity + q /\ more.lots = old.lots
  BY <1>1 DEF Bands
<1>3. band = [more EXCEPT !.lots = @ + 1]
  OBVIOUS
<1>4. /\ band \in Bands /\ band.from = old.from /\ band.to = old.to
      /\ band.quantity = old.quantity + q /\ band.lots = old.lots + 1
  <2> HIDE DEF more, band
  <2> QED BY <1>1, <1>2, <1>3 DEF Bands
<1> QED
  BY <1>4, Zenon

\* One more row in the band it belongs to, no other band changed.
LEMMA BandCounts ==
  ASSUME NEW list \in Seq(Bands), NEW k \in DOMAIN list, NEW q \in Int, NEW band \in Bands,
         /\ band.from = list[k].from /\ band.to = list[k].to
         /\ band.quantity = list[k].quantity + q /\ band.lots = list[k].lots + 1,
         NEW new, new = [list EXCEPT ![k] = band]
  PROVE  /\ new \in Seq(Bands) /\ DOMAIN new = DOMAIN list /\ Len(new) = Len(list)
         /\ \A j \in DOMAIN list : j # k => new[j] = list[j]
         /\ \A j \in DOMAIN list : new[j].from = list[j].from /\ new[j].to = list[j].to
         /\ new[k].quantity = list[k].quantity + q /\ new[k].lots = list[k].lots + 1
<1>1. /\ new \in Seq(Bands) /\ DOMAIN new = DOMAIN list /\ Len(new) = Len(list)
      /\ new[k] = band /\ \A j \in DOMAIN list : j # k => new[j] = list[j]
  BY ExceptSeq
<1>2. \A j \in DOMAIN list : new[j].from = list[j].from /\ new[j].to = list[j].to
  <2> SUFFICES ASSUME NEW j \in DOMAIN list
               PROVE  new[j].from = list[j].from /\ new[j].to = list[j].to
    OBVIOUS
  <2>1. CASE j = k
    BY <1>1, <2>1, Zenon
  <2>2. CASE j # k
    BY <1>1, <2>2, Zenon
  <2> QED BY <2>1, <2>2
<1> QED
  BY <1>1, <1>2, Zenon

\* getInventoryAging: one row more is seen.
LEMMA RowTallied ==
  ASSUME ViewsAssumption, NEW rows \in Seq(Balances),
         NEW bounds \in Seq(Nat \ {0}), Len(bounds) >= 2,
         \A k, l \in DOMAIN bounds : k < l => bounds[k] < bounds[l],
         NEW togo, togo # <<>>, NEW list, Tallied(rows, bounds, togo, list),
         NEW new,
         LET row == rows[Head(togo)]
             k == SelectBucket(list, row.expires)
         IN  new = IF row.quantity <= 0 THEN list
                   ELSE [list EXCEPT ![k].quantity = @ + row.quantity, ![k].lots = @ + 1]
  PROVE  Tallied(rows, bounds, Tail(togo), new)
<1> DEFINE L == Range(Loaded(rows))
           i == Head(togo)
           q == rows[i].quantity
           b == BandOf(rows[i].expires, bounds)
           f == Quantity(rows)
           before(k) == Counted(rows, bounds, L \ Range(togo), k)
           after(k) == Counted(rows, bounds, L \ Range(Tail(togo)), k)
<1>1. /\ togo \in Seq(DOMAIN rows) /\ Distinct(togo) /\ Range(togo) \subseteq L
      /\ Banded(list, bounds)
      /\ \A k \in DOMAIN list : /\ list[k].quantity = SumFunctionOnSet(f, before(k))
                                /\ list[k].lots = Cardinality(before(k))
  BY DEF Tallied
<1>2. /\ i \in Range(togo) /\ i \notin Range(Tail(togo))
      /\ Range(togo) = Range(Tail(togo)) \cup {i}
      /\ Tail(togo) \in Seq(DOMAIN rows) /\ Distinct(Tail(togo))
  BY <1>1, RestFacts
<1>3. L \subseteq DOMAIN rows /\ IsFiniteSet(L)
  BY LoadedFacts
<1>4. i \in L /\ i \in DOMAIN rows /\ L \ Range(Tail(togo)) = (L \ Range(togo)) \cup {i}
  BY <1>1, <1>2, <1>3
<1>5. q \in Int /\ (rows[i].expires \in Int \/ rows[i].expires = Never)
  BY <1>4, RowFields
<1>6. SelectBucket(list, rows[i].expires) = b /\ b \in DOMAIN list
  BY <1>1, <1>5, BandChosen
<1>7. \A k \in DOMAIN list : after(k) = IF q > 0 /\ k = b THEN before(k) \cup {i} ELSE before(k)
  <2> SUFFICES ASSUME NEW k \in DOMAIN list
               PROVE  after(k) = IF q > 0 /\ k = b THEN before(k) \cup {i} ELSE before(k)
    OBVIOUS
  <2>1. \A j : j \in after(k) <=> /\ j \in (L \ Range(togo)) \cup {i}
                                  /\ rows[j].quantity > 0 /\ BandOf(rows[j].expires, bounds) = k
    BY <1>4 DEF Counted
  <2>2. \A j : j \in before(k) <=> /\ j \in L \ Range(togo)
                                   /\ rows[j].quantity > 0 /\ BandOf(rows[j].expires, bounds) = k
    BY DEF Counted
  <2> HIDE DEF L, before, after
  <2> QED BY <2>1, <2>2
<1>8. \A k \in DOMAIN list : /\ before(k) \subseteq L /\ IsFiniteSet(before(k)) /\ i \notin before(k)
                             /\ \A j \in before(k) \cup {i} : f[j] \in Int
  <2> SUFFICES ASSUME NEW k \in DOMAIN list
               PROVE  /\ before(k) \subseteq L /\ IsFiniteSet(before(k)) /\ i \notin before(k)
                      /\ \A j \in before(k) \cup {i} : f[j] \in Int
    OBVIOUS
  <2>1. before(k) \subseteq L /\ i \notin before(k)
    BY <1>2 DEF Counted
  <2> HIDE DEF L, before, f
  <2>2. IsFiniteSet(before(k))
    BY <1>3, <2>1, FS_Subset
  <2>3. \A j \in before(k) \cup {i} : j \in DOMAIN rows
    BY <1>3, <1>4, <2>1
  <2> QED BY <2>1, <2>2, <2>3, QuantityInt DEF f
<1>9. CASE q <= 0
  <2>1. new = list
    BY <1>9
  <2>2. \A k \in DOMAIN list : after(k) = before(k)
    <3> HIDE DEF before, after, q
    <3> QED BY <1>5, <1>7, <1>9
  <2>3. Range(Tail(togo)) \subseteq L
    BY <1>1, <1>2
  <2>4. \A k \in DOMAIN list : /\ list[k].quantity = SumFunctionOnSet(f, after(k))
                               /\ list[k].lots = Cardinality(after(k))
    <3> HIDE DEF before, after, f
    <3> QED BY <1>1, <2>2
  <2> QED BY <1>1, <1>2, <2>1, <2>3, <2>4, Zenon DEF Tallied
<1>10. CASE q > 0
  <2> DEFINE counted == [list EXCEPT ![b].quantity = @ + q, ![b].lots = @ + 1]
  <2>1. new = counted
    <3>1. ~(q <= 0)
      <4> HIDE DEF q
      <4> QED BY <1>5, <1>10
    <3> QED BY <1>6, <3>1, Zenon
  <2>2. list \in Seq(Bands)
    BY <1>1 DEF Banded
  <2>3. /\ new \in Seq(Bands) /\ DOMAIN new = DOMAIN list /\ Len(new) = Len(list)
        /\ \A j \in DOMAIN list : j # b => new[j] = list[j]
        /\ \A j \in DOMAIN list : new[j].from = list[j].from /\ new[j].to = list[j].to
        /\ new[b].quantity = list[b].quantity + q /\ new[b].lots = list[b].lots + 1
    <3>1. new = [list EXCEPT ![b].quantity = @ + q, ![b].lots = @ + 1]
      BY <2>1
    <3>2. list \in Seq(Bands) /\ b \in DOMAIN list /\ q \in Int
      BY <1>5, <1>6, <2>2
    <3>3. PICK old \in Bands : old = list[b]
      BY <3>2
    <3>4. PICK band : /\ band = [old EXCEPT !.quantity = @ + q, !.lots = @ + 1]
                      /\ band \in Bands /\ band.from = old.from /\ band.to = old.to
                      /\ band.quantity = old.quantity + q /\ band.lots = old.lots + 1
      BY <3>2, <3>3, BandGrows, Zenon
    <3> HIDE DEF b, q, counted
    <3>5. /\ band \in Bands /\ band.from = list[b].from /\ band.to = list[b].to
          /\ band.quantity = list[b].quantity + q /\ band.lots = list[b].lots + 1
      BY <3>3, <3>4, Zenon
    <3>6. new = [list EXCEPT ![b] = band]
      BY <3>1, <3>3, <3>4, Zenon
    <3> QED BY ONLY <3>2, <3>5, <3>6, BandCounts
  <2>4. Banded(new, bounds)
    <3> DEFINE n == Len(bounds)
    <3>1. /\ Len(list) = n + 3 /\ list[1].from = Never /\ list[n + 3].from = Never
          /\ \A k \in 1 .. n : /\ list[k + 1].from = IF k = 1 THEN 0 ELSE bounds[k - 1] + 1
                               /\ list[k + 1].to = bounds[k]
          /\ list[n + 2].from = bounds[n] + 1 /\ list[n + 2].to = Never
      BY <1>1 DEF Banded
    <3>2. n \in Nat /\ DOMAIN list = 1 .. (n + 3)
      BY <2>2, <3>1, LenProperties
    <3>3. /\ 1 \in DOMAIN list /\ n + 3 \in DOMAIN list /\ n + 2 \in DOMAIN list
          /\ \A k \in 1 .. n : k + 1 \in DOMAIN list
      <4> HIDE DEF n
      <4>1. /\ 1 \in 1 .. (n + 3) /\ n + 3 \in 1 .. (n + 3) /\ n + 2 \in 1 .. (n + 3)
            /\ \A k \in 1 .. n : k + 1 \in 1 .. (n + 3)
        BY ONLY <3>2
      <4> QED BY ONLY <3>2, <4>1
    <3> HIDE DEF n
    <3>4. \A k \in 1 .. n : /\ new[k + 1].from = IF k = 1 THEN 0 ELSE bounds[k - 1] + 1
                            /\ new[k + 1].to = bounds[k]
      BY ONLY <2>3, <3>1, <3>3, Zenon
    <3>5. /\ new[1].from = Never /\ new[n + 3].from = Never
          /\ new[n + 2].from = bounds[n] + 1 /\ new[n + 2].to = Never
      BY <2>3, <3>1, <3>3, Zenon
    <3>6. Len(new) = n + 3
      BY <2>3, <3>1
    <3> QED BY <2>3, <3>4, <3>5, <3>6, Zenon DEF Banded, n
  <2>5. \A k \in DOMAIN new : /\ new[k].quantity = SumFunctionOnSet(f, after(k))
                              /\ new[k].lots = Cardinality(after(k))
    <3> SUFFICES ASSUME NEW k \in DOMAIN list
                 PROVE  /\ new[k].quantity = SumFunctionOnSet(f, after(k))
                        /\ new[k].lots = Cardinality(after(k))
      BY <2>3
    <3>1. CASE k # b
      <4>1. new[k] = list[k] /\ after(k) = before(k)
        <5> HIDE DEF before, after, b, q
        <5> QED BY <1>7, <2>3, <3>1
      <4> HIDE DEF before, after, b, f
      <4> QED BY <1>1, <4>1
    <3>2. CASE k = b
      <4>1. after(b) = before(b) \cup {i}
        <5> HIDE DEF before, after, b, q
        <5> QED BY <1>6, <1>7, <1>10
      <4>2. f[i] = q
        BY <1>4, QuantityInt
      <4>3. /\ IsFiniteSet(before(b)) /\ i \notin before(b)
            /\ \A j \in before(b) \cup {i} : f[j] \in Int
        BY <1>6, <1>8
      <4> HIDE DEF before, after, b, f, i, q
      <4>4. SumFunctionOnSet(f, after(b)) = SumFunctionOnSet(f, before(b)) + q
        BY <4>1, <4>2, <4>3, SumAdd
      <4>5. Cardinality(after(b)) = Cardinality(before(b)) + 1
        BY <4>1, <4>3, FS_AddElement
      <4> QED BY <1>1, <1>6, <2>3, <3>2, <4>4, <4>5
    <3> QED BY <3>1, <3>2
  <2>6. Range(Tail(togo)) \subseteq L
    BY <1>1, <1>2
  <2> QED BY <1>2, <2>4, <2>5, <2>6, Zenon DEF Tallied
<1>11. q <= 0 \/ q > 0
  <2> HIDE DEF q
  <2> QED BY <1>5
<1> QED
  BY <1>9, <1>10, <1>11

\* The bands hold what the loop has come to.
AgingInv ==
  /\ question \in Questions
  /\ question.view = "aging" => Tallied(Rows, question.bounds, rest, buckets)

LEMMA InitAging == ViewsAssumption /\ Init => AgingInv
<1> SUFFICES ASSUME ViewsAssumption, Init PROVE AgingInv
  OBVIOUS
<1>1. question \in Questions
  BY DEF Init
<1>2. ASSUME question.view = "aging"
      PROVE  Tallied(Rows, question.bounds, rest, buckets)
  <2>1. rest = Loaded(Rows) /\ buckets = CreateBuckets(question.bounds)
    BY <1>2 DEF Init
  <2> DEFINE rows == Rows
             bounds == question.bounds
             L == Loaded(rows)
             list == CreateBuckets(bounds)
  <2>2. /\ rows \in Seq(Balances) /\ bounds \in Seq(Nat \ {0}) /\ Len(bounds) >= 2
    BY <1>1, <1>2, AskedFacts DEF Rows
  <2> HIDE DEF rows, bounds
  <2>3. Banded(list, bounds) /\ \A k \in DOMAIN list : list[k].quantity = 0 /\ list[k].lots = 0
    BY <2>2, BandsCreated
  <2>4. L \in Seq(DOMAIN rows) /\ Distinct(L)
    BY <2>2, LoadedFacts
  <2>5. \A k : Counted(rows, bounds, Range(L) \ Range(L), k) = {}
    BY DEF Counted
  <2>6. Tallied(rows, bounds, L, list)
    <3> HIDE DEF list
    <3>1. Cardinality({}) = 0
      BY FS_EmptySet
    <3>2. SumFunctionOnSet(Quantity(rows), {}) = 0
      BY SumEmpty
    <3>3. \A k \in DOMAIN list :
            LET counted == Counted(rows, bounds, Range(Loaded(rows)) \ Range(L), k)
            IN  /\ list[k].quantity = SumFunctionOnSet(Quantity(rows), counted)
                /\ list[k].lots = Cardinality(counted)
      BY <2>3, <2>5, <3>1, <3>2
    <3> QED BY <2>3, <2>4, <3>3, Zenon DEF Tallied
  <2> QED BY <2>1, <2>6 DEF rows, bounds
<1> QED
  BY <1>1, <1>2 DEF AgingInv

LEMMA StepAging == ViewsAssumption /\ AgingInv /\ [Next]_vars => AgingInv'
<1> SUFFICES ASSUME ViewsAssumption, AgingInv, [Next]_vars PROVE AgingInv'
  OBVIOUS
<1>1. CASE Recommend
  BY <1>1 DEF AgingInv, Recommend
<1>2. CASE Count
  <2>1. /\ question' = question /\ question \in Questions /\ question.view = "aging"
        /\ rest # <<>> /\ rest' = Tail(rest) /\ Tallied(Rows, question.bounds, rest, buckets)
    BY <1>2 DEF AgingInv, Count
  <2>2. LET row == Rows[Head(rest)]
            k == SelectBucket(buckets, row.expires)
        IN  buckets' = IF row.quantity <= 0 THEN buckets
                       ELSE [buckets EXCEPT ![k].quantity = @ + row.quantity, ![k].lots = @ + 1]
    BY <1>2, Zenon DEF Count
  <2>3. /\ Rows \in Seq(Balances) /\ question.bounds \in Seq(Nat \ {0})
        /\ Len(question.bounds) >= 2
        /\ \A k, l \in DOMAIN question.bounds : k < l => question.bounds[k] < question.bounds[l]
    BY <2>1, AskedFacts DEF Rows
  <2>4. Tallied(Rows, question.bounds, Tail(rest), buckets')
    BY <2>1, <2>2, <2>3, RowTallied
  <2> QED BY <2>1, <2>4 DEF AgingInv, Rows
<1>3. CASE UNCHANGED vars
  BY <1>3 DEF AgingInv, vars, Rows
<1> QED
  BY <1>1, <1>2, <1>3 DEF Next

LEMMA AgingCounted == ViewsAssumption /\ AgingInv => AgingPartitions
<1> SUFFICES ASSUME ViewsAssumption, AgingInv, question.view = "aging", rest = <<>>,
                    NEW k \in DOMAIN buckets
             PROVE  LET rows == { i \in Range(Loaded(Rows)) :
                                    /\ Rows[i].quantity > 0
                                    /\ BandOf(Rows[i].expires, question.bounds) = k }
                    IN  /\ buckets[k].quantity = Units(rows)
                        /\ buckets[k].lots = Cardinality(rows)
  BY DEF AgingPartitions
<1> DEFINE counted == Counted(Rows, question.bounds, Range(Loaded(Rows)), k)
<1>1. Rows \in Seq(Balances)
  BY AskedFacts DEF AgingInv, Rows
<1>2. Range(Loaded(Rows)) \ Range(rest) = Range(Loaded(Rows))
  BY DEF Range
<1>3. Tallied(Rows, question.bounds, rest, buckets)
  BY DEF AgingInv
<1>4. /\ buckets[k].quantity = SumFunctionOnSet(Quantity(Rows), counted)
      /\ buckets[k].lots = Cardinality(counted)
  BY <1>2, <1>3 DEF Tallied
<1>5. counted \subseteq DOMAIN Rows
  BY <1>1, LoadedFacts DEF Counted
<1>6. Units(counted) = SumFunctionOnSet(Quantity(Rows), counted)
  <2> HIDE DEF counted
  <2> QED BY <1>1, <1>5, UnitsIs
<1> QED
  BY <1>4, <1>6 DEF Counted

\* Of getInventoryAging: when the loop has ended every loaded balance with
\* stock is counted once, in the band its days belong to.
THEOREM AgingIsPartition == Spec => []AgingPartitions
<1>1. Init => AgingInv
  BY InitAging, ViewsAssumption
<1>2. AgingInv /\ [Next]_vars => AgingInv'
  BY StepAging, ViewsAssumption
<1>3. AgingInv => AgingPartitions
  BY AgingCounted, ViewsAssumption
<1> QED
  BY <1>1, <1>2, <1>3, PTL DEF Spec

----------------------------------------------------------------------------
(* The FEFO recommendation.                                                *)

Candidates == [row : Nat, units : Nat, cumulative : Nat]

Recommended(cands) == IF cands = <<>> THEN 0 ELSE Last(cands).cumulative

\* What the loop has come to is recommended in full, but for the last row when
\* nothing is left to recommend; what it has not come to is taken later.
Allotted(rows, wanted, togo, left, cands) ==
  LET done == InStock(rows) \ Range(togo)
  IN  /\ togo \in Seq(InStock(rows)) /\ Distinct(togo)
      /\ \A m, n \in DOMAIN togo : m < n => TakenBefore(rows, togo[m], togo[n])
      /\ \A i \in done, j \in Range(togo) : TakenBefore(rows, i, j)
      /\ left \in Nat /\ left <= wanted
      /\ cands \in Seq(Candidates)
      /\ \A m, n \in DOMAIN cands : m # n => cands[m].row # cands[n].row
      /\ \A n \in DOMAIN cands : /\ cands[n].row \in done /\ cands[n].units > 0
                                 /\ cands[n].units <= rows[cands[n].row].quantity
      /\ \A i \in done : \E n \in DOMAIN cands : cands[n].row = i
      /\ left > 0 => \A n \in DOMAIN cands : cands[n].units = rows[cands[n].row].quantity
      /\ \A n \in DOMAIN cands :
           cands[n].units < rows[cands[n].row].quantity =>
             \A i \in done : i = cands[n].row \/ TakenBefore(rows, i, cands[n].row)
      /\ Recommended(cands) = wanted - left
      /\ left > 0 => wanted - left = SumFunctionOnSet(Quantity(rows), done)
      /\ left = 0 => wanted <= SumFunctionOnSet(Quantity(rows), done)

LEMMA StockFacts ==
  ASSUME ViewsAssumption, NEW rows \in Seq(Balances)
  PROVE  /\ InStock(rows) \subseteq DOMAIN rows /\ InStock(rows) \subseteq Range(Loaded(rows))
         /\ IsFiniteSet(InStock(rows))
         /\ \A i \in InStock(rows) : /\ rows[i].quantity \in Nat /\ rows[i].quantity > 0
                                     /\ Quantity(rows)[i] = rows[i].quantity /\ i \in Nat
<1>1. /\ InStock(rows) \subseteq Range(Loaded(rows))
      /\ \A i \in InStock(rows) : rows[i].quantity > 0
  BY DEF InStock
<1>2. InStock(rows) \subseteq DOMAIN rows /\ IsFiniteSet(InStock(rows))
  BY <1>1, LoadedFacts, FS_Subset
<1>3. \A i \in InStock(rows) : /\ rows[i].quantity \in Int /\ i \in Nat
                               /\ Quantity(rows)[i] = rows[i].quantity
  BY <1>2, RowFields DEF Quantity
<1>4. \A i \in InStock(rows) : rows[i].quantity \in Nat
  BY <1>1, <1>3
<1> QED
  BY <1>1, <1>2, <1>3, <1>4

LEMMA FirstAllotted ==
  ASSUME ViewsAssumption, NEW rows \in Seq(Balances), NEW wanted \in Nat \ {0}
  PROVE  Allotted(rows, wanted, Eligible(rows), wanted, <<>>)
<1> DEFINE e == Eligible(rows)
<1>1. /\ e \in Seq(InStock(rows)) /\ Distinct(e) /\ Range(e) = InStock(rows)
      /\ \A m, n \in DOMAIN e : m < n => TakenBefore(rows, e[m], e[n])
  BY EligibleFacts
<1> HIDE DEF e
<1>2. InStock(rows) \ Range(e) = {}
  BY <1>1
<1>3. SumFunctionOnSet(Quantity(rows), {}) = 0
  BY SumEmpty
<1>4. <<>> \in Seq(Candidates) /\ DOMAIN <<>> = {} /\ Recommended(<<>>) = 0
  BY DEF Recommended
<1>5. wanted \in Nat /\ wanted <= wanted /\ wanted > 0 /\ wanted - wanted = 0 /\ wanted # 0
  OBVIOUS
<1>6. Allotted(rows, wanted, e, wanted, <<>>)
  BY <1>1, <1>2, <1>3, <1>4, <1>5 DEF Allotted
<1> QED
  BY <1>6 DEF e

\* One turn of the loop of getFefoCandidates.
LEMMA RowRecommended ==
  ASSUME ViewsAssumption, NEW rows \in Seq(Balances), NEW wanted \in Nat \ {0},
         NEW togo, togo # <<>>, NEW left, left > 0, NEW cands,
         Allotted(rows, wanted, togo, left, cands),
         NEW units, units = Min({left, rows[Head(togo)].quantity}),
         NEW new, new = Append(cands, [row |-> Head(togo), units |-> units,
                                       cumulative |-> Recommended(cands) + units])
  PROVE  Allotted(rows, wanted, Tail(togo), left - units, new)
<1> DEFINE S == InStock(rows)
           h == Head(togo)
           q == rows[h].quantity
           done == S \ Range(togo)
           after == S \ Range(Tail(togo))
           f == Quantity(rows)
           c == Recommended(cands) + units
           more == [row |-> h, units |-> units, cumulative |-> c]
           n1 == Len(cands) + 1
<1>1. /\ togo \in Seq(S) /\ Distinct(togo)
      /\ \A m, n \in DOMAIN togo : m < n => TakenBefore(rows, togo[m], togo[n])
      /\ \A i \in done, j \in Range(togo) : TakenBefore(rows, i, j)
      /\ left \in Nat /\ left <= wanted
      /\ cands \in Seq(Candidates)
  BY DEF Allotted
<1>2. /\ \A m, n \in DOMAIN cands : m # n => cands[m].row # cands[n].row
      /\ \A n \in DOMAIN cands : /\ cands[n].row \in done /\ cands[n].units > 0
                                 /\ cands[n].units <= rows[cands[n].row].quantity
                                 /\ cands[n].units = rows[cands[n].row].quantity
      /\ \A i \in done : \E n \in DOMAIN cands : cands[n].row = i
      /\ Recommended(cands) = wanted - left
      /\ wanted - left = SumFunctionOnSet(f, done)
  BY DEF Allotted
<1>3. /\ h \in Range(togo) /\ h \notin Range(Tail(togo))
      /\ Range(togo) = Range(Tail(togo)) \cup {h}
      /\ Tail(togo) \in Seq(S) /\ Distinct(Tail(togo))
      /\ \A n \in DOMAIN Tail(togo) : n + 1 \in DOMAIN togo /\ Tail(togo)[n] = togo[n + 1]
      /\ 1 \in DOMAIN togo /\ h = togo[1]
  BY <1>1, RestFacts
<1>4. /\ IsFiniteSet(S)
      /\ \A i \in S : rows[i].quantity \in Nat /\ rows[i].quantity > 0
                      /\ f[i] = rows[i].quantity /\ i \in Nat
  BY StockFacts
<1>5. h \in S /\ \A j \in Range(togo) : j \in S
  BY <1>1, <1>3 DEF Range
<1>6. q \in Nat /\ q > 0 /\ f[h] = q /\ h \in Nat
  BY <1>4, <1>5
<1>7. after = done \cup {h} /\ h \notin done
  <2> HIDE DEF S, h
  <2> QED BY <1>3, <1>5
<1>8. units \in Nat /\ units > 0 /\ units <= q /\ units <= left /\ (units = left \/ units = q)
  <2> HIDE DEF q
  <2>1. \E x \in {left, q} : \A y \in {left, q} : x <= y
    BY <1>1, <1>6
  <2>2. units \in {left, q} /\ \A y \in {left, q} : units <= y
    BY <2>1 DEF Min, q
  <2> QED BY <1>1, <1>6, <2>2
<1>9. c \in Nat /\ c = wanted - (left - units)
  <2> HIDE DEF q
  <2> QED BY <1>1, <1>2, <1>8
<1>10. more \in Candidates /\ more.row = h /\ more.units = units /\ more.cumulative = c
  <2> HIDE DEF h, c
  <2> QED BY <1>6, <1>8, <1>9 DEF Candidates
<1>11. /\ new \in Seq(Candidates) /\ Len(new) = n1 /\ DOMAIN new = 1 .. n1 /\ n1 \in Nat
       /\ new[n1] = more /\ \A n \in DOMAIN cands : n \in DOMAIN new /\ new[n] = cands[n]
       /\ \A n \in DOMAIN new : n = n1 \/ n \in DOMAIN cands
       /\ n1 \notin DOMAIN cands /\ new # <<>>
  <2>1. new = Append(cands, more)
    OBVIOUS
  <2>2. Len(cands) \in Nat /\ DOMAIN cands = 1 .. Len(cands)
    BY <1>1
  <2> HIDE DEF more
  <2>3. /\ new \in Seq(Candidates) /\ Len(new) = n1 /\ new[n1] = more
        /\ \A n \in 1 .. Len(cands) : new[n] = cands[n]
    BY <1>1, <1>10, <2>1, AppendProperties
  <2>4. DOMAIN new = 1 .. n1
    BY <2>3, LenProperties
  <2>5. new # <<>>
    BY <2>2, <2>3
  <2> QED BY <2>2, <2>3, <2>4, <2>5
<1>12. Recommended(new) = wanted - (left - units)
  BY <1>9, <1>10, <1>11 DEF Recommended, Last
<1> HIDE DEF S, h, q, done, after, f, c, more, n1
<1>13. \A m, n \in DOMAIN Tail(togo) :
         m < n => TakenBefore(rows, Tail(togo)[m], Tail(togo)[n])
  <2> SUFFICES ASSUME NEW m \in DOMAIN Tail(togo), NEW n \in DOMAIN Tail(togo), m < n
               PROVE  TakenBefore(rows, Tail(togo)[m], Tail(togo)[n])
    OBVIOUS
  <2>1. m + 1 \in DOMAIN togo /\ n + 1 \in DOMAIN togo /\ m + 1 < n + 1
    BY <1>1, <1>3
  <2>2. TakenBefore(rows, togo[m + 1], togo[n + 1])
    BY <1>1, <2>1
  <2> QED BY <1>3, <2>2
<1>14. \A i \in after, j \in Range(Tail(togo)) : TakenBefore(rows, i, j)
  <2> SUFFICES ASSUME NEW i \in after, NEW j \in Range(Tail(togo))
               PROVE  TakenBefore(rows, i, j)
    OBVIOUS
  <2>1. CASE i \in done
    BY <1>1, <1>3, <2>1
  <2>2. CASE i = h
    <3>1. PICK n \in DOMAIN Tail(togo) : j = Tail(togo)[n]
      BY DEF Range
    <3>2. n + 1 \in DOMAIN togo /\ j = togo[n + 1] /\ 1 < n + 1
      BY <1>1, <1>3, <3>1
    <3> QED BY <1>1, <1>3, <2>2, <3>2
  <2> QED BY <1>7, <2>1, <2>2
<1>15. left - units \in Nat /\ left - units <= wanted
  BY <1>1, <1>8
<1>16. \A m, n \in DOMAIN new : m # n => new[m].row # new[n].row
  BY <1>2, <1>7, <1>10, <1>11
<1>17. \A n \in DOMAIN new : /\ new[n].row \in after /\ new[n].units > 0
                             /\ new[n].units <= rows[new[n].row].quantity
  <2> SUFFICES ASSUME NEW n \in DOMAIN new
               PROVE  /\ new[n].row \in after /\ new[n].units > 0
                      /\ new[n].units <= rows[new[n].row].quantity
    OBVIOUS
  <2>1. CASE n = n1
    BY <1>7, <1>8, <1>10, <1>11, <2>1 DEF q
  <2>2. CASE n \in DOMAIN cands
    BY <1>2, <1>7, <1>11, <2>2
  <2> QED BY <1>11, <2>1, <2>2
<1>18. \A i \in after : \E n \in DOMAIN new : new[n].row = i
  <2> SUFFICES ASSUME NEW i \in after PROVE \E n \in DOMAIN new : new[n].row = i
    OBVIOUS
  <2>1. CASE i \in done
    BY <1>2, <1>11, <2>1
  <2>2. CASE i = h
    <3>1. n1 \in DOMAIN new
      BY <1>1, <1>11 DEF n1
    <3> QED BY <1>10, <1>11, <2>2, <3>1
  <2> QED BY <1>7, <2>1, <2>2
<1>19. left - units > 0 => \A n \in DOMAIN new : new[n].units = rows[new[n].row].quantity
  <2> SUFFICES ASSUME left - units > 0, NEW n \in DOMAIN new
               PROVE  new[n].units = rows[new[n].row].quantity
    OBVIOUS
  <2>1. CASE n = n1
    <3>1. units = q
      BY <1>1, <1>8
    <3> QED BY <1>10, <1>11, <2>1, <3>1 DEF q
  <2>2. CASE n \in DOMAIN cands
    BY <1>2, <1>11, <2>2
  <2> QED BY <1>11, <2>1, <2>2
<1>20. \A n \in DOMAIN new :
         new[n].units < rows[new[n].row].quantity =>
           \A i \in after : i = new[n].row \/ TakenBefore(rows, i, new[n].row)
  <2> SUFFICES ASSUME NEW n \in DOMAIN new, new[n].units < rows[new[n].row].quantity,
                      NEW i \in after
               PROVE  i = new[n].row \/ TakenBefore(rows, i, new[n].row)
    OBVIOUS
  <2>1. CASE n = n1
    <3>1. new[n].row = h
      BY <1>10, <1>11, <2>1
    <3>2. i = h \/ TakenBefore(rows, i, h)
      BY <1>1, <1>3, <1>7
    <3> QED BY <3>1, <3>2
  <2>2. CASE n \in DOMAIN cands
    <3>1. /\ new[n].units = rows[new[n].row].quantity /\ new[n].row \in S
      BY <1>2, <1>11, <2>2 DEF done
    <3> QED BY <1>4, <3>1
  <2> QED BY <1>11, <2>1, <2>2
<1>21. SumFunctionOnSet(f, after) = SumFunctionOnSet(f, done) + q
  <2>1. IsFiniteSet(done) /\ \A i \in done \cup {h} : f[i] \in Int
    <3>1. done \subseteq S
      BY DEF done
    <3> QED BY <1>4, <1>5, <3>1, FS_Subset
  <2> QED BY <1>6, <1>7, <2>1, SumAdd
<1>22. SumFunctionOnSet(f, after) = (wanted - left) + q
  BY <1>2, <1>21
<1>23. left - units > 0 => wanted - (left - units) = SumFunctionOnSet(f, after)
  <2>1. CASE units = q
    BY <1>1, <1>6, <1>22, <2>1
  <2>2. CASE units = left
    BY <1>1, <2>2
  <2> QED BY <1>8, <2>1, <2>2
<1>24. left - units = 0 => wanted <= SumFunctionOnSet(f, after)
  BY <1>1, <1>6, <1>8, <1>22
<1>25. Tail(togo) \in Seq(S) /\ Distinct(Tail(togo)) /\ new \in Seq(Candidates)
  BY <1>3, <1>11
<1> QED
  BY <1>12, <1>13, <1>14, <1>15, <1>16, <1>17, <1>18, <1>19, <1>20, <1>23, <1>24, <1>25, Zenon
     DEF Allotted, S, after, f

FefoInv ==
  /\ question \in Questions
  /\ question.view = "fefo" => Allotted(Rows, question.wanted, rest, remaining, candidates)

LEMMA InitFefo == ViewsAssumption /\ Init => FefoInv
<1> SUFFICES ASSUME ViewsAssumption, Init PROVE FefoInv
  OBVIOUS
<1>1. question \in Questions
  BY DEF Init
<1>2. ASSUME question.view = "fefo"
      PROVE  Allotted(Rows, question.wanted, rest, remaining, candidates)
  <2>1. rest = Eligible(Rows) /\ remaining = question.wanted /\ candidates = <<>>
    BY <1>2 DEF Init
  <2>2. Rows \in Seq(Balances) /\ question.wanted \in Nat \ {0}
    BY <1>1, <1>2, AskedFacts DEF Rows
  <2> QED BY <2>1, <2>2, FirstAllotted
<1> QED
  BY <1>1, <1>2 DEF FefoInv

LEMMA StepFefo == ViewsAssumption /\ FefoInv /\ [Next]_vars => FefoInv'
<1> SUFFICES ASSUME ViewsAssumption, FefoInv, [Next]_vars PROVE FefoInv'
  OBVIOUS
<1>1. CASE Recommend
  <2>1. /\ question' = question /\ question \in Questions /\ question.view = "fefo"
        /\ rest # <<>> /\ remaining > 0 /\ rest' = Tail(rest)
        /\ Allotted(Rows, question.wanted, rest, remaining, candidates)
    BY <1>1 DEF FefoInv, Recommend
  <2>2. PICK units : /\ units = Min({remaining, Rows[Head(rest)].quantity})
                     /\ candidates' = Append(candidates, [row |-> Head(rest), units |-> units,
                                                          cumulative |-> SoFar + units])
                     /\ remaining' = remaining - units
    BY <1>1, Zenon DEF Recommend
  <2>3. Rows \in Seq(Balances) /\ question.wanted \in Nat \ {0}
    BY <2>1, AskedFacts DEF Rows
  <2>4. SoFar = Recommended(candidates)
    BY DEF SoFar, Recommended
  <2>5. Allotted(Rows, question.wanted, Tail(rest), remaining - units, candidates')
    BY <2>1, <2>2, <2>3, <2>4, RowRecommended
  <2> QED BY <2>1, <2>2, <2>5 DEF FefoInv, Rows
<1>2. CASE Count
  BY <1>2 DEF FefoInv, Count
<1>3. CASE UNCHANGED vars
  BY <1>3 DEF FefoInv, vars, Rows
<1> QED
  BY <1>1, <1>2, <1>3 DEF Next

\* What a row is recommended: nothing, or the units of its one recommendation.
LEMMA RowAnswer ==
  ASSUME ViewsAssumption, Rows \in Seq(Balances),
         Allotted(Rows, question.wanted, rest, remaining, candidates), NEW i
  PROVE  /\ i \in InStock(Rows) \ Range(rest) =>
              \E n \in DOMAIN candidates : /\ candidates[n].row = i
                                           /\ RecommendedOf(i) = candidates[n].units
         /\ i \notin InStock(Rows) \ Range(rest) => RecommendedOf(i) = 0
<1> DEFINE f == [n \in CandidatesOf(i) |-> candidates[n].units]
<1>1. RecommendedOf(i) = SumFunctionOnSet(f, CandidatesOf(i))
  BY DEF RecommendedOf, SumFunction
<1>2. /\ \A m, n \in DOMAIN candidates : m # n => candidates[m].row # candidates[n].row
      /\ \A n \in DOMAIN candidates : candidates[n].row \in InStock(Rows) \ Range(rest)
      /\ \A x \in InStock(Rows) \ Range(rest) :
           \E n \in DOMAIN candidates : candidates[n].row = x
      /\ candidates \in Seq(Candidates)
  BY DEF Allotted
<1>3. ASSUME i \in InStock(Rows) \ Range(rest)
      PROVE  \E n \in DOMAIN candidates : /\ candidates[n].row = i
                                          /\ RecommendedOf(i) = candidates[n].units
  <2>1. PICK n \in DOMAIN candidates : candidates[n].row = i
    BY <1>2, <1>3
  <2>2. CandidatesOf(i) = {n}
    BY <1>2, <2>1 DEF CandidatesOf
  <2>3. f[n] = candidates[n].units /\ f[n] \in Int
    <3>1. candidates[n] \in Candidates
      BY <1>2, <2>1
    <3>2. candidates[n].units \in Int
      BY <3>1 DEF Candidates
    <3> QED BY <2>2, <3>2
  <2> HIDE DEF f
  <2>4. SumFunctionOnSet(f, {n}) = f[n]
    <3>1. IsFiniteSet({}) /\ n \notin {} /\ \A y \in {} \cup {n} : f[y] \in Int
      BY <2>3, FS_EmptySet
    <3>2. SumFunctionOnSet(f, {} \cup {n}) = SumFunctionOnSet(f, {}) + f[n]
      BY <3>1, SumAdd
    <3>3. {} \cup {n} = {n}
      OBVIOUS
    <3> QED BY <2>3, <3>2, <3>3, SumEmpty
  <2> QED BY <1>1, <2>1, <2>2, <2>3, <2>4
<1>4. ASSUME i \notin InStock(Rows) \ Range(rest) PROVE RecommendedOf(i) = 0
  <2>1. CandidatesOf(i) = {}
    BY <1>2, <1>4 DEF CandidatesOf
  <2> HIDE DEF f
  <2> QED BY <1>1, <2>1, SumEmpty
<1> QED
  BY <1>3, <1>4

LEMMA FefoAnswer == ViewsAssumption /\ FefoInv => FefoAllocates
<1> SUFFICES ASSUME ViewsAssumption, FefoInv, FefoEnded
             PROVE  /\ \A i \in DOMAIN Rows :
                         RecommendedOf(i) <= IF i \in Available THEN Rows[i].quantity ELSE 0
                    /\ \A i \in Available, j \in DOMAIN Rows :
                         RecommendedOf(i) < Rows[i].quantity /\ RecommendedOf(j) > 0
                           => ~ExpiresBefore(Rows[i], Rows[j])
                    /\ Allocated = SoFar
                    /\ Allocated = Min({question.wanted,
                                        Units(Available \cap Range(Loaded(Rows)))})
  BY Zenon DEF FefoAllocates
<1> DEFINE S == InStock(Rows)
           done == S \ Range(rest)
           f == Quantity(Rows)
           wanted == question.wanted
<1>1. /\ Rows \in Seq(Balances) /\ wanted \in Nat \ {0}
      /\ Allotted(Rows, wanted, rest, remaining, candidates)
      /\ rest = <<>> \/ remaining = 0
  BY AskedFacts DEF FefoInv, FefoEnded, Rows
<1>2. /\ S \subseteq DOMAIN Rows /\ S \subseteq Range(Loaded(Rows)) /\ IsFiniteSet(S)
      /\ \A i \in S : /\ Rows[i].quantity \in Nat /\ Rows[i].quantity > 0
                      /\ f[i] = Rows[i].quantity
  BY <1>1, StockFacts
<1>3. S = Available \cap Range(Loaded(Rows))
  <2>1. Range(Loaded(Rows)) \subseteq DOMAIN Rows
    BY <1>1, LoadedFacts
  <2> QED BY <2>1 DEF InStock, Available
<1>4. \A i \in done : \E n \in DOMAIN candidates :
        /\ candidates[n].row = i /\ RecommendedOf(i) = candidates[n].units
  BY <1>1, RowAnswer
<1>5. \A i : i \notin done => RecommendedOf(i) = 0
  BY <1>1, RowAnswer
<1>6. /\ \A n \in DOMAIN candidates : candidates[n].units <= Rows[candidates[n].row].quantity
      /\ \A n \in DOMAIN candidates :
           candidates[n].units < Rows[candidates[n].row].quantity =>
             \A i \in done : i = candidates[n].row \/ TakenBefore(Rows, i, candidates[n].row)
      /\ \A i \in done, j \in Range(rest) : TakenBefore(Rows, i, j)
      /\ remaining \in Nat /\ remaining <= wanted
      /\ Recommended(candidates) = wanted - remaining
      /\ remaining > 0 => wanted - remaining = SumFunctionOnSet(f, done)
      /\ remaining = 0 => wanted <= SumFunctionOnSet(f, done)
  BY <1>1 DEF Allotted
<1>7. ASSUME NEW i \in DOMAIN Rows
      PROVE  RecommendedOf(i) <= IF i \in Available THEN Rows[i].quantity ELSE 0
  <2>1. CASE i \in done
    <3>1. RecommendedOf(i) <= Rows[i].quantity
      BY <1>4, <1>6, <2>1
    <3> QED BY <1>3, <2>1, <3>1
  <2>2. CASE i \notin done
    <3>1. RecommendedOf(i) = 0
      BY <1>5, <2>2
    <3>2. i \in Available => Rows[i].quantity \in Int /\ Rows[i].quantity > 0
      BY <1>1, RowFields DEF Available
    <3> QED BY <3>1, <3>2
  <2> QED BY <2>1, <2>2
<1>8. ASSUME NEW i \in Available, NEW j \in DOMAIN Rows,
             RecommendedOf(i) < Rows[i].quantity, RecommendedOf(j) > 0
      PROVE  ~ExpiresBefore(Rows[i], Rows[j])
  <2>1. j \in done
    BY <1>5, <1>8
  <2>2. i \in DOMAIN Rows
    BY DEF Available
  <2>3. j \in DOMAIN Rows /\ j \in Range(Loaded(Rows))
    BY <1>2, <2>1
  <2>4. i = j \/ TakenBefore(Rows, j, i) \/ QueriedBefore(Rows, j, i)
    <3>1. CASE i \in done
      BY <1>4, <1>6, <1>8, <2>1, <3>1
    <3>2. CASE i \in Range(rest)
      BY <1>6, <2>1, <3>2
    <3>3. CASE i \notin Range(Loaded(Rows))
      BY <1>1, <2>2, <2>3, <3>3, LoadedFacts
    <3> QED BY <1>3, <3>1, <3>2, <3>3
  <2>5. /\ Rows[i].expires \in Int \/ Rows[i].expires = Never
        /\ Rows[j].expires \in Int \/ Rows[j].expires = Never
        /\ Never \notin Int
    BY <1>1, <2>2, <2>3, RowFields
  <2> QED BY <2>4, <2>5 DEF TakenBefore, QueriedBefore, ExpiresBefore
<1>9. Allocated = SoFar
  BY <1>6 DEF Allocated, SoFar, Recommended
<1>10. Allocated = Min({wanted, Units(S)})
  <2> DEFINE all == SumFunctionOnSet(f, S)
             part == SumFunctionOnSet(f, done)
  <2>1. Units(S) = all
    BY <1>1, <1>2, UnitsIs
  <2>2. part <= all /\ part \in Nat /\ all \in Nat
    <3>1. done \subseteq S /\ IsFiniteSet(done) /\ \A i \in S : f[i] \in Nat
      BY <1>2, FS_Subset
    <3>2. done \in SUBSET S /\ \A i \in done : f[i] \in Nat
      BY <3>1
    <3> HIDE DEF S, done, f
    <3> QED BY <1>2, <3>1, <3>2, SumSubset, SumNat
  <2>3. rest = <<>> => part = all
    <3>1. rest = <<>> => Range(rest) = {}
      BY DEF Range
    <3> HIDE DEF f
    <3> QED BY <3>1
  <2> HIDE DEF all, part, wanted
  <2>4. /\ wanted - remaining <= wanted /\ wanted - remaining <= all
        /\ wanted - remaining = wanted \/ wanted - remaining = all
    <3>1. remaining \in Nat /\ wanted \in Nat /\ remaining <= wanted
      BY <1>1, <1>6
    <3>2. CASE remaining = 0
      BY <1>6, <2>2, <3>1, <3>2 DEF part
    <3>3. CASE remaining > 0
      BY <1>1, <1>6, <2>2, <2>3, <3>1, <3>3 DEF part
    <3> QED BY <3>1, <3>2, <3>3
  <2>5. Min({wanted, all}) = wanted - remaining
    <3> DEFINE x == wanted - remaining
    <3>1. x \in Int /\ wanted \in Int /\ all \in Int
      BY <1>1, <1>6, <2>2
    <3> HIDE DEF x
    <3>2. x \in {wanted, all} /\ \A y \in {wanted, all} : x <= y
      BY <2>4 DEF x
    <3>3. \A y \in {wanted, all} : (\A z \in {wanted, all} : y <= z) => y = x
      BY <3>1, <3>2
    <3>4. Min({wanted, all}) = x
      BY <3>2, <3>3 DEF Min
    <3> QED BY <3>4 DEF x
  <2> QED BY <2>1, <2>5 DEF Allocated, wanted
<1> QED
  BY <1>3, <1>7, <1>8, <1>9, <1>10

\* Of getFefoCandidates: when the loop has ended the answer takes only available
\* units, none that expires while an earlier one is left, and as many as were
\* asked for or as the loaded rows have.
THEOREM FefoIsAllocation == Spec => []FefoAllocates
<1>1. Init => FefoInv
  BY InitFefo, ViewsAssumption
<1>2. FefoInv /\ [Next]_vars => FefoInv'
  BY StepFefo, ViewsAssumption
<1>3. FefoInv => FefoAllocates
  BY FefoAnswer, ViewsAssumption
<1> QED
  BY <1>1, <1>2, <1>3, PTL DEF Spec
=============================================================================
