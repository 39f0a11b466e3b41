----------------------------- MODULE StockViews -----------------------------
(***************************************************************************)
(* The two calculations of apps/api/src/inventory.ts over the stock of a   *)
(* tenant, as the loops they are: which lots to take first for a quantity  *)
(* (getFefoCandidates), and how much stock expires when (getInventoryAging). *)
(* Both see the first rows of one query only.  A row of the question is a  *)
(* balance with its lot: the days until it expires, when the lot was made, *)
(* its status and quantity; rows that expire together are in query order.  *)
(***************************************************************************)
EXTENDS Integers, FiniteSets, Sequences, SequencesExt, FiniteSetsExt

CONSTANTS
  Never,        \* no expiry date, no bound
  Questions,    \* what may be asked
  MaxResults    \* MAX_RESULTS

Expiries == Int \cup {Never}

\* The rows a query may find; requiredPositiveInteger, validateAgingBuckets.
Balances == [expires : Expiries, made : Int, status : STRING, quantity : Int]

Asked(q) ==
  \/ q \in [view : {"fefo"}, rows : Seq(Balances), wanted : Nat \ {0}]
  \/ /\ q \in [view : {"aging"}, rows : Seq(Balances), bounds : Seq(Nat \ {0})]
     /\ Len(q.bounds) \in 2 .. 8
     /\ \A k, l \in DOMAIN q.bounds : k < l => q.bounds[k] < q.bounds[l]

ASSUME ViewsAssumption ==
  /\ MaxResults \in Nat \ {0}
  /\ Never \notin Int
  /\ \A q \in Questions : Asked(q)

VARIABLES
  question,
  rest,        \* loaded rows the loop has not come to, by their index
  remaining,   \* units still to be recommended
  candidates,  \* recommendations: index of the row, units, units so far
  buckets      \* aging buckets

vars == <<question, rest, remaining, candidates, buckets>>

Rows == question.rows

\* The order of expires_on, rows without a date last.
ExpiresBefore(a, b) == a.expires # Never /\ (b.expires = Never \/ a.expires < b.expires)

\* A set in an order.  Not SetToSortSeq: the provers do not know the SortSeq of
\* TLC it is made of.
InOrder(set, Before(_, _)) ==
  CHOOSE s \in SetToSeqs(set) : \A m, n \in DOMAIN s : m < n => Before(s[m], s[n])

QueriedBefore(rows, i, j) ==
  \/ ExpiresBefore(rows[i], rows[j])
  \/ rows[i].expires = rows[j].expires /\ i < j

\* loadBalanceRows: ORDER BY and LIMIT, over rows of every status and quantity.
Loaded(rows) ==
  LET before(i, j) == QueriedBefore(rows, i, j)
  IN  SubSeq(InOrder(DOMAIN rows, before), 1, Min({MaxResults, Len(rows)}))

InStock(rows) ==
  { i \in Range(Loaded(rows)) : rows[i].status = "available" /\ rows[i].quantity > 0 }

\* Mutant: the rows are taken in the order of the lots.
Eligible_OldestLot(rows) ==
  LET before(i, j) == \/ rows[i].made < rows[j].made
                      \/ rows[i].made = rows[j].made /\ i < j
  IN  InOrder(InStock(rows), before)

TakenBefore(rows, i, j) ==
  \/ ExpiresBefore(rows[i], rows[j])
  \/ /\ rows[i].expires = rows[j].expires
     /\ \/ rows[i].made < rows[j].made
        \/ rows[i].made = rows[j].made /\ i < j

\* The filter and the sort of getFefoCandidates.
Eligible(rows) ==
  LET before(i, j) == TakenBefore(rows, i, j) IN InOrder(InStock(rows), before)

Bucket(from, to) == [from |-> from, to |-> to, quantity |-> 0, lots |-> 0]

\* Mutant: the day after a boundary is in no band.
CreateBuckets_Gap(bounds) ==
  <<Bucket(Never, -1)>>
    \o [k \in DOMAIN bounds |-> Bucket(IF k = 1 THEN 0 ELSE bounds[k - 1] + 2, bounds[k])]
    \o <<Bucket(bounds[Len(bounds)] + 1, Never), Bucket(Never, Never)>>

\* createAgingBuckets
CreateBuckets(bounds) ==
  <<Bucket(Never, -1)>>
    \o [k \in DOMAIN bounds |-> Bucket(IF k = 1 THEN 0 ELSE bounds[k - 1] + 1, bounds[k])]
    \o <<Bucket(bounds[Len(bounds)] + 1, Never), Bucket(Never, Never)>>

\* selectAgingBucket
SelectBucket(list, days) ==
  LET within(b) == b.from # Never /\ days >= b.from /\ (b.to = Never \/ days <= b.to)
      found == { k \in DOMAIN list : within(list[k]) }
  IN  CASE days = Never -> Len(list)
        [] days # Never /\ days < 0 -> 1
        [] OTHER -> IF found = {} THEN Len(list) - 1 ELSE Min(found)

Init ==
  /\ question \in Questions
  /\ candidates = <<>>
  /\ \/ /\ question.view = "fefo"
        /\ rest = Eligible(Rows) /\ remaining = question.wanted /\ buckets = <<>>
     \/ /\ question.view = "aging"
        /\ rest = Loaded(Rows) /\ remaining = 0 /\ buckets = CreateBuckets(question.bounds)

SoFar == IF candidates = <<>> THEN 0 ELSE Last(candidates).cumulative

\* One turn of the loop of getFefoCandidates.
Recommend ==
  /\ question.view = "fefo" /\ rest # <<>> /\ remaining > 0
  /\ LET units == Min({remaining, Rows[Head(rest)].quantity})
     IN  /\ candidates' = Append(candidates, [row |-> Head(rest), units |-> units,
                                              cumulative |-> SoFar + units])
         /\ remaining' = remaining - units
  /\ rest' = Tail(rest)
  /\ UNCHANGED <<question, buckets>>

\* One turn of the loop of getInventoryAging.
Count ==
  /\ question.view = "aging" /\ rest # <<>>
  /\ LET row == Rows[Head(rest)]
         k == SelectBucket(buckets, row.expires)
     IN  buckets' = IF row.quantity <= 0 THEN buckets
                    ELSE [buckets EXCEPT ![k].quantity = @ + row.quantity,
                                         ![k].lots = @ + 1]
  /\ rest' = Tail(rest)
  /\ UNCHANGED <<question, remaining, candidates>>

Next == Recommend \/ Count

Spec == Init /\ [][Next]_vars

----------------------------------------------------------------------------
(* Properties.                                                             *)

Units(indices) == SumFunction([i \in indices |-> Rows[i].quantity])

Available == { i \in DOMAIN Rows : Rows[i].status = "available" /\ Rows[i].quantity > 0 }

CandidatesOf(i) == { n \in DOMAIN candidates : candidates[n].row = i }

RecommendedOf(i) == SumFunction([n \in CandidatesOf(i) |-> candidates[n].units])

FefoEnded == question.view = "fefo" /\ (rest = <<>> \/ remaining = 0)

Allocated == question.wanted - remaining

\* The FEFO answer, against what it should be: only available units, no more of
\* a row than it has and none twice; never a unit while another that expires
\* earlier is left, in all the stock of the question and not only the rows
\* loaded; and the whole quantity or all there is, of the rows loaded.
FefoAllocates ==
  FefoEnded =>
    /\ \A i \in DOMAIN Rows : RecommendedOf(i) <= IF i \in Available THEN Rows[i].quantity ELSE 0
    /\ \A i \in Available, j \in DOMAIN Rows :
         RecommendedOf(i) < Rows[i].quantity /\ RecommendedOf(j) > 0
           => ~ExpiresBefore(Rows[i], Rows[j])
    /\ Allocated = SoFar
    /\ Allocated = Min({question.wanted, Units(Available \cap Range(Loaded(Rows)))})

\* The band a number of days belongs to: the bounds below it are counted.
BandOf(days, bounds) ==
  CASE days = Never -> Len(bounds) + 3
    [] days # Never /\ days < 0 -> 1
    [] OTHER -> 2 + Cardinality({ k \in DOMAIN bounds : bounds[k] < days })

\* The aging report, against what it should be: each loaded balance with stock
\* is counted in the one band its days belong to, at the boundaries as well.
AgingPartitions ==
  (question.view = "aging" /\ rest = <<>>) =>
    \A k \in DOMAIN buckets :
      LET rows == { i \in Range(Loaded(Rows)) :
                      Rows[i].quantity > 0 /\ BandOf(Rows[i].expires, question.bounds) = k }
      IN  buckets[k].quantity = Units(rows) /\ buckets[k].lots = Cardinality(rows)

----------------------------------------------------------------------------
(* What the documentation says and the code does not do.                   *)

\* docs/MASTER_DATA_AND_INVENTORY.md: quantities are recommended until the
\* requested amount is fully allocated or stock is exhausted.
FefoExhaustsStock ==
  FefoEnded => Allocated = Min({question.wanted, Units(Available)})
=============================================================================
