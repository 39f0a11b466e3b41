---------------------------- MODULE MCStockViews ----------------------------
(***************************************************************************)
(* Questions about up to three balances, with a query that returns two:   *)
(* lots that are expired, expire today, at and around a boundary, or never, *)
(* made in either order, empty rows and rows in quarantine.                *)
(***************************************************************************)
EXTENDS StockViews

CONSTANTS MostRows

Balance(expires, made, status, quantity) ==
  [expires |-> expires, made |-> made, status |-> status, quantity |-> quantity]

FefoRows ==
  { Balance(e, m, "available", n) : e \in {-1, 4, Never}, m \in 1 .. 2, n \in 1 .. 2 }
    \cup { Balance(4, 1, "quarantine", 2), Balance(4, 2, "available", 0) }

AgingRows ==
  { Balance(e, 1, "available", 2) : e \in {-1, 0, 4, 5, 6, 7, 8, Never} }
    \cup { Balance(5, 1, "quarantine", 1), Balance(5, 1, "available", 0) }

SeqsUpTo(S, n) == UNION { [1 .. k -> S] : k \in 1 .. n }

ViewQuestions ==
  { [view |-> "fefo", rows |-> rows, wanted |-> w] :
      rows \in SeqsUpTo(FefoRows, MostRows), w \in {1, 3, 5} }
    \cup
  { [view |-> "aging", rows |-> rows, bounds |-> b] :
      rows \in SeqsUpTo(AgingRows, MostRows), b \in {<<4, 7>>, <<4, 5>>, <<4, 5, 7>>} }
=============================================================================
