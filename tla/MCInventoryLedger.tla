------------------------- MODULE MCInventoryLedger -------------------------
(***************************************************************************)
(* Small instances of InventoryLedger: one lot, two bins, and requests     *)
(* chosen so that receipts race to create the lot, withdrawals race for    *)
(* the same units, and keys are retried, raced and reused.                 *)
(***************************************************************************)
EXTENDS InventoryLedger, TLC

CONSTANTS a1, a2, a3, a4, b1, b2, l1, k1, k2, attrsA, attrsB

Receive(key, attributes, quantity) ==
  [op |-> "receive", key |-> key, bin |-> b1, lot |-> l1,
   attributes |-> attributes, quantity |-> quantity]

Adjust(key, status, delta) ==
  [op |-> "adjust", key |-> key, bin |-> b1, lot |-> l1,
   status |-> status, delta |-> delta]

Transfer(key, quantity) ==
  [op |-> "transfer", key |-> key, source |-> b1, destination |-> b2,
   lot |-> l1, status |-> "available", quantity |-> quantity]

MoveStatus(op, key) ==
  [op |-> op, key |-> key, bin |-> b1, lot |-> l1, quantity |-> 1]

Reverse(key, h) == [op |-> "reverse", key |-> key, target |-> <<h, 1>>]

\* Receipts and withdrawals contending for one balance, with reused keys.
StockRequests ==
  { Receive(k1, attrsA, 2), Receive(k2, attrsA, 2), Receive(k2, attrsB, 2),
    Adjust(k1, "available", -2), Adjust(k1, "damaged", 1),
    Transfer(k1, 1), Transfer(k2, 2),
    MoveStatus("quarantine", k1), MoveStatus("release", k1) }

\* Corrections: anything recorded may be reversed, twice, or raced.
ReversalRequests ==
  { Receive(k1, attrsA, 1), Adjust(k1, "available", -1), Transfer(k1, 1) }
    \cup { Reverse(k, h) : k \in {k1, k2}, h \in Attempts }

Symmetry == Permutations(Attempts)
============================================================================
