--------------------------- MODULE MCSalesOrders ---------------------------
(***************************************************************************)
(* Small instances of SalesOrders: two quotations that ask for the same    *)
(* variant, one of them in two lines, and calls that send, accept, convert *)
(* and cancel them in every order while the stock moves.                   *)
(***************************************************************************)
EXTENDS SalesOrders, TLC

CONSTANTS c1, c2, c3, e1, e2, beer, main, k1, k2

OneOf(n) == [variant |-> beer, quantity |-> n]

SalesLines == {<<OneOf(1)>>, <<OneOf(1), OneOf(1)>>}

\* e1 asks for two units in two lines, e2 for one and is ready to convert.
SalesBeginnings ==
  { (e1 :> [status |-> s, lines |-> <<OneOf(1), OneOf(1)>>])
      @@ (e2 :> [status |-> "accepted", lines |-> <<OneOf(1)>>])
    : s \in {"draft", "sent", "accepted"} }

Blank(op, key) ==
  [op |-> op, key |-> key, lines |-> <<>>, quote |-> None, order |-> None,
   warehouse |-> None]

On(op, key, q) == [Blank(op, key) EXCEPT !.quote = q]

Convert(key, q) == [On("convert", key, q) EXCEPT !.warehouse = main]

Cancel(key, o) == [Blank("cancel", key) EXCEPT !.order = o]

\* Three calls that convert the same quotation or two of them, and that make,
\* send, accept or cancel what the others made, with the same key or not.
SalesCommands ==
  (c1 :> {Convert(k1, e1), On("accept", k1, e1),
          [Blank("create", k1) EXCEPT !.lines = <<OneOf(1)>>]})
    @@ (c2 :> {Convert(k1, e1), Convert(k2, e2), On("accept", k2, e1),
               On("send", k1, e1), On("send", k1, c1), Cancel(k1, c1)})
    @@ (c3 :> {Convert(k2, e1), Convert(k2, e2), On("accept", k1, e1), On("send", k1, e1),
               Cancel(k1, c1), Cancel(k2, c1),
               [Blank("create", k1) EXCEPT !.lines = <<OneOf(1), OneOf(1)>>]})

\* One order, and stock that leaves.
PromiseCommands == (c1 :> {Convert(k1, e1)}) @@ (c2 :> {Convert(k1, e2)})
============================================================================
