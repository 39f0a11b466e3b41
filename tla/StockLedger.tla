---------------------------- MODULE StockLedger ----------------------------
(***************************************************************************)
(* What the stock ledger promises, with no requests in flight: a command   *)
(* takes effect in one step, at most once per (scope, idempotency key),    *)
(* never drives a balance below zero, and a movement is undone at most     *)
(* once, by its exact opposite.                                            *)
(***************************************************************************)
EXTENDS StockCommands

VARIABLES
  stock,    \* quantity per balance key
  applied   \* the commands that took effect: [by, request, legs]

vars == <<stock, applied>>

Init ==
  /\ stock = [k \in BalanceKey |-> 0]
  /\ applied = {}

\* A movement is <<a, side>> for the command a that took effect; only
\* side 1 of an unpaired command is reversible.
Reverses(r, a, k) ==
  /\ r.target = <<a.by, 1>>
  /\ DOMAIN a.legs = {k}
  /\ a.legs[k].type \in ReversibleTypes

LegsFor(r, legs) ==
  \/ r.op # "reverse" /\ legs = CommandLegs(r)
  \/ /\ r.op = "reverse"
     /\ \A a \in applied : a.request.op = "reverse" => a.request.target # r.target
     /\ \E a \in applied, k \in BalanceKey :
          Reverses(r, a, k) /\ legs = ReversalLegs(k, a.legs[k].delta)

Apply(h, r, legs) ==
  /\ \A a \in applied : a.by # h /\ ~SameClaim(a.request, r)
  /\ LegsFor(r, legs)
  /\ \A k \in DOMAIN legs : stock[k] + legs[k].delta >= 0
  /\ stock' = [k \in BalanceKey |->
                 IF k \in DOMAIN legs THEN stock[k] + legs[k].delta ELSE stock[k]]
  /\ applied' = applied \cup {[by |-> h, request |-> r, legs |-> legs]}

\* The legs a request can have: its own, or the opposite of an applied one's.
CandidateLegs(r) ==
  IF r.op = "reverse"
  THEN UNION { { ReversalLegs(k, a.legs[k].delta) : k \in DOMAIN a.legs } :
                 a \in applied }
  ELSE { CommandLegs(r) }

Next == \E h \in Attempts, r \in Requests :
          \E legs \in CandidateLegs(r) : Apply(h, r, legs)

Spec == Init /\ [][Next]_vars
============================================================================
