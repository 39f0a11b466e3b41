--------------------------- MODULE StockCommands ---------------------------
(***************************************************************************)
(* The stock commands of apps/api/src/inventory.ts as data: what a client  *)
(* may ask for, and which balances a command moves, by how much and under  *)
(* which movement type.  Both the request-level specification              *)
(* (InventoryLedger) and its abstract counterpart (StockLedger) are        *)
(* written over these definitions.                                         *)
(*                                                                         *)
(* One tenant and one product variant are modelled: every row and every    *)
(* query of the component is keyed by both.  A bin stands for the pair     *)
(* (warehouse, bin), and bins are active ones, so a lot is identified by   *)
(* its code, which UNIQUE (tenant, variant, lot_code) makes a key.         *)
(***************************************************************************)
EXTENDS Integers

CONSTANTS
  Bins,           \* active warehouse bins
  Lots,           \* lot codes of the variant
  LotAttributes,  \* (manufacture date, expiry date, supplier) triples
  Keys,           \* Idempotency-Key header values
  Attempts,       \* handler invocations; a retry is one more attempt
  Requests        \* the requests clients may send

Statuses == {"available", "quarantine", "damaged", "blocked"}

BalanceKey == [bin : Bins, lot : Lots, status : Statuses]

At(bin, lot, status) == [bin |-> bin, lot |-> lot, status |-> status]

\* A movement id is a fresh UUID: the attempt that drew it, and which of its
\* (at most two) movements it names.
MovementId == Attempts \X {1, 2}

PositiveInteger == Nat \ {0}
NonZeroInteger  == Int \ {0}

----------------------------------------------------------------------------
(* Requests: the validated bodies, with the idempotency key that came with *)
(* them.  Free text (reasons, references) is part of the payload whose     *)
(* hash is stored; requests that differ only in it are not distinguished.  *)

ReceiveRequest == [op : {"receive"}, key : Keys, bin : Bins, lot : Lots,
                   attributes : LotAttributes, quantity : PositiveInteger]

AdjustRequest == [op : {"adjust"}, key : Keys, bin : Bins, lot : Lots,
                  status : Statuses, delta : NonZeroInteger]

\* Equal source and destination bins are refused before anything is read.
TransferRequest ==
  { r \in [op : {"transfer"}, key : Keys, source : Bins, destination : Bins,
           lot : Lots, status : Statuses, quantity : PositiveInteger] :
      r.source # r.destination }

StatusRequest == [op : {"quarantine", "release"}, key : Keys, bin : Bins,
                  lot : Lots, quantity : PositiveInteger]

ReverseRequest == [op : {"reverse"}, key : Keys, target : MovementId]

Request == ReceiveRequest \cup AdjustRequest \cup TransferRequest
             \cup StatusRequest \cup ReverseRequest

ASSUME RequestsAssumption == Requests \subseteq Request

\* The scope an idempotency key is unique in: one per command, and one per
\* target for reversals.
Scope(r) == IF r.op = "reverse" THEN <<r.op, r.target>> ELSE <<r.op>>

\* Two requests with the same scope and key claim the same idempotency row.
SameClaim(r, s) == Scope(r) = Scope(s) /\ r.key = s.key

----------------------------------------------------------------------------
(* Legs: the balance changes of a command, keyed by the balance they       *)
(* change.  "side" tells the two movements of a paired command apart.      *)

MovementTypes ==
  {"receive", "adjust-in", "adjust-out", "transfer-out", "transfer-in",
   "quarantine-out", "quarantine-in", "release-out", "release-in", "reversal"}

Leg(type, delta, side) == [type |-> type, delta |-> delta, side |-> side]

SingleLeg(k, type, delta) == [x \in {k} |-> Leg(type, delta, 1)]

\* Mutant: the outgoing leg lost its minus sign.
PairedLegs_SignLost(from, to, outType, inType, quantity) ==
  [x \in {from, to} |-> IF x = from THEN Leg(outType, quantity, 1)
                                    ELSE Leg(inType, quantity, 2)]

PairedLegs(from, to, outType, inType, quantity) ==
  [x \in {from, to} |-> IF x = from THEN Leg(outType, -quantity, 1)
                                    ELSE Leg(inType, quantity, 2)]

ReceiveLegs(r) == SingleLeg(At(r.bin, r.lot, "available"), "receive", r.quantity)

AdjustLegs(r) ==
  SingleLeg(At(r.bin, r.lot, r.status),
            IF r.delta > 0 THEN "adjust-in" ELSE "adjust-out", r.delta)

TransferLegs(r) ==
  PairedLegs(At(r.source, r.lot, r.status), At(r.destination, r.lot, r.status),
             "transfer-out", "transfer-in", r.quantity)

QuarantineLegs(r) ==
  PairedLegs(At(r.bin, r.lot, "available"), At(r.bin, r.lot, "quarantine"),
             "quarantine-out", "quarantine-in", r.quantity)

ReleaseLegs(r) ==
  PairedLegs(At(r.bin, r.lot, "quarantine"), At(r.bin, r.lot, "available"),
             "release-out", "release-in", r.quantity)

\* The legs of every command but a reversal follow from its request alone.
CommandLegs(r) ==
  CASE r.op = "receive"    -> ReceiveLegs(r)
    [] r.op = "adjust"     -> AdjustLegs(r)
    [] r.op = "transfer"   -> TransferLegs(r)
    [] r.op = "quarantine" -> QuarantineLegs(r)
    [] r.op = "release"    -> ReleaseLegs(r)

\* A reversal undoes one movement where it happened.
ReversalLegs(k, delta) == SingleLeg(k, "reversal", -delta)

\* Only unpaired, first-hand movements can be reversed.
ReversibleTypes == {"receive", "adjust-in", "adjust-out"}
============================================================================
