-------------------------- MODULE InventoryLedger --------------------------
(***************************************************************************)
(* The inventory command handlers of apps/api/src/inventory.ts over the    *)
(* tenant database of database/migrations/tenant/0001.                     *)
(*                                                                         *)
(* A handler is a series of awaited queries followed by one D1 batch.  The *)
(* queries are separate steps, so that handlers interleave between them;   *)
(* the batch is one step that commits or aborts as a whole.  A client that *)
(* loses a response sends the same request again: that is another attempt. *)
(***************************************************************************)
EXTENDS StockCommands, Sequences

VARIABLES
  lots,         \* inventory_lots: attributes per lot code, or NoLot
  balances,     \* inventory_balances: quantity_base and version per key
  journal,      \* inventory_movements, in insertion order per balance key
  idempotency,  \* domain_idempotency rows
  events,       \* the audit row and the outbox row of each command
  pc,           \* where each attempt's handler is
  request,      \* what each attempt asks
  legs,         \* the balance changes the handler is about to write
  newLot,       \* the receipt saw no lot and will insert one
  response      \* what each attempt was answered

database == <<lots, balances, journal, idempotency, events>>
handlers == <<pc, request, legs, newLot, response>>
vars == <<lots, balances, journal, idempotency, events,
          pc, request, legs, newLot, response>>

NoLot      == "no-lot"
NoRequest  == [op |-> "none"]
NoLegs     == [k \in {} |-> Leg("receive", 0, 1)]
NoTarget   == <<>>

\* A lot that is there is told from one that is not.
ASSUME LotAssumption == NoLot \notin LotAttributes

Steps == {"idle", "original", "reversed", "lot", "stock", "replay", "batch",
          "aborted-negative", "aborted-unique", "done"}

Answer(kind, movements) == [kind |-> kind, movements |-> movements]

Refusals == {"refused", "not-found", "lot-attribute-conflict", "not-reversible",
             "already-reversed", "insufficient-stock", "idempotency-conflict",
             "server-error"}

Unanswered == Answer("none", {})

----------------------------------------------------------------------------
(* The tables.                                                             *)

EntriesAt(k) == { journal[k][i] : i \in DOMAIN journal[k] }

Journal == UNION { EntriesAt(k) : k \in BalanceKey }

RecordedIds == { m.id : m \in Journal }

Reversed(id) == \E m \in Journal : m.reverses = id

\* The rows a request's idempotency key can collide with.
Claims(r) == { row \in idempotency : SameClaim(row.request, r) }

\* readDomainReplay only sees rows that have not expired.
LiveClaims(r) == { row \in Claims(r) : row.live }

\* resulting_quantity_base is read from the balance the leg just updated.
Balance(k, d) == [quantity |-> balances[k].quantity + d,
                  version  |-> balances[k].version + 1]

\* Mutant: the movement records the balance from before its own leg.
Movement_BalanceBefore(h, k) ==
  [id        |-> <<h, legs[h][k].side>>,
   type      |-> legs[h][k].type,
   delta     |-> legs[h][k].delta,
   resulting |-> balances[k].quantity,
   reverses  |-> IF request[h].op = "reverse" THEN request[h].target ELSE NoTarget]

Movement(h, k) ==
  [id        |-> <<h, legs[h][k].side>>,
   type      |-> legs[h][k].type,
   delta     |-> legs[h][k].delta,
   resulting |-> Balance(k, legs[h][k].delta).quantity,
   reverses  |-> IF request[h].op = "reverse" THEN request[h].target ELSE NoTarget]

MovementIds(h) == { <<h, legs[h][k].side>> : k \in DOMAIN legs[h] }

\* Mutant: the trigger compares with -1.
DrivesNegative_OffByOne(h) ==
  \E k \in DOMAIN legs[h] : balances[k].quantity + legs[h][k].delta < -1

\* inventory_balances_prevent_negative_{insert,update}
DrivesNegative(h) ==
  \E k \in DOMAIN legs[h] : balances[k].quantity + legs[h][k].delta < 0

\* Mutants: the schema without one of its unique keys.
BreaksUnique_NoLotKey(h) ==
  \/ request[h].op = "reverse" /\ Reversed(request[h].target)
  \/ Claims(request[h]) # {}

BreaksUnique_NoReversalKey(h) ==
  \/ newLot[h] /\ lots[request[h].lot] # NoLot
  \/ Claims(request[h]) # {}

BreaksUnique_NoIdempotencyKey(h) ==
  \/ newLot[h] /\ lots[request[h].lot] # NoLot
  \/ request[h].op = "reverse" /\ Reversed(request[h].target)

\* UNIQUE (tenant_id, variant_id, lot_code), UNIQUE (tenant_id,
\* reversal_of_movement_id) and the primary key of domain_idempotency, which
\* an expired row still occupies.
BreaksUnique(h) ==
  \/ newLot[h] /\ lots[request[h].lot] # NoLot
  \/ request[h].op = "reverse" /\ Reversed(request[h].target)
  \/ Claims(request[h]) # {}

----------------------------------------------------------------------------
Init ==
  /\ lots = [l \in Lots |-> NoLot]
  /\ balances = [k \in BalanceKey |-> [quantity |-> 0, version |-> 0]]
  /\ journal = [k \in BalanceKey |-> <<>>]
  /\ idempotency = {}
  /\ events = {}
  /\ pc = [h \in Attempts |-> "idle"]
  /\ request = [h \in Attempts |-> NoRequest]
  /\ legs = [h \in Attempts |-> NoLegs]
  /\ newLot = [h \in Attempts |-> FALSE]
  /\ response = [h \in Attempts |-> Unanswered]

Goto(h, step) == pc' = [pc EXCEPT ![h] = step] /\ UNCHANGED response

Respond(h, kind, movements) ==
  /\ pc' = [pc EXCEPT ![h] = "done"]
  /\ response' = [response EXCEPT ![h] = Answer(kind, movements)]

\* A handler step that only reads.
ReadOnly == UNCHANGED database /\ UNCHANGED request

\* A request reaches its handler, for the first time or as a retry.
Arrive(h) ==
  /\ pc[h] = "idle"
  /\ \E r \in Requests :
       /\ request' = [request EXCEPT ![h] = r]
       /\ legs' = [legs EXCEPT ![h] = IF r.op = "reverse" THEN NoLegs
                                                         ELSE CommandLegs(r)]
       /\ Goto(h, IF r.op = "reverse" THEN "original" ELSE "lot")
  /\ UNCHANGED database
  /\ UNCHANGED newLot

\* Missing module, permission, variant, warehouse, bin or supplier: the
\* handler throws before it looks at stock.
Refuse(h) ==
  /\ pc[h] \in {"original", "lot"}
  /\ Respond(h, "refused", {})
  /\ ReadOnly
  /\ UNCHANGED <<legs, newLot>>

\* receiveStock: look for the lot; an existing one must agree.
ReadLotForReceipt(h) ==
  /\ pc[h] = "lot" /\ request[h].op = "receive"
  /\ \/ /\ lots[request[h].lot] \notin {NoLot, request[h].attributes}
        /\ Respond(h, "lot-attribute-conflict", {})
        /\ UNCHANGED newLot
     \/ /\ lots[request[h].lot] \in {NoLot, request[h].attributes}
        /\ newLot' = [newLot EXCEPT ![h] = (lots[request[h].lot] = NoLot)]
        /\ Goto(h, "replay")
  /\ ReadOnly
  /\ UNCHANGED legs

\* Commands that take stock away check it; the others go on to the replay.
AfterLookup(h, change) ==
  IF \E k \in DOMAIN change : change[k].delta < 0 THEN "stock" ELSE "replay"

\* requireLot: every other command names an existing lot.
RequireLot(h) ==
  /\ pc[h] = "lot" /\ request[h].op # "receive"
  /\ \/ lots[request[h].lot] = NoLot /\ Respond(h, "not-found", {})
     \/ lots[request[h].lot] # NoLot /\ Goto(h, AfterLookup(h, legs[h]))
  /\ ReadOnly
  /\ UNCHANGED <<legs, newLot>>

\* loadOriginalMovement and the three kinds of movement that stay as they are.
LoadOriginal(h) ==
  /\ pc[h] = "original"
  /\ \/ /\ request[h].target \notin RecordedIds
        /\ Respond(h, "not-found", {})
        /\ UNCHANGED legs
     \/ \E k \in BalanceKey : \E m \in EntriesAt(k) :
          /\ m.id = request[h].target
          /\ \/ /\ m.type \notin ReversibleTypes
                /\ Respond(h, "not-reversible", {})
                /\ UNCHANGED legs
             \/ /\ m.type \in ReversibleTypes
                /\ legs' = [legs EXCEPT ![h] = ReversalLegs(k, m.delta)]
                /\ Goto(h, "reversed")
  /\ ReadOnly
  /\ UNCHANGED newLot

CheckAlreadyReversed(h) ==
  /\ pc[h] = "reversed"
  /\ \/ Reversed(request[h].target) /\ Respond(h, "already-reversed", {})
     \/ ~Reversed(request[h].target) /\ Goto(h, AfterLookup(h, legs[h]))
  /\ ReadOnly
  /\ UNCHANGED <<legs, newLot>>

RequireSufficientStock(h) ==
  /\ pc[h] = "stock"
  /\ \/ DrivesNegative(h) /\ Respond(h, "insufficient-stock", {})
     \/ ~DrivesNegative(h) /\ Goto(h, "replay")
  /\ ReadOnly
  /\ UNCHANGED <<legs, newLot>>

\* readDomainReplay before the batch: the stored response, a conflict when the
\* key was used for another payload, or on to the batch.
ReadReplay(h) ==
  /\ pc[h] = "replay"
  /\ \/ \E row \in LiveClaims(request[h]) :
          \/ row.request = request[h] /\ Respond(h, "replayed", row.movements)
          \/ row.request # request[h] /\ Respond(h, "idempotency-conflict", {})
     \/ LiveClaims(request[h]) = {} /\ Goto(h, "batch")
  /\ ReadOnly
  /\ UNCHANGED <<legs, newLot>>

\* The batch commits: lot, balances, movements, idempotency row, audit and
\* outbox rows together; the response lists the movements just written.
Commit(h) ==
  /\ pc[h] = "batch"
  /\ ~DrivesNegative(h)
  /\ ~BreaksUnique(h)
  /\ lots' = IF newLot[h]
             THEN [lots EXCEPT ![request[h].lot] = request[h].attributes]
             ELSE lots
  /\ balances' = [k \in BalanceKey |->
                    IF k \in DOMAIN legs[h] THEN Balance(k, legs[h][k].delta)
                                            ELSE balances[k]]
  /\ journal' = [k \in BalanceKey |->
                   IF k \in DOMAIN legs[h] THEN Append(journal[k], Movement(h, k))
                                           ELSE journal[k]]
  /\ idempotency' = idempotency \cup
       {[by |-> h, request |-> request[h], movements |-> MovementIds(h), live |-> TRUE]}
  /\ events' = events \cup {[by |-> h, movements |-> MovementIds(h)]}
  /\ Respond(h, "created", MovementIds(h))
  /\ UNCHANGED <<request, legs, newLot>>

\* The batch aborts and leaves no trace; which constraint stopped it decides
\* what the catch block can make of it.
Abort(h) ==
  /\ pc[h] = "batch"
  /\ \/ DrivesNegative(h) /\ Goto(h, "aborted-negative")
     \/ ~DrivesNegative(h) /\ BreaksUnique(h) /\ Goto(h, "aborted-unique")
  /\ ReadOnly
  /\ UNCHANGED <<legs, newLot>>

\* The constraint messages, and the ones runInventoryBatch turns into a 409.
AbortMessage(step) == IF step = "aborted-negative" THEN "inventory_negative_stock"
                                                   ELSE "UNIQUE constraint failed"
ConflictMessages == {"CHECK constraint failed", "quantity_base"}

\* Mutant: the catch block takes every constraint failure for a replay.
CatchAbort_SwallowsError(h) ==
  /\ pc[h] \in {"aborted-negative", "aborted-unique"}
  /\ Respond(h, "created", MovementIds(h) \cap RecordedIds)
  /\ ReadOnly
  /\ UNCHANGED <<legs, newLot>>

\* The catch block of runInventoryBatch: when the same request committed
\* meanwhile the handler goes on to load the movements it did not write.
CatchAbort(h) ==
  /\ pc[h] \in {"aborted-negative", "aborted-unique"}
  /\ \/ \E row \in LiveClaims(request[h]) :
          \/ /\ row.request = request[h]
             /\ Respond(h, "created", MovementIds(h) \cap RecordedIds)
          \/ row.request # request[h] /\ Respond(h, "idempotency-conflict", {})
     \/ /\ LiveClaims(request[h]) = {}
        /\ Respond(h, IF AbortMessage(pc[h]) \in ConflictMessages
                      THEN "insufficient-stock" ELSE "server-error", {})
  /\ ReadOnly
  /\ UNCHANGED <<legs, newLot>>

\* Twenty-four hours pass: the row stays but is no longer replayed.
ExpireKey(row) ==
  /\ row.live
  /\ idempotency' = (idempotency \ {row}) \cup {[row EXCEPT !.live = FALSE]}
  /\ UNCHANGED <<lots, balances, journal, events>>
  /\ UNCHANGED handlers

Step(h) ==
  \/ Refuse(h)
  \/ ReadLotForReceipt(h)
  \/ RequireLot(h)
  \/ LoadOriginal(h)
  \/ CheckAlreadyReversed(h)
  \/ RequireSufficientStock(h)
  \/ ReadReplay(h)
  \/ Commit(h)
  \/ Abort(h)
  \/ CatchAbort(h)

\* Every handler that can run has run.
Quiet == /\ \A h \in Attempts : pc[h] = "done"
         /\ UNCHANGED vars

Next ==
  \/ \E h \in Attempts : Arrive(h) \/ Step(h)
  \/ \E row \in idempotency : ExpireKey(row)
  \/ Quiet

Spec == Init /\ [][Next]_vars

----------------------------------------------------------------------------
(* Properties.                                                             *)

RequestOrNone == Requests \cup {NoRequest}

LegSet == [type : MovementTypes, delta : Int, side : {1, 2}]

IsLegs(f) == DOMAIN f \subseteq BalanceKey /\ f \in [DOMAIN f -> LegSet]

MovementRow == [id : MovementId, type : MovementTypes, delta : Int,
                resulting : Nat, reverses : MovementId \cup {NoTarget}]

IdempotencyRow == [by : Attempts, request : Requests,
                   movements : SUBSET MovementId, live : BOOLEAN]

EventRow == [by : Attempts, movements : SUBSET MovementId]

AnswerSet == [kind : Refusals \cup {"none", "created", "replayed"},
              movements : SUBSET MovementId]

\* The rows of every table, and the state of every handler, have their shape;
\* no balance and no recorded total is ever negative (the triggers
\* inventory_balances_prevent_negative_*, which see no stale read).
TypeOK ==
  /\ lots \in [Lots -> LotAttributes \cup {NoLot}]
  /\ balances \in [BalanceKey -> [quantity : Nat, version : Nat]]
  /\ journal \in [BalanceKey -> Seq(MovementRow)]
  /\ idempotency \subseteq IdempotencyRow
  /\ events \subseteq EventRow
  /\ pc \in [Attempts -> Steps]
  /\ request \in [Attempts -> RequestOrNone]
  /\ DOMAIN legs = Attempts
  /\ \A h \in Attempts : IsLegs(legs[h])
  /\ newLot \in [Attempts -> BOOLEAN]
  /\ response \in [Attempts -> AnswerSet]

\* A handler past its arrival knows its request, and only a receipt that found
\* no lot creates one.
HandlersOK ==
  \A h \in Attempts :
    /\ pc[h] # "idle" => request[h] \in Requests
    /\ newLot[h] => pc[h] # "idle" /\ request[h].op = "receive"

TypeInv == TypeOK /\ HandlersOK

\* The derived balance and the journal agree on every key, however handlers
\* interleave: the balance is the running total its latest movement recorded,
\* every movement continues the total of the one before it, and the balance
\* changed exactly once per movement (balanceDeltaStatement and
\* movementStatement in one batch).
Total(log, i) == IF i = 0 THEN 0 ELSE log[i].resulting

LedgerReconciles ==
  \A k \in BalanceKey :
    /\ balances[k].quantity = Total(journal[k], Len(journal[k]))
    /\ balances[k].version = Len(journal[k])
    /\ \A i \in DOMAIN journal[k] :
         journal[k][i].resulting = Total(journal[k], i - 1) + journal[k][i].delta

\* Attempts whose batch committed, as the journal tells.
Recorded(h) == \E m \in Journal : m.id[1] = h

\* An idempotency key takes effect at most once per scope: whatever is retried,
\* raced or expired, of all attempts with one scope and key a single one has
\* movements (idempotencyStatement's plain INSERT inside the batch).
EffectOnce ==
  \A h, g \in Attempts :
    (h # g /\ Recorded(h) /\ Recorded(g)) => ~SameClaim(request[h], request[g])

\* Why: the rows of the table are one per claim and one per finished attempt,
\* and no movement is written without its row.
ClaimsOK ==
  /\ \A row \in idempotency : pc[row.by] = "done" /\ row.request = request[row.by]
  /\ \A row, other \in idempotency :
       SameClaim(row.request, other.request) => row = other
  /\ \A k \in BalanceKey : \A m \in EntriesAt(k) :
       \E row \in idempotency : row.by = m.id[1]

\* A transfer, quarantine or release moves stock and never makes or loses any:
\* each of its movements has exactly one partner, of the same attempt, for the
\* same lot, at another place, with the opposite delta.
PairedTypes == MovementTypes \ (ReversibleTypes \cup {"reversal"})

PairsBalance ==
  \A k \in BalanceKey : \A m \in EntriesAt(k) : m.type \in PairedTypes =>
    \E kk \in BalanceKey \ {k} :
      /\ kk.lot = k.lot
      /\ \E n \in EntriesAt(kk) : n.id[1] = m.id[1] /\ n.delta = -m.delta
      /\ \A x \in BalanceKey \ {k, kk} : \A n \in EntriesAt(x) : n.id[1] # m.id[1]

\* A correction undoes one existing first-hand movement, at the same balance,
\* by its exact opposite, and no movement is undone twice even when reversals
\* race past the already-reversed query (UNIQUE reversal_of_movement_id).
ReversalsExact ==
  \A k \in BalanceKey : \A m \in EntriesAt(k) : m.type = "reversal" =>
    /\ \E o \in EntriesAt(k) : /\ o.id = m.reverses
                               /\ o.type \in ReversibleTypes
                               /\ o.delta = -m.delta
    /\ \A n \in Journal : n.reverses = m.reverses => n = m

\* What a client is told is true of the database: a refusal or an error left no
\* movement behind, and a success names a request that did take effect with
\* this very payload, in the movements its idempotency row lists.
AnswersAreTrue ==
  \A h \in Attempts :
    /\ response[h].kind \in Refusals => ~Recorded(h)
    /\ response[h].kind \in {"created", "replayed"} =>
         \E row \in Claims(request[h]) :
           /\ row.request = request[h]
           /\ row.movements # {}
           /\ row.movements \subseteq RecordedIds
           /\ response[h].movements \subseteq row.movements

\* Every receipt in the journal carried the attributes its lot has now, also
\* when two receipts raced to create the lot (lot-attribute-conflict and
\* UNIQUE (tenant_id, variant_id, lot_code)).
LotsTraceable ==
  \A h \in Attempts : (request[h].op = "receive" /\ Recorded(h)) =>
    lots[request[h].lot] = request[h].attributes

\* The journal is append-only: no step edits, removes or reorders a movement,
\* and none gives an idempotency row back or changes what it answers.
AppendOnly ==
  /\ \A k \in BalanceKey : \A i \in DOMAIN journal[k] :
       i \in DOMAIN journal'[k] /\ journal'[k][i] = journal[k][i]
  /\ \A row \in idempotency :
       \E new \in idempotency' : [new EXCEPT !.live = row.live] = row

JournalIsAppendOnly == [][AppendOnly]_vars

\* The handlers implement the abstract ledger: each committed batch is one
\* atomic, once-only command, every other step is invisible.
LegsOf(h) ==
  [k \in { x \in BalanceKey : \E m \in EntriesAt(x) : m.id[1] = h } |->
     LET m == CHOOSE n \in EntriesAt(k) : n.id[1] = h
     IN Leg(m.type, m.delta, m.id[2])]

Ledger == INSTANCE StockLedger WITH
  stock   <- [k \in BalanceKey |-> balances[k].quantity],
  applied <- { [by |-> row.by, request |-> row.request, legs |-> LegsOf(row.by)] :
                 row \in idempotency }

ImplementsLedger == Ledger!Spec

----------------------------------------------------------------------------
(* What the documentation and the code say and the handlers do not do.     *)

\* docs/MASTER_DATA_AND_INVENTORY.md: reusing a key with the same payload
\* replays the original result.  An attempt answered while the row of its own
\* request is there and unexpired is answered from it.
HasLiveResult(h) == \E row \in LiveClaims(request[h]) : row.request = request[h]

Answered(h) == pc[h] \notin {"done", "idle"} /\ pc'[h] = "done"

RetryIsReplayed ==
  [][\A h \in Attempts :
       (Answered(h) /\ HasLiveResult(h)) =>
         response'[h].kind \in {"created", "replayed", "refused"}]_vars

\* The same sentence for two attempts in flight together: whichever way a
\* success is answered, it shows the original movements.
SuccessShowsOriginal ==
  \A h \in Attempts : response[h].kind \in {"created", "replayed"} =>
    \E row \in Claims(request[h]) : response[h].movements = row.movements

\* runInventoryBatch says a command that would create negative stock is an
\* insufficient-stock conflict; no attempt stopped by that guard is answered
\* with a server error.
NegativeStockIsConflict ==
  [][\A h \in Attempts :
       (pc[h] = "aborted-negative" /\ Answered(h)) =>
         response'[h].kind # "server-error"]_vars
============================================================================
