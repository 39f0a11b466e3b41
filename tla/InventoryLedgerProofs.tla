----------------------- MODULE InventoryLedgerProofs -----------------------
(***************************************************************************)
(* Proofs about InventoryLedger for every set of bins, lots, keys,         *)
(* attempts and requests.                                                  *)
(***************************************************************************)
EXTENDS InventoryLedger, TLAPS

(* The legs of every command are balance changes of the ledger's shape.    *)

LEMMA SingleLegShape ==
  ASSUME NEW k \in BalanceKey, NEW type \in MovementTypes, NEW delta \in Int
  PROVE  IsLegs(SingleLeg(k, type, delta))
  BY DEF IsLegs, SingleLeg, Leg, LegSet

LEMMA PairedLegsShape ==
  ASSUME NEW from \in BalanceKey, NEW to \in BalanceKey,
         NEW outType \in MovementTypes, NEW inType \in MovementTypes,
         NEW quantity \in Nat
  PROVE  IsLegs(PairedLegs(from, to, outType, inType, quantity))
  BY DEF IsLegs, PairedLegs, Leg, LegSet

LEMMA CommandLegsShape ==
  ASSUME NEW r \in Requests, r.op # "reverse"
  PROVE  IsLegs(CommandLegs(r))
  <1> DEFINE at(bin, status) == At(bin, r.lot, status)
  <1>0. r \in Request
    BY RequestsAssumption
  <1>1. CASE r \in ReceiveRequest
    <2>1. at(r.bin, "available") \in BalanceKey /\ r.quantity \in Int
      BY <1>1 DEF ReceiveRequest, BalanceKey, At, Statuses, PositiveInteger
    <2>2. CommandLegs(r) = SingleLeg(at(r.bin, "available"), "receive", r.quantity)
      BY <1>1 DEF ReceiveRequest, CommandLegs, ReceiveLegs
    <2>3. QED
      BY <2>1, <2>2, SingleLegShape DEF MovementTypes
  <1>2. CASE r \in AdjustRequest
    <2>1. at(r.bin, r.status) \in BalanceKey /\ r.delta \in Int
      BY <1>2 DEF AdjustRequest, BalanceKey, At, NonZeroInteger
    <2>2. \E type \in {"adjust-in", "adjust-out"} :
            CommandLegs(r) = SingleLeg(at(r.bin, r.status), type, r.delta)
      BY <1>2 DEF AdjustRequest, CommandLegs, AdjustLegs
    <2>3. QED
      BY <2>1, <2>2, SingleLegShape DEF MovementTypes
  <1>3. CASE r \in TransferRequest
    <2>1. /\ at(r.source, r.status) \in BalanceKey
          /\ at(r.destination, r.status) \in BalanceKey
          /\ r.quantity \in Nat
      BY <1>3 DEF TransferRequest, BalanceKey, At, PositiveInteger
    <2>2. CommandLegs(r) = PairedLegs(at(r.source, r.status), at(r.destination, r.status),
                                      "transfer-out", "transfer-in", r.quantity)
      BY <1>3 DEF TransferRequest, CommandLegs, TransferLegs
    <2>3. QED
      BY <2>1, <2>2, PairedLegsShape DEF MovementTypes
  <1>4. CASE r \in StatusRequest
    <2>1. /\ at(r.bin, "available") \in BalanceKey
          /\ at(r.bin, "quarantine") \in BalanceKey
          /\ r.quantity \in Nat
      BY <1>4 DEF StatusRequest, BalanceKey, At, PositiveInteger, Statuses
    <2>2. \/ CommandLegs(r) = PairedLegs(at(r.bin, "available"), at(r.bin, "quarantine"),
                                "quarantine-out", "quarantine-in", r.quantity)
          \/ CommandLegs(r) = PairedLegs(at(r.bin, "quarantine"), at(r.bin, "available"),
                                "release-out", "release-in", r.quantity)
      BY <1>4 DEF StatusRequest, CommandLegs, QuarantineLegs, ReleaseLegs
    <2>3. QED
      BY <2>1, <2>2, PairedLegsShape DEF MovementTypes
  <1>5. QED
    BY <1>0, <1>1, <1>2, <1>3, <1>4 DEF Request, ReverseRequest

LEMMA ReversalLegsShape ==
  ASSUME NEW k \in BalanceKey, NEW delta \in Int
  PROVE  IsLegs(ReversalLegs(k, delta))
  BY SingleLegShape DEF ReversalLegs, MovementTypes

LEMMA NoLegsShape == IsLegs(NoLegs)
  BY DEF IsLegs, NoLegs

----------------------------------------------------------------------------
(* Type correctness.                                                       *)

LEMMA AnswerShape ==
  ASSUME NEW kind \in Refusals \cup {"none", "created", "replayed"},
         NEW movements \in SUBSET MovementId
  PROVE  Answer(kind, movements) \in AnswerSet
  BY DEF Answer, AnswerSet

\* A step that only answers or moves on keeps the handler part of the type.
LEMMA RespondTyped ==
  ASSUME TypeOK, NEW h \in Attempts,
         NEW kind \in Refusals \cup {"none", "created", "replayed"},
         NEW movements \in SUBSET MovementId,
         Respond(h, kind, movements)
  PROVE  pc' \in [Attempts -> Steps] /\ response' \in [Attempts -> AnswerSet]
  BY AnswerShape DEF TypeOK, Respond, Steps

LEMMA GotoTyped ==
  ASSUME TypeOK, NEW h \in Attempts, NEW step \in Steps, Goto(h, step)
  PROVE  pc' \in [Attempts -> Steps] /\ response' \in [Attempts -> AnswerSet]
  BY DEF TypeOK, Goto

LEMMA MovementIdsTyped ==
  ASSUME TypeOK, NEW h \in Attempts
  PROVE  MovementIds(h) \in SUBSET MovementId
  <1>1. ASSUME NEW k \in DOMAIN legs[h]
        PROVE  legs[h][k].side \in {1, 2}
    BY DEF TypeOK, IsLegs, LegSet
  <1>2. QED
    BY <1>1 DEF MovementIds, MovementId

LEMMA EntriesTyped ==
  ASSUME TypeOK, NEW k \in BalanceKey, NEW m \in EntriesAt(k)
  PROVE  m \in MovementRow
  BY DEF TypeOK, EntriesAt

LEMMA LegTyped ==
  ASSUME TypeOK, NEW h \in Attempts, NEW k \in DOMAIN legs[h]
  PROVE  k \in BalanceKey /\ legs[h][k] \in LegSet
  BY DEF TypeOK, IsLegs

\* What the batch writes on a balance it moves is a well-formed row: the
\* guard against negative stock makes the new quantity a natural number.
LEMMA CommitRowsTyped ==
  ASSUME TypeOK, NEW h \in Attempts, ~DrivesNegative(h),
         request[h] \in Requests, NEW k \in DOMAIN legs[h]
  PROVE  /\ Balance(k, legs[h][k].delta) \in [quantity : Nat, version : Nat]
         /\ Movement(h, k) \in MovementRow
  <1>1. k \in BalanceKey /\ legs[h][k] \in LegSet
    BY LegTyped
  <1>2. balances[k] \in [quantity : Nat, version : Nat]
    BY <1>1 DEF TypeOK
  <1>3. balances[k].quantity + legs[h][k].delta >= 0
    BY <1>1, <1>2 DEF DrivesNegative, LegSet
  <1>4. Balance(k, legs[h][k].delta) \in [quantity : Nat, version : Nat]
    BY <1>1, <1>2, <1>3 DEF Balance, LegSet
  <1>5. (IF request[h].op = "reverse" THEN request[h].target ELSE NoTarget)
          \in MovementId \cup {NoTarget}
    BY RequestsAssumption DEF Request, ReceiveRequest, AdjustRequest,
       TransferRequest, StatusRequest, ReverseRequest
  <1>6. <<h, legs[h][k].side>> \in MovementId
    BY <1>1 DEF MovementId, LegSet
  <1>7. Movement(h, k) \in MovementRow
    BY <1>1, <1>4, <1>5, <1>6 DEF Movement, MovementRow, LegSet
  <1>8. QED
    BY <1>4, <1>7

LEMMA RequestShape ==
  ASSUME NEW r \in Requests
  PROVE  /\ r.op = "receive" => r.lot \in Lots /\ r.attributes \in LotAttributes
         /\ r.op # "reverse" => r.lot \in Lots
         /\ r.op # "none"
  BY RequestsAssumption DEF Request, ReceiveRequest, AdjustRequest,
     TransferRequest, StatusRequest, ReverseRequest

LEMMA TypeInit == Init => TypeInv
  BY NoLegsShape DEF Init, TypeInv, TypeOK, HandlersOK, RequestOrNone, NoRequest,
     Unanswered, Answer, AnswerSet, Steps

\* What a reading handler does to its own state: it answers or moves on.
Proceeds(h) ==
  \/ \E kind \in Refusals \cup {"created", "replayed"}, ids \in SUBSET MovementId :
       Respond(h, kind, ids)
  \/ \E step \in Steps \ {"idle"} : Goto(h, step)

LEMMA ProceedsTyped ==
  ASSUME TypeOK, NEW h \in Attempts, Proceeds(h)
  PROVE  /\ pc' \in [Attempts -> Steps] /\ response' \in [Attempts -> AnswerSet]
         /\ pc'[h] # "idle"
         /\ \A g \in Attempts \ {h} : pc'[g] = pc[g]
  <1>1. CASE \E kind \in Refusals \cup {"created", "replayed"}, ids \in SUBSET MovementId :
               Respond(h, kind, ids)
    BY <1>1, RespondTyped DEF Respond, TypeOK
  <1>2. CASE \E step \in Steps \ {"idle"} : Goto(h, step)
    BY <1>2, GotoTyped DEF Goto, TypeOK
  <1>3. QED
    BY <1>1, <1>2 DEF Proceeds

LEMMA ReadingStepTyped ==
  ASSUME TypeInv, NEW h \in Attempts, ReadOnly, pc[h] # "idle", Proceeds(h),
         DOMAIN legs' = Attempts, \A g \in Attempts : IsLegs(legs'[g]),
         newLot' \in [Attempts -> BOOLEAN],
         \A g \in Attempts :
           newLot'[g] => newLot[g] \/ (g = h /\ request[h].op = "receive")
  PROVE  TypeInv'
  <1>1. TypeOK /\ HandlersOK
    BY DEF TypeInv
  <1>2. /\ pc' \in [Attempts -> Steps] /\ response' \in [Attempts -> AnswerSet]
        /\ pc'[h] # "idle"
        /\ \A g \in Attempts \ {h} : pc'[g] = pc[g]
    BY <1>1, ProceedsTyped
  <1>3. TypeOK'
    BY <1>1, <1>2 DEF TypeOK, ReadOnly, database
  <1>4. HandlersOK'
    BY <1>1, <1>2 DEF HandlersOK, ReadOnly
  <1>5. QED
    BY <1>3, <1>4 DEF TypeInv

LEMMA PlainReadTyped ==
  ASSUME TypeInv, NEW h \in Attempts, ReadOnly, pc[h] # "idle", Proceeds(h),
         UNCHANGED <<legs, newLot>>
  PROVE  TypeInv'
  BY ReadingStepTyped DEF TypeInv, TypeOK

LEMMA ArriveTyped ==
  ASSUME TypeInv, NEW h \in Attempts, Arrive(h)
  PROVE  TypeInv'
  <1>0. TypeOK /\ HandlersOK
    BY DEF TypeInv
  <1>1. PICK r \in Requests :
          /\ request' = [request EXCEPT ![h] = r]
          /\ legs' = [legs EXCEPT ![h] = IF r.op = "reverse" THEN NoLegs
                                                            ELSE CommandLegs(r)]
          /\ Goto(h, IF r.op = "reverse" THEN "original" ELSE "lot")
    BY DEF Arrive
  <1>2. \A g \in Attempts : IsLegs(legs'[g])
    BY <1>0, <1>1, NoLegsShape, CommandLegsShape DEF TypeOK
  <1>3. (IF r.op = "reverse" THEN "original" ELSE "lot") \in Steps
    BY DEF Steps
  <1>4. pc' \in [Attempts -> Steps] /\ response' \in [Attempts -> AnswerSet]
    BY <1>0, <1>1, <1>3, GotoTyped
  <1>5. request' \in [Attempts -> RequestOrNone]
    BY <1>0, <1>1 DEF TypeOK, RequestOrNone
  <1>6. TypeOK'
    BY <1>0, <1>1, <1>2, <1>4, <1>5 DEF TypeOK, Arrive, database
  <1>7. HandlersOK'
    BY <1>0, <1>1 DEF TypeOK, HandlersOK, Arrive, Goto
  <1>8. QED
    BY <1>6, <1>7 DEF TypeInv

LEMMA CommitTyped ==
  ASSUME TypeInv, NEW h \in Attempts, Commit(h)
  PROVE  TypeInv'
  <1>1. TypeOK /\ HandlersOK
    BY DEF TypeInv
  <1>2. request[h] \in Requests /\ ~DrivesNegative(h) /\ pc[h] = "batch"
    BY <1>1 DEF Commit, HandlersOK
  <1>3. lots' \in [Lots -> LotAttributes \cup {NoLot}]
    <2>1. CASE newLot[h]
      <3>1. request[h].lot \in Lots /\ request[h].attributes \in LotAttributes
        BY <1>1, <1>2, <2>1, RequestShape DEF HandlersOK
      <3>2. QED
        BY <1>1, <2>1, <3>1 DEF Commit, TypeOK
    <2>2. CASE ~newLot[h]
      BY <1>1, <2>2 DEF Commit, TypeOK
    <2>3. QED
      BY <2>1, <2>2
  <1>4. balances' \in [BalanceKey -> [quantity : Nat, version : Nat]]
    BY <1>1, <1>2, CommitRowsTyped DEF Commit, TypeOK
  <1>5. journal' \in [BalanceKey -> Seq(MovementRow)]
    <2>1. ASSUME NEW k \in BalanceKey
          PROVE  (IF k \in DOMAIN legs[h] THEN Append(journal[k], Movement(h, k))
                                          ELSE journal[k]) \in Seq(MovementRow)
      <3>1. journal[k] \in Seq(MovementRow)
        BY <1>1 DEF TypeOK
      <3>2. CASE k \in DOMAIN legs[h]
        <4>1. Movement(h, k) \in MovementRow
          BY <1>1, <1>2, <3>2, CommitRowsTyped
        <4>2. QED
          BY <3>1, <3>2, <4>1
      <3>3. QED
        BY <3>1, <3>2
    <2>2. QED
      BY <2>1 DEF Commit
  <1>6. MovementIds(h) \in SUBSET MovementId
    BY <1>1, MovementIdsTyped
  <1>7. idempotency' \subseteq IdempotencyRow /\ events' \subseteq EventRow
    <2>1. [by |-> h, request |-> request[h], movements |-> MovementIds(h), live |-> TRUE]
            \in IdempotencyRow
      BY <1>2, <1>6 DEF IdempotencyRow
    <2>2. [by |-> h, movements |-> MovementIds(h)] \in EventRow
      BY <1>6 DEF EventRow
    <2>3. QED
      BY <1>1, <2>1, <2>2 DEF Commit, TypeOK
  <1>8. pc' \in [Attempts -> Steps] /\ response' \in [Attempts -> AnswerSet]
    BY <1>1, <1>6, RespondTyped DEF Commit
  <1>9. TypeOK'
    BY <1>1, <1>3, <1>4, <1>5, <1>7, <1>8 DEF Commit, TypeOK
  <1>10. HandlersOK'
    BY <1>1, <1>2 DEF Commit, Respond, HandlersOK, TypeOK
  <1>11. QED
    BY <1>9, <1>10 DEF TypeInv

LEMMA StepTyped ==
  ASSUME TypeInv, NEW h \in Attempts, Step(h)
  PROVE  TypeInv'
  <1>0. TypeOK /\ HandlersOK
    BY DEF TypeInv
  <1>1. CASE Refuse(h)
    BY <1>1, PlainReadTyped DEF Refuse, Proceeds, Refusals
  <1>2. CASE ReadLotForReceipt(h)
    <2>1. newLot' \in [Attempts -> BOOLEAN]
      BY <1>0, <1>2 DEF ReadLotForReceipt, TypeOK
    <2>2. Proceeds(h) /\ pc[h] # "idle"
      BY <1>2 DEF ReadLotForReceipt, Proceeds, Refusals, Steps
    <2>3. \A g \in Attempts :
            newLot'[g] => newLot[g] \/ (g = h /\ request[h].op = "receive")
      BY <1>0, <1>2 DEF ReadLotForReceipt, TypeOK
    <2>4. QED
      BY <1>0, <1>2, <2>1, <2>2, <2>3, ReadingStepTyped DEF ReadLotForReceipt, TypeOK
  <1>3. CASE RequireLot(h)
    BY <1>3, PlainReadTyped DEF RequireLot, Proceeds, Refusals, Steps, AfterLookup
  <1>4. CASE LoadOriginal(h)
    <2>1. DOMAIN legs' = Attempts /\ \A g \in Attempts : IsLegs(legs'[g])
      <3>1. CASE UNCHANGED legs
        BY <1>0, <3>1 DEF TypeOK
      <3>2. CASE \E k \in BalanceKey : \E m \in EntriesAt(k) :
                   legs' = [legs EXCEPT ![h] = ReversalLegs(k, m.delta)]
        <4>1. PICK k \in BalanceKey : \E m \in EntriesAt(k) :
                legs' = [legs EXCEPT ![h] = ReversalLegs(k, m.delta)]
          BY <3>2
        <4>2. PICK m \in EntriesAt(k) :
                legs' = [legs EXCEPT ![h] = ReversalLegs(k, m.delta)]
          BY <4>1
        <4>3. IsLegs(ReversalLegs(k, m.delta))
          BY <1>0, EntriesTyped, ReversalLegsShape DEF MovementRow
        <4>4. QED
          BY <1>0, <4>2, <4>3 DEF TypeOK
      <3>3. QED
        BY <1>4, <3>1, <3>2 DEF LoadOriginal
    <2>2. Proceeds(h) /\ pc[h] # "idle" /\ ReadOnly /\ UNCHANGED newLot
      BY <1>4 DEF LoadOriginal, Proceeds, Refusals, Steps
    <2>3. QED
      BY <1>0, <2>1, <2>2, ReadingStepTyped DEF TypeOK
  <1>5. CASE CheckAlreadyReversed(h)
    BY <1>5, PlainReadTyped DEF CheckAlreadyReversed, Proceeds, Refusals, Steps, AfterLookup
  <1>6. CASE RequireSufficientStock(h)
    BY <1>6, PlainReadTyped DEF RequireSufficientStock, Proceeds, Refusals, Steps
  <1>7. CASE ReadReplay(h)
    <2>1. \A row \in LiveClaims(request[h]) : row.movements \in SUBSET MovementId
      BY <1>0 DEF LiveClaims, Claims, TypeOK, IdempotencyRow
    <2>2. Proceeds(h)
      BY <1>7, <2>1 DEF ReadReplay, Proceeds, Refusals, Steps
    <2>3. QED
      BY <1>7, <2>2, PlainReadTyped DEF ReadReplay
  <1>8. CASE Commit(h)
    BY <1>8, CommitTyped
  <1>9. CASE Abort(h)
    BY <1>9, PlainReadTyped DEF Abort, Proceeds, Steps
  <1>10. CASE CatchAbort(h)
    <2>1. MovementIds(h) \cap RecordedIds \in SUBSET MovementId
      BY <1>0, MovementIdsTyped
    <2>2. Proceeds(h)
      BY <1>10, <2>1 DEF CatchAbort, Proceeds, Refusals
    <2>3. QED
      BY <1>10, <2>2, PlainReadTyped DEF CatchAbort
  <1>11. QED
    BY <1>1, <1>2, <1>3, <1>4, <1>5, <1>6, <1>7, <1>8, <1>9, <1>10 DEF Step

LEMMA ExpireTyped ==
  ASSUME TypeInv, NEW row \in idempotency, ExpireKey(row)
  PROVE  TypeInv'
  <1>1. [row EXCEPT !.live = FALSE] \in IdempotencyRow
    BY DEF TypeInv, TypeOK, IdempotencyRow
  <1>2. QED
    BY <1>1 DEF TypeInv, TypeOK, HandlersOK, ExpireKey, handlers

LEMMA TypeNext ==
  ASSUME TypeInv, [Next]_vars
  PROVE  TypeInv'
  <1>1. CASE UNCHANGED vars
    <2>1. TypeOK'
      BY <1>1 DEF vars, TypeInv, TypeOK
    <2>2. HandlersOK'
      BY <1>1 DEF vars, TypeInv, HandlersOK
    <2>3. QED
      BY <2>1, <2>2 DEF TypeInv
  <1>2. CASE Next
    BY <1>1, <1>2, ArriveTyped, StepTyped, ExpireTyped DEF Next, Quiet
  <1>3. QED
    BY <1>1, <1>2

LEMMA TypeInvariant == Spec => []TypeInv
  <1>1. TypeInv /\ [Next]_vars => TypeInv'
    BY TypeNext
  <1>2. QED
    BY <1>1, TypeInit, PTL DEF Spec

\* Every reachable state has well-formed tables and handlers, and no balance or
\* recorded total is ever negative, whatever the requests and their timing.
THEOREM TypeCorrect == Spec => []TypeOK
  BY TypeInvariant, PTL DEF TypeInv

----------------------------------------------------------------------------
(* The journal.                                                            *)

\* Stock, journal, lots and events change in batches only.
LEMMA OnlyCommitWrites ==
  ASSUME [Next]_vars
  PROVE  \/ UNCHANGED <<lots, balances, journal, events>>
         \/ \E h \in Attempts : Commit(h)
  <1>1. ASSUME NEW h \in Attempts, Arrive(h)
        PROVE  UNCHANGED <<lots, balances, journal, events>>
    BY <1>1 DEF Arrive, database
  <1>2. ASSUME NEW h \in Attempts,
               Refuse(h) \/ ReadLotForReceipt(h) \/ RequireLot(h) \/ LoadOriginal(h)
        PROVE  UNCHANGED <<lots, balances, journal, events>>
    BY <1>2 DEF Refuse, ReadLotForReceipt, RequireLot, LoadOriginal, ReadOnly, database
  <1>3. ASSUME NEW h \in Attempts,
               \/ CheckAlreadyReversed(h) \/ RequireSufficientStock(h) \/ ReadReplay(h)
               \/ Abort(h) \/ CatchAbort(h)
        PROVE  UNCHANGED <<lots, balances, journal, events>>
    BY <1>3 DEF CheckAlreadyReversed, RequireSufficientStock, ReadReplay, Abort, CatchAbort,
                ReadOnly, database
  <1>4. CASE (\E row \in idempotency : ExpireKey(row)) \/ Quiet \/ UNCHANGED vars
    BY <1>4 DEF ExpireKey, Quiet, vars, database
  <1>5. QED
    BY <1>1, <1>2, <1>3, <1>4 DEF Next, Step

LEMMA ReconcilesNext ==
  ASSUME TypeInv, LedgerReconciles, [Next]_vars
  PROVE  LedgerReconciles'
  <1>1. CASE UNCHANGED <<lots, balances, journal, events>>
    BY <1>1 DEF LedgerReconciles, Total
  <1>2. ASSUME NEW h \in Attempts, Commit(h) PROVE LedgerReconciles'
    <2> SUFFICES ASSUME NEW k \in BalanceKey
                 PROVE  /\ balances'[k].quantity = Total(journal'[k], Len(journal'[k]))
                        /\ balances'[k].version = Len(journal'[k])
                        /\ \A i \in DOMAIN journal'[k] :
                             journal'[k][i].resulting
                               = Total(journal'[k], i - 1) + journal'[k][i].delta
      BY DEF LedgerReconciles
    <2>1. TypeOK /\ request[h] \in Requests /\ ~DrivesNegative(h)
      BY <1>2 DEF TypeInv, HandlersOK, Commit
    <2>2. /\ balances[k].quantity = Total(journal[k], Len(journal[k]))
          /\ balances[k].version = Len(journal[k])
          /\ \A i \in DOMAIN journal[k] :
               journal[k][i].resulting = Total(journal[k], i - 1) + journal[k][i].delta
      BY DEF LedgerReconciles
    <2>3. journal[k] \in Seq(MovementRow) /\ balances[k] \in [quantity : Nat, version : Nat]
      BY <2>1 DEF TypeOK
    <2>4. CASE k \notin DOMAIN legs[h]
      BY <1>2, <2>2, <2>4 DEF Commit
    <2>5. CASE k \in DOMAIN legs[h]
      <3> DEFINE m == Movement(h, k)
      <3>1. journal'[k] = Append(journal[k], m) /\ balances'[k] = Balance(k, m.delta)
        BY <1>2, <2>5 DEF Commit, Movement
      <3>2. m \in MovementRow
        BY <2>1, <2>5, CommitRowsTyped
      <3>3. m.resulting = balances[k].quantity + m.delta
        BY DEF Movement, Balance
      <3>4. Balance(k, m.delta).quantity = m.resulting
            /\ Balance(k, m.delta).version = Len(journal[k]) + 1
        BY <2>2, <3>3 DEF Balance
      <3> HIDE DEF m
      <3>5. /\ Len(journal'[k]) = Len(journal[k]) + 1
            /\ \A i \in 1 .. Len(journal[k]) : journal'[k][i] = journal[k][i]
            /\ journal'[k][Len(journal[k]) + 1] = m
            /\ DOMAIN journal'[k] = 1 .. Len(journal[k]) + 1
            /\ Len(journal[k]) \in Nat
        BY <2>3, <3>1, <3>2
      <3>6. balances'[k].quantity = Total(journal'[k], Len(journal'[k]))
        BY <3>1, <3>4, <3>5 DEF Total
      <3>7. balances'[k].version = Len(journal'[k])
        BY <3>1, <3>4, <3>5
      <3>8. ASSUME NEW i \in DOMAIN journal'[k]
            PROVE  journal'[k][i].resulting
                     = Total(journal'[k], i - 1) + journal'[k][i].delta
        <4>1. CASE i \in 1 .. Len(journal[k])
          <5>1. Total(journal'[k], i - 1) = Total(journal[k], i - 1)
            BY <3>5, <4>1 DEF Total
          <5>2. QED
            BY <2>2, <2>3, <3>5, <4>1, <5>1
        <4>2. CASE i = Len(journal[k]) + 1
          <5>1. Total(journal'[k], i - 1) = Total(journal[k], Len(journal[k]))
            BY <3>5, <4>2 DEF Total
          <5>2. QED
            BY <2>2, <3>3, <3>5, <4>2, <5>1
        <4>3. QED
          BY <3>5, <4>1, <4>2
      <3>9. QED
        BY <3>6, <3>7, <3>8
    <2>6. QED
      BY <2>4, <2>5
  <1>3. QED
    BY <1>1, <1>2, OnlyCommitWrites

\* On every key the balance is the running total of the journal: the derived
\* table cannot drift from the movements, for any number of racing handlers.
THEOREM BalancesFollowJournal == Spec => []LedgerReconciles
  <1>1. Init => LedgerReconciles
    BY DEF Init, LedgerReconciles, Total
  <1>2. TypeInv /\ LedgerReconciles /\ [Next]_vars => LedgerReconciles'
    BY ReconcilesNext
  <1>3. QED
    BY <1>1, <1>2, TypeInvariant, PTL DEF Spec

LEMMA AppendOnlyNext ==
  ASSUME TypeInv, [Next]_vars
  PROVE  AppendOnly \/ UNCHANGED vars
  <1>0. TypeOK
    BY DEF TypeInv
  <1>1. ASSUME NEW k \in BalanceKey, NEW i \in DOMAIN journal[k]
        PROVE  i \in DOMAIN journal'[k] /\ journal'[k][i] = journal[k][i]
    <2>1. journal[k] \in Seq(MovementRow)
      BY <1>0 DEF TypeOK
    <2>2. CASE UNCHANGED journal
      BY <2>2
    <2>3. ASSUME NEW h \in Attempts, Commit(h)
          PROVE  i \in DOMAIN journal'[k] /\ journal'[k][i] = journal[k][i]
      <3>1. CASE k \in DOMAIN legs[h]
        <4>1. request[h] \in Requests /\ ~DrivesNegative(h)
          BY <2>3 DEF TypeInv, HandlersOK, Commit
        <4>2. Movement(h, k) \in MovementRow
          BY <1>0, <3>1, <4>1, CommitRowsTyped
        <4>3. journal'[k] = Append(journal[k], Movement(h, k))
          BY <2>3, <3>1 DEF Commit
        <4>4. QED
          BY <2>1, <4>2, <4>3
      <3>2. CASE k \notin DOMAIN legs[h]
        BY <2>3, <3>2 DEF Commit
      <3>3. QED
        BY <3>1, <3>2
    <2>4. QED
      BY <2>2, <2>3, OnlyCommitWrites
  <1>2. ASSUME NEW row \in idempotency
        PROVE  \E new \in idempotency' : [new EXCEPT !.live = row.live] = row
    <2>1. row \in IdempotencyRow
      BY <1>0 DEF TypeOK
    <2>2. [row EXCEPT !.live = row.live] = row
      BY <2>1 DEF IdempotencyRow
    <2>3. CASE row \in idempotency'
      BY <2>2, <2>3
    <2>4. ASSUME NEW old \in idempotency, ExpireKey(old), row \notin idempotency'
          PROVE  \E new \in idempotency' : [new EXCEPT !.live = row.live] = row
      <3>1. old = row /\ [row EXCEPT !.live = FALSE] \in idempotency'
        BY <2>4 DEF ExpireKey
      <3>2. [[row EXCEPT !.live = FALSE] EXCEPT !.live = row.live] = row
        BY <2>1 DEF IdempotencyRow
      <3>3. QED
        BY <3>1, <3>2
    <2>5. \/ UNCHANGED idempotency
          \/ \E h \in Attempts : Commit(h)
          \/ \E old \in idempotency : ExpireKey(old)
      BY DEF Next, Arrive, Step, Refuse, ReadLotForReceipt, RequireLot, LoadOriginal,
         CheckAlreadyReversed, RequireSufficientStock, ReadReplay, Abort, CatchAbort,
         ReadOnly, database, Quiet, vars
    <2>6. QED
      BY <2>3, <2>4, <2>5 DEF Commit
  <1>3. QED
    BY <1>1, <1>2 DEF AppendOnly

\* No step edits, removes or reorders a movement, and no idempotency row is
\* ever given back: the journal is append-only.
THEOREM JournalKept == Spec => JournalIsAppendOnly
  <1>1. TypeInv /\ [Next]_vars => [AppendOnly]_vars
    BY AppendOnlyNext
  <1>2. QED
    BY <1>1, TypeInvariant, PTL DEF Spec, JournalIsAppendOnly

----------------------------------------------------------------------------
(* Idempotency.                                                            *)

\* The rows change in a batch, which adds one, and when a key expires, which
\* replaces a row by itself with another live flag.
LEMMA RowsChange ==
  ASSUME TypeOK, [Next]_vars
  PROVE  \/ UNCHANGED <<idempotency, journal>>
            /\ \A g \in Attempts : pc[g] = "done" => pc'[g] = "done" /\ request'[g] = request[g]
         \/ \E h \in Attempts : Commit(h)
         \/ \E row \in idempotency : ExpireKey(row)
  <1>1. ASSUME NEW h \in Attempts, Arrive(h) \/ Step(h), ~Commit(h)
        PROVE  /\ UNCHANGED <<idempotency, journal>>
               /\ \A g \in Attempts : pc[g] = "done" => pc'[g] = "done" /\ request'[g] = request[g]
    <2>1. UNCHANGED <<idempotency, journal>>
      BY <1>1 DEF Arrive, Step, Refuse, ReadLotForReceipt, RequireLot, LoadOriginal,
         CheckAlreadyReversed, RequireSufficientStock, ReadReplay, Abort, CatchAbort,
         ReadOnly, database
    <2>2. pc[h] # "done"
      BY <1>1 DEF Arrive, Step, Refuse, ReadLotForReceipt, RequireLot, LoadOriginal,
         CheckAlreadyReversed, RequireSufficientStock, ReadReplay, Abort, CatchAbort
    <2>3. \A g \in Attempts \ {h} : pc'[g] = pc[g]
      <3>1. \/ \E kind, ids : Respond(h, kind, ids)
            \/ \E step : Goto(h, step)
        BY <1>1 DEF Arrive, Step, Refuse, ReadLotForReceipt, RequireLot, LoadOriginal,
           CheckAlreadyReversed, RequireSufficientStock, ReadReplay, Abort, CatchAbort
      <3>2. QED
        BY <3>1 DEF Goto, Respond, TypeOK
    <2>4. \A g \in Attempts \ {h} : request'[g] = request[g]
      BY <1>1 DEF Arrive, Step, Refuse, ReadLotForReceipt, RequireLot, LoadOriginal,
         CheckAlreadyReversed, RequireSufficientStock, ReadReplay, Abort, CatchAbort,
         ReadOnly, TypeOK
    <2>5. QED
      BY <2>1, <2>2, <2>3, <2>4
  <1>2. CASE UNCHANGED vars
    BY <1>2 DEF vars
  <1>3. QED
    BY <1>1, <1>2 DEF Next, Quiet

LEMMA ClaimsNext ==
  ASSUME TypeInv, ClaimsOK, [Next]_vars
  PROVE  ClaimsOK'
  <1>0. TypeOK
    BY DEF TypeInv
  <1>1. CASE /\ UNCHANGED <<idempotency, journal>>
             /\ \A g \in Attempts : pc[g] = "done" => pc'[g] = "done" /\ request'[g] = request[g]
    BY <1>0, <1>1 DEF ClaimsOK, EntriesAt, TypeOK, IdempotencyRow
  <1>2. ASSUME NEW old \in idempotency, ExpireKey(old)
        PROVE  ClaimsOK'
    <2> DEFINE new == [old EXCEPT !.live = FALSE]
    <2>1. /\ idempotency' = (idempotency \ {old}) \cup {new}
          /\ UNCHANGED <<journal, pc, request>>
      BY <1>2 DEF ExpireKey, handlers
    <2>2. old \in IdempotencyRow /\ new.by = old.by /\ new.request = old.request
      BY <1>0 DEF TypeOK, IdempotencyRow
    <2> HIDE DEF new
    <2>3. \A row \in idempotency' : pc'[row.by] = "done" /\ row.request = request'[row.by]
      BY <2>1, <2>2 DEF ClaimsOK
    <2>4. \A row, other \in idempotency' :
            SameClaim(row.request, other.request) => row = other
      BY <2>1, <2>2 DEF ClaimsOK, SameClaim
    <2>5. \A k \in BalanceKey : \A m \in EntriesAt(k)' :
            \E row \in idempotency' : row.by = m.id[1]
      BY <2>1, <2>2 DEF ClaimsOK, EntriesAt
    <2>6. QED
      BY <2>3, <2>4, <2>5 DEF ClaimsOK
  <1>3. ASSUME NEW h \in Attempts, Commit(h)
        PROVE  ClaimsOK'
    <2> DEFINE new == [by |-> h, request |-> request[h],
                       movements |-> MovementIds(h), live |-> TRUE]
    <2>1. /\ idempotency' = idempotency \cup {new}
          /\ pc' = [pc EXCEPT ![h] = "done"]
          /\ UNCHANGED request
          /\ Claims(request[h]) = {}
          /\ request[h] \in Requests /\ ~DrivesNegative(h)
      BY <1>3 DEF Commit, Respond, BreaksUnique, TypeInv, HandlersOK
    <2>2. new.by = h /\ new.request = request[h]
      OBVIOUS
    <2> HIDE DEF new
    <2>3. \A row \in idempotency' : pc'[row.by] = "done" /\ row.request = request'[row.by]
      BY <1>0, <2>1, <2>2 DEF ClaimsOK, TypeOK
    <2>4. \A row \in idempotency : ~SameClaim(row.request, request[h])
      BY <2>1 DEF Claims
    <2>5. \A row, other \in idempotency' :
            SameClaim(row.request, other.request) => row = other
      BY <2>1, <2>2, <2>4 DEF ClaimsOK, SameClaim
    <2>6. ASSUME NEW k \in BalanceKey, NEW m \in EntriesAt(k)'
          PROVE  \E row \in idempotency' : row.by = m.id[1]
      <3>1. CASE m \in EntriesAt(k)
        BY <2>1, <3>1 DEF ClaimsOK
      <3>2. CASE m \notin EntriesAt(k)
        <4>1. journal[k] \in Seq(MovementRow)
          BY <1>0 DEF TypeOK
        <4>2. PICK i \in DOMAIN journal'[k] : m = journal'[k][i]
          BY DEF EntriesAt
        <4>3. k \in DOMAIN legs[h] /\ journal'[k] = Append(journal[k], Movement(h, k))
          BY <1>3, <3>2, <4>2 DEF Commit, EntriesAt
        <4>4. Movement(h, k) \in MovementRow
          BY <1>0, <2>1, <4>3, CommitRowsTyped
        <4>5. m = Movement(h, k)
          BY <3>2, <4>1, <4>2, <4>3, <4>4 DEF EntriesAt
        <4>6. QED
          BY <2>1, <2>2, <4>5 DEF Movement
      <3>3. QED
        BY <3>1, <3>2
    <2>7. QED
      BY <2>3, <2>5, <2>6 DEF ClaimsOK
  <1>4. QED
    BY <1>0, <1>1, <1>2, <1>3, RowsChange

\* An idempotency key takes effect at most once per scope, for any number of
\* retries and races and although expired rows stop being replayed.
THEOREM KeysTakeEffectOnce == Spec => []EffectOnce
  <1>1. Init => ClaimsOK
    BY DEF Init, ClaimsOK, EntriesAt
  <1>2. TypeInv /\ ClaimsOK /\ [Next]_vars => ClaimsOK'
    BY ClaimsNext
  <1>3. ClaimsOK => EffectOnce
    <2> SUFFICES ASSUME ClaimsOK, NEW h \in Attempts, NEW g \in Attempts,
                        h # g, Recorded(h), Recorded(g)
                 PROVE  ~SameClaim(request[h], request[g])
      BY DEF EffectOnce
    <2>1. PICK row \in idempotency : row.by = h
      BY DEF ClaimsOK, Recorded, Journal
    <2>2. PICK other \in idempotency : other.by = g
      BY DEF ClaimsOK, Recorded, Journal
    <2>3. QED
      BY <2>1, <2>2 DEF ClaimsOK
  <1>4. QED
    BY <1>1, <1>2, <1>3, TypeInvariant, PTL DEF Spec

----------------------------------------------------------------------------
(* The journal mirrors the legs of the attempts that committed.            *)

\* What every command but a reversal does to its balances: it moves one by a
\* movement that can be reversed, or two of one lot by opposite amounts.
CommandShape(L) ==
  /\ DOMAIN L # {}
  /\ \A k \in DOMAIN L : L[k].type # "reversal"
  /\ \A k \in DOMAIN L : L[k].type \in ReversibleTypes => DOMAIN L = {k} /\ L[k].side = 1
  /\ \A k \in DOMAIN L : L[k].type \in PairedTypes =>
       \E kk \in DOMAIN L \ {k} :
         DOMAIN L = {k, kk} /\ kk.lot = k.lot /\ L[kk].delta = -L[k].delta

LEMMA SingleLegCommand ==
  ASSUME NEW k, NEW type \in ReversibleTypes, NEW delta
  PROVE  CommandShape(SingleLeg(k, type, delta))
  BY DEF CommandShape, SingleLeg, Leg, ReversibleTypes, PairedTypes

LEMMA PairedLegsCommand ==
  ASSUME NEW from, NEW to, from # to, from.lot = to.lot,
         NEW outType \in PairedTypes, NEW inType \in PairedTypes, NEW quantity \in Nat
  PROVE  CommandShape(PairedLegs(from, to, outType, inType, quantity))
  <1> DEFINE L == PairedLegs(from, to, outType, inType, quantity)
  <1>1. /\ DOMAIN L = {from, to} /\ L[from] = Leg(outType, -quantity, 1)
        /\ L[to] = Leg(inType, quantity, 2)
    BY DEF PairedLegs
  <1>2. /\ L[from].type = outType /\ L[from].delta = -quantity
        /\ L[to].type = inType /\ L[to].delta = quantity /\ quantity = -(-quantity)
    BY <1>1 DEF Leg
  <1>3. outType \notin ReversibleTypes /\ inType \notin ReversibleTypes
        /\ outType # "reversal" /\ inType # "reversal"
    BY DEF PairedTypes
  <1> HIDE DEF L
  <1>4. CommandShape(L)
    BY <1>1, <1>2, <1>3 DEF CommandShape
  <1>5. QED
    BY <1>4 DEF L

LEMMA CommandLegsCommand ==
  ASSUME NEW r \in Requests, r.op # "reverse"
  PROVE  CommandShape(CommandLegs(r))
  <1>0. r \in Request
    BY RequestsAssumption
  <1>1. CASE r \in ReceiveRequest
    <2>1. CommandLegs(r) = SingleLeg(At(r.bin, r.lot, "available"), "receive", r.quantity)
      BY <1>1 DEF ReceiveRequest, CommandLegs, ReceiveLegs
    <2>2. QED
      BY <2>1, SingleLegCommand DEF ReversibleTypes
  <1>2. CASE r \in AdjustRequest
    <2>1. \E type \in {"adjust-in", "adjust-out"} :
            CommandLegs(r) = SingleLeg(At(r.bin, r.lot, r.status), type, r.delta)
      BY <1>2 DEF AdjustRequest, CommandLegs, AdjustLegs
    <2>2. QED
      BY <2>1, SingleLegCommand DEF ReversibleTypes
  <1>3. CASE r \in TransferRequest
    <2> DEFINE from == At(r.source, r.lot, r.status)
               to   == At(r.destination, r.lot, r.status)
    <2>1. CommandLegs(r) = PairedLegs(from, to, "transfer-out", "transfer-in", r.quantity)
      BY <1>3 DEF TransferRequest, CommandLegs, TransferLegs
    <2>2. from.bin # to.bin /\ from.lot = to.lot /\ r.quantity \in Nat
      BY <1>3 DEF TransferRequest, At, PositiveInteger
    <2>3. from # to
      BY <2>2
    <2> HIDE DEF from, to
    <2>4. QED
      BY <2>1, <2>2, <2>3, PairedLegsCommand
         DEF PairedTypes, MovementTypes, ReversibleTypes
  <1>4. CASE r \in StatusRequest
    <2> DEFINE held == At(r.bin, r.lot, "quarantine")
               free == At(r.bin, r.lot, "available")
    <2>1. \/ CommandLegs(r) = PairedLegs(free, held, "quarantine-out", "quarantine-in", r.quantity)
          \/ CommandLegs(r) = PairedLegs(held, free, "release-out", "release-in", r.quantity)
      BY <1>4 DEF StatusRequest, CommandLegs, QuarantineLegs, ReleaseLegs
    <2>2. held.status # free.status /\ held.lot = free.lot /\ r.quantity \in Nat
      BY <1>4 DEF StatusRequest, At, PositiveInteger
    <2>3. held # free
      BY <2>2
    <2> HIDE DEF held, free
    <2>4. QED
      BY <2>1, <2>2, <2>3, PairedLegsCommand
         DEF PairedTypes, MovementTypes, ReversibleTypes
  <1>5. QED
    BY <1>0, <1>1, <1>2, <1>3, <1>4 DEF Request, ReverseRequest

\* A correction is about one reversible movement that was recorded.
Corrects(h) ==
  \E k \in BalanceKey : \E o \in EntriesAt(k) :
    /\ o.id = request[h].target
    /\ o.type \in ReversibleTypes
    /\ legs[h] = ReversalLegs(k, o.delta)

Known == {"reversed", "stock", "replay", "batch"}

\* A handler knows its legs: from its request, or from the original movement.
LegsOK(h) ==
  /\ pc[h] = "lot" => request[h].op # "reverse"
  /\ pc[h] \in {"original", "reversed"} => request[h].op = "reverse"
  /\ (pc[h] # "idle" /\ request[h].op # "reverse") => legs[h] = CommandLegs(request[h])
  /\ (pc[h] \in Known /\ request[h].op = "reverse") => Corrects(h)

Undoes(h) == IF request[h].op = "reverse" THEN request[h].target ELSE NoTarget

\* The entries of an attempt that committed are its legs, one each.
Mirrored(h) ==
  /\ request[h].op = "reverse" => Corrects(h)
  /\ \A k \in BalanceKey : \A m \in EntriesAt(k) : m.id[1] = h =>
       /\ k \in DOMAIN legs[h]
       /\ m.id = <<h, legs[h][k].side>>
       /\ m.type = legs[h][k].type
       /\ m.delta = legs[h][k].delta
       /\ m.reverses = Undoes(h)
  /\ \A k \in DOMAIN legs[h] : \E m \in EntriesAt(k) : m.id[1] = h

\* No target is undone twice.
UndoneOnce ==
  \A m, n \in Journal : (m.reverses # NoTarget /\ n.reverses = m.reverses) => n = m

JournalInv ==
  /\ TypeInv /\ ClaimsOK /\ UndoneOnce
  /\ \A h \in Attempts : LegsOK(h)
  /\ \A row \in idempotency : Mirrored(row.by) /\ row.movements = MovementIds(row.by)

LEMMA EntriesGrow ==
  ASSUME TypeInv, [Next]_vars, NEW k \in BalanceKey
  PROVE  EntriesAt(k) \subseteq EntriesAt(k)'
  <1>1. AppendOnly \/ UNCHANGED vars
    BY AppendOnlyNext
  <1>2. QED
    BY <1>1 DEF AppendOnly, EntriesAt, vars

LEMMA CommitEntries ==
  ASSUME TypeInv, NEW h \in Attempts, Commit(h), NEW k \in BalanceKey
  PROVE  EntriesAt(k)' = IF k \in DOMAIN legs[h] THEN EntriesAt(k) \cup {Movement(h, k)}
                                                 ELSE EntriesAt(k)
  <1>1. journal[k] \in Seq(MovementRow)
    BY DEF TypeInv, TypeOK
  <1>2. CASE k \notin DOMAIN legs[h]
    BY <1>2 DEF Commit, EntriesAt
  <1>3. CASE k \in DOMAIN legs[h]
    <2>1. Movement(h, k) \in MovementRow
      BY <1>3, CommitRowsTyped DEF TypeInv, HandlersOK, Commit
    <2>2. journal'[k] = Append(journal[k], Movement(h, k))
      BY <1>3 DEF Commit
    <2>3. /\ DOMAIN journal'[k] = DOMAIN journal[k] \cup {Len(journal[k]) + 1}
          /\ \A i \in DOMAIN journal[k] : journal'[k][i] = journal[k][i]
          /\ journal'[k][Len(journal[k]) + 1] = Movement(h, k)
      <3> DEFINE old == journal[k]
                 row == Movement(h, k)
      <3>1. old \in Seq(MovementRow) /\ row \in MovementRow /\ journal'[k] = Append(old, row)
        BY <1>1, <2>1, <2>2
      <3> HIDE DEF old, row
      <3>2. QED
        BY <3>1 DEF old, row
    <2>4. QED
      BY <1>3, <2>3 DEF EntriesAt
  <1>4. QED
    BY <1>2, <1>3

\* What a step of one handler leaves to the others.
LEMMA OthersStill ==
  ASSUME TypeInv, NEW h \in Attempts, Arrive(h) \/ Step(h), NEW g \in Attempts, g # h
  PROVE  /\ pc'[g] = pc[g] /\ request'[g] = request[g] /\ legs'[g] = legs[g]
         /\ newLot'[g] = newLot[g] /\ response'[g] = response[g]
  <1>0. TypeOK
    BY DEF TypeInv
  <1>1. \/ \E kind, ids : Respond(h, kind, ids)
        \/ \E step : Goto(h, step)
    BY DEF Arrive, Step, Refuse, ReadLotForReceipt, RequireLot, LoadOriginal,
       CheckAlreadyReversed, RequireSufficientStock, ReadReplay, Commit, Abort, CatchAbort
  <1>2. pc'[g] = pc[g] /\ response'[g] = response[g]
    BY <1>0, <1>1 DEF Goto, Respond, TypeOK
  <1>3. request'[g] = request[g]
    BY <1>0 DEF Arrive, Step, Refuse, ReadLotForReceipt, RequireLot, LoadOriginal,
       CheckAlreadyReversed, RequireSufficientStock, ReadReplay, Commit, Abort, CatchAbort,
       ReadOnly, TypeOK
  <1>4. newLot'[g] = newLot[g]
    BY <1>0 DEF Arrive, Step, Refuse, ReadLotForReceipt, RequireLot, LoadOriginal,
       CheckAlreadyReversed, RequireSufficientStock, ReadReplay, Commit, Abort, CatchAbort,
       TypeOK
  <1>5. legs'[g] = legs[g]
    <2>1. UNCHANGED legs \/ \E x : legs' = [legs EXCEPT ![h] = x]
      BY DEF Arrive, Step, Refuse, ReadLotForReceipt, RequireLot, LoadOriginal,
         CheckAlreadyReversed, RequireSufficientStock, ReadReplay, Commit, Abort, CatchAbort
    <2>2. QED
      BY <1>0, <2>1 DEF TypeOK
  <1>6. QED
    BY <1>2, <1>3, <1>4, <1>5

LEMMA NextCases ==
  ASSUME [Next]_vars
  PROVE  \/ \E h \in Attempts : Arrive(h) \/ Step(h)
         \/ \E row \in idempotency : ExpireKey(row)
         \/ UNCHANGED vars
  BY DEF Next, Quiet

LEMMA LegsNext ==
  ASSUME TypeInv, [Next]_vars, NEW g \in Attempts, LegsOK(g)
  PROVE  LegsOK(g)'
  <1>0. TypeOK /\ HandlersOK
    BY DEF TypeInv
  <1>1. ASSUME pc'[g] = pc[g], request'[g] = request[g], legs'[g] = legs[g]
        PROVE  LegsOK(g)'
    <2>1. Corrects(g) => Corrects(g)'
      BY <1>1, EntriesGrow DEF Corrects
    <2>2. QED
      BY <1>1, <2>1 DEF LegsOK
  <1>2. CASE Arrive(g)
    <2>1. PICK r \in Requests :
            /\ request' = [request EXCEPT ![g] = r]
            /\ legs' = [legs EXCEPT ![g] = IF r.op = "reverse" THEN NoLegs
                                                              ELSE CommandLegs(r)]
            /\ Goto(g, IF r.op = "reverse" THEN "original" ELSE "lot")
      BY <1>2 DEF Arrive
    <2>2. /\ request'[g] = r /\ pc'[g] = (IF r.op = "reverse" THEN "original" ELSE "lot")
          /\ legs'[g] = IF r.op = "reverse" THEN NoLegs ELSE CommandLegs(r)
      BY <1>0, <2>1 DEF TypeOK, Goto
    <2>3. QED
      BY <2>2 DEF LegsOK, Known
  <1>3. CASE LoadOriginal(g)
    <2>1. pc[g] = "original" /\ request[g].op = "reverse" /\ UNCHANGED request
          /\ UNCHANGED journal
      BY <1>3 DEF LoadOriginal, LegsOK, ReadOnly, database
    <2>2. CASE pc'[g] = "done"
      BY <2>1, <2>2 DEF LegsOK, Known
    <2>3. CASE pc'[g] # "done"
      <3>1. PICK k \in BalanceKey : \E m \in EntriesAt(k) :
              /\ m.id = request[g].target /\ m.type \in ReversibleTypes
              /\ legs' = [legs EXCEPT ![g] = ReversalLegs(k, m.delta)]
              /\ Goto(g, "reversed")
        BY <1>0, <1>3, <2>3 DEF LoadOriginal, Respond, TypeOK
      <3>2. PICK m \in EntriesAt(k) :
              /\ m.id = request[g].target /\ m.type \in ReversibleTypes
              /\ legs' = [legs EXCEPT ![g] = ReversalLegs(k, m.delta)]
              /\ Goto(g, "reversed")
        BY <3>1
      <3>3. legs'[g] = ReversalLegs(k, m.delta) /\ pc'[g] = "reversed"
        BY <1>0, <3>2 DEF TypeOK, Goto
      <3>4. Corrects(g)'
        BY <2>1, <3>2, <3>3 DEF Corrects, EntriesAt
      <3>5. QED
        BY <2>1, <3>3, <3>4 DEF LegsOK
    <2>4. QED
      BY <2>2, <2>3
  <1>4. CASE Step(g) /\ ~LoadOriginal(g)
    <2>1. UNCHANGED <<request, legs>>
      BY <1>4 DEF Step, Refuse, ReadLotForReceipt, RequireLot, CheckAlreadyReversed,
         RequireSufficientStock, ReadReplay, Commit, Abort, CatchAbort, ReadOnly
    <2>2. /\ pc[g] # "idle" /\ pc'[g] \notin {"lot", "original", "reversed"}
          /\ (pc'[g] \in Known /\ request[g].op = "reverse") => pc[g] \in Known
      <3>1. \/ \E kind, ids : Respond(g, kind, ids)
            \/ /\ \E step \in {"stock", "replay", "batch", "aborted-negative", "aborted-unique"} :
                    Goto(g, step)
               /\ pc[g] \in Known \/ (pc[g] = "lot" /\ request[g].op # "reverse")
        BY <1>4 DEF Step, Refuse, ReadLotForReceipt, RequireLot, CheckAlreadyReversed,
           RequireSufficientStock, ReadReplay, Commit, Abort, CatchAbort, AfterLookup, Known, LegsOK
      <3>2. pc[g] # "idle"
        BY <1>4 DEF Step, Refuse, ReadLotForReceipt, RequireLot, CheckAlreadyReversed,
           RequireSufficientStock, ReadReplay, Commit, Abort, CatchAbort
      <3>3. QED
        BY <1>0, <3>1, <3>2 DEF Respond, Goto, TypeOK, Known
    <2>3. Corrects(g) => Corrects(g)'
      BY <2>1, EntriesGrow DEF Corrects
    <2>4. QED
      BY <2>1, <2>2, <2>3 DEF LegsOK
  <1>5. ASSUME NEW h \in Attempts, Arrive(h) \/ Step(h), h # g
        PROVE  LegsOK(g)'
    BY <1>1, <1>5, OthersStill
  <1>6. CASE UNCHANGED <<pc, request, legs>>
    BY <1>1, <1>6
  <1>7. QED
    BY <1>2, <1>3, <1>4, <1>5, <1>6, NextCases DEF ExpireKey, handlers, vars

\* A row of an attempt that did not move keeps its mirror while the journal
\* grows by other attempts' movements.
LEMMA MirrorKept ==
  ASSUME NEW g \in Attempts, Mirrored(g),
         request'[g] = request[g], legs'[g] = legs[g],
         \A k \in BalanceKey : EntriesAt(k) \subseteq EntriesAt(k)',
         \A k \in BalanceKey : \A m \in EntriesAt(k)' : m \in EntriesAt(k) \/ m.id[1] # g,
         DOMAIN legs[g] \subseteq BalanceKey
  PROVE  Mirrored(g)'
  <1>1. request[g].op = "reverse" => Corrects(g)'
    BY DEF Mirrored, Corrects
  <1>2. Undoes(g)' = Undoes(g)
    BY DEF Undoes
  <1>3. ASSUME NEW k \in BalanceKey, NEW m \in EntriesAt(k)', m.id[1] = g
        PROVE  /\ k \in DOMAIN legs[g] /\ m.id = <<g, legs[g][k].side>>
               /\ m.type = legs[g][k].type /\ m.delta = legs[g][k].delta
               /\ m.reverses = Undoes(g)
    <2>1. m \in EntriesAt(k)
      BY <1>3
    <2>2. QED
      BY <1>3, <2>1 DEF Mirrored
  <1>4. \A k \in DOMAIN legs[g] : \E m \in EntriesAt(k)' : m.id[1] = g
    BY DEF Mirrored
  <1>5. QED
    BY <1>1, <1>2, <1>3, <1>4 DEF Mirrored

\* An attempt that has not answered has no movement.
LEMMA UnrecordedYet ==
  ASSUME ClaimsOK, NEW h \in Attempts, pc[h] # "done"
  PROVE  /\ \A k \in BalanceKey : \A m \in EntriesAt(k) : m.id[1] # h
         /\ \A row \in idempotency : row.by # h
  BY DEF ClaimsOK

LEMMA MovementShape ==
  ASSUME NEW h, NEW k
  PROVE  /\ Movement(h, k).id = <<h, legs[h][k].side>> /\ Movement(h, k).id[1] = h
         /\ Movement(h, k).type = legs[h][k].type /\ Movement(h, k).delta = legs[h][k].delta
         /\ Movement(h, k).reverses = Undoes(h)
  BY DEF Movement, Undoes

\* The batch writes one entry for each of its legs.
LEMMA CommitMirrors ==
  ASSUME JournalInv, [Next]_vars, NEW h \in Attempts, Commit(h)
  PROVE  Mirrored(h)'
  <1>1. /\ TypeInv /\ ClaimsOK /\ LegsOK(h) /\ pc[h] = "batch"
        /\ UNCHANGED <<request, legs>>
    BY DEF JournalInv, Commit
  <1>2. request[h].op = "reverse" => Corrects(h)'
    <2>1. request[h].op = "reverse" => Corrects(h)
      BY <1>1 DEF LegsOK, Known
    <2>2. Corrects(h) => Corrects(h)'
      BY <1>1, EntriesGrow DEF Corrects
    <2>3. QED
      BY <2>1, <2>2
  <1>3. Undoes(h)' = Undoes(h)
    BY <1>1 DEF Undoes
  <1>4. ASSUME NEW k \in BalanceKey, NEW m \in EntriesAt(k)', m.id[1] = h
        PROVE  /\ k \in DOMAIN legs[h] /\ m.id = <<h, legs[h][k].side>>
               /\ m.type = legs[h][k].type /\ m.delta = legs[h][k].delta
               /\ m.reverses = Undoes(h)
    <2>1. m \notin EntriesAt(k)
      BY <1>1, <1>4, UnrecordedYet
    <2>2. k \in DOMAIN legs[h] /\ m = Movement(h, k)
      BY <1>1, <1>4, <2>1, CommitEntries
    <2>3. QED
      BY <2>2, MovementShape
  <1>5. ASSUME NEW k \in DOMAIN legs[h] PROVE \E m \in EntriesAt(k)' : m.id[1] = h
    <2>1. k \in BalanceKey
      BY <1>1, LegTyped DEF TypeInv
    <2>2. Movement(h, k) \in EntriesAt(k)'
      BY <1>1, <1>5, <2>1, CommitEntries
    <2>3. QED
      BY <2>2, MovementShape
  <1>6. QED
    BY <1>1, <1>2, <1>3, <1>4, <1>5 DEF Mirrored

LEMMA RowsNext ==
  ASSUME JournalInv, [Next]_vars, NEW row \in idempotency'
  PROVE  Mirrored(row.by)' /\ row.movements = MovementIds(row.by)'
  <1>0. TypeInv /\ TypeOK /\ ClaimsOK
    BY DEF JournalInv, TypeInv
  <1>1. ASSUME NEW old \in idempotency, row.by = old.by, row.movements = old.movements,
               request'[old.by] = request[old.by], legs'[old.by] = legs[old.by],
               \A k \in BalanceKey : \A m \in EntriesAt(k)' :
                 m \in EntriesAt(k) \/ m.id[1] # old.by
        PROVE  Mirrored(row.by)' /\ row.movements = MovementIds(row.by)'
    <2>1. PICK g \in Attempts : g = old.by
      BY <1>0 DEF TypeOK, IdempotencyRow
    <2>2. Mirrored(g) /\ old.movements = MovementIds(g)
      BY <2>1 DEF JournalInv
    <2>3. DOMAIN legs[g] \subseteq BalanceKey
      BY <1>0 DEF TypeOK, IsLegs
    <2>4. Mirrored(g)'
      BY <1>0, <1>1, <2>1, <2>2, <2>3, EntriesGrow, MirrorKept
    <2>5. MovementIds(g)' = MovementIds(g)
      BY <1>1, <2>1 DEF MovementIds
    <2>6. row.by = g
      BY <1>1, <2>1
    <2>7. \A x : x = g => (Mirrored(x)' <=> Mirrored(g)') /\ MovementIds(x)' = MovementIds(g)'
      OBVIOUS
    <2>8. QED
      BY <1>1, <2>2, <2>4, <2>5, <2>6, <2>7
  <1>2. ASSUME NEW h \in Attempts, Commit(h)
        PROVE  Mirrored(row.by)' /\ row.movements = MovementIds(row.by)'
    <2> DEFINE new == [by |-> h, request |-> request[h], movements |-> MovementIds(h),
                       live |-> TRUE]
    <2>1. /\ idempotency' = idempotency \cup {new} /\ pc[h] = "batch"
          /\ UNCHANGED <<request, legs>>
      BY <1>2 DEF Commit
    <2>2. CASE row = new
      <3>1. row.by = h /\ row.movements = MovementIds(h)
        BY <2>2
      <3>2. Mirrored(h)' /\ MovementIds(h)' = MovementIds(h)
        BY <1>2, <2>1, CommitMirrors DEF MovementIds
      <3>3. \A x : x = h => (Mirrored(x)' <=> Mirrored(h)') /\ MovementIds(x)' = MovementIds(h)'
        OBVIOUS
      <3>4. QED
        BY <3>1, <3>2, <3>3
    <2>3. CASE row \in idempotency
      <3>1. row.by # h
        BY <1>0, <2>1, <2>3, UnrecordedYet
      <3>2. ASSUME NEW k \in BalanceKey, NEW m \in EntriesAt(k)', m \notin EntriesAt(k)
            PROVE  m.id[1] # row.by
        BY <1>0, <1>2, <3>1, <3>2, CommitEntries, MovementShape
      <3>3. QED
        BY <1>1, <2>1, <2>3, <3>2
    <2>4. QED
      BY <2>1, <2>2, <2>3
  <1>3. ASSUME NEW old \in idempotency, ExpireKey(old)
        PROVE  Mirrored(row.by)' /\ row.movements = MovementIds(row.by)'
    <2>1. UNCHANGED <<journal, request, legs>>
      BY <1>3 DEF ExpireKey, handlers
    <2>2. \A k \in BalanceKey : EntriesAt(k)' = EntriesAt(k)
      BY <2>1 DEF EntriesAt
    <2>3. CASE row \in idempotency
      BY <1>1, <2>1, <2>2, <2>3
    <2>4. CASE row \notin idempotency
      <3>1. old \in IdempotencyRow /\ row = [old EXCEPT !.live = FALSE]
        BY <1>0, <1>3, <2>4 DEF ExpireKey, TypeOK
      <3>2. row.by = old.by /\ row.movements = old.movements
        BY <3>1 DEF IdempotencyRow
      <3>3. QED
        BY <1>1, <2>1, <2>2, <3>2
    <2>5. QED
      BY <2>3, <2>4
  <1>4. CASE /\ UNCHANGED <<idempotency, journal>>
             /\ \A g \in Attempts : pc[g] = "done" =>
                  request'[g] = request[g] /\ legs'[g] = legs[g]
    <2>1. \A k \in BalanceKey : EntriesAt(k)' = EntriesAt(k)
      BY <1>4 DEF EntriesAt
    <2>2. row.by \in Attempts /\ pc[row.by] = "done"
      BY <1>0, <1>4 DEF ClaimsOK, TypeOK, IdempotencyRow
    <2>3. QED
      BY <1>1, <1>4, <2>1, <2>2
  <1>5. ASSUME NEW h \in Attempts, Arrive(h) \/ Step(h), ~Commit(h)
        PROVE  /\ UNCHANGED <<idempotency, journal>>
               /\ \A g \in Attempts : pc[g] = "done" =>
                    request'[g] = request[g] /\ legs'[g] = legs[g]
    <2>1. UNCHANGED <<idempotency, journal>> /\ pc[h] # "done"
      BY <1>5 DEF Arrive, Step, Refuse, ReadLotForReceipt, RequireLot, LoadOriginal,
         CheckAlreadyReversed, RequireSufficientStock, ReadReplay, Abort, CatchAbort,
         ReadOnly, database
    <2>2. QED
      BY <1>0, <1>5, <2>1, OthersStill
  <1>6. UNCHANGED vars =>
          /\ UNCHANGED <<idempotency, journal>>
          /\ \A g \in Attempts : pc[g] = "done" =>
               request'[g] = request[g] /\ legs'[g] = legs[g]
    BY DEF vars
  <1>7. QED
    BY <1>2, <1>3, <1>4, <1>5, <1>6, NextCases

LEMMA EntryOfJournal ==
  ASSUME NEW m
  PROVE  m \in Journal <=> \E k \in BalanceKey : m \in EntriesAt(k)
  BY DEF Journal

\* What the batch of a reversal writes: one movement, which undoes its target.
LEMMA ReversalWrites ==
  ASSUME TypeInv, NEW h \in Attempts, Corrects(h), request[h].op = "reverse"
  PROVE  \E k \in BalanceKey : \E o \in EntriesAt(k) :
           /\ o.id = request[h].target /\ o.type \in ReversibleTypes
           /\ DOMAIN legs[h] = {k} /\ legs[h][k].type = "reversal"
           /\ legs[h][k].delta = -o.delta /\ legs[h][k].side = 1
  BY DEF Corrects, ReversalLegs, SingleLeg, Leg

LEMMA TargetShape ==
  ASSUME NEW r \in Requests, r.op = "reverse"
  PROVE  r.target \in MovementId /\ r.target # NoTarget
  <1>1. r.target \in MovementId
    BY RequestsAssumption DEF Request, ReceiveRequest, AdjustRequest, TransferRequest,
       StatusRequest, ReverseRequest
  <1>2. QED
    BY <1>1 DEF MovementId, NoTarget

LEMMA UndoneNext ==
  ASSUME JournalInv, [Next]_vars
  PROVE  UndoneOnce'
  <1>0. TypeInv /\ UndoneOnce
    BY DEF JournalInv
  <1>1. CASE UNCHANGED journal
    BY <1>0, <1>1 DEF UndoneOnce, Journal, EntriesAt
  <1>2. ASSUME NEW h \in Attempts, Commit(h) PROVE UndoneOnce'
    <2>1. /\ LegsOK(h) /\ pc[h] = "batch" /\ request[h] \in Requests
          /\ request[h].op = "reverse" => ~Reversed(request[h].target)
      BY <1>0, <1>2 DEF JournalInv, Commit, BreaksUnique, TypeInv, HandlersOK
    <2>2. ASSUME NEW m \in Journal', m \notin Journal
          PROVE  m.reverses = Undoes(h)
                 /\ \E k \in DOMAIN legs[h] : m = Movement(h, k)
      <3>1. PICK k \in BalanceKey : m \in EntriesAt(k)'
        BY <2>2 DEF Journal
      <3>2. m \notin EntriesAt(k)
        BY <2>2, EntryOfJournal
      <3>3. k \in DOMAIN legs[h] /\ m = Movement(h, k)
        BY <1>0, <1>2, <3>1, <3>2, CommitEntries
      <3>4. QED
        BY <3>3, MovementShape
    <2>3. CASE request[h].op # "reverse"
      <3>1. \A m \in Journal' : m.reverses # NoTarget => m \in Journal
        BY <2>2, <2>3 DEF Undoes
      <3>2. QED
        BY <1>0, <3>1 DEF UndoneOnce
    <2>4. CASE request[h].op = "reverse"
      <3>1. Undoes(h) = request[h].target /\ Corrects(h)
        BY <2>1, <2>4 DEF Undoes, LegsOK, Known
      <3>2. PICK k \in BalanceKey : DOMAIN legs[h] = {k}
        BY <1>0, <2>4, <3>1, ReversalWrites
      <3>3. \A m \in Journal' : m \notin Journal =>
              m = Movement(h, k) /\ m.reverses = request[h].target
        BY <2>2, <3>1, <3>2
      <3>4. \A m \in Journal : m.reverses # request[h].target
        BY <2>1, <2>4 DEF Reversed
      <3>5. QED
        BY <1>0, <3>3, <3>4 DEF UndoneOnce
    <2>5. QED
      BY <2>3, <2>4
  <1>3. QED
    BY <1>1, <1>2, OnlyCommitWrites

LEMMA JournalNext ==
  ASSUME JournalInv, [Next]_vars
  PROVE  JournalInv'
  <1>1. TypeInv /\ ClaimsOK /\ \A h \in Attempts : LegsOK(h)
    BY DEF JournalInv
  <1>2. TypeInv' /\ ClaimsOK'
    BY <1>1, TypeNext, ClaimsNext
  <1>3. \A h \in Attempts : LegsOK(h)'
    BY <1>1, LegsNext
  <1>4. UndoneOnce'
    BY UndoneNext
  <1>5. \A row \in idempotency' : Mirrored(row.by)' /\ row.movements = MovementIds(row.by)'
    BY RowsNext
  <1>6. QED
    BY <1>2, <1>3, <1>4, <1>5 DEF JournalInv

LEMMA JournalInvariant == Spec => []JournalInv
  <1>1. Init => JournalInv
    <2> SUFFICES ASSUME Init PROVE JournalInv
      OBVIOUS
    <2>1. idempotency = {} /\ \A k \in BalanceKey : EntriesAt(k) = {}
      BY DEF Init, EntriesAt
    <2>2. ClaimsOK /\ UndoneOnce
      BY <2>1 DEF ClaimsOK, UndoneOnce, Journal
    <2>3. \A h \in Attempts : LegsOK(h)
      BY DEF Init, LegsOK, Known
    <2>4. QED
      BY <2>1, <2>2, <2>3, TypeInit DEF JournalInv
  <1>2. JournalInv /\ [Next]_vars => JournalInv'
    BY JournalNext
  <1>3. QED
    BY <1>1, <1>2, PTL DEF Spec

----------------------------------------------------------------------------
(* What follows from the mirror.                                           *)

\* An entry is a leg of the attempt it names, whose row is there.
LEMMA EntryIsLeg ==
  ASSUME JournalInv, NEW k \in BalanceKey, NEW m \in EntriesAt(k)
  PROVE  \E h \in Attempts :
           /\ m.id[1] = h /\ pc[h] = "done" /\ request[h] \in Requests
           /\ Mirrored(h) /\ LegsOK(h) /\ \E row \in idempotency : row.by = h
           /\ k \in DOMAIN legs[h] /\ m.id = <<h, legs[h][k].side>>
           /\ m.type = legs[h][k].type /\ m.delta = legs[h][k].delta
           /\ m.reverses = Undoes(h)
  <1>1. PICK row \in idempotency : row.by = m.id[1]
    BY DEF JournalInv, ClaimsOK
  <1>2. PICK h \in Attempts : h = row.by
    BY DEF JournalInv, TypeInv, TypeOK, IdempotencyRow
  <1>3. pc[h] = "done" /\ request[h] \in Requests /\ Mirrored(h) /\ LegsOK(h)
    BY <1>2 DEF JournalInv, ClaimsOK, TypeInv, HandlersOK
  <1>4. QED
    BY <1>1, <1>2, <1>3 DEF Mirrored

\* Stock is moved and never made or lost by a transfer, a quarantine or a
\* release, however many attempts interleave: both movements are of one batch,
\* so one is never there without the other.
THEOREM MovesBalance == Spec => []PairsBalance
  <1>1. JournalInv => PairsBalance
    <2> SUFFICES ASSUME JournalInv, NEW k \in BalanceKey, NEW m \in EntriesAt(k),
                        m.type \in PairedTypes
                 PROVE  \E kk \in BalanceKey \ {k} :
                          /\ kk.lot = k.lot
                          /\ \E n \in EntriesAt(kk) : n.id[1] = m.id[1] /\ n.delta = -m.delta
                          /\ \A x \in BalanceKey \ {k, kk} :
                               \A n \in EntriesAt(x) : n.id[1] # m.id[1]
      BY DEF PairsBalance
    <2>1. PICK h \in Attempts :
            /\ m.id[1] = h /\ pc[h] = "done" /\ request[h] \in Requests
            /\ Mirrored(h) /\ LegsOK(h) /\ k \in DOMAIN legs[h]
            /\ m.type = legs[h][k].type /\ m.delta = legs[h][k].delta
      BY EntryIsLeg
    <2>2. request[h].op # "reverse"
      <3>1. request[h].op = "reverse" => Corrects(h)
        BY <2>1 DEF Mirrored
      <3>2. request[h].op = "reverse" => m.type = "reversal"
        BY <2>1, <3>1, ReversalWrites DEF JournalInv
      <3>3. QED
        BY <3>2 DEF PairedTypes
    <2>3. CommandShape(legs[h])
      BY <2>1, <2>2, CommandLegsCommand DEF LegsOK
    <2>4. PICK kk \in DOMAIN legs[h] \ {k} :
            /\ DOMAIN legs[h] = {k, kk} /\ kk.lot = k.lot
            /\ legs[h][kk].delta = -legs[h][k].delta
      BY <2>1, <2>3 DEF CommandShape
    <2>5. kk \in BalanceKey \ {k}
      BY <2>4, LegTyped DEF JournalInv, TypeInv
    <2>6. \E n \in EntriesAt(kk) : n.id[1] = m.id[1] /\ n.delta = -m.delta
      BY <2>1, <2>4, <2>5 DEF Mirrored
    <2>7. \A x \in BalanceKey \ {k, kk} : \A n \in EntriesAt(x) : n.id[1] # m.id[1]
      BY <2>1, <2>4 DEF Mirrored
    <2>8. QED
      BY <2>4, <2>5, <2>6, <2>7
  <1>2. QED
    BY <1>1, JournalInvariant, PTL

\* A correction undoes one reversible movement at its own balance by its exact
\* opposite, and nothing is undone twice, also when corrections race past the
\* already-reversed query.
THEOREM CorrectionsExact == Spec => []ReversalsExact
  <1>1. JournalInv => ReversalsExact
    <2> SUFFICES ASSUME JournalInv, NEW k \in BalanceKey, NEW m \in EntriesAt(k),
                        m.type = "reversal"
                 PROVE  /\ \E o \in EntriesAt(k) : /\ o.id = m.reverses
                                                   /\ o.type \in ReversibleTypes
                                                   /\ o.delta = -m.delta
                        /\ \A n \in Journal : n.reverses = m.reverses => n = m
      BY DEF ReversalsExact
    <2>1. PICK h \in Attempts :
            /\ m.id[1] = h /\ pc[h] = "done" /\ request[h] \in Requests
            /\ Mirrored(h) /\ LegsOK(h) /\ k \in DOMAIN legs[h]
            /\ m.type = legs[h][k].type /\ m.delta = legs[h][k].delta
            /\ m.reverses = Undoes(h)
      BY EntryIsLeg
    <2>2. request[h].op = "reverse"
      <3>1. request[h].op # "reverse" => CommandShape(legs[h])
        BY <2>1, CommandLegsCommand DEF LegsOK
      <3>2. QED
        BY <2>1, <3>1 DEF CommandShape
    <2>3. m.reverses = request[h].target /\ m.reverses # NoTarget
      BY <2>1, <2>2, TargetShape DEF Undoes
    <2>4. \E o \in EntriesAt(k) : /\ o.id = m.reverses /\ o.type \in ReversibleTypes
                                  /\ o.delta = -m.delta
      <3>1. Corrects(h)
        BY <2>1, <2>2 DEF Mirrored
      <3>2. PICK kk \in BalanceKey : \E o \in EntriesAt(kk) :
              /\ o.id = request[h].target /\ o.type \in ReversibleTypes
              /\ DOMAIN legs[h] = {kk} /\ legs[h][kk].delta = -o.delta
        BY <2>2, <3>1, ReversalWrites DEF JournalInv
      <3>3. kk = k
        BY <2>1, <3>2
      <3>4. PICK o \in EntriesAt(k) :
              /\ o.id = request[h].target /\ o.type \in ReversibleTypes
              /\ legs[h][k].delta = -o.delta
        BY <3>2, <3>3
      <3>5. o.delta \in Int
        BY EntriesTyped DEF JournalInv, TypeInv, MovementRow
      <3>6. QED
        BY <2>1, <2>3, <3>4, <3>5
    <2>5. m \in Journal
      BY EntryOfJournal
    <2>6. QED
      BY <2>3, <2>4, <2>5 DEF JournalInv, UndoneOnce
  <1>2. QED
    BY <1>1, JournalInvariant, PTL

----------------------------------------------------------------------------
(* Answers.                                                                *)

\* The row an answer stands on.
Granted(h, ids) ==
  \E row \in idempotency :
    row.request = request[h] /\ ids \subseteq row.movements

AnswerOK(h) ==
  /\ response[h].kind # "none" => pc[h] = "done"
  /\ response[h].kind \in Refusals => ~Recorded(h)
  /\ response[h].kind \in {"created", "replayed"} => Granted(h, response[h].movements)

AnswersInv == JournalInv /\ \A h \in Attempts : AnswerOK(h)

\* A row lists movements, at least one, and they are in the journal.
LEMMA RowsListed ==
  ASSUME JournalInv, NEW row \in idempotency
  PROVE  row.movements # {} /\ row.movements \subseteq RecordedIds
  <1>1. PICK h \in Attempts : h = row.by
    BY DEF JournalInv, TypeInv, TypeOK, IdempotencyRow
  <1>2. Mirrored(h) /\ row.movements = MovementIds(h) /\ LegsOK(h) /\ pc[h] = "done"
        /\ request[h] \in Requests
    BY <1>1 DEF JournalInv, ClaimsOK, TypeInv, HandlersOK
  <1>3. DOMAIN legs[h] # {}
    <2>1. CASE request[h].op = "reverse"
      BY <1>2, <2>1, ReversalWrites DEF Mirrored, JournalInv
    <2>2. CASE request[h].op # "reverse"
      BY <1>2, <2>2, CommandLegsCommand DEF LegsOK, CommandShape
    <2>3. QED
      BY <2>1, <2>2
  <1>4. \A k \in DOMAIN legs[h] : <<h, legs[h][k].side>> \in RecordedIds
    <2> SUFFICES ASSUME NEW k \in DOMAIN legs[h] PROVE <<h, legs[h][k].side>> \in RecordedIds
      OBVIOUS
    <2>1. k \in BalanceKey
      BY LegTyped DEF JournalInv, TypeInv
    <2>2. PICK m \in EntriesAt(k) : m.id[1] = h
      BY <1>2 DEF Mirrored
    <2>3. m.id = <<h, legs[h][k].side>> /\ m \in Journal
      BY <1>2, <2>1, <2>2, EntryOfJournal DEF Mirrored
    <2>4. QED
      BY <2>3 DEF RecordedIds
  <1>5. QED
    BY <1>2, <1>3, <1>4 DEF MovementIds

LEMMA AnswersFollow == AnswersInv => AnswersAreTrue
  <1> SUFFICES ASSUME AnswersInv, NEW h \in Attempts,
                      response[h].kind \in {"created", "replayed"}
               PROVE  \E row \in Claims(request[h]) :
                        /\ row.request = request[h]
                        /\ row.movements # {}
                        /\ row.movements \subseteq RecordedIds
                        /\ response[h].movements \subseteq row.movements
    BY DEF AnswersAreTrue, AnswersInv, AnswerOK
  <1>1. PICK row \in idempotency :
          row.request = request[h] /\ response[h].movements \subseteq row.movements
    BY DEF AnswersInv, AnswerOK, Granted
  <1>2. row \in Claims(request[h])
    BY <1>1 DEF Claims, SameClaim
  <1>3. QED
    BY <1>1, <1>2, RowsListed DEF AnswersInv

\* Rows keep what they answer.
LEMMA GrantKept ==
  ASSUME TypeInv, [Next]_vars, NEW h \in Attempts, NEW ids, Granted(h, ids),
         request'[h] = request[h]
  PROVE  Granted(h, ids)'
  <1>1. PICK row \in idempotency : row.request = request[h] /\ ids \subseteq row.movements
    BY DEF Granted
  <1>2. row \in IdempotencyRow
    BY DEF TypeInv, TypeOK
  <1>3. CASE row \in idempotency'
    BY <1>1, <1>3 DEF Granted
  <1>4. CASE [row EXCEPT !.live = FALSE] \in idempotency'
    BY <1>1, <1>2, <1>4 DEF Granted, IdempotencyRow
  <1>5. row \in idempotency' \/ [row EXCEPT !.live = FALSE] \in idempotency'
    BY RowsChange DEF TypeInv, Commit, ExpireKey
  <1>6. QED
    BY <1>3, <1>4, <1>5

LEMMA RecordedNext ==
  ASSUME JournalInv, [Next]_vars, NEW g \in Attempts
  PROVE  Recorded(g)' => Recorded(g) \/ Commit(g)
  <1>1. CASE UNCHANGED journal
    BY <1>1 DEF Recorded, Journal, EntriesAt
  <1>2. ASSUME NEW h \in Attempts, Commit(h), h # g
        PROVE  Recorded(g)' => Recorded(g)
    <2> SUFFICES ASSUME NEW k \in BalanceKey, NEW m \in EntriesAt(k)', m.id[1] = g
                 PROVE  Recorded(g)
      BY DEF Recorded, Journal
    <2>1. m \in EntriesAt(k)
      BY <1>2, CommitEntries, MovementShape DEF JournalInv
    <2>2. QED
      BY <2>1, EntryOfJournal DEF Recorded
  <1>3. QED
    BY <1>1, <1>2, OnlyCommitWrites

\* What the acting handler's own answer stands on.
LEMMA OwnAnswer ==
  ASSUME AnswersInv, [Next]_vars, NEW h \in Attempts, Arrive(h) \/ Step(h)
  PROVE  AnswerOK(h)'
  <1>0. TypeOK /\ TypeInv /\ JournalInv /\ ClaimsOK /\ AnswerOK(h)
    BY DEF AnswersInv, JournalInv, TypeInv
  <1>1. pc[h] # "done" /\ response[h].kind = "none"
    BY <1>0 DEF AnswerOK, Arrive, Step, Refuse, ReadLotForReceipt, RequireLot, LoadOriginal,
       CheckAlreadyReversed, RequireSufficientStock, ReadReplay, Commit, Abort, CatchAbort
  <1>2. ~Recorded(h)
    BY <1>0, <1>1, UnrecordedYet DEF Recorded, Journal
  <1>3. ~Commit(h) => ~Recorded(h)'
    BY <1>0, <1>2, RecordedNext
  <1>4. ASSUME NEW step, Goto(h, step) PROVE AnswerOK(h)'
    BY <1>0, <1>1, <1>4 DEF AnswerOK, Goto, Refusals
  <1>5. ASSUME NEW kind \in Refusals, NEW ids, Respond(h, kind, ids), ~Commit(h)
        PROVE  AnswerOK(h)'
    <2>1. response'[h].kind = kind /\ pc'[h] = "done"
      BY <1>0, <1>5 DEF Respond, TypeOK, Answer
    <2>2. QED
      BY <1>3, <1>5, <2>1 DEF AnswerOK, Refusals
  <1>6. ASSUME NEW kind \in {"created", "replayed"}, NEW ids, Respond(h, kind, ids),
               Granted(h, ids)'
        PROVE  AnswerOK(h)'
    <2>1. response'[h].kind = kind /\ response'[h].movements = ids /\ pc'[h] = "done"
      BY <1>0, <1>6 DEF Respond, TypeOK, Answer
    <2>2. Granted(h, ids)' => Granted(h, response[h].movements)'
      BY <2>1 DEF Granted
    <2>3. QED
      BY <1>6, <2>1, <2>2 DEF AnswerOK, Refusals
  <1>7. CASE Commit(h)
    <2>1. /\ Respond(h, "created", MovementIds(h)) /\ UNCHANGED <<request, legs>>
          /\ [by |-> h, request |-> request[h], movements |-> MovementIds(h), live |-> TRUE]
               \in idempotency'
      BY <1>7 DEF Commit
    <2>2. \A x : x = MovementIds(h) => Granted(h, x)'
      BY <2>1 DEF Granted
    <2>3. PICK x : x = MovementIds(h)
      OBVIOUS
    <2>4. QED
      BY <1>6, <2>1, <2>2, <2>3
  <1>8. CASE ReadReplay(h)
    <2>1. CASE LiveClaims(request[h]) = {} /\ Goto(h, "batch")
      BY <1>4, <2>1
    <2>2. ASSUME NEW row \in LiveClaims(request[h]), row.request = request[h],
                 Respond(h, "replayed", row.movements)
          PROVE  AnswerOK(h)'
      <3>1. Granted(h, row.movements) /\ UNCHANGED request
        BY <1>8, <2>2 DEF Granted, LiveClaims, Claims, ReadReplay, ReadOnly
      <3>2. Granted(h, row.movements)'
        BY <1>0, <3>1, GrantKept
      <3>3. QED
        BY <1>6, <2>2, <3>2
    <2>3. ASSUME Respond(h, "idempotency-conflict", {}) PROVE AnswerOK(h)'
      BY <1>5, <1>8, <1>1, <2>3 DEF Refusals, Commit, ReadReplay
    <2>4. QED
      BY <1>8, <2>1, <2>2, <2>3 DEF ReadReplay
  <1>9. CASE CatchAbort(h)
    <2>1. ASSUME NEW row \in LiveClaims(request[h]), row.request = request[h],
                 Respond(h, "created", MovementIds(h) \cap RecordedIds)
          PROVE  AnswerOK(h)'
      <3>1. MovementIds(h) \cap RecordedIds = {}
        <4>1. \A id \in MovementIds(h) : id[1] = h
          BY DEF MovementIds
        <4>2. \A id \in RecordedIds : id[1] # h
          BY <1>2 DEF RecordedIds, Recorded
        <4>3. QED
          BY <4>1, <4>2
      <3>2. Granted(h, {}) /\ UNCHANGED request
        BY <1>9, <2>1 DEF Granted, LiveClaims, Claims, CatchAbort, ReadOnly
      <3>3. Granted(h, {})'
        BY <1>0, <3>2, GrantKept
      <3>4. Respond(h, "created", {})
        BY <2>1, <3>1
      <3>5. QED
        BY <1>6, <3>3, <3>4
    <2>2. ASSUME NEW kind \in Refusals, Respond(h, kind, {}) PROVE AnswerOK(h)'
      BY <1>5, <1>9, <2>2 DEF Commit, CatchAbort
    <2>3. QED
      BY <1>9, <2>1, <2>2 DEF CatchAbort, Refusals
  <1>10. CASE (Arrive(h) \/ Step(h)) /\ ~Commit(h) /\ ~ReadReplay(h) /\ ~CatchAbort(h)
    <2>1. \/ \E step : Goto(h, step)
          \/ \E kind \in Refusals : Respond(h, kind, {})
      BY <1>10 DEF Arrive, Step, Refuse, ReadLotForReceipt, RequireLot, LoadOriginal,
         CheckAlreadyReversed, RequireSufficientStock, Abort, Refusals
    <2>2. QED
      BY <1>4, <1>5, <1>10, <2>1
  <1>11. QED
    BY <1>7, <1>8, <1>9, <1>10

LEMMA AnswersNext ==
  ASSUME AnswersInv, [Next]_vars, NEW g \in Attempts
  PROVE  AnswerOK(g)'
  <1>0. TypeInv /\ JournalInv /\ AnswerOK(g)
    BY DEF AnswersInv, JournalInv
  <1>1. ASSUME pc'[g] = pc[g], request'[g] = request[g], response'[g] = response[g], ~Commit(g)
        PROVE  AnswerOK(g)'
    <2>1. response[g].kind \in Refusals => ~Recorded(g)'
      BY <1>0, <1>1, RecordedNext DEF AnswerOK
    <2>2. response[g].kind \in {"created", "replayed"} => Granted(g, response[g].movements)'
      <3>1. PICK ids : ids = response[g].movements
        OBVIOUS
      <3>2. Granted(g, ids) => Granted(g, ids)'
        BY <1>0, <1>1, GrantKept
      <3>3. Granted(g, ids)' => Granted(g, response[g].movements)'
        BY <1>1, <3>1 DEF Granted
      <3>4. QED
        BY <1>0, <3>1, <3>2, <3>3 DEF AnswerOK, Granted
    <2>3. QED
      BY <1>0, <1>1, <2>1, <2>2 DEF AnswerOK
  <1>2. ASSUME NEW h \in Attempts, Arrive(h) \/ Step(h) PROVE AnswerOK(g)'
    <2>1. CASE h = g
      BY <1>2, <2>1, OwnAnswer
    <2>2. CASE h # g
      <3>1. pc'[g] = pc[g] /\ request'[g] = request[g] /\ response'[g] = response[g]
        BY <1>0, <1>2, <2>2, OthersStill
      <3>2. ~Commit(g)
        BY <1>0, <3>1 DEF Commit, Respond, TypeInv, TypeOK
      <3>3. QED
        BY <1>1, <3>1, <3>2
    <2>3. QED
      BY <2>1, <2>2
  <1>3. CASE UNCHANGED handlers
    <2>1. ~Commit(g)
      BY <1>0, <1>3 DEF Commit, Respond, TypeInv, TypeOK, handlers
    <2>2. QED
      BY <1>1, <1>3, <2>1 DEF handlers
  <1>4. QED
    BY <1>2, <1>3, NextCases DEF ExpireKey, handlers, vars

\* A client is told the truth, however its attempts race and are retried: a
\* refusal or an error left nothing in the journal, and a success stands on an
\* idempotency row of this very request, whose movements are recorded.
THEOREM AnswersTrue == Spec => []AnswersAreTrue
  <1>1. Init => \A h \in Attempts : AnswerOK(h)
    BY DEF Init, AnswerOK, Unanswered, Answer, Refusals
  <1>2. JournalInv /\ (\A h \in Attempts : AnswerOK(h)) /\ [Next]_vars
          => (\A h \in Attempts : AnswerOK(h))'
    BY AnswersNext DEF AnswersInv
  <1>3. JournalInv /\ (\A h \in Attempts : AnswerOK(h)) => AnswersAreTrue
    BY AnswersFollow DEF AnswersInv
  <1>4. QED
    BY <1>1, <1>2, <1>3, JournalInvariant, PTL DEF Spec

----------------------------------------------------------------------------
(* Lots.                                                                   *)

\* A receipt on its way to the batch creates its lot or found it as it says.
LotOK(h) ==
  /\ pc[h] = "stock" => request[h].op # "receive"
  /\ (pc[h] \in {"replay", "batch"} /\ request[h].op = "receive") =>
       newLot[h] \/ lots[request[h].lot] = request[h].attributes
  /\ (request[h].op = "receive" /\ Recorded(h)) =>
       lots[request[h].lot] = request[h].attributes

\* A lot that is there is never written again.
LEMMA LotsStay ==
  ASSUME TypeInv, [Next]_vars, NEW l \in Lots, lots[l] # NoLot
  PROVE  lots'[l] = lots[l]
  <1>1. ASSUME NEW h \in Attempts, Commit(h) PROVE lots'[l] = lots[l]
    BY <1>1 DEF Commit, BreaksUnique, TypeInv, TypeOK
  <1>2. QED
    BY <1>1, OnlyCommitWrites

LEMMA ReceiptShape ==
  ASSUME TypeInv, NEW h \in Attempts, pc[h] # "idle", request[h].op = "receive"
  PROVE  /\ request[h].lot \in Lots /\ request[h].attributes \in LotAttributes
         /\ request[h].attributes # NoLot
  BY RequestShape, LotAssumption DEF TypeInv, HandlersOK

\* A handler's lot stays as it was when others, or the clock, move.
LEMMA LotKept ==
  ASSUME JournalInv, [Next]_vars, NEW g \in Attempts, LotOK(g), ~Commit(g),
         pc'[g] = pc[g], request'[g] = request[g], newLot'[g] = newLot[g]
  PROVE  LotOK(g)'
  <1>1. TypeInv /\ (Recorded(g)' => Recorded(g))
    BY RecordedNext DEF JournalInv
  <1>2. Recorded(g) => pc[g] # "idle"
    <2>1. Recorded(g) => pc[g] = "done"
      BY UnrecordedYet DEF JournalInv, Recorded, Journal
    <2>2. QED
      BY <2>1
  <1>3. ASSUME pc[g] # "idle", request[g].op = "receive",
               lots[request[g].lot] = request[g].attributes
        PROVE  lots'[request[g].lot] = request[g].attributes
    BY <1>1, <1>3, ReceiptShape, LotsStay
  <1>4. QED
    BY <1>1, <1>2, <1>3 DEF LotOK

LEMMA LotOwn ==
  ASSUME JournalInv, [Next]_vars, NEW h \in Attempts, LotOK(h), Arrive(h) \/ Step(h)
  PROVE  LotOK(h)'
  <1>0. TypeInv /\ TypeOK /\ LegsOK(h) /\ ClaimsOK
    BY DEF JournalInv, TypeInv
  <1>1. pc[h] # "done" /\ ~Recorded(h)
    <2>1. pc[h] # "done"
      BY DEF Arrive, Step, Refuse, ReadLotForReceipt, RequireLot, LoadOriginal,
         CheckAlreadyReversed, RequireSufficientStock, ReadReplay, Commit, Abort, CatchAbort
    <2>2. QED
      BY <1>0, <2>1, UnrecordedYet DEF Recorded, Journal
  <1>2. ~Commit(h) => ~Recorded(h)'
    BY <1>1, RecordedNext
  <1>3. CASE Commit(h)
    <2>1. pc'[h] = "done" /\ UNCHANGED request
      BY <1>0, <1>3 DEF Commit, Respond, TypeOK
    <2>2. request[h].op = "receive" => lots'[request[h].lot] = request[h].attributes
      <3> SUFFICES ASSUME request[h].op = "receive"
                   PROVE  lots'[request[h].lot] = request[h].attributes
        OBVIOUS
      <3>1. request[h].lot \in Lots
        BY <1>0, <1>3, ReceiptShape DEF Commit
      <3>2. newLot[h] \/ lots[request[h].lot] = request[h].attributes
        BY <1>3 DEF Commit, LotOK
      <3>3. QED
        BY <1>0, <1>3, <3>1, <3>2 DEF Commit, TypeOK
    <2>3. QED
      BY <2>1, <2>2 DEF LotOK
  <1>4. CASE ReadLotForReceipt(h)
    <2>1. UNCHANGED <<lots, request>>
      BY <1>4 DEF ReadLotForReceipt, ReadOnly, database
    <2>2. pc'[h] \in {"done", "replay"}
      BY <1>0, <1>4 DEF ReadLotForReceipt, Respond, Goto, TypeOK
    <2>3. pc'[h] = "replay" =>
            newLot'[h] \/ lots[request[h].lot] = request[h].attributes
      BY <1>0, <1>4 DEF ReadLotForReceipt, Respond, TypeOK
    <2>4. ~Recorded(h)'
      BY <1>2, <1>4 DEF ReadLotForReceipt, Commit
    <2>5. QED
      BY <2>1, <2>2, <2>3, <2>4 DEF LotOK
  <1>5. CASE Arrive(h)
    <2>1. pc'[h] \in {"original", "lot"}
      BY <1>0, <1>5 DEF Arrive, Goto, TypeOK
    <2>2. ~Recorded(h)'
      BY <1>2, <1>5 DEF Arrive, Commit
    <2>3. QED
      BY <2>1, <2>2 DEF LotOK
  <1>6. CASE Step(h) /\ ~Commit(h) /\ ~ReadLotForReceipt(h)
    <2>1. UNCHANGED <<lots, request, newLot>>
      BY <1>6 DEF Step, Refuse, RequireLot, LoadOriginal, CheckAlreadyReversed,
         RequireSufficientStock, ReadReplay, Abort, CatchAbort, ReadOnly, database
    <2>2. \/ \E kind, ids : Respond(h, kind, ids)
          \/ \E step \in {"reversed", "aborted-negative", "aborted-unique"} : Goto(h, step)
          \/ request[h].op # "receive" /\ \E step : Goto(h, step)
          \/ pc[h] = "replay" /\ Goto(h, "batch")
      BY <1>0, <1>6 DEF Step, Refuse, RequireLot, LoadOriginal, CheckAlreadyReversed,
         RequireSufficientStock, ReadReplay, Abort, CatchAbort, LegsOK, LotOK
    <2>3. \/ pc'[h] \notin {"stock", "replay", "batch"}
          \/ request[h].op # "receive"
          \/ pc[h] = "replay" /\ pc'[h] = "batch"
      BY <1>0, <2>2 DEF Respond, Goto, TypeOK
    <2>4. QED
      BY <1>2, <1>6, <2>1, <2>3 DEF LotOK
  <1>7. QED
    BY <1>3, <1>4, <1>5, <1>6

LEMMA LotNext ==
  ASSUME JournalInv, [Next]_vars, NEW g \in Attempts, LotOK(g)
  PROVE  LotOK(g)'
  <1>0. TypeInv
    BY DEF JournalInv
  <1>1. ASSUME NEW h \in Attempts, Arrive(h) \/ Step(h), h # g
        PROVE  LotOK(g)'
    <2>1. /\ pc'[g] = pc[g] /\ request'[g] = request[g] /\ newLot'[g] = newLot[g]
      BY <1>0, <1>1, OthersStill
    <2>2. ~Commit(g)
      BY <1>0, <2>1 DEF Commit, Respond, TypeInv, TypeOK
    <2>3. QED
      BY <2>1, <2>2, LotKept
  <1>2. CASE UNCHANGED handlers
    <2>1. ~Commit(g)
      BY <1>0, <1>2 DEF Commit, Respond, TypeInv, TypeOK, handlers
    <2>2. QED
      BY <1>2, <2>1, LotKept DEF handlers
  <1>3. QED
    BY <1>1, <1>2, LotOwn, NextCases DEF ExpireKey, handlers, vars

\* Every receipt in the journal carried the attributes its lot has, also when
\* receipts raced to create it: only one of them may insert the lot, and the
\* others were checked against it or stopped by its unique key.
THEOREM LotsKeepAttributes == Spec => []LotsTraceable
  <1>1. Init => \A h \in Attempts : LotOK(h)
    BY DEF Init, LotOK, Recorded, Journal, EntriesAt
  <1>2. JournalInv /\ (\A h \in Attempts : LotOK(h)) /\ [Next]_vars
          => (\A h \in Attempts : LotOK(h))'
    BY LotNext
  <1>3. (\A h \in Attempts : LotOK(h)) => LotsTraceable
    BY DEF LotOK, LotsTraceable
  <1>4. QED
    BY <1>1, <1>2, <1>3, JournalInvariant, PTL DEF Spec

----------------------------------------------------------------------------
(* The handlers implement the abstract ledger.                             *)

Stock == [k \in BalanceKey |-> balances[k].quantity]

Effect(h) == [by |-> h, request |-> request[h], legs |-> legs[h]]

Applied == { [by |-> row.by, request |-> row.request, legs |-> LegsOf(row.by)] :
               row \in idempotency }

LEMMA SameCommands ==
  /\ Ledger!BalanceKey = BalanceKey /\ Ledger!ReversibleTypes = ReversibleTypes
  /\ \A k, delta : Ledger!ReversalLegs(k, delta) = ReversalLegs(k, delta)
  /\ \A r, s : Ledger!SameClaim(r, s) <=> SameClaim(r, s)
  /\ \A r : Ledger!CommandLegs(r) = CommandLegs(r)
  <1>1. Ledger!BalanceKey = BalanceKey /\ Ledger!ReversibleTypes = ReversibleTypes
    BY DEF Ledger!BalanceKey, BalanceKey, Ledger!Statuses, Statuses,
           Ledger!ReversibleTypes, ReversibleTypes
  <1>2. \A k, type, delta : Ledger!SingleLeg(k, type, delta) = SingleLeg(k, type, delta)
    BY DEF Ledger!SingleLeg, SingleLeg, Ledger!Leg, Leg
  <1>3. \A from, to, outType, inType, quantity :
          Ledger!PairedLegs(from, to, outType, inType, quantity)
            = PairedLegs(from, to, outType, inType, quantity)
    BY DEF Ledger!PairedLegs, PairedLegs, Ledger!Leg, Leg
  <1>4. \A bin, lot, status : Ledger!At(bin, lot, status) = At(bin, lot, status)
    BY DEF Ledger!At, At
  <1>5. \A k, delta : Ledger!ReversalLegs(k, delta) = ReversalLegs(k, delta)
    BY <1>2 DEF Ledger!ReversalLegs, ReversalLegs
  <1>6. \A r, s : Ledger!SameClaim(r, s) <=> SameClaim(r, s)
    BY DEF Ledger!SameClaim, SameClaim, Ledger!Scope, Scope
  <1>7. ASSUME NEW r PROVE Ledger!CommandLegs(r) = CommandLegs(r)
    <2>1. /\ Ledger!ReceiveLegs(r) = ReceiveLegs(r) /\ Ledger!AdjustLegs(r) = AdjustLegs(r)
      BY <1>2, <1>4 DEF Ledger!ReceiveLegs, ReceiveLegs, Ledger!AdjustLegs, AdjustLegs
    <2>2. /\ Ledger!TransferLegs(r) = TransferLegs(r)
          /\ Ledger!QuarantineLegs(r) = QuarantineLegs(r)
          /\ Ledger!ReleaseLegs(r) = ReleaseLegs(r)
      BY <1>3, <1>4 DEF Ledger!TransferLegs, TransferLegs, Ledger!QuarantineLegs,
         QuarantineLegs, Ledger!ReleaseLegs, ReleaseLegs
    <2>3. QED
      BY <2>1, <2>2 DEF Ledger!CommandLegs, CommandLegs
  <1>8. QED
    BY <1>1, <1>5, <1>6, <1>7

\* The legs the journal shows of an attempt are the legs its handler wrote.
LEMMA LegsOfAttempt ==
  ASSUME JournalInv, NEW h \in Attempts, Mirrored(h)
  PROVE  LegsOf(h) = legs[h]
  <1> DEFINE S == { x \in BalanceKey : \E m \in EntriesAt(x) : m.id[1] = h }
             Shown(k) == LET m == CHOOSE n \in EntriesAt(k) : n.id[1] = h
                         IN  Leg(m.type, m.delta, m.id[2])
  <1>1. /\ DOMAIN legs[h] \subseteq BalanceKey
        /\ \A k \in DOMAIN legs[h] : legs[h][k] \in LegSet
        /\ legs[h] = [k \in DOMAIN legs[h] |-> legs[h][k]]
    BY DEF JournalInv, TypeInv, TypeOK, IsLegs
  <1>2. S = DOMAIN legs[h]
    BY <1>1 DEF Mirrored
  <1>3. ASSUME NEW k \in DOMAIN legs[h] PROVE Shown(k) = legs[h][k]
    <2> DEFINE m == CHOOSE n \in EntriesAt(k) : n.id[1] = h
    <2>1. \E n \in EntriesAt(k) : n.id[1] = h
      BY DEF Mirrored
    <2>2. m \in EntriesAt(k) /\ m.id[1] = h
      BY <2>1
    <2> HIDE DEF m
    <2>3. m.id[2] = legs[h][k].side /\ m.type = legs[h][k].type /\ m.delta = legs[h][k].delta
      BY <1>1, <2>2 DEF Mirrored
    <2>4. Leg(m.type, m.delta, m.id[2]) = legs[h][k]
      BY <1>1, <2>3 DEF Leg, LegSet
    <2>5. QED
      BY <2>4 DEF m
  <1>4. LegsOf(h) = [k \in S |-> Shown(k)]
    BY DEF LegsOf
  <1> HIDE DEF S, Shown
  <1>5. QED
    BY <1>1, <1>2, <1>3, <1>4

LEMMA AppliedEffects == JournalInv => Applied = { Effect(row.by) : row \in idempotency }
  <1> SUFFICES ASSUME JournalInv PROVE Applied = { Effect(row.by) : row \in idempotency }
    OBVIOUS
  <1>1. ASSUME NEW row \in idempotency
        PROVE  [by |-> row.by, request |-> row.request, legs |-> LegsOf(row.by)] = Effect(row.by)
    <2>1. PICK h \in Attempts : h = row.by
      BY DEF JournalInv, TypeInv, TypeOK, IdempotencyRow
    <2>2. LegsOf(h) = legs[h]
      BY <2>1, LegsOfAttempt DEF JournalInv
    <2>3. row.request = request[h]
      BY <2>1 DEF JournalInv, ClaimsOK
    <2>4. QED
      BY <2>1, <2>2, <2>3 DEF Effect
  <1>2. QED
    BY <1>1 DEF Applied

\* A step that neither moves stock nor adds a row is not seen.
LEMMA QuietLedger ==
  ASSUME JournalInv, JournalInv', UNCHANGED balances,
         \A row \in idempotency' : \E old \in idempotency : row.by = old.by,
         \A old \in idempotency : \E row \in idempotency' : row.by = old.by,
         \A row \in idempotency :
           request'[row.by] = request[row.by] /\ legs'[row.by] = legs[row.by]
  PROVE  UNCHANGED <<Stock, Applied>>
  <1>1. Applied' = { Effect(row.by)' : row \in idempotency' }
    <2>1. (Applied = { Effect(row.by) : row \in idempotency })'
      BY AppliedEffects, PTL
    <2>2. QED
      BY <2>1
  <1>2. Applied = { Effect(row.by) : row \in idempotency }
    BY AppliedEffects
  <1>3. QED
    BY <1>1, <1>2 DEF Effect, Stock

\* A batch is one command of the ledger.
LEMMA CommitLedger ==
  ASSUME JournalInv, JournalInv', NEW h \in Attempts, Commit(h)
  PROVE  Ledger!Next
  <1>0. /\ TypeInv /\ TypeOK /\ ClaimsOK /\ LegsOK(h) /\ pc[h] = "batch"
        /\ request[h] \in Requests /\ ~DrivesNegative(h) /\ ~BreaksUnique(h)
        /\ UNCHANGED <<request, legs>>
    BY DEF JournalInv, TypeInv, HandlersOK, Commit
  <1>10. PICK r \in Requests : r = request[h]
    BY <1>0
  <1>1. PICK L : r = request[h] /\ L = legs[h]
    BY <1>10
  <1>2. IsLegs(L)
    BY <1>0, <1>1 DEF TypeOK
  <1>3. Applied = { Effect(row.by) : row \in idempotency }
    BY AppliedEffects
  <1>4. \A a \in Applied : a.by # h /\ ~SameClaim(a.request, r)
    <2>1. \A row \in idempotency : row.by # h /\ ~SameClaim(row.request, r)
      BY <1>0, <1>1, UnrecordedYet DEF BreaksUnique, Claims
    <2>2. QED
      BY <2>1 DEF Applied
  <1>5. Applied' = Applied \cup {[by |-> h, request |-> r, legs |-> L]}
    <2> DEFINE new == [by |-> h, request |-> request[h], movements |-> MovementIds(h),
                       live |-> TRUE]
    <2>1. idempotency' = idempotency \cup {new} /\ new.by = h
      BY DEF Commit
    <2> HIDE DEF new
    <2>2. (Applied = { Effect(row.by) : row \in idempotency })'
      BY AppliedEffects, PTL
    <2>3. \A x : Effect(x)' = Effect(x)
      BY <1>0 DEF Effect
    <2>4. Applied' = { Effect(row.by) : row \in idempotency' }
      BY <2>2, <2>3
    <2>5. Effect(h) = [by |-> h, request |-> r, legs |-> L]
      BY <1>1 DEF Effect
    <2>6. QED
      BY <1>3, <2>1, <2>4, <2>5
  <1>6. /\ \A k \in DOMAIN L : Stock[k] + L[k].delta >= 0
        /\ Stock' = [k \in BalanceKey |->
                       IF k \in DOMAIN L THEN Stock[k] + L[k].delta ELSE Stock[k]]
    <2>1. ASSUME NEW k \in DOMAIN L PROVE Stock[k] + L[k].delta >= 0
      <3>1. k \in BalanceKey /\ L[k].delta \in Int /\ balances[k].quantity \in Nat
        BY <1>0, <1>2 DEF IsLegs, LegSet, TypeOK
      <3>2. ~(balances[k].quantity + L[k].delta < 0)
        BY <1>0, <1>1 DEF DrivesNegative
      <3>3. QED
        BY <3>1, <3>2 DEF Stock
    <2>2. \A k \in BalanceKey :
            balances'[k].quantity = IF k \in DOMAIN L THEN balances[k].quantity + L[k].delta
                                                      ELSE balances[k].quantity
      BY <1>1 DEF Commit, Balance
    <2>3. QED
      BY <2>1, <2>2 DEF Stock
  <1>7. CASE r.op # "reverse"
    <2>1. L = CommandLegs(r)
      BY <1>0, <1>1, <1>7 DEF LegsOK
    <2>2. Ledger!Apply(h, r, L) /\ L \in Ledger!CandidateLegs(r)
      BY <1>4, <1>5, <1>6, <1>7, <2>1, SameCommands
         DEF Ledger!Apply, Ledger!LegsFor, Ledger!CandidateLegs, Applied, Stock
    <2>3. QED
      BY <2>2 DEF Ledger!Next
  <1>8. CASE r.op = "reverse"
    <2>1. \A a \in Applied : a.request.op = "reverse" => a.request.target # r.target
      <3> SUFFICES ASSUME NEW row \in idempotency, request[row.by].op = "reverse"
                   PROVE  request[row.by].target # r.target
        BY <1>3 DEF Effect
      <3>1. PICK g \in Attempts : g = row.by
        BY <1>0 DEF TypeOK, IdempotencyRow
      <3>2. Mirrored(g) /\ request[g].op = "reverse"
        BY <3>1 DEF JournalInv
      <3>3. PICK k \in DOMAIN legs[g] : k \in BalanceKey
        BY <1>0, <3>2, ReversalWrites DEF Mirrored
      <3>4. PICK m \in EntriesAt(k) : m.id[1] = g
        BY <3>2, <3>3 DEF Mirrored
      <3>5. m \in Journal /\ m.reverses = request[g].target
        BY <3>2, <3>3, <3>4, EntryOfJournal DEF Mirrored, Undoes
      <3>6. ~Reversed(r.target)
        BY <1>0, <1>1, <1>8 DEF BreaksUnique
      <3>7. QED
        BY <3>1, <3>5, <3>6 DEF Reversed
    <2>2. PICK k \in BalanceKey : \E o \in EntriesAt(k) :
            o.id = r.target /\ o.type \in ReversibleTypes /\ L = ReversalLegs(k, o.delta)
      BY <1>0, <1>1, <1>8 DEF LegsOK, Known, Corrects
    <2>3. PICK o \in EntriesAt(k) :
            o.id = r.target /\ o.type \in ReversibleTypes /\ L = ReversalLegs(k, o.delta)
      BY <2>2
    <2>4. PICK g \in Attempts :
            /\ pc[g] = "done" /\ request[g] \in Requests /\ Mirrored(g) /\ LegsOK(g)
            /\ \E row \in idempotency : row.by = g
            /\ k \in DOMAIN legs[g] /\ o.id = <<g, legs[g][k].side>>
            /\ o.type = legs[g][k].type /\ o.delta = legs[g][k].delta
      BY EntryIsLeg
    <2>5. request[g].op # "reverse"
      <3>1. request[g].op = "reverse" => Corrects(g)
        BY <2>4 DEF Mirrored
      <3>2. request[g].op = "reverse" => o.type = "reversal"
        BY <1>0, <2>4, <3>1, ReversalWrites
      <3>3. QED
        BY <2>3, <3>2 DEF ReversibleTypes
    <2>6. DOMAIN legs[g] = {k} /\ legs[g][k].side = 1
      <3>1. legs[g] = CommandLegs(request[g])
        BY <2>4, <2>5 DEF LegsOK
      <3>2. CommandShape(legs[g])
        BY <2>4, <2>5, <3>1, CommandLegsCommand
      <3>3. legs[g][k].type \in ReversibleTypes
        BY <2>3, <2>4
      <3>4. QED
        BY <2>4, <3>2, <3>3 DEF CommandShape
    <2> DEFINE a == Effect(g)
    <2>7. /\ a \in Applied /\ a.by = g /\ a.legs = legs[g]
      BY <1>3, <2>4 DEF Effect
    <2> HIDE DEF a
    <2>8. Ledger!Reverses(r, a, k) /\ L = ReversalLegs(k, a.legs[k].delta)
      BY <2>3, <2>4, <2>6, <2>7, SameCommands DEF Ledger!Reverses
    <2>9. Ledger!LegsFor(r, L)
      BY <1>8, <2>1, <2>7, <2>8, SameCommands DEF Ledger!LegsFor, Applied
    <2>10. Ledger!Apply(h, r, L)
      BY <1>4, <1>5, <1>6, <2>9, SameCommands DEF Ledger!Apply, Applied, Stock
    <2>11. L \in Ledger!CandidateLegs(r)
      BY <1>8, <2>6, <2>7, <2>8, SameCommands DEF Ledger!CandidateLegs, Applied
    <2>12. QED
      BY <2>10, <2>11 DEF Ledger!Next
  <1>9. QED
    BY <1>7, <1>8

LEMMA LedgerNext ==
  ASSUME JournalInv, JournalInv', [Next]_vars
  PROVE  [Ledger!Next]_(Ledger!vars)
  <1>0. TypeInv /\ TypeOK /\ \A row \in idempotency : row.by \in Attempts /\ pc[row.by] = "done"
    BY DEF JournalInv, ClaimsOK, TypeInv, TypeOK, IdempotencyRow
  <1>1. UNCHANGED <<Stock, Applied>> => UNCHANGED Ledger!vars
    BY DEF Ledger!vars, Stock, Applied
  <1>2. ASSUME NEW old \in idempotency, ExpireKey(old) PROVE UNCHANGED <<Stock, Applied>>
    <2>1. old \in IdempotencyRow
      BY <1>0 DEF TypeOK
    <2>2. /\ idempotency' = (idempotency \ {old}) \cup {[old EXCEPT !.live = FALSE]}
          /\ UNCHANGED <<balances, request, legs>>
      BY <1>2 DEF ExpireKey, handlers
    <2>3. [old EXCEPT !.live = FALSE].by = old.by
      BY <2>1 DEF IdempotencyRow
    <2>4. QED
      BY <2>2, <2>3, QuietLedger
  <1>3. ASSUME NEW h \in Attempts, Arrive(h) \/ Step(h), ~Commit(h)
        PROVE  UNCHANGED <<Stock, Applied>>
    <2>1. UNCHANGED <<balances, idempotency>> /\ pc[h] # "done"
      BY <1>3 DEF Arrive, Step, Refuse, ReadLotForReceipt, RequireLot, LoadOriginal,
         CheckAlreadyReversed, RequireSufficientStock, ReadReplay, Abort, CatchAbort,
         ReadOnly, database
    <2>2. \A row \in idempotency :
            request'[row.by] = request[row.by] /\ legs'[row.by] = legs[row.by]
      BY <1>0, <1>3, <2>1, OthersStill
    <2>3. QED
      BY <2>1, <2>2, QuietLedger
  <1>4. UNCHANGED vars => UNCHANGED <<Stock, Applied>>
    BY QuietLedger DEF vars
  <1>5. QED
    BY <1>1, <1>2, <1>3, <1>4, CommitLedger, NextCases

\* The handlers, with every query a step of its own and retries, races and
\* expiring keys in between, implement the abstract ledger: a batch is one
\* command that takes effect once, and no other step is seen.
THEOREM LedgerImplemented == Spec => ImplementsLedger
  <1>1. Init => Ledger!Init
    <2> SUFFICES ASSUME Init PROVE Ledger!Init
      OBVIOUS
    <2>1. Stock = [k \in BalanceKey |-> 0] /\ Applied = {}
      BY DEF Init, Stock, Applied
    <2>2. QED
      BY <2>1, SameCommands DEF Ledger!Init, Stock, Applied
  <1>2. JournalInv /\ JournalInv' /\ [Next]_vars => [Ledger!Next]_(Ledger!vars)
    BY LedgerNext
  <1>3. QED
    BY <1>1, <1>2, JournalInvariant, PTL DEF Spec, ImplementsLedger, Ledger!Spec
=============================================================================
