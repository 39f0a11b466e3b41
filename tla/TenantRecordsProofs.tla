------------------------ MODULE TenantRecordsProofs ------------------------
(***************************************************************************)
(* Proofs about TenantRecords: a key of a domain command takes effect once *)
(* however many handlers of the three files share the idempotency table,   *)
(* what a record refers to is there and is what its call asked for, what a *)
(* call is told is true, and so is what the outbox tells.                  *)
(***************************************************************************)
EXTENDS TenantRecords, FiniteSetTheorems, SequenceTheorems, TLAPS

Row(claim, hash, by, told) ==
  [claim |-> claim, hash |-> hash, by |-> by, told |-> told, live |-> TRUE]

Shaped(row) ==
  row \in [claim : {row.claim}, hash : {row.hash}, by : {row.by}, told : {row.told},
           live : BOOLEAN]

\* The rows of the idempotency table are records, and the outbox is a sequence.
ShapesOK ==
  /\ DOMAIN pc = Calls /\ DOMAIN command = Calls
  /\ \A row \in idempotency : Shaped(row)
  /\ outbox \in Seq({outbox[n] : n \in DOMAIN outbox})

\* A handler that has written is at its end, or shows settings and then is, and
\* the row of its key is there, expired or not.
WritersOK ==
  \A n \in DOMAIN outbox :
    /\ outbox[n].by \in Calls
    /\ pc[outbox[n].by] \in {"show", "done"}
    /\ \E row \in idempotency : row.claim = Claim(outbox[n].by)

KeysInv == ShapesOK /\ WritersOK /\ KeysTakeEffectOnce

----------------------------------------------------------------------------
(* What a step does to the tables that all handlers share.                 *)

\* A handler moves on, and never from its end; from showing settings only there.
Moves(c) ==
  /\ pc[c] \notin {"idle", "done"}
  /\ \E step : pc' = [pc EXCEPT ![c] = step] /\ (pc[c] = "show" => step = "done")

Quietly(c) == Moves(c) /\ UNCHANGED <<idempotency, outbox, command>>

\* A handler writes: its key was free, and now has a row.
Writes(c) ==
  /\ ~Claimed(c)
  /\ \E step \in {"show", "done"} : pc' = [pc EXCEPT ![c] = step]
  /\ UNCHANGED command
  /\ \E hash, told : idempotency' = idempotency \cup {Row(Claim(c), hash, c, told)}
  /\ \E type, id, version, value :
       outbox' = Append(outbox, [type |-> type, id |-> id, version |-> version,
                                 value |-> value, by |-> c])

LEMMA WriteWrites ==
  ASSUME NEW c, NEW type, NEW told, NEW payload, NEW step \in {"show", "done"},
         Write(c, type, told, payload), pc' = [pc EXCEPT ![c] = step]
  PROVE  Writes(c)
<1>1. idempotency' = idempotency \cup {Row(Claim(c), Hash(c), c, told)}
  BY DEF Write, Row
<1>2. outbox' = Append(outbox, [type |-> type, id |-> told.id, version |-> told.version,
                                value |-> payload, by |-> c])
  BY DEF Write
<1>3. ~Claimed(c) /\ UNCHANGED command
  BY DEF Write
<1> QED
  BY <1>1, <1>2, <1>3 DEF Writes

LEMMA CommitWrites ==
  ASSUME NEW c, NEW type, NEW told, NEW payload, Commit(c, type, told, payload)
  PROVE  Writes(c)
BY WriteWrites DEF Commit, Respond

\* A step that reads goes on to another step or answers.
LEMMA ReadsQuietly ==
  ASSUME NEW c, NEW step, Reads(c, step), step \notin {"idle", "done", "show"},
         \/ \E next : Goto(c, next)
         \/ \E kind, by, told : Respond(c, kind, by, told)
  PROVE  Quietly(c)
<1>1. \E next : pc' = [pc EXCEPT ![c] = next]
  BY DEF Goto, Respond
<1> QED
  BY <1>1 DEF Reads, Quietly, Moves

LEMMA ReplayQuietly ==
  ASSUME NEW c, NEW next, ReadReplay(c, next)
  PROVE  Quietly(c)
<1>1. Reads(c, "replay") /\ ((\E step : Goto(c, step)) \/ (\E kind, by, told : Respond(c, kind, by, told)))
  BY DEF ReadReplay, Refuse
<1> QED
  BY <1>1, ReadsQuietly

LEMMA AbortsQuietly ==
  ASSUME NEW c, AbortUncaught(c) \/ AbortCaught(c)
  PROVE  Quietly(c)
<1>1. Reads(c, "batch") /\ (\E kind, by, told : Respond(c, kind, by, told))
  BY DEF AbortUncaught, AbortCaught, Refuse
<1> QED
  BY <1>1, ReadsQuietly

LEMMA MasterSteps ==
  ASSUME NEW c, MasterStep(c)
  PROVE  Quietly(c) \/ Writes(c)
<1>1. CASE MasterReplay(c)
  BY <1>1, ReplayQuietly DEF MasterReplay
<1>2. CASE QueryCode(c)
  <2>1. Reads(c, "code") /\ ((\E step : Goto(c, step)) \/ (\E kind, by, told : Respond(c, kind, by, told)))
    BY <1>2 DEF QueryCode, Refuse
  <2> QED
    BY <2>1, ReadsQuietly
<1>3. CASE Resolve(c)
  BY <1>3 DEF Resolve, Goto, Quietly, Moves
<1>4. CASE MasterAbort(c)
  BY <1>4, AbortsQuietly DEF MasterAbort
<1>5. CASE CommitParty(c)
  BY <1>5, CommitWrites DEF CommitParty
<1>6. CASE CommitProduct(c)
  BY <1>6, CommitWrites DEF CommitProduct
<1>7. CASE CommitWarehouse(c)
  BY <1>7, CommitWrites DEF CommitWarehouse
<1> QED
  BY <1>1, <1>2, <1>3, <1>4, <1>5, <1>6, <1>7 DEF MasterStep, MasterQuery

LEMMA CrmQueries ==
  ASSUME NEW c, CrmQuery(c)
  PROVE  Quietly(c)
<1> DEFINE Answers == (\E step : Goto(c, step)) \/ (\E kind, by, told : Respond(c, kind, by, told))
<1>1. CASE ReadReplay(c, AfterReplay(command[c].op))
  BY <1>1, ReplayQuietly
<1>2. CASE QueryAccountCode(c)
  <2>1. Reads(c, "code") /\ Answers
    BY <1>2 DEF QueryAccountCode, Refuse
  <2> QED
    BY <2>1, ReadsQuietly
<1>3. CASE QueryParty(c)
  <2>1. Reads(c, "party") /\ Answers
    BY <1>3 DEF QueryParty, Refuse
  <2> QED
    BY <2>1, ReadsQuietly
<1>4. CASE RequireAccount(c)
  <2>1. Reads(c, "account") /\ Answers
    BY <1>4 DEF RequireAccount, Refuse
  <2> QED
    BY <2>1, ReadsQuietly
<1>5. CASE RequireContact(c)
  <2>1. Reads(c, "contact") /\ Answers
    BY <1>5 DEF RequireContact, Refuse
  <2> QED
    BY <2>1, ReadsQuietly
<1>6. CASE RequireOpportunity(c)
  <2>1. Reads(c, "opportunity") /\ Answers
    BY <1>6 DEF RequireOpportunity, Refuse
  <2> QED
    BY <2>1, ReadsQuietly
<1>7. CASE ReadOpportunity(c)
  <2>1. CASE Reads(c, "opportunity") /\ Refuse(c, "not-found")
    BY <2>1, ReadsQuietly DEF Refuse
  <2>2. CASE \E version : pc[c] = "opportunity" /\ Remember(c, version)
    BY <2>2 DEF Remember, Goto, Quietly, Moves
  <2> QED
    BY <1>7, <2>1, <2>2 DEF ReadOpportunity
<1>8. CASE ReadTask(c)
  <2>1. CASE Reads(c, "task") /\ \E kind : Refuse(c, kind)
    BY <2>1, ReadsQuietly DEF Refuse
  <2>2. CASE \E version : pc[c] = "task" /\ Remember(c, version)
    BY <2>2 DEF Remember, Goto, Quietly, Moves
  <2> QED
    BY <1>8, <2>1, <2>2 DEF ReadTask
<1>9. CASE AbortUncaught(c)
  BY <1>9, AbortsQuietly
<1> QED
  BY <1>1, <1>2, <1>3, <1>4, <1>5, <1>6, <1>7, <1>8, <1>9 DEF CrmQuery

LEMMA CrmSteps ==
  ASSUME NEW c, CrmStep(c)
  PROVE  Quietly(c) \/ Writes(c)
<1>1. CASE CrmQuery(c)
  BY <1>1, CrmQueries
<1>2. CASE CommitAccount(c)
  BY <1>2, CommitWrites DEF CommitAccount
<1>3. CASE CommitContact(c)
  BY <1>3, CommitWrites DEF CommitContact
<1>4. CASE CommitOpportunity(c)
  BY <1>4, CommitWrites DEF CommitOpportunity
<1>5. CASE CommitActivity(c)
  BY <1>5, CommitWrites DEF CommitActivity
<1>6. CASE CommitTask(c)
  BY <1>6, CommitWrites DEF CommitTask
<1>7. CASE CommitComplete(c)
  BY <1>7, CommitWrites DEF CommitComplete
<1>8. CASE CommitStage(c)
  BY <1>8, CommitWrites DEF CommitStage
<1> QED
  BY <1>1, <1>2, <1>3, <1>4, <1>5, <1>6, <1>7, <1>8 DEF CrmStep

LEMMA SettingsSteps ==
  ASSUME NEW c, SettingsStep(c)
  PROVE  Quietly(c) \/ Writes(c)
<1> DEFINE Answers == (\E step : Goto(c, step)) \/ (\E kind, by, told : Respond(c, kind, by, told))
<1>1. CASE SettingsReplay(c)
  <2>1. Reads(c, "replay") /\ Answers
    BY <1>1 DEF SettingsReplay, Refuse
  <2> QED
    BY <2>1, ReadsQuietly
<1>2. CASE ReadSettings(c)
  BY <1>2 DEF ReadSettings, Goto, Respond, Quietly, Moves
<1>3. CASE MissSettings(c)
  <2>1. Reads(c, "settings") /\ Answers
    BY <1>3 DEF MissSettings
  <2> QED
    BY <2>1, ReadsQuietly
<1>4. CASE InitializeSettings(c)
  <2>1. Reads(c, "initialize") /\ Answers
    BY <1>4 DEF InitializeSettings
  <2> QED
    BY <2>1, ReadsQuietly
<1>5. CASE CommitSettings(c)
  BY <1>5, WriteWrites DEF CommitSettings, Goto
<1>6. CASE AbortSettings(c)
  <2>1. Reads(c, "batch") /\ Answers
    BY <1>6 DEF AbortSettings, Refuse
  <2> QED
    BY <2>1, ReadsQuietly
<1>7. CASE ShowSettings(c)
  BY <1>7 DEF ShowSettings, Respond, Quietly, Moves
<1> QED
  BY <1>1, <1>2, <1>3, <1>4, <1>5, <1>6, <1>7 DEF SettingsStep

----------------------------------------------------------------------------
(* The invariant.                                                          *)

LEMMA InitKeys == Init => KeysInv
BY DEF Init, CommonInit, KeysInv, ShapesOK, WritersOK, KeysTakeEffectOnce

LEMMA Appended ==
  ASSUME NEW seq, seq \in Seq({seq[n] : n \in DOMAIN seq}), NEW e
  PROVE  LET longer == Append(seq, e)
         IN  /\ longer \in Seq({longer[n] : n \in DOMAIN longer})
             /\ DOMAIN longer = DOMAIN seq \cup {Len(seq) + 1}
             /\ Len(seq) + 1 \notin DOMAIN seq
             /\ \A n \in DOMAIN seq : longer[n] = seq[n]
             /\ longer[Len(seq) + 1] = e
<1> DEFINE S == {seq[n] : n \in DOMAIN seq} \cup {e}
<1> DEFINE longer == Append(seq, e)
<1>1. seq \in Seq(S) /\ e \in S
  OBVIOUS
<1>2. /\ longer \in Seq(S) /\ Len(longer) = Len(seq) + 1
      /\ \A n \in 1 .. Len(seq) : longer[n] = seq[n]
      /\ longer[Len(seq) + 1] = e
  BY <1>1, AppendProperties
<1>3. DOMAIN seq = 1 .. Len(seq) /\ DOMAIN longer = 1 .. Len(longer) /\ Len(seq) \in Nat
  BY <1>1, <1>2, LenProperties
<1>4. longer \in Seq({longer[n] : n \in DOMAIN longer})
  <2> DEFINE T == {longer[n] : n \in DOMAIN longer}
  <2>1. longer \in [1 .. Len(longer) -> T] /\ Len(longer) \in Nat
    BY <1>2, <1>3, LenProperties
  <2>2. longer \in Seq(T)
    <3> HIDE DEF T, longer
    <3> QED
      BY <2>1, SeqDef
  <2> QED
    BY <2>2
<1> QED
  BY <1>2, <1>3, <1>4

LEMMA QuietKeys ==
  ASSUME KeysInv, NEW c \in Calls, Quietly(c)
  PROVE  KeysInv'
<1>1. PICK step : pc' = [pc EXCEPT ![c] = step] /\ (pc[c] = "show" => step = "done")
  BY DEF Quietly, Moves
<1>2. UNCHANGED <<idempotency, outbox, command>> /\ pc[c] \notin {"idle", "done"}
  BY DEF Quietly, Moves
<1>3. ShapesOK'
  BY <1>1, <1>2 DEF KeysInv, ShapesOK, Shaped
<1>4. \A d \in Calls : pc[d] \in {"show", "done"} => pc'[d] \in {"show", "done"}
  BY <1>1, <1>2 DEF KeysInv, ShapesOK
<1>5. \A d \in Calls : Claim(d)' = Claim(d)
  BY <1>2 DEF Claim
<1>6. WritersOK'
  BY <1>2, <1>4, <1>5 DEF KeysInv, WritersOK
<1>7. KeysTakeEffectOnce'
  BY <1>2, <1>5 DEF KeysInv, KeysTakeEffectOnce, WritersOK
<1> QED
  BY <1>3, <1>6, <1>7 DEF KeysInv

LEMMA WriteKeys ==
  ASSUME KeysInv, NEW c \in Calls, Writes(c)
  PROVE  KeysInv'
<1>1. PICK step \in {"show", "done"} : pc' = [pc EXCEPT ![c] = step]
  BY DEF Writes
<1>2. ~Claimed(c) /\ UNCHANGED command
  BY DEF Writes
<1>3. PICK hash, told : idempotency' = idempotency \cup {Row(Claim(c), hash, c, told)}
  BY DEF Writes
<1>4. PICK type, id, version, value :
        outbox' = Append(outbox, [type |-> type, id |-> id, version |-> version,
                                  value |-> value, by |-> c])
  BY DEF Writes
<1> DEFINE row == Row(Claim(c), hash, c, told)
<1> DEFINE last == Len(outbox) + 1
<1>5. row.claim = Claim(c) /\ Shaped(row)
  BY DEF Row, Shaped
<1>6. /\ outbox' \in Seq({outbox'[n] : n \in DOMAIN outbox'})
      /\ DOMAIN outbox' = DOMAIN outbox \cup {last} /\ last \notin DOMAIN outbox
      /\ \A n \in DOMAIN outbox : outbox'[n] = outbox[n]
      /\ outbox'[last].by = c
  <2>1. PICK e : outbox' = Append(outbox, e) /\ e.by = c
    BY <1>4
  <2>2. outbox \in Seq({outbox[n] : n \in DOMAIN outbox})
    BY DEF KeysInv, ShapesOK
  <2> QED
    BY <2>1, <2>2, Appended
<1> HIDE DEF row, last
<1>7. ShapesOK'
  BY <1>1, <1>2, <1>3, <1>5, <1>6 DEF KeysInv, ShapesOK, row
<1>8. \A d : Claim(d)' = Claim(d)
  BY <1>2 DEF Claim
<1>9. \A d \in Calls : pc[d] \in {"show", "done"} => pc'[d] \in {"show", "done"}
  BY <1>1 DEF KeysInv, ShapesOK
<1>10. pc'[c] \in {"show", "done"}
  BY <1>1 DEF KeysInv, ShapesOK
<1>11. row \in idempotency' /\ idempotency \subseteq idempotency'
  BY <1>3 DEF row
<1>12. WritersOK'
  BY <1>5, <1>6, <1>8, <1>9, <1>10, <1>11 DEF KeysInv, WritersOK
<1>13. \A n \in DOMAIN outbox : Claim(outbox[n].by) # Claim(c)
  BY <1>2 DEF KeysInv, WritersOK, Claimed, Claims
<1>14. KeysTakeEffectOnce'
  BY <1>6, <1>8, <1>13 DEF KeysInv, KeysTakeEffectOnce
<1> QED
  BY <1>7, <1>12, <1>14 DEF KeysInv

LEMMA ArriveKeys ==
  ASSUME KeysInv, NEW c \in Calls, Arrive(c)
  PROVE  KeysInv'
<1>1. pc[c] = "idle" /\ UNCHANGED <<idempotency, outbox>>
  BY DEF Arrive
<1>2. \E cmd : command' = [command EXCEPT ![c] = cmd]
  BY DEF Arrive
<1>3. \E step : pc' = [pc EXCEPT ![c] = step]
  BY DEF Arrive, Refuse, Respond, Goto
<1>4. ShapesOK'
  BY <1>1, <1>2, <1>3 DEF KeysInv, ShapesOK, Shaped
<1>5. \A d \in Calls \ {c} : pc'[d] = pc[d] /\ Claim(d)' = Claim(d)
  BY <1>2, <1>3 DEF KeysInv, ShapesOK, Claim
<1>6. \A n \in DOMAIN outbox : outbox[n].by \in Calls \ {c}
  BY <1>1 DEF KeysInv, WritersOK
<1>7. WritersOK' /\ KeysTakeEffectOnce'
  BY <1>1, <1>5, <1>6 DEF KeysInv, WritersOK, KeysTakeEffectOnce
<1> QED
  BY <1>4, <1>7 DEF KeysInv

\* An expired row still has its key.
LEMMA ExpireKeys ==
  ASSUME KeysInv, NEW row \in idempotency, ExpireKey(row)
  PROVE  KeysInv'
<1> DEFINE expired == [row EXCEPT !.live = FALSE]
<1>1. Shaped(row)
  BY DEF KeysInv, ShapesOK
<1>2. expired.claim = row.claim /\ Shaped(expired)
  BY <1>1 DEF Shaped
<1>3. idempotency' = (idempotency \ {row}) \cup {expired} /\ UNCHANGED <<outbox, pc, command>>
  BY DEF ExpireKey
<1> HIDE DEF expired
<1>4. ShapesOK'
  BY <1>2, <1>3 DEF KeysInv, ShapesOK
<1>5. \A d : Claim(d)' = Claim(d)
  BY <1>3 DEF Claim
<1>6. WritersOK'
  BY <1>2, <1>3, <1>5 DEF KeysInv, WritersOK
<1>7. KeysTakeEffectOnce'
  BY <1>3, <1>5 DEF KeysInv, KeysTakeEffectOnce
<1> QED
  BY <1>4, <1>6, <1>7 DEF KeysInv

LEMMA NextKeys ==
  ASSUME KeysInv, [Next]_vars
  PROVE  KeysInv'
<1>1. CASE \E c \in Calls : Arrive(c)
  BY <1>1, ArriveKeys
<1>2. CASE \E c \in Calls : Step(c)
  <2>1. PICK c \in Calls : Step(c)
    BY <1>2
  <2>2. Quietly(c) \/ Writes(c)
    BY <2>1, MasterSteps, CrmSteps, SettingsSteps DEF Step
  <2> QED
    BY <2>2, QuietKeys, WriteKeys
<1>3. CASE \E row \in idempotency : ExpireKey(row)
  BY <1>3, ExpireKeys
<1>4. CASE UNCHANGED vars
  <2>1. UNCHANGED <<idempotency, outbox, pc, command>>
    BY <1>4 DEF vars, common
  <2>2. \A d : Claim(d)' = Claim(d)
    BY <2>1 DEF Claim
  <2> QED
    BY <2>1, <2>2 DEF KeysInv, ShapesOK, WritersOK, KeysTakeEffectOnce
<1> QED
  BY <1>1, <1>2, <1>3, <1>4 DEF Next, Quiet

\* A key takes effect once, for ever: of all the batches of master data,
\* customer records and settings no two have the same scope and key, because
\* readDomainReplay may skip an expired row but the primary key of
\* domain_idempotency does not.
THEOREM KeyedOnce == Spec => []KeysTakeEffectOnce
<1>1. Init => KeysInv
  BY InitKeys
<1>2. KeysInv /\ [Next]_vars => KeysInv'
  BY NextKeys
<1>3. KeysInv => KeysTakeEffectOnce
  BY DEF KeysInv
<1> QED
  BY <1>1, <1>2, <1>3, PTL DEF Spec

----------------------------------------------------------------------------
(* What records refer to.                                                 *)

\* What a command of each operation carries.
CommandShape(cmd) ==
  /\ cmd.op \in MasterOps \cup CrmOps \cup SettingsOps
  /\ cmd.op = "product" => DOMAIN cmd.names = {"unit", "brand", "category"}
  /\ cmd.op = "warehouse" => DOMAIN cmd.names = {"entity", "site"}
  /\ cmd.op = "account" => cmd.party \in Optional(Ids)
  /\ cmd.op \in {"contact", "opportunity", "activity", "task"} => cmd.account \in Ids
  /\ cmd.op = "contact" => cmd.primary \in BOOLEAN
  /\ cmd.op \in {"opportunity", "stage"} => cmd.stage \in Stages /\ cmd.chance \in Chances
  /\ cmd.op = "stage" => cmd.opportunity \in Ids
  /\ cmd.op = "activity" => cmd.contact \in Optional(Ids)
  /\ cmd.op \in {"activity", "task"} => cmd.opportunity \in Optional(Ids)
  /\ cmd.op = "complete" => cmd.task \in Ids

LEMMA CommandsShaped ==
  ASSUME NEW cmd, Parsed(cmd)
  PROVE  CommandShape(cmd)
<1>1. cmd.op \in MasterOps \cup CrmOps \cup SettingsOps
  BY DEF Parsed
<1>2. /\ cmd.op = "product" => DOMAIN cmd.names = {"unit", "brand", "category"}
      /\ cmd.op = "warehouse" => DOMAIN cmd.names = {"entity", "site"}
      /\ cmd.op = "account" => cmd.party \in Optional(Ids)
  BY DEF Parsed
<1>3. cmd.op \in {"contact", "opportunity", "activity", "task"} => cmd.account \in Ids
  BY DEF Parsed
<1>4. cmd.op = "contact" => cmd.primary \in BOOLEAN
  BY DEF Parsed
<1>5. cmd.op \in {"opportunity", "stage"} => cmd.stage \in Stages /\ cmd.chance \in Chances
  <2>1. cmd.op = "opportunity" => cmd.stage \in Stages /\ cmd.chance \in Chances
    BY DEF Parsed
  <2>2. cmd.op = "stage" => cmd.stage \in Stages /\ cmd.chance \in Chances
    BY DEF Parsed
  <2> QED
    BY <2>1, <2>2, Zenon
<1>6. cmd.op = "stage" => cmd.opportunity \in Ids
  BY DEF Parsed
<1>7. cmd.op = "activity" => cmd.contact \in Optional(Ids)
  BY DEF Parsed
<1>8. cmd.op \in {"activity", "task"} => cmd.opportunity \in Optional(Ids)
  BY DEF Parsed
<1>9. cmd.op = "complete" => cmd.task \in Ids
  BY DEF Parsed
<1> QED
  BY <1>1, <1>2, <1>3, <1>4, <1>5, <1>6, <1>7, <1>8, <1>9 DEF CommandShape

HandlersTyped ==
  /\ DOMAIN pc = Calls /\ DOMAIN command = Calls /\ DOMAIN answer = Calls
  /\ seen \in [Calls -> [found : Seq(Ids), version : Nat]]
  /\ \A c \in Calls : pc[c] # "idle" => Parsed(command[c])

TablesTyped ==
  /\ DOMAIN contacts \subseteq Ids /\ DOMAIN opportunities \subseteq Ids
  /\ \A i \in DOMAIN contacts :
       contacts[i] \in [account : Ids, primary : BOOLEAN, version : Nat]
  /\ \A o \in DOMAIN opportunities :
       opportunities[o] \in [account : Ids, worth : Worths, version : Nat]
  /\ \A t \in DOMAIN tasks :
       tasks[t] \in [account : Ids, opportunity : Optional(Ids),
                     status : {"open", "completed"}, version : Nat]
  /\ \A t \in NameTables : DOMAIN names[t] \subseteq Ids
  /\ settings.version \in Nat

NamesUnique ==
  \A t \in NameTables : \A i, j \in DOMAIN names[t] :
    names[t][i].code = names[t][j].code => i = j

\* A handler has made nothing until its end, and a product or warehouse was
\* made by a command for one.
MadeOK ==
  /\ \A c \in Calls : Made(c) => pc[c] = "done"
  /\ \A p \in DOMAIN products \cap Calls :
       command[p].op = "product" /\ DOMAIN products[p].named = 1 .. 3
  /\ \A w \in DOMAIN warehouses \cap Calls : command[w].op = "warehouse"

\* A handler is where its operation takes it.
PlaceOK(c) ==
  LET op == command[c].op
  IN
  /\ pc[c] = "code"        => op \in MasterOps \cup {"account"}
  /\ pc[c] = "resolve"     => op \in {"product", "warehouse"}
  /\ pc[c] = "party"       => op = "account"
  /\ pc[c] = "account"     => op \in {"contact", "opportunity", "activity", "task"}
  /\ pc[c] = "contact"     => op = "activity"
  /\ pc[c] = "opportunity" => op \in {"stage", "activity", "task"}
  /\ pc[c] = "task"        => op = "complete"

\* The codes looked up so far are the call's own to insert, or the one row
\* there is.
LookedUp(c) ==
  \A n \in DOMAIN seen[c].found :
    \/ seen[c].found[n] = c
    \/ NamedIds(Lookups(command[c].op)[n], CodeFor(c, n)) = {seen[c].found[n]}

FoundOK(c) ==
  /\ pc[c] \in {"idle", "replay", "code", "account"} => seen[c].found = <<>>
  /\ (pc[c] \in {"resolve", "batch"} /\ command[c].op \in {"product", "warehouse"}) =>
       /\ LookedUp(c)
       /\ IF pc[c] = "batch" THEN Len(seen[c].found) = Len(Lookups(command[c].op))
                             ELSE Len(seen[c].found) < Len(Lookups(command[c].op))

\* What a handler has checked and nothing takes back.
CheckedOK(c) ==
  LET cmd == command[c]
  IN
  /\ (cmd.op = "account" /\ pc[c] = "batch") => cmd.party \in Optional(DOMAIN parties)
  /\ (cmd.op \in {"activity", "task"} /\ pc[c] \in {"contact", "opportunity", "batch"}) =>
       cmd.account \in DOMAIN accounts
  /\ (cmd.op = "activity" /\ pc[c] \in {"opportunity", "batch"} /\ cmd.contact # None) =>
       BelongsTo(contacts, cmd.contact, cmd.account)
  /\ (cmd.op \in {"activity", "task"} /\ pc[c] = "batch" /\ cmd.opportunity # None) =>
       BelongsTo(opportunities, cmd.opportunity, cmd.account)
  /\ (cmd.op = "stage" /\ pc[c] = "batch") =>
       /\ cmd.opportunity \in DOMAIN opportunities
       /\ seen[c].version <= opportunities[cmd.opportunity].version
  /\ (cmd.op = "complete" /\ pc[c] = "batch") =>
       /\ cmd.task \in DOMAIN tasks
       /\ tasks[cmd.task].version =
            IF tasks[cmd.task].status = "open" THEN seen[c].version ELSE seen[c].version + 1
  /\ (cmd.op = "update-settings" /\ pc[c] = "batch") => seen[c].version <= settings.version

HandlerOK(c) == PlaceOK(c) /\ FoundOK(c) /\ CheckedOK(c)

RecordsInv ==
  /\ TypeInv /\ HandlersTyped /\ TablesTyped /\ NamesUnique /\ MadeOK
  /\ \A c \in Calls : HandlerOK(c)

----------------------------------------------------------------------------
(* Rows stay.                                                              *)

NamesKept ==
  /\ DOMAIN names' = NameTables
  /\ \A t \in NameTables :
       /\ \A i \in DOMAIN names[t] : i \in DOMAIN names'[t] /\ names'[t][i] = names[t][i]
       /\ \A code : NamedIds(t, code) # {} => NamedIds(t, code)' = NamedIds(t, code)

MasterKept ==
  /\ \A p \in DOMAIN parties : p \in DOMAIN parties' /\ parties'[p] = parties[p]
  /\ \A p \in DOMAIN products : p \in DOMAIN products' /\ products'[p] = products[p]
  /\ \A w \in DOMAIN warehouses : w \in DOMAIN warehouses' /\ warehouses'[w] = warehouses[w]

CrmKept ==
  /\ \A a \in DOMAIN accounts : a \in DOMAIN accounts' /\ accounts'[a] = accounts[a]
  /\ \A x \in DOMAIN activities : x \in DOMAIN activities' /\ activities'[x] = activities[x]
  /\ \A i \in DOMAIN contacts :
       i \in DOMAIN contacts' /\ contacts'[i].account = contacts[i].account
  /\ \A o \in DOMAIN opportunities :
       /\ o \in DOMAIN opportunities' /\ opportunities'[o].account = opportunities[o].account
       /\ opportunities'[o].version >= opportunities[o].version
  /\ \A t \in DOMAIN tasks :
       /\ t \in DOMAIN tasks'
       /\ \/ tasks'[t] = tasks[t]
          \/ /\ tasks[t].status = "open"
             /\ tasks'[t] = [tasks[t] EXCEPT !.status = "completed", !.version = @ + 1]

Kept == NamesKept /\ MasterKept /\ CrmKept /\ settings'.version >= settings.version

\* A handler that does not move keeps what it relies on.
LEMMA OthersRely ==
  ASSUME RecordsInv, TablesTyped', Kept, NEW d \in Calls, pc'[d] = pc[d], command'[d] = command[d],
         seen'[d] = seen[d]
  PROVE  HandlerOK(d)'
<1>0. TablesTyped /\ seen[d].version \in Nat /\ HandlerOK(d) /\ HandlersTyped
  BY DEF RecordsInv, HandlersTyped
<1>1. PlaceOK(d)'
  BY <1>0 DEF HandlerOK, PlaceOK
<1>2. FoundOK(d)'
  <2>1. CASE pc[d] \in {"resolve", "batch"} /\ command[d].op \in {"product", "warehouse"}
    <3>1. ASSUME NEW n \in DOMAIN seen[d].found
          PROVE  \/ seen[d].found[n] = d
                 \/ NamedIds(Lookups(command[d].op)[n], CodeFor(d, n))' = {seen[d].found[n]}
      <4>1. PICK t, code : t = Lookups(command[d].op)[n] /\ code = CodeFor(d, n)
        OBVIOUS
      <4>2. Lookups(command[d].op)[n]' = t /\ CodeFor(d, n)' = code
        BY <4>1 DEF CodeFor, Lookups
      <4>3. t \in NameTables
        BY <2>1, <4>1, <1>0 DEF Lookups, NameTables, HandlerOK, FoundOK
      <4>4. NamedIds(t, code) # {} => NamedIds(t, code)' = NamedIds(t, code)
        BY <4>3 DEF Kept, NamesKept
      <4> QED
        BY <1>0, <2>1, <4>1, <4>2, <4>4 DEF HandlerOK, FoundOK, LookedUp
    <3> QED
      BY <1>0, <2>1, <3>1 DEF HandlerOK, FoundOK, LookedUp, Lookups
  <2>2. CASE ~(pc[d] \in {"resolve", "batch"} /\ command[d].op \in {"product", "warehouse"})
    BY <1>0, <2>2 DEF HandlerOK, FoundOK
  <2> QED
    BY <2>1, <2>2
<1>3. CheckedOK(d)'
  <2> DEFINE cmd == command[d]
  <2>1. (cmd.op = "account" /\ pc[d] = "batch") => cmd.party \in Optional(DOMAIN parties')
    BY <1>0 DEF HandlerOK, CheckedOK, Kept, MasterKept, Optional
  <2>2. (cmd.op \in {"activity", "task"} /\ pc[d] \in {"contact", "opportunity", "batch"}) =>
          cmd.account \in DOMAIN accounts'
    BY <1>0 DEF HandlerOK, CheckedOK, Kept, CrmKept
  <2>3. (cmd.op = "activity" /\ pc[d] \in {"opportunity", "batch"} /\ cmd.contact # None) =>
          cmd.contact \in DOMAIN contacts' /\ contacts'[cmd.contact].account = cmd.account
    BY <1>0 DEF HandlerOK, CheckedOK, Kept, CrmKept, BelongsTo
  <2>4. (cmd.op \in {"activity", "task"} /\ pc[d] = "batch" /\ cmd.opportunity # None) =>
          /\ cmd.opportunity \in DOMAIN opportunities'
          /\ opportunities'[cmd.opportunity].account = cmd.account
    BY <1>0 DEF HandlerOK, CheckedOK, Kept, CrmKept, BelongsTo
  <2>5. (cmd.op = "stage" /\ pc[d] = "batch") =>
          /\ cmd.opportunity \in DOMAIN opportunities'
          /\ seen[d].version <= opportunities'[cmd.opportunity].version
    <3> SUFFICES ASSUME cmd.op = "stage" /\ pc[d] = "batch"
                 PROVE  /\ cmd.opportunity \in DOMAIN opportunities'
                        /\ seen[d].version <= opportunities'[cmd.opportunity].version
      OBVIOUS
    <3>1. PICK o : o = cmd.opportunity
      OBVIOUS
    <3>2. o \in DOMAIN opportunities /\ seen[d].version <= opportunities[o].version
      BY <1>0, <3>1 DEF HandlerOK, CheckedOK
    <3>3. o \in DOMAIN opportunities' /\ opportunities'[o].version >= opportunities[o].version
      BY <3>2 DEF Kept, CrmKept
    <3>4. opportunities[o].version \in Nat /\ opportunities'[o].version \in Nat
      BY <1>0, <3>2, <3>3 DEF TablesTyped
    <3> QED
      BY <1>0, <3>1, <3>2, <3>3, <3>4
  <2>6. (cmd.op = "complete" /\ pc[d] = "batch") =>
          /\ cmd.task \in DOMAIN tasks'
          /\ tasks'[cmd.task].version =
               IF tasks'[cmd.task].status = "open" THEN seen[d].version ELSE seen[d].version + 1
    <3> SUFFICES ASSUME cmd.op = "complete" /\ pc[d] = "batch", NEW t, t = cmd.task
                 PROVE  /\ t \in DOMAIN tasks'
                        /\ tasks'[t].version = IF tasks'[t].status = "open"
                                               THEN seen[d].version ELSE seen[d].version + 1
      OBVIOUS
    <3>1. /\ t \in DOMAIN tasks
          /\ tasks[t].version = IF tasks[t].status = "open"
                                THEN seen[d].version ELSE seen[d].version + 1
      BY <1>0 DEF HandlerOK, CheckedOK
    <3>2. tasks[t] \in [account : Ids, opportunity : Optional(Ids),
                       status : {"open", "completed"}, version : Nat]
      BY <1>0, <3>1 DEF TablesTyped
    <3>3. CASE tasks'[t] = tasks[t]
      BY <3>1, <3>3 DEF Kept, CrmKept
    <3>4. CASE /\ tasks[t].status = "open"
               /\ tasks'[t] = [tasks[t] EXCEPT !.status = "completed", !.version = @ + 1]
      <4>1. tasks'[t].status = "completed" /\ tasks'[t].version = tasks[t].version + 1
        BY <3>2, <3>4
      <4> QED
        BY <3>1, <3>4, <4>1 DEF Kept, CrmKept
    <3> QED
      BY <3>1, <3>3, <3>4 DEF Kept, CrmKept
  <2>7. (cmd.op = "update-settings" /\ pc[d] = "batch") => seen[d].version <= settings'.version
    <3>1. CASE cmd.op = "update-settings" /\ pc[d] = "batch"
      <4>1. seen[d].version <= settings.version
        BY <1>0, <3>1 DEF HandlerOK, CheckedOK
      <4>2. settings'.version >= settings.version
        BY DEF Kept
      <4> QED
        BY <1>0, <4>1, <4>2 DEF TablesTyped
    <3> QED
      BY <3>1
  <2> QED
    BY <2>1, <2>2, <2>3, <2>4, <2>5, <2>6, <2>7 DEF CheckedOK, BelongsTo
<1> QED
  BY <1>1, <1>2, <1>3 DEF HandlerOK

----------------------------------------------------------------------------
(* Steps that write no record.                                             *)

Still == UNCHANGED <<masterTables, crmTables>>

LEMMA StillKept ==
  ASSUME RecordsInv, Still, UNCHANGED settings
  PROVE  Kept /\ TablesTyped'
<1>1. UNCHANGED <<parties, names, products, warehouses, accounts, contacts, opportunities,
                  tasks, activities>>
  BY DEF Still, masterTables, crmTables
<1>2. TablesTyped'
  BY <1>1 DEF RecordsInv, TablesTyped
<1>3. NamesKept
  <2>1. \A t, code : NamedIds(t, code)' = NamedIds(t, code)
    BY <1>1 DEF NamedIds
  <2> QED
    BY <1>1, <2>1 DEF NamesKept, RecordsInv, TypeInv, TypeOK
<1>4. MasterKept
  BY <1>1 DEF MasterKept
<1>5. CrmKept
  BY <1>1 DEF CrmKept, RecordsInv, TablesTyped
<1>6. settings'.version >= settings.version
  BY DEF RecordsInv, TablesTyped
<1> QED
  BY <1>2, <1>3, <1>4, <1>5, <1>6 DEF Kept

\* The handlers but one stay where they are.
Alone(c) ==
  \A d \in Calls \ {c} : pc'[d] = pc[d] /\ command'[d] = command[d] /\ seen'[d] = seen[d]

AnswersTyped(c) ==
  /\ DOMAIN answer' = Calls
  /\ \A d \in Calls \ {c} : answer'[d] = answer[d]
  /\ answer'[c].kind \in Refusals \cup {None, "ok", "replayed"}

\* The references of a state in which no row is new are those of the one before.
LEMMA StillRefers ==
  ASSUME RecordsInv, Still, \A d \in Calls : Made(d) => command'[d] = command[d]
  PROVE  ReferencesOK'
<1>1. UNCHANGED <<parties, names, products, warehouses, accounts, contacts, opportunities,
                  tasks, activities>>
  BY DEF Still, masterTables, crmTables
<1>2. \A p \in DOMAIN products \cap Calls : command'[p] = command[p]
  BY DEF Made
<1>3. \A w \in DOMAIN warehouses \cap Calls : command'[w] = command[w]
  BY DEF Made
<1>4. \A p \in (DOMAIN products \cap Calls)' : NamesOK(p, products[p].named)'
  <2> SUFFICES ASSUME NEW p \in DOMAIN products \cap Calls
               PROVE  NamesOK(p, products[p].named)'
    BY <1>1
  <2>1. NamesOK(p, products[p].named)
    BY DEF RecordsInv, TypeInv, ReferencesOK
  <2>2. command'[p] = command[p] /\ UNCHANGED <<products, names>>
    BY <1>1, <1>2
  <2>3. /\ \A n : CodeFor(p, n)' = CodeFor(p, n)
        /\ \A t, code : NamedIds(t, code)' = NamedIds(t, code)
    BY <2>2 DEF CodeFor, NamedIds
  <2> QED
    BY <2>1, <2>2, <2>3 DEF NamesOK
<1>5. \A w \in (DOMAIN warehouses \cap Calls)' :
        (NamedIds("site", command[w].names["site"]) = {warehouses[w].site})'
  BY <1>1, <1>3 DEF RecordsInv, TypeInv, ReferencesOK, NamedIds
<1> QED
  BY <1>1, <1>4, <1>5 DEF RecordsInv, TypeInv, ReferencesOK, BelongsTo

LEMMA ReadingKeeps ==
  ASSUME RecordsInv, NEW c \in Calls, Quietly(c), Still, Kept, TablesTyped',
         settings' = NoSettings \/ settings'.version \in Nat \ {0},
         NEW s \in [found : Seq(Ids), version : Nat], seen' = [seen EXCEPT ![c] = s],
         AnswersTyped(c), HandlerOK(c)'
  PROVE  RecordsInv'
<1>1. PICK step : pc' = [pc EXCEPT ![c] = step]
  BY DEF Quietly, Moves
<1>2. UNCHANGED <<idempotency, command>> /\ pc[c] \notin {"idle", "done"}
  BY DEF Quietly, Moves
<1>3. UNCHANGED <<parties, names, products, warehouses, accounts, contacts, opportunities,
                  tasks, activities>>
  BY DEF Still, masterTables, crmTables
<1>4. HandlersTyped'
  <2>1. HandlersTyped
    BY DEF RecordsInv
  <2>2. DOMAIN pc' = Calls /\ DOMAIN command' = Calls /\ DOMAIN answer' = Calls
    BY <1>1, <1>2, <2>1 DEF HandlersTyped, AnswersTyped
  <2>3. seen' \in [Calls -> [found : Seq(Ids), version : Nat]]
    BY <2>1 DEF HandlersTyped
  <2>4. \A d \in Calls : pc'[d] # "idle" => Parsed(command'[d])
    BY <1>1, <1>2, <2>1 DEF HandlersTyped
  <2> QED
    BY <2>2, <2>3, <2>4 DEF HandlersTyped
<1>5. Alone(c)
  BY <1>1, <1>2 DEF Alone, RecordsInv, HandlersTyped
<1>6. \A d \in Calls : HandlerOK(d)'
  BY <1>5, OthersRely DEF Alone
<1>7. \A d : Made(d)' <=> Made(d)
  BY <1>3 DEF Made
<1>8. MadeOK'
  BY <1>1, <1>2, <1>3, <1>7 DEF MadeOK, RecordsInv, HandlersTyped
<1>9. NamesUnique'
  BY <1>3 DEF NamesUnique, RecordsInv
<1>10. ReferencesOK'
  BY <1>2, StillRefers
<1>11. TypeOK'
  <2>1. TypeOK
    BY DEF TypeInv, RecordsInv
  <2>2. /\ DOMAIN names' = NameTables
        /\ \A a \in DOMAIN accounts' : accounts'[a].party \in DOMAIN parties' \cup {None}
        /\ \A o \in DOMAIN opportunities' :
             opportunities'[o].worth \in Worths
        /\ \A t \in DOMAIN tasks' : tasks'[t].status \in {"open", "completed"}
        /\ \A row \in idempotency' : row.by \in Calls /\ row.live \in BOOLEAN
    BY <1>2, <1>3, <2>1 DEF TypeOK
  <2>3. \A d \in Calls : answer'[d].kind \in Refusals \cup {None, "ok", "replayed"}
    BY <2>1 DEF TypeOK, AnswersTyped
  <2> QED
    BY <2>2, <2>3 DEF TypeOK
<1> QED
  BY <1>4, <1>6, <1>8, <1>9, <1>10, <1>11 DEF RecordsInv, TypeInv

Kinds == Refusals \cup {None, "ok", "replayed"}

LEMMA EndOK ==
  ASSUME NEW c, pc'[c] \in {"done", "show", "show-replayed", "settings", "initialize"}
  PROVE  HandlerOK(c)'
BY DEF HandlerOK, PlaceOK, FoundOK, CheckedOK

LEMMA RespondKeeps ==
  ASSUME RecordsInv, NEW c \in Calls, Quietly(c), Still, UNCHANGED <<settings, seen>>,
         NEW kind \in Kinds, NEW by, NEW told, Respond(c, kind, by, told)
  PROVE  RecordsInv'
<1>0. HandlersTyped /\ TypeOK
  BY DEF RecordsInv, TypeInv
<1>1. Kept /\ TablesTyped'
  BY StillKept
<1>2. settings' = NoSettings \/ settings'.version \in Nat \ {0}
  BY <1>0 DEF TypeOK
<1>3. seen[c] \in [found : Seq(Ids), version : Nat] /\ seen' = [seen EXCEPT ![c] = seen[c]]
  BY <1>0 DEF HandlersTyped
<1>4. AnswersTyped(c)
  BY <1>0 DEF HandlersTyped, AnswersTyped, Respond, Kinds
<1>5. HandlerOK(c)'
  <2>1. pc'[c] = "done"
    BY <1>0 DEF HandlersTyped, Respond
  <2> QED
    BY <2>1, EndOK
<1> QED
  BY <1>1, <1>2, <1>3, <1>4, <1>5, ReadingKeeps

LEMMA GotoKeeps ==
  ASSUME RecordsInv, NEW c \in Calls, Quietly(c), Still, UNCHANGED <<settings, seen>>,
         NEW step, Goto(c, step), HandlerOK(c)'
  PROVE  RecordsInv'
<1>0. HandlersTyped /\ TypeOK
  BY DEF RecordsInv, TypeInv
<1>1. Kept /\ TablesTyped'
  BY StillKept
<1>2. settings' = NoSettings \/ settings'.version \in Nat \ {0}
  BY <1>0 DEF TypeOK
<1>3. seen[c] \in [found : Seq(Ids), version : Nat] /\ seen' = [seen EXCEPT ![c] = seen[c]]
  BY <1>0 DEF HandlersTyped
<1>4. AnswersTyped(c)
  BY <1>0 DEF HandlersTyped, AnswersTyped, Goto, TypeOK
<1> QED
  BY <1>1, <1>2, <1>3, <1>4, ReadingKeeps

LEMMA ReplayKeeps ==
  ASSUME RecordsInv, NEW c \in Calls, Still, UNCHANGED settings,
         NEW step, ReadReplay(c, step), Goto(c, step) => HandlerOK(c)'
  PROVE  RecordsInv'
<1>1. Quietly(c) /\ UNCHANGED seen
  BY ReplayQuietly DEF ReadReplay, Reads
<1>2. \/ Goto(c, step)
      \/ \E row : Respond(c, "replayed", row.by, row.told)
      \/ Respond(c, "key-conflict", None, Nothing)
  BY DEF ReadReplay, Refuse
<1> QED
  BY <1>1, <1>2, GotoKeeps, RespondKeeps DEF Kinds, Refusals

LEMMA AbortKeeps ==
  ASSUME RecordsInv, NEW c \in Calls, Still, UNCHANGED settings,
         AbortUncaught(c) \/ AbortCaught(c)
  PROVE  RecordsInv'
<1>1. Quietly(c) /\ UNCHANGED seen
  BY AbortsQuietly DEF AbortUncaught, AbortCaught, Reads
<1>2. \/ \E row : Respond(c, "replayed", row.by, row.told)
      \/ \E kind \in {"key-conflict", "server-error"} : Respond(c, kind, None, Nothing)
  BY DEF AbortUncaught, AbortCaught, Refuse
<1> QED
  BY <1>1, <1>2, RespondKeeps DEF Kinds, Refusals

LEMMA QueryCodeKeeps ==
  ASSUME RecordsInv, NEW c \in Calls, Still, UNCHANGED settings, QueryCode(c),
         command[c].op \in MasterOps
  PROVE  RecordsInv'
<1>1. Reads(c, "code")
  BY DEF QueryCode
<1>2. CASE Refuse(c, "already-exists")
  <2>1. Quietly(c)
    BY <1>1, <1>2, ReadsQuietly DEF Refuse
  <2> QED
    BY <1>1, <1>2, <2>1, RespondKeeps DEF Refuse, Kinds, Refusals, Reads
<1>3. CASE Goto(c, IF command[c].op = "party" THEN "batch" ELSE "resolve")
  <2> DEFINE step == IF command[c].op = "party" THEN "batch" ELSE "resolve"
  <2>1. Quietly(c)
    BY <1>1, <1>3, ReadsQuietly
  <2>2. /\ pc'[c] = step /\ command'[c] = command[c] /\ seen'[c] = seen[c]
        /\ seen[c].found = <<>>
    BY <1>1, <1>3 DEF Reads, Goto, RecordsInv, HandlersTyped, HandlerOK, FoundOK
  <2>3. PlaceOK(c)'
    BY <2>2 DEF PlaceOK, MasterOps
  <2>4. FoundOK(c)'
    BY <2>2 DEF FoundOK, LookedUp, Lookups, MasterOps
  <2>5. CheckedOK(c)'
    BY <2>2 DEF CheckedOK, MasterOps
  <2> QED
    BY <1>1, <1>3, <2>1, <2>3, <2>4, <2>5, GotoKeeps DEF Reads, HandlerOK
<1> QED
  BY <1>2, <1>3 DEF QueryCode

LEMMA ResolveKeeps ==
  ASSUME RecordsInv, NEW c \in Calls, Still, UNCHANGED settings, Resolve(c),
         command[c].op \in MasterOps
  PROVE  RecordsInv'
<1> DEFINE n == Len(seen[c].found) + 1
           t == Lookups(command[c].op)[n]
           ids == NamedIds(t, CodeFor(c, n))
           step == IF n = Len(Lookups(command[c].op)) THEN "batch" ELSE "resolve"
<1>0. HandlersTyped /\ TypeOK /\ TablesTyped /\ HandlerOK(c) /\ NamesUnique
  BY DEF RecordsInv, TypeInv
<1>1. PICK id \in (IF ids = {} THEN {c} ELSE ids) :
        seen' = [seen EXCEPT ![c].found = Append(@, id)]
  BY DEF Resolve
<1>2. pc[c] = "resolve" /\ Goto(c, step) /\ UNCHANGED <<idempotency, outbox, command>>
  BY DEF Resolve
<1>3. command[c].op \in {"product", "warehouse"}
  BY <1>0, <1>2 DEF HandlerOK, PlaceOK
<1>4. LookedUp(c) /\ Len(seen[c].found) < Len(Lookups(command[c].op))
  BY <1>0, <1>2, <1>3 DEF HandlerOK, FoundOK
<1>5. seen[c].found \in Seq(Ids) /\ seen[c].version \in Nat /\ Len(seen[c].found) \in Nat
  BY <1>0 DEF HandlersTyped
<1>6. t \in NameTables
  BY <1>3, <1>4, <1>5 DEF Lookups, NameTables
<1>7. id \in Ids /\ (id = c \/ ids = {id})
  <2>1. CASE ids = {}
    BY <1>1, <2>1 DEF Ids
  <2>2. CASE ids # {}
    <3>1. id \in DOMAIN names[t] /\ id \in ids
      BY <1>1, <2>2 DEF NamedIds
    <3>2. \A i \in ids : i = id
      BY <1>0, <1>6, <3>1 DEF NamedIds, NamesUnique
    <3> QED
      BY <1>0, <1>6, <3>1, <3>2 DEF TablesTyped
  <2> QED
    BY <2>1, <2>2
<1> DEFINE found == Append(seen[c].found, id)
           s == [found |-> found, version |-> seen[c].version]
<1>8. s \in [found : Seq(Ids), version : Nat] /\ seen' = [seen EXCEPT ![c] = s]
  <2>1. found \in Seq(Ids)
    BY <1>5, <1>7
  <2>2. seen' = [seen EXCEPT ![c].found = found]
    BY <1>1
  <2> HIDE DEF found
  <2>3. PICK old \in [found : Seq(Ids), version : Nat] : old = seen[c]
    BY <1>0 DEF HandlersTyped
  <2>4. s = [old EXCEPT !.found = found] /\ s \in [found : Seq(Ids), version : Nat]
    BY <2>1, <2>3
  <2> HIDE DEF s
  <2>5. seen' = [seen EXCEPT ![c] = [seen[c] EXCEPT !.found = found]]
    BY <2>2, Zenon
  <2> QED
    BY <2>3, <2>4, <2>5, Zenon
<1>9. /\ Len(s.found) = n /\ s.found[n] = id
      /\ \A m \in 1 .. Len(seen[c].found) : s.found[m] = seen[c].found[m]
      /\ DOMAIN s.found = 1 .. n /\ DOMAIN seen[c].found = 1 .. Len(seen[c].found)
  BY <1>5, <1>7
<1>10. pc'[c] = step /\ command'[c] = command[c] /\ seen'[c] = s
  <2> HIDE DEF s
  <2> QED
    BY <1>0, <1>2, <1>8 DEF HandlersTyped, Goto
<1>11. UNCHANGED names
  BY DEF Still, masterTables
<1>12. ASSUME NEW m \in DOMAIN s.found
       PROVE  \/ s.found[m] = c
              \/ NamedIds(Lookups(command[c].op)[m], CodeFor(c, m)) = {s.found[m]}
  <2>1. CASE m = n
    BY <1>7, <1>9, <2>1
  <2>2. CASE m # n
    <3>1. m \in 1 .. Len(seen[c].found)
      BY <1>5, <1>9, <2>2
    <3> HIDE DEF s
    <3> QED
      BY <1>4, <1>9, <3>1 DEF LookedUp
  <2> QED
    BY <2>1, <2>2
<1>13. Quietly(c)
  BY <1>2 DEF Quietly, Moves, Goto
<1> HIDE DEF s, step
<1>14. LookedUp(c)'
  <2>1. \A m : NamedIds(Lookups(command[c].op)[m], CodeFor(c, m))'
               = NamedIds(Lookups(command[c].op)[m], CodeFor(c, m))
    BY <1>10, <1>11 DEF NamedIds, CodeFor, Lookups
  <2> QED
    BY <1>10, <1>12, <2>1 DEF LookedUp
<1>15. FoundOK(c)'
  BY <1>3, <1>4, <1>5, <1>9, <1>10, <1>14 DEF FoundOK, step, Lookups
<1>16. PlaceOK(c)' /\ CheckedOK(c)'
  BY <1>3, <1>10 DEF PlaceOK, CheckedOK, step
<1>17. AnswersTyped(c)
  BY <1>0, <1>2 DEF AnswersTyped, HandlersTyped, TypeOK, Goto
<1>18. Kept /\ TablesTyped'
  BY StillKept
<1> QED
  BY <1>0, <1>8, <1>13, <1>15, <1>16, <1>17, <1>18, ReadingKeeps DEF HandlerOK, TypeOK

LEMMA MasterReads ==
  ASSUME RecordsInv, NEW c \in Calls, Still, UNCHANGED settings, MasterQuery(c),
         command[c].op \in MasterOps
  PROVE  RecordsInv'
<1>1. CASE MasterReplay(c)
  <2>1. ASSUME Goto(c, "code")
        PROVE  HandlerOK(c)'
    <3>1. /\ pc'[c] = "code" /\ command'[c] = command[c] /\ seen'[c] = seen[c]
          /\ seen[c].found = <<>>
      BY <1>1, <2>1 DEF MasterReplay, ReadReplay, Reads, Goto, RecordsInv, HandlersTyped,
                        HandlerOK, FoundOK
    <3> QED
      BY <3>1 DEF HandlerOK, PlaceOK, FoundOK, CheckedOK, MasterOps
  <2> QED
    BY <1>1, <2>1, ReplayKeeps DEF MasterReplay
<1>2. CASE QueryCode(c)
  BY <1>2, QueryCodeKeeps
<1>3. CASE Resolve(c)
  BY <1>3, ResolveKeeps
<1>4. CASE MasterAbort(c)
  BY <1>4, AbortKeeps DEF MasterAbort
<1> QED
  BY <1>1, <1>2, <1>3, <1>4 DEF MasterQuery

\* A handler of customer records that read something and goes on.
LEMMA CrmGoes ==
  ASSUME RecordsInv, NEW c \in Calls, Still, UNCHANGED settings, NEW here, Reads(c, here),
         here \notin {"idle", "done", "show"}, NEW step, Goto(c, step),
         command[c].op \in CrmOps, step \notin {"idle", "replay", "code", "account"}, PlaceOK(c)', CheckedOK(c)'
  PROVE  RecordsInv'
<1>1. Quietly(c)
  BY ReadsQuietly
<1>2. UNCHANGED <<settings, seen>> /\ command'[c] = command[c] /\ pc'[c] = step
  BY DEF Reads, Goto, RecordsInv, HandlersTyped
<1>3. FoundOK(c)'
  BY <1>2 DEF FoundOK, CrmOps
<1> QED
  BY <1>1, <1>2, <1>3, GotoKeeps DEF HandlerOK

LEMMA RefuseKeeps ==
  ASSUME RecordsInv, NEW c \in Calls, Still, UNCHANGED settings, NEW here, Reads(c, here),
         here \notin {"idle", "done", "show"}, NEW kind \in Refusals, Refuse(c, kind)
  PROVE  RecordsInv'
<1>1. Quietly(c)
  BY ReadsQuietly DEF Refuse
<1> QED
  BY <1>1, RespondKeeps DEF Refuse, Kinds, Reads

LEMMA CrmReplayKeeps ==
  ASSUME RecordsInv, NEW c \in Calls, Still, UNCHANGED settings,
         ReadReplay(c, AfterReplay(command[c].op)), command[c].op \in CrmOps
  PROVE  RecordsInv'
<1> DEFINE step == AfterReplay(command[c].op)
<1>1. ASSUME Goto(c, step)
      PROVE  HandlerOK(c)'
  <2>1. /\ pc'[c] = step /\ command'[c] = command[c] /\ seen'[c] = seen[c]
        /\ seen[c].found = <<>>
    BY <1>1 DEF ReadReplay, Reads, Goto, RecordsInv, HandlersTyped, HandlerOK, FoundOK
  <2>2. PlaceOK(c)'
    BY <2>1 DEF PlaceOK, CrmOps, AfterReplay
  <2>3. FoundOK(c)'
    BY <2>1 DEF FoundOK, CrmOps
  <2>4. CheckedOK(c)'
    BY <2>1 DEF CheckedOK, CrmOps, AfterReplay
  <2> QED
    BY <2>2, <2>3, <2>4 DEF HandlerOK
<1> HIDE DEF step
<1> QED
  BY <1>1, ReplayKeeps DEF step

LEMMA AccountCodeKeeps ==
  ASSUME RecordsInv, NEW c \in Calls, Still, UNCHANGED settings, QueryAccountCode(c)
  PROVE  RecordsInv'
<1>1. command[c].op = "account" /\ Reads(c, "code")
  BY DEF QueryAccountCode
<1>2. CASE Refuse(c, "already-exists")
  BY <1>1, <1>2, RefuseKeeps DEF Refusals
<1>3. CASE Goto(c, IF command[c].party = None THEN "batch" ELSE "party")
  <2>1. PICK step \in {"batch", "party"} :
          Goto(c, step) /\ (step = "batch" => command[c].party = None)
    BY <1>3
  <2>2. pc'[c] = step /\ command'[c] = command[c]
    BY <1>1, <2>1 DEF Reads, Goto, RecordsInv, HandlersTyped
  <2>3. PlaceOK(c)' /\ CheckedOK(c)'
    BY <1>1, <2>1, <2>2 DEF PlaceOK, CheckedOK, Optional
  <2> QED
    BY <1>1, <2>1, <2>3, CrmGoes DEF CrmOps
<1> QED
  BY <1>2, <1>3 DEF QueryAccountCode

LEMMA PartyKeeps ==
  ASSUME RecordsInv, NEW c \in Calls, Still, UNCHANGED settings, QueryParty(c)
  PROVE  RecordsInv'
<1>1. Reads(c, "party")
  BY DEF QueryParty
<1>2. command[c].op = "account"
  BY <1>1 DEF RecordsInv, HandlerOK, PlaceOK, Reads
<1>3. CASE Refuse(c, "not-found")
  BY <1>1, <1>3, RefuseKeeps DEF Refusals
<1>4. CASE command[c].party \in DOMAIN parties /\ Goto(c, "batch")
  <2>1. pc'[c] = "batch" /\ command'[c] = command[c] /\ parties' = parties
    BY <1>1, <1>4 DEF Reads, Goto, RecordsInv, HandlersTyped, Still, masterTables
  <2>2. PlaceOK(c)' /\ CheckedOK(c)'
    BY <1>2, <1>4, <2>1 DEF PlaceOK, CheckedOK, Optional
  <2> QED
    BY <1>1, <1>2, <1>4, <2>2, CrmGoes DEF CrmOps
<1> QED
  BY <1>3, <1>4 DEF QueryParty

LEMMA AccountKeeps ==
  ASSUME RecordsInv, NEW c \in Calls, Still, UNCHANGED settings, RequireAccount(c)
  PROVE  RecordsInv'
<1>1. Reads(c, "account")
  BY DEF RequireAccount
<1>2. command[c].op \in {"contact", "opportunity", "activity", "task"}
  BY <1>1 DEF RecordsInv, HandlerOK, PlaceOK, Reads
<1>3. CASE Refuse(c, "not-found")
  BY <1>1, <1>3, RefuseKeeps DEF Refusals
<1>4. CASE command[c].account \in DOMAIN accounts /\ Goto(c, AfterAccount(command[c].op))
  <2> DEFINE step == AfterAccount(command[c].op)
  <2>1. pc'[c] = step /\ command'[c] = command[c] /\ accounts' = accounts /\ seen'[c] = seen[c]
    BY <1>1, <1>4 DEF Reads, Goto, RecordsInv, HandlersTyped, Still, crmTables
  <2>2. PlaceOK(c)' /\ CheckedOK(c)'
    BY <1>2, <1>4, <2>1 DEF PlaceOK, CheckedOK, AfterAccount
  <2>3. CASE command[c].op # "opportunity"
    <3>1. step \in {"batch", "contact", "opportunity"}
      BY <1>2, <2>3 DEF AfterAccount
    <3> HIDE DEF step
    <3> QED
      BY <1>1, <1>2, <1>4, <2>2, <3>1, CrmGoes DEF CrmOps, step
  <2>4. CASE command[c].op = "opportunity"
    <3>1. Quietly(c) /\ UNCHANGED seen
      BY <1>1, <1>4, ReadsQuietly DEF Reads
    <3>2. FoundOK(c)'
      BY <1>1, <2>1, <2>4 DEF FoundOK, AfterAccount, RecordsInv, HandlerOK, Reads
    <3> QED
      BY <1>4, <2>2, <3>1, <3>2, GotoKeeps DEF HandlerOK
  <2> QED
    BY <2>3, <2>4
<1> QED
  BY <1>3, <1>4 DEF RequireAccount

LEMMA ContactKeeps ==
  ASSUME RecordsInv, NEW c \in Calls, Still, UNCHANGED settings, RequireContact(c)
  PROVE  RecordsInv'
<1>1. Reads(c, "contact")
  BY DEF RequireContact
<1>2. command[c].op = "activity" /\ HandlerOK(c) /\ pc[c] = "contact"
  BY <1>1 DEF RecordsInv, HandlerOK, PlaceOK, Reads
<1>3. CASE Refuse(c, "not-found")
  BY <1>1, <1>3, RefuseKeeps DEF Refusals
<1>4. CASE /\ command[c].contact = None \/ BelongsTo(contacts, command[c].contact, command[c].account)
           /\ Goto(c, "opportunity")
  <2>1. /\ pc'[c] = "opportunity" /\ command'[c] = command[c] /\ accounts' = accounts
        /\ contacts' = contacts
    BY <1>1, <1>4 DEF Reads, Goto, RecordsInv, HandlersTyped, Still, crmTables
  <2>2. PlaceOK(c)'
    BY <1>2, <2>1 DEF PlaceOK
  <2>3. CheckedOK(c)'
    BY <1>2, <1>4, <2>1 DEF CheckedOK, BelongsTo, HandlerOK
  <2> QED
    BY <1>1, <1>2, <1>4, <2>2, <2>3, CrmGoes DEF CrmOps
<1> QED
  BY <1>3, <1>4 DEF RequireContact

LEMMA OpportunityKeeps ==
  ASSUME RecordsInv, NEW c \in Calls, Still, UNCHANGED settings, RequireOpportunity(c)
  PROVE  RecordsInv'
<1>1. Reads(c, "opportunity") /\ command[c].op \in {"activity", "task"}
  BY DEF RequireOpportunity
<1>2. HandlerOK(c) /\ pc[c] = "opportunity"
  BY <1>1 DEF RecordsInv, Reads
<1>3. CASE Refuse(c, "not-found")
  BY <1>1, <1>3, RefuseKeeps DEF Refusals
<1>4. CASE /\ \/ command[c].opportunity = None
              \/ BelongsTo(opportunities, command[c].opportunity, command[c].account)
           /\ Goto(c, "batch")
  <2>1. /\ pc'[c] = "batch" /\ command'[c] = command[c] /\ accounts' = accounts
        /\ contacts' = contacts /\ opportunities' = opportunities
    BY <1>1, <1>4 DEF Reads, Goto, RecordsInv, HandlersTyped, Still, crmTables
  <2>2. PlaceOK(c)'
    BY <1>2, <2>1 DEF PlaceOK
  <2>3. CheckedOK(c)'
    BY <1>1, <1>2, <1>4, <2>1 DEF CheckedOK, BelongsTo, HandlerOK
  <2> QED
    BY <1>1, <1>2, <1>4, <2>2, <2>3, CrmGoes DEF CrmOps
<1> QED
  BY <1>3, <1>4 DEF RequireOpportunity

LEMMA Remembered ==
  ASSUME RecordsInv, NEW c \in Calls, NEW version \in Nat,
         seen' = [seen EXCEPT ![c].version = version]
  PROVE  \E s \in [found : Seq(Ids), version : Nat] :
           /\ seen' = [seen EXCEPT ![c] = s] /\ seen'[c] = s
           /\ s.version = version /\ s.found = seen[c].found
<1>1. PICK old \in [found : Seq(Ids), version : Nat] : old = seen[c] /\ DOMAIN seen = Calls
  BY DEF RecordsInv, HandlersTyped
<1> DEFINE s == [old EXCEPT !.version = version]
<1>2. s \in [found : Seq(Ids), version : Nat] /\ s.version = version /\ s.found = old.found
  BY <1>1
<1>3. seen' = [seen EXCEPT ![c] = [seen[c] EXCEPT !.version = version]]
  BY Zenon
<1>4. seen' = [seen EXCEPT ![c] = s]
  BY <1>1, <1>3, Zenon
<1> HIDE DEF s
<1> QED
  BY <1>1, <1>2, <1>4

LEMMA RememberKeeps ==
  ASSUME RecordsInv, NEW c \in Calls, Still, UNCHANGED settings, NEW version \in Nat,
         pc[c] \in {"opportunity", "task"}, Remember(c, version), command[c].op \in CrmOps,
         command[c].op = "stage" => /\ command[c].opportunity \in DOMAIN opportunities
                                    /\ opportunities[command[c].opportunity].version = version,
         command[c].op = "complete" => /\ command[c].task \in DOMAIN tasks
                                       /\ tasks[command[c].task].status = "open"
                                       /\ tasks[command[c].task].version = version,
         command[c].op \in {"stage", "complete"}
  PROVE  RecordsInv'
<1>1. PICK s \in [found : Seq(Ids), version : Nat] :
        /\ seen' = [seen EXCEPT ![c] = s] /\ seen'[c] = s
        /\ s.version = version /\ s.found = seen[c].found
  BY Remembered DEF Remember
<1>2. Quietly(c) /\ AnswersTyped(c)
  BY DEF Remember, Goto, Quietly, Moves, AnswersTyped, RecordsInv, HandlersTyped, TypeInv, TypeOK
<1>3. /\ pc'[c] = "batch" /\ command'[c] = command[c] /\ opportunities' = opportunities
      /\ tasks' = tasks
  BY DEF Remember, Goto, RecordsInv, HandlersTyped, Still, crmTables
<1>4. FoundOK(c)' /\ PlaceOK(c)'
  BY <1>3 DEF FoundOK, PlaceOK
<1>5. CheckedOK(c)'
  <2>1. CASE command[c].op = "stage"
    BY <1>1, <1>3, <2>1 DEF CheckedOK
  <2>2. CASE command[c].op = "complete"
    BY <1>1, <1>3, <2>2 DEF CheckedOK
  <2> QED
    BY <2>1, <2>2
<1>6. Kept /\ TablesTyped'
  BY StillKept
<1> QED
  BY <1>1, <1>2, <1>4, <1>5, <1>6, ReadingKeeps DEF HandlerOK, RecordsInv, TypeInv, TypeOK

LEMMA CrmReads ==
  ASSUME RecordsInv, NEW c \in Calls, Still, UNCHANGED settings, CrmQuery(c),
         command[c].op \in CrmOps
  PROVE  RecordsInv'
<1>1. CASE ReadReplay(c, AfterReplay(command[c].op))
  BY <1>1, CrmReplayKeeps
<1>2. CASE QueryAccountCode(c)
  BY <1>2, AccountCodeKeeps
<1>3. CASE QueryParty(c)
  BY <1>3, PartyKeeps
<1>4. CASE RequireAccount(c)
  BY <1>4, AccountKeeps
<1>5. CASE RequireContact(c)
  BY <1>5, ContactKeeps
<1>6. CASE RequireOpportunity(c)
  BY <1>6, OpportunityKeeps
<1>7. CASE ReadOpportunity(c)
  <2>1. CASE Reads(c, "opportunity") /\ Refuse(c, "not-found")
    BY <2>1, RefuseKeeps DEF Refusals
  <2>2. PICK o : o = command[c].opportunity
    OBVIOUS
  <2>3. CASE o \in DOMAIN opportunities /\ Remember(c, opportunities[o].version)
    <3>1. opportunities[o].version \in Nat
      BY <2>3 DEF RecordsInv, TablesTyped
    <3> QED
      BY <1>7, <2>2, <2>3, <3>1, RememberKeeps DEF ReadOpportunity
  <2> QED
    BY <1>7, <2>1, <2>2, <2>3 DEF ReadOpportunity
<1>8. CASE ReadTask(c)
  <2>1. CASE Reads(c, "task") /\ \E kind \in {"not-open", "not-found"} : Refuse(c, kind)
    BY <2>1, RefuseKeeps DEF Refusals
  <2>2. PICK t : t = command[c].task
    OBVIOUS
  <2>3. CASE t \in DOMAIN tasks /\ tasks[t].status = "open" /\ Remember(c, tasks[t].version)
    <3>1. tasks[t].version \in Nat
      BY <2>3 DEF RecordsInv, TablesTyped
    <3>2. pc[c] = "task" /\ command[c].op = "complete"
      BY <1>8 DEF ReadTask, RecordsInv, HandlerOK, PlaceOK
    <3> QED
      BY <1>8, <2>2, <2>3, <3>1, <3>2, RememberKeeps
  <2> QED
    BY <1>8, <2>1, <2>2, <2>3 DEF ReadTask
<1>9. CASE AbortUncaught(c)
  BY <1>9, AbortKeeps
<1> QED
  BY <1>1, <1>2, <1>3, <1>4, <1>5, <1>6, <1>7, <1>8, <1>9 DEF CrmQuery

\* A handler of settings that goes on to look at them, or to its end.
LEMMA SettingsGoes ==
  ASSUME RecordsInv, NEW c \in Calls, Still, UNCHANGED settings, NEW here, Reads(c, here),
         here \in {"replay", "settings", "batch"},
         NEW step \in {"show", "show-replayed", "settings", "initialize"}, Goto(c, step)
  PROVE  RecordsInv'
<1>1. Quietly(c)
  BY ReadsQuietly
<1>2. pc'[c] = step /\ UNCHANGED seen
  BY DEF Reads, Goto, RecordsInv, HandlersTyped
<1> QED
  BY <1>1, <1>2, EndOK, GotoKeeps

LEMMA ReadSettingsKeeps ==
  ASSUME RecordsInv, NEW c \in Calls, Still, ReadSettings(c), command[c].op \in SettingsOps
  PROVE  RecordsInv'
<1>1. UNCHANGED settings /\ settings.version \in Nat /\ pc[c] = "settings"
  BY DEF ReadSettings, RecordsInv, TablesTyped
<1>2. CASE command[c].op = "update-settings" /\ seen' = [seen EXCEPT ![c].version = settings.version]
           /\ Goto(c, "batch")
  <2> DEFINE version == settings.version
  <2>0. version \in Nat /\ seen' = [seen EXCEPT ![c].version = version]
    BY <1>1, <1>2
  <2> HIDE DEF version
  <2>1. PICK s \in [found : Seq(Ids), version : Nat] :
          /\ seen' = [seen EXCEPT ![c] = s] /\ seen'[c] = s
          /\ s.version = version /\ s.found = seen[c].found
    BY <2>0, Remembered
  <2>2. Quietly(c) /\ AnswersTyped(c)
    BY <1>1, <1>2 DEF ReadSettings, Goto, Quietly, Moves, AnswersTyped, RecordsInv,
                      HandlersTyped, TypeInv, TypeOK
  <2>3. pc'[c] = "batch" /\ command'[c] = command[c]
    BY <1>2 DEF ReadSettings, Goto, RecordsInv, HandlersTyped
  <2>4. FoundOK(c)' /\ PlaceOK(c)'
    BY <1>2, <2>3 DEF FoundOK, PlaceOK
  <2>5. CheckedOK(c)'
    BY <1>1, <1>2, <2>1, <2>3 DEF CheckedOK, version
  <2>6. Kept /\ TablesTyped'
    BY <1>1, StillKept
  <2> QED
    BY <1>1, <2>1, <2>2, <2>4, <2>5, <2>6, ReadingKeeps DEF HandlerOK, RecordsInv, TypeInv, TypeOK
<1>3. CASE Respond(c, "ok", None, Shown) /\ UNCHANGED seen
  <2>1. Quietly(c)
    BY <1>1, <1>3 DEF ReadSettings, Respond, Quietly, Moves
  <2> QED
    BY <1>1, <1>3, <2>1, RespondKeeps DEF Kinds
<1> QED
  BY <1>2, <1>3 DEF ReadSettings

LEMMA InitializeGrows ==
  ASSUME RecordsInv, NEW c \in Calls, Still, InitializeSettings(c)
  PROVE  /\ settings'.version \in Nat \ {0} /\ Kept /\ TablesTyped'
<1>0. TypeOK /\ TablesTyped
  BY DEF RecordsInv, TypeInv
<1>2. settings'.version \in Nat \ {0} /\ settings'.version >= settings.version
  <2>1. CASE settings = NoSettings
    BY <2>1 DEF InitializeSettings, NoSettings
  <2>2. CASE settings # NoSettings
    BY <1>0, <2>2 DEF InitializeSettings, TypeOK
  <2> QED
    BY <2>1, <2>2
<1>3. UNCHANGED <<parties, names, products, warehouses, accounts, contacts, opportunities,
                  tasks, activities>>
  BY DEF Still, masterTables, crmTables
<1>4. TablesTyped'
  BY <1>0, <1>2, <1>3 DEF TablesTyped
<1>5. Kept
  <2>1. \A t, code : NamedIds(t, code)' = NamedIds(t, code)
    BY <1>3 DEF NamedIds
  <2>2. NamesKept
    BY <1>0, <1>3, <2>1 DEF NamesKept, TypeOK
  <2>3. MasterKept
    BY <1>3 DEF MasterKept
  <2>4. CrmKept
    BY <1>0, <1>3 DEF CrmKept, TablesTyped
  <2> QED
    BY <1>2, <2>2, <2>3, <2>4 DEF Kept
<1> QED
  BY <1>2, <1>4, <1>5

LEMMA InitializeKeeps ==
  ASSUME RecordsInv, NEW c \in Calls, Still, InitializeSettings(c)
  PROVE  RecordsInv'
<1>0. HandlersTyped /\ TypeOK
  BY DEF RecordsInv, TypeInv
<1>1. Reads(c, "initialize") /\ Goto(c, "settings")
  BY DEF InitializeSettings
<1>2. settings'.version \in Nat \ {0} /\ Kept /\ TablesTyped'
  BY InitializeGrows
<1>6. Quietly(c)
  BY <1>1, ReadsQuietly
<1>7. seen[c] \in [found : Seq(Ids), version : Nat] /\ seen' = [seen EXCEPT ![c] = seen[c]]
  BY <1>0, <1>1 DEF HandlersTyped, Reads
<1>8. AnswersTyped(c)
  BY <1>0, <1>1 DEF HandlersTyped, AnswersTyped, Goto, TypeOK
<1>9. HandlerOK(c)'
  <2>1. pc'[c] = "settings"
    BY <1>0, <1>1 DEF HandlersTyped, Goto
  <2> QED
    BY <2>1, EndOK
<1> QED
  BY <1>2, <1>6, <1>7, <1>8, <1>9, ReadingKeeps

LEMMA SettingsReads ==
  ASSUME RecordsInv, NEW c \in Calls, Still, command[c].op \in SettingsOps,
         \/ SettingsReplay(c) \/ ReadSettings(c) \/ MissSettings(c) \/ InitializeSettings(c)
         \/ AbortSettings(c) \/ ShowSettings(c)
  PROVE  RecordsInv'
<1>1. CASE SettingsReplay(c)
  <2>1. Reads(c, "replay") /\ UNCHANGED settings
    BY <1>1 DEF SettingsReplay
  <2>2. \/ Goto(c, "settings") \/ Goto(c, "show-replayed") \/ Refuse(c, "key-conflict")
    BY <1>1 DEF SettingsReplay
  <2> QED
    BY <2>1, <2>2, SettingsGoes, RefuseKeeps DEF Refusals
<1>2. CASE ReadSettings(c)
  BY <1>2, ReadSettingsKeeps
<1>3. CASE MissSettings(c)
  BY <1>3, SettingsGoes DEF MissSettings
<1>4. CASE InitializeSettings(c)
  BY <1>4, InitializeKeeps
<1>5. CASE AbortSettings(c)
  <2>1. Reads(c, "batch") /\ UNCHANGED settings
    BY <1>5 DEF AbortSettings
  <2>2. Refuse(c, "server-error") \/ Goto(c, "show") \/ Refuse(c, "key-conflict")
    BY <1>5 DEF AbortSettings
  <2> QED
    BY <2>1, <2>2, SettingsGoes, RefuseKeeps DEF Refusals
<1>6. CASE ShowSettings(c)
  <2>1. UNCHANGED <<settings, seen>> /\ \E by : \E kind \in {"ok", "replayed"} : Respond(c, kind, by, Shown)
    BY <1>6 DEF ShowSettings
  <2>2. Quietly(c)
    BY <1>6 DEF ShowSettings, Respond, Quietly, Moves
  <2> QED
    BY <2>1, <2>2, RespondKeeps DEF Kinds
<1> QED
  BY <1>1, <1>2, <1>3, <1>4, <1>5, <1>6

LEMMA ArriveKeeps ==
  ASSUME RecordsInv, RecordsAssumption, NEW c \in Calls, Arrive(c)
  PROVE  RecordsInv'
<1>0. HandlersTyped /\ TypeOK /\ TablesTyped
  BY DEF RecordsInv, TypeInv
<1>1. PICK cmd \in Commands[c] :
        /\ command' = [command EXCEPT ![c] = cmd]
        /\ \/ cmd.op = "stage" /\ Refuse(c, "invalid")
           \/ cmd.op = "stage" /\ Goto(c, "replay")
           \/ cmd.op = "view-settings" /\ Goto(c, "settings")
           \/ cmd.op \notin {"stage", "view-settings"} /\ Goto(c, FirstStep(cmd))
  BY DEF Arrive
<1>2. pc[c] = "idle" /\ UNCHANGED <<idempotency, outbox, seen>> /\ Still /\ UNCHANGED settings
  BY DEF Arrive, Tables, Still
<1>3. Parsed(cmd)
  BY RecordsAssumption
<1>4. PICK step \in {"done", "replay", "settings", "account"} :
        /\ pc' = [pc EXCEPT ![c] = step]
        /\ step = "account" => cmd.op = "opportunity"
  BY <1>1 DEF Refuse, Respond, Goto, FirstStep
<1>5. Kept /\ TablesTyped'
  BY <1>2, StillKept
<1>6. HandlersTyped'
  <2>1. DOMAIN answer' = Calls
    BY <1>0, <1>1 DEF Refuse, Respond, Goto, HandlersTyped
  <2>2. \A d \in Calls : pc'[d] # "idle" => Parsed(command'[d])
    BY <1>0, <1>1, <1>2, <1>3, <1>4 DEF HandlersTyped
  <2> QED
    BY <1>0, <1>1, <1>2, <1>4, <2>1, <2>2 DEF HandlersTyped
<1>7. AnswersTyped(c)
  <2>1. \/ UNCHANGED answer
        \/ answer' = [answer EXCEPT ![c] = [kind |-> "invalid", by |-> None, told |-> Nothing]]
    BY <1>1 DEF Refuse, Respond, Goto
  <2> QED
    BY <1>0, <2>1 DEF AnswersTyped, HandlersTyped, TypeOK, Refusals
<1>8. \A d \in Calls : HandlerOK(d)'
  <2>1. ASSUME NEW d \in Calls \ {c}
        PROVE  HandlerOK(d)'
    BY <1>0, <1>1, <1>2, <1>4, <1>5, OthersRely DEF HandlersTyped
  <2>2. HandlerOK(c)'
    <3>1. /\ pc'[c] = step /\ command'[c] = cmd /\ seen'[c] = seen[c] /\ seen[c].found = <<>>
      BY <1>0, <1>1, <1>2, <1>4 DEF HandlersTyped, RecordsInv, HandlerOK, FoundOK
    <3> QED
      BY <1>4, <3>1 DEF HandlerOK, PlaceOK, FoundOK, CheckedOK
  <2> QED
    BY <2>1, <2>2
<1>9. ~Made(c) /\ UNCHANGED <<parties, names, products, warehouses, accounts, contacts,
                            opportunities, tasks, activities>>
  BY <1>2 DEF Still, masterTables, crmTables, RecordsInv, MadeOK
<1>10. \A d : Made(d)' <=> Made(d)
  BY <1>9 DEF Made
<1>11. \A d \in Calls : d # c => pc'[d] = pc[d] /\ command'[d] = command[d]
  BY <1>0, <1>1, <1>4 DEF HandlersTyped
<1>12. MadeOK'
  <2>1. c \notin DOMAIN products /\ c \notin DOMAIN warehouses
    BY <1>9 DEF Made
  <2> QED
    BY <1>9, <1>10, <1>11, <2>1 DEF MadeOK, RecordsInv
<1>13. NamesUnique'
  BY <1>9 DEF NamesUnique, RecordsInv
<1>14. ReferencesOK'
  BY <1>2, <1>9, <1>11, StillRefers
<1>15. TypeOK'
  <2>1. /\ DOMAIN names' = NameTables
        /\ \A a \in DOMAIN accounts' : accounts'[a].party \in DOMAIN parties' \cup {None}
        /\ \A o \in DOMAIN opportunities' : opportunities'[o].worth \in Worths
        /\ \A t \in DOMAIN tasks' : tasks'[t].status \in {"open", "completed"}
        /\ settings' = NoSettings \/ settings'.version \in Nat \ {0}
        /\ \A row \in idempotency' : row.by \in Calls /\ row.live \in BOOLEAN
    BY <1>0, <1>2, <1>9 DEF TypeOK
  <2>2. \A d \in Calls : answer'[d].kind \in Refusals \cup {None, "ok", "replayed"}
    BY <1>0, <1>7 DEF TypeOK, AnswersTyped
  <2> QED
    BY <2>1, <2>2 DEF TypeOK
<1> QED
  BY <1>5, <1>6, <1>8, <1>12, <1>13, <1>14, <1>15 DEF RecordsInv, TypeInv

LEMMA ExpireRecords ==
  ASSUME RecordsInv, KeysInv, NEW row \in idempotency, ExpireKey(row), Tables
  PROVE  RecordsInv'
<1>0. HandlersTyped /\ TypeOK /\ TablesTyped
  BY DEF RecordsInv, TypeInv
<1>1. UNCHANGED <<outbox, pc, command, seen, answer, settings>> /\ Still
  BY DEF ExpireKey, Tables, Still
<1>2. Kept /\ TablesTyped'
  BY <1>1, StillKept
<1>3. UNCHANGED <<parties, names, products, warehouses, accounts, contacts, opportunities,
                  tasks, activities>>
  BY <1>1 DEF Still, masterTables, crmTables
<1>4. \A r \in idempotency' : r.by \in Calls /\ r.live \in BOOLEAN
  <2> DEFINE expired == [row EXCEPT !.live = FALSE]
  <2>1. Shaped(row) /\ row.by \in Calls
    BY <1>0 DEF KeysInv, ShapesOK, TypeOK
  <2>2. expired.by = row.by /\ expired.live = FALSE
    BY <2>1 DEF Shaped
  <2>3. idempotency' = (idempotency \ {row}) \cup {expired}
    BY DEF ExpireKey
  <2> HIDE DEF expired
  <2> QED
    BY <1>0, <2>1, <2>2, <2>3 DEF TypeOK
<1>5. TypeOK'
  BY <1>0, <1>1, <1>3, <1>4 DEF TypeOK
<1>6. ReferencesOK'
  BY <1>1, StillRefers
<1>7. HandlersTyped' /\ NamesUnique'
  BY <1>0, <1>1, <1>3 DEF HandlersTyped, NamesUnique, RecordsInv
<1>8. MadeOK'
  <2>1. \A d : Made(d)' <=> Made(d)
    BY <1>3 DEF Made
  <2> QED
    BY <1>1, <1>3, <2>1 DEF MadeOK, RecordsInv
<1>9. \A d \in Calls : HandlerOK(d)'
  BY <1>1, <1>2, OthersRely
<1> QED
  BY <1>2, <1>5, <1>6, <1>7, <1>8, <1>9 DEF RecordsInv, TypeInv

----------------------------------------------------------------------------
(* Names that a batch inserts.                                             *)

LEMMA NamesWithAt ==
  ASSUME NEW c, command[c].op \in {"product", "warehouse"},
         DOMAIN seen[c].found = 1 .. Len(Lookups(command[c].op)), NEW t \in NameTables
  PROVE  /\ \A n \in Missing(c) : Lookups(command[c].op)[n] = t =>
              NamesWith(c)[t] = Put(names[t], c, Named(c, n))
         /\ (\A n \in Missing(c) : Lookups(command[c].op)[n] # t) => NamesWith(c)[t] = names[t]
<1> DEFINE new == { n \in Missing(c) : Lookups(command[c].op)[n] = t }
           one == CHOOSE n \in new : TRUE
<1>1. NamesWith(c)[t] = IF new = {} THEN names[t] ELSE Put(names[t], c, Named(c, one))
  BY DEF NamesWith
<1>2. ASSUME NEW n \in Missing(c), Lookups(command[c].op)[n] = t
      PROVE  new # {} /\ one = n
  <2>1. n \in new
    BY <1>2
  <2>2. one \in new
    BY <2>1, Zenon
  <2>3. \A m \in new : m = n
    BY <1>2 DEF Missing, Lookups
  <2> HIDE DEF new, one
  <2> QED
    BY <2>1, <2>2, <2>3
<1>3. ASSUME \A n \in Missing(c) : Lookups(command[c].op)[n] # t
      PROVE  new = {}
  BY <1>3
<1> HIDE DEF new, one
<1> QED
  BY <1>1, <1>2, <1>3

LEMMA NamesGrow ==
  ASSUME RecordsInv, NEW c \in Calls, pc[c] = "batch",
         command[c].op \in {"product", "warehouse"}, ~NameTaken(c), names' = NamesWith(c)
  PROVE  /\ NamesKept /\ NamesUnique'
         /\ \A t \in NameTables : DOMAIN names'[t] \subseteq DOMAIN names[t] \cup {c}
         /\ \A n \in DOMAIN seen[c].found : \A t, code :
              (t = Lookups(command[c].op)[n] /\ code = CodeFor(c, n)) =>
                NamedIds(t, code)' = {seen[c].found[n]}
         /\ \A s \in DOMAIN names'["site"] : names'["site"][s].parent \in DOMAIN names'["entity"]
<1> DEFINE L == Lookups(command[c].op)
<1>0. HandlersTyped /\ TypeOK /\ TablesTyped /\ HandlerOK(c) /\ NamesUnique /\ ReferencesOK
  BY DEF RecordsInv, TypeInv
<1>1. LookedUp(c) /\ Len(seen[c].found) = Len(L) /\ seen[c].found \in Seq(Ids)
  BY <1>0 DEF HandlerOK, FoundOK, HandlersTyped
<1>2. DOMAIN seen[c].found = 1 .. Len(L)
  BY <1>1
<1>3. \A n \in 1 .. Len(L) : L[n] \in NameTables
  BY DEF Lookups, NameTables
<1>4. \A t \in NameTables : c \notin DOMAIN names[t]
  BY DEF RecordsInv, MadeOK, Made
<1> HIDE DEF L
<1>5. \A t \in NameTables : \A n \in Missing(c) : L[n] = t =>
        /\ DOMAIN names'[t] = DOMAIN names[t] \cup {c}
        /\ names'[t][c] = Named(c, n)
        /\ \A i \in DOMAIN names[t] : names'[t][i] = names[t][i]
        /\ NamedIds(t, CodeFor(c, n)) = {}
  <2> SUFFICES ASSUME NEW t \in NameTables, NEW n \in Missing(c), L[n] = t
               PROVE  /\ DOMAIN names'[t] = DOMAIN names[t] \cup {c}
                      /\ names'[t][c] = Named(c, n)
                      /\ \A i \in DOMAIN names[t] : names'[t][i] = names[t][i]
                      /\ NamedIds(t, CodeFor(c, n)) = {}
    OBVIOUS
  <2>1. names'[t] = Put(names[t], c, Named(c, n))
    BY <1>2, NamesWithAt DEF L
  <2>2. NamedIds(t, CodeFor(c, n)) = {}
    BY DEF NameTaken, L
  <2> QED
    BY <1>4, <2>1, <2>2 DEF Put
<1>6. \A t \in NameTables : (\A n \in Missing(c) : L[n] # t) => names'[t] = names[t]
  BY <1>2, NamesWithAt DEF L
<1>7. DOMAIN names' = NameTables
  BY DEF NamesWith
<1>8. \A t \in NameTables :
        /\ DOMAIN names'[t] \subseteq DOMAIN names[t] \cup {c}
        /\ \A i \in DOMAIN names[t] : i \in DOMAIN names'[t] /\ names'[t][i] = names[t][i]
  BY <1>5, <1>6
<1>9. ASSUME NEW t \in NameTables, NEW code
      PROVE  /\ NamedIds(t, code) # {} => NamedIds(t, code)' = NamedIds(t, code)
             /\ \A n \in Missing(c) : (L[n] = t /\ code = CodeFor(c, n)) =>
                  NamedIds(t, code)' = {c}
  <2>1. CASE \A n \in Missing(c) : L[n] # t
    BY <1>6, <2>1 DEF NamedIds
  <2>2. CASE \E n \in Missing(c) : L[n] = t
    <3>1. PICK n \in Missing(c) : L[n] = t
      BY <2>2
    <3>2. /\ DOMAIN names'[t] = DOMAIN names[t] \cup {c}
          /\ names'[t][c].code = CodeFor(c, n)
          /\ \A i \in DOMAIN names[t] : names'[t][i] = names[t][i]
          /\ NamedIds(t, CodeFor(c, n)) = {}
      <4>1. /\ DOMAIN names'[t] = DOMAIN names[t] \cup {c}
            /\ names'[t][c] = Named(c, n)
            /\ \A i \in DOMAIN names[t] : names'[t][i] = names[t][i]
            /\ NamedIds(t, CodeFor(c, n)) = {}
        BY <1>5, <3>1
      <4>2. Named(c, n).code = CodeFor(c, n)
        BY DEF Named
      <4> QED
        BY <4>1, <4>2
    <3>3. \A m \in Missing(c) : L[m] = t => m = n
      BY <1>2, <3>1 DEF Missing, Lookups, L
    <3>4. NamedIds(t, code)' = { i \in DOMAIN names'[t] : names'[t][i].code = code }
      BY DEF NamedIds
    <3>5. CASE code = CodeFor(c, n)
      <4>1. \A i \in DOMAIN names[t] : names[t][i].code # code
        BY <3>2, <3>5 DEF NamedIds
      <4>2. NamedIds(t, code)' = {c}
        BY <1>4, <3>2, <3>4, <3>5, <4>1
      <4> QED
        BY <3>2, <3>5, <4>2
    <3>6. CASE code # CodeFor(c, n)
      <4>1. NamedIds(t, code)' = NamedIds(t, code)
        BY <1>4, <3>2, <3>4, <3>6 DEF NamedIds
      <4> QED
        BY <3>3, <3>6, <4>1
    <3> QED
      BY <3>5, <3>6
  <2> QED
    BY <2>1, <2>2
<1>10. NamesKept
  BY <1>7, <1>8, <1>9 DEF NamesKept
<1>11. NamesUnique'
  <2> SUFFICES ASSUME NEW t \in NameTables, NEW i \in DOMAIN names'[t], NEW j \in DOMAIN names'[t],
                      names'[t][i].code = names'[t][j].code
               PROVE  i = j
    BY DEF NamesUnique
  <2>1. CASE \A n \in Missing(c) : L[n] # t
    BY <1>0, <1>6, <2>1 DEF NamesUnique
  <2>2. CASE \E n \in Missing(c) : L[n] = t
    <3>1. PICK n \in Missing(c) : L[n] = t
      BY <2>2
    <3>2. /\ DOMAIN names'[t] = DOMAIN names[t] \cup {c}
          /\ names'[t][c].code = CodeFor(c, n)
          /\ \A k \in DOMAIN names[t] : names'[t][k] = names[t][k]
          /\ \A k \in DOMAIN names[t] : names[t][k].code # CodeFor(c, n)
      <4>1. /\ DOMAIN names'[t] = DOMAIN names[t] \cup {c}
            /\ names'[t][c] = Named(c, n)
            /\ \A k \in DOMAIN names[t] : names'[t][k] = names[t][k]
            /\ NamedIds(t, CodeFor(c, n)) = {}
        BY <1>5, <3>1
      <4>2. Named(c, n).code = CodeFor(c, n)
        BY DEF Named
      <4> QED
        BY <4>1, <4>2 DEF NamedIds
    <3> QED
      BY <1>0, <3>2 DEF NamesUnique
  <2> QED
    BY <2>1, <2>2
<1>12. ASSUME NEW n \in DOMAIN seen[c].found, NEW t, NEW code, t = L[n], code = CodeFor(c, n)
       PROVE  NamedIds(t, code)' = {seen[c].found[n]}
  <2>2. t \in NameTables /\ t = L[n]
    BY <1>2, <1>3, <1>12
  <2>3. CASE seen[c].found[n] = c
    <3>1. n \in Missing(c)
      BY <2>3 DEF Missing
    <3>2. NamedIds(t, code)' = {c}
      BY <1>9, <1>12, <2>2, <3>1
    <3> QED
      BY <2>3, <3>2
  <2>4. CASE seen[c].found[n] # c
    <3>1. NamedIds(t, code) = {seen[c].found[n]}
      BY <1>1, <1>12, <2>2, <2>4 DEF LookedUp, L
    <3>2. NamedIds(t, code) # {}
      BY <3>1
    <3>3. NamedIds(t, code)' = NamedIds(t, code)
      BY <1>9, <2>2, <3>2, Zenon
    <3> QED
      BY <2>2, <3>1, <3>3
  <2> QED
    BY <2>3, <2>4
<1>13. ASSUME NEW s \in DOMAIN names'["site"]
       PROVE  names'["site"][s].parent \in DOMAIN names'["entity"]
  <2>0. "site" \in NameTables /\ "entity" \in NameTables
    BY DEF NameTables
  <2>1. CASE s \in DOMAIN names["site"]
    BY <1>0, <1>8, <2>0, <2>1 DEF ReferencesOK
  <2>2. CASE s \notin DOMAIN names["site"]
    <3>1. PICK n \in Missing(c) : L[n] = "site"
      BY <1>6, <2>0, <2>2
    <3>0. names'["site"][c] = Named(c, n)
      BY <1>5, <2>0, <3>1
    <3>2. s = c /\ names'["site"][c].parent = seen[c].found[1]
      BY <1>8, <2>0, <2>2, <3>0, <3>1 DEF Named, L
    <3>3. command[c].op = "warehouse" /\ 1 \in DOMAIN seen[c].found /\ L[1] = "entity"
      BY <1>2, <3>1 DEF Missing, L, Lookups
    <3>4. CASE seen[c].found[1] = c
      <4>1. 1 \in Missing(c)
        BY <3>3, <3>4 DEF Missing
      <4> QED
        BY <1>5, <2>0, <3>2, <3>3, <3>4, <4>1
    <3>5. CASE seen[c].found[1] # c
      <4>1. seen[c].found[1] \in NamedIds("entity", CodeFor(c, 1))
        BY <1>1, <3>3, <3>5 DEF LookedUp, L
      <4> QED
        BY <1>8, <2>0, <3>2, <4>1 DEF NamedIds
    <3> QED
      BY <3>4, <3>5
  <2> QED
    BY <2>1, <2>2
<1> QED
  BY <1>8, <1>10, <1>11, <1>12, <1>13 DEF L

----------------------------------------------------------------------------
(* Steps that write.                                                       *)

SiteOK(w) == NamedIds("site", command[w].names["site"]) = {warehouses[w].site}

ActivityOK(x) ==
  /\ activities[x].account \in DOMAIN accounts
  /\ activities[x].contact # None =>
       BelongsTo(contacts, activities[x].contact, activities[x].account)
  /\ activities[x].opportunity # None =>
       BelongsTo(opportunities, activities[x].opportunity, activities[x].account)

TaskOK(t) ==
  /\ tasks[t].account \in DOMAIN accounts
  /\ tasks[t].opportunity # None =>
       BelongsTo(opportunities, tasks[t].opportunity, tasks[t].account)

\* What refers to a row goes on referring to it.
LEMMA OldRowsRefer ==
  ASSUME RecordsInv, Kept, UNCHANGED command
  PROVE  /\ \A p \in DOMAIN products \cap Calls : NamesOK(p, products[p].named)'
         /\ \A w \in DOMAIN warehouses \cap Calls : SiteOK(w)'
         /\ \A x \in DOMAIN activities : ActivityOK(x)'
         /\ \A t \in DOMAIN tasks : TaskOK(t)'
<1>0. ReferencesOK /\ TablesTyped /\ MadeOK
  BY DEF RecordsInv, TypeInv
<1>1. \A t \in NameTables : \A code, id :
        NamedIds(t, code) = {id} => NamedIds(t, code)' = {id}
  <2> SUFFICES ASSUME NEW t \in NameTables, NEW code, NEW id, NamedIds(t, code) = {id}
               PROVE  NamedIds(t, code)' = {id}
    OBVIOUS
  <2>1. NamedIds(t, code) # {}
    OBVIOUS
  <2> QED
    BY <2>1, Zenon DEF Kept, NamesKept
<1>2. ASSUME NEW p \in DOMAIN products \cap Calls
      PROVE  NamesOK(p, products[p].named)'
  <2>1. PICK ids : ids = products[p].named
    OBVIOUS
  <2>2. products'[p].named = ids /\ DOMAIN ids = 1 .. 3 /\ command[p].op = "product"
    BY <1>0, <2>1 DEF Kept, MasterKept, MadeOK
  <2>3. ASSUME NEW n \in DOMAIN ids
        PROVE  NamedIds(Lookups(command[p].op)[n], CodeFor(p, n))' = {ids[n]}
    <3>1. PICK t, code : t = Lookups(command[p].op)[n] /\ code = CodeFor(p, n)
      OBVIOUS
    <3>2. t = Lookups(command[p].op)[n]' /\ code = CodeFor(p, n)'
      BY <3>1 DEF CodeFor, Lookups
    <3>3. t \in NameTables
      BY <2>2, <2>3, <3>1 DEF Lookups, NameTables
    <3>4. NamedIds(t, code) = {ids[n]}
      BY <1>0, <2>1, <2>3, <3>1 DEF ReferencesOK, NamesOK
    <3>5. NamedIds(t, code)' = {ids[n]}
      BY <1>1, <3>3, <3>4
    <3> QED
      BY <3>2, <3>5
  <2> QED
    BY <2>2, <2>3 DEF NamesOK
<1>3. ASSUME NEW w \in DOMAIN warehouses \cap Calls
      PROVE  SiteOK(w)'
  <2>1. PICK code, id : code = command[w].names["site"] /\ id = warehouses[w].site
    OBVIOUS
  <2>2. NamedIds("site", code) = {id}
    BY <1>0, <2>1 DEF ReferencesOK
  <2>3. NamedIds("site", code)' = {id}
    BY <1>1, <2>2 DEF NameTables
  <2>4. warehouses'[w].site = id /\ command'[w].names["site"] = code
    BY <2>1 DEF Kept, MasterKept
  <2> QED
    BY <2>3, <2>4 DEF SiteOK
<1>4. ASSUME NEW x \in DOMAIN activities
      PROVE  ActivityOK(x)'
  <2>1. ActivityOK(x)
    BY <1>0 DEF ReferencesOK, ActivityOK
  <2>2. PICK row : row = activities[x] /\ row = activities'[x]
    BY DEF Kept, CrmKept
  <2>3. row.account \in DOMAIN accounts'
    BY <2>1, <2>2 DEF ActivityOK, Kept, CrmKept
  <2>4. ASSUME row.contact # None
        PROVE  row.contact \in DOMAIN contacts' /\ contacts'[row.contact].account = row.account
    <3>1. row.contact \in DOMAIN contacts /\ contacts[row.contact].account = row.account
      BY <2>1, <2>2, <2>4 DEF ActivityOK, BelongsTo
    <3> QED
      BY <3>1 DEF Kept, CrmKept
  <2>5. ASSUME row.opportunity # None
        PROVE  /\ row.opportunity \in DOMAIN opportunities'
               /\ opportunities'[row.opportunity].account = row.account
    BY <2>1, <2>2, <2>5 DEF ActivityOK, BelongsTo, Kept, CrmKept
  <2> QED
    BY <2>2, <2>3, <2>4, <2>5 DEF ActivityOK, BelongsTo
<1>5. ASSUME NEW t \in DOMAIN tasks
      PROVE  TaskOK(t)'
  <2>1. TaskOK(t)
    BY <1>0 DEF ReferencesOK, TaskOK
  <2>2. tasks'[t].account = tasks[t].account /\ tasks'[t].opportunity = tasks[t].opportunity
    <3>1. PICK old \in [account : Ids, opportunity : Optional(Ids),
                        status : {"open", "completed"}, version : Nat] : old = tasks[t]
      BY <1>0 DEF TablesTyped
    <3>2. CASE tasks'[t] = [old EXCEPT !.status = "completed", !.version = @ + 1]
      BY <3>1, <3>2
    <3>3. \/ tasks'[t] = old
          \/ tasks'[t] = [old EXCEPT !.status = "completed", !.version = @ + 1]
      BY <3>1 DEF Kept, CrmKept
    <3> QED
      BY <3>1, <3>2, <3>3
  <2>3. tasks'[t].account \in DOMAIN accounts'
    BY <2>1, <2>2 DEF TaskOK, Kept, CrmKept
  <2>4. ASSUME tasks[t].opportunity # None
        PROVE  /\ tasks[t].opportunity \in DOMAIN opportunities'
               /\ opportunities'[tasks[t].opportunity].account = tasks[t].account
    BY <2>1, <2>4 DEF TaskOK, BelongsTo, Kept, CrmKept
  <2> QED
    BY <2>2, <2>3, <2>4 DEF TaskOK, BelongsTo
<1> QED
  BY <1>2, <1>3, <1>4, <1>5

\* What is new is of the handler that writes, and refers to what is there.
NewRowsOK(c) ==
  /\ \A d \in Calls : Made(d)' => d = c \/ Made(d)
  /\ \A p \in DOMAIN products' \cap Calls : p \in DOMAIN products \/
       (/\ command[p].op = "product" /\ DOMAIN products'[p].named = 1 .. 3
        /\ NamesOK(p, products[p].named)')
  /\ \A w \in DOMAIN warehouses' \cap Calls : w \in DOMAIN warehouses \/
       (command[w].op = "warehouse" /\ SiteOK(w)')
  /\ \A s \in DOMAIN names'["site"] : names'["site"][s].parent \in DOMAIN names'["entity"]
  /\ \A x \in DOMAIN activities' : x \in DOMAIN activities \/ ActivityOK(x)'
  /\ \A t \in DOMAIN tasks' : t \in DOMAIN tasks \/ TaskOK(t)'
  /\ \A a \in DOMAIN accounts' : a \in DOMAIN accounts \/
       accounts'[a].party \in DOMAIN parties' \cup {None}

LEMMA WritingKeeps ==
  ASSUME RecordsInv, NEW c \in Calls, pc[c] = "batch", UNCHANGED <<command, seen>>,
         NEW step \in {"done", "show"}, pc' = [pc EXCEPT ![c] = step],
         (\E d \in Calls : Made(d)' /\ ~Made(d)) => step = "done",
         \E hash, told : idempotency' = idempotency \cup {Row(Claim(c), hash, c, told)},
         AnswersTyped(c), Kept, TablesTyped', NamesUnique',
         settings' = NoSettings \/ settings'.version \in Nat \ {0}, NewRowsOK(c)
  PROVE  RecordsInv'
<1>0. HandlersTyped /\ TypeOK /\ TablesTyped /\ MadeOK /\ ReferencesOK
  BY DEF RecordsInv, TypeInv
<1>1. HandlersTyped'
  <2>1. DOMAIN answer' = Calls
    BY DEF AnswersTyped
  <2>2. \A d \in Calls : pc'[d] # "idle" => Parsed(command'[d])
    BY <1>0 DEF HandlersTyped
  <2> QED
    BY <1>0, <2>1, <2>2 DEF HandlersTyped
<1>2. \A d \in Calls : HandlerOK(d)'
  <2>1. ASSUME NEW d \in Calls \ {c}
        PROVE  HandlerOK(d)'
    BY <1>0, OthersRely DEF HandlersTyped
  <2>2. HandlerOK(c)'
    BY <1>0, EndOK DEF HandlersTyped
  <2> QED
    BY <2>1, <2>2
<1>3. MadeOK'
  <2>1. \A d \in Calls : Made(d)' => pc'[d] = "done"
    BY <1>0 DEF MadeOK, HandlersTyped, NewRowsOK
  <2>2. \A p \in DOMAIN products' \cap Calls :
          command'[p].op = "product" /\ DOMAIN products'[p].named = 1 .. 3
    BY <1>0 DEF MadeOK, NewRowsOK, Kept, MasterKept
  <2>3. \A w \in DOMAIN warehouses' \cap Calls : command'[w].op = "warehouse"
    BY <1>0 DEF MadeOK, NewRowsOK, Kept, MasterKept
  <2> QED
    BY <2>1, <2>2, <2>3 DEF MadeOK
<1>4. ReferencesOK'
  <2>1. \A p \in DOMAIN products' \cap Calls : NamesOK(p, products[p].named)'
    BY OldRowsRefer DEF NewRowsOK
  <2>2. \A w \in DOMAIN warehouses' \cap Calls : SiteOK(w)'
    BY OldRowsRefer DEF NewRowsOK
  <2>3. \A x \in DOMAIN activities' : ActivityOK(x)'
    BY OldRowsRefer DEF NewRowsOK
  <2>4. \A t \in DOMAIN tasks' : TaskOK(t)'
    BY OldRowsRefer DEF NewRowsOK
  <2>5. \A s \in DOMAIN names'["site"] : names'["site"][s].parent \in DOMAIN names'["entity"]
    BY DEF NewRowsOK
  <2> QED
    BY <2>1, <2>2, <2>3, <2>4, <2>5 DEF ReferencesOK, SiteOK, ActivityOK, TaskOK
<1>5. TypeOK'
  <2>1. DOMAIN names' = NameTables
    BY DEF Kept, NamesKept
  <2>2. \A a \in DOMAIN accounts' : accounts'[a].party \in DOMAIN parties' \cup {None}
    BY <1>0 DEF NewRowsOK, Kept, CrmKept, MasterKept, TypeOK
  <2>3. \A o \in DOMAIN opportunities' : opportunities'[o].worth \in Worths
    BY DEF TablesTyped
  <2>4. \A t \in DOMAIN tasks' : tasks'[t].status \in {"open", "completed"}
    BY DEF TablesTyped
  <2>5. \A d \in Calls : answer'[d].kind \in Refusals \cup {None, "ok", "replayed"}
    BY <1>0 DEF TypeOK, AnswersTyped
  <2>6. \A row \in idempotency' : row.by \in Calls /\ row.live \in BOOLEAN
    <3>1. PICK hash, told : idempotency' = idempotency \cup {Row(Claim(c), hash, c, told)}
      OBVIOUS
    <3>2. Row(Claim(c), hash, c, told).by = c /\ Row(Claim(c), hash, c, told).live = TRUE
      BY DEF Row
    <3> QED
      BY <1>0, <3>1, <3>2 DEF TypeOK
  <2> QED
    BY <2>1, <2>2, <2>3, <2>4, <2>5, <2>6 DEF TypeOK
<1> QED
  BY <1>1, <1>2, <1>3, <1>4, <1>5 DEF RecordsInv, TypeInv

\* What every batch that commits does besides its records.
LEMMA Commits ==
  ASSUME RecordsInv, NEW c \in Calls, NEW type, NEW told, NEW payload,
         Commit(c, type, told, payload)
  PROVE  /\ pc[c] = "batch" /\ UNCHANGED <<command, seen>> /\ ~Made(c)
         /\ pc' = [pc EXCEPT ![c] = "done"]
         /\ \E hash, info : idempotency' = idempotency \cup {Row(Claim(c), hash, c, info)}
         /\ AnswersTyped(c) /\ HandlerOK(c)
<1>1. /\ pc[c] = "batch" /\ UNCHANGED <<command, seen>>
      /\ idempotency' = idempotency \cup {Row(Claim(c), Hash(c), c, told)}
  BY DEF Commit, Write, Row
<1>2. pc' = [pc EXCEPT ![c] = "done"]
  BY DEF Commit, Respond
<1>3. AnswersTyped(c)
  BY DEF Commit, Respond, AnswersTyped, RecordsInv, TypeInv, TypeOK, HandlersTyped
<1>4. ~Made(c) /\ HandlerOK(c)
  BY <1>1 DEF RecordsInv, MadeOK
<1> QED
  BY <1>1, <1>2, <1>3, <1>4

LEMMA NamesStay ==
  ASSUME RecordsInv, UNCHANGED names
  PROVE  NamesKept /\ NamesUnique'
<1>1. \A t, code : NamedIds(t, code)' = NamedIds(t, code)
  BY DEF NamedIds
<1> QED
  BY <1>1 DEF NamesKept, NamesUnique, RecordsInv, TypeInv, TypeOK

LEMMA CrmStays ==
  ASSUME RecordsInv, UNCHANGED <<crmTables, settings>>
  PROVE  CrmKept /\ settings'.version >= settings.version /\ settings' = settings
         /\ (settings' = NoSettings \/ settings'.version \in Nat \ {0})
         /\ UNCHANGED <<accounts, contacts, opportunities, tasks, activities>>
BY DEF crmTables, CrmKept, RecordsInv, TablesTyped, TypeInv, TypeOK

LEMMA PartyCommits ==
  ASSUME RecordsInv, NEW c \in Calls, CommitParty(c), UNCHANGED <<crmTables, settings>>
  PROVE  RecordsInv' /\ Kept /\ NewRowsOK(c)
<1> DEFINE row == [code |-> command[c].code, type |-> command[c].type]
<1>0. TablesTyped /\ ReferencesOK
  BY DEF RecordsInv, TypeInv
<1>1. Commit(c, "party", Created(c), <<>>)
  BY DEF CommitParty
<1>2. /\ pc[c] = "batch" /\ UNCHANGED <<command, seen>> /\ ~Made(c)
      /\ pc' = [pc EXCEPT ![c] = "done"]
      /\ \E hash, info : idempotency' = idempotency \cup {Row(Claim(c), hash, c, info)}
      /\ AnswersTyped(c)
  BY <1>1, Commits
<1>3. parties' = Put(parties, c, row) /\ UNCHANGED <<names, products, warehouses>>
  BY DEF CommitParty
<1> HIDE DEF row
<1>4. c \notin DOMAIN parties
  BY <1>2 DEF Made
<1>5. /\ DOMAIN parties' = DOMAIN parties \cup {c}
      /\ \A p \in DOMAIN parties : p \in DOMAIN parties' /\ parties'[p] = parties[p]
  BY <1>3, <1>4 DEF Put
<1>6. /\ CrmKept /\ settings'.version >= settings.version
      /\ (settings' = NoSettings \/ settings'.version \in Nat \ {0})
      /\ UNCHANGED <<accounts, contacts, opportunities, tasks, activities, settings>>
  BY CrmStays
<1>7. NamesKept /\ NamesUnique'
  BY <1>3, NamesStay
<1>8. Kept
  BY <1>3, <1>5, <1>6, <1>7 DEF Kept, MasterKept
<1>9. TablesTyped'
  BY <1>0, <1>3, <1>6 DEF TablesTyped
<1>10. NewRowsOK(c)
  <2>1. \A d \in Calls : Made(d)' => d = c \/ Made(d)
    BY <1>3, <1>5, <1>6 DEF Made
  <2>2. \A s \in DOMAIN names'["site"] : names'["site"][s].parent \in DOMAIN names'["entity"]
    BY <1>0, <1>3 DEF ReferencesOK
  <2> QED
    BY <1>3, <1>6, <2>1, <2>2 DEF NewRowsOK
<1> QED
  BY <1>2, <1>6, <1>7, <1>8, <1>9, <1>10, WritingKeeps

LEMMA ProductCommits ==
  ASSUME RecordsInv, NEW c \in Calls, CommitProduct(c), UNCHANGED <<crmTables, settings>>
  PROVE  RecordsInv' /\ Kept /\ NewRowsOK(c)
<1> DEFINE row == [code |-> command[c].code, skus |-> command[c].skus, named |-> seen[c].found]
<1>0. TablesTyped /\ ReferencesOK /\ HandlersTyped
  BY DEF RecordsInv, TypeInv
<1>1. Commit(c, "product", Created(c), <<>>) /\ command[c].op = "product" /\ ~NameTaken(c)
  BY DEF CommitProduct, MasterStopped
<1>2. /\ pc[c] = "batch" /\ UNCHANGED <<command, seen>> /\ ~Made(c)
      /\ pc' = [pc EXCEPT ![c] = "done"]
      /\ \E hash, info : idempotency' = idempotency \cup {Row(Claim(c), hash, c, info)}
      /\ AnswersTyped(c) /\ HandlerOK(c)
  BY <1>1, Commits
<1>3. /\ products' = Put(products, c, row) /\ names' = NamesWith(c)
      /\ UNCHANGED <<parties, warehouses>>
  BY DEF CommitProduct
<1>4. row.named = seen[c].found
  OBVIOUS
<1> HIDE DEF row
<1>5. c \notin DOMAIN products
  BY <1>2 DEF Made
<1>6. /\ DOMAIN products' = DOMAIN products \cup {c} /\ products'[c] = row
      /\ \A p \in DOMAIN products : p \in DOMAIN products' /\ products'[p] = products[p]
  BY <1>3, <1>5 DEF Put
<1>7. /\ CrmKept /\ settings'.version >= settings.version
      /\ (settings' = NoSettings \/ settings'.version \in Nat \ {0})
      /\ UNCHANGED <<accounts, contacts, opportunities, tasks, activities, settings>>
  BY CrmStays
<1>8. /\ NamesKept /\ NamesUnique'
      /\ \A t \in NameTables : DOMAIN names'[t] \subseteq DOMAIN names[t] \cup {c}
      /\ \A n \in DOMAIN seen[c].found : \A t, code :
           (t = Lookups(command[c].op)[n] /\ code = CodeFor(c, n)) =>
             NamedIds(t, code)' = {seen[c].found[n]}
      /\ \A s \in DOMAIN names'["site"] : names'["site"][s].parent \in DOMAIN names'["entity"]
  BY <1>1, <1>2, <1>3, NamesGrow
<1>9. DOMAIN seen[c].found = 1 .. 3
  BY <1>0, <1>1, <1>2 DEF HandlersTyped, HandlerOK, FoundOK, Lookups
<1>10. Kept
  BY <1>3, <1>6, <1>7, <1>8 DEF Kept, MasterKept
<1>11. TablesTyped'
  BY <1>0, <1>7, <1>8 DEF TablesTyped, Ids
<1>12. NamesOK(c, products[c].named)'
  <2> SUFFICES ASSUME NEW n \in DOMAIN seen[c].found
               PROVE  NamedIds(Lookups(command[c].op)[n], CodeFor(c, n))' = {seen[c].found[n]}
    BY <1>4, <1>6 DEF NamesOK
  <2>1. PICK t, code : t = Lookups(command[c].op)[n] /\ code = CodeFor(c, n)
    OBVIOUS
  <2>2. t = Lookups(command[c].op)[n]' /\ code = CodeFor(c, n)'
    BY <1>2, <2>1 DEF CodeFor, Lookups
  <2>3. NamedIds(t, code)' = {seen[c].found[n]}
    BY <1>8, <2>1
  <2> QED
    BY <2>2, <2>3
<1>13. NewRowsOK(c)
  <2>1. \A d \in Calls : Made(d)' => d = c \/ Made(d)
    BY <1>3, <1>6, <1>7, <1>8 DEF Made
  <2>2. \A p \in DOMAIN products' \cap Calls : p \in DOMAIN products \/
          (/\ command[p].op = "product" /\ DOMAIN products'[p].named = 1 .. 3
           /\ NamesOK(p, products[p].named)')
    BY <1>1, <1>4, <1>6, <1>9, <1>12
  <2> QED
    BY <1>3, <1>7, <1>8, <2>1, <2>2 DEF NewRowsOK
<1> QED
  BY <1>2, <1>7, <1>8, <1>10, <1>11, <1>13, WritingKeeps

LEMMA WarehouseCommits ==
  ASSUME RecordsInv, NEW c \in Calls, CommitWarehouse(c), UNCHANGED <<crmTables, settings>>
  PROVE  RecordsInv' /\ Kept /\ NewRowsOK(c)
<1> DEFINE row == [code |-> command[c].code, site |-> seen[c].found[2]]
<1>0. TablesTyped /\ ReferencesOK /\ HandlersTyped
  BY DEF RecordsInv, TypeInv
<1>1. Commit(c, "warehouse", Created(c), <<>>) /\ command[c].op = "warehouse" /\ ~NameTaken(c)
  BY DEF CommitWarehouse, MasterStopped
<1>2. /\ pc[c] = "batch" /\ UNCHANGED <<command, seen>> /\ ~Made(c)
      /\ pc' = [pc EXCEPT ![c] = "done"]
      /\ \E hash, info : idempotency' = idempotency \cup {Row(Claim(c), hash, c, info)}
      /\ AnswersTyped(c) /\ HandlerOK(c)
  BY <1>1, Commits
<1>3. /\ warehouses' = Put(warehouses, c, row) /\ names' = NamesWith(c)
      /\ UNCHANGED <<parties, products>>
  BY DEF CommitWarehouse
<1>4. row.site = seen[c].found[2]
  OBVIOUS
<1> HIDE DEF row
<1>5. c \notin DOMAIN warehouses
  BY <1>2 DEF Made
<1>6. /\ DOMAIN warehouses' = DOMAIN warehouses \cup {c} /\ warehouses'[c] = row
      /\ \A w \in DOMAIN warehouses : w \in DOMAIN warehouses' /\ warehouses'[w] = warehouses[w]
  BY <1>3, <1>5 DEF Put
<1>7. /\ CrmKept /\ settings'.version >= settings.version
      /\ (settings' = NoSettings \/ settings'.version \in Nat \ {0})
      /\ UNCHANGED <<accounts, contacts, opportunities, tasks, activities, settings>>
  BY CrmStays
<1>8. /\ NamesKept /\ NamesUnique'
      /\ \A t \in NameTables : DOMAIN names'[t] \subseteq DOMAIN names[t] \cup {c}
      /\ \A n \in DOMAIN seen[c].found : \A t, code :
           (t = Lookups(command[c].op)[n] /\ code = CodeFor(c, n)) =>
             NamedIds(t, code)' = {seen[c].found[n]}
      /\ \A s \in DOMAIN names'["site"] : names'["site"][s].parent \in DOMAIN names'["entity"]
  BY <1>1, <1>2, <1>3, NamesGrow
<1>9. 2 \in DOMAIN seen[c].found
  BY <1>0, <1>1, <1>2 DEF HandlersTyped, HandlerOK, FoundOK, Lookups
<1>10. Kept
  BY <1>3, <1>6, <1>7, <1>8 DEF Kept, MasterKept
<1>11. TablesTyped'
  BY <1>0, <1>7, <1>8 DEF TablesTyped, Ids
<1>12. SiteOK(c)'
  <2>1. PICK code : code = command[c].names["site"]
    OBVIOUS
  <2>2. code = CodeFor(c, 2) /\ "site" = Lookups(command[c].op)[2]
    BY <1>1, <2>1 DEF CodeFor, Lookups
  <2>3. NamedIds("site", code)' = {seen[c].found[2]}
    BY <1>8, <1>9, <2>2
  <2> QED
    BY <1>2, <1>4, <1>6, <2>1, <2>3 DEF SiteOK
<1>13. NewRowsOK(c)
  <2>1. \A d \in Calls : Made(d)' => d = c \/ Made(d)
    BY <1>3, <1>6, <1>7, <1>8 DEF Made
  <2>2. \A w \in DOMAIN warehouses' \cap Calls : w \in DOMAIN warehouses \/
          (command[w].op = "warehouse" /\ SiteOK(w)')
    BY <1>1, <1>6, <1>12
  <2> QED
    BY <1>3, <1>7, <1>8, <2>1, <2>2 DEF NewRowsOK
<1> QED
  BY <1>2, <1>7, <1>8, <1>10, <1>11, <1>13, WritingKeeps

----------------------------------------------------------------------------
(* Customer records that a batch inserts or changes.                       *)

LEMMA MasterStays ==
  ASSUME RecordsInv, UNCHANGED <<masterTables, settings>>
  PROVE  /\ NamesKept /\ NamesUnique' /\ MasterKept /\ settings'.version >= settings.version
         /\ (settings' = NoSettings \/ settings'.version \in Nat \ {0})
         /\ UNCHANGED <<parties, names, products, warehouses, settings>>
         /\ \A s \in DOMAIN names'["site"] : names'["site"][s].parent \in DOMAIN names'["entity"]
         /\ \A t \in NameTables : DOMAIN names'[t] \subseteq Ids
<1>1. UNCHANGED <<parties, names, products, warehouses, settings>>
  BY DEF masterTables
<1>2. NamesKept /\ NamesUnique'
  BY <1>1, NamesStay
<1> QED
  BY <1>1, <1>2 DEF MasterKept, RecordsInv, TablesTyped, TypeInv, TypeOK, ReferencesOK

LEMMA AccountCommits ==
  ASSUME RecordsInv, NEW c \in Calls, CommitAccount(c), UNCHANGED <<masterTables, settings>>
  PROVE  RecordsInv' /\ Kept /\ NewRowsOK(c)
<1> DEFINE row == [code |-> command[c].code, party |-> command[c].party]
<1>0. TablesTyped /\ TypeOK
  BY DEF RecordsInv, TypeInv
<1>1. Commit(c, "account", Stored(c, 1, <<>>), <<>>) /\ command[c].op = "account"
  BY DEF CommitAccount
<1>2. /\ pc[c] = "batch" /\ UNCHANGED <<command, seen>> /\ ~Made(c)
      /\ pc' = [pc EXCEPT ![c] = "done"]
      /\ \E hash, info : idempotency' = idempotency \cup {Row(Claim(c), hash, c, info)}
      /\ AnswersTyped(c) /\ HandlerOK(c)
  BY <1>1, Commits
<1>3. accounts' = Put(accounts, c, row) /\ UNCHANGED <<contacts, opportunities, tasks, activities>>
  BY DEF CommitAccount
<1>4. row.party \in DOMAIN parties \cup {None}
  BY <1>1, <1>2 DEF HandlerOK, CheckedOK, Optional
<1> HIDE DEF row
<1>5. c \notin DOMAIN accounts
  BY <1>2 DEF Made
<1>6. /\ DOMAIN accounts' = DOMAIN accounts \cup {c} /\ accounts'[c] = row
      /\ \A a \in DOMAIN accounts : a \in DOMAIN accounts' /\ accounts'[a] = accounts[a]
  BY <1>3, <1>5 DEF Put
<1>7. /\ NamesKept /\ NamesUnique' /\ MasterKept /\ settings'.version >= settings.version
      /\ (settings' = NoSettings \/ settings'.version \in Nat \ {0})
      /\ UNCHANGED <<parties, names, products, warehouses, settings>>
      /\ \A s \in DOMAIN names'["site"] : names'["site"][s].parent \in DOMAIN names'["entity"]
      /\ \A t \in NameTables : DOMAIN names'[t] \subseteq Ids
  BY MasterStays
<1>8. CrmKept
  BY <1>0, <1>3, <1>6 DEF CrmKept, TablesTyped
<1>9. TablesTyped'
  BY <1>0, <1>3, <1>7 DEF TablesTyped
<1>10. NewRowsOK(c)
  <2>1. \A d \in Calls : Made(d)' => d = c \/ Made(d)
    BY <1>3, <1>6, <1>7 DEF Made
  <2>2. \A a \in DOMAIN accounts' : a \in DOMAIN accounts \/
          accounts'[a].party \in DOMAIN parties' \cup {None}
    BY <1>4, <1>6, <1>7
  <2> QED
    BY <1>3, <1>7, <2>1, <2>2 DEF NewRowsOK
<1> QED
  BY <1>2, <1>7, <1>8, <1>9, <1>10, WritingKeeps DEF Kept

LEMMA ActivityCommits ==
  ASSUME RecordsInv, NEW c \in Calls, CommitActivity(c), UNCHANGED <<masterTables, settings>>
  PROVE  RecordsInv' /\ Kept /\ NewRowsOK(c)
<1> DEFINE row == [account |-> command[c].account, contact |-> command[c].contact,
                   opportunity |-> command[c].opportunity]
<1>0. TablesTyped /\ TypeOK
  BY DEF RecordsInv, TypeInv
<1>1. Commit(c, "activity", Stored(c, 1, <<>>), <<>>) /\ command[c].op = "activity"
  BY DEF CommitActivity
<1>2. /\ pc[c] = "batch" /\ UNCHANGED <<command, seen>> /\ ~Made(c)
      /\ pc' = [pc EXCEPT ![c] = "done"]
      /\ \E hash, info : idempotency' = idempotency \cup {Row(Claim(c), hash, c, info)}
      /\ AnswersTyped(c) /\ HandlerOK(c)
  BY <1>1, Commits
<1>3. activities' = Put(activities, c, row) /\ UNCHANGED <<accounts, contacts, opportunities, tasks>>
  BY DEF CommitActivity
<1>4. /\ row.account \in DOMAIN accounts
      /\ row.contact # None => BelongsTo(contacts, row.contact, row.account)
      /\ row.opportunity # None => BelongsTo(opportunities, row.opportunity, row.account)
  BY <1>1, <1>2 DEF HandlerOK, CheckedOK
<1> HIDE DEF row
<1>5. c \notin DOMAIN activities
  BY <1>2 DEF Made
<1>6. /\ DOMAIN activities' = DOMAIN activities \cup {c} /\ activities'[c] = row
      /\ \A x \in DOMAIN activities : x \in DOMAIN activities' /\ activities'[x] = activities[x]
  BY <1>3, <1>5 DEF Put
<1>7. /\ NamesKept /\ NamesUnique' /\ MasterKept /\ settings'.version >= settings.version
      /\ (settings' = NoSettings \/ settings'.version \in Nat \ {0})
      /\ UNCHANGED <<parties, names, products, warehouses, settings>>
      /\ \A s \in DOMAIN names'["site"] : names'["site"][s].parent \in DOMAIN names'["entity"]
      /\ \A t \in NameTables : DOMAIN names'[t] \subseteq Ids
  BY MasterStays
<1>8. CrmKept
  BY <1>0, <1>3, <1>6 DEF CrmKept, TablesTyped
<1>9. TablesTyped'
  BY <1>0, <1>3, <1>7 DEF TablesTyped
<1>10. NewRowsOK(c)
  <2>1. \A d \in Calls : Made(d)' => d = c \/ Made(d)
    BY <1>3, <1>6, <1>7 DEF Made
  <2>2. ActivityOK(c)'
    BY <1>3, <1>4, <1>6 DEF ActivityOK, BelongsTo
  <2>3. \A x \in DOMAIN activities' : x \in DOMAIN activities \/ ActivityOK(x)'
    BY <1>6, <2>2
  <2> QED
    BY <1>3, <1>7, <2>1, <2>3 DEF NewRowsOK
<1> QED
  BY <1>2, <1>7, <1>8, <1>9, <1>10, WritingKeeps DEF Kept

ContactRows == [account : Ids, primary : BOOLEAN, version : Nat]
OpportunityRows == [account : Ids, worth : Worths, version : Nat]
TaskRows == [account : Ids, opportunity : Optional(Ids), status : {"open", "completed"},
             version : Nat]

LEMMA CommandOf ==
  ASSUME RecordsInv, NEW c \in Calls, pc[c] = "batch"
  PROVE  CommandShape(command[c])
BY CommandsShaped DEF RecordsInv, HandlersTyped

LEMMA ContactCommits ==
  ASSUME RecordsInv, NEW c \in Calls, CommitContact(c), UNCHANGED <<masterTables, settings>>
  PROVE  RecordsInv' /\ Kept /\ NewRowsOK(c)
<1> DEFINE row == [account |-> command[c].account, primary |-> command[c].primary, version |-> 1]
           no == FALSE
           replaced(i) == command[c].primary /\ contacts[i].account = command[c].account
                                             /\ contacts[i].primary
           cleared == [i \in DOMAIN contacts |->
             IF replaced(i) THEN [contacts[i] EXCEPT !.primary = no, !.version = @ + 1]
                            ELSE contacts[i]]
<1>0. TablesTyped /\ TypeOK
  BY DEF RecordsInv, TypeInv
<1>1. Commit(c, "contact", Stored(c, 1, <<>>), <<>>) /\ command[c].op = "contact"
  BY DEF CommitContact
<1>2. /\ pc[c] = "batch" /\ UNCHANGED <<command, seen>> /\ ~Made(c)
      /\ pc' = [pc EXCEPT ![c] = "done"]
      /\ \E hash, info : idempotency' = idempotency \cup {Row(Claim(c), hash, c, info)}
      /\ AnswersTyped(c)
  BY <1>1, Commits
<1>3. contacts' = Put(cleared, c, row) /\ UNCHANGED <<accounts, opportunities, tasks, activities>>
  BY DEF CommitContact
<1>4. row \in ContactRows
  BY <1>1, <1>2, CommandOf DEF CommandShape, ContactRows
<1>5. c \notin DOMAIN contacts
  BY <1>2 DEF Made
<1>6. \A i \in DOMAIN contacts : contacts[i] \in ContactRows
  BY <1>0 DEF TablesTyped, ContactRows
<1>7. ASSUME NEW i \in DOMAIN contacts
      PROVE  cleared[i] \in ContactRows /\ cleared[i].account = contacts[i].account
  <2>1. PICK old \in ContactRows : old = contacts[i]
    BY <1>6
  <2>0. no \in BOOLEAN
    OBVIOUS
  <2> HIDE DEF no
  <2>2. /\ [old EXCEPT !.primary = no, !.version = @ + 1] \in ContactRows
        /\ [old EXCEPT !.primary = no, !.version = @ + 1].account = old.account
    <3> DEFINE other == [old EXCEPT !.primary = no]
    <3>1. other \in ContactRows /\ other.account = old.account
      BY <2>0 DEF ContactRows
    <3> HIDE DEF other
    <3>2. /\ [other EXCEPT !.version = @ + 1] \in ContactRows
          /\ [other EXCEPT !.version = @ + 1].account = old.account
      BY <3>1 DEF ContactRows
    <3> QED
      BY <3>2, Zenon DEF other
  <2> HIDE DEF replaced
  <2> QED
    BY <2>1, <2>2
<1>8. DOMAIN cleared = DOMAIN contacts
  OBVIOUS
<1> HIDE DEF row, cleared
<1>9. /\ DOMAIN contacts' = DOMAIN contacts \cup {c} /\ contacts'[c] = row
      /\ \A i \in DOMAIN contacts : i \in DOMAIN contacts' /\ contacts'[i] = cleared[i]
  BY <1>3, <1>5, <1>8 DEF Put
<1>10. /\ NamesKept /\ NamesUnique' /\ MasterKept /\ settings'.version >= settings.version
       /\ (settings' = NoSettings \/ settings'.version \in Nat \ {0})
       /\ UNCHANGED <<parties, names, products, warehouses, settings>>
       /\ \A s \in DOMAIN names'["site"] : names'["site"][s].parent \in DOMAIN names'["entity"]
       /\ \A t \in NameTables : DOMAIN names'[t] \subseteq Ids
  BY MasterStays
<1>11. CrmKept
  BY <1>0, <1>3, <1>7, <1>9 DEF CrmKept, TablesTyped
<1>12. TablesTyped'
  <2>1. \A i \in DOMAIN contacts' : contacts'[i] \in ContactRows
    BY <1>4, <1>7, <1>9
  <2>2. DOMAIN contacts' \subseteq Ids
    BY <1>0, <1>9 DEF TablesTyped, Ids
  <2> QED
    BY <1>0, <1>3, <1>10, <2>1, <2>2 DEF TablesTyped, ContactRows
<1>13. NewRowsOK(c)
  <2>1. \A d \in Calls : Made(d)' => d = c \/ Made(d)
    BY <1>3, <1>9, <1>10 DEF Made
  <2> QED
    BY <1>3, <1>10, <2>1 DEF NewRowsOK
<1> QED
  BY <1>2, <1>10, <1>11, <1>12, <1>13, WritingKeeps DEF Kept

LEMMA WorthTyped ==
  ASSUME NEW cmd, cmd.stage \in Stages, cmd.chance \in Chances
  PROVE  Worth(cmd) \in Worths
<1> HIDE DEF Stages, Chances
<1> QED
  BY Zenon DEF Worth, Worths

LEMMA OpportunityCommits ==
  ASSUME RecordsInv, NEW c \in Calls, CommitOpportunity(c), UNCHANGED <<masterTables, settings>>
  PROVE  RecordsInv' /\ Kept /\ NewRowsOK(c)
<1> DEFINE row == [account |-> command[c].account, worth |-> Worth(command[c]), version |-> 1]
<1>0. TablesTyped /\ TypeOK
  BY DEF RecordsInv, TypeInv
<1>1. /\ Commit(c, "opportunity", Stored(c, 1, Worth(command[c])), <<>>)
      /\ command[c].op = "opportunity"
  BY DEF CommitOpportunity
<1>2. /\ pc[c] = "batch" /\ UNCHANGED <<command, seen>> /\ ~Made(c)
      /\ pc' = [pc EXCEPT ![c] = "done"]
      /\ \E hash, info : idempotency' = idempotency \cup {Row(Claim(c), hash, c, info)}
      /\ AnswersTyped(c)
  BY <1>1, Commits
<1>3. opportunities' = Put(opportunities, c, row) /\ UNCHANGED <<accounts, contacts, tasks, activities>>
  BY DEF CommitOpportunity
<1>4. row \in OpportunityRows
  BY <1>1, <1>2, CommandOf, WorthTyped DEF CommandShape, OpportunityRows
<1> HIDE DEF row
<1>5. c \notin DOMAIN opportunities
  BY <1>2 DEF Made
<1>6. /\ DOMAIN opportunities' = DOMAIN opportunities \cup {c} /\ opportunities'[c] = row
      /\ \A o \in DOMAIN opportunities :
           o \in DOMAIN opportunities' /\ opportunities'[o] = opportunities[o]
  BY <1>3, <1>5 DEF Put
<1>7. /\ NamesKept /\ NamesUnique' /\ MasterKept /\ settings'.version >= settings.version
      /\ (settings' = NoSettings \/ settings'.version \in Nat \ {0})
      /\ UNCHANGED <<parties, names, products, warehouses, settings>>
      /\ \A s \in DOMAIN names'["site"] : names'["site"][s].parent \in DOMAIN names'["entity"]
      /\ \A t \in NameTables : DOMAIN names'[t] \subseteq Ids
  BY MasterStays
<1>8. CrmKept
  BY <1>0, <1>3, <1>6 DEF CrmKept, TablesTyped
<1>9. TablesTyped'
  <2>1. \A o \in DOMAIN opportunities' : opportunities'[o] \in OpportunityRows
    BY <1>0, <1>4, <1>6 DEF TablesTyped, OpportunityRows
  <2>2. DOMAIN opportunities' \subseteq Ids
    BY <1>0, <1>6 DEF TablesTyped, Ids
  <2> QED
    BY <1>0, <1>3, <1>7, <2>1, <2>2 DEF TablesTyped, OpportunityRows
<1>10. NewRowsOK(c)
  <2>1. \A d \in Calls : Made(d)' => d = c \/ Made(d)
    BY <1>3, <1>6, <1>7 DEF Made
  <2> QED
    BY <1>3, <1>7, <2>1 DEF NewRowsOK
<1> QED
  BY <1>2, <1>7, <1>8, <1>9, <1>10, WritingKeeps DEF Kept

LEMMA TaskCommits ==
  ASSUME RecordsInv, NEW c \in Calls, CommitTask(c), UNCHANGED <<masterTables, settings>>
  PROVE  RecordsInv' /\ Kept /\ NewRowsOK(c)
<1> DEFINE row == [account |-> command[c].account, opportunity |-> command[c].opportunity,
                   status |-> "open", version |-> 1]
<1>0. TablesTyped /\ TypeOK
  BY DEF RecordsInv, TypeInv
<1>1. Commit(c, "task", Stored(c, 1, <<"open">>), <<>>) /\ command[c].op = "task"
  BY DEF CommitTask
<1>2. /\ pc[c] = "batch" /\ UNCHANGED <<command, seen>> /\ ~Made(c)
      /\ pc' = [pc EXCEPT ![c] = "done"]
      /\ \E hash, info : idempotency' = idempotency \cup {Row(Claim(c), hash, c, info)}
      /\ AnswersTyped(c) /\ HandlerOK(c)
  BY <1>1, Commits
<1>3. tasks' = Put(tasks, c, row) /\ UNCHANGED <<accounts, contacts, opportunities, activities>>
  BY DEF CommitTask
<1>4. /\ row.account \in DOMAIN accounts
      /\ row.opportunity # None => BelongsTo(opportunities, row.opportunity, row.account)
  BY <1>1, <1>2 DEF HandlerOK, CheckedOK
<1>5. row \in TaskRows
  BY <1>1, <1>2, CommandOf DEF CommandShape, TaskRows
<1> HIDE DEF row
<1>6. c \notin DOMAIN tasks
  BY <1>2 DEF Made
<1>7. /\ DOMAIN tasks' = DOMAIN tasks \cup {c} /\ tasks'[c] = row
      /\ \A t \in DOMAIN tasks : t \in DOMAIN tasks' /\ tasks'[t] = tasks[t]
  BY <1>3, <1>6 DEF Put
<1>8. /\ NamesKept /\ NamesUnique' /\ MasterKept /\ settings'.version >= settings.version
      /\ (settings' = NoSettings \/ settings'.version \in Nat \ {0})
      /\ UNCHANGED <<parties, names, products, warehouses, settings>>
      /\ \A s \in DOMAIN names'["site"] : names'["site"][s].parent \in DOMAIN names'["entity"]
      /\ \A t \in NameTables : DOMAIN names'[t] \subseteq Ids
  BY MasterStays
<1>9. CrmKept
  <2>1. /\ \A a \in DOMAIN accounts : a \in DOMAIN accounts' /\ accounts'[a] = accounts[a]
        /\ \A x \in DOMAIN activities : x \in DOMAIN activities' /\ activities'[x] = activities[x]
        /\ \A i \in DOMAIN contacts :
             i \in DOMAIN contacts' /\ contacts'[i].account = contacts[i].account
        /\ \A o \in DOMAIN opportunities :
             /\ o \in DOMAIN opportunities' /\ opportunities'[o].account = opportunities[o].account
             /\ opportunities'[o].version >= opportunities[o].version
    BY <1>0, <1>3 DEF TablesTyped
  <2> QED
    BY <1>7, <2>1, Zenon DEF CrmKept
<1>10. TablesTyped'
  <2>1. \A t \in DOMAIN tasks' : tasks'[t] \in TaskRows
    BY <1>0, <1>5, <1>7 DEF TablesTyped, TaskRows
  <2> QED
    BY <1>0, <1>3, <1>8, <2>1 DEF TablesTyped, TaskRows
<1>11. NewRowsOK(c)
  <2>1. \A d \in Calls : Made(d)' => d = c \/ Made(d)
    BY <1>3, <1>7, <1>8 DEF Made
  <2>2. TaskOK(c)'
    BY <1>3, <1>4, <1>7 DEF TaskOK, BelongsTo
  <2>3. \A t \in DOMAIN tasks' : t \in DOMAIN tasks \/ TaskOK(t)'
    BY <1>7, <2>2
  <2> QED
    BY <1>3, <1>8, <2>1, <2>3 DEF NewRowsOK
<1> QED
  BY <1>2, <1>8, <1>9, <1>10, <1>11, WritingKeeps DEF Kept

LEMMA CompleteCommits ==
  ASSUME RecordsInv, NEW c \in Calls, CommitComplete(c), UNCHANGED <<masterTables, settings>>
  PROVE  RecordsInv' /\ Kept /\ NewRowsOK(c)
<1>0. TablesTyped /\ TypeOK
  BY DEF RecordsInv, TypeInv
<1>1. PICK t : t = command[c].task
  OBVIOUS
<1>2. \E told, payload : Commit(c, "task", told, payload) /\ command[c].op = "complete"
  BY DEF CommitComplete
<1>3. /\ pc[c] = "batch" /\ UNCHANGED <<command, seen>> /\ ~Made(c)
      /\ pc' = [pc EXCEPT ![c] = "done"]
      /\ \E hash, info : idempotency' = idempotency \cup {Row(Claim(c), hash, c, info)}
      /\ AnswersTyped(c) /\ HandlerOK(c)
  BY <1>2, Commits
<1>4. /\ tasks' = IF tasks[t].status = "open"
                  THEN [tasks EXCEPT ![t].status = "completed", ![t].version = @ + 1]
                  ELSE tasks
      /\ UNCHANGED <<accounts, contacts, opportunities, activities>>
  BY <1>1 DEF CommitComplete
<1>5. t \in DOMAIN tasks
  BY <1>1, <1>2, <1>3 DEF HandlerOK, CheckedOK
<1> DEFINE row == [tasks[t] EXCEPT !.status = "completed", !.version = @ + 1]
<1>6. tasks[t].status = "open" => tasks' = [tasks EXCEPT ![t] = row]
  BY <1>4, Zenon
<1>7. row \in TaskRows
  <2>1. PICK old \in TaskRows : old = tasks[t]
    BY <1>0, <1>5 DEF TablesTyped, TaskRows
  <2> DEFINE other == [old EXCEPT !.status = "completed"]
  <2>2. other \in TaskRows
    BY DEF TaskRows
  <2> HIDE DEF other
  <2>3. [other EXCEPT !.version = @ + 1] \in TaskRows
    BY <2>2 DEF TaskRows
  <2> QED
    BY <2>1, <2>3, Zenon DEF other
<1>8. \A u \in DOMAIN tasks :
        /\ u \in DOMAIN tasks'
        /\ tasks'[u] = tasks[u] \/ (u = t /\ tasks[t].status = "open" /\ tasks'[t] = row)
  <2> HIDE DEF row
  <2> QED
    BY <1>4, <1>6
<1>9. DOMAIN tasks' = DOMAIN tasks
  <2> HIDE DEF row
  <2> QED
    BY <1>4, <1>6
<1>10. /\ NamesKept /\ NamesUnique' /\ MasterKept /\ settings'.version >= settings.version
       /\ (settings' = NoSettings \/ settings'.version \in Nat \ {0})
       /\ UNCHANGED <<parties, names, products, warehouses, settings>>
       /\ \A s \in DOMAIN names'["site"] : names'["site"][s].parent \in DOMAIN names'["entity"]
       /\ \A n \in NameTables : DOMAIN names'[n] \subseteq Ids
  BY MasterStays
<1>11. CrmKept
  <2>1. /\ \A a \in DOMAIN accounts : a \in DOMAIN accounts' /\ accounts'[a] = accounts[a]
        /\ \A x \in DOMAIN activities : x \in DOMAIN activities' /\ activities'[x] = activities[x]
        /\ \A i \in DOMAIN contacts :
             i \in DOMAIN contacts' /\ contacts'[i].account = contacts[i].account
        /\ \A o \in DOMAIN opportunities :
             /\ o \in DOMAIN opportunities' /\ opportunities'[o].account = opportunities[o].account
             /\ opportunities'[o].version >= opportunities[o].version
    BY <1>0, <1>4 DEF TablesTyped
  <2> QED
    BY <1>8, <2>1, Zenon DEF CrmKept
<1> HIDE DEF row
<1>12. TablesTyped'
  <2>1. \A u \in DOMAIN tasks' : tasks'[u] \in TaskRows
    BY <1>0, <1>7, <1>8, <1>9 DEF TablesTyped, TaskRows
  <2> QED
    BY <1>0, <1>4, <1>10, <2>1 DEF TablesTyped, TaskRows
<1>13. NewRowsOK(c)
  <2>1. \A d \in Calls : Made(d)' => d = c \/ Made(d)
    BY <1>4, <1>9, <1>10 DEF Made
  <2> QED
    BY <1>4, <1>9, <1>10, <2>1 DEF NewRowsOK
<1> QED
  BY <1>3, <1>10, <1>11, <1>12, <1>13, WritingKeeps DEF Kept

LEMMA StageCommits ==
  ASSUME RecordsInv, NEW c \in Calls, CommitStage(c), UNCHANGED <<masterTables, settings>>
  PROVE  RecordsInv' /\ Kept /\ NewRowsOK(c)
<1>0. TablesTyped /\ TypeOK
  BY DEF RecordsInv, TypeInv
<1>1. PICK o, worth : o = command[c].opportunity /\ worth = Worth(command[c])
  OBVIOUS
<1>2. \E told, payload : Commit(c, "opportunity", told, payload) /\ command[c].op = "stage"
  BY DEF CommitStage
<1>3. /\ pc[c] = "batch" /\ UNCHANGED <<command, seen>> /\ ~Made(c)
      /\ pc' = [pc EXCEPT ![c] = "done"]
      /\ \E hash, info : idempotency' = idempotency \cup {Row(Claim(c), hash, c, info)}
      /\ AnswersTyped(c) /\ HandlerOK(c)
  BY <1>2, Commits
<1>4. /\ opportunities' = [opportunities EXCEPT ![o].worth = worth, ![o].version = @ + 1]
      /\ UNCHANGED <<accounts, contacts, tasks, activities>>
  BY <1>1 DEF CommitStage
<1>5. o \in DOMAIN opportunities /\ worth \in Worths
  BY <1>1, <1>2, <1>3, CommandOf, WorthTyped DEF HandlerOK, CheckedOK, CommandShape
<1> DEFINE row == [opportunities[o] EXCEPT !.worth = worth, !.version = @ + 1]
<1>6. opportunities' = [opportunities EXCEPT ![o] = row]
  BY <1>4, Zenon
<1>7. /\ row \in OpportunityRows /\ row.account = opportunities[o].account
      /\ row.version = opportunities[o].version + 1
  <2>1. PICK old \in OpportunityRows : old = opportunities[o]
    BY <1>0, <1>5 DEF TablesTyped, OpportunityRows
  <2> DEFINE other == [old EXCEPT !.worth = worth]
  <2>2. other \in OpportunityRows /\ other.account = old.account /\ other.version = old.version
    BY <1>5 DEF OpportunityRows
  <2> HIDE DEF other
  <2>3. /\ [other EXCEPT !.version = @ + 1] \in OpportunityRows
        /\ [other EXCEPT !.version = @ + 1].account = old.account
        /\ [other EXCEPT !.version = @ + 1].version = old.version + 1
    BY <2>2 DEF OpportunityRows
  <2>4. row = [other EXCEPT !.version = @ + 1]
    BY <2>1, Zenon DEF other
  <2> HIDE DEF row
  <2> QED
    BY <2>1, <2>3, <2>4
<1> HIDE DEF row
<1>8. /\ DOMAIN opportunities' = DOMAIN opportunities
      /\ opportunities'[o] = row
      /\ \A i \in DOMAIN opportunities : i # o => opportunities'[i] = opportunities[i]
  BY <1>5, <1>6
<1>9. /\ NamesKept /\ NamesUnique' /\ MasterKept /\ settings'.version >= settings.version
      /\ (settings' = NoSettings \/ settings'.version \in Nat \ {0})
      /\ UNCHANGED <<parties, names, products, warehouses, settings>>
      /\ \A s \in DOMAIN names'["site"] : names'["site"][s].parent \in DOMAIN names'["entity"]
      /\ \A n \in NameTables : DOMAIN names'[n] \subseteq Ids
  BY MasterStays
<1>10. CrmKept
  <2>1. \A i \in DOMAIN opportunities :
          /\ i \in DOMAIN opportunities' /\ opportunities'[i].account = opportunities[i].account
          /\ opportunities'[i].version >= opportunities[i].version
    <3> SUFFICES ASSUME NEW i \in DOMAIN opportunities
                 PROVE  /\ opportunities'[i].account = opportunities[i].account
                        /\ opportunities'[i].version >= opportunities[i].version
      BY <1>8
    <3>1. opportunities[i].version \in Nat
      BY <1>0 DEF TablesTyped
    <3> QED
      BY <1>7, <1>8, <3>1
  <2>2. /\ \A a \in DOMAIN accounts : a \in DOMAIN accounts' /\ accounts'[a] = accounts[a]
        /\ \A x \in DOMAIN activities : x \in DOMAIN activities' /\ activities'[x] = activities[x]
        /\ \A i \in DOMAIN contacts :
             i \in DOMAIN contacts' /\ contacts'[i].account = contacts[i].account
        /\ \A t \in DOMAIN tasks : t \in DOMAIN tasks' /\ tasks'[t] = tasks[t]
    BY <1>4
  <2> QED
    BY <2>1, <2>2, Zenon DEF CrmKept
<1>11. TablesTyped'
  <2>1. \A i \in DOMAIN opportunities' : opportunities'[i] \in OpportunityRows
    BY <1>0, <1>7, <1>8 DEF TablesTyped, OpportunityRows
  <2> QED
    BY <1>0, <1>4, <1>8, <1>9, <2>1 DEF TablesTyped, OpportunityRows
<1>12. NewRowsOK(c)
  <2>1. \A d \in Calls : Made(d)' => d = c \/ Made(d)
    BY <1>4, <1>8, <1>9 DEF Made
  <2> QED
    BY <1>4, <1>9, <2>1 DEF NewRowsOK
<1> QED
  BY <1>3, <1>9, <1>10, <1>11, <1>12, WritingKeeps DEF Kept

LEMMA SettingsCommits ==
  ASSUME RecordsInv, NEW c \in Calls, CommitSettings(c), UNCHANGED <<masterTables, crmTables>>
  PROVE  RecordsInv' /\ Kept /\ NewRowsOK(c)
<1>0. TablesTyped /\ TypeOK /\ HandlersTyped
  BY DEF RecordsInv, TypeInv
<1>1. /\ pc[c] = "batch" /\ UNCHANGED <<command, seen, answer>>
      /\ pc' = [pc EXCEPT ![c] = "show"]
      /\ \E hash, info : idempotency' = idempotency \cup {Row(Claim(c), hash, c, info)}
  BY DEF CommitSettings, Write, Row, Goto
<1>2. AnswersTyped(c)
  BY <1>0, <1>1 DEF AnswersTyped, HandlersTyped, TypeOK
<1>3. seen[c].version \in Nat
  BY <1>0 DEF HandlersTyped
<1>4. /\ settings' = NoSettings \/ settings'.version \in Nat \ {0}
      /\ settings'.version >= settings.version /\ settings'.version \in Nat
  <2>1. CASE settings.version = seen[c].version
    <3>1. settings' = [version |-> seen[c].version + 1, buckets |-> command[c].buckets]
      BY <2>1 DEF CommitSettings
    <3>2. settings'.version = seen[c].version + 1
      BY <3>1
    <3> QED
      BY <1>3, <2>1, <3>2
  <2>2. CASE settings.version # seen[c].version
    BY <1>0, <2>2 DEF CommitSettings, TypeOK, TablesTyped
  <2> QED
    BY <2>1, <2>2
<1>5. UNCHANGED <<parties, names, products, warehouses, accounts, contacts, opportunities,
                  tasks, activities>>
  BY DEF masterTables, crmTables
<1>6. TablesTyped'
  BY <1>0, <1>4, <1>5 DEF TablesTyped
<1>7. NamesKept /\ NamesUnique'
  BY <1>5, NamesStay
<1>8. Kept
  BY <1>0, <1>4, <1>5, <1>7 DEF Kept, MasterKept, CrmKept, TablesTyped
<1>9. ~(\E d \in Calls : Made(d)' /\ ~Made(d)) /\ NewRowsOK(c)
  BY <1>5 DEF NewRowsOK, Made, RecordsInv, TypeInv, ReferencesOK
<1> QED
  BY <1>1, <1>2, <1>4, <1>6, <1>7, <1>8, <1>9, WritingKeeps

----------------------------------------------------------------------------
(* The invariant.                                                          *)

LEMMA InitRecords ==
  ASSUME CallsAssumption, RecordsAssumption, Init
  PROVE  RecordsInv
<1>1. PICK b \in Beginnings :
        /\ parties = b.parties /\ names = b.names
        /\ products = b.products /\ warehouses = b.warehouses
        /\ accounts = b.accounts /\ contacts = b.contacts
        /\ opportunities = b.opportunities /\ tasks = b.tasks
        /\ activities = [i \in {} |-> None]
        /\ settings = b.settings
  BY DEF Init
<1>2. WellBegun(b)
  BY DEF RecordsAssumption
<1>3. /\ DOMAIN parties \subseteq Earlier /\ DOMAIN products \subseteq Earlier
      /\ DOMAIN warehouses \subseteq Earlier /\ DOMAIN accounts \subseteq Earlier
      /\ DOMAIN contacts \subseteq Earlier /\ DOMAIN opportunities \subseteq Earlier
      /\ DOMAIN tasks \subseteq Earlier /\ DOMAIN activities = {}
  BY <1>1, <1>2 DEF WellBegun
<1>4. /\ DOMAIN names = NameTables
      /\ \A t \in NameTables :
           /\ DOMAIN names[t] \subseteq Earlier
           /\ \A i, j \in DOMAIN names[t] : names[t][i].code = names[t][j].code => i = j
      /\ \A s \in DOMAIN names["site"] : names["site"][s].parent \in DOMAIN names["entity"]
  BY <1>1, <1>2 DEF WellBegun
<1>5. /\ \A a \in DOMAIN accounts : accounts[a].party \in Optional(DOMAIN parties)
      /\ \A i \in DOMAIN contacts : contacts[i] \in ContactRows
      /\ \A o \in DOMAIN opportunities : opportunities[o] \in OpportunityRows
  BY <1>1, <1>2 DEF WellBegun, ContactRows, OpportunityRows
<1>6. \A t \in DOMAIN tasks :
        /\ tasks[t] \in [account : DOMAIN accounts, opportunity : Optional(DOMAIN opportunities),
                         status : {"open", "completed"}, version : Nat]
        /\ tasks[t].opportunity # None =>
             opportunities[tasks[t].opportunity].account = tasks[t].account
  BY <1>1, <1>2 DEF WellBegun
<1>7. settings = NoSettings \/ settings.version \in Nat \ {0}
  BY <1>1, <1>2 DEF WellBegun
<1>8. /\ idempotency = {} /\ pc = [c \in Calls |-> "idle"]
      /\ command = [c \in Calls |-> NoCommand] /\ seen = [c \in Calls |-> NothingSeen]
      /\ answer = [c \in Calls |-> Unanswered]
  BY DEF Init, CommonInit
<1>9. \A c \in Calls : ~Made(c)
  BY <1>3, <1>4 DEF Made, CallsAssumption
<1>10. TypeOK
  <2>1. \A o \in DOMAIN opportunities : opportunities[o].worth \in Worths
    BY <1>5 DEF OpportunityRows
  <2>2. \A c \in Calls : answer[c].kind = None
    BY <1>8 DEF Unanswered
  <2>3. \A t \in DOMAIN tasks : tasks[t].status \in {"open", "completed"}
    BY <1>6
  <2> QED
    BY <1>4, <1>5, <1>7, <1>8, <2>1, <2>2, <2>3 DEF TypeOK, Optional
<1>11. ReferencesOK
  <2>1. \A t \in DOMAIN tasks : TaskOK(t)
    BY <1>6 DEF TaskOK, BelongsTo, Optional
  <2>2. DOMAIN products \cap Calls = {} /\ DOMAIN warehouses \cap Calls = {}
    BY <1>3 DEF CallsAssumption
  <2> QED
    BY <1>3, <1>4, <2>1, <2>2 DEF ReferencesOK, TaskOK
<1>12. HandlersTyped
  <2>1. NothingSeen \in [found : Seq(Ids), version : Nat]
    BY DEF NothingSeen
  <2> HIDE DEF NothingSeen
  <2> QED
    BY <1>8, <2>1 DEF HandlersTyped
<1>13. TablesTyped
  <2>1. settings.version \in Nat
    BY <1>7 DEF NoSettings
  <2>2. \A t \in DOMAIN tasks : tasks[t] \in TaskRows
    BY <1>3, <1>6 DEF TaskRows, Optional, Ids
  <2> QED
    BY <1>3, <1>4, <1>5, <2>1, <2>2 DEF TablesTyped, ContactRows, OpportunityRows, TaskRows, Ids
<1>14. NamesUnique
  BY <1>4 DEF NamesUnique
<1>15. MadeOK
  BY <1>3, <1>9 DEF MadeOK, CallsAssumption
<1>16. \A c \in Calls : HandlerOK(c)
  BY <1>8 DEF HandlerOK, PlaceOK, FoundOK, CheckedOK, NothingSeen
<1> QED
  BY <1>10, <1>11, <1>12, <1>13, <1>14, <1>15, <1>16 DEF RecordsInv, TypeInv

LEMMA StepRecords ==
  ASSUME RecordsInv, NEW c \in Calls, Step(c)
  PROVE  RecordsInv'
<1>1. CASE MasterStep(c) /\ UNCHANGED <<crmTables, settings>>
  <2>1. CASE MasterQuery(c) /\ UNCHANGED masterTables
    BY <1>1, <2>1, MasterReads DEF MasterStep, Still
  <2>2. CASE CommitParty(c)
    BY <1>1, <2>2, PartyCommits
  <2>3. CASE CommitProduct(c)
    BY <1>1, <2>3, ProductCommits
  <2>4. CASE CommitWarehouse(c)
    BY <1>1, <2>4, WarehouseCommits
  <2> QED
    BY <1>1, <2>1, <2>2, <2>3, <2>4 DEF MasterStep
<1>2. CASE CrmStep(c) /\ UNCHANGED <<masterTables, settings>>
  <2>1. CASE CrmQuery(c) /\ UNCHANGED crmTables
    BY <1>2, <2>1, CrmReads DEF CrmStep, Still
  <2>2. CASE CommitAccount(c)
    BY <1>2, <2>2, AccountCommits
  <2>3. CASE CommitContact(c)
    BY <1>2, <2>3, ContactCommits
  <2>4. CASE CommitOpportunity(c)
    BY <1>2, <2>4, OpportunityCommits
  <2>5. CASE CommitActivity(c)
    BY <1>2, <2>5, ActivityCommits
  <2>6. CASE CommitTask(c)
    BY <1>2, <2>6, TaskCommits
  <2>7. CASE CommitComplete(c)
    BY <1>2, <2>7, CompleteCommits
  <2>8. CASE CommitStage(c)
    BY <1>2, <2>8, StageCommits
  <2> QED
    BY <1>2, <2>1, <2>2, <2>3, <2>4, <2>5, <2>6, <2>7, <2>8 DEF CrmStep
<1>3. CASE SettingsStep(c) /\ UNCHANGED <<masterTables, crmTables>>
  <2>1. CASE CommitSettings(c)
    BY <1>3, <2>1, SettingsCommits
  <2>2. CASE \/ SettingsReplay(c) \/ ReadSettings(c) \/ MissSettings(c) \/ InitializeSettings(c)
             \/ AbortSettings(c) \/ ShowSettings(c)
    BY <1>3, <2>2, SettingsReads DEF SettingsStep, Still
  <2> QED
    BY <1>3, <2>1, <2>2 DEF SettingsStep
<1> QED
  BY <1>1, <1>2, <1>3 DEF Step

LEMMA QuietRecords ==
  ASSUME RecordsInv, UNCHANGED vars
  PROVE  RecordsInv'
<1>1. /\ UNCHANGED <<idempotency, outbox, pc, command, seen, answer, settings>> /\ Still
      /\ UNCHANGED <<parties, names, products, warehouses, accounts, contacts, opportunities,
                     tasks, activities>>
  BY DEF vars, common, masterTables, crmTables, Still
<1>2. Kept /\ TablesTyped'
  BY <1>1, StillKept
<1>3. TypeOK'
  BY <1>1 DEF TypeOK, RecordsInv, TypeInv
<1>4. ReferencesOK'
  BY <1>1, StillRefers
<1>5. HandlersTyped' /\ NamesUnique'
  BY <1>1 DEF HandlersTyped, NamesUnique, RecordsInv
<1>6. MadeOK'
  <2>1. \A d : Made(d)' <=> Made(d)
    BY <1>1 DEF Made
  <2> QED
    BY <1>1, <2>1 DEF MadeOK, RecordsInv
<1>7. \A d \in Calls : HandlerOK(d)'
  BY <1>1, <1>2, OthersRely
<1> QED
  BY <1>2, <1>3, <1>4, <1>5, <1>6, <1>7 DEF RecordsInv, TypeInv

LEMMA NextRecords ==
  ASSUME RecordsAssumption, KeysInv, RecordsInv, [Next]_vars
  PROVE  RecordsInv'
<1>1. CASE \E c \in Calls : Arrive(c)
  BY <1>1, ArriveKeeps
<1>2. CASE \E c \in Calls : Step(c)
  BY <1>2, StepRecords
<1>3. CASE \E row \in idempotency : ExpireKey(row) /\ Tables
  BY <1>3, ExpireRecords
<1>4. CASE UNCHANGED vars
  BY <1>4, QuietRecords
<1> QED
  BY <1>1, <1>2, <1>3, <1>4 DEF Next, Quiet

\* Records refer to what is there, and to what their call asked for: although
\* every handler queries in one request and writes in another, names keep one
\* row per code, a product has the rows of the codes it was sent with, and an
\* activity or task stays within its account.
THEOREM RecordsTyped == Spec => []TypeInv
<1>1. Init => KeysInv /\ RecordsInv
  BY InitKeys, InitRecords, CallsAssumption, RecordsAssumption
<1>2. KeysInv /\ RecordsInv /\ [Next]_vars => (KeysInv /\ RecordsInv)'
  BY NextKeys, NextRecords, RecordsAssumption
<1>3. KeysInv /\ RecordsInv => TypeInv
  BY DEF RecordsInv
<1> QED
  BY <1>1, <1>2, <1>3, PTL DEF Spec

----------------------------------------------------------------------------
(* What calls are told.                                                    *)

\* What a call was told is stored, in a row that is there.
Truth(cmd, by, told) ==
  /\ StoredFor(cmd, by, told) /\ told.version \in Nat
  /\ cmd.op = "complete" => cmd.task \in DOMAIN tasks
  /\ cmd.op = "stage" => cmd.opportunity \in DOMAIN opportunities

\* An idempotency row is of a handler that has written, and tells the truth
\* about what it wrote.
RowOK(row) ==
  /\ row.by \in Calls /\ pc[row.by] \in {"show", "done"}
  /\ row.claim = Claim(row.by) /\ row.hash = Hash(row.by)
  /\ command[row.by].op # "view-settings"
  /\ IF command[row.by].op = "update-settings" THEN seen[row.by].version < settings.version
     ELSE Truth(command[row.by], row.by, row.told)

Answered(c) == \E row \in idempotency : row.claim = Claim(c) /\ row.hash = Hash(c)

ToldOK(c) ==
  /\ Truth(command[c], answer[c].by, answer[c].told)
  /\ pc[c] = "done"
  /\ \/ answer[c].by = None /\ command[c].op = "view-settings"
     \/ \E row \in idempotency : /\ row.by = answer[c].by
                                 /\ row.claim = Claim(c) /\ row.hash = Hash(c)

LeftNothing(c) ==
  /\ ~Made(c)
  /\ \A row \in idempotency : row.by # c
  /\ \A n \in DOMAIN outbox : outbox[n].by # c

HeardOK(c) ==
  /\ pc[c] # "done" => answer[c].kind = None
  /\ pc[c] \in {"show", "show-replayed"} => command[c].op = "update-settings" /\ Answered(c)
  /\ answer[c].kind \in Refusals => LeftNothing(c)
  /\ answer[c].kind \in {"ok", "replayed"} => ToldOK(c)

AnswersInv ==
  /\ \A row \in idempotency : RowOK(row)
  /\ \A r, s \in idempotency : r.claim = s.claim => r = s
  /\ \A c \in Calls : HeardOK(c)

\* Two commands that claim the same key with the same hash are the same.
LEMMA SameCommand ==
  ASSUME NEW x, NEW y, Parsed(x), Parsed(y), x.op = y.op, x.key = y.key,
         [x EXCEPT !.key = None] = [y EXCEPT !.key = None]
  PROVE  x = y
<1>1. CASE x.op = "party"
  BY <1>1 DEF Parsed
<1>2. CASE x.op = "product"
  BY <1>2 DEF Parsed
<1>3. CASE x.op = "warehouse"
  BY <1>3 DEF Parsed
<1>4. CASE x.op = "account"
  BY <1>4 DEF Parsed
<1>5. CASE x.op = "contact"
  BY <1>5 DEF Parsed
<1>6. CASE x.op = "opportunity"
  BY <1>6 DEF Parsed
<1>7. CASE x.op = "stage"
  BY <1>7 DEF Parsed
<1>8. CASE x.op = "activity"
  BY <1>8 DEF Parsed
<1>9. CASE x.op = "task"
  BY <1>9 DEF Parsed
<1>10. CASE x.op = "complete"
  BY <1>10 DEF Parsed
<1>11. CASE x.op = "update-settings"
  BY <1>11 DEF Parsed
<1>12. CASE x.op = "view-settings"
  BY <1>12 DEF Parsed
<1>13. x.op \in MasterOps \cup CrmOps \cup SettingsOps
  BY DEF Parsed
<1> QED
  BY <1>1, <1>2, <1>3, <1>4, <1>5, <1>6, <1>7, <1>8, <1>9, <1>10, <1>11, <1>12, <1>13
     DEF MasterOps, CrmOps, SettingsOps

LEMMA TruthKept ==
  ASSUME RecordsInv, TablesTyped', Kept, NEW cmd, Parsed(cmd), NEW by, NEW told,
         cmd.op = "update-settings" => seen'[by] = seen[by], Truth(cmd, by, told)
  PROVE  Truth(cmd, by, told)'
<1>0. TablesTyped /\ told.version \in Nat /\ settings.version \in Nat /\ settings'.version \in Nat
  BY DEF RecordsInv, Truth, TablesTyped
<1>1. CASE cmd.op \in {"party", "product", "warehouse", "account"}
  BY <1>1 DEF Truth, StoredFor, Kept, MasterKept, CrmKept
<1>2. CASE cmd.op \in {"contact", "opportunity", "activity"}
  BY <1>2 DEF Truth, StoredFor, BelongsTo, Kept, CrmKept
<1>3. CASE cmd.op = "task"
  <2>1. by \in DOMAIN tasks /\ tasks[by].account = cmd.account
    BY <1>3 DEF Truth, StoredFor, BelongsTo
  <2>2. PICK old \in TaskRows : old = tasks[by]
    BY <1>0, <2>1 DEF TablesTyped, TaskRows
  <2>3. tasks'[by] = [old EXCEPT !.status = "completed", !.version = @ + 1] =>
          tasks'[by].account = old.account
    BY <2>2 DEF TaskRows
  <2>4. by \in DOMAIN tasks' /\ tasks'[by].account = cmd.account
    BY <2>1, <2>2, <2>3 DEF Kept, CrmKept
  <2> QED
    BY <1>0, <1>3, <2>4 DEF Truth, StoredFor, BelongsTo
<1>4. CASE cmd.op = "complete"
  <2>1. PICK t : t = cmd.task
    OBVIOUS
  <2>2. t \in DOMAIN tasks /\ tasks[t].status = "completed" /\ told.version = tasks[t].version
    BY <1>4, <2>1 DEF Truth, StoredFor
  <2>3. t \in DOMAIN tasks' /\ tasks'[t] = tasks[t]
    BY <2>2 DEF Kept, CrmKept
  <2> QED
    BY <1>0, <1>4, <2>1, <2>2, <2>3 DEF Truth, StoredFor
<1>5. CASE cmd.op = "stage"
  <2>1. PICK o : o = cmd.opportunity
    OBVIOUS
  <2>2. o \in DOMAIN opportunities /\ told.version <= opportunities[o].version
    BY <1>5, <2>1 DEF Truth, StoredFor
  <2>3. o \in DOMAIN opportunities' /\ opportunities'[o].version >= opportunities[o].version
    BY <2>2 DEF Kept, CrmKept
  <2>4. opportunities[o].version \in Nat /\ opportunities'[o].version \in Nat
    BY <1>0, <2>2, <2>3 DEF TablesTyped
  <2>5. told.version <= opportunities'[o].version
    BY <1>0, <2>2, <2>3, <2>4
  <2>6. told.value = Worth(cmd)
    BY <1>5 DEF Truth, StoredFor
  <2> QED
    BY <1>0, <1>5, <2>1, <2>3, <2>5, <2>6 DEF Truth, StoredFor
<1>6. CASE cmd.op = "update-settings"
  <2>1. seen[by].version < told.version /\ told.version <= settings.version
    BY <1>6 DEF Truth, StoredFor
  <2>2. told.version <= settings'.version
    BY <1>0, <2>1 DEF Kept
  <2>3. seen'[by].version < told.version
    BY <1>6, <2>1
  <2>4. StoredFor(cmd, by, told)'
    BY <1>6, <2>2, <2>3 DEF StoredFor
  <2> QED
    BY <1>0, <1>6, <2>4 DEF Truth
<1>7. CASE cmd.op = "view-settings"
  <2>1. told.version <= settings.version
    BY <1>7 DEF Truth, StoredFor
  <2>2. told.version <= settings'.version
    BY <1>0, <2>1 DEF Kept
  <2> QED
    BY <1>0, <1>7, <2>2 DEF Truth, StoredFor
<1> QED
  BY <1>1, <1>2, <1>3, <1>4, <1>5, <1>6, <1>7 DEF Parsed, MasterOps, CrmOps, SettingsOps

LEMMA InvAnswers ==
  ASSUME AnswersInv
  PROVE  AnswersAreTrue
<1> SUFFICES ASSUME NEW c \in Calls
             PROVE  /\ answer[c].kind \in Refusals =>
                         /\ ~Made(c)
                         /\ \A row \in idempotency : row.by # c
                         /\ \A n \in DOMAIN outbox : outbox[n].by # c
                    /\ answer[c].kind \in {"ok", "replayed"} =>
                         /\ StoredFor(command[c], answer[c].by, answer[c].told)
                         /\ answer[c].by # None =>
                              Claim(c) = Claim(answer[c].by) /\ Hash(c) = Hash(answer[c].by)
  BY DEF AnswersAreTrue
<1>1. HeardOK(c)
  BY DEF AnswersInv
<1>2. ASSUME answer[c].kind \in {"ok", "replayed"}, answer[c].by # None
      PROVE  Claim(c) = Claim(answer[c].by) /\ Hash(c) = Hash(answer[c].by)
  <2>1. PICK row \in idempotency : /\ row.by = answer[c].by
                                   /\ row.claim = Claim(c) /\ row.hash = Hash(c)
    BY <1>1, <1>2 DEF HeardOK, ToldOK
  <2>2. row.claim = Claim(row.by) /\ row.hash = Hash(row.by)
    BY DEF AnswersInv, RowOK
  <2> QED
    BY <2>1, <2>2
<1> QED
  BY <1>1, <1>2 DEF HeardOK, LeftNothing, ToldOK, Truth

----------------------------------------------------------------------------
(* Steps that answer without writing.                                      *)

LEMMA QuietAnswers ==
  ASSUME RecordsInv, TablesTyped', AnswersInv, NEW c \in Calls, Quietly(c), Kept,
         \A d \in Calls \ {c} : seen'[d] = seen[d] /\ answer'[d] = answer[d],
         pc[c] = "show" => seen'[c] = seen[c],
         \A d \in Calls : Made(d)' <=> Made(d), HeardOK(c)'
  PROVE  AnswersInv'
<1>0. HandlersTyped /\ TablesTyped /\ settings'.version >= settings.version
  BY DEF RecordsInv, Kept
<1>1. UNCHANGED <<idempotency, outbox, command>> /\ pc[c] \notin {"idle", "done"}
  BY DEF Quietly, Moves
<1>2. PICK step : pc' = [pc EXCEPT ![c] = step] /\ (pc[c] = "show" => step = "done")
  BY DEF Quietly, Moves
<1>3. \A d : Claim(d)' = Claim(d) /\ Hash(d)' = Hash(d)
  BY <1>1 DEF Claim, Hash
<1>4. \A d \in Calls : pc[d] \in {"show", "done"} => pc'[d] \in {"show", "done"} /\ seen'[d] = seen[d]
  BY <1>0, <1>1, <1>2 DEF HandlersTyped
<1>5. ASSUME NEW row \in idempotency'
      PROVE  RowOK(row)'
  <2>1. RowOK(row)
    BY <1>1 DEF AnswersInv
  <2>2. PICK by \in Calls : by = row.by /\ pc[by] \in {"show", "done"}
    BY <2>1 DEF RowOK
  <2>3. PICK cmd : cmd = command[by] /\ cmd = command'[by]
    BY <1>1
  <2>4. Parsed(cmd) /\ seen'[by] = seen[by]
    BY <1>0, <1>4, <2>2, <2>3 DEF HandlersTyped
  <2>5. cmd.op # "update-settings" => Truth(cmd, by, row.told)'
    BY <2>1, <2>2, <2>3, <2>4, TruthKept DEF RowOK
  <2>6. cmd.op = "update-settings" => seen'[by].version < settings'.version
    <3> SUFFICES ASSUME cmd.op = "update-settings"
                 PROVE  seen[by].version < settings'.version
      BY <2>4
    <3>1. seen[by].version < settings.version
      BY <2>1, <2>2, <2>3 DEF RowOK
    <3>2. seen[by].version \in Nat /\ settings.version \in Nat /\ settings'.version \in Nat
      BY <1>0, <2>2 DEF HandlersTyped, TablesTyped
    <3> QED
      BY <1>0, <3>1, <3>2
  <2>7. row.claim = Claim(by)' /\ row.hash = Hash(by)' /\ cmd.op # "view-settings"
    BY <1>3, <2>1, <2>2, <2>3 DEF RowOK
  <2> QED
    BY <1>4, <2>2, <2>3, <2>5, <2>6, <2>7 DEF RowOK
<1>6. ASSUME NEW d \in Calls \ {c}
      PROVE  HeardOK(d)'
  <2>1. HeardOK(d) /\ pc'[d] = pc[d] /\ answer'[d] = answer[d] /\ command'[d] = command[d]
    BY <1>0, <1>1, <1>2 DEF AnswersInv, HandlersTyped
  <2>2. ASSUME answer[d].kind \in {"ok", "replayed"}
        PROVE  ToldOK(d)'
    <3>1. ToldOK(d)
      BY <2>1, <2>2 DEF HeardOK
    <3>2. PICK cmd, by, told : cmd = command[d] /\ by = answer[d].by /\ told = answer[d].told
      OBVIOUS
    <3>3. Parsed(cmd)
      BY <1>0, <3>1, <3>2 DEF HandlersTyped, ToldOK
    <3>4. cmd.op = "update-settings" => seen'[by] = seen[by]
      BY <1>4, <3>1, <3>2 DEF ToldOK, AnswersInv, RowOK
    <3>5. Truth(cmd, by, told)'
      BY <3>1, <3>2, <3>3, <3>4, TruthKept DEF ToldOK
    <3> QED
      BY <1>1, <1>3, <2>1, <3>1, <3>2, <3>5 DEF ToldOK
  <2>3. LeftNothing(d) => LeftNothing(d)'
    BY <1>1 DEF LeftNothing
  <2>4. Answered(d) => Answered(d)'
    BY <1>1, <1>3 DEF Answered
  <2> QED
    BY <2>1, <2>2, <2>3, <2>4 DEF HeardOK
<1>7. \A r, s \in idempotency' : r.claim = s.claim => r = s
  BY <1>1 DEF AnswersInv
<1> QED
  BY <1>5, <1>6, <1>7 DEF AnswersInv

\* A handler that goes on has heard nothing yet.
LEMMA GoingHears ==
  ASSUME RecordsInv, AnswersInv, NEW c \in Calls, Quietly(c), NEW step, Goto(c, step),
         step # "done", step \in {"show", "show-replayed"} =>
           command[c].op = "update-settings" /\ Answered(c)
  PROVE  HeardOK(c)'
<1>1. HeardOK(c) /\ pc[c] # "done" /\ UNCHANGED <<idempotency, command, answer>>
  BY DEF AnswersInv, Quietly, Moves, Goto
<1>2. pc'[c] = step /\ answer'[c].kind = None
  BY <1>1 DEF HeardOK, Goto, RecordsInv, HandlersTyped
<1>3. Answered(c)' <=> Answered(c)
  BY <1>1 DEF Answered, Claim, Hash
<1> QED
  BY <1>1, <1>2, <1>3 DEF HeardOK, Refusals, None

LEMMA RefusedHears ==
  ASSUME RecordsInv, KeysInv, AnswersInv, NEW c \in Calls, NEW kind, Refuse(c, kind),
         kind \in Refusals, pc[c] \notin {"show", "done"}, UNCHANGED <<idempotency, outbox>>,
         Made(c)' <=> Made(c)
  PROVE  HeardOK(c)'
<1>1. pc'[c] = "done" /\ answer'[c].kind = kind
  BY DEF Refuse, Respond, RecordsInv, HandlersTyped
<1>2. LeftNothing(c)'
  BY DEF LeftNothing, RecordsInv, MadeOK, AnswersInv, RowOK, KeysInv, WritersOK
<1>3. kind \notin {"ok", "replayed"}
  BY DEF Refusals
<1> QED
  BY <1>1, <1>2, <1>3 DEF HeardOK

\* Who is answered from the row of its key is told the truth.
LEMMA ReplayedHears ==
  ASSUME RecordsInv, TablesTyped', AnswersInv, NEW c \in Calls, Quietly(c), Kept,
         NEW row \in LiveClaims(c), row.hash = Hash(c), command[c].op # "update-settings",
         Respond(c, "replayed", row.by, row.told)
  PROVE  HeardOK(c)'
<1>1. /\ row \in idempotency /\ row.claim = Claim(c) /\ RowOK(row)
      /\ UNCHANGED <<idempotency, command>> /\ pc[c] # "idle"
  BY DEF LiveClaims, Claims, AnswersInv, Quietly, Moves
<1>2. /\ pc'[c] = "done" /\ answer'[c].kind = "replayed"
      /\ answer'[c].by = row.by /\ answer'[c].told = row.told
  BY DEF Respond, RecordsInv, HandlersTyped
<1>3. PICK cmd, by, told : cmd = command[c] /\ by = row.by /\ told = row.told
  OBVIOUS
<1>4. Parsed(cmd) /\ Parsed(command[by])
  BY <1>1, <1>3 DEF RecordsInv, HandlersTyped, RowOK
<1>5. /\ command[by].op = cmd.op /\ command[by].key = cmd.key
      /\ [command[by] EXCEPT !.key = None] = [cmd EXCEPT !.key = None]
  BY <1>1, <1>3 DEF RowOK, Claim, Hash
<1>6. command[by] = cmd
  BY <1>4, <1>5, SameCommand
<1>7. Truth(cmd, by, told)
  BY <1>1, <1>3, <1>6 DEF RowOK
<1>8. Truth(cmd, by, told)'
  BY <1>3, <1>4, <1>7, TruthKept
<1>9. ToldOK(c)'
  BY <1>1, <1>2, <1>3, <1>8 DEF ToldOK, Claim, Hash
<1> QED
  BY <1>2, <1>9 DEF HeardOK, Refusals

Replays(c) ==
  \E row \in LiveClaims(c) : row.hash = Hash(c) /\ Respond(c, "replayed", row.by, row.told)

\* A step that leaves the tables as they are, and tells its call nothing, no,
\* or what is in the row of its key.
LEMMA ReadingAnswers ==
  ASSUME RecordsInv, KeysInv, AnswersInv, NEW c \in Calls, Quietly(c), Still, UNCHANGED settings,
         pc[c] # "show", \A d \in Calls \ {c} : seen'[d] = seen[d],
         \/ \E step : /\ Goto(c, step) /\ step # "done"
                      /\ step \in {"show", "show-replayed"} =>
                           command[c].op = "update-settings" /\ Answered(c)
         \/ \E kind \in Refusals : Refuse(c, kind)
         \/ command[c].op # "update-settings" /\ Replays(c)
  PROVE  AnswersInv'
<1>1. Kept /\ TablesTyped'
  BY StillKept
<1>2. \A d : Made(d)' <=> Made(d)
  BY DEF Made, Still, masterTables, crmTables
<1>3. UNCHANGED <<idempotency, outbox>> /\ pc[c] # "done"
  BY DEF Quietly, Moves
<1>4. HeardOK(c)'
  <2>1. CASE \E step : /\ Goto(c, step) /\ step # "done"
                       /\ step \in {"show", "show-replayed"} =>
                            command[c].op = "update-settings" /\ Answered(c)
    BY <2>1, GoingHears
  <2>2. CASE \E kind \in Refusals : Refuse(c, kind)
    BY <1>2, <1>3, <2>2, RefusedHears
  <2>3. CASE command[c].op # "update-settings" /\ Replays(c)
    BY <1>1, <2>3, ReplayedHears DEF Replays
  <2> QED
    BY <2>1, <2>2, <2>3
<1>5. \A d \in Calls \ {c} : answer'[d] = answer[d]
  BY DEF Goto, Refuse, Respond, Replays, RecordsInv, HandlersTyped
<1> QED
  BY <1>1, <1>2, <1>4, <1>5, QuietAnswers

LEMMA ReplayAnswers ==
  ASSUME RecordsInv, KeysInv, AnswersInv, NEW c \in Calls, Still, UNCHANGED settings,
         NEW step, step \notin {"done", "show", "show-replayed"},
         ReadReplay(c, step), command[c].op # "update-settings"
  PROVE  AnswersInv'
<1>1. Quietly(c) /\ pc[c] # "show" /\ UNCHANGED seen
  BY ReplayQuietly DEF ReadReplay, Reads
<1>2. Goto(c, step) \/ Replays(c) \/ Refuse(c, "key-conflict")
  BY DEF ReadReplay, Replays
<1> QED
  BY <1>1, <1>2, ReadingAnswers DEF Refusals

LEMMA AbortAnswers ==
  ASSUME RecordsInv, KeysInv, AnswersInv, NEW c \in Calls, Still, UNCHANGED settings,
         AbortUncaught(c) \/ AbortCaught(c), command[c].op # "update-settings"
  PROVE  AnswersInv'
<1>1. Quietly(c) /\ pc[c] # "show" /\ UNCHANGED seen
  BY AbortsQuietly DEF AbortUncaught, AbortCaught, Reads
<1>2. Refuse(c, "server-error") \/ Replays(c) \/ Refuse(c, "key-conflict")
  BY DEF AbortUncaught, AbortCaught, Replays
<1> QED
  BY <1>1, <1>2, ReadingAnswers DEF Refusals

\* A query that refuses or goes on.
LEMMA QueryAnswers ==
  ASSUME RecordsInv, KeysInv, AnswersInv, NEW c \in Calls, Still, UNCHANGED settings,
         NEW here, Reads(c, here), here \notin {"idle", "done", "show"},
         \/ \E step : Goto(c, step) /\ step \notin {"done", "show", "show-replayed"}
         \/ \E kind \in Refusals : Refuse(c, kind)
  PROVE  AnswersInv'
<1>1. Quietly(c)
  BY ReadsQuietly DEF Refuse
<1>2. pc[c] # "show" /\ UNCHANGED seen
  BY DEF Reads
<1> QED
  BY <1>1, <1>2, ReadingAnswers

LEMMA MasterQueryAnswers ==
  ASSUME RecordsInv, KeysInv, AnswersInv, NEW c \in Calls, Still, UNCHANGED settings,
         MasterQuery(c), command[c].op \in MasterOps
  PROVE  AnswersInv'
<1>0. command[c].op # "update-settings"
  BY DEF MasterOps
<1>1. CASE MasterReplay(c)
  BY <1>0, <1>1, ReplayAnswers DEF MasterReplay
<1>2. CASE QueryCode(c)
  <2>1. \/ \E step : Goto(c, step) /\ step \notin {"done", "show", "show-replayed"}
        \/ Refuse(c, "already-exists")
    BY <1>2 DEF QueryCode
  <2> QED
    BY <1>2, <2>1, QueryAnswers DEF QueryCode, Refusals
<1>3. CASE Resolve(c)
  <2>1. \E step \in {"batch", "resolve"} : Goto(c, step)
    BY <1>3 DEF Resolve
  <2>2. Quietly(c) /\ pc[c] # "show" /\ \A d \in Calls \ {c} : seen'[d] = seen[d]
    BY <1>3 DEF Resolve, Goto, Quietly, Moves, RecordsInv, HandlersTyped
  <2> QED
    BY <2>1, <2>2, ReadingAnswers
<1>4. CASE MasterAbort(c)
  BY <1>0, <1>4, AbortAnswers DEF MasterAbort
<1> QED
  BY <1>1, <1>2, <1>3, <1>4 DEF MasterQuery

LEMMA CrmQueryAnswers ==
  ASSUME RecordsInv, KeysInv, AnswersInv, NEW c \in Calls, Still, UNCHANGED settings,
         CrmQuery(c), command[c].op \in CrmOps
  PROVE  AnswersInv'
<1> DEFINE Goes == \E step : Goto(c, step) /\ step \notin {"done", "show", "show-replayed"}
           Refuses == \E kind \in Refusals : Refuse(c, kind)
<1>0. command[c].op # "update-settings"
  BY DEF CrmOps
<1>1. CASE ReadReplay(c, AfterReplay(command[c].op))
  <2> DEFINE step == AfterReplay(command[c].op)
  <2>1. step \notin {"done", "show", "show-replayed"}
    BY DEF AfterReplay, CrmOps
  <2> HIDE DEF step
  <2> QED
    BY <1>0, <1>1, <2>1, ReplayAnswers DEF step
<1>2. CASE QueryAccountCode(c)
  <2>1. Reads(c, "code") /\ (Goes \/ Refuses)
    BY <1>2 DEF QueryAccountCode, Refusals
  <2> QED
    BY <2>1, QueryAnswers
<1>3. CASE QueryParty(c)
  <2>1. Reads(c, "party") /\ (Goes \/ Refuses)
    BY <1>3 DEF QueryParty, Refusals
  <2> QED
    BY <2>1, QueryAnswers
<1>4. CASE RequireAccount(c)
  <2>0. Reads(c, "account") /\ command[c].op \in {"contact", "opportunity", "activity", "task"}
    BY <1>4 DEF RequireAccount, Reads, RecordsInv, HandlerOK, PlaceOK
  <2>1. Goes \/ Refuses
    <3> DEFINE step == AfterAccount(command[c].op)
    <3>1. step \notin {"done", "show", "show-replayed"}
      BY <2>0 DEF AfterAccount
    <3>2. Goto(c, step) \/ Refuse(c, "not-found")
      BY <1>4 DEF RequireAccount
    <3> HIDE DEF step
    <3> QED
      BY <3>1, <3>2 DEF Refusals
  <2> QED
    BY <2>0, <2>1, QueryAnswers
<1>5. CASE RequireContact(c)
  <2>1. Reads(c, "contact") /\ (Goes \/ Refuses)
    BY <1>5 DEF RequireContact, Refusals
  <2> QED
    BY <2>1, QueryAnswers
<1>6. CASE RequireOpportunity(c)
  <2>1. Reads(c, "opportunity") /\ (Goes \/ Refuses)
    BY <1>6 DEF RequireOpportunity, Refusals
  <2> QED
    BY <2>1, QueryAnswers
<1>7. CASE pc[c] \in {"opportunity", "task"} /\ \E version : Remember(c, version)
  <2>1. Quietly(c) /\ Goto(c, "batch") /\ \A d \in Calls \ {c} : seen'[d] = seen[d]
    BY <1>7 DEF Remember, Goto, Quietly, Moves, RecordsInv, HandlersTyped
  <2> QED
    BY <1>7, <2>1, ReadingAnswers
<1>8. CASE ReadOpportunity(c)
  <2>1. \/ pc[c] = "opportunity" /\ \E version : Remember(c, version)
        \/ Reads(c, "opportunity") /\ Refuse(c, "not-found")
    BY <1>8 DEF ReadOpportunity
  <2> QED
    BY <1>7, <2>1, QueryAnswers DEF Refusals
<1>9. CASE ReadTask(c)
  <2>1. \/ pc[c] = "task" /\ \E version : Remember(c, version)
        \/ Reads(c, "task") /\ \E kind \in {"not-open", "not-found"} : Refuse(c, kind)
    BY <1>9 DEF ReadTask
  <2> QED
    BY <1>7, <2>1, QueryAnswers DEF Refusals
<1>10. CASE AbortUncaught(c)
  BY <1>0, <1>10, AbortAnswers
<1> QED
  BY <1>1, <1>2, <1>3, <1>4, <1>5, <1>6, <1>8, <1>9, <1>10 DEF CrmQuery

LEMMA ShowsHear ==
  ASSUME RecordsInv, AnswersInv, NEW c \in Calls, UNCHANGED <<idempotency, command, seen, settings>>,
         NEW kind \in {"ok", "replayed"}, NEW by, Respond(c, kind, by, Shown),
         \/ by = None /\ command[c].op = "view-settings"
         \/ /\ command[c].op = "update-settings"
            /\ \E row \in idempotency : /\ row.by = by
                                        /\ row.claim = Claim(c) /\ row.hash = Hash(c)
  PROVE  HeardOK(c)'
<1>1. /\ pc'[c] = "done" /\ answer'[c].kind = kind
      /\ answer'[c].by = by /\ answer'[c].told = Shown
  BY DEF Respond, RecordsInv, HandlersTyped
<1>2. settings.version \in Nat /\ settings'.version = settings.version
      /\ Shown.version = settings.version
  BY DEF Shown, Stored, RecordsInv, TablesTyped
<1>3. PICK cmd, told : cmd = command[c] /\ told = Shown
  OBVIOUS
<1>4. CASE by = None /\ cmd.op = "view-settings"
  <2>1. Truth(cmd, by, told)'
    BY <1>2, <1>3, <1>4 DEF Truth, StoredFor
  <2> QED
    BY <1>1, <1>3, <1>4, <2>1 DEF HeardOK, ToldOK, Refusals
<1>5. CASE /\ cmd.op = "update-settings"
           /\ \E row \in idempotency : row.by = by /\ row.claim = Claim(c) /\ row.hash = Hash(c)
  <2>1. PICK row \in idempotency : row.by = by /\ row.claim = Claim(c) /\ row.hash = Hash(c)
    BY <1>5
  <2>2. RowOK(row)
    BY DEF AnswersInv
  <2>3. command[by].op = "update-settings"
    BY <1>3, <1>5, <2>1, <2>2 DEF RowOK, Claim
  <2>4. seen[by].version < settings.version
    BY <2>1, <2>2, <2>3 DEF RowOK
  <2>5. Truth(cmd, by, told)'
    BY <1>2, <1>3, <1>5, <2>4 DEF Truth, StoredFor
  <2>6. ToldOK(c)'
    BY <1>1, <1>3, <2>1, <2>5 DEF ToldOK, Claim, Hash
  <2> QED
    BY <1>1, <2>6 DEF HeardOK, Refusals
<1> QED
  BY <1>3, <1>4, <1>5

LEMMA ShowsAnswer ==
  ASSUME RecordsInv, AnswersInv, NEW c \in Calls, Quietly(c), Still, UNCHANGED <<seen, settings>>,
         NEW kind \in {"ok", "replayed"}, NEW by, Respond(c, kind, by, Shown),
         \/ by = None /\ command[c].op = "view-settings"
         \/ /\ command[c].op = "update-settings"
            /\ \E row \in idempotency : /\ row.by = by
                                        /\ row.claim = Claim(c) /\ row.hash = Hash(c)
  PROVE  AnswersInv'
<1>1. Kept /\ TablesTyped'
  BY StillKept
<1>2. \A d : Made(d)' <=> Made(d)
  BY DEF Made, Still, masterTables, crmTables
<1>3. UNCHANGED <<idempotency, command>>
  BY DEF Quietly
<1>4. HeardOK(c)'
  BY <1>3, ShowsHear
<1>5. \A d \in Calls \ {c} : answer'[d] = answer[d]
  BY DEF Respond, RecordsInv, HandlersTyped
<1> QED
  BY <1>1, <1>2, <1>4, <1>5, QuietAnswers

LEMMA SettingsAnswers ==
  ASSUME RecordsInv, KeysInv, AnswersInv, NEW c \in Calls, Still, command[c].op \in SettingsOps,
         \/ SettingsReplay(c) \/ ReadSettings(c) \/ MissSettings(c) \/ InitializeSettings(c)
         \/ AbortSettings(c) \/ ShowSettings(c)
  PROVE  AnswersInv'
<1>1. CASE SettingsReplay(c)
  <2>1. Reads(c, "replay") /\ UNCHANGED settings /\ command[c].op = "update-settings"
    BY <1>1 DEF SettingsReplay
  <2>2. \/ Goto(c, "settings") \/ (Goto(c, "show-replayed") /\ Answered(c))
        \/ Refuse(c, "key-conflict")
    BY <1>1 DEF SettingsReplay, LiveClaims, Claims, Answered
  <2>3. Quietly(c) /\ pc[c] # "show" /\ UNCHANGED seen
    BY <2>1, <2>2, ReadsQuietly DEF Refuse, Reads
  <2> QED
    BY <2>1, <2>2, <2>3, ReadingAnswers DEF Refusals
<1>2. CASE ReadSettings(c)
  <2>1. pc[c] = "settings" /\ UNCHANGED <<idempotency, outbox, command, settings>>
    BY <1>2 DEF ReadSettings
  <2>2. CASE Goto(c, "batch") /\ seen' = [seen EXCEPT ![c].version = settings.version]
    <3>1. Quietly(c) /\ \A d \in Calls \ {c} : seen'[d] = seen[d]
      BY <2>1, <2>2 DEF Goto, Quietly, Moves, RecordsInv, HandlersTyped
    <3> QED
      BY <2>1, <2>2, <3>1, ReadingAnswers
  <2>3. CASE /\ command[c].op = "view-settings" /\ Respond(c, "ok", None, Shown)
             /\ UNCHANGED seen
    <3>1. Quietly(c)
      BY <2>1, <2>3 DEF Respond, Quietly, Moves
    <3> QED
      BY <2>1, <2>3, <3>1, ShowsAnswer
  <2> QED
    BY <1>2, <2>2, <2>3 DEF ReadSettings, SettingsOps
<1>3. CASE MissSettings(c)
  BY <1>3, QueryAnswers DEF MissSettings
<1>4. CASE InitializeSettings(c)
  <2>1. Reads(c, "initialize") /\ Goto(c, "settings")
    BY <1>4 DEF InitializeSettings
  <2>2. Quietly(c)
    BY <2>1, ReadsQuietly
  <2>3. HeardOK(c)'
    BY <2>1, <2>2, GoingHears
  <2>4. \A d : Made(d)' <=> Made(d)
    BY DEF Made, Still, masterTables, crmTables
  <2> QED
    BY <1>4, <2>1, <2>2, <2>3, <2>4, InitializeGrows, QuietAnswers DEF Reads, Goto
<1>5. CASE AbortSettings(c)
  <2>1. Reads(c, "batch") /\ UNCHANGED settings /\ command[c].op = "update-settings"
    BY <1>5 DEF AbortSettings
  <2>2. \/ Refuse(c, "server-error") \/ (Goto(c, "show") /\ Answered(c))
        \/ Refuse(c, "key-conflict")
    BY <1>5 DEF AbortSettings, LiveClaims, Claims, Answered
  <2>3. Quietly(c) /\ pc[c] # "show" /\ UNCHANGED seen
    BY <2>1, <2>2, ReadsQuietly DEF Refuse, Reads
  <2> QED
    BY <2>1, <2>2, <2>3, ReadingAnswers DEF Refusals
<1>6. CASE ShowSettings(c)
  <2>1. PICK row \in Claims(c) :
          Respond(c, IF pc[c] = "show" THEN "ok" ELSE "replayed", row.by, Shown)
    BY <1>6 DEF ShowSettings
  <2>2. pc[c] \in {"show", "show-replayed"} /\ UNCHANGED <<idempotency, outbox, command, seen, settings>>
    BY <1>6 DEF ShowSettings
  <2>3. row \in idempotency /\ row.claim = Claim(c)
    BY DEF Claims
  <2>4. command[c].op = "update-settings" /\ row.hash = Hash(c)
    BY <2>2, <2>3 DEF AnswersInv, HeardOK, Answered
  <2>5. Quietly(c)
    BY <2>1, <2>2 DEF Respond, Quietly, Moves
  <2>6. PICK kind \in {"ok", "replayed"} : Respond(c, kind, row.by, Shown)
    BY <2>1
  <2> QED
    BY <2>2, <2>3, <2>4, <2>5, <2>6, ShowsAnswer
<1> QED
  BY <1>1, <1>2, <1>3, <1>4, <1>5, <1>6

LEMMA ArriveAnswers ==
  ASSUME RecordsInv, KeysInv, AnswersInv, NEW c \in Calls, Arrive(c)
  PROVE  AnswersInv'
<1>0. HandlersTyped /\ TablesTyped
  BY DEF RecordsInv
<1>1. PICK cmd \in Commands[c] :
        /\ command' = [command EXCEPT ![c] = cmd]
        /\ \/ Refuse(c, "invalid")
           \/ \E step \in {"replay", "settings", "account"} : Goto(c, step)
  BY DEF Arrive, FirstStep
<1>2. pc[c] = "idle" /\ UNCHANGED <<idempotency, outbox, seen>> /\ Still /\ UNCHANGED settings
  BY DEF Arrive, Tables, Still
<1>3. Kept /\ TablesTyped'
  BY <1>2, StillKept
<1>4. \A d : Made(d)' <=> Made(d)
  BY <1>2 DEF Made, Still, masterTables, crmTables
<1>5. \A d \in Calls \ {c} :
        /\ pc'[d] = pc[d] /\ command'[d] = command[d] /\ answer'[d] = answer[d]
        /\ Claim(d)' = Claim(d) /\ Hash(d)' = Hash(d)
  BY <1>0, <1>1 DEF HandlersTyped, Refuse, Respond, Goto, Claim, Hash
<1>6. LeftNothing(c) /\ answer[c].kind = None
  BY <1>2 DEF LeftNothing, RecordsInv, MadeOK, AnswersInv, RowOK, HeardOK, KeysInv, WritersOK
<1>7. HeardOK(c)'
  <2>1. LeftNothing(c)'
    BY <1>2, <1>4, <1>6 DEF LeftNothing
  <2>2. CASE Refuse(c, "invalid")
    <3>1. pc'[c] = "done" /\ answer'[c].kind = "invalid"
      BY <1>0, <2>2 DEF HandlersTyped, Refuse, Respond
    <3> QED
      BY <2>1, <3>1 DEF HeardOK
  <2>3. CASE \E step \in {"replay", "settings", "account"} : Goto(c, step)
    <3>1. pc'[c] \in {"replay", "settings", "account"} /\ answer'[c].kind = None
      BY <1>0, <1>6, <2>3 DEF HandlersTyped, Goto
    <3> QED
      BY <2>1, <3>1 DEF HeardOK, None
  <2> QED
    BY <1>1, <2>2, <2>3
<1>8. ASSUME NEW row \in idempotency'
      PROVE  RowOK(row)'
  <2>1. RowOK(row)
    BY <1>2 DEF AnswersInv
  <2>2. PICK by \in Calls \ {c} : by = row.by
    BY <1>2, <2>1 DEF RowOK
  <2>3. PICK gave : gave = command[by]
    OBVIOUS
  <2>4. Parsed(gave)
    BY <1>0, <2>1, <2>2, <2>3 DEF HandlersTyped, RowOK
  <2>5. gave.op # "update-settings" => Truth(gave, by, row.told)'
    BY <1>2, <1>3, <2>1, <2>2, <2>3, <2>4, TruthKept DEF RowOK
  <2> QED
    BY <1>2, <1>5, <2>1, <2>2, <2>3, <2>5 DEF RowOK
<1>9. ASSUME NEW d \in Calls \ {c}
      PROVE  HeardOK(d)'
  <2>1. HeardOK(d)
    BY DEF AnswersInv
  <2>2. ASSUME answer[d].kind \in {"ok", "replayed"}
        PROVE  ToldOK(d)'
    <3>1. ToldOK(d)
      BY <2>1, <2>2 DEF HeardOK
    <3>2. PICK gave, by, told : gave = command[d] /\ by = answer[d].by /\ told = answer[d].told
      OBVIOUS
    <3>3. Parsed(gave)
      BY <1>0, <3>1, <3>2 DEF HandlersTyped, ToldOK
    <3>4. Truth(gave, by, told)'
      BY <1>2, <1>3, <3>1, <3>2, <3>3, TruthKept DEF ToldOK
    <3> QED
      BY <1>2, <1>5, <3>1, <3>2, <3>4 DEF ToldOK
  <2>3. LeftNothing(d) => LeftNothing(d)'
    BY <1>2, <1>4 DEF LeftNothing
  <2>4. Answered(d) => Answered(d)'
    BY <1>2, <1>5 DEF Answered
  <2> QED
    BY <1>5, <2>1, <2>2, <2>3, <2>4 DEF HeardOK
<1>10. \A r, s \in idempotency' : r.claim = s.claim => r = s
  BY <1>2 DEF AnswersInv
<1> QED
  BY <1>7, <1>8, <1>9, <1>10 DEF AnswersInv

----------------------------------------------------------------------------
(* Steps that write.                                                       *)

LEMMA RowFields ==
  ASSUME NEW claim, NEW hash, NEW by, NEW told
  PROVE  \E row : /\ row = Row(claim, hash, by, told) /\ row.claim = claim /\ row.hash = hash
                  /\ row.by = by /\ row.told = told
<1> DEFINE row == Row(claim, hash, by, told)
<1>1. row.claim = claim /\ row.hash = hash /\ row.by = by /\ row.told = told
  BY DEF Row
<1> HIDE DEF row
<1>2. \E x : x = row /\ x.claim = claim /\ x.hash = hash /\ x.by = by /\ x.told = told
  BY <1>1
<1> QED
  BY <1>2 DEF row

\* A batch that commits adds the row of its key, which was free, and an event.
LEMMA WriteAnswers ==
  ASSUME RecordsInv, KeysInv, AnswersInv, NEW c \in Calls, pc[c] = "batch", ~Claimed(c),
         UNCHANGED <<command, seen>>, Kept, TablesTyped',
         NEW step \in {"show", "done"}, pc' = [pc EXCEPT ![c] = step],
         NEW told, idempotency' = idempotency \cup {Row(Claim(c), Hash(c), c, told)},
         NEW event, event.by = c, outbox' = Append(outbox, event),
         \A d \in Calls : Made(d)' => d = c \/ Made(d),
         \A d \in Calls \ {c} : answer'[d] = answer[d],
         command[c].op # "view-settings",
         IF command[c].op = "update-settings" THEN seen[c].version < settings'.version
         ELSE Truth(command[c], c, told)',
         HeardOK(c)'
  PROVE  AnswersInv'
<1>0. HandlersTyped /\ TablesTyped /\ settings'.version >= settings.version
  BY DEF RecordsInv, Kept
<1>1. PICK new : /\ idempotency' = idempotency \cup {new}
                 /\ new.claim = Claim(c) /\ new.hash = Hash(c)
                 /\ new.by = c /\ new.told = told
  BY RowFields
<1>2. \A d : Claim(d)' = Claim(d) /\ Hash(d)' = Hash(d)
  BY DEF Claim, Hash
<1>3. \A d \in Calls \ {c} : pc'[d] = pc[d]
  BY <1>0 DEF HandlersTyped
<1>4. pc'[c] \in {"show", "done"}
  BY <1>0 DEF HandlersTyped
<1>5. ASSUME NEW row \in idempotency
      PROVE  RowOK(row)'
  <2>1. RowOK(row)
    BY DEF AnswersInv
  <2>2. PICK by \in Calls \ {c} : by = row.by /\ pc[by] \in {"show", "done"}
    BY <2>1 DEF RowOK
  <2>3. PICK gave : gave = command[by] /\ gave = command'[by]
    OBVIOUS
  <2>4. Parsed(gave) /\ seen'[by] = seen[by]
    BY <1>0, <2>2, <2>3 DEF HandlersTyped
  <2>5. gave.op # "update-settings" => Truth(gave, by, row.told)'
    BY <2>1, <2>2, <2>3, <2>4, TruthKept DEF RowOK
  <2>6. gave.op = "update-settings" => seen'[by].version < settings'.version
    <3> SUFFICES ASSUME gave.op = "update-settings"
                 PROVE  seen[by].version < settings'.version
      BY <2>4
    <3>1. seen[by].version < settings.version
      BY <2>1, <2>2, <2>3 DEF RowOK
    <3>2. seen[by].version \in Nat /\ settings.version \in Nat /\ settings'.version \in Nat
      BY <1>0, <2>2 DEF HandlersTyped, TablesTyped
    <3> QED
      BY <1>0, <3>1, <3>2
  <2>7. row.claim = Claim(by)' /\ row.hash = Hash(by)' /\ gave.op # "view-settings"
    BY <1>2, <2>1, <2>2, <2>3 DEF RowOK
  <2> QED
    BY <1>3, <2>2, <2>3, <2>5, <2>6, <2>7 DEF RowOK
<1>6. RowOK(new)'
  <2>1. new.claim = Claim(c)' /\ new.hash = Hash(c)'
    BY <1>1, <1>2
  <2>2. PICK cmd : cmd = command[c] /\ cmd = command'[c]
    OBVIOUS
  <2>3. cmd.op # "view-settings"
    BY <2>2
  <2>4. IF cmd.op = "update-settings" THEN seen'[c].version < settings'.version
        ELSE Truth(cmd, c, told)'
    BY <2>2
  <2> QED
    BY <1>1, <1>4, <2>1, <2>2, <2>3, <2>4 DEF RowOK
<1>7. \A r, s \in idempotency' : r.claim = s.claim => r = s
  <2>1. \A row \in idempotency : row.claim # Claim(c)
    BY DEF Claimed, Claims
  <2> QED
    BY <1>1, <2>1 DEF AnswersInv
<1>8. ASSUME NEW d \in Calls \ {c}
      PROVE  HeardOK(d)'
  <2>1. HeardOK(d)
    BY DEF AnswersInv
  <2>2. ASSUME answer[d].kind \in {"ok", "replayed"}
        PROVE  ToldOK(d)'
    <3>1. ToldOK(d)
      BY <2>1, <2>2 DEF HeardOK
    <3>2. PICK gave, by, info : gave = command[d] /\ by = answer[d].by /\ info = answer[d].told
      OBVIOUS
    <3>3. Parsed(gave)
      BY <1>0, <3>1, <3>2 DEF HandlersTyped, ToldOK
    <3>4. Truth(gave, by, info)'
      BY <3>1, <3>2, <3>3, TruthKept DEF ToldOK
    <3> QED
      BY <1>1, <1>2, <1>3, <3>1, <3>2, <3>4 DEF ToldOK
  <2>3. LeftNothing(d) => LeftNothing(d)'
    <3>1. \A n \in DOMAIN outbox' : outbox'[n].by = c \/ (n \in DOMAIN outbox /\ outbox'[n] = outbox[n])
      BY Appended DEF KeysInv, ShapesOK
    <3>2. \A row \in idempotency' : row \in idempotency \/ row.by = c
      BY <1>1
    <3> QED
      BY <3>1, <3>2 DEF LeftNothing
  <2>4. Answered(d) => Answered(d)'
    BY <1>1, <1>2 DEF Answered
  <2> QED
    BY <1>3, <2>1, <2>2, <2>3, <2>4 DEF HeardOK
<1> QED
  BY <1>1, <1>5, <1>6, <1>7, <1>8 DEF AnswersInv

\* A batch commits, is the answer of its call, and what it tells is then stored.
Tells(c) ==
  \E type, told, payload : Commit(c, type, told, payload) /\ Truth(command[c], c, told)'

LEMMA CommitAnswers ==
  ASSUME RecordsInv, RecordsInv', KeysInv, AnswersInv, NEW c \in Calls, Kept, NewRowsOK(c),
         command[c].op \notin SettingsOps, Tells(c)
  PROVE  AnswersInv'
<1> PICK type, told, payload : Commit(c, type, told, payload) /\ Truth(command[c], c, told)'
  BY DEF Tells
<1>0. HandlersTyped /\ TablesTyped'
  BY DEF RecordsInv
<1> DEFINE event == [type |-> type, id |-> told.id, version |-> told.version,
                     value |-> payload, by |-> c]
<1>1. /\ pc[c] = "batch" /\ ~Claimed(c) /\ UNCHANGED <<command, seen>>
      /\ idempotency' = idempotency \cup {Row(Claim(c), Hash(c), c, told)}
      /\ outbox' = Append(outbox, event)
  BY DEF Commit, Write, Row
<1>2. event.by = c
  OBVIOUS
<1> HIDE DEF event
<1>3. /\ pc' = [pc EXCEPT ![c] = "done"]
      /\ answer'[c].kind = "ok" /\ answer'[c].by = c /\ answer'[c].told = told
      /\ \A d \in Calls \ {c} : answer'[d] = answer[d]
  BY <1>0 DEF Commit, Respond, HandlersTyped
<1>4. pc'[c] = "done"
  BY <1>0, <1>3 DEF HandlersTyped
<1>5. ToldOK(c)'
  <2>1. Claim(c)' = Claim(c) /\ Hash(c)' = Hash(c)
    BY <1>1 DEF Claim, Hash
  <2>2. PICK row : /\ idempotency' = idempotency \cup {row}
                   /\ row.by = c /\ row.claim = Claim(c) /\ row.hash = Hash(c)
    BY <1>1, RowFields
  <2>3. PICK cmd : cmd = command[c] /\ cmd = command'[c]
    BY <1>1
  <2>4. Truth(cmd, c, told)'
    BY <2>3
  <2> QED
    BY <1>3, <1>4, <2>1, <2>2, <2>3, <2>4 DEF ToldOK
<1>6. HeardOK(c)'
  BY <1>3, <1>4, <1>5 DEF HeardOK, Refusals
<1>7. \A d \in Calls : Made(d)' => d = c \/ Made(d)
  BY DEF NewRowsOK
<1> QED
  BY <1>0, <1>1, <1>2, <1>3, <1>6, <1>7, WriteAnswers DEF SettingsOps

LEMMA MasterTruth ==
  ASSUME NEW c \in Calls
  PROVE  (CommitParty(c) \/ CommitProduct(c) \/ CommitWarehouse(c)) => Tells(c)
<1>0. PICK told : told = Created(c) /\ told.version \in Nat
  <2> DEFINE made == Created(c)
  <2>1. made.version \in Nat
    BY DEF Created, Stored
  <2> HIDE DEF made
  <2>2. \E told : told = made /\ told.version \in Nat
    BY <2>1
  <2> QED
    BY <2>2 DEF made
<1>1. ASSUME CommitParty(c) PROVE Truth(command[c], c, told)'
  <2>1. parties' = Put(parties, c, [code |-> command[c].code, type |-> command[c].type])
        /\ command[c].op = "party" /\ command' = command
    BY <1>1 DEF CommitParty, Commit, Write
  <2>2. c \in DOMAIN parties' /\ parties'[c].code = command[c].code
    BY <2>1 DEF Put
  <2> QED
    BY <1>0, <2>1, <2>2 DEF Truth, StoredFor
<1>2. ASSUME CommitProduct(c) PROVE Truth(command[c], c, told)'
  <2>1. products' = Put(products, c, [code |-> command[c].code, skus |-> command[c].skus,
                                      named |-> seen[c].found])
        /\ command[c].op = "product" /\ command' = command
    BY <1>2 DEF CommitProduct, Commit, Write
  <2>2. c \in DOMAIN products' /\ products'[c].skus = command[c].skus
    BY <2>1 DEF Put
  <2> QED
    BY <1>0, <2>1, <2>2 DEF Truth, StoredFor
<1>3. ASSUME CommitWarehouse(c) PROVE Truth(command[c], c, told)'
  <2>1. warehouses' = Put(warehouses, c, [code |-> command[c].code, site |-> seen[c].found[2]])
        /\ command[c].op = "warehouse" /\ command' = command
    BY <1>3 DEF CommitWarehouse, Commit, Write
  <2>2. c \in DOMAIN warehouses' /\ warehouses'[c].code = command[c].code
    BY <2>1 DEF Put
  <2> QED
    BY <1>0, <2>1, <2>2 DEF Truth, StoredFor
<1>4. CommitParty(c) => Commit(c, "party", told, <<>>)
  BY <1>0 DEF CommitParty
<1>5. CommitProduct(c) => Commit(c, "product", told, <<>>)
  BY <1>0 DEF CommitProduct
<1>6. CommitWarehouse(c) => Commit(c, "warehouse", told, <<>>)
  BY <1>0 DEF CommitWarehouse
<1> QED
  BY <1>1, <1>2, <1>3, <1>4, <1>5, <1>6 DEF Tells

LEMMA StoredVersion ==
  ASSUME NEW id, NEW value
  PROVE  \E told : told = Stored(id, 1, value) /\ told.version \in Nat
<1> DEFINE made == Stored(id, 1, value)
<1>1. made.version \in Nat
  BY DEF Stored
<1> HIDE DEF made
<1>2. \E told : told = made /\ told.version \in Nat
  BY <1>1
<1> QED
  BY <1>2 DEF made

LEMMA CrmTruth ==
  ASSUME NEW c \in Calls
  PROVE  (\/ CommitAccount(c) \/ CommitContact(c) \/ CommitOpportunity(c)
          \/ CommitActivity(c) \/ CommitTask(c)) => Tells(c)
<1>1. ASSUME CommitAccount(c) PROVE Tells(c)
  <2>1. PICK told : told = Stored(c, 1, <<>>) /\ told.version \in Nat
    BY StoredVersion
  <2>2. Commit(c, "account", told, <<>>)
    BY <1>1, <2>1 DEF CommitAccount
  <2>3. accounts' = Put(accounts, c, [code |-> command[c].code, party |-> command[c].party])
        /\ command[c].op = "account" /\ command' = command
    BY <1>1 DEF CommitAccount, Commit, Write
  <2>4. c \in DOMAIN accounts' /\ accounts'[c].code = command[c].code
    BY <2>3 DEF Put
  <2>5. Truth(command[c], c, told)'
    BY <2>1, <2>3, <2>4 DEF Truth, StoredFor
  <2> QED
    BY <2>2, <2>5 DEF Tells
<1>2. ASSUME CommitContact(c) PROVE Tells(c)
  <2>1. PICK told : told = Stored(c, 1, <<>>) /\ told.version \in Nat
    BY StoredVersion
  <2>2. Commit(c, "contact", told, <<>>)
    BY <1>2, <2>1 DEF CommitContact
  <2>3. PICK table : contacts' = Put(table, c,
                       [account |-> command[c].account, primary |-> command[c].primary, version |-> 1])
    BY <1>2 DEF CommitContact
  <2>4. command[c].op = "contact" /\ command' = command
    BY <1>2 DEF CommitContact, Commit, Write
  <2>5. c \in DOMAIN contacts' /\ contacts'[c].account = command[c].account
    BY <2>3 DEF Put
  <2>6. Truth(command[c], c, told)'
    BY <2>1, <2>4, <2>5 DEF Truth, StoredFor, BelongsTo
  <2> QED
    BY <2>2, <2>6 DEF Tells
<1>3. ASSUME CommitOpportunity(c) PROVE Tells(c)
  <2>1. PICK told : told = Stored(c, 1, Worth(command[c])) /\ told.version \in Nat
    BY StoredVersion
  <2>2. Commit(c, "opportunity", told, <<>>)
    BY <1>3, <2>1 DEF CommitOpportunity
  <2>3. opportunities' = Put(opportunities, c,
          [account |-> command[c].account, worth |-> Worth(command[c]), version |-> 1])
        /\ command[c].op = "opportunity" /\ command' = command
    BY <1>3 DEF CommitOpportunity, Commit, Write
  <2>4. c \in DOMAIN opportunities' /\ opportunities'[c].account = command[c].account
    BY <2>3 DEF Put
  <2>5. Truth(command[c], c, told)'
    BY <2>1, <2>3, <2>4 DEF Truth, StoredFor, BelongsTo
  <2> QED
    BY <2>2, <2>5 DEF Tells
<1>4. ASSUME CommitActivity(c) PROVE Tells(c)
  <2>1. PICK told : told = Stored(c, 1, <<>>) /\ told.version \in Nat
    BY StoredVersion
  <2>2. Commit(c, "activity", told, <<>>)
    BY <1>4, <2>1 DEF CommitActivity
  <2>3. activities' = Put(activities, c,
          [account |-> command[c].account, contact |-> command[c].contact,
           opportunity |-> command[c].opportunity])
        /\ command[c].op = "activity" /\ command' = command
    BY <1>4 DEF CommitActivity, Commit, Write
  <2>4. c \in DOMAIN activities' /\ activities'[c].account = command[c].account
    BY <2>3 DEF Put
  <2>5. Truth(command[c], c, told)'
    BY <2>1, <2>3, <2>4 DEF Truth, StoredFor, BelongsTo
  <2> QED
    BY <2>2, <2>5 DEF Tells
<1>5. ASSUME CommitTask(c) PROVE Tells(c)
  <2>1. PICK told : told = Stored(c, 1, <<"open">>) /\ told.version \in Nat
    BY StoredVersion
  <2>2. Commit(c, "task", told, <<>>)
    BY <1>5, <2>1 DEF CommitTask
  <2>3. tasks' = Put(tasks, c,
          [account |-> command[c].account, opportunity |-> command[c].opportunity,
           status |-> "open", version |-> 1])
        /\ command[c].op = "task" /\ command' = command
    BY <1>5 DEF CommitTask, Commit, Write
  <2>4. c \in DOMAIN tasks' /\ tasks'[c].account = command[c].account
    BY <2>3 DEF Put
  <2>5. Truth(command[c], c, told)'
    BY <2>1, <2>3, <2>4 DEF Truth, StoredFor, BelongsTo
  <2> QED
    BY <2>2, <2>5 DEF Tells
<1> QED
  BY <1>1, <1>2, <1>3, <1>4, <1>5

\* The version of a completion is computed from a row that somebody else may
\* have completed since; it is the version the row then has.
LEMMA CompleteTruth ==
  ASSUME RecordsInv, NEW c \in Calls, CommitComplete(c)
  PROVE  Tells(c)
<1>1. PICK t, version, told : /\ t = command[c].task /\ version = seen[c].version
                              /\ told = Stored(t, version + 1, <<"completed">>)
  OBVIOUS
<1>2. /\ command[c].op = "complete" /\ UNCHANGED <<command, seen>> /\ pc[c] = "batch"
      /\ tasks' = IF tasks[t].status = "open"
                  THEN [tasks EXCEPT ![t].status = "completed", ![t].version = @ + 1]
                  ELSE tasks
  BY <1>1 DEF CommitComplete, Commit, Write
<1>3. /\ t \in DOMAIN tasks /\ version \in Nat
      /\ tasks[t].version = IF tasks[t].status = "open" THEN version ELSE version + 1
  BY <1>1, <1>2 DEF RecordsInv, HandlerOK, CheckedOK, HandlersTyped
<1>4. PICK old \in TaskRows : old = tasks[t]
  BY <1>3 DEF RecordsInv, TablesTyped, TaskRows
<1>5. t \in DOMAIN tasks' /\ tasks'[t].status = "completed" /\ tasks'[t].version = version + 1
  <2>1. CASE old.status = "open"
    <3> DEFINE other == [old EXCEPT !.status = "completed"]
               row == [other EXCEPT !.version = @ + 1]
    <3>1. tasks' = [tasks EXCEPT ![t] = [tasks[t] EXCEPT !.status = "completed", !.version = @ + 1]]
      BY <1>2, <1>4, <2>1, Zenon
    <3>2. tasks' = [tasks EXCEPT ![t] = row]
      BY <1>4, <3>1, Zenon
    <3>3. other \in TaskRows /\ other.status = "completed" /\ other.version = old.version
      BY DEF TaskRows
    <3> HIDE DEF other
    <3>4. row.status = "completed" /\ row.version = old.version + 1
      BY <3>3 DEF TaskRows
    <3> HIDE DEF row
    <3> QED
      BY <1>3, <1>4, <2>1, <3>2, <3>4
  <2>2. CASE old.status # "open"
    BY <1>2, <1>3, <1>4, <2>2 DEF TaskRows
  <2> QED
    BY <2>1, <2>2
<1>6. told.version = version + 1 /\ told.version \in Nat
  BY <1>1, <1>3 DEF Stored
<1>7. PICK cmd : cmd = command[c] /\ cmd = command'[c]
  BY <1>2
<1>8. Truth(cmd, c, told)'
  BY <1>1, <1>2, <1>5, <1>6, <1>7 DEF Truth, StoredFor
<1>9. Commit(c, "task", told, <<"completed">>)
  BY <1>1 DEF CommitComplete
<1> QED
  BY <1>7, <1>8, <1>9 DEF Tells

\* So is that of a stage change, or a later one has been reached.
LEMMA StageTruth ==
  ASSUME RecordsInv, NEW c \in Calls, CommitStage(c)
  PROVE  Tells(c)
<1>1. PICK o, version, worth, told : /\ o = command[c].opportunity /\ version = seen[c].version
                                     /\ worth = Worth(command[c])
                                     /\ told = Stored(o, version + 1, worth)
  OBVIOUS
<1>2. /\ command[c].op = "stage" /\ UNCHANGED <<command, seen>> /\ pc[c] = "batch"
      /\ opportunities' = [opportunities EXCEPT ![o].worth = worth, ![o].version = @ + 1]
  BY <1>1 DEF CommitStage, Commit, Write
<1>3. o \in DOMAIN opportunities /\ version \in Nat /\ version <= opportunities[o].version
  BY <1>1, <1>2 DEF RecordsInv, HandlerOK, CheckedOK, HandlersTyped
<1>4. PICK old \in OpportunityRows : old = opportunities[o]
  BY <1>3 DEF RecordsInv, TablesTyped, OpportunityRows
<1> DEFINE other == [old EXCEPT !.worth = worth]
           row == [other EXCEPT !.version = @ + 1]
<1>5. opportunities' = [opportunities EXCEPT ![o] =
                          [opportunities[o] EXCEPT !.worth = worth, !.version = @ + 1]]
  BY <1>2, Zenon
<1>6. opportunities' = [opportunities EXCEPT ![o] = row]
  BY <1>4, <1>5, Zenon
<1>7. other.version = old.version /\ DOMAIN other = DOMAIN old /\ "version" \in DOMAIN old
  BY DEF OpportunityRows
<1> HIDE DEF other
<1>8. row.version = old.version + 1
  BY <1>7
<1> HIDE DEF row
<1>9. o \in DOMAIN opportunities' /\ opportunities'[o].version = old.version + 1
  BY <1>3, <1>6, <1>8
<1>10. told.version = version + 1 /\ told.version \in Nat /\ told.value = worth
  BY <1>1, <1>3 DEF Stored
<1>11. told.version <= opportunities'[o].version
  BY <1>3, <1>4, <1>9, <1>10 DEF OpportunityRows
<1>12. PICK cmd : cmd = command[c] /\ cmd = command'[c]
  BY <1>2
<1>13. Truth(cmd, c, told)'
  BY <1>1, <1>2, <1>9, <1>10, <1>11, <1>12 DEF Truth, StoredFor
<1>14. Commit(c, "opportunity", told, <<command[c].stage>>)
  BY <1>1 DEF CommitStage
<1> QED
  BY <1>12, <1>13, <1>14 DEF Tells

\* An update of the settings goes on to show them.
LEMMA SettingsCommitAnswers ==
  ASSUME RecordsInv, RecordsInv', KeysInv, AnswersInv, NEW c \in Calls, Kept, NewRowsOK(c),
         CommitSettings(c)
  PROVE  AnswersInv'
<1>0. HandlersTyped /\ TablesTyped /\ TablesTyped'
  BY DEF RecordsInv
<1>1. PICK told, payload : Write(c, "settings", told, payload)
  BY DEF CommitSettings
<1> DEFINE event == [type |-> "settings", id |-> told.id, version |-> told.version,
                     value |-> payload, by |-> c]
<1>2. /\ pc[c] = "batch" /\ ~Claimed(c) /\ UNCHANGED <<command, seen>>
      /\ idempotency' = idempotency \cup {Row(Claim(c), Hash(c), c, told)}
      /\ outbox' = Append(outbox, event)
  BY <1>1 DEF Write, Row
<1>3. event.by = c
  OBVIOUS
<1> HIDE DEF event
<1>4. /\ command[c].op = "update-settings" /\ UNCHANGED answer
      /\ pc' = [pc EXCEPT ![c] = "show"]
  BY DEF CommitSettings, Goto
<1>5. seen[c].version < settings'.version
  <2>1. PICK version, stored : version = seen[c].version /\ stored = settings.version
    OBVIOUS
  <2>2. version \in Nat /\ stored \in Nat /\ version <= stored
    BY <1>0, <1>2, <1>4, <2>1 DEF RecordsInv, HandlerOK, CheckedOK, HandlersTyped, TablesTyped
  <2>3. settings'.version = IF stored = version THEN version + 1 ELSE stored
    BY <2>1 DEF CommitSettings
  <2> QED
    BY <2>1, <2>2, <2>3
<1>6. HeardOK(c)'
  <2>1. pc'[c] = "show" /\ answer'[c].kind = None
    BY <1>0, <1>2, <1>4 DEF HandlersTyped, AnswersInv, HeardOK
  <2>2. Claim(c)' = Claim(c) /\ Hash(c)' = Hash(c)
    BY <1>2 DEF Claim, Hash
  <2>3. PICK row : /\ idempotency' = idempotency \cup {row}
                   /\ row.by = c /\ row.claim = Claim(c) /\ row.hash = Hash(c)
    BY <1>2, RowFields
  <2>4. Answered(c)'
    BY <2>2, <2>3 DEF Answered
  <2> QED
    BY <1>2, <1>4, <2>1, <2>4 DEF HeardOK, Refusals, None
<1>7. \A d \in Calls : Made(d)' => d = c \/ Made(d)
  BY DEF NewRowsOK
<1> QED
  BY <1>0, <1>2, <1>3, <1>4, <1>5, <1>6, <1>7, WriteAnswers

LEMMA StepAnswers ==
  ASSUME RecordsInv, RecordsInv', KeysInv, AnswersInv, NEW c \in Calls, Step(c)
  PROVE  AnswersInv'
<1>1. CASE MasterStep(c) /\ UNCHANGED <<crmTables, settings>>
  <2>0. command[c].op \in MasterOps /\ command[c].op \notin SettingsOps
    BY <1>1 DEF MasterStep, MasterOps, SettingsOps
  <2>1. CASE MasterQuery(c) /\ UNCHANGED masterTables
    BY <1>1, <2>0, <2>1, MasterQueryAnswers DEF Still
  <2>2. CASE CommitParty(c)
    BY <1>1, <2>0, <2>2, PartyCommits, MasterTruth, CommitAnswers
  <2>3. CASE CommitProduct(c)
    BY <1>1, <2>0, <2>3, ProductCommits, MasterTruth, CommitAnswers
  <2>4. CASE CommitWarehouse(c)
    BY <1>1, <2>0, <2>4, WarehouseCommits, MasterTruth, CommitAnswers
  <2> QED
    BY <1>1, <2>1, <2>2, <2>3, <2>4 DEF MasterStep
<1>2. CASE CrmStep(c) /\ UNCHANGED <<masterTables, settings>>
  <2>0. command[c].op \in CrmOps /\ command[c].op \notin SettingsOps
    BY <1>2 DEF CrmStep, CrmOps, SettingsOps
  <2>1. CASE CrmQuery(c) /\ UNCHANGED crmTables
    BY <1>2, <2>0, <2>1, CrmQueryAnswers DEF Still
  <2>2. CASE CommitAccount(c)
    BY <1>2, <2>0, <2>2, AccountCommits, CrmTruth, CommitAnswers
  <2>3. CASE CommitContact(c)
    BY <1>2, <2>0, <2>3, ContactCommits, CrmTruth, CommitAnswers
  <2>4. CASE CommitOpportunity(c)
    BY <1>2, <2>0, <2>4, OpportunityCommits, CrmTruth, CommitAnswers
  <2>5. CASE CommitActivity(c)
    BY <1>2, <2>0, <2>5, ActivityCommits, CrmTruth, CommitAnswers
  <2>6. CASE CommitTask(c)
    BY <1>2, <2>0, <2>6, TaskCommits, CrmTruth, CommitAnswers
  <2>7. CASE CommitComplete(c)
    BY <1>2, <2>0, <2>7, CompleteCommits, CompleteTruth, CommitAnswers
  <2>8. CASE CommitStage(c)
    BY <1>2, <2>0, <2>8, StageCommits, StageTruth, CommitAnswers
  <2> QED
    BY <1>2, <2>1, <2>2, <2>3, <2>4, <2>5, <2>6, <2>7, <2>8 DEF CrmStep
<1>3. CASE SettingsStep(c) /\ UNCHANGED <<masterTables, crmTables>>
  <2>1. CASE CommitSettings(c)
    BY <1>3, <2>1, SettingsCommits, SettingsCommitAnswers
  <2>2. CASE \/ SettingsReplay(c) \/ ReadSettings(c) \/ MissSettings(c) \/ InitializeSettings(c)
             \/ AbortSettings(c) \/ ShowSettings(c)
    BY <1>3, <2>2, SettingsAnswers DEF SettingsStep, Still
  <2> QED
    BY <1>3, <2>1, <2>2 DEF SettingsStep
<1> QED
  BY <1>1, <1>2, <1>3 DEF Step

\* An expired row still tells what was stored, and whoever was answered from it
\* keeps its answer.
LEMMA ExpireAnswers ==
  ASSUME RecordsInv, KeysInv, AnswersInv, NEW row \in idempotency, ExpireKey(row), Tables
  PROVE  AnswersInv'
<1>1. UNCHANGED <<outbox, pc, command, seen, answer, settings>> /\ Still
  BY DEF ExpireKey, Tables, Still
<1>2. Kept /\ TablesTyped' /\ HandlersTyped
  BY <1>1, StillKept DEF RecordsInv
<1>3. PICK expired : /\ idempotency' = (idempotency \ {row}) \cup {expired}
                     /\ expired.claim = row.claim /\ expired.hash = row.hash
                     /\ expired.by = row.by /\ expired.told = row.told
  <2> DEFINE new == [row EXCEPT !.live = FALSE]
  <2>1. Shaped(row)
    BY DEF KeysInv, ShapesOK
  <2>2. /\ new.claim = row.claim /\ new.hash = row.hash
        /\ new.by = row.by /\ new.told = row.told
    BY <2>1 DEF Shaped
  <2>3. idempotency' = (idempotency \ {row}) \cup {new}
    BY DEF ExpireKey
  <2> HIDE DEF new
  <2> QED
    BY <2>2, <2>3
<1>4. \A d : Claim(d)' = Claim(d) /\ Hash(d)' = Hash(d)
  BY <1>1 DEF Claim, Hash
<1>5. \A d : Made(d)' <=> Made(d)
  BY <1>1 DEF Made, Still, masterTables, crmTables
<1>6. ASSUME NEW r \in idempotency'
      PROVE  RowOK(r)'
  <2>1. PICK old \in idempotency : /\ old.claim = r.claim /\ old.hash = r.hash
                                   /\ old.by = r.by /\ old.told = r.told
    BY <1>3
  <2>2. RowOK(old)
    BY DEF AnswersInv
  <2>3. PICK by, gave : by = r.by /\ gave = command[by] /\ by \in Calls
    BY <2>1, <2>2 DEF RowOK
  <2>4. Parsed(gave)
    BY <1>2, <2>1, <2>2, <2>3 DEF HandlersTyped, RowOK
  <2>5. gave.op # "update-settings" => Truth(gave, by, r.told)'
    BY <1>1, <1>2, <2>1, <2>2, <2>3, <2>4, TruthKept DEF RowOK
  <2> QED
    BY <1>1, <1>4, <2>1, <2>2, <2>3, <2>5 DEF RowOK
<1>7. \A r, s \in idempotency' : r.claim = s.claim => r = s
  BY <1>3 DEF AnswersInv
<1>8. ASSUME NEW d \in Calls
      PROVE  HeardOK(d)'
  <2>1. HeardOK(d)
    BY DEF AnswersInv
  <2>2. ASSUME answer[d].kind \in {"ok", "replayed"}
        PROVE  ToldOK(d)'
    <3>1. ToldOK(d)
      BY <2>1, <2>2 DEF HeardOK
    <3>2. PICK gave, by, told : gave = command[d] /\ by = answer[d].by /\ told = answer[d].told
      OBVIOUS
    <3>3. Parsed(gave)
      BY <1>2, <3>1, <3>2 DEF HandlersTyped, ToldOK
    <3>4. Truth(gave, by, told)'
      BY <1>1, <1>2, <3>1, <3>2, <3>3, TruthKept DEF ToldOK
    <3> QED
      BY <1>1, <1>3, <1>4, <3>1, <3>2, <3>4 DEF ToldOK
  <2>3. LeftNothing(d) => LeftNothing(d)'
    BY <1>1, <1>3, <1>5 DEF LeftNothing
  <2>4. Answered(d) => Answered(d)'
    BY <1>3, <1>4 DEF Answered
  <2> QED
    BY <1>1, <2>1, <2>2, <2>3, <2>4 DEF HeardOK
<1> QED
  BY <1>6, <1>7, <1>8 DEF AnswersInv

LEMMA StutterAnswers ==
  ASSUME AnswersInv, UNCHANGED vars
  PROVE  AnswersInv'
<1>1. /\ UNCHANGED <<idempotency, outbox, pc, command, seen, answer, settings>>
      /\ UNCHANGED <<parties, names, products, warehouses, accounts, contacts, opportunities,
                     tasks, activities>>
  BY DEF vars, common, masterTables, crmTables
<1>2. \A d : Claim(d)' = Claim(d) /\ Hash(d)' = Hash(d) /\ (Made(d)' <=> Made(d))
  BY <1>1 DEF Claim, Hash, Made
<1>3. ASSUME NEW cmd, NEW by, NEW told
      PROVE  Truth(cmd, by, told)' = Truth(cmd, by, told)
  <2>1. /\ parties' = parties /\ products' = products /\ warehouses' = warehouses
        /\ accounts' = accounts /\ contacts' = contacts /\ opportunities' = opportunities
        /\ tasks' = tasks /\ activities' = activities /\ settings' = settings /\ seen' = seen
    BY <1>1
  <2>2. StoredFor(cmd, by, told)' = StoredFor(cmd, by, told)
    BY <2>1, Zenon DEF StoredFor, BelongsTo
  <2> QED
    BY <2>1, <2>2, Zenon DEF Truth
<1>4. \A row \in idempotency : RowOK(row)'
  BY <1>1, <1>2, <1>3 DEF AnswersInv, RowOK
<1>5. ASSUME NEW d \in Calls
      PROVE  HeardOK(d)'
  <2>1. HeardOK(d)
    BY DEF AnswersInv
  <2>2. (ToldOK(d) => ToldOK(d)') /\ (LeftNothing(d) => LeftNothing(d)') /\ (Answered(d) => Answered(d)')
    BY <1>1, <1>2, <1>3 DEF ToldOK, LeftNothing, Answered
  <2> QED
    BY <1>1, <2>1, <2>2 DEF HeardOK
<1> QED
  BY <1>1, <1>4, <1>5 DEF AnswersInv

LEMMA NextAnswers ==
  ASSUME RecordsAssumption, KeysInv, RecordsInv, AnswersInv, [Next]_vars
  PROVE  AnswersInv'
<1>1. RecordsInv'
  BY NextRecords
<1>2. CASE \E c \in Calls : Arrive(c)
  BY <1>2, ArriveAnswers
<1>3. CASE \E c \in Calls : Step(c)
  BY <1>1, <1>3, StepAnswers
<1>4. CASE \E row \in idempotency : ExpireKey(row) /\ Tables
  BY <1>4, ExpireAnswers
<1>5. CASE UNCHANGED vars
  BY <1>5, StutterAnswers
<1> QED
  BY <1>2, <1>3, <1>4, <1>5 DEF Next, Quiet

LEMMA InitAnswers ==
  ASSUME Init
  PROVE  AnswersInv
BY DEF Init, CommonInit, AnswersInv, HeardOK, Unanswered, None, Refusals

\* What a call is told is true, at once and ever after: a refusal or an error
\* left nothing behind, and a success, replayed or not, tells what was stored
\* for the same key and payload, although the version it names was computed
\* from a row read before and others may have changed that row since.
THEOREM RecordAnswersTrue == Spec => []AnswersAreTrue
<1>1. Init => KeysInv /\ RecordsInv /\ AnswersInv
  BY InitKeys, InitRecords, InitAnswers, CallsAssumption, RecordsAssumption
<1>2. KeysInv /\ RecordsInv /\ AnswersInv /\ [Next]_vars => (KeysInv /\ RecordsInv /\ AnswersInv)'
  BY NextKeys, NextRecords, NextAnswers, RecordsAssumption
<1>3. KeysInv /\ RecordsInv /\ AnswersInv => AnswersAreTrue
  BY InvAnswers
<1> QED
  BY <1>1, <1>2, <1>3, PTL DEF Spec

----------------------------------------------------------------------------
(* What is told of a step.                                                 *)
\* A batch adds an event to the outbox, after those it has.
Announces(new, c, type, id, version, payload) ==
  /\ new \in Nat /\ new \notin DOMAIN outbox
  /\ DOMAIN outbox' = DOMAIN outbox \cup {new}
  /\ \A n \in DOMAIN outbox : n \in Nat /\ n < new /\ outbox'[n] = outbox[n]
  /\ outbox'[new].type = type /\ outbox'[new].id = id /\ outbox'[new].version = version
  /\ outbox'[new].value = payload /\ outbox'[new].by = c

LEMMA WriteAnnounces ==
  ASSUME KeysInv, NEW c, NEW type, NEW id, NEW version, NEW value, NEW payload,
         Write(c, type, Stored(id, version, value), payload)
  PROVE  \E new : Announces(new, c, type, id, version, payload)
<1> DEFINE e == [type |-> type, id |-> id, version |-> version, value |-> payload, by |-> c]
           new == Len(outbox) + 1
<1>1. outbox' = Append(outbox, e)
  BY DEF Write, Stored
<1>2. outbox \in Seq({outbox[n] : n \in DOMAIN outbox})
  BY DEF KeysInv, ShapesOK
<1>3. e.type = type /\ e.id = id /\ e.version = version /\ e.value = payload /\ e.by = c
  OBVIOUS
<1> HIDE DEF e
<1>4. /\ DOMAIN outbox' = DOMAIN outbox \cup {new} /\ new \notin DOMAIN outbox
      /\ \A n \in DOMAIN outbox : outbox'[n] = outbox[n]
      /\ outbox'[new] = e
  BY <1>1, <1>2, Appended
<1>5. DOMAIN outbox = 1 .. Len(outbox) /\ Len(outbox) \in Nat
  BY <1>2
<1>6. new \in Nat /\ \A n \in DOMAIN outbox : n \in Nat /\ n < new
  BY <1>5
<1> HIDE DEF new
<1> QED
  BY <1>3, <1>4, <1>6 DEF Announces

LEMMA Positions ==
  ASSUME KeysInv
  PROVE  IsFiniteSet(DOMAIN outbox) /\ DOMAIN outbox \subseteq Nat
<1>1. DOMAIN outbox = 1 .. Len(outbox) /\ Len(outbox) \in Nat
  BY DEF KeysInv, ShapesOK
<1> QED
  BY <1>1, FS_Interval

----------------------------------------------------------------------------
(* The primary contact.                                                    *)

PrimaryContacts(a) == { i \in DOMAIN contacts : contacts[i].account = a /\ contacts[i].primary }

\* For an account there is and for one there is not yet.
PrimariesOK ==
  \A a : \A n \in ChosenFor(a) :
    IsLast(n, ChosenFor(a)) => PrimaryContacts(a) = {outbox[n].id}

\* A step that tells of no contact changes none.
LEMMA OthersChoose ==
  ASSUME PrimariesOK, UNCHANGED contacts,
         \A n \in DOMAIN outbox : command'[outbox[n].by] = command[outbox[n].by],
         \/ UNCHANGED outbox
         \/ \E new, c, type, id, version, payload :
              Announces(new, c, type, id, version, payload) /\ type # "contact"
  PROVE  PrimariesOK'
<1>1. ASSUME NEW a PROVE ChosenFor(a)' = ChosenFor(a)
  <2>1. CASE UNCHANGED outbox
    BY <2>1 DEF ChosenFor
  <2>2. ASSUME NEW new, NEW c, NEW type, NEW id, NEW version, NEW payload,
               Announces(new, c, type, id, version, payload), type # "contact"
        PROVE  ChosenFor(a)' = ChosenFor(a)
    BY <2>2 DEF ChosenFor, Announces
  <2> QED
    BY <2>1, <2>2
<1>2. \A n \in DOMAIN outbox : outbox'[n] = outbox[n]
  BY DEF Announces
<1>3. \A a : PrimaryContacts(a)' = PrimaryContacts(a)
  BY DEF PrimaryContacts
<1>4. \A a : ChosenFor(a) \subseteq DOMAIN outbox
  BY DEF ChosenFor
<1> QED
  BY <1>1, <1>2, <1>3, <1>4 DEF PrimariesOK, IsLast

LEMMA ContactChosen ==
  ASSUME KeysInv, RecordsInv, PrimariesOK, NEW c \in Calls, CommitContact(c)
  PROVE  PrimariesOK'
<1> DEFINE row == [account |-> command[c].account, primary |-> command[c].primary, version |-> 1]
           no == FALSE
           replaced(i) == command[c].primary /\ contacts[i].account = command[c].account
                                             /\ contacts[i].primary
           cleared == [i \in DOMAIN contacts |->
             IF replaced(i) THEN [contacts[i] EXCEPT !.primary = no, !.version = @ + 1]
                            ELSE contacts[i]]
<1>1. /\ Write(c, "contact", Stored(c, 1, <<>>), <<>>) /\ UNCHANGED command
      /\ contacts' = Put(cleared, c, row)
  BY DEF CommitContact, Commit, Write
<1>2. PICK new : Announces(new, c, "contact", c, 1, <<>>)
  BY <1>1, WriteAnnounces
<1>3. c \notin DOMAIN contacts
  BY <1>1 DEF Write, RecordsInv, MadeOK, Made
<1>4. \A i \in DOMAIN contacts : contacts[i] \in ContactRows
  BY DEF RecordsInv, TablesTyped, ContactRows
<1>5. ASSUME NEW i \in DOMAIN contacts
      PROVE  /\ cleared[i].account = contacts[i].account
             /\ cleared[i].primary = (contacts[i].primary /\ ~replaced(i))
  <2>1. PICK old \in ContactRows : old = contacts[i]
    BY <1>4
  <2>0. no \in BOOLEAN /\ ~no
    OBVIOUS
  <2> HIDE DEF no
  <2>2. /\ [old EXCEPT !.primary = no, !.version = @ + 1].account = old.account
        /\ [old EXCEPT !.primary = no, !.version = @ + 1].primary = no
    BY DEF ContactRows
  <2>3. old.primary \in BOOLEAN
    BY DEF ContactRows
  <2>4. CASE replaced(i)
    <3>1. cleared[i] = [old EXCEPT !.primary = no, !.version = @ + 1]
      BY <2>1, <2>4
    <3> QED
      BY <2>0, <2>1, <2>2, <2>4, <3>1
  <2>5. CASE ~replaced(i)
    <3>1. cleared[i] = old
      BY <2>1, <2>5
    <3> QED
      BY <2>1, <2>3, <2>5, <3>1
  <2> QED
    BY <2>4, <2>5
<1>6. DOMAIN cleared = DOMAIN contacts
  OBVIOUS
<1>7. row.account = command[c].account /\ row.primary = command[c].primary
  OBVIOUS
<1> HIDE DEF row, cleared
<1>8. /\ DOMAIN contacts' = DOMAIN contacts \cup {c} /\ contacts'[c] = row
      /\ \A i \in DOMAIN contacts : contacts'[i] = cleared[i]
  BY <1>1, <1>3, <1>6 DEF Put
<1>9. ASSUME NEW a, a = command[c].account, command[c].primary
      PROVE  /\ PrimaryContacts(a)' = {c}
             /\ \A n \in ChosenFor(a)' : IsLast(n, ChosenFor(a))' => n = new
  <2>1. PrimaryContacts(a)' = {c}
    <3>1. ASSUME NEW i \in DOMAIN contacts, contacts'[i].account = a PROVE ~contacts'[i].primary
      <4>1. /\ contacts[i].account = a
            /\ contacts'[i].primary = (contacts[i].primary /\ ~replaced(i))
        BY <1>5, <1>8, <3>1
      <4>2. contacts[i].primary => replaced(i)
        BY <1>9, <4>1
      <4> HIDE DEF replaced
      <4> QED
        BY <4>1, <4>2, Zenon
    <3>2. contacts'[c].account = a /\ contacts'[c].primary
      BY <1>7, <1>8, <1>9
    <3> QED
      BY <1>8, <3>1, <3>2 DEF PrimaryContacts
  <2>2. new \in ChosenFor(a)' /\ \A n \in DOMAIN outbox : ~(new <= n)
    BY <1>1, <1>2, <1>9 DEF ChosenFor, Announces
  <2>3. \A n \in ChosenFor(a)' : n = new \/ n \in DOMAIN outbox
    BY <1>2 DEF ChosenFor, Announces
  <2> QED
    BY <2>1, <2>2, <2>3 DEF IsLast
<1>10. ASSUME NEW a, ~(a = command[c].account /\ command[c].primary)
       PROVE  /\ PrimaryContacts(a)' = PrimaryContacts(a)
              /\ ChosenFor(a)' = ChosenFor(a)
  <2>1. PrimaryContacts(a)' = PrimaryContacts(a)
    BY <1>3, <1>5, <1>7, <1>8, <1>10 DEF PrimaryContacts
  <2>2. ChosenFor(a)' = ChosenFor(a)
    BY <1>1, <1>2, <1>10 DEF ChosenFor, Announces
  <2> QED
    BY <2>1, <2>2
<1>11. outbox'[new].id = c /\ \A n \in DOMAIN outbox : outbox'[n] = outbox[n]
  BY <1>2 DEF Announces
<1>12. \A a : ChosenFor(a) \subseteq DOMAIN outbox
  BY DEF ChosenFor
<1>13. ASSUME NEW a, NEW n \in ChosenFor(a)', IsLast(n, ChosenFor(a))'
       PROVE  PrimaryContacts(a)' = {outbox'[n].id}
  <2>1. CASE a = command[c].account /\ command[c].primary
    BY <1>9, <1>11, <1>13, <2>1
  <2>2. CASE ~(a = command[c].account /\ command[c].primary)
    <3>1. n \in ChosenFor(a) /\ IsLast(n, ChosenFor(a))
      BY <1>10, <1>13, <2>2 DEF IsLast
    <3> QED
      BY <1>10, <1>11, <1>12, <2>2, <3>1 DEF PrimariesOK
  <2> QED
    BY <2>1, <2>2
<1> QED
  BY <1>13 DEF PrimariesOK

Other == {"party", "product", "warehouse", "account", "activity"}

\* What a step tells, and of the records it tells of, which it may change.
LEMMA StepAnnounces ==
  ASSUME KeysInv, RecordsInv, NEW c \in Calls, Step(c)
  PROVE  /\ UNCHANGED command
         /\ \/ CommitContact(c) /\ UNCHANGED <<opportunities, tasks, settings>>
            \/ CommitOpportunity(c) /\ UNCHANGED <<contacts, tasks, settings>>
            \/ CommitTask(c) /\ UNCHANGED <<contacts, opportunities, settings>>
            \/ CommitComplete(c) /\ UNCHANGED <<contacts, opportunities, settings>>
            \/ CommitStage(c) /\ UNCHANGED <<contacts, tasks, settings>>
            \/ CommitSettings(c) /\ UNCHANGED <<contacts, opportunities, tasks>>
            \/ InitializeSettings(c) /\ UNCHANGED <<outbox, contacts, opportunities, tasks>>
            \/ UNCHANGED <<outbox, contacts, opportunities, tasks, settings>>
            \/ /\ UNCHANGED <<contacts, opportunities, tasks, settings>>
               /\ \E new, type, id, version, payload :
                    Announces(new, c, type, id, version, payload) /\ type \in Other
<1>0. ASSUME NEW type \in Other, NEW id, NEW version, NEW value,
             Commit(c, type, Stored(id, version, value), <<>>)
      PROVE  /\ UNCHANGED command
             /\ \E new, kind, i, v, payload :
                  Announces(new, c, kind, i, v, payload) /\ kind \in Other
  <2>1. Write(c, type, Stored(id, version, value), <<>>) /\ UNCHANGED command
    BY <1>0 DEF Commit, Write
  <2> QED
    BY <2>1, WriteAnnounces
<1>1. CASE MasterStep(c) /\ UNCHANGED <<crmTables, settings>>
  <2>0. UNCHANGED <<contacts, opportunities, tasks, settings>>
    BY <1>1 DEF crmTables
  <2>1. CASE MasterQuery(c)
    <3>1. UNCHANGED <<outbox, command>>
      BY <2>1 DEF MasterQuery, MasterReplay, ReadReplay, QueryCode, Resolve, MasterAbort,
                  AbortUncaught, AbortCaught, Reads
    <3> QED
      BY <2>0, <3>1
  <2>2. CASE CommitParty(c)
    BY <2>0, <2>2, <1>0 DEF CommitParty, Created, Other
  <2>3. CASE CommitProduct(c)
    BY <2>0, <2>3, <1>0 DEF CommitProduct, Created, Other
  <2>4. CASE CommitWarehouse(c)
    BY <2>0, <2>4, <1>0 DEF CommitWarehouse, Created, Other
  <2> QED
    BY <1>1, <2>1, <2>2, <2>3, <2>4 DEF MasterStep
<1>2. CASE CrmStep(c) /\ UNCHANGED <<masterTables, settings>>
  <2>1. CASE CrmQuery(c) /\ UNCHANGED crmTables
    <3>1. UNCHANGED <<contacts, opportunities, tasks>>
      BY <2>1 DEF crmTables
    <3>2. UNCHANGED <<outbox, command>>
      BY <2>1, CrmQueries DEF Quietly
    <3> QED
      BY <1>2, <3>1, <3>2
  <2>2. CASE CommitAccount(c)
    BY <1>2, <2>2, <1>0 DEF CommitAccount, Other
  <2>3. CASE CommitActivity(c)
    BY <1>2, <2>3, <1>0 DEF CommitActivity, Other
  <2>4. CASE CommitContact(c)
    BY <1>2, <2>4 DEF CommitContact, Commit, Write
  <2>5. CASE CommitOpportunity(c)
    BY <1>2, <2>5 DEF CommitOpportunity, Commit, Write
  <2>6. CASE CommitTask(c)
    BY <1>2, <2>6 DEF CommitTask, Commit, Write
  <2>7. CASE CommitComplete(c)
    BY <1>2, <2>7 DEF CommitComplete, Commit, Write
  <2>8. CASE CommitStage(c)
    BY <1>2, <2>8 DEF CommitStage, Commit, Write
  <2> QED
    BY <1>2, <2>1, <2>2, <2>3, <2>4, <2>5, <2>6, <2>7, <2>8 DEF CrmStep
<1>3. CASE SettingsStep(c) /\ UNCHANGED <<masterTables, crmTables>>
  <2>0. UNCHANGED <<contacts, opportunities, tasks>>
    BY <1>3 DEF crmTables
  <2>1. CASE CommitSettings(c)
    BY <2>0, <2>1 DEF CommitSettings, Write
  <2>2. CASE InitializeSettings(c)
    BY <2>0, <2>2 DEF InitializeSettings, Reads
  <2>3. CASE SettingsReplay(c) \/ ReadSettings(c) \/ MissSettings(c) \/ AbortSettings(c)
             \/ ShowSettings(c)
    BY <2>0, <2>3 DEF SettingsReplay, ReadSettings, MissSettings, AbortSettings, ShowSettings,
                      Reads
  <2> QED
    BY <1>3, <2>1, <2>2, <2>3 DEF SettingsStep
<1> QED
  BY <1>1, <1>2, <1>3 DEF Step

\* Who has written has its command for good.
LEMMA WritersKeep ==
  ASSUME KeysInv, RecordsInv, [Next]_vars
  PROVE  \A n \in DOMAIN outbox : command'[outbox[n].by] = command[outbox[n].by]
<1>1. \A n \in DOMAIN outbox : outbox[n].by \in Calls /\ pc[outbox[n].by] # "idle"
  BY DEF KeysInv, WritersOK
<1>2. CASE \E c \in Calls : Arrive(c)
  BY <1>1, <1>2 DEF Arrive, KeysInv, ShapesOK
<1>3. CASE \E c \in Calls : Step(c)
  BY <1>3, StepAnnounces
<1>4. CASE (\E row \in idempotency : ExpireKey(row)) \/ UNCHANGED vars
  BY <1>4 DEF ExpireKey, vars, common
<1> QED
  BY <1>2, <1>3, <1>4 DEF Next, Quiet

LEMMA NextPrimaries ==
  ASSUME KeysInv, RecordsInv, PrimariesOK, [Next]_vars
  PROVE  PrimariesOK'
<1>0. \A n \in DOMAIN outbox : command'[outbox[n].by] = command[outbox[n].by]
  BY WritersKeep
<1>1. CASE \E c \in Calls : Step(c)
  <2>1. PICK c \in Calls : Step(c)
    BY <1>1
  <2>2. CASE CommitContact(c)
    BY <2>2, ContactChosen
  <2>3. CASE UNCHANGED <<outbox, contacts>>
    BY <1>0, <2>3, OthersChoose
  <2>4. ASSUME NEW type, NEW id, NEW version, NEW value, NEW payload, type # "contact",
               Write(c, type, Stored(id, version, value), payload), UNCHANGED contacts
        PROVE  PrimariesOK'
    BY <1>0, <2>4, OthersChoose, WriteAnnounces
  <2>5. CASE CommitOpportunity(c) \/ CommitTask(c)
    BY <2>4, <2>5 DEF CommitOpportunity, CommitTask, Commit
  <2>6. CASE CommitComplete(c)
    BY <2>4, <2>6 DEF CommitComplete, Commit
  <2>7. CASE CommitStage(c)
    BY <2>4, <2>7 DEF CommitStage, Commit
  <2>8. CASE CommitSettings(c) /\ UNCHANGED contacts
    BY <2>4, <2>8 DEF CommitSettings
  <2>9. CASE /\ UNCHANGED contacts
             /\ \E new, type, id, version, payload :
                  Announces(new, c, type, id, version, payload) /\ type \in Other
    BY <1>0, <2>9, OthersChoose DEF Other
  <2> QED
    BY <2>1, <2>2, <2>3, <2>5, <2>6, <2>7, <2>8, <2>9, StepAnnounces
<1>2. CASE \E c \in Calls : Arrive(c)
  BY <1>0, <1>2, OthersChoose DEF Arrive, Tables, crmTables
<1>3. CASE (\E row \in idempotency : ExpireKey(row) /\ Tables) \/ UNCHANGED vars
  BY <1>0, <1>3, OthersChoose DEF ExpireKey, Tables, vars, common, crmTables
<1> QED
  BY <1>1, <1>2, <1>3 DEF Next, Quiet

\* An account has one primary contact from the moment it was given one, the
\* last that a creation made primary: the UPDATE that clears the one there is
\* and the INSERT of the new one are one batch.
THEOREM LastChosenIsPrimary == Spec => []PrimaryIsLastChosen
<1>1. Init => KeysInv /\ RecordsInv
  BY InitKeys, InitRecords, CallsAssumption, RecordsAssumption
<1>2. Init => PrimariesOK
  BY DEF Init, CommonInit, PrimariesOK, ChosenFor
<1>3. KeysInv /\ RecordsInv /\ [Next]_vars => (KeysInv /\ RecordsInv)'
  BY NextKeys, NextRecords, RecordsAssumption
<1>4. KeysInv /\ RecordsInv /\ PrimariesOK /\ [Next]_vars => PrimariesOK'
  BY NextPrimaries
<1>5. PrimariesOK => PrimaryIsLastChosen
  BY DEF PrimariesOK, PrimaryIsLastChosen, PrimaryContacts
<1> QED
  BY <1>1, <1>2, <1>3, <1>4, <1>5, PTL DEF Spec

----------------------------------------------------------------------------
(* The outbox tells the records.                                           *)

Versioned == {"stage", "update-settings"}

\* The row a batch is about to change had its first version at the least.
SeenOK ==
  \A c \in Calls : pc[c] = "batch" /\ command[c].op \in Versioned => seen[c].version >= 1

\* Opportunities and tasks are told of from their creation.
EventsOK ==
  \A n \in DOMAIN outbox :
    /\ outbox[n].type = "opportunity" => outbox[n].id \in DOMAIN opportunities
    /\ outbox[n].type = "task" => outbox[n].id \in DOMAIN tasks
    /\ outbox[n].type \in {"opportunity", "settings"} => outbox[n].version \in Nat

TellsInv == OutboxTellsRecords /\ SeenOK /\ EventsOK

LEMMA Changes ==
  ASSUME KeysInv, NEW type, NEW id
  PROVE  /\ ChangesTold(type, id) \subseteq DOMAIN outbox
         /\ IsFiniteSet(ChangesTold(type, id))
         /\ Cardinality(ChangesTold(type, id)) \in Nat
         /\ Cardinality(ChangesTold(type, id)) = 0 <=> ChangesTold(type, id) = {}
<1>1. ChangesTold(type, id) \subseteq DOMAIN outbox
  BY DEF ChangesTold
<1>2. IsFiniteSet(ChangesTold(type, id))
  BY <1>1, Positions, FS_Subset
<1> QED
  BY <1>1, <1>2, FS_CardinalityType, FS_EmptySet

\* An event that is of no change of a record leaves what was told of it.
LEMMA SameChanges ==
  ASSUME NEW type, NEW id,
         \/ UNCHANGED outbox
         \/ \E new, c, kind, i, version, payload :
              /\ Announces(new, c, kind, i, version, payload)
              /\ kind # type \/ i # id \/ ~(version > 1)
  PROVE  /\ ChangesTold(type, id)' = ChangesTold(type, id)
         /\ \A n \in ChangesTold(type, id) : outbox'[n] = outbox[n]
<1>1. CASE UNCHANGED outbox
  BY <1>1 DEF ChangesTold
<1>2. ASSUME NEW new, NEW c, NEW kind, NEW i, NEW version, NEW payload,
             Announces(new, c, kind, i, version, payload),
             kind # type \/ i # id \/ ~(version > 1)
      PROVE  /\ ChangesTold(type, id)' = ChangesTold(type, id)
             /\ \A n \in ChangesTold(type, id) : outbox'[n] = outbox[n]
  BY <1>2 DEF ChangesTold, Announces
<1> QED
  BY <1>1, <1>2

LEMMA MoreChanges ==
  ASSUME KeysInv, NEW type, NEW id, NEW new, NEW c, NEW version, NEW payload, version > 1,
         Announces(new, c, type, id, version, payload)
  PROVE  /\ ChangesTold(type, id)' = ChangesTold(type, id) \cup {new}
         /\ new \notin ChangesTold(type, id)
         /\ Cardinality(ChangesTold(type, id)') = 1 + Cardinality(ChangesTold(type, id))
         /\ \A n \in ChangesTold(type, id) : outbox'[n] = outbox[n] /\ ~(new <= n)
<1>1. ChangesTold(type, id)' = ChangesTold(type, id) \cup {new}
  BY DEF ChangesTold, Announces
<1>2. new \notin ChangesTold(type, id)
  BY DEF ChangesTold, Announces
<1>3. \A n \in ChangesTold(type, id) : outbox'[n] = outbox[n] /\ ~(new <= n)
  BY DEF ChangesTold, Announces
<1>4. Cardinality(ChangesTold(type, id)') = Cardinality(ChangesTold(type, id)) + 1
  BY <1>1, <1>2, Changes, FS_AddElement
<1> QED
  BY <1>1, <1>2, <1>3, <1>4, Changes

LEMMA OpportunityKept ==
  ASSUME NEW o, OpportunityTold(o), opportunities'[o] = opportunities[o],
         ChangesTold("opportunity", o)' = ChangesTold("opportunity", o),
         \A n \in ChangesTold("opportunity", o) : outbox'[n] = outbox[n]
  PROVE  OpportunityTold(o)'
BY DEF OpportunityTold, IsLast

LEMMA TaskKept ==
  ASSUME NEW t, TaskTold(t), tasks'[t] = tasks[t],
         ChangesTold("task", t)' = ChangesTold("task", t),
         \A n \in ChangesTold("task", t) : outbox'[n] = outbox[n]
  PROVE  TaskTold(t)'
BY DEF TaskTold

LEMMA SettingsKept ==
  ASSUME SettingsTold, settings' = settings,
         \/ UNCHANGED outbox
         \/ \E new, c, type, id, version, payload :
              Announces(new, c, type, id, version, payload) /\ type # "settings"
  PROVE  SettingsTold'
<1> DEFINE told == { n \in DOMAIN outbox : outbox[n].type = "settings" }
           announced == { n \in told : outbox[n].version = settings.version }
<1>1. told' = told /\ announced' = announced /\ \A n \in told : outbox'[n] = outbox[n]
  <2>1. CASE UNCHANGED outbox
    BY <2>1
  <2>2. ASSUME NEW new, NEW c, NEW type, NEW id, NEW version, NEW payload,
               Announces(new, c, type, id, version, payload), type # "settings"
        PROVE  told' = told /\ announced' = announced /\ \A n \in told : outbox'[n] = outbox[n]
    BY <2>2 DEF Announces
  <2> QED
    BY <2>1, <2>2
<1>2. announced \subseteq told
  OBVIOUS
<1>3. /\ settings.version > 1 =>
           \E n \in announced : IsFirst(n, announced) /\ outbox[n].value = <<settings.buckets>>
      /\ \A n \in told : outbox[n].version <= settings.version
  BY DEF SettingsTold
<1> HIDE DEF told, announced
<1>4. /\ settings'.version > 1 =>
           \E n \in announced' : IsFirst(n, announced') /\ outbox'[n].value = <<settings'.buckets>>
      /\ \A n \in told' : outbox'[n].version <= settings'.version
  BY <1>1, <1>2, <1>3 DEF IsFirst
<1> QED
  BY <1>4 DEF SettingsTold, told, announced, IsFirst

\* A step that tells of no opportunity, task or settings, and changes none.
LEMMA OthersTell ==
  ASSUME OutboxTellsRecords, EventsOK, UNCHANGED <<opportunities, tasks, settings>>,
         \/ UNCHANGED outbox
         \/ \E new, c, type, id, version, payload :
              /\ Announces(new, c, type, id, version, payload)
              /\ type \notin {"opportunity", "task", "settings"}
  PROVE  OutboxTellsRecords' /\ EventsOK'
<1>1. \A o \in DOMAIN opportunities : OpportunityTold(o)'
  BY SameChanges, OpportunityKept DEF OutboxTellsRecords
<1>2. \A t \in DOMAIN tasks : TaskTold(t)'
  BY SameChanges, TaskKept DEF OutboxTellsRecords
<1>3. SettingsTold'
  BY SettingsKept DEF OutboxTellsRecords
<1>4. EventsOK'
  <2>1. CASE UNCHANGED outbox
    BY <2>1 DEF EventsOK
  <2>2. CASE ~UNCHANGED outbox
    <3>1. PICK new, c, type, id, version, payload :
            /\ Announces(new, c, type, id, version, payload)
            /\ type \notin {"opportunity", "task", "settings"}
      BY <2>2
    <3>2. /\ DOMAIN outbox' = DOMAIN outbox \cup {new} /\ outbox'[new].type = type
          /\ \A n \in DOMAIN outbox : outbox'[n] = outbox[n]
      BY <3>1 DEF Announces
    <3> QED
      BY <3>1, <3>2 DEF EventsOK
  <2> QED
    BY <2>1, <2>2
<1> QED
  BY <1>1, <1>2, <1>3, <1>4 DEF OutboxTellsRecords

LEMMA OpportunityTells ==
  ASSUME KeysInv, RecordsInv, TellsInv, NEW c \in Calls, CommitOpportunity(c),
         UNCHANGED <<tasks, settings>>
  PROVE  OutboxTellsRecords' /\ EventsOK'
<1> DEFINE row == [account |-> command[c].account, worth |-> Worth(command[c]), version |-> 1]
<1>1. /\ Write(c, "opportunity", Stored(c, 1, Worth(command[c])), <<>>)
      /\ opportunities' = Put(opportunities, c, row)
  BY DEF CommitOpportunity, Commit
<1>2. PICK new : Announces(new, c, "opportunity", c, 1, <<>>)
  BY <1>1, WriteAnnounces
<1>3. c \notin DOMAIN opportunities
  BY <1>1 DEF Write, RecordsInv, MadeOK, Made
<1>4. row.version = 1
  OBVIOUS
<1> HIDE DEF row
<1>5. /\ DOMAIN opportunities' = DOMAIN opportunities \cup {c} /\ opportunities'[c] = row
      /\ \A o \in DOMAIN opportunities : opportunities'[o] = opportunities[o]
  BY <1>1, <1>3 DEF Put
<1>6. \A type, id : /\ ChangesTold(type, id)' = ChangesTold(type, id)
                    /\ \A n \in ChangesTold(type, id) : outbox'[n] = outbox[n]
  BY <1>2, SameChanges
<1>7. \A o \in DOMAIN opportunities : OpportunityTold(o)'
  BY <1>5, <1>6, OpportunityKept DEF TellsInv, OutboxTellsRecords
<1>8. OpportunityTold(c)'
  <2>1. ChangesTold("opportunity", c) = {}
    BY <1>3 DEF ChangesTold, TellsInv, EventsOK
  <2>2. ChangesTold("opportunity", c)' = {} /\ Cardinality({}) = 0
    BY <1>6, <2>1, FS_EmptySet
  <2> QED
    BY <1>4, <1>5, <2>2 DEF OpportunityTold
<1>9. \A t \in DOMAIN tasks : TaskTold(t)'
  BY <1>6, TaskKept DEF TellsInv, OutboxTellsRecords
<1>10. SettingsTold'
  BY <1>2, SettingsKept DEF TellsInv, OutboxTellsRecords
<1>11. EventsOK'
  BY <1>2, <1>5 DEF TellsInv, EventsOK, Announces
<1> QED
  BY <1>5, <1>7, <1>8, <1>9, <1>10, <1>11 DEF OutboxTellsRecords

LEMMA TaskTells ==
  ASSUME KeysInv, RecordsInv, TellsInv, NEW c \in Calls, CommitTask(c),
         UNCHANGED <<opportunities, settings>>
  PROVE  OutboxTellsRecords' /\ EventsOK'
<1> DEFINE row == [account |-> command[c].account, opportunity |-> command[c].opportunity,
                   status |-> "open", version |-> 1]
<1>1. /\ Write(c, "task", Stored(c, 1, <<"open">>), <<>>)
      /\ tasks' = Put(tasks, c, row)
  BY DEF CommitTask, Commit
<1>2. PICK new : Announces(new, c, "task", c, 1, <<>>)
  BY <1>1, WriteAnnounces
<1>3. c \notin DOMAIN tasks
  BY <1>1 DEF Write, RecordsInv, MadeOK, Made
<1>4. row.version = 1 /\ row.status = "open"
  OBVIOUS
<1> HIDE DEF row
<1>5. /\ DOMAIN tasks' = DOMAIN tasks \cup {c} /\ tasks'[c] = row
      /\ \A t \in DOMAIN tasks : tasks'[t] = tasks[t]
  BY <1>1, <1>3 DEF Put
<1>6. \A type, id : /\ ChangesTold(type, id)' = ChangesTold(type, id)
                    /\ \A n \in ChangesTold(type, id) : outbox'[n] = outbox[n]
  BY <1>2, SameChanges
<1>7. \A t \in DOMAIN tasks : TaskTold(t)'
  BY <1>5, <1>6, TaskKept DEF TellsInv, OutboxTellsRecords
<1>8. TaskTold(c)'
  <2>1. ChangesTold("task", c) = {}
    BY <1>3 DEF ChangesTold, TellsInv, EventsOK
  <2>2. ChangesTold("task", c)' = {}
    BY <1>6, <2>1
  <2> QED
    BY <1>4, <1>5, <2>2 DEF TaskTold
<1>9. \A o \in DOMAIN opportunities : OpportunityTold(o)'
  BY <1>6, OpportunityKept DEF TellsInv, OutboxTellsRecords
<1>10. SettingsTold'
  BY <1>2, SettingsKept DEF TellsInv, OutboxTellsRecords
<1>11. EventsOK'
  BY <1>2, <1>5 DEF TellsInv, EventsOK, Announces
<1> QED
  BY <1>5, <1>7, <1>8, <1>9, <1>10, <1>11 DEF OutboxTellsRecords

LEMMA CompletionTells ==
  ASSUME KeysInv, RecordsInv, TellsInv, NEW c \in Calls, CommitComplete(c),
         UNCHANGED <<opportunities, settings>>
  PROVE  OutboxTellsRecords' /\ EventsOK'
<1>1. PICK t, version : t = command[c].task /\ version = seen[c].version + 1
  OBVIOUS
<1>2. /\ Write(c, "task", Stored(t, version, <<"completed">>), <<"completed">>)
      /\ command[c].op = "complete"
      /\ tasks' = IF tasks[t].status = "open"
                  THEN [tasks EXCEPT ![t].status = "completed", ![t].version = @ + 1]
                  ELSE tasks
  BY <1>1 DEF CommitComplete, Commit
<1>3. /\ t \in DOMAIN tasks /\ seen[c].version \in Nat
      /\ tasks[t].version = IF tasks[t].status = "open" THEN seen[c].version
                                                        ELSE seen[c].version + 1
  BY <1>1, <1>2 DEF RecordsInv, HandlerOK, CheckedOK, HandlersTyped, Write
<1>4. tasks[t] \in TaskRows
  BY <1>3 DEF RecordsInv, TablesTyped, TaskRows
<1>5. TaskTold(t)
  BY <1>3 DEF TellsInv, OutboxTellsRecords
<1>6. /\ version = 2
      /\ tasks[t].status = "completed" => tasks[t].version = 2
      /\ tasks[t].status # "completed" => tasks[t].status = "open" /\ tasks[t].version = 1
  <2>1. tasks[t].status \in {"open", "completed"}
    BY <1>4 DEF TaskRows
  <2> QED
    BY <1>1, <1>3, <1>5, <2>1 DEF TaskTold
<1>7. PICK new : Announces(new, c, "task", t, 2, <<"completed">>)
  BY <1>2, <1>6, WriteAnnounces
<1>8. /\ DOMAIN tasks' = DOMAIN tasks
      /\ tasks'[t].status = "completed" /\ tasks'[t].version = 2
      /\ \A u \in DOMAIN tasks : u # t => tasks'[u] = tasks[u]
  <2>1. CASE tasks[t].status = "open"
    <3> DEFINE row == [tasks[t] EXCEPT !.status = "completed", !.version = @ + 1]
    <3>1. tasks' = [tasks EXCEPT ![t] = row]
      BY <1>2, <2>1, Zenon
    <3>2. row.status = "completed" /\ row.version = 2
      <4>1. PICK old \in TaskRows : old = tasks[t]
        BY <1>4
      <4>2. old.version = 1
        BY <1>6, <2>1, <4>1
      <4>3. /\ [old EXCEPT !.status = "completed", !.version = @ + 1].status = "completed"
            /\ [old EXCEPT !.status = "completed", !.version = @ + 1].version = 2
        BY <4>2 DEF TaskRows
      <4> QED
        BY <4>1, <4>3, Zenon
    <3> HIDE DEF row
    <3> QED
      BY <1>3, <3>1, <3>2
  <2>2. CASE tasks[t].status # "open"
    BY <1>2, <1>6, <2>2
  <2> QED
    BY <2>1, <2>2
<1>9. /\ ChangesTold("task", t)' = ChangesTold("task", t) \cup {new}
      /\ \A n \in ChangesTold("task", t) : outbox'[n] = outbox[n]
  BY <1>7, MoreChanges
<1>10. TaskTold(t)'
  <2>1. \A n \in ChangesTold("task", t)' : outbox'[n].version = 2
    BY <1>5, <1>7, <1>9 DEF TaskTold, Announces
  <2> QED
    BY <1>8, <1>9, <2>1 DEF TaskTold
<1>11. \A u \in DOMAIN tasks : u # t => TaskTold(u)'
  <2> SUFFICES ASSUME NEW u \in DOMAIN tasks, u # t PROVE TaskTold(u)'
    OBVIOUS
  <2>1. /\ ChangesTold("task", u)' = ChangesTold("task", u)
        /\ \A n \in ChangesTold("task", u) : outbox'[n] = outbox[n]
    BY <1>7, SameChanges
  <2> QED
    BY <1>8, <2>1, TaskKept DEF TellsInv, OutboxTellsRecords
<1>12. \A o \in DOMAIN opportunities : OpportunityTold(o)'
  <2> SUFFICES ASSUME NEW o \in DOMAIN opportunities PROVE OpportunityTold(o)'
    OBVIOUS
  <2>1. /\ ChangesTold("opportunity", o)' = ChangesTold("opportunity", o)
        /\ \A n \in ChangesTold("opportunity", o) : outbox'[n] = outbox[n]
    BY <1>7, SameChanges
  <2> QED
    BY <2>1, OpportunityKept DEF TellsInv, OutboxTellsRecords
<1>13. SettingsTold'
  BY <1>7, SettingsKept DEF TellsInv, OutboxTellsRecords
<1>14. EventsOK'
  BY <1>3, <1>7, <1>8 DEF TellsInv, EventsOK, Announces
<1> QED
  BY <1>8, <1>10, <1>11, <1>12, <1>13, <1>14 DEF OutboxTellsRecords

LEMMA StageTells ==
  ASSUME KeysInv, RecordsInv, TellsInv, NEW c \in Calls, CommitStage(c),
         UNCHANGED <<tasks, settings>>
  PROVE  OutboxTellsRecords' /\ EventsOK'
<1>1. PICK o, worth, version, stage :
        /\ o = command[c].opportunity /\ worth = Worth(command[c])
        /\ version = seen[c].version + 1 /\ stage = command[c].stage
  OBVIOUS
<1>2. /\ Write(c, "opportunity", Stored(o, version, worth), <<stage>>)
      /\ command[c].op = "stage" /\ pc[c] = "batch"
      /\ opportunities' = [opportunities EXCEPT ![o].worth = worth, ![o].version = @ + 1]
  BY <1>1 DEF CommitStage, Commit, Write
<1>3. /\ o \in DOMAIN opportunities /\ seen[c].version \in Nat
      /\ seen[c].version <= opportunities[o].version
      /\ seen[c].version >= 1 /\ worth[1] = stage
  BY <1>1, <1>2 DEF RecordsInv, HandlerOK, CheckedOK, HandlersTyped, TellsInv, SeenOK,
                    Versioned, Worth
<1>4. opportunities[o] \in OpportunityRows /\ worth \in Worths
  BY <1>1, <1>2, <1>3, CommandOf, WorthTyped
     DEF RecordsInv, TablesTyped, OpportunityRows, CommandShape
<1>5. PICK new : Announces(new, c, "opportunity", o, version, <<stage>>)
  BY <1>2, WriteAnnounces
<1>6. /\ DOMAIN opportunities' = DOMAIN opportunities
      /\ opportunities'[o].worth = worth
      /\ opportunities'[o].version = opportunities[o].version + 1
      /\ \A i \in DOMAIN opportunities : i # o => opportunities'[i] = opportunities[i]
  <2> DEFINE row == [opportunities[o] EXCEPT !.worth = worth, !.version = @ + 1]
  <2>1. opportunities' = [opportunities EXCEPT ![o] = row]
    BY <1>2, Zenon
  <2>2. row.worth = worth /\ row.version = opportunities[o].version + 1
    <3>1. PICK old \in OpportunityRows : old = opportunities[o]
      BY <1>4
    <3>2. /\ [old EXCEPT !.worth = worth, !.version = @ + 1].worth = worth
          /\ [old EXCEPT !.worth = worth, !.version = @ + 1].version = old.version + 1
      BY DEF OpportunityRows
    <3> QED
      BY <3>1, <3>2, Zenon
  <2> HIDE DEF row
  <2> QED
    BY <1>3, <2>1, <2>2
<1>7. version > 1 /\ version <= opportunities[o].version + 1 /\ opportunities[o].version \in Nat
  <2>1. opportunities[o].version \in Nat
    BY <1>4 DEF OpportunityRows
  <2> QED
    BY <1>1, <1>3, <2>1
<1>8. /\ ChangesTold("opportunity", o)' = ChangesTold("opportunity", o) \cup {new}
      /\ Cardinality(ChangesTold("opportunity", o)') =
           1 + Cardinality(ChangesTold("opportunity", o))
      /\ \A n \in ChangesTold("opportunity", o) : outbox'[n] = outbox[n] /\ ~(new <= n)
  BY <1>5, <1>7, MoreChanges
<1>9. OpportunityTold(o)'
  <2>1. /\ opportunities[o].version = 1 + Cardinality(ChangesTold("opportunity", o))
        /\ \A n \in ChangesTold("opportunity", o) :
             outbox[n].version <= opportunities[o].version
    BY <1>3 DEF TellsInv, OutboxTellsRecords, OpportunityTold
  <2>2. opportunities'[o].version = 1 + Cardinality(ChangesTold("opportunity", o)')
    BY <1>6, <1>7, <1>8, <2>1, Changes
  <2>3. \A n \in ChangesTold("opportunity", o)' : outbox'[n].version <= opportunities'[o].version
    <3>1. outbox'[new].version = version
      BY <1>5 DEF Announces
    <3>2. ASSUME NEW n \in ChangesTold("opportunity", o)
          PROVE  outbox'[n].version <= opportunities'[o].version
      <4>1. outbox[n].version <= opportunities[o].version /\ outbox[n].version \in Nat
        BY <2>1 DEF ChangesTold, TellsInv, EventsOK
      <4> QED
        BY <1>6, <1>7, <1>8, <3>2, <4>1
    <3> QED
      BY <1>6, <1>7, <1>8, <3>1, <3>2
  <2>4. \A n \in ChangesTold("opportunity", o)' :
          IsLast(n, ChangesTold("opportunity", o))' => n = new
    BY <1>8 DEF IsLast
  <2>5. outbox'[new].value = <<opportunities'[o].worth[1]>>
    BY <1>3, <1>5, <1>6 DEF Announces
  <2> QED
    BY <2>2, <2>3, <2>4, <2>5 DEF OpportunityTold
<1>10. \A i \in DOMAIN opportunities : i # o => OpportunityTold(i)'
  <2> SUFFICES ASSUME NEW i \in DOMAIN opportunities, i # o PROVE OpportunityTold(i)'
    OBVIOUS
  <2>1. /\ ChangesTold("opportunity", i)' = ChangesTold("opportunity", i)
        /\ \A n \in ChangesTold("opportunity", i) : outbox'[n] = outbox[n]
    BY <1>5, SameChanges
  <2> QED
    BY <1>6, <2>1, OpportunityKept DEF TellsInv, OutboxTellsRecords
<1>11. \A t \in DOMAIN tasks : TaskTold(t)'
  <2> SUFFICES ASSUME NEW t \in DOMAIN tasks PROVE TaskTold(t)'
    OBVIOUS
  <2>1. /\ ChangesTold("task", t)' = ChangesTold("task", t)
        /\ \A n \in ChangesTold("task", t) : outbox'[n] = outbox[n]
    BY <1>5, SameChanges
  <2> QED
    BY <2>1, TaskKept DEF TellsInv, OutboxTellsRecords
<1>12. SettingsTold'
  BY <1>5, SettingsKept DEF TellsInv, OutboxTellsRecords
<1>13. EventsOK'
  <2>1. version \in Nat
    BY <1>1, <1>3
  <2> QED
    BY <1>3, <1>5, <1>6, <2>1 DEF TellsInv, EventsOK, Announces
<1> QED
  BY <1>6, <1>9, <1>10, <1>11, <1>12, <1>13 DEF OutboxTellsRecords

LEMMA UpdateTells ==
  ASSUME KeysInv, RecordsInv, TellsInv, NEW c \in Calls, CommitSettings(c),
         UNCHANGED <<opportunities, tasks>>
  PROVE  OutboxTellsRecords' /\ EventsOK'
<1>1. PICK version, buckets : version = seen[c].version + 1 /\ buckets = command[c].buckets
  OBVIOUS
<1>2. /\ Write(c, "settings", Stored("settings", version, <<>>), <<buckets>>)
      /\ command[c].op = "update-settings" /\ pc[c] = "batch"
      /\ settings' = IF settings.version = seen[c].version
                     THEN [version |-> version, buckets |-> buckets] ELSE settings
  BY <1>1 DEF CommitSettings, Write
<1>3. /\ seen[c].version \in Nat /\ settings.version \in Nat
      /\ seen[c].version <= settings.version /\ seen[c].version >= 1
  BY <1>2 DEF RecordsInv, HandlerOK, CheckedOK, HandlersTyped, TablesTyped, TellsInv, SeenOK,
              Versioned
<1>4. PICK new : Announces(new, c, "settings", "settings", version, <<buckets>>)
  BY <1>2, WriteAnnounces
<1>5. version \in Nat /\ version > 1
  BY <1>1, <1>3
<1> DEFINE told == { n \in DOMAIN outbox : outbox[n].type = "settings" }
           announced == { n \in told : outbox[n].version = settings.version }
<1>6. /\ settings.version > 1 =>
           \E n \in announced : IsFirst(n, announced) /\ outbox[n].value = <<settings.buckets>>
      /\ \A n \in told : outbox[n].version <= settings.version /\ outbox[n].version \in Nat
  BY DEF TellsInv, OutboxTellsRecords, SettingsTold, EventsOK
<1>7. told' = told \cup {new} /\ \A n \in told : outbox'[n] = outbox[n] /\ n \in Nat /\ n < new
  BY <1>4 DEF Announces
<1>8. new \in Nat /\ outbox'[new].version = version /\ outbox'[new].value = <<buckets>>
  BY <1>4 DEF Announces
<1>9. announced' = { n \in told' : outbox'[n].version = settings'.version }
      /\ announced = { n \in told : outbox[n].version = settings.version }
  OBVIOUS
<1>10. /\ settings'.version > 1 =>
            \E n \in announced' :
              IsFirst(n, announced') /\ outbox'[n].value = <<settings'.buckets>>
       /\ \A n \in told' : outbox'[n].version <= settings'.version
  <2> HIDE DEF told, announced
  <2>1. CASE settings.version = seen[c].version
    <3>1. settings'.version = version /\ settings'.buckets = buckets
      BY <1>2, <2>1
    <3>2. \A n \in told : outbox'[n].version < version /\ outbox'[n].version \in Nat
      BY <1>1, <1>3, <1>6, <1>7, <2>1
    <3>3. announced' = {new}
      BY <1>7, <1>8, <1>9, <3>1, <3>2
    <3>4. IsFirst(new, announced')
      BY <1>8, <3>3 DEF IsFirst
    <3> QED
      BY <1>5, <1>7, <1>8, <3>1, <3>2, <3>3, <3>4
  <2>2. CASE settings.version # seen[c].version
    <3>1. settings' = settings /\ version <= settings.version
      BY <1>1, <1>2, <1>3, <2>2
    <3>2. settings.version > 1
      BY <1>3, <2>2
    <3>3. PICK n \in announced : IsFirst(n, announced) /\ outbox[n].value = <<settings.buckets>>
      BY <1>6, <3>2
    <3>4. announced \subseteq announced' /\ announced' \subseteq announced \cup {new}
      BY <1>7, <1>9, <3>1
    <3>5. IsFirst(n, announced') /\ outbox'[n].value = <<settings'.buckets>>
      BY <1>7, <1>8, <1>9, <3>1, <3>3, <3>4 DEF IsFirst
    <3>6. \A m \in told' : outbox'[m].version <= settings'.version
      BY <1>6, <1>7, <1>8, <3>1
    <3> QED
      BY <3>3, <3>4, <3>5, <3>6
  <2> QED
    BY <2>1, <2>2
<1>11. SettingsTold'
  BY <1>10 DEF SettingsTold, IsFirst
<1>12. \A type, id : type # "settings" =>
         /\ ChangesTold(type, id)' = ChangesTold(type, id)
         /\ \A n \in ChangesTold(type, id) : outbox'[n] = outbox[n]
  BY <1>4, SameChanges
<1>13. \A o \in DOMAIN opportunities : OpportunityTold(o)'
  BY <1>12, OpportunityKept DEF TellsInv, OutboxTellsRecords
<1>14. \A t \in DOMAIN tasks : TaskTold(t)'
  BY <1>12, TaskKept DEF TellsInv, OutboxTellsRecords
<1>15. EventsOK'
  BY <1>4, <1>5 DEF TellsInv, EventsOK, Announces
<1> QED
  BY <1>11, <1>13, <1>14, <1>15 DEF OutboxTellsRecords

\* The default row is of the first version, which no event announces.
LEMMA InitializeTells ==
  ASSUME RecordsInv, TellsInv, NEW c \in Calls, InitializeSettings(c),
         UNCHANGED <<outbox, opportunities, tasks>>
  PROVE  OutboxTellsRecords' /\ EventsOK'
<1>1. CASE settings = NoSettings
  <2>1. settings'.version = 1 /\ settings.version = 0
    BY <1>1 DEF InitializeSettings, NoSettings
  <2>2. \A n \in DOMAIN outbox : outbox[n].type = "settings" =>
          outbox[n].version <= 1
    BY <2>1 DEF TellsInv, OutboxTellsRecords, SettingsTold, EventsOK
  <2>3. SettingsTold'
    BY <2>1, <2>2 DEF SettingsTold
  <2>4. \A type, id : ChangesTold(type, id)' = ChangesTold(type, id)
    BY DEF ChangesTold
  <2>5. \A o \in DOMAIN opportunities : OpportunityTold(o)'
    BY <2>4, OpportunityKept DEF TellsInv, OutboxTellsRecords
  <2>6. \A t \in DOMAIN tasks : TaskTold(t)'
    BY <2>4, TaskKept DEF TellsInv, OutboxTellsRecords
  <2>7. EventsOK'
    BY DEF TellsInv, EventsOK
  <2> QED
    BY <2>3, <2>5, <2>6, <2>7 DEF OutboxTellsRecords
<1>2. CASE settings # NoSettings
  <2>1. settings' = settings
    BY <1>2 DEF InitializeSettings
  <2> QED
    BY <2>1, OthersTell DEF TellsInv
<1> QED
  BY <1>1, <1>2

----------------------------------------------------------------------------
(* The version a batch starts from.                                        *)

\* A step of one handler leaves what the others have seen.
LEMMA SeenByOthers ==
  ASSUME NEW c \in Calls, Step(c)
  PROVE  UNCHANGED seen \/ \E x : seen' = [seen EXCEPT ![c] = x]
<1>1. CASE MasterStep(c)
  BY <1>1 DEF MasterStep, MasterQuery, MasterReplay, ReadReplay, QueryCode, Resolve, MasterAbort,
              AbortUncaught, AbortCaught, Reads, CommitParty, CommitProduct, CommitWarehouse,
              Commit, Write
<1>2. CASE CrmStep(c)
  BY <1>2 DEF CrmStep, CrmQuery, ReadReplay, QueryAccountCode, QueryParty, RequireAccount,
              RequireContact, RequireOpportunity, ReadOpportunity, ReadTask, Remember, Reads,
              AbortUncaught, CommitAccount, CommitContact, CommitOpportunity, CommitActivity,
              CommitTask, CommitComplete, CommitStage, Commit, Write
<1>3. CASE SettingsStep(c)
  BY <1>3 DEF SettingsStep, SettingsReplay, ReadSettings, MissSettings, InitializeSettings,
              CommitSettings, AbortSettings, ShowSettings, Reads, Write
<1> QED
  BY <1>1, <1>2, <1>3 DEF Step

\* Where the handlers that look at a version have it from.
LEMMA BatchFrom ==
  ASSUME RecordsInv, NEW c \in Calls, Step(c), pc'[c] = "batch", command[c].op \in Versioned
  PROVE  \/ \E o \in DOMAIN opportunities : Remember(c, opportunities[o].version)
         \/ command[c].op = "update-settings" /\ ReadSettings(c)
<1>0. DOMAIN pc = Calls /\ PlaceOK(c)
  BY DEF RecordsInv, HandlersTyped, HandlerOK
<1>1. ASSUME NEW step, Goto(c, step) PROVE step = "batch"
  BY <1>0, <1>1 DEF Goto
<1>2. ASSUME NEW kind, NEW by, NEW told, Respond(c, kind, by, told) PROVE FALSE
  BY <1>0, <1>2 DEF Respond
<1>3. ASSUME NEW kind, Refuse(c, kind) PROVE FALSE
  BY <1>2, <1>3 DEF Refuse
<1>4. CASE command[c].op = "stage"
  <2>1. CrmQuery(c) \/ CommitStage(c)
    BY <1>4 DEF Step, MasterStep, MasterOps, SettingsStep, SettingsOps, CrmStep, CommitAccount,
                CommitContact, CommitOpportunity, CommitActivity, CommitTask, CommitComplete
  <2>2. ~CommitStage(c)
    BY <1>2 DEF CommitStage, Commit
  <2>3. ~ReadReplay(c, AfterReplay(command[c].op))
    <3>1. AfterReplay("stage") # "batch"
      BY DEF AfterReplay
    <3> QED
      BY <1>1, <1>2, <1>3, <1>4, <3>1 DEF ReadReplay
  <2>4. ~AbortUncaught(c)
    BY <1>3 DEF AbortUncaught
  <2>5. ~(QueryAccountCode(c) \/ QueryParty(c) \/ RequireAccount(c) \/ RequireContact(c)
          \/ RequireOpportunity(c) \/ ReadTask(c))
    BY <1>0, <1>4 DEF QueryAccountCode, QueryParty, RequireAccount, RequireContact,
                      RequireOpportunity, ReadTask, PlaceOK, Reads
  <2>6. ReadOpportunity(c)
    BY <2>1, <2>2, <2>3, <2>4, <2>5 DEF CrmQuery
  <2> QED
    BY <1>3, <2>6 DEF ReadOpportunity
<1>5. CASE command[c].op = "update-settings"
  <2>1. SettingsStep(c)
    BY <1>5 DEF Step, MasterStep, MasterOps, CrmStep, CrmOps
  <2>2. ~SettingsReplay(c)
    BY <1>1, <1>3 DEF SettingsReplay
  <2>3. ~(MissSettings(c) \/ InitializeSettings(c) \/ CommitSettings(c))
    BY <1>1 DEF MissSettings, InitializeSettings, CommitSettings
  <2>4. ~AbortSettings(c)
    BY <1>1, <1>3 DEF AbortSettings
  <2>5. ~ShowSettings(c)
    BY <1>2 DEF ShowSettings
  <2> QED
    BY <1>5, <2>1, <2>2, <2>3, <2>4, <2>5 DEF SettingsStep
<1> QED
  BY <1>4, <1>5 DEF Versioned

LEMMA StepSees ==
  ASSUME KeysInv, RecordsInv, TellsInv, NEW c \in Calls, Step(c)
  PROVE  SeenOK'
<1>0. /\ seen \in [Calls -> [found : Seq(Ids), version : Nat]] /\ UNCHANGED command
      /\ \A d \in Calls : d # c => pc'[d] = pc[d] /\ seen'[d] = seen[d]
  <2>1. seen \in [Calls -> [found : Seq(Ids), version : Nat]]
    BY DEF RecordsInv, HandlersTyped
  <2>2. UNCHANGED command
    BY StepAnnounces
  <2>3. \A d \in Calls : d # c => seen'[d] = seen[d]
    BY <2>1, SeenByOthers
  <2>4. Quietly(c) \/ Writes(c)
    BY MasterSteps, CrmSteps, SettingsSteps DEF Step
  <2>5. \E step : pc' = [pc EXCEPT ![c] = step]
    BY <2>4 DEF Quietly, Moves, Writes
  <2>6. DOMAIN pc = Calls
    BY DEF RecordsInv, HandlersTyped
  <2>7. \A d \in Calls : d # c => pc'[d] = pc[d]
    BY <2>5, <2>6
  <2> QED
    BY <2>1, <2>2, <2>3, <2>7
<1>1. ASSUME pc'[c] = "batch", command[c].op \in Versioned PROVE seen'[c].version >= 1
  <2>1. CASE \E o \in DOMAIN opportunities : Remember(c, opportunities[o].version)
    <3>0. PICK o \in DOMAIN opportunities : Remember(c, opportunities[o].version)
      BY <2>1
    <3>1. PICK v : v = opportunities[o].version /\ Remember(c, v)
      BY <3>0
    <3>2. v = 1 + Cardinality(ChangesTold("opportunity", o))
      BY <3>1 DEF TellsInv, OutboxTellsRecords, OpportunityTold
    <3>3. v >= 1
      BY <3>2, Changes
    <3>4. seen'[c].version = v
      BY <1>0, <3>1 DEF Remember
    <3> QED
      BY <3>3, <3>4
  <2>2. CASE command[c].op = "update-settings" /\ ReadSettings(c)
    <3>1. settings # NoSettings /\ seen' = [seen EXCEPT ![c].version = settings.version]
      BY <2>2 DEF ReadSettings
    <3>2. seen'[c].version = settings.version
      BY <1>0, <3>1
    <3>3. settings.version \in Nat \ {0}
      BY <3>1 DEF RecordsInv, TypeInv, TypeOK
    <3> QED
      BY <3>2, <3>3
  <2> QED
    BY <1>1, <2>1, <2>2, BatchFrom
<1> QED
  BY <1>0, <1>1 DEF TellsInv, SeenOK

LEMMA ArriveSees ==
  ASSUME KeysInv, RecordsInv, SeenOK, NEW c \in Calls, Arrive(c)
  PROVE  SeenOK'
<1>1. UNCHANGED seen /\ \A d \in Calls : d # c => pc'[d] = pc[d] /\ command'[d] = command[d]
  BY DEF Arrive, Goto, Refuse, Respond, RecordsInv, HandlersTyped
<1>2. pc'[c] # "batch"
  <2>1. \/ \E step \in {"replay", "settings", "account"} : Goto(c, step)
        \/ Refuse(c, "invalid")
    BY DEF Arrive, FirstStep
  <2> QED
    BY <2>1 DEF Goto, Refuse, Respond, RecordsInv, HandlersTyped
<1> QED
  BY <1>1, <1>2 DEF SeenOK

LEMMA StepTellsRecords ==
  ASSUME KeysInv, RecordsInv, TellsInv, NEW c \in Calls, Step(c)
  PROVE  TellsInv'
<1>1. SeenOK'
  BY StepSees
<1>2. CASE CommitContact(c) /\ UNCHANGED <<opportunities, tasks, settings>>
  <2>1. Write(c, "contact", Stored(c, 1, <<>>), <<>>)
    BY <1>2 DEF CommitContact, Commit
  <2> QED
    BY <1>1, <1>2, <2>1, OthersTell, WriteAnnounces DEF TellsInv
<1>3. CASE UNCHANGED <<outbox, opportunities, tasks, settings>>
  BY <1>1, <1>3, OthersTell DEF TellsInv
<1>4. CASE /\ UNCHANGED <<opportunities, tasks, settings>>
           /\ \E new, type, id, version, payload :
                Announces(new, c, type, id, version, payload) /\ type \in Other
  BY <1>1, <1>4, OthersTell DEF TellsInv, Other
<1>5. CASE CommitOpportunity(c) /\ UNCHANGED <<tasks, settings>>
  BY <1>1, <1>5, OpportunityTells DEF TellsInv
<1>6. CASE CommitTask(c) /\ UNCHANGED <<opportunities, settings>>
  BY <1>1, <1>6, TaskTells DEF TellsInv
<1>7. CASE CommitComplete(c) /\ UNCHANGED <<opportunities, settings>>
  BY <1>1, <1>7, CompletionTells DEF TellsInv
<1>8. CASE CommitStage(c) /\ UNCHANGED <<tasks, settings>>
  BY <1>1, <1>8, StageTells DEF TellsInv
<1>9. CASE CommitSettings(c) /\ UNCHANGED <<opportunities, tasks>>
  BY <1>1, <1>9, UpdateTells DEF TellsInv
<1>10. CASE InitializeSettings(c) /\ UNCHANGED <<outbox, opportunities, tasks>>
  BY <1>1, <1>10, InitializeTells DEF TellsInv
<1> QED
  BY <1>2, <1>3, <1>4, <1>5, <1>6, <1>7, <1>8, <1>9, <1>10, StepAnnounces

LEMMA NextTells ==
  ASSUME KeysInv, RecordsInv, TellsInv, [Next]_vars
  PROVE  TellsInv'
<1>1. CASE \E c \in Calls : Step(c)
  BY <1>1, StepTellsRecords
<1>2. CASE \E c \in Calls : Arrive(c)
  BY <1>2, ArriveSees, OthersTell DEF TellsInv, Arrive, Tables, crmTables
<1>3. CASE (\E row \in idempotency : ExpireKey(row) /\ Tables) \/ UNCHANGED vars
  <2>1. UNCHANGED <<outbox, pc, command, seen, opportunities, tasks, settings>>
    BY <1>3 DEF ExpireKey, Tables, vars, common, crmTables
  <2> QED
    BY <2>1, OthersTell DEF TellsInv, SeenOK
<1> QED
  BY <1>1, <1>2, <1>3 DEF Next, Quiet

LEMMA InitTells ==
  ASSUME RecordsAssumption, Init
  PROVE  TellsInv
<1>1. PICK b \in Beginnings : opportunities = b.opportunities /\ tasks = b.tasks
                              /\ settings = b.settings
  BY DEF Init
<1>2. WellBegun(b)
  BY DEF RecordsAssumption
<1>3. outbox = <<>> /\ \A c \in Calls : pc[c] = "idle"
  BY DEF Init, CommonInit
<1>4. \A type, id : ChangesTold(type, id) = {}
  BY <1>3 DEF ChangesTold
<1>5. \A o \in DOMAIN opportunities : opportunities[o].version = 1
  BY <1>1, <1>2 DEF WellBegun
<1>6. \A t \in DOMAIN tasks : tasks[t].version = 1 /\ tasks[t].status = "open"
  BY <1>1, <1>2 DEF WellBegun
<1>7. settings.version \in {0, 1}
  BY <1>1, <1>2 DEF WellBegun, NoSettings
<1>8. \A o \in DOMAIN opportunities : OpportunityTold(o)
  BY <1>4, <1>5, FS_EmptySet DEF OpportunityTold
<1>9. \A t \in DOMAIN tasks : TaskTold(t)
  BY <1>4, <1>6 DEF TaskTold
<1>10. SettingsTold
  BY <1>3, <1>7 DEF SettingsTold
<1>11. EventsOK /\ SeenOK
  BY <1>3 DEF EventsOK, SeenOK
<1> QED
  BY <1>8, <1>9, <1>10, <1>11 DEF TellsInv, OutboxTellsRecords

\* Whoever follows the outbox in commit order knows the records, although the
\* versions in it are computed from rows read in an earlier request and the
\* UPDATE of a stage looks at nothing but the id: the version of an opportunity
\* counts the changes told of it and the last told is the stage stored, a task
\* is completed when that was told, the first to announce the version of the
\* settings is the one who stored it, and no version is told before it is there.
THEOREM OutboxIsTrue == Spec => []OutboxTellsRecords
<1>1. Init => KeysInv /\ RecordsInv /\ TellsInv
  BY InitKeys, InitRecords, InitTells, CallsAssumption, RecordsAssumption
<1>2. KeysInv /\ RecordsInv /\ TellsInv /\ [Next]_vars => (KeysInv /\ RecordsInv /\ TellsInv)'
  BY NextKeys, NextRecords, NextTells, RecordsAssumption
<1>3. TellsInv => OutboxTellsRecords
  BY DEF TellsInv
<1> QED
  BY <1>1, <1>2, <1>3, PTL DEF Spec
=============================================================================
