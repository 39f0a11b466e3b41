--------------------------- MODULE DomainCommands ---------------------------
(***************************************************************************)
(* What the command handlers over the tenant database share (apps/api/src/ *)
(* domain-support.ts): a call claims its idempotency key in a scope of its *)
(* operation, is answered from the row of that key when there is one, and  *)
(* writes its records, its idempotency row and its outbox event in one D1  *)
(* batch.  A record is named by the call that made it.                     *)
(***************************************************************************)
EXTENDS Integers, FiniteSets, Sequences

CONSTANTS
  Calls,     \* HTTP calls
  Earlier,   \* records that are there from the beginning
  Keys,      \* Idempotency-Key values
  Commands   \* what each call may ask

None == "none"

Ids == Calls \cup Earlier

ASSUME CallsAssumption ==
  /\ IsFiniteSet(Calls) /\ Calls \cap Earlier = {} /\ None \notin Ids
  /\ \A c \in Calls : \A cmd \in Commands[c] : cmd.key \in Keys \cup {None}

VARIABLES
  idempotency,  \* domain_idempotency
  outbox,       \* domain_outbox with the audit rows, in commit order
  pc,           \* where each handler is
  command,      \* what its call asks
  seen,         \* what it read: ids of lookups, version of a row
  answer        \* what the call was told

common == <<idempotency, outbox, pc, command, seen, answer>>

NoCommand == [op |-> None]
NothingSeen == [found |-> <<>>, version |-> 0]
Nothing == [id |-> None, version |-> 0, value |-> <<>>]
Unanswered == [kind |-> None, by |-> None, told |-> Nothing]

Stored(id, version, value) == [id |-> id, version |-> version, value |-> value]

\* A record of a table, kept as a function on the ids it has rows for.
Put(table, id, row) ==
  [i \in DOMAIN table \cup {id} |-> IF i = id THEN row ELSE table[i]]

Claim(c) == [op |-> command[c].op, key |-> command[c].key]

Hash(c) == [command[c] EXCEPT !.key = None]

Claims(c) == { row \in idempotency : row.claim = Claim(c) }

LiveClaims(c) == { row \in Claims(c) : row.live }

\* Mutant: the idempotency table without its primary key.
Claimed_NoKey(c) == FALSE

\* The primary key (tenant, scope, key) counts expired rows as well.
Claimed(c) == Claims(c) # {}

CommonInit ==
  /\ idempotency = {}
  /\ outbox = <<>>
  /\ pc = [c \in Calls |-> "idle"]
  /\ command = [c \in Calls |-> NoCommand]
  /\ seen = [c \in Calls |-> NothingSeen]
  /\ answer = [c \in Calls |-> Unanswered]

Goto(c, step) == pc' = [pc EXCEPT ![c] = step] /\ UNCHANGED answer

Respond(c, kind, by, told) ==
  /\ pc' = [pc EXCEPT ![c] = "done"]
  /\ answer' = [answer EXCEPT ![c] = [kind |-> kind, by |-> by, told |-> told]]

Refuse(c, kind) == Respond(c, kind, None, Nothing)

\* A step that only reads, and remembers nothing of it.
Reads(c, step) == pc[c] = step /\ UNCHANGED <<idempotency, outbox, command, seen>>

\* readDomainReplay, with what the handler does when there is no live row.
ReadReplay(c, next) ==
  /\ Reads(c, "replay")
  /\ \/ LiveClaims(c) = {} /\ Goto(c, next)
     \/ \E row \in LiveClaims(c) :
          IF row.hash = Hash(c) THEN Respond(c, "replayed", row.by, row.told)
                                ELSE Refuse(c, "key-conflict")

\* The rows every successful batch adds to its records.
Write(c, type, told, payload) ==
  /\ pc[c] = "batch" /\ ~Claimed(c)
  /\ idempotency' = idempotency \cup
       {[claim |-> Claim(c), hash |-> Hash(c), by |-> c, told |-> told, live |-> TRUE]}
  /\ outbox' = Append(outbox, [type |-> type, id |-> told.id, version |-> told.version,
                               value |-> payload, by |-> c])
  /\ UNCHANGED <<command, seen>>

\* A batch that commits is the answer of the call.
Commit(c, type, told, payload) ==
  Write(c, type, told, payload) /\ Respond(c, "ok", c, told)

\* Mutant: the handler takes a stopped batch for a success.
AbortUncaught_Swallows(c) ==
  Reads(c, "batch") /\ Respond(c, "ok", c, Stored(c, 1, <<>>))

\* A stopped batch writes nothing.  Where no catch block looks for a
\* concurrent call with the key, the error reaches the Worker's entry.
AbortUncaught(c) == Reads(c, "batch") /\ Refuse(c, "server-error")

AbortCaught(c) ==
  /\ Reads(c, "batch")
  /\ \/ LiveClaims(c) = {} /\ Refuse(c, "server-error")
     \/ \E row \in LiveClaims(c) :
          IF row.hash = Hash(c) THEN Respond(c, "replayed", row.by, row.told)
                                ELSE Refuse(c, "key-conflict")

\* 24 hours go by.
ExpireKey(row) ==
  /\ row.live
  /\ idempotency' = (idempotency \ {row}) \cup {[row EXCEPT !.live = FALSE]}
  /\ UNCHANGED <<outbox, pc, command, seen, answer>>
=============================================================================
