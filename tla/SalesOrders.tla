---------------------------- MODULE SalesOrders ----------------------------
(***************************************************************************)
(* The quotation and order handlers of apps/api/src/sales.ts over the      *)
(* tenant database, beside the stock they reserve.  A handler awaits one   *)
(* query after another and writes in one D1 batch; quotations reach their  *)
(* valid_until date and idempotency rows their 24 hours between any two    *)
(* steps, and inventory commands change the stock at any moment.           *)
(* A quotation or an order is named by the call that made it.              *)
(***************************************************************************)
EXTENDS Integers, FiniteSets, Sequences, Functions, FiniteSetsExt

CONSTANTS
  Calls,       \* HTTP calls
  Earlier,     \* quotations that are there from the beginning
  Beginnings,  \* what those quotations may be then
  Keys,        \* Idempotency-Key values
  Variants, Warehouses,
  LineLists,   \* lines a quotation may have
  MaxUnits,    \* bound on the available stock of a variant in a warehouse
  Lapsing,     \* quotations whose valid_until may fall in the behaviour
  Commands     \* what each call may ask

None == "none"

Quotes == Calls \cup Earlier

Line == [variant : Variants, quantity : Nat \ {0}]

Ops == {"create", "send", "accept", "convert", "cancel"}

Command ==
  [op : Ops, key : Keys,
   lines     : LineLists \cup {<<>>},      \* create
   quote     : Quotes \cup {None},         \* send, accept, convert
   order     : Calls \cup {None},          \* cancel
   warehouse : Warehouses \cup {None}]     \* convert

WellFormed(cmd) ==
  /\ cmd.op = "create" => cmd.lines \in LineLists
  /\ cmd.op \in {"send", "accept", "convert"} => cmd.quote \in Quotes
  /\ cmd.op = "cancel" => cmd.order \in Calls
  /\ cmd.op = "convert" => cmd.warehouse \in Warehouses

ASSUME SalesAssumption ==
  /\ IsFiniteSet(Calls)
  /\ None \notin Quotes /\ None \notin Warehouses
  /\ Calls \cap Earlier = {}
  /\ MaxUnits \in Nat
  /\ Lapsing \subseteq Quotes
  /\ LineLists \subseteq Seq(Line) \ {<<>>}
  /\ Beginnings \subseteq
       [Earlier -> [status : {"draft", "sent", "accepted"}, lines : LineLists]]
  /\ \A c \in Calls : Commands[c] \subseteq { cmd \in Command : WellFormed(cmd) }

VARIABLES
  quotes,       \* sales_quotes with sales_quote_lines
  orders,       \* sales_orders with sales_order_lines
  reservations, \* inventory_reservations
  available,    \* available inventory_balances, per variant and warehouse
  idempotency,  \* domain_idempotency
  events,       \* audit and outbox rows
  past,         \* quotations whose valid_until has passed
  pc, command, seen, answer   \* the handlers, as in ApprovalWorkflow

tables == <<quotes, orders, reservations, available, idempotency, events>>
handlers == <<pc, command, seen, answer>>
vars == <<quotes, orders, reservations, available, idempotency, events, past,
          pc, command, seen, answer>>

NoQuote == [status |-> None]
NoOrder == [status |-> None]
NoCommand == [op |-> None]
NothingSeen == [status |-> None, version |-> 0, lines |-> <<>>]
Unanswered == [kind |-> None, by |-> None]

----------------------------------------------------------------------------
(* Rows.                                                                   *)

Quoted(q) == quotes[q] # NoQuote
Ordered(o) == orders[o] # NoOrder

NewQuote(lines) == [status |-> "draft", lines |-> lines, order |-> None, version |-> 1]

\* The order takes the lines of the quotation as read, and reserves each.
NewOrder(c) ==
  [quote |-> command[c].quote, lines |-> seen[c].lines, status |-> "allocated",
   version |-> 1]

NewReservations(c) ==
  { [order |-> c, line |-> n, variant |-> seen[c].lines[n].variant,
     warehouse |-> command[c].warehouse, quantity |-> seen[c].lines[n].quantity,
     status |-> "active"] : n \in DOMAIN seen[c].lines }

ReservationsOf(o) == { row \in reservations : row.order = o }

ActiveRows(v, w, rows) ==
  { row \in rows : row.status = "active" /\ row.variant = v /\ row.warehouse = w }

Reserved(v, w, rows) == SumFunction([row \in ActiveRows(v, w, rows) |-> row.quantity])

\* Mutant: the trigger does not see the rows the batch has inserted before.
Overcommits_RowsAlone(c) ==
  \E row \in NewReservations(c) :
    row.quantity + Reserved(row.variant, row.warehouse, reservations)
      > available[row.variant, row.warehouse]

\* inventory_reservations_prevent_overcommit_insert: some row, after those
\* inserted before it, asks more than is left.
Overcommits(c) ==
  \E row \in NewReservations(c) :
    LET before == { other \in NewReservations(c) : other.line < row.line }
    IN  row.quantity > available[row.variant, row.warehouse]
                         - Reserved(row.variant, row.warehouse, reservations \cup before)

\* Scope, key and payload.  A conversion's and a cancellation's document is
\* part of the payload, not of the scope.
Claim(c) ==
  [op  |-> command[c].op, key |-> command[c].key,
   quote |-> IF command[c].op \in {"send", "accept"} THEN command[c].quote ELSE None]

Hash(c) == [command[c] EXCEPT !.key = None]

Row(c) == [claim |-> Claim(c), hash |-> Hash(c), by |-> c, live |-> TRUE]

Claimed(c) == { row \in idempotency : row.claim = Claim(c) }

LiveClaimed(c) == { row \in Claimed(c) : row.live }

Event(type, document, version, c) ==
  [type |-> type, document |-> document, version |-> version, by |-> c]

----------------------------------------------------------------------------
(* The handlers.                                                           *)

\* A quotation that is there already came through draft and sent.
Init ==
  /\ \E begun \in Beginnings :
       quotes = [q \in Quotes |->
         IF q \in Calls THEN NoQuote
         ELSE [NewQuote(begun[q].lines) EXCEPT
                 !.status = begun[q].status,
                 !.version = CASE begun[q].status = "draft" -> 1
                               [] begun[q].status = "sent" -> 2
                               [] begun[q].status = "accepted" -> 3]]
  /\ orders = [o \in Calls |-> NoOrder]
  /\ reservations = {}
  /\ available \in [Variants \X Warehouses -> 0 .. MaxUnits]
  /\ idempotency = {}
  /\ events = UNION { { Event("quote", q, v, None) : v \in 1 .. quotes[q].version } : q \in Earlier }
  /\ past = {}
  /\ pc = [c \in Calls |-> "idle"]
  /\ command = [c \in Calls |-> NoCommand]
  /\ seen = [c \in Calls |-> NothingSeen]
  /\ answer = [c \in Calls |-> Unanswered]

Goto(c, step) == pc' = [pc EXCEPT ![c] = step] /\ UNCHANGED answer

Respond(c, kind, by) ==
  /\ pc' = [pc EXCEPT ![c] = "done"]
  /\ answer' = [answer EXCEPT ![c] = [kind |-> kind, by |-> by]]

Refuse(c, kind) == Respond(c, kind, None)

ReadOnly == UNCHANGED tables /\ UNCHANGED <<past, command>>

\* Only an acceptance reads its quotation before it looks for a replay.
Arrive(c) ==
  /\ pc[c] = "idle"
  /\ \E cmd \in Commands[c] :
       /\ command' = [command EXCEPT ![c] = cmd]
       /\ Goto(c, IF cmd.op = "accept" THEN "quote" ELSE "replay")
  /\ UNCHANGED tables
  /\ UNCHANGED <<past, seen>>

\* The status a quotation must have: transitionQuote, convertQuote.
Expected(op) ==
  CASE op = "send" -> "draft" [] op = "accept" -> "sent" [] op = "convert" -> "accepted"

\* Mutant: the status of the quotation is not looked at before its conversion.
LoadQuote_AnyStatus(c) ==
  LET q == command[c].quote
  IN
  /\ pc[c] = "quote"
  /\ \/ ~Quoted(q) /\ Refuse(c, "not-found") /\ UNCHANGED seen
     \/ /\ Quoted(q)
        /\ seen' = [seen EXCEPT ![c] = [status |-> quotes[q].status,
                                        version |-> quotes[q].version,
                                        lines |-> quotes[q].lines]]
        /\ CASE command[c].op = "accept" /\ q \in past -> Refuse(c, "expired")
             [] command[c].op = "accept" /\ q \notin past -> Goto(c, "replay")
             [] OTHER -> Goto(c, "batch")
  /\ ReadOnly

\* loadQuote, with the validity date of an acceptance and the status of a
\* quotation to be sent or converted.
LoadQuote(c) ==
  LET q == command[c].quote
  IN
  /\ pc[c] = "quote"
  /\ \/ ~Quoted(q) /\ Refuse(c, "not-found") /\ UNCHANGED seen
     \/ /\ Quoted(q)
        /\ seen' = [seen EXCEPT ![c] = [status |-> quotes[q].status,
                                        version |-> quotes[q].version,
                                        lines |-> quotes[q].lines]]
        /\ CASE command[c].op = "accept" /\ q \in past -> Refuse(c, "expired")
             [] command[c].op = "accept" /\ q \notin past -> Goto(c, "replay")
             [] OTHER -> IF quotes[q].status = Expected(command[c].op)
                         THEN Goto(c, "batch")
                         ELSE Refuse(c, "invalid-state")
  /\ ReadOnly

\* loadOrder
LoadOrder(c) ==
  LET o == command[c].order
  IN
  /\ pc[c] = "order"
  /\ \/ ~Ordered(o) /\ Refuse(c, "not-found") /\ UNCHANGED seen
     \/ Ordered(o) /\ orders[o].status # "allocated" /\ Refuse(c, "not-cancellable")
                   /\ UNCHANGED seen
     \/ /\ Ordered(o) /\ orders[o].status = "allocated"
        /\ seen' = [seen EXCEPT ![c] = [status |-> orders[o].status,
                                        version |-> orders[o].version,
                                        lines |-> orders[o].lines]]
        /\ Goto(c, "batch")
  /\ ReadOnly

\* readDomainReplay; an acceptance then checks the status it read before.
AfterReplay(c) ==
  CASE command[c].op = "create" -> Goto(c, "batch")
    [] command[c].op \in {"send", "convert"} -> Goto(c, "quote")
    [] command[c].op = "cancel" -> Goto(c, "order")
    [] command[c].op = "accept" -> IF seen[c].status = "sent"
                                   THEN Goto(c, "batch")
                                   ELSE Refuse(c, "invalid-state")

ReadReplay(c) ==
  /\ pc[c] = "replay"
  /\ \/ \E row \in LiveClaimed(c) :
          IF row.hash = Hash(c) THEN Respond(c, "replayed", row.by)
                                ELSE Refuse(c, "key-conflict")
     \/ LiveClaimed(c) = {} /\ AfterReplay(c)
  /\ ReadOnly
  /\ UNCHANGED seen

\* UNIQUE (tenant_id, source_quote_id), the first statement of a conversion.
QuoteTaken(c) ==
  \E o \in Calls : Ordered(o) /\ orders[o].quote = command[c].quote

\* Mutant: sales_orders without its unique key.
Stopped_NoSourceKey(c) ==
  \/ Claimed(c) # {}
  \/ command[c].op = "convert" /\ Overcommits(c)

Stopped(c) ==
  \/ Claimed(c) # {}
  \/ command[c].op = "convert" /\ (QuoteTaken(c) \/ Overcommits(c))

Committed(c) ==
  /\ pc[c] = "batch" /\ ~Stopped(c)
  /\ idempotency' = idempotency \cup {Row(c)}
  /\ Respond(c, "ok", c)
  /\ UNCHANGED <<available, past, command, seen>>

CommitCreate(c) ==
  /\ command[c].op = "create"
  /\ Committed(c)
  /\ quotes' = [quotes EXCEPT ![c] = NewQuote(command[c].lines)]
  /\ events' = events \cup {Event("quote", c, 1, c)}
  /\ UNCHANGED <<orders, reservations>>

\* Mutant: the UPDATE does not look at the status again.
CommitTransition_AnyStatus(c) ==
  LET q == command[c].quote
  IN
  /\ command[c].op \in {"send", "accept"}
  /\ Committed(c)
  /\ quotes' = [quotes EXCEPT
       ![q].status = IF command[c].op = "send" THEN "sent" ELSE "accepted",
       ![q].version = @ + 1]
  /\ events' = events \cup {Event("quote", q, seen[c].version + 1, c)}
  /\ UNCHANGED <<orders, reservations>>

\* The UPDATE looks at the status again, the other rows do not.
CommitTransition(c) ==
  LET q == command[c].quote
  IN
  /\ command[c].op \in {"send", "accept"}
  /\ Committed(c)
  /\ quotes' = IF quotes[q].status = Expected(command[c].op)
               THEN [quotes EXCEPT
                       ![q].status = IF command[c].op = "send" THEN "sent" ELSE "accepted",
                       ![q].version = @ + 1]
               ELSE quotes
  /\ events' = events \cup {Event("quote", q, seen[c].version + 1, c)}
  /\ UNCHANGED <<orders, reservations>>

CommitConvert(c) ==
  LET q == command[c].quote
  IN
  /\ command[c].op = "convert"
  /\ Committed(c)
  /\ orders' = [orders EXCEPT ![c] = NewOrder(c)]
  /\ reservations' = reservations \cup NewReservations(c)
  /\ quotes' = IF quotes[q].status = "accepted" /\ quotes[q].order = None
               THEN [quotes EXCEPT ![q].status = "converted", ![q].order = c,
                                   ![q].version = @ + 1]
               ELSE quotes
  /\ events' = events \cup {Event("order", c, 1, c)}

Released(rows, o) ==
  { IF row.order = o /\ row.status = "active" THEN [row EXCEPT !.status = "released"]
                                              ELSE row : row \in rows }

\* Mutant: a cancellation leaves the reservations.
CommitCancel_KeepsStock(c) ==
  LET o == command[c].order
  IN
  /\ command[c].op = "cancel"
  /\ Committed(c)
  /\ orders' = IF orders[o].status = "allocated"
               THEN [orders EXCEPT ![o].status = "cancelled", ![o].version = @ + 1]
               ELSE orders
  /\ events' = events \cup {Event("order", o, seen[c].version + 1, c)}
  /\ UNCHANGED <<quotes, reservations>>

CommitCancel(c) ==
  LET o == command[c].order
  IN
  /\ command[c].op = "cancel"
  /\ Committed(c)
  /\ orders' = IF orders[o].status = "allocated"
               THEN [orders EXCEPT ![o].status = "cancelled", ![o].version = @ + 1]
               ELSE orders
  /\ reservations' = Released(reservations, o)
  /\ events' = events \cup {Event("order", o, seen[c].version + 1, c)}
  /\ UNCHANGED quotes

\* Mutant: a stopped batch is taken for a replay.
Abort_Swallows(c) ==
  /\ pc[c] = "batch" /\ Stopped(c)
  /\ Respond(c, "ok", c)
  /\ ReadOnly
  /\ UNCHANGED seen

\* Only the trigger's message is told apart, and no handler looks again for a
\* concurrent call with its key.
Abort(c) ==
  /\ pc[c] = "batch" /\ Stopped(c)
  /\ Refuse(c, IF command[c].op = "convert" /\ ~QuoteTaken(c) /\ Overcommits(c)
               THEN "insufficient-stock" ELSE "server-error")
  /\ ReadOnly
  /\ UNCHANGED seen

\* A committed inventory command, which does not look at reservations.
MoveStock(v, w) ==
  /\ \E n \in 0 .. MaxUnits :
       /\ n # available[v, w]
       /\ available' = [available EXCEPT ![<<v, w>>] = n]
  /\ UNCHANGED <<quotes, orders, reservations, idempotency, events, past>>
  /\ UNCHANGED handlers

Deadline(q) ==
  /\ q \in Lapsing /\ Quoted(q) /\ q \notin past
  /\ past' = past \cup {q}
  /\ UNCHANGED tables /\ UNCHANGED handlers

Aged(row) == [claim |-> row.claim, hash |-> row.hash, by |-> row.by, live |-> FALSE]

ExpireKey(row) ==
  /\ row.live
  /\ idempotency' = (idempotency \ {row}) \cup {Aged(row)}
  /\ UNCHANGED <<quotes, orders, reservations, available, events, past>>
  /\ UNCHANGED handlers

Step(c) ==
  \/ LoadQuote(c) \/ LoadOrder(c) \/ ReadReplay(c)
  \/ CommitCreate(c) \/ CommitTransition(c) \/ CommitConvert(c) \/ CommitCancel(c)
  \/ Abort(c)

Quiet == (\A c \in Calls : pc[c] = "done") /\ UNCHANGED vars

Next ==
  \/ \E c \in Calls : Arrive(c) \/ Step(c)
  \/ \E v \in Variants, w \in Warehouses : MoveStock(v, w)
  \/ \E q \in Quotes : Deadline(q)
  \/ \E row \in idempotency : ExpireKey(row)
  \/ Quiet

Spec == Init /\ [][Next]_vars

----------------------------------------------------------------------------
(* Properties.                                                             *)

QuoteRow ==
  [status : {"draft", "sent", "accepted", "converted"}, lines : LineLists,
   order : Calls \cup {None}, version : Nat]

OrderRow ==
  [quote : Quotes, lines : LineLists, status : {"allocated", "cancelled"}, version : Nat]

ReservationRow ==
  [order : Calls, line : Nat, variant : Variants, warehouse : Warehouses,
   quantity : Nat, status : {"active", "released"}]

SeenSet ==
  [status : {None, "draft", "sent", "accepted", "converted", "allocated"},
   version : Nat, lines : LineLists \cup {<<>>}]

Refusals == {"not-found", "expired", "invalid-state", "not-cancellable",
             "key-conflict", "insufficient-stock", "server-error"}

AnswerSet == [kind : Refusals \cup {None, "ok", "replayed"}, by : Calls \cup {None}]

IsRow(row) ==
  /\ row = [claim |-> row.claim, hash |-> row.hash, by |-> row.by, live |-> row.live]
  /\ row.by \in Calls

TypeOK ==
  /\ quotes \in [Quotes -> QuoteRow \cup {NoQuote}]
  /\ orders \in [Calls -> OrderRow \cup {NoOrder}]
  /\ reservations \subseteq ReservationRow
  /\ available \in [Variants \X Warehouses -> Nat]
  /\ \A row \in idempotency : IsRow(row)
  /\ past \subseteq Quotes
  /\ pc \in [Calls -> {"idle", "quote", "replay", "order", "batch", "done"}]
  /\ command \in [Calls -> Command \cup {NoCommand}]
  /\ seen \in [Calls -> SeenSet]
  /\ answer \in [Calls -> AnswerSet]

Rank(status) ==
  CASE status = "draft" -> 1 [] status = "sent" -> 2
    [] status = "accepted" -> 3 [] status = "converted" -> 4

\* A handler is where its operation takes it.  What it read of a quotation may
\* be stale, but a quotation does not go back, and keeps its lines.
RouteOK(c) ==
  /\ pc[c] # "idle" => command[c] \in Command /\ WellFormed(command[c])
  /\ pc[c] = "quote" => command[c].op \in {"send", "accept", "convert"}
  /\ pc[c] = "order" => command[c].op = "cancel"
  /\ Quoted(c) \/ Ordered(c) => pc[c] = "done"

ReadOK(c) ==
  LET q == command[c].quote
  IN  /\ Quoted(q) /\ seen[c].lines = quotes[q].lines
      /\ seen[c].version <= quotes[q].version
      /\ pc[c] = "batch" => Rank(Expected(command[c].op)) <= Rank(quotes[q].status)

HandlerOK(c) ==
  /\ RouteOK(c)
  /\ (pc[c] = "batch" /\ command[c].op \in {"send", "accept", "convert"}) => ReadOK(c)
  /\ (pc[c] = "replay" /\ command[c].op = "accept") => ReadOK(c)
  /\ (pc[c] = "batch" /\ command[c].op = "cancel") =>
       /\ Ordered(command[c].order)
       /\ seen[c].version <= orders[command[c].order].version

TypeInv == TypeOK /\ \A c \in Calls : HandlerOK(c)

\* A quotation becomes only one order (docs/CRM_AND_SALES.md), and quotation,
\* order and reservations tell the same story whatever conversions and
\* cancellations race: the two documents name each other and have the same
\* lines, and each line has its reservation, active as long as the order is.
OrderOK(o) ==
  LET a == orders[o]
  IN  /\ Quoted(a.quote) /\ quotes[a.quote].order = o
      /\ quotes[a.quote].lines = a.lines
      /\ \E w \in Warehouses :
           ReservationsOf(o) =
             { [order |-> o, line |-> n, variant |-> a.lines[n].variant, warehouse |-> w,
                quantity |-> a.lines[n].quantity,
                status |-> IF a.status = "allocated" THEN "active" ELSE "released"]
               : n \in DOMAIN a.lines }

QuoteOK(q) ==
  /\ quotes[q].order # None <=> quotes[q].status = "converted"
  /\ quotes[q].order # None =>
       Ordered(quotes[q].order) /\ orders[quotes[q].order].quote = q

BooksAgree ==
  /\ \A o \in Calls : Ordered(o) => OrderOK(o)
  /\ \A q \in Quotes : Quoted(q) => QuoteOK(q)
  /\ \A row \in reservations : Ordered(row.order)

\* No order reserves more than its warehouse has left, counting what all other
\* orders hold and the lines of the same order for the same variant; only a
\* later withdrawal of stock can leave reservations uncovered.
ReservationsWithinStock ==
  [][\A v \in Variants, w \in Warehouses :
       Reserved(v, w, reservations') > Reserved(v, w, reservations) =>
         Reserved(v, w, reservations') <= available[v, w]]_vars

\* Quotations go draft, sent, accepted, converted, one stage at a time and
\* never back, orders from allocated to cancelled, and what was released stays
\* so, although handlers decide on a status read before.
LifecycleForward ==
  [][/\ \A q \in Quotes : Quoted(q) =>
          /\ Rank(quotes'[q].status) - Rank(quotes[q].status) \in {0, 1}
          /\ quotes'[q].lines = quotes[q].lines
          /\ quotes[q].order # None => quotes'[q].order = quotes[q].order
     /\ \A o \in Calls : Ordered(o) =>
          \/ orders'[o] = orders[o]
          \/ orders[o].status = "allocated" /\ orders'[o].status = "cancelled"
     /\ \A row \in reservations : row.status = "released" => row \in reservations']_vars

\* What a call is told is true: a success, replayed or not, had its effect by
\* the call it names, with the same key and payload; a refusal or error left
\* nothing behind.
Done(cmd, by) ==
  CASE cmd.op = "create"  -> Quoted(by)
    [] cmd.op = "send"    -> Quoted(cmd.quote) /\ Rank(quotes[cmd.quote].status) >= 2
    [] cmd.op = "accept"  -> Quoted(cmd.quote) /\ Rank(quotes[cmd.quote].status) >= 3
    [] cmd.op = "convert" -> Ordered(by) /\ orders[by].quote = cmd.quote
    [] cmd.op = "cancel"  -> Ordered(cmd.order) /\ orders[cmd.order].status = "cancelled"

AnswersAreTrue ==
  \A c \in Calls :
    /\ answer[c].kind \in Refusals =>
         ~Quoted(c) /\ ~Ordered(c) /\ \A e \in events : e.by # c
    /\ answer[c].kind \in {"ok", "replayed"} =>
         /\ Done(command[c], answer[c].by)
         /\ Claim(c) = Claim(answer[c].by)
         /\ Hash(c) = Hash(answer[c].by)

----------------------------------------------------------------------------
(* What the documentation says and the code does not do.                   *)

\* docs/CRM_AND_SALES.md: available to promise is calculated as the available
\* inventory balance minus active reservations.  loadAvailability reports no
\* less than zero.
AvailableToPromise(v, w) == Max({0, available[v, w] - Reserved(v, w, reservations)})

PromiseIsDifference ==
  \A v \in Variants, w \in Warehouses :
    AvailableToPromise(v, w) = available[v, w] - Reserved(v, w, reservations)
============================================================================
