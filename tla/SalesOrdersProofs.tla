-------------------------- MODULE SalesOrdersProofs --------------------------
(***************************************************************************)
(* Proofs about SalesOrders: rows and handlers keep their types, documents *)
(* only move forward, a quotation, its order and the reservations agree,   *)
(* no step reserves more than there is, and answers are true.              *)
(***************************************************************************)
EXTENDS SalesOrders, SetSums, TLAPS

QuoteStatuses == {"draft", "sent", "accepted", "converted"}

\* A handler's status, read before its replay, is one the quotation has had.
StatusRead(c) ==
  (pc[c] = "replay" /\ command[c].op = "accept") =>
    /\ seen[c].status \in QuoteStatuses
    /\ Rank(seen[c].status) <= Rank(quotes[command[c].quote].status)

SalesInv == TypeInv /\ \A c \in Calls : StatusRead(c)

LEMMA Ranks ==
  ASSUME NEW status \in QuoteStatuses
  PROVE  /\ Rank(status) \in 1 .. 4
         /\ Rank(status) = 1 <=> status = "draft"
         /\ Rank(status) = 2 <=> status = "sent"
         /\ Rank(status) = 3 <=> status = "accepted"
         /\ Rank(status) = 4 <=> status = "converted"
BY DEF QuoteStatuses, Rank

LEMMA Typed ==
  ASSUME SalesInv
  PROVE  /\ TypeOK /\ pc \in [Calls -> {"idle", "quote", "replay", "order", "batch", "done"}]
         /\ command \in [Calls -> Command \cup {NoCommand}]
         /\ seen \in [Calls -> SeenSet] /\ answer \in [Calls -> AnswerSet]
         /\ \A c \in Calls : HandlerOK(c) /\ RouteOK(c) /\ StatusRead(c)
BY DEF SalesInv, TypeInv, TypeOK, HandlerOK

LEMMA QuoteTyped ==
  ASSUME SalesInv, NEW q \in Quotes, Quoted(q)
  PROVE  /\ quotes[q] \in QuoteRow /\ quotes[q].status \in QuoteStatuses
         /\ quotes[q].lines \in LineLists /\ quotes[q].version \in Nat
         /\ quotes[q].order \in Calls \cup {None}
<1>1. quotes[q] \in QuoteRow
  BY Typed DEF TypeOK, Quoted
<1> QED
  BY <1>1 DEF QuoteRow, QuoteStatuses

LEMMA OrderTyped ==
  ASSUME SalesInv, NEW o \in Calls, Ordered(o)
  PROVE  /\ orders[o] \in OrderRow /\ orders[o].status \in {"allocated", "cancelled"}
         /\ orders[o].lines \in LineLists /\ orders[o].version \in Nat
         /\ orders[o].quote \in Quotes
<1>1. orders[o] \in OrderRow
  BY Typed DEF TypeOK, Ordered
<1> QED
  BY <1>1 DEF OrderRow

----------------------------------------------------------------------------
(* How documents move.                                                     *)

\* A quotation that is there keeps its lines and goes a stage on or none.
QuoteMoves(q) ==
  Quoted(q) =>
    /\ quotes'[q] \in QuoteRow
    /\ quotes'[q].lines = quotes[q].lines
    /\ quotes[q].version <= quotes'[q].version
    /\ Rank(quotes'[q].status) - Rank(quotes[q].status) \in {0, 1}
    /\ quotes[q].order # None => quotes'[q].order = quotes[q].order

OrderMoves(o) ==
  Ordered(o) =>
    \/ orders'[o] = orders[o]
    \/ /\ orders'[o] \in OrderRow /\ orders'[o].version = orders[o].version + 1
       /\ orders[o].status = "allocated" /\ orders'[o].status = "cancelled"
       /\ orders'[o].quote = orders[o].quote /\ orders'[o].lines = orders[o].lines

\* What a step of this handler does to documents.
Moves(c) ==
  /\ \A q \in Quotes : QuoteMoves(q)
  /\ \A o \in Calls : OrderMoves(o)
  /\ \A q \in Quotes \ {c} : ~Quoted(q) => quotes'[q] = quotes[q]
  /\ \A o \in Calls \ {c} : ~Ordered(o) => orders'[o] = orders[o]

LEMMA StillThere ==
  ASSUME SalesInv, NEW c \in Calls, Moves(c)
  PROVE  /\ \A q \in Quotes : Quoted(q) =>
              /\ quotes'[q] # NoQuote /\ quotes'[q].lines = quotes[q].lines
              /\ quotes'[q].status \in QuoteStatuses
              /\ quotes[q].version <= quotes'[q].version
              /\ Rank(quotes[q].status) <= Rank(quotes'[q].status)
         /\ \A o \in Calls : Ordered(o) =>
              /\ orders'[o] # NoOrder /\ orders'[o].quote = orders[o].quote
              /\ orders'[o].lines = orders[o].lines
              /\ orders[o].version <= orders'[o].version
              /\ orders[o].status = "cancelled" => orders'[o].status = "cancelled"
         /\ \A d \in Calls \ {c} : /\ quotes'[d] # NoQuote => Quoted(d)
                                   /\ orders'[d] # NoOrder => Ordered(d)
<1>1. ASSUME NEW q \in Quotes, Quoted(q)
      PROVE  /\ quotes'[q] # NoQuote /\ quotes'[q].lines = quotes[q].lines
             /\ quotes'[q].status \in QuoteStatuses
             /\ quotes[q].version <= quotes'[q].version
             /\ Rank(quotes[q].status) <= Rank(quotes'[q].status)
  <2>1. QuoteMoves(q)
    BY DEF Moves
  <2>2. quotes'[q] \in QuoteRow /\ quotes'[q].status \in QuoteStatuses
    BY <1>1, <2>1 DEF QuoteMoves, QuoteRow, QuoteStatuses
  <2>3. quotes'[q] # NoQuote
    BY <2>2 DEF NoQuote, None, QuoteStatuses
  <2>4. Rank(quotes[q].status) \in 1 .. 4 /\ Rank(quotes'[q].status) \in 1 .. 4
    BY <1>1, <2>2, QuoteTyped, Ranks
  <2> QED
    BY <1>1, <2>1, <2>2, <2>3, <2>4 DEF QuoteMoves
<1>2. ASSUME NEW o \in Calls, Ordered(o)
      PROVE  /\ orders'[o] # NoOrder /\ orders'[o].quote = orders[o].quote
             /\ orders'[o].lines = orders[o].lines
             /\ orders[o].version <= orders'[o].version
             /\ orders[o].status = "cancelled" => orders'[o].status = "cancelled"
  <2>1. OrderMoves(o) /\ orders[o].version \in Nat
    BY <1>2, OrderTyped DEF Moves
  <2>2. CASE orders'[o] = orders[o]
    BY <1>2, <2>1, <2>2 DEF Ordered
  <2>3. CASE orders'[o] # orders[o]
    BY <1>2, <2>1, <2>3 DEF OrderMoves, NoOrder, None
  <2> QED
    BY <2>2, <2>3
<1>3. \A d \in Calls \ {c} : /\ quotes'[d] # NoQuote => Quoted(d)
                             /\ orders'[d] # NoOrder => Ordered(d)
  BY DEF Moves, Quoted, Ordered, Quotes
<1> QED
  BY <1>1, <1>2, <1>3

LEMMA NothingMoves ==
  ASSUME SalesInv, NEW c \in Calls, UNCHANGED <<quotes, orders>>
  PROVE  Moves(c)
<1>1. \A q \in Quotes : QuoteMoves(q)
  BY QuoteTyped, Ranks DEF QuoteMoves
<1> QED
  BY <1>1 DEF Moves, OrderMoves

----------------------------------------------------------------------------
(* Handlers.                                                               *)

OnlyMoves(c) ==
  \A d \in Calls \ {c} : pc'[d] = pc[d] /\ command'[d] = command[d] /\ seen'[d] = seen[d]

LEMMA OthersKeep ==
  ASSUME SalesInv, NEW c \in Calls, OnlyMoves(c), Moves(c)
  PROVE  \A d \in Calls \ {c} : HandlerOK(d)' /\ StatusRead(d)'
<1> SUFFICES ASSUME NEW d \in Calls \ {c} PROVE HandlerOK(d)' /\ StatusRead(d)'
  OBVIOUS
<1> DEFINE q == command[d].quote
           o == command[d].order
<1>1. /\ pc'[d] = pc[d] /\ command'[d] = command[d] /\ seen'[d] = seen[d]
      /\ HandlerOK(d) /\ RouteOK(d) /\ StatusRead(d)
      /\ quotes'[d] # NoQuote => Quoted(d)
      /\ orders'[d] # NoOrder => Ordered(d)
  BY Typed, StillThere DEF OnlyMoves
<1>2. RouteOK(d)'
  BY <1>1 DEF RouteOK, Quoted, Ordered
<1>3. ASSUME pc[d] \in {"batch", "replay"}, command[d].op \in {"send", "accept", "convert"},
             ReadOK(d)
      PROVE  /\ ReadOK(d)'
             /\ Rank(quotes[q].status) <= Rank(quotes'[q].status)
             /\ Rank(quotes[q].status) \in 1 .. 4 /\ Rank(quotes'[q].status) \in 1 .. 4
  <2>1. q \in Quotes /\ Quoted(q)
    BY <1>1, <1>3 DEF RouteOK, WellFormed, ReadOK
  <2>2. /\ quotes'[q] # NoQuote /\ quotes'[q].lines = quotes[q].lines
        /\ quotes[q].version <= quotes'[q].version
        /\ quotes'[q].status \in QuoteStatuses
        /\ Rank(quotes[q].status) <= Rank(quotes'[q].status)
    BY <2>1, StillThere
  <2>3. Rank(quotes[q].status) \in 1 .. 4 /\ Rank(quotes'[q].status) \in 1 .. 4
    BY <2>1, <2>2, QuoteTyped, Ranks
  <2>4. Rank(Expected(command[d].op)) \in 1 .. 4
    BY <1>3, Ranks DEF Expected, QuoteStatuses
  <2>5. quotes[q].version \in Nat /\ seen[d].version \in Nat
    BY <2>1, QuoteTyped, Typed DEF SeenSet
  <2>6. quotes'[q].version \in Nat
    BY <2>1 DEF Moves, QuoteMoves, QuoteRow
  <2> QED
    BY <1>1, <1>3, <2>2, <2>3, <2>4, <2>5, <2>6 DEF ReadOK, Quoted
<1>4. ASSUME pc[d] = "batch", command[d].op = "cancel"
      PROVE  orders'[o] # NoOrder /\ seen[d].version <= orders'[o].version
  <2>1. o \in Calls /\ Ordered(o) /\ seen[d].version <= orders[o].version
    BY <1>1, <1>4 DEF HandlerOK, RouteOK, WellFormed
  <2>2. orders'[o] # NoOrder /\ orders[o].version <= orders'[o].version
    BY <2>1, StillThere
  <2>3. orders[o].version \in Nat /\ seen[d].version \in Nat
    BY <2>1, OrderTyped, Typed DEF SeenSet
  <2>4. orders'[o].version \in Nat
    BY <2>1, <2>3 DEF Moves, OrderMoves, OrderRow
  <2> QED
    BY <2>1, <2>2, <2>3, <2>4
<1>5. HandlerOK(d)'
  BY <1>1, <1>2, <1>3, <1>4 DEF HandlerOK, Ordered
<1>6. StatusRead(d)'
  <2>1. SUFFICES ASSUME pc[d] = "replay", command[d].op = "accept"
                 PROVE  /\ seen[d].status \in QuoteStatuses
                        /\ Rank(seen[d].status) <= Rank(quotes'[q].status)
    BY <1>1 DEF StatusRead
  <2>2. /\ seen[d].status \in QuoteStatuses
        /\ Rank(seen[d].status) <= Rank(quotes[q].status)
    BY <1>1, <2>1 DEF StatusRead
  <2>3. ReadOK(d)
    BY <1>1, <2>1 DEF HandlerOK
  <2>4. Rank(seen[d].status) \in 1 .. 4
    BY <2>2, Ranks
  <2> QED
    BY <1>3, <2>1, <2>2, <2>3, <2>4
<1> QED
  BY <1>5, <1>6

\* A step that writes no table.
LEMMA ReadKeeps ==
  ASSUME SalesInv, NEW c \in Calls, UNCHANGED tables, UNCHANGED past,
         NEW step \in {"quote", "replay", "order", "batch", "done"},
         pc' = [pc EXCEPT ![c] = step],
         command' \in [Calls -> Command \cup {NoCommand}],
         \A d \in Calls \ {c} : command'[d] = command[d],
         seen' \in [Calls -> SeenSet], \A d \in Calls \ {c} : seen'[d] = seen[d],
         answer' \in [Calls -> AnswerSet],
         HandlerOK(c)', StatusRead(c)'
  PROVE  SalesInv'
<1>1. UNCHANGED <<quotes, orders, reservations, available, idempotency, events, past>>
  BY DEF tables
<1>2. TypeOK'
  BY <1>1, Typed DEF TypeOK, IsRow
<1>3. OnlyMoves(c) /\ Moves(c)
  BY <1>1, Typed, NothingMoves DEF OnlyMoves
<1>4. \A d \in Calls : HandlerOK(d)' /\ StatusRead(d)'
  BY <1>3, OthersKeep
<1> QED
  BY <1>2, <1>4 DEF SalesInv, TypeInv

LEMMA RespondKeeps ==
  ASSUME SalesInv, NEW c \in Calls, ReadOnly, pc[c] \notin {"idle", "done"},
         seen' \in [Calls -> SeenSet], \A d \in Calls \ {c} : seen'[d] = seen[d],
         NEW kind \in Refusals \cup {"replayed"}, NEW by \in Calls \cup {None},
         Respond(c, kind, by)
  PROVE  SalesInv'
<1>1. pc' = [pc EXCEPT ![c] = "done"] /\ answer' \in [Calls -> AnswerSet]
  BY Typed DEF Respond, AnswerSet
<1>2. UNCHANGED <<quotes, orders, command>> /\ UNCHANGED tables /\ UNCHANGED past
  BY DEF ReadOnly, tables
<1>3. RouteOK(c) /\ pc'[c] = "done"
  BY <1>1, Typed
<1>4. HandlerOK(c)' /\ StatusRead(c)'
  BY <1>2, <1>3 DEF HandlerOK, RouteOK, StatusRead, Quoted, Ordered
<1> QED
  BY <1>1, <1>2, <1>4, Typed, ReadKeeps

LEMMA RefuseKeeps ==
  ASSUME SalesInv, NEW c \in Calls, ReadOnly, pc[c] \notin {"idle", "done"},
         seen' \in [Calls -> SeenSet], \A d \in Calls \ {c} : seen'[d] = seen[d],
         NEW kind \in Refusals, Refuse(c, kind)
  PROVE  SalesInv'
BY RespondKeeps DEF Refuse

LEMMA GotoKeeps ==
  ASSUME SalesInv, NEW c \in Calls, ReadOnly,
         seen' \in [Calls -> SeenSet], \A d \in Calls \ {c} : seen'[d] = seen[d],
         NEW step \in {"quote", "replay", "order", "batch"}, Goto(c, step),
         pc'[c] = step => HandlerOK(c)' /\ StatusRead(c)'
  PROVE  SalesInv'
<1>1. pc' = [pc EXCEPT ![c] = step] /\ pc'[c] = step /\ UNCHANGED answer
  BY Typed DEF Goto
<1>2. UNCHANGED tables /\ UNCHANGED past /\ UNCHANGED command
  BY DEF ReadOnly
<1> QED
  BY <1>1, <1>2, Typed, ReadKeeps

LEMMA ArriveKeeps ==
  ASSUME SalesInv, NEW c \in Calls, Arrive(c)
  PROVE  SalesInv'
<1>1. PICK cmd \in Commands[c] :
        /\ command' = [command EXCEPT ![c] = cmd]
        /\ Goto(c, IF cmd.op = "accept" THEN "quote" ELSE "replay")
  BY DEF Arrive
<1> DEFINE step == IF cmd.op = "accept" THEN "quote" ELSE "replay"
<1>2. cmd \in Command /\ WellFormed(cmd)
  BY SalesAssumption
<1>3. pc[c] = "idle" /\ UNCHANGED tables /\ UNCHANGED past /\ UNCHANGED seen
  BY DEF Arrive
<1>4. pc' = [pc EXCEPT ![c] = step] /\ pc'[c] = step /\ UNCHANGED answer
  BY <1>1, Typed DEF Goto
<1>5. command' \in [Calls -> Command \cup {NoCommand}] /\ command'[c] = cmd
  BY <1>1, <1>2, Typed
<1>6. RouteOK(c) /\ UNCHANGED <<quotes, orders>>
  BY <1>3, Typed DEF tables
<1>7. /\ step = "quote" => cmd.op = "accept"
      /\ step = "replay" => cmd.op # "accept"
      /\ step \in {"quote", "replay"}
  OBVIOUS
<1> HIDE DEF step
<1>8. HandlerOK(c)' /\ StatusRead(c)'
  BY <1>2, <1>3, <1>4, <1>5, <1>6, <1>7 DEF HandlerOK, RouteOK, StatusRead, Quoted, Ordered
<1> QED
  BY <1>1, <1>3, <1>4, <1>5, <1>7, <1>8, Typed, ReadKeeps

LEMMA LoadQuoteKeeps ==
  ASSUME SalesInv, NEW c \in Calls, LoadQuote(c)
  PROVE  SalesInv'
<1> DEFINE q == command[c].quote
<1>1. ReadOnly /\ pc[c] = "quote"
  BY DEF LoadQuote
<1>2. /\ RouteOK(c) /\ command[c].op \in {"send", "accept", "convert"} /\ q \in Quotes
      /\ UNCHANGED <<quotes, orders, command>>
  BY <1>1, Typed DEF RouteOK, WellFormed, ReadOnly, tables
<1>3. CASE Refuse(c, "not-found") /\ UNCHANGED seen
  BY <1>1, <1>3, Typed, RefuseKeeps DEF Refusals
<1>4. CASE /\ Quoted(q)
           /\ seen' = [seen EXCEPT ![c] = [status |-> quotes[q].status,
                                           version |-> quotes[q].version,
                                           lines |-> quotes[q].lines]]
  <2>1. /\ quotes[q].status \in QuoteStatuses /\ quotes[q].lines \in LineLists
        /\ quotes[q].version \in Nat
    BY <1>2, <1>4, QuoteTyped
  <2> DEFINE read == [status |-> quotes[q].status, version |-> quotes[q].version,
                      lines |-> quotes[q].lines]
  <2>2. /\ read \in SeenSet /\ read.status = quotes[q].status
        /\ read.version = quotes[q].version /\ read.lines = quotes[q].lines
    BY <2>1 DEF SeenSet, QuoteStatuses
  <2> HIDE DEF read
  <2>3. seen' = [seen EXCEPT ![c] = read]
    BY <1>4 DEF read
  <2>4. /\ seen' \in [Calls -> SeenSet] /\ \A d \in Calls \ {c} : seen'[d] = seen[d]
        /\ seen'[c] = read
    BY <2>2, <2>3, Typed
  <2>5. Rank(quotes[q].status) \in 1 .. 4
    BY <2>1, Ranks
  <2>6. CASE \E kind \in {"expired", "invalid-state"} : Refuse(c, kind)
    BY <1>1, <2>4, <2>6, RefuseKeeps DEF Refusals
  <2>7. CASE command[c].op = "accept" /\ Goto(c, "replay")
    <3>1. pc'[c] = "replay" => HandlerOK(c)' /\ StatusRead(c)'
      BY <1>1, <1>2, <1>4, <2>1, <2>2, <2>4, <2>5, <2>7
         DEF HandlerOK, RouteOK, ReadOK, StatusRead, Quoted, Ordered
    <3> QED
      BY <1>1, <2>4, <2>7, <3>1, GotoKeeps
  <2>8. CASE quotes[q].status = Expected(command[c].op) /\ Goto(c, "batch")
    <3>1. pc'[c] = "batch" => HandlerOK(c)' /\ StatusRead(c)'
      BY <1>1, <1>2, <1>4, <2>1, <2>2, <2>4, <2>5, <2>8
         DEF HandlerOK, RouteOK, ReadOK, StatusRead, Quoted, Ordered
    <3> QED
      BY <1>1, <2>4, <2>8, <3>1, GotoKeeps
  <2>9. \/ \E kind \in {"expired", "invalid-state"} : Refuse(c, kind)
        \/ command[c].op = "accept" /\ Goto(c, "replay")
        \/ quotes[q].status = Expected(command[c].op) /\ Goto(c, "batch")
    BY <1>4 DEF LoadQuote
  <2> QED
    BY <2>6, <2>7, <2>8, <2>9
<1> QED
  BY <1>3, <1>4 DEF LoadQuote

LEMMA LoadOrderKeeps ==
  ASSUME SalesInv, NEW c \in Calls, LoadOrder(c)
  PROVE  SalesInv'
<1> DEFINE o == command[c].order
<1>1. ReadOnly /\ pc[c] = "order"
  BY DEF LoadOrder
<1>2. /\ RouteOK(c) /\ command[c].op = "cancel" /\ o \in Calls
      /\ UNCHANGED <<quotes, orders, command>>
  BY <1>1, Typed DEF RouteOK, WellFormed, ReadOnly, tables
<1>3. CASE UNCHANGED seen /\ \E kind \in {"not-found", "not-cancellable"} : Refuse(c, kind)
  BY <1>1, <1>3, Typed, RefuseKeeps DEF Refusals
<1>4. CASE /\ Ordered(o) /\ orders[o].status = "allocated" /\ Goto(c, "batch")
           /\ seen' = [seen EXCEPT ![c] = [status |-> orders[o].status,
                                           version |-> orders[o].version,
                                           lines |-> orders[o].lines]]
  <2> DEFINE read == [status |-> orders[o].status, version |-> orders[o].version,
                      lines |-> orders[o].lines]
  <2>1. orders[o].lines \in LineLists /\ orders[o].version \in Nat
    BY <1>2, <1>4, OrderTyped
  <2>2. read \in SeenSet /\ read.version = orders[o].version
    BY <1>4, <2>1 DEF SeenSet
  <2> HIDE DEF read
  <2>3. seen' = [seen EXCEPT ![c] = read]
    BY <1>4 DEF read
  <2>4. /\ seen' \in [Calls -> SeenSet] /\ \A d \in Calls \ {c} : seen'[d] = seen[d]
        /\ seen'[c] = read
    BY <2>2, <2>3, Typed
  <2>5. pc'[c] = "batch" => HandlerOK(c)' /\ StatusRead(c)'
    BY <1>1, <1>2, <1>4, <2>1, <2>2, <2>4
       DEF HandlerOK, RouteOK, ReadOK, StatusRead, Quoted, Ordered
  <2> QED
    BY <1>1, <1>4, <2>4, <2>5, GotoKeeps
<1> QED
  BY <1>3, <1>4 DEF LoadOrder

LEMMA ReadReplayKeeps ==
  ASSUME SalesInv, NEW c \in Calls, ReadReplay(c)
  PROVE  SalesInv'
<1>1. ReadOnly /\ UNCHANGED seen /\ pc[c] = "replay"
  BY DEF ReadReplay
<1>2. /\ RouteOK(c) /\ HandlerOK(c) /\ StatusRead(c) /\ UNCHANGED <<quotes, orders, command>>
      /\ command[c].op \in Ops
  BY <1>1, Typed DEF RouteOK, Command, ReadOnly, tables
<1>3. ASSUME NEW row \in LiveClaimed(c), Respond(c, "replayed", row.by) PROVE SalesInv'
  BY <1>1, <1>3, Typed, RespondKeeps DEF LiveClaimed, Claimed, TypeOK, IsRow
<1>4. CASE \E kind \in {"key-conflict", "invalid-state"} : Refuse(c, kind)
  BY <1>1, <1>4, Typed, RefuseKeeps DEF Refusals
<1>5. CASE command[c].op = "create" /\ Goto(c, "batch")
  <2>1. pc'[c] = "batch" => HandlerOK(c)' /\ StatusRead(c)'
    BY <1>1, <1>2, <1>5 DEF HandlerOK, RouteOK, StatusRead, Quoted, Ordered
  <2> QED
    BY <1>1, <1>5, <2>1, Typed, GotoKeeps
<1>6. CASE command[c].op \in {"send", "convert"} /\ Goto(c, "quote")
  <2>1. pc'[c] = "quote" => HandlerOK(c)' /\ StatusRead(c)'
    BY <1>1, <1>2, <1>6 DEF HandlerOK, RouteOK, StatusRead, Quoted, Ordered
  <2> QED
    BY <1>1, <1>6, <2>1, Typed, GotoKeeps
<1>7. CASE command[c].op = "cancel" /\ Goto(c, "order")
  <2>1. pc'[c] = "order" => HandlerOK(c)' /\ StatusRead(c)'
    BY <1>1, <1>2, <1>7 DEF HandlerOK, RouteOK, StatusRead, Quoted, Ordered
  <2> QED
    BY <1>1, <1>7, <2>1, Typed, GotoKeeps
<1>8. CASE command[c].op = "accept" /\ seen[c].status = "sent" /\ Goto(c, "batch")
  <2>1. ReadOK(c) /\ Rank("sent") <= Rank(quotes[command[c].quote].status)
    BY <1>1, <1>2, <1>8 DEF HandlerOK, StatusRead
  <2>2. Expected(command[c].op) = "sent"
    BY <1>8 DEF Expected
  <2>3. pc'[c] = "batch" => HandlerOK(c)' /\ StatusRead(c)'
    BY <1>1, <1>2, <1>8, <2>1, <2>2 DEF HandlerOK, RouteOK, ReadOK, StatusRead, Quoted, Ordered
  <2> QED
    BY <1>1, <1>8, <2>3, Typed, GotoKeeps
<1> QED
  BY <1>2, <1>3, <1>4, <1>5, <1>6, <1>7, <1>8 DEF ReadReplay, AfterReplay, Ops

LEMMA AbortKeeps ==
  ASSUME SalesInv, NEW c \in Calls, Abort(c)
  PROVE  SalesInv'
<1>1. ReadOnly /\ UNCHANGED seen /\ pc[c] = "batch"
  BY DEF Abort
<1>2. \E kind \in {"insufficient-stock", "server-error"} : Refuse(c, kind)
  BY DEF Abort
<1> QED
  BY <1>1, <1>2, Typed, RefuseKeeps DEF Refusals

----------------------------------------------------------------------------
(* The batches.                                                            *)

LEMMA CommittingHandler ==
  ASSUME SalesInv, NEW c \in Calls, Committed(c)
  PROVE  /\ pc[c] = "batch" /\ ~Stopped(c) /\ HandlerOK(c) /\ ~Quoted(c) /\ ~Ordered(c)
         /\ command[c] \in Command /\ WellFormed(command[c])
         /\ UNCHANGED <<available, past, command, seen>>
         /\ idempotency' = idempotency \cup {Row(c)}
         /\ pc' = [pc EXCEPT ![c] = "done"] /\ pc'[c] = "done"
         /\ answer' \in [Calls -> AnswerSet]
         /\ answer'[c].kind = "ok" /\ answer'[c].by = c
         /\ \A d \in Calls \ {c} : pc'[d] = pc[d] /\ answer'[d] = answer[d]
<1>1. pc[c] = "batch" /\ RouteOK(c) /\ HandlerOK(c)
  BY Typed DEF Committed
<1> QED
  BY <1>1, Typed DEF Committed, RouteOK, Respond, AnswerSet

LEMMA CommitKeeps ==
  ASSUME SalesInv, NEW c \in Calls, Committed(c), Moves(c),
         quotes' \in [Quotes -> QuoteRow \cup {NoQuote}],
         orders' \in [Calls -> OrderRow \cup {NoOrder}],
         reservations' \subseteq ReservationRow
  PROVE  SalesInv'
<1>1. /\ UNCHANGED <<available, past, command, seen>> /\ pc' = [pc EXCEPT ![c] = "done"]
      /\ idempotency' = idempotency \cup {Row(c)}
      /\ answer' \in [Calls -> AnswerSet] /\ pc'[c] = "done" /\ pc[c] = "batch"
  BY CommittingHandler
<1>2. \A row \in idempotency' : IsRow(row)
  BY <1>1, Typed DEF TypeOK, IsRow, Row
<1>3. TypeOK'
  BY <1>1, <1>2, Typed DEF TypeOK, IsRow
<1>4. OnlyMoves(c)
  BY <1>1, Typed DEF OnlyMoves
<1>5. \A d \in Calls \ {c} : HandlerOK(d)' /\ StatusRead(d)'
  BY <1>4, OthersKeep
<1>6. RouteOK(c)
  BY Typed
<1>7. HandlerOK(c)' /\ StatusRead(c)'
  BY <1>1, <1>6 DEF HandlerOK, RouteOK, StatusRead
<1> QED
  BY <1>3, <1>5, <1>7 DEF SalesInv, TypeInv

LEMMA CreateMoves ==
  ASSUME SalesInv, NEW c \in Calls, CommitCreate(c)
  PROVE  /\ Moves(c) /\ quotes' \in [Quotes -> QuoteRow \cup {NoQuote}]
         /\ c \in Quotes /\ quotes'[c] = NewQuote(command[c].lines) /\ Quoted(c)'
         /\ \A q \in Quotes \ {c} : quotes'[q] = quotes[q]
<1>1. /\ Committed(c) /\ command[c].op = "create" /\ UNCHANGED <<orders, reservations>>
      /\ quotes' = [quotes EXCEPT ![c] = NewQuote(command[c].lines)]
  BY DEF CommitCreate
<1>2. ~Quoted(c) /\ c \in Quotes /\ WellFormed(command[c])
  BY <1>1, CommittingHandler DEF Quotes
<1>3. NewQuote(command[c].lines) \in QuoteRow
  BY <1>1, <1>2 DEF WellFormed, NewQuote, QuoteRow
<1>4. /\ quotes' \in [Quotes -> QuoteRow \cup {NoQuote}]
      /\ quotes'[c] = NewQuote(command[c].lines)
      /\ \A q \in Quotes \ {c} : quotes'[q] = quotes[q]
  BY <1>1, <1>2, <1>3, Typed DEF TypeOK
<1>5. quotes'[c] # NoQuote
  BY <1>4 DEF NewQuote, NoQuote, None
<1>6. \A q \in Quotes : QuoteMoves(q)
  BY <1>2, <1>4, QuoteTyped, Ranks DEF QuoteMoves
<1> QED
  BY <1>1, <1>2, <1>4, <1>5, <1>6 DEF Moves, OrderMoves, Quoted

\* A row whose status and version are written, and its order.
LEMMA RowAfter ==
  ASSUME NEW r \in QuoteRow, NEW status \in QuoteStatuses
  PROVE  LET row == [r EXCEPT !.status = status, !.version = @ + 1]
         IN  /\ row \in QuoteRow /\ row.status = status /\ row.lines = r.lines
             /\ row.order = r.order /\ row.version = r.version + 1
<1> DEFINE v == r.version + 1
<1>1. v \in Nat
  BY DEF QuoteRow
<1> HIDE DEF v
<1>2. LET row == [r EXCEPT !.status = status, !.version = v]
      IN  /\ row \in QuoteRow /\ row.status = status /\ row.lines = r.lines
          /\ row.order = r.order /\ row.version = v
  BY <1>1 DEF QuoteRow, QuoteStatuses
<1> QED
  BY <1>2 DEF v

LEMMA RowConverted ==
  ASSUME NEW r \in QuoteRow, NEW o \in Calls
  PROVE  LET row == [r EXCEPT !.status = "converted", !.order = o, !.version = @ + 1]
         IN  /\ row \in QuoteRow /\ row.status = "converted" /\ row.lines = r.lines
             /\ row.order = o /\ row.version = r.version + 1
<1> DEFINE v == r.version + 1
<1>1. v \in Nat
  BY DEF QuoteRow
<1> HIDE DEF v
<1>2. LET row == [r EXCEPT !.status = "converted", !.order = o, !.version = v]
      IN  /\ row \in QuoteRow /\ row.status = "converted" /\ row.lines = r.lines
          /\ row.order = o /\ row.version = v
  BY <1>1 DEF QuoteRow, QuoteStatuses
<1> QED
  BY <1>2 DEF v

LEMMA TransitionMoves ==
  ASSUME SalesInv, NEW c \in Calls, CommitTransition(c)
  PROVE  LET q == command[c].quote
             next == IF command[c].op = "send" THEN "sent" ELSE "accepted"
         IN  /\ Moves(c) /\ quotes' \in [Quotes -> QuoteRow \cup {NoQuote}]
             /\ q \in Quotes /\ Quoted(q)
             /\ \A other \in Quotes \ {q} : quotes'[other] = quotes[other]
             /\ quotes'[q] # NoQuote /\ quotes'[q].status \in QuoteStatuses
             /\ quotes'[q].order = quotes[q].order
             /\ Rank(next) <= Rank(quotes'[q].status)
             /\ \/ quotes'[q] = quotes[q]
                \/ quotes[q].status # "converted" /\ quotes'[q].status # "converted"
<1> DEFINE q == command[c].quote
           next == IF command[c].op = "send" THEN "sent" ELSE "accepted"
<1>1. /\ Committed(c) /\ command[c].op \in {"send", "accept"}
      /\ UNCHANGED <<orders, reservations>>
      /\ quotes' = IF quotes[q].status = Expected(command[c].op)
                   THEN [quotes EXCEPT ![q] =
                           [quotes[q] EXCEPT !.status = next, !.version = @ + 1]]
                   ELSE quotes
  BY Typed DEF CommitTransition
<1>2. HandlerOK(c) /\ WellFormed(command[c]) /\ pc[c] = "batch" /\ ~Quoted(c)
  BY <1>1, CommittingHandler
<1>3. /\ q \in Quotes /\ Quoted(q) /\ q # c
      /\ Rank(Expected(command[c].op)) <= Rank(quotes[q].status)
  BY <1>1, <1>2 DEF HandlerOK, ReadOK, WellFormed
<1>4. quotes[q] \in QuoteRow /\ quotes[q].status \in QuoteStatuses /\ quotes[q].version \in Nat
  BY <1>3, QuoteTyped
<1>5. /\ next \in QuoteStatuses /\ Rank(next) = Rank(Expected(command[c].op)) + 1
      /\ Expected(command[c].op) \in QuoteStatuses /\ next # "converted"
      /\ Expected(command[c].op) # "converted"
  BY <1>1, Ranks DEF Expected, QuoteStatuses, Rank
<1> HIDE DEF next
<1>6. Rank(next) \in 1 .. 4 /\ Rank(quotes[q].status) \in 1 .. 4
      /\ Rank(Expected(command[c].op)) \in 1 .. 4
  BY <1>4, <1>5, Ranks
<1>7. CASE quotes[q].status = Expected(command[c].op)
  <2> DEFINE row == [quotes[q] EXCEPT !.status = next, !.version = @ + 1]
  <2>1. /\ row \in QuoteRow /\ row.status = next /\ row.lines = quotes[q].lines
        /\ row.order = quotes[q].order /\ row.version = quotes[q].version + 1
    BY <1>4, <1>5, RowAfter
  <2>2. quotes' = [quotes EXCEPT ![q] = row]
    BY <1>1, <1>7
  <2> HIDE DEF row
  <2>3. /\ quotes' \in [Quotes -> QuoteRow \cup {NoQuote}] /\ quotes'[q] = row
        /\ \A other \in Quotes \ {q} : quotes'[other] = quotes[other]
    BY <1>3, <2>1, <2>2, Typed DEF TypeOK
  <2>4. row # NoQuote
    BY <1>5, <2>1 DEF NoQuote, None, QuoteStatuses
  <2>5. QuoteMoves(q)
    BY <1>4, <1>5, <1>6, <1>7, <2>1, <2>3 DEF QuoteMoves
  <2>6. \A other \in Quotes \ {q} : QuoteMoves(other)
    BY <2>3, QuoteTyped, Ranks DEF QuoteMoves
  <2>7. Moves(c)
    BY <1>1, <1>3, <2>3, <2>5, <2>6 DEF Moves, OrderMoves
  <2>8. Rank(next) <= Rank(quotes'[q].status)
    BY <1>6, <2>1, <2>3
  <2>9. /\ quotes'[q].status \in QuoteStatuses /\ quotes'[q].order = quotes[q].order
        /\ quotes[q].status # "converted" /\ quotes'[q].status # "converted"
    BY <1>5, <1>7, <2>1, <2>3
  <2> QED
    BY <1>3, <2>3, <2>4, <2>7, <2>8, <2>9 DEF next
<1>8. CASE quotes[q].status # Expected(command[c].op)
  <2>1. quotes' = quotes
    BY <1>1, <1>8
  <2>2. Moves(c)
    BY <1>1, <2>1, NothingMoves
  <2>3. Rank(quotes[q].status) # Rank(Expected(command[c].op))
    BY <1>4, <1>5, <1>8, Ranks
  <2>4. Rank(next) <= Rank(quotes'[q].status)
    BY <1>3, <1>5, <1>6, <2>1, <2>3
  <2> QED
    BY <1>3, <1>4, <2>1, <2>2, <2>4, Typed DEF TypeOK, Quoted, next
<1> QED
  BY <1>7, <1>8

LEMMA LinesTyped ==
  ASSUME NEW lines \in LineLists, NEW n \in DOMAIN lines
  PROVE  n \in Nat /\ lines[n].variant \in Variants /\ lines[n].quantity \in Nat
<1>1. lines \in Seq(Line)
  BY SalesAssumption
<1>2. n \in Nat /\ lines[n] \in Line
  BY <1>1
<1> QED
  BY <1>2 DEF Line

LEMMA ConvertMoves ==
  ASSUME SalesInv, NEW c \in Calls, CommitConvert(c)
  PROVE  LET q == command[c].quote
         IN  /\ Moves(c) /\ quotes' \in [Quotes -> QuoteRow \cup {NoQuote}]
             /\ orders' \in [Calls -> OrderRow \cup {NoOrder}]
             /\ reservations' \subseteq ReservationRow
             /\ reservations' = reservations \cup NewReservations(c)
             /\ q \in Quotes /\ Quoted(q) /\ q # c /\ ~Ordered(c)
             /\ seen[c].lines = quotes[q].lines
             /\ quotes[q].status \in {"accepted", "converted"}
             /\ orders'[c] = NewOrder(c) /\ orders'[c] # NoOrder
             /\ \A o \in Calls \ {c} : orders'[o] = orders[o]
             /\ \A other \in Quotes \ {q} : quotes'[other] = quotes[other]
             /\ \/ /\ quotes[q].status = "accepted" /\ quotes[q].order = None
                   /\ quotes'[q].status = "converted" /\ quotes'[q].order = c
                   /\ quotes'[q].lines = quotes[q].lines /\ quotes'[q] # NoQuote
                \/ /\ ~(quotes[q].status = "accepted" /\ quotes[q].order = None)
                   /\ quotes'[q] = quotes[q]
<1> DEFINE q == command[c].quote
           accepted == quotes[q].status = "accepted" /\ quotes[q].order = None
<1>1. /\ Committed(c) /\ command[c].op = "convert"
      /\ orders' = [orders EXCEPT ![c] = NewOrder(c)]
      /\ reservations' = reservations \cup NewReservations(c)
      /\ quotes' = IF accepted
                   THEN [quotes EXCEPT ![q] =
                           [quotes[q] EXCEPT !.status = "converted", !.order = c,
                                             !.version = @ + 1]]
                   ELSE quotes
  BY Typed DEF CommitConvert
<1>2. /\ HandlerOK(c) /\ WellFormed(command[c]) /\ pc[c] = "batch" /\ ~Quoted(c) /\ ~Ordered(c)
      /\ command[c] \in Command
  BY <1>1, CommittingHandler
<1>3. /\ q \in Quotes /\ Quoted(q) /\ q # c /\ seen[c].lines = quotes[q].lines
      /\ Rank("accepted") <= Rank(quotes[q].status)
      /\ command[c].warehouse \in Warehouses
  BY <1>1, <1>2 DEF HandlerOK, ReadOK, WellFormed, Expected
<1>4. /\ quotes[q] \in QuoteRow /\ quotes[q].status \in QuoteStatuses
      /\ seen[c].lines \in LineLists
  BY <1>3, QuoteTyped
<1>5. quotes[q].status \in {"accepted", "converted"}
  BY <1>3, <1>4, Ranks DEF QuoteStatuses, Rank
<1>6. NewOrder(c) \in OrderRow /\ NewOrder(c) # NoOrder
  BY <1>3, <1>4 DEF NewOrder, OrderRow, NoOrder, None
<1>7. /\ orders' \in [Calls -> OrderRow \cup {NoOrder}] /\ orders'[c] = NewOrder(c)
      /\ \A o \in Calls \ {c} : orders'[o] = orders[o]
  BY <1>1, <1>6, Typed DEF TypeOK
<1>8. NewReservations(c) \subseteq ReservationRow
  BY <1>3, <1>4, LinesTyped DEF NewReservations, ReservationRow
<1>9. reservations' \subseteq ReservationRow
  BY <1>1, <1>8, Typed DEF TypeOK
<1>10. \A o \in Calls : OrderMoves(o)
  BY <1>2, <1>7 DEF OrderMoves
<1>11. CASE accepted
  <2> DEFINE row == [quotes[q] EXCEPT !.status = "converted", !.order = c, !.version = @ + 1]
  <2>1. /\ row \in QuoteRow /\ row.status = "converted" /\ row.lines = quotes[q].lines
        /\ row.order = c /\ row.version = quotes[q].version + 1
    BY <1>4, RowConverted
  <2>2. quotes' = [quotes EXCEPT ![q] = row]
    BY <1>1, <1>11
  <2> HIDE DEF row
  <2>3. /\ quotes' \in [Quotes -> QuoteRow \cup {NoQuote}] /\ quotes'[q] = row
        /\ \A other \in Quotes \ {q} : quotes'[other] = quotes[other]
    BY <1>3, <2>1, <2>2, Typed DEF TypeOK
  <2>4. row # NoQuote
    BY <2>1 DEF NoQuote, None
  <2>5. quotes[q].version \in Nat
    BY <1>4 DEF QuoteRow
  <2>6. QuoteMoves(q)
    BY <1>11, <2>1, <2>3, <2>5 DEF QuoteMoves, Rank
  <2>7. \A other \in Quotes \ {q} : QuoteMoves(other)
    BY <2>3, QuoteTyped, Ranks DEF QuoteMoves
  <2>8. Moves(c)
    BY <1>3, <1>7, <1>10, <2>3, <2>6, <2>7 DEF Moves
  <2> QED
    BY <1>1, <1>2, <1>3, <1>5, <1>6, <1>7, <1>9, <1>11, <2>1, <2>3, <2>4, <2>8
<1>12. CASE ~accepted
  <2>1. quotes' = quotes
    BY <1>1, <1>12
  <2>2. \A other \in Quotes : QuoteMoves(other)
    BY <2>1, QuoteTyped, Ranks DEF QuoteMoves
  <2>3. Moves(c)
    BY <1>7, <1>10, <2>1, <2>2 DEF Moves
  <2> QED
    BY <1>1, <1>2, <1>3, <1>5, <1>6, <1>7, <1>9, <1>12, <2>1, <2>3, Typed DEF TypeOK
<1> QED
  BY <1>11, <1>12

\* What a cancellation leaves of a reservation.
ReleasedRow(row, o) ==
  IF row.order = o /\ row.status = "active" THEN [row EXCEPT !.status = "released"] ELSE row

LEMMA ReleasedTyped ==
  ASSUME NEW row \in ReservationRow, NEW o
  PROVE  /\ ReleasedRow(row, o) \in ReservationRow
         /\ ReleasedRow(row, o).order = row.order
         /\ row.order # o \/ row.status = "released" => ReleasedRow(row, o) = row
         /\ row.order = o => ReleasedRow(row, o).status = "released"
BY DEF ReservationRow, ReleasedRow

LEMMA CancelMoves ==
  ASSUME SalesInv, NEW c \in Calls, CommitCancel(c)
  PROVE  LET o == command[c].order
         IN  /\ Moves(c) /\ quotes' = quotes
             /\ orders' \in [Calls -> OrderRow \cup {NoOrder}]
             /\ reservations' \subseteq ReservationRow
             /\ reservations' = { ReleasedRow(row, o) : row \in reservations }
             /\ o \in Calls /\ Ordered(o)
             /\ \A other \in Calls \ {o} : orders'[other] = orders[other]
             /\ orders'[o] # NoOrder /\ orders'[o].status = "cancelled"
             /\ orders'[o].quote = orders[o].quote /\ orders'[o].lines = orders[o].lines
<1> DEFINE o == command[c].order
           row == [orders[o] EXCEPT !.status = "cancelled", !.version = @ + 1]
<1>1. /\ Committed(c) /\ command[c].op = "cancel" /\ UNCHANGED quotes
      /\ orders' = IF orders[o].status = "allocated" THEN [orders EXCEPT ![o] = row] ELSE orders
      /\ reservations' = Released(reservations, o)
  BY Typed DEF CommitCancel
<1>2. HandlerOK(c) /\ WellFormed(command[c]) /\ pc[c] = "batch"
  BY <1>1, CommittingHandler
<1>3. o \in Calls /\ Ordered(o)
  BY <1>1, <1>2 DEF HandlerOK, WellFormed
<1>4. /\ orders[o] \in OrderRow /\ orders[o].status \in {"allocated", "cancelled"}
      /\ orders[o].version \in Nat
  BY <1>3, OrderTyped
<1>5. /\ row \in OrderRow /\ row.status = "cancelled" /\ row.version = orders[o].version + 1
      /\ row.quote = orders[o].quote /\ row.lines = orders[o].lines
  <2> DEFINE v == orders[o].version + 1
  <2>1. v \in Nat
    BY <1>4
  <2> HIDE DEF v
  <2>2. LET r == [orders[o] EXCEPT !.status = "cancelled", !.version = v]
        IN  /\ r \in OrderRow /\ r.status = "cancelled" /\ r.version = v
            /\ r.quote = orders[o].quote /\ r.lines = orders[o].lines
    BY <1>4, <2>1 DEF OrderRow
  <2> QED
    BY <2>2 DEF v
<1> HIDE DEF row
<1>6. row # NoOrder
  BY <1>5 DEF NoOrder, None
<1>7. /\ orders' \in [Calls -> OrderRow \cup {NoOrder}]
      /\ \A other \in Calls \ {o} : orders'[other] = orders[other]
      /\ orders'[o] # NoOrder /\ orders'[o].status = "cancelled"
      /\ orders'[o].quote = orders[o].quote /\ orders'[o].lines = orders[o].lines
      /\ orders'[o] = orders[o] \/ (orders[o].status = "allocated" /\ orders'[o] = row)
  BY <1>1, <1>3, <1>4, <1>5, <1>6, Typed DEF TypeOK, Ordered
<1>8. \A other \in Calls : OrderMoves(other)
  BY <1>5, <1>7 DEF OrderMoves
<1>9. \A q \in Quotes : QuoteMoves(q)
  BY <1>1, QuoteTyped, Ranks DEF QuoteMoves
<1>10. Moves(c)
  BY <1>1, <1>3, <1>7, <1>8, <1>9 DEF Moves
<1>11. reservations' = { ReleasedRow(r, o) : r \in reservations }
  BY <1>1 DEF Released, ReleasedRow
<1>12. reservations' \subseteq ReservationRow
  BY <1>11, ReleasedTyped, Typed DEF TypeOK
<1> QED
  BY <1>1, <1>3, <1>7, <1>10, <1>11, <1>12

LEMMA CommitsKeep ==
  ASSUME SalesInv, NEW c \in Calls,
         CommitCreate(c) \/ CommitTransition(c) \/ CommitConvert(c) \/ CommitCancel(c)
  PROVE  SalesInv' /\ Moves(c)
<1>1. CASE CommitCreate(c)
  <2>1. Committed(c) /\ UNCHANGED <<orders, reservations>>
    BY <1>1 DEF CommitCreate
  <2> QED
    BY <1>1, <2>1, CreateMoves, CommitKeeps, Typed DEF TypeOK
<1>2. CASE CommitTransition(c)
  <2>1. Committed(c) /\ UNCHANGED <<orders, reservations>>
    BY <1>2 DEF CommitTransition
  <2> QED
    BY <1>2, <2>1, TransitionMoves, CommitKeeps, Typed DEF TypeOK
<1>3. CASE CommitConvert(c)
  BY <1>3, ConvertMoves, CommitKeeps DEF CommitConvert
<1>4. CASE CommitCancel(c)
  BY <1>4, CancelMoves, CommitKeeps, Typed DEF CommitCancel, TypeOK
<1> QED
  BY <1>1, <1>2, <1>3, <1>4

\* A step of a handler that writes nothing leaves the documents.
LEMMA StepMoves ==
  ASSUME SalesInv, NEW c \in Calls, Arrive(c) \/ Step(c)
  PROVE  SalesInv' /\ Moves(c)
<1>1. CASE Arrive(c)
  BY <1>1, ArriveKeeps, NothingMoves DEF Arrive, tables
<1>2. CASE LoadQuote(c)
  BY <1>2, LoadQuoteKeeps, NothingMoves DEF LoadQuote, ReadOnly, tables
<1>3. CASE LoadOrder(c)
  BY <1>3, LoadOrderKeeps, NothingMoves DEF LoadOrder, ReadOnly, tables
<1>4. CASE ReadReplay(c)
  BY <1>4, ReadReplayKeeps, NothingMoves DEF ReadReplay, ReadOnly, tables
<1>5. CASE Abort(c)
  BY <1>5, AbortKeeps, NothingMoves DEF Abort, ReadOnly, tables
<1> QED
  BY <1>1, <1>2, <1>3, <1>4, <1>5, CommitsKeep DEF Step

----------------------------------------------------------------------------
(* Time, stock and the beginning.                                          *)

\* Only stock, dates and idempotency rows change.
Around == UNCHANGED <<quotes, orders, reservations, events>> /\ UNCHANGED handlers

LEMMA AroundKeeps ==
  ASSUME SalesInv, Around, available' \in [Variants \X Warehouses -> Nat],
         past' \subseteq Quotes, \A row \in idempotency' : IsRow(row)'
  PROVE  SalesInv'
<1>1. UNCHANGED <<quotes, orders, reservations, pc, command, seen, answer>>
  BY DEF Around, handlers
<1>2. TypeOK'
  BY <1>1, Typed DEF TypeOK
<1>3. \A c \in Calls : HandlerOK(c)' /\ StatusRead(c)'
  BY <1>1, Typed DEF HandlerOK, RouteOK, ReadOK, StatusRead, Quoted, Ordered
<1> QED
  BY <1>2, <1>3 DEF SalesInv, TypeInv

LEMMA TimeKeeps ==
  ASSUME SalesInv,
         \/ \E v \in Variants, w \in Warehouses : MoveStock(v, w)
         \/ \E q \in Quotes : Deadline(q)
         \/ \E row \in idempotency : ExpireKey(row)
         \/ UNCHANGED vars
  PROVE  SalesInv' /\ Around
<1>1. ASSUME NEW v \in Variants, NEW w \in Warehouses, MoveStock(v, w) PROVE SalesInv' /\ Around
  <2>1. PICK n \in 0 .. MaxUnits : available' = [available EXCEPT ![<<v, w>>] = n]
    BY <1>1 DEF MoveStock
  <2>2. n \in Nat
    BY SalesAssumption
  <2>3. available' \in [Variants \X Warehouses -> Nat]
    BY <2>1, <2>2, Typed DEF TypeOK
  <2>4. Around /\ UNCHANGED <<idempotency, past>>
    BY <1>1 DEF MoveStock, Around
  <2> QED
    BY <2>3, <2>4, Typed, AroundKeeps DEF TypeOK, IsRow
<1>2. ASSUME NEW q \in Quotes, Deadline(q) PROVE SalesInv' /\ Around
  <2>1. /\ Around /\ UNCHANGED <<available, idempotency>> /\ past' = past \cup {q}
    BY <1>2 DEF Deadline, Around, tables
  <2> QED
    BY <2>1, Typed, AroundKeeps DEF TypeOK, IsRow
<1>3. ASSUME NEW row \in idempotency, ExpireKey(row) PROVE SalesInv' /\ Around
  <2>1. /\ Around /\ UNCHANGED <<available, past>>
        /\ idempotency' = (idempotency \ {row}) \cup {Aged(row)}
    BY <1>3 DEF ExpireKey, Around
  <2>2. IsRow(Aged(row))
    BY Typed DEF TypeOK, IsRow, Aged
  <2> QED
    BY <2>1, <2>2, Typed, AroundKeeps DEF TypeOK, IsRow
<1>4. CASE UNCHANGED vars
  <2>1. Around /\ UNCHANGED <<available, past, idempotency>>
    BY <1>4 DEF vars, Around, handlers
  <2> QED
    BY <2>1, Typed, AroundKeeps DEF TypeOK, IsRow
<1> QED
  BY <1>1, <1>2, <1>3, <1>4

LEMMA NextCases ==
  ASSUME [Next]_vars
  PROVE  \/ \E c \in Calls : Arrive(c) \/ Step(c)
         \/ \E v \in Variants, w \in Warehouses : MoveStock(v, w)
         \/ \E q \in Quotes : Deadline(q)
         \/ \E row \in idempotency : ExpireKey(row)
         \/ UNCHANGED vars
BY DEF Next, Quiet

LEMMA InitSales ==
  ASSUME Init
  PROVE  SalesInv
<1>1. PICK begun \in Beginnings :
        quotes = [q \in Quotes |->
          IF q \in Calls THEN NoQuote
          ELSE [NewQuote(begun[q].lines) EXCEPT
                  !.status = begun[q].status,
                  !.version = CASE begun[q].status = "draft" -> 1
                                [] begun[q].status = "sent" -> 2
                                [] begun[q].status = "accepted" -> 3]]
  BY DEF Init
<1> DEFINE First(q) ==
             IF q \in Calls THEN NoQuote
             ELSE [NewQuote(begun[q].lines) EXCEPT
                     !.status = begun[q].status,
                     !.version = CASE begun[q].status = "draft" -> 1
                                   [] begun[q].status = "sent" -> 2
                                   [] begun[q].status = "accepted" -> 3]
<1>2. quotes \in [Quotes -> QuoteRow \cup {NoQuote}]
  <2>1. ASSUME NEW q \in Quotes, q \notin Calls PROVE First(q) \in QuoteRow
    <3> DEFINE status == begun[q].status
               lines == begun[q].lines
               version == CASE status = "draft" -> 1 [] status = "sent" -> 2
                            [] status = "accepted" -> 3
    <3>1. begun[q] \in [status : {"draft", "sent", "accepted"}, lines : LineLists]
      BY <2>1, SalesAssumption DEF Quotes
    <3>2. status \in {"draft", "sent", "accepted"} /\ lines \in LineLists
      BY <3>1
    <3>3. version \in Nat
      BY <3>2
    <3>4. First(q) = [NewQuote(lines) EXCEPT !.status = status, !.version = version]
      BY <2>1
    <3> HIDE DEF First, status, lines, version
    <3> QED
      BY <3>2, <3>3, <3>4 DEF NewQuote, QuoteRow
  <2>2. \A q \in Quotes : First(q) \in QuoteRow \cup {NoQuote}
    BY <2>1
  <2>3. quotes = [q \in Quotes |-> First(q)]
    BY <1>1
  <2> HIDE DEF First
  <2> QED
    BY <2>2, <2>3
<1>3. available \in [Variants \X Warehouses -> Nat]
  <2> HIDE DEF First
  <2>1. MaxUnits \in Nat
    BY SalesAssumption
  <2>2. 0 .. MaxUnits \subseteq Nat
    BY <2>1
  <2>3. available \in [Variants \X Warehouses -> 0 .. MaxUnits]
    BY DEF Init
  <2> QED
    BY <2>2, <2>3
<1>4. TypeOK
  BY <1>2, <1>3 DEF Init, TypeOK, NothingSeen, SeenSet, Unanswered, AnswerSet, ReservationRow
<1>5. \A c \in Calls : ~Quoted(c) /\ ~Ordered(c) /\ pc[c] = "idle"
  BY <1>1 DEF Init, Quoted, Ordered, Quotes
<1> QED
  BY <1>4, <1>5 DEF SalesInv, TypeInv, HandlerOK, RouteOK, StatusRead

LEMMA StepKeeps ==
  ASSUME SalesInv, [Next]_vars
  PROVE  SalesInv'
BY NextCases, StepMoves, TimeKeeps

LEMMA SalesAlways == Spec => []SalesInv
<1>1. Init => SalesInv
  BY InitSales
<1>2. SalesInv /\ [Next]_vars => SalesInv'
  BY StepKeeps
<1> QED
  BY <1>1, <1>2, PTL DEF Spec

\* Rows and handlers keep their types, and a handler that is about to write
\* has read a quotation that is still there, with the lines it still has and at
\* a stage it cannot have left backwards.
THEOREM SalesTyped == Spec => []TypeInv
<1>1. SalesInv => TypeInv
  BY DEF SalesInv
<1> QED
  BY <1>1, SalesAlways, PTL

----------------------------------------------------------------------------
(* Documents only move forward.                                            *)

LEMMA ReleasedStays ==
  ASSUME SalesInv, [Next]_vars, NEW row \in reservations, row.status = "released"
  PROVE  row \in reservations'
<1>1. CASE reservations \subseteq reservations'
  BY <1>1
<1>2. ASSUME NEW c \in Calls, CommitCancel(c) PROVE row \in reservations'
  <2>1. row \in ReservationRow
    BY Typed DEF TypeOK
  <2> QED
    BY <1>2, <2>1, CancelMoves, ReleasedTyped
<1>3. ASSUME NEW c \in Calls, Arrive(c) \/ Step(c), ~CommitCancel(c)
      PROVE  reservations \subseteq reservations'
  BY <1>3 DEF Arrive, Step, LoadQuote, LoadOrder, ReadReplay, Abort, ReadOnly, tables,
              CommitCreate, CommitTransition, CommitConvert
<1> QED
  BY <1>1, <1>2, <1>3, NextCases, TimeKeeps DEF Around

LEMMA EveryStepMoves ==
  ASSUME SalesInv, [Next]_vars
  PROVE  /\ \A q \in Quotes : QuoteMoves(q)
         /\ \A o \in Calls : OrderMoves(o)
<1>1. CASE \E c \in Calls : Moves(c)
  BY <1>1 DEF Moves
<1>2. CASE UNCHANGED <<quotes, orders>>
  BY <1>2, QuoteTyped, Ranks DEF QuoteMoves, OrderMoves
<1> QED
  BY <1>1, <1>2, NextCases, StepMoves, TimeKeeps DEF Around

\* Quotations go one stage at a time and never back, orders are cancelled and
\* never allocated again, and released reservations stay so: each guarded
\* UPDATE looks at the row again.
THEOREM ForwardOnly == Spec => LifecycleForward
<1>1. ASSUME SalesInv, [Next]_vars
      PROVE  /\ \A q \in Quotes : Quoted(q) =>
                  /\ Rank(quotes'[q].status) - Rank(quotes[q].status) \in {0, 1}
                  /\ quotes'[q].lines = quotes[q].lines
                  /\ quotes[q].order # None => quotes'[q].order = quotes[q].order
             /\ \A o \in Calls : Ordered(o) =>
                  \/ orders'[o] = orders[o]
                  \/ orders[o].status = "allocated" /\ orders'[o].status = "cancelled"
             /\ \A row \in reservations : row.status = "released" => row \in reservations'
  BY <1>1, EveryStepMoves, ReleasedStays DEF QuoteMoves, OrderMoves
<1> QED
  BY <1>1, SalesAlways, PTL DEF Spec, LifecycleForward

----------------------------------------------------------------------------
(* A quotation, its order and the reservations.                            *)

\* The reservation of line n of order o, with this status.
ReservationOf(o, n, w, status) ==
  [order |-> o, line |-> n, variant |-> orders[o].lines[n].variant, warehouse |-> w,
   quantity |-> orders[o].lines[n].quantity, status |-> status]

StatusOf(o) == IF orders[o].status = "allocated" THEN "active" ELSE "released"

LEMMA OrderAgrees ==
  ASSUME SalesInv, BooksAgree, NEW o \in Calls, Ordered(o)
  PROVE  /\ orders[o].quote \in Quotes /\ Quoted(orders[o].quote)
         /\ quotes[orders[o].quote].order = o
         /\ quotes[orders[o].quote].lines = orders[o].lines
         /\ \E w \in Warehouses :
              ReservationsOf(o) = { ReservationOf(o, n, w, StatusOf(o))
                                    : n \in DOMAIN orders[o].lines }
<1>1. OrderOK(o) /\ orders[o].quote \in Quotes
  BY OrderTyped DEF BooksAgree
<1> QED
  BY <1>1 DEF OrderOK, ReservationOf, StatusOf

LEMMA QuoteAgrees ==
  ASSUME SalesInv, BooksAgree, NEW q \in Quotes, Quoted(q)
  PROVE  /\ quotes[q].order # None <=> quotes[q].status = "converted"
         /\ quotes[q].order # None => /\ quotes[q].order \in Calls
                                      /\ Ordered(quotes[q].order)
                                      /\ orders[quotes[q].order].quote = q
BY QuoteTyped DEF BooksAgree, QuoteOK

\* An order that is not written agrees as before, when its quotation keeps its
\* lines and its order, and nobody reserves for it.
LEMMA OrderStillAgrees ==
  ASSUME SalesInv, BooksAgree, NEW o \in Calls, Ordered(o),
         orders'[o] = orders[o],
         quotes'[orders[o].quote] # NoQuote,
         quotes'[orders[o].quote].order = o,
         quotes'[orders[o].quote].lines = quotes[orders[o].quote].lines,
         ReservationsOf(o)' = ReservationsOf(o)
  PROVE  OrderOK(o)'
<1>1. OrderOK(o)
  BY DEF BooksAgree
<1> QED
  BY <1>1 DEF OrderOK, Quoted

LEMMA CreateBooks ==
  ASSUME SalesInv, BooksAgree, NEW c \in Calls, CommitCreate(c)
  PROVE  BooksAgree'
<1>1. /\ c \in Quotes /\ quotes'[c] = NewQuote(command[c].lines)
      /\ \A q \in Quotes \ {c} : quotes'[q] = quotes[q]
      /\ ~Quoted(c) /\ UNCHANGED <<orders, reservations>>
  BY CreateMoves, CommittingHandler DEF CommitCreate
<1>2. ASSUME NEW o \in Calls, Ordered(o)' PROVE OrderOK(o)'
  <2>1. Ordered(o)
    BY <1>1, <1>2 DEF Ordered
  <2>2. /\ orders[o].quote \in Quotes /\ Quoted(orders[o].quote)
        /\ quotes[orders[o].quote].order = o
    BY <2>1, OrderAgrees
  <2>3. quotes'[orders[o].quote] = quotes[orders[o].quote]
    BY <1>1, <2>2
  <2> QED
    BY <1>1, <2>1, <2>2, <2>3, OrderStillAgrees DEF Quoted, ReservationsOf
<1>3. ASSUME NEW q \in Quotes, Quoted(q)' PROVE QuoteOK(q)'
  <2>1. CASE q = c
    BY <1>1, <2>1 DEF QuoteOK, NewQuote
  <2>2. CASE q # c
    BY <1>1, <1>3, <2>2, QuoteAgrees DEF QuoteOK, Quoted, Ordered
  <2> QED
    BY <2>1, <2>2
<1>4. \A row \in reservations' : Ordered(row.order)'
  BY <1>1 DEF BooksAgree, Ordered
<1> QED
  BY <1>2, <1>3, <1>4 DEF BooksAgree

LEMMA TransitionBooks ==
  ASSUME SalesInv, BooksAgree, NEW c \in Calls, CommitTransition(c)
  PROVE  BooksAgree'
<1> DEFINE q == command[c].quote
<1>1. /\ q \in Quotes /\ Quoted(q) /\ Moves(c)
      /\ \A other \in Quotes \ {q} : quotes'[other] = quotes[other]
      /\ quotes'[q] # NoQuote /\ quotes'[q].order = quotes[q].order
      /\ \/ quotes'[q] = quotes[q]
         \/ quotes[q].status # "converted" /\ quotes'[q].status # "converted"
      /\ UNCHANGED <<orders, reservations>>
  BY TransitionMoves DEF CommitTransition
<1>2. quotes'[q].lines = quotes[q].lines
  BY <1>1, StillThere
<1>3. ASSUME NEW o \in Calls, Ordered(o)' PROVE OrderOK(o)'
  <2>1. Ordered(o)
    BY <1>1, <1>3 DEF Ordered
  <2>2. /\ orders[o].quote \in Quotes /\ Quoted(orders[o].quote)
        /\ quotes[orders[o].quote].order = o
    BY <2>1, OrderAgrees
  <2>3. /\ quotes'[orders[o].quote] # NoQuote /\ quotes'[orders[o].quote].order = o
        /\ quotes'[orders[o].quote].lines = quotes[orders[o].quote].lines
    BY <1>1, <1>2, <2>2 DEF Quoted
  <2> QED
    BY <1>1, <2>1, <2>3, OrderStillAgrees DEF ReservationsOf
<1>4. ASSUME NEW other \in Quotes, Quoted(other)' PROVE QuoteOK(other)'
  <2>1. CASE other = q
    BY <1>1, <2>1, QuoteAgrees DEF QuoteOK, Ordered
  <2>2. CASE other # q
    BY <1>1, <1>4, <2>2, QuoteAgrees DEF QuoteOK, Quoted, Ordered
  <2> QED
    BY <2>1, <2>2
<1>5. \A row \in reservations' : Ordered(row.order)'
  BY <1>1 DEF BooksAgree, Ordered
<1> QED
  BY <1>3, <1>4, <1>5 DEF BooksAgree

\* The unique key of source_quote_id stops a second order, so the quotation of
\* a conversion that goes through is still accepted and has no order.
LEMMA ConvertsOnce ==
  ASSUME SalesInv, BooksAgree, NEW c \in Calls, CommitConvert(c)
  PROVE  quotes[command[c].quote].status = "accepted" /\ quotes[command[c].quote].order = None
<1> DEFINE q == command[c].quote
<1>1. /\ q \in Quotes /\ Quoted(q) /\ quotes[q].status \in {"accepted", "converted"}
  BY ConvertMoves
<1>2. ~QuoteTaken(c)
  BY CommittingHandler DEF CommitConvert, Stopped
<1>3. quotes[q].order = None
  BY <1>1, <1>2, QuoteAgrees DEF QuoteTaken
<1> QED
  BY <1>1, <1>3, QuoteAgrees

LEMMA ConvertBooks ==
  ASSUME SalesInv, BooksAgree, NEW c \in Calls, CommitConvert(c)
  PROVE  BooksAgree'
<1> DEFINE q == command[c].quote
           w == command[c].warehouse
<1>1. quotes[q].status = "accepted" /\ quotes[q].order = None
  BY ConvertsOnce
<1>2. /\ q \in Quotes /\ Quoted(q) /\ q # c /\ ~Ordered(c)
      /\ seen[c].lines = quotes[q].lines
      /\ orders'[c] = NewOrder(c) /\ orders'[c] # NoOrder
      /\ \A o \in Calls \ {c} : orders'[o] = orders[o]
      /\ \A other \in Quotes \ {q} : quotes'[other] = quotes[other]
      /\ quotes'[q].status = "converted" /\ quotes'[q].order = c
      /\ quotes'[q].lines = quotes[q].lines /\ quotes'[q] # NoQuote
      /\ reservations' = reservations \cup NewReservations(c)
  BY <1>1, ConvertMoves
<1>3. w \in Warehouses /\ None \notin Calls
  BY CommittingHandler, SalesAssumption DEF CommitConvert, WellFormed, Quotes
<1>4. /\ \A row \in reservations : row.order # c
      /\ \A row \in NewReservations(c) : row.order = c
  <2>1. \A row \in reservations : row.order # c
    <3>1. \A row \in reservations : Ordered(row.order)
      BY DEF BooksAgree
    <3> QED
      BY <1>2, <3>1
  <2>2. \A row \in NewReservations(c) : row.order = c
    BY DEF NewReservations
  <2> QED
    BY <2>1, <2>2
<1>5. OrderOK(c)'
  <2>1. ReservationsOf(c)' = NewReservations(c)
    <3>1. ReservationsOf(c)' = { row \in reservations \cup NewReservations(c) : row.order = c }
      BY <1>2 DEF ReservationsOf
    <3> QED
      BY <1>4, <3>1, Zenon
  <2>2. /\ orders'[c].quote = q /\ orders'[c].lines = seen[c].lines
        /\ orders'[c].status = "allocated"
    BY <1>2 DEF NewOrder
  <2> DEFINE here == { [order |-> c, line |-> n, variant |-> orders'[c].lines[n].variant,
                        warehouse |-> w, quantity |-> orders'[c].lines[n].quantity,
                        status |-> IF orders'[c].status = "allocated"
                                   THEN "active" ELSE "released"]
                       : n \in DOMAIN orders'[c].lines }
  <2>3. NewReservations(c) = here
    BY <2>2 DEF NewReservations
  <2>4. /\ quotes'[orders'[c].quote] # NoQuote /\ quotes'[orders'[c].quote].order = c
        /\ quotes'[orders'[c].quote].lines = orders'[c].lines
    BY <1>2, <2>2
  <2>5. \E place \in Warehouses :
          ReservationsOf(c)' =
            { [order |-> c, line |-> n, variant |-> orders'[c].lines[n].variant,
               warehouse |-> place, quantity |-> orders'[c].lines[n].quantity,
               status |-> IF orders'[c].status = "allocated" THEN "active" ELSE "released"]
              : n \in DOMAIN orders'[c].lines }
    BY <1>3, <2>1, <2>3
  <2> QED
    BY <2>4, <2>5 DEF OrderOK, Quoted
<1>6. ASSUME NEW o \in Calls \ {c}, Ordered(o)' PROVE OrderOK(o)'
  <2>1. Ordered(o)
    BY <1>2, <1>6 DEF Ordered
  <2>2. /\ orders[o].quote \in Quotes /\ Quoted(orders[o].quote)
        /\ quotes[orders[o].quote].order = o
    BY <2>1, OrderAgrees
  <2>3. orders[o].quote # q
    BY <1>1, <1>3, <2>2
  <2>4. quotes'[orders[o].quote] = quotes[orders[o].quote]
    BY <1>2, <2>2, <2>3
  <2>5. ReservationsOf(o)' = ReservationsOf(o)
    BY <1>2, <1>4 DEF ReservationsOf
  <2> QED
    BY <1>2, <2>1, <2>2, <2>4, <2>5, OrderStillAgrees DEF Quoted
<1>7. ASSUME NEW other \in Quotes, Quoted(other)' PROVE QuoteOK(other)'
  <2>1. CASE other = q
    BY <1>2, <1>3, <2>1 DEF QuoteOK, Ordered, NewOrder
  <2>2. CASE other # q
    <3>1. quotes'[other] = quotes[other] /\ Quoted(other)
      BY <1>2, <1>7, <2>2 DEF Quoted
    <3>2. /\ quotes[other].order # None <=> quotes[other].status = "converted"
          /\ quotes[other].order # None => /\ quotes[other].order \in Calls
                                           /\ Ordered(quotes[other].order)
                                           /\ orders[quotes[other].order].quote = other
      BY <3>1, QuoteAgrees
    <3>3. quotes[other].order # None =>
            orders'[quotes[other].order] = orders[quotes[other].order]
      BY <1>2, <3>2
    <3> QED
      BY <3>1, <3>2, <3>3 DEF QuoteOK, Ordered
  <2> QED
    BY <2>1, <2>2
<1>8. \A row \in reservations' : Ordered(row.order)'
  <2>1. ASSUME NEW row \in reservations PROVE Ordered(row.order)'
    <3>1. Ordered(row.order) /\ row.order \in Calls
      BY Typed DEF BooksAgree, TypeOK, ReservationRow
    <3> QED
      BY <1>2, <1>4, <3>1 DEF Ordered
  <2>2. ASSUME NEW row \in NewReservations(c) PROVE Ordered(row.order)'
    BY <1>2, <1>4 DEF Ordered
  <2> QED
    BY <1>2, <2>1, <2>2
<1> QED
  BY <1>5, <1>6, <1>7, <1>8 DEF BooksAgree

LEMMA CancelBooks ==
  ASSUME SalesInv, BooksAgree, NEW c \in Calls, CommitCancel(c)
  PROVE  BooksAgree'
<1>1. PICK o \in Calls :
      /\ quotes' = quotes /\ Ordered(o)
      /\ reservations' = { ReleasedRow(row, o) : row \in reservations }
      /\ \A other \in Calls \ {o} : orders'[other] = orders[other]
      /\ orders'[o] # NoOrder /\ orders'[o].status = "cancelled"
      /\ orders'[o].quote = orders[o].quote /\ orders'[o].lines = orders[o].lines
  BY CancelMoves
<1>2. \A row \in reservations :
        /\ ReleasedRow(row, o).order = row.order
        /\ row.order # o => ReleasedRow(row, o) = row
  BY ReleasedTyped, Typed DEF TypeOK
<1>3. OrderOK(o)'
  <2>1. PICK w \in Warehouses :
          ReservationsOf(o) = { ReservationOf(o, n, w, StatusOf(o))
                                : n \in DOMAIN orders[o].lines }
    BY <1>1, OrderAgrees
  <2>2. ReservationsOf(o)' = { ReleasedRow(row, o) : row \in ReservationsOf(o) }
    BY <1>1, <1>2 DEF ReservationsOf
  <2>3. \A n \in DOMAIN orders[o].lines :
          ReleasedRow(ReservationOf(o, n, w, StatusOf(o)), o)
            = ReservationOf(o, n, w, "released")
    BY DEF ReleasedRow, ReservationOf, StatusOf
  <2>4. { ReleasedRow(row, o) : row \in ReservationsOf(o) }
          = { ReservationOf(o, n, w, "released") : n \in DOMAIN orders[o].lines }
    BY <2>1, <2>3
  <2>5. { ReservationOf(o, n, w, "released") : n \in DOMAIN orders[o].lines }
          = { [order |-> o, line |-> n, variant |-> orders'[o].lines[n].variant,
               warehouse |-> w, quantity |-> orders'[o].lines[n].quantity,
               status |-> IF orders'[o].status = "allocated" THEN "active" ELSE "released"]
              : n \in DOMAIN orders'[o].lines }
    BY <1>1 DEF ReservationOf
  <2>6. /\ Quoted(orders[o].quote) /\ quotes[orders[o].quote].order = o
        /\ quotes[orders[o].quote].lines = orders[o].lines
    BY <1>1, OrderAgrees
  <2>7. /\ quotes'[orders'[o].quote] # NoQuote /\ quotes'[orders'[o].quote].order = o
        /\ quotes'[orders'[o].quote].lines = orders'[o].lines
    BY <1>1, <2>6 DEF Quoted
  <2>8. \E place \in Warehouses :
          ReservationsOf(o)' =
            { [order |-> o, line |-> n, variant |-> orders'[o].lines[n].variant,
               warehouse |-> place, quantity |-> orders'[o].lines[n].quantity,
               status |-> IF orders'[o].status = "allocated" THEN "active" ELSE "released"]
              : n \in DOMAIN orders'[o].lines }
    BY <2>2, <2>4, <2>5
  <2> QED
    BY <2>7, <2>8 DEF OrderOK, Quoted
<1>4. ASSUME NEW other \in Calls \ {o}, Ordered(other)' PROVE OrderOK(other)'
  <2>1. Ordered(other) /\ orders'[other] = orders[other]
    BY <1>1, <1>4 DEF Ordered
  <2>2. ReservationsOf(other)' = ReservationsOf(other)
    BY <1>1, <1>2 DEF ReservationsOf
  <2>3. Quoted(orders[other].quote) /\ quotes[orders[other].quote].order = other
    BY <2>1, OrderAgrees
  <2> QED
    BY <1>1, <2>1, <2>2, <2>3, OrderStillAgrees DEF Quoted
<1>5. ASSUME NEW q \in Quotes, Quoted(q)' PROVE QuoteOK(q)'
  <2>1. Quoted(q) /\ quotes'[q] = quotes[q]
    BY <1>1, <1>5 DEF Quoted
  <2>2. /\ quotes[q].order # None <=> quotes[q].status = "converted"
        /\ quotes[q].order # None => /\ quotes[q].order \in Calls
                                     /\ Ordered(quotes[q].order)
                                     /\ orders[quotes[q].order].quote = q
    BY <2>1, QuoteAgrees
  <2>3. \A d \in Calls : Ordered(d) => orders'[d] # NoOrder /\ orders'[d].quote = orders[d].quote
    BY <1>1 DEF Ordered
  <2> QED
    BY <2>1, <2>2, <2>3 DEF QuoteOK, Ordered
<1>6. \A row \in reservations' : Ordered(row.order)'
  <2>1. ASSUME NEW row \in reservations PROVE orders'[row.order] # NoOrder
    <3>1. Ordered(row.order) /\ row.order \in Calls
      BY Typed DEF BooksAgree, TypeOK, ReservationRow
    <3> QED
      BY <1>1, <3>1 DEF Ordered
  <2> QED
    BY <1>1, <1>2, <2>1 DEF Ordered
<1> QED
  BY <1>3, <1>4, <1>5, <1>6 DEF BooksAgree

LEMMA QuietBooks ==
  ASSUME BooksAgree, UNCHANGED <<quotes, orders, reservations>>
  PROVE  BooksAgree'
<1>1. \A o : ReservationsOf(o)' = ReservationsOf(o)
  BY DEF ReservationsOf
<1> QED
  BY <1>1 DEF BooksAgree, OrderOK, QuoteOK, Quoted, Ordered

LEMMA StepWrites ==
  ASSUME [Next]_vars
  PROVE  \/ UNCHANGED <<quotes, orders, reservations>>
         \/ \E c \in Calls : \/ CommitCreate(c) \/ CommitTransition(c)
                             \/ CommitConvert(c) \/ CommitCancel(c)
<1>1. ASSUME NEW c \in Calls,
             Arrive(c) \/ LoadQuote(c) \/ LoadOrder(c) \/ ReadReplay(c) \/ Abort(c)
      PROVE  UNCHANGED <<quotes, orders, reservations>>
  <2>1. UNCHANGED tables
    BY <1>1 DEF Arrive, LoadQuote, LoadOrder, ReadReplay, Abort, ReadOnly
  <2> QED
    BY <2>1 DEF tables
<1>2. ASSUME NEW v \in Variants, NEW w \in Warehouses, MoveStock(v, w)
      PROVE  UNCHANGED <<quotes, orders, reservations>>
  BY <1>2 DEF MoveStock
<1>3. ASSUME NEW q \in Quotes, Deadline(q) PROVE UNCHANGED <<quotes, orders, reservations>>
  BY <1>3 DEF Deadline, tables
<1>4. ASSUME NEW row \in idempotency, ExpireKey(row)
      PROVE  UNCHANGED <<quotes, orders, reservations>>
  BY <1>4 DEF ExpireKey
<1>5. CASE UNCHANGED vars
  BY <1>5 DEF vars
<1> QED
  BY <1>1, <1>2, <1>3, <1>4, <1>5, NextCases DEF Step

\* A quotation becomes one order at most, and quotation, order and
\* reservations tell the same story: the unique key of source_quote_id decides
\* between racing conversions, and one batch writes all three.
THEOREM BooksAlwaysAgree == Spec => []BooksAgree
<1>1. Init => BooksAgree
  <2>1. SUFFICES ASSUME Init PROVE BooksAgree
    OBVIOUS
  <2>2. SalesInv /\ reservations = {} /\ \A o \in Calls : ~Ordered(o)
    BY <2>1, InitSales DEF Init, Ordered
  <2>3. PICK begun \in Beginnings :
          quotes = [q \in Quotes |->
            IF q \in Calls THEN NoQuote
            ELSE [NewQuote(begun[q].lines) EXCEPT
                    !.status = begun[q].status,
                    !.version = CASE begun[q].status = "draft" -> 1
                                  [] begun[q].status = "sent" -> 2
                                  [] begun[q].status = "accepted" -> 3]]
    BY <2>1 DEF Init
  <2>4. ASSUME NEW q \in Quotes, Quoted(q)
        PROVE  quotes[q].order = None /\ quotes[q].status # "converted"
    <3> DEFINE status == begun[q].status
               version == CASE status = "draft" -> 1 [] status = "sent" -> 2
                            [] status = "accepted" -> 3
    <3>1. q \notin Calls
      BY <2>3, <2>4 DEF Quoted
    <3>2. begun[q] \in [status : {"draft", "sent", "accepted"}, lines : LineLists]
      BY <3>1, SalesAssumption DEF Quotes
    <3>3. status \in {"draft", "sent", "accepted"}
      BY <3>2
    <3>4. quotes[q] = [NewQuote(begun[q].lines) EXCEPT !.status = status, !.version = version]
      BY <2>3, <3>1
    <3> HIDE DEF status, version
    <3> QED
      BY <3>3, <3>4 DEF NewQuote
  <2> QED
    BY <2>2, <2>4 DEF BooksAgree, QuoteOK
<1>2. SalesInv /\ BooksAgree /\ [Next]_vars => BooksAgree'
  BY StepWrites, QuietBooks, CreateBooks, TransitionBooks, ConvertBooks, CancelBooks
<1> QED
  BY <1>1, <1>2, SalesAlways, PTL DEF Spec

----------------------------------------------------------------------------
(* Answers.                                                                *)

\* What a call wrote, it has answered.
Effect(c) == Quoted(c) \/ Ordered(c) \/ \E e \in events : e.by = c

EffectOK(c) == Effect(c) => pc[c] = "done" /\ answer[c].kind = "ok"

\* An idempotency row stands for what its call did.
RowOK(row) ==
  /\ pc[row.by] = "done"
  /\ \E cmd \in Command :
       /\ cmd = command[row.by] /\ WellFormed(cmd) /\ Done(cmd, row.by)
  /\ row.claim = Claim(row.by) /\ row.hash = Hash(row.by)

TruthOK(c) ==
  answer[c].kind \in {"ok", "replayed"} =>
    /\ pc[c] = "done"
    /\ \E cmd \in Command, by \in Calls :
         /\ cmd = command[c] /\ by = answer[c].by /\ WellFormed(cmd)
         /\ Done(cmd, by) /\ pc[by] = "done"
         /\ Claim(c) = Claim(by) /\ Hash(c) = Hash(by)

AnswersInv ==
  /\ \A c \in Calls : EffectOK(c) /\ TruthOK(c)
  /\ \A row \in idempotency : RowOK(row)

LEMMA AnswersFollow ==
  ASSUME AnswersInv
  PROVE  AnswersAreTrue
BY DEF AnswersInv, EffectOK, Effect, TruthOK, AnswersAreTrue, Refusals

LEMMA DoneStays ==
  ASSUME SalesInv, NEW c \in Calls, Moves(c), NEW cmd \in Command, WellFormed(cmd),
         NEW by \in Calls, Done(cmd, by)
  PROVE  Done(cmd, by)'
<1>1. by \in Quotes /\ cmd.op \in Ops
  BY DEF Quotes, Command
<1>2. CASE cmd.op = "create"
  BY <1>1, <1>2, StillThere DEF Done, Quoted
<1>3. CASE cmd.op \in {"send", "accept"}
  <2>1. cmd.quote \in Quotes /\ Quoted(cmd.quote)
    BY <1>3 DEF WellFormed, Done
  <2>2. /\ quotes'[cmd.quote] # NoQuote /\ quotes'[cmd.quote].status \in QuoteStatuses
        /\ Rank(quotes[cmd.quote].status) <= Rank(quotes'[cmd.quote].status)
    BY <2>1, StillThere
  <2>3. Rank(quotes[cmd.quote].status) \in 1 .. 4 /\ Rank(quotes'[cmd.quote].status) \in 1 .. 4
    BY <2>1, <2>2, QuoteTyped, Ranks
  <2>4. CASE cmd.op = "send"
    <3>1. Rank(quotes[cmd.quote].status) >= 2
      BY <2>4 DEF Done
    <3>2. Rank(quotes'[cmd.quote].status) >= 2
      BY <2>2, <2>3, <3>1
    <3> QED
      BY <2>2, <2>4, <3>2 DEF Done, Quoted
  <2>5. CASE cmd.op = "accept"
    <3>1. Rank(quotes[cmd.quote].status) >= 3
      BY <2>5 DEF Done
    <3>2. Rank(quotes'[cmd.quote].status) >= 3
      BY <2>2, <2>3, <3>1
    <3> QED
      BY <2>2, <2>5, <3>2 DEF Done, Quoted
  <2> QED
    BY <1>3, <2>4, <2>5
<1>4. CASE cmd.op = "convert"
  BY <1>4, StillThere DEF Done, Ordered
<1>5. CASE cmd.op = "cancel"
  BY <1>5, StillThere DEF Done, Ordered, WellFormed
<1> QED
  BY <1>1, <1>2, <1>3, <1>4, <1>5 DEF Ops

\* What the other handlers and the rows say stays true.
LEMMA OthersStayTrue ==
  ASSUME SalesInv, AnswersInv, NEW c \in Calls, Moves(c), pc[c] # "done",
         \A d \in Calls \ {c} : /\ pc'[d] = pc[d] /\ command'[d] = command[d]
                                /\ answer'[d] = answer[d]
  PROVE  /\ \A d \in Calls \ {c} : TruthOK(d)'
         /\ \A row \in idempotency : RowOK(row)'
<1>1. ASSUME NEW d \in Calls \ {c} PROVE TruthOK(d)'
  <2>1. SUFFICES ASSUME answer[d].kind \in {"ok", "replayed"}
                 PROVE  TruthOK(d)'
    BY DEF TruthOK
  <2>2. pc[d] = "done"
    BY <2>1 DEF AnswersInv, TruthOK
  <2>3. PICK cmd \in Command, by \in Calls :
          /\ cmd = command[d] /\ by = answer[d].by /\ WellFormed(cmd)
          /\ Done(cmd, by) /\ pc[by] = "done"
          /\ Claim(d) = Claim(by) /\ Hash(d) = Hash(by)
    BY <2>1 DEF AnswersInv, TruthOK
  <2>4. by \in Calls \ {c}
    BY <2>3
  <2>5. Done(cmd, by)'
    BY <2>3, DoneStays
  <2>6. Claim(d)' = Claim(d) /\ Claim(by)' = Claim(by) /\ Hash(d)' = Hash(d) /\ Hash(by)' = Hash(by)
    BY <2>4 DEF Claim, Hash
  <2> QED
    BY <2>2, <2>3, <2>4, <2>5, <2>6 DEF TruthOK
<1>2. ASSUME NEW row \in idempotency PROVE RowOK(row)'
  <2>1. RowOK(row) /\ row.by \in Calls
    BY Typed DEF AnswersInv, TypeOK, IsRow
  <2>2. row.by \in Calls \ {c}
    BY <2>1 DEF RowOK
  <2>3. PICK cmd \in Command : cmd = command[row.by] /\ WellFormed(cmd) /\ Done(cmd, row.by)
    BY <2>1 DEF RowOK
  <2>4. Done(cmd, row.by)'
    BY <2>2, <2>3, DoneStays
  <2>5. Claim(row.by)' = Claim(row.by) /\ Hash(row.by)' = Hash(row.by)
    BY <2>2 DEF Claim, Hash
  <2> QED
    BY <2>1, <2>2, <2>3, <2>4, <2>5 DEF RowOK
<1> QED
  BY <1>1, <1>2

OthersSilent(c) ==
  \A d \in Calls \ {c} : /\ pc'[d] = pc[d] /\ command'[d] = command[d]
                         /\ answer'[d] = answer[d]

LEMMA NobodyWrites ==
  ASSUME SalesInv, AnswersInv, NEW c \in Calls, UNCHANGED tables, pc[c] # "done",
         OthersSilent(c)
  PROVE  /\ \A d \in Calls : EffectOK(d)'
         /\ \A d \in Calls \ {c} : TruthOK(d)'
         /\ \A row \in idempotency' : RowOK(row)'
<1>1. UNCHANGED <<quotes, orders, idempotency, events>> /\ Moves(c)
  BY NothingMoves DEF tables
<1>2. \A d \in Calls : Effect(d)' => Effect(d)
  BY <1>1 DEF Effect, Quoted, Ordered
<1>3. ~Effect(c)
  BY DEF AnswersInv, EffectOK
<1>4. \A d \in Calls : EffectOK(d)'
  BY <1>2, <1>3 DEF AnswersInv, EffectOK, OthersSilent
<1> QED
  BY <1>1, <1>4, OthersStayTrue DEF OthersSilent

LEMMA NothingClaimed ==
  ASSUME SalesInv, AnswersInv, NEW c \in Calls, UNCHANGED tables, pc[c] # "done",
         OthersSilent(c), answer'[c].kind \notin {"ok", "replayed"}
  PROVE  AnswersInv'
<1>1. TruthOK(c)'
  BY DEF TruthOK
<1> QED
  BY <1>1, NobodyWrites DEF AnswersInv

\* The same payload asks for the same documents.
LEMMA SameQuestion ==
  ASSUME NEW cmd \in Command, NEW other \in Command,
         [cmd EXCEPT !.key = None] = [other EXCEPT !.key = None]
  PROVE  /\ cmd.op = other.op /\ cmd.quote = other.quote /\ cmd.order = other.order
         /\ cmd.warehouse = other.warehouse /\ cmd.lines = other.lines
BY DEF Command

LEMMA ReplayTrue ==
  ASSUME SalesInv, AnswersInv, NEW c \in Calls, UNCHANGED tables, UNCHANGED command,
         pc[c] = "replay", OthersSilent(c),
         NEW row \in LiveClaimed(c), row.hash = Hash(c), Respond(c, "replayed", row.by)
  PROVE  AnswersInv'
<1>1. /\ row \in idempotency /\ row.claim = Claim(c) /\ row.by \in Calls /\ RowOK(row)
  BY Typed DEF LiveClaimed, Claimed, AnswersInv, TypeOK, IsRow
<1>2. /\ pc'[c] = "done" /\ answer'[c].kind = "replayed" /\ answer'[c].by = row.by
  BY Typed DEF Respond
<1>3. PICK other \in Command :
        other = command[row.by] /\ WellFormed(other) /\ Done(other, row.by)
  BY <1>1 DEF RowOK
<1>4. PICK cmd \in Command : cmd = command[c] /\ WellFormed(cmd)
  BY Typed DEF RouteOK
<1>5. /\ Claim(row.by) = Claim(c) /\ Hash(row.by) = Hash(c) /\ pc[row.by] = "done"
  BY <1>1 DEF RowOK
<1>6. cmd.op = other.op /\ cmd.quote = other.quote /\ cmd.order = other.order
  BY <1>3, <1>4, <1>5, SameQuestion DEF Hash
<1>7. Done(cmd, row.by) = Done(other, row.by)
  BY <1>6 DEF Done
<1>8. Moves(c)
  BY NothingMoves DEF tables
<1>9. Done(cmd, row.by)'
  BY <1>1, <1>3, <1>4, <1>7, <1>8, DoneStays
<1>10. /\ Claim(c)' = Claim(c) /\ Hash(c)' = Hash(c) /\ Claim(row.by)' = Claim(row.by)
       /\ Hash(row.by)' = Hash(row.by) /\ pc'[row.by] = "done" /\ command'[c] = command[c]
  BY <1>1, <1>2, <1>5 DEF Claim, Hash, OthersSilent
<1>11. TruthOK(c)'
  BY <1>1, <1>2, <1>4, <1>5, <1>9, <1>10 DEF TruthOK
<1> QED
  BY <1>11, NobodyWrites DEF AnswersInv

LEMMA CommitTrue ==
  ASSUME SalesInv, AnswersInv, NEW c \in Calls, Committed(c), Moves(c),
         NEW cmd \in Command, cmd = command[c], Done(cmd, c)',
         \A e \in events' : e \in events \/ e.by = c
  PROVE  AnswersInv'
<1>1. /\ pc[c] = "batch" /\ WellFormed(cmd) /\ UNCHANGED command
      /\ idempotency' = idempotency \cup {Row(c)}
      /\ pc'[c] = "done" /\ answer'[c].kind = "ok" /\ answer'[c].by = c
      /\ \A d \in Calls \ {c} : pc'[d] = pc[d] /\ answer'[d] = answer[d]
  BY CommittingHandler
<1>2. OthersSilent(c)
  BY <1>1 DEF OthersSilent
<1>3. \A d \in Calls \ {c} : Effect(d)' => Effect(d)
  BY StillThere DEF Effect, Quoted, Ordered
<1>4. \A d \in Calls : EffectOK(d)'
  BY <1>1, <1>3 DEF AnswersInv, EffectOK
<1>5. /\ \A d \in Calls \ {c} : TruthOK(d)'
      /\ \A row \in idempotency : RowOK(row)'
  BY <1>1, <1>2, OthersStayTrue DEF OthersSilent
<1>6. Claim(c)' = Claim(c) /\ Hash(c)' = Hash(c)
  BY <1>1 DEF Claim, Hash
<1>7. TruthOK(c)'
  BY <1>1 DEF TruthOK
<1>8. \A row \in {Row(c)} : RowOK(row)'
  <2>1. Row(c).by = c /\ Row(c).claim = Claim(c) /\ Row(c).hash = Hash(c)
    BY DEF Row
  <2> QED
    BY <1>1, <1>6, <2>1 DEF RowOK
<1> QED
  BY <1>1, <1>4, <1>5, <1>7, <1>8 DEF AnswersInv

LEMMA CommitsTrue ==
  ASSUME SalesInv, AnswersInv, NEW c \in Calls,
         CommitCreate(c) \/ CommitTransition(c) \/ CommitConvert(c) \/ CommitCancel(c)
  PROVE  AnswersInv'
<1>1. Committed(c) /\ Moves(c)
  BY CommitsKeep DEF CommitCreate, CommitTransition, CommitConvert, CommitCancel
<1>2. PICK cmd \in Command : cmd = command[c] /\ WellFormed(cmd)
  BY <1>1, CommittingHandler
<1>3. \A e \in events' : e \in events \/ e.by = c
  <2>1. \A type, document, version : Event(type, document, version, c).by = c
    BY DEF Event
  <2>2. CASE CommitCreate(c)
    BY <2>1, <2>2 DEF CommitCreate
  <2>3. CASE CommitTransition(c)
    BY <2>1, <2>3 DEF CommitTransition
  <2>4. CASE CommitConvert(c)
    BY <2>1, <2>4 DEF CommitConvert
  <2>5. CASE CommitCancel(c)
    BY <2>1, <2>5 DEF CommitCancel
  <2> QED
    BY <2>2, <2>3, <2>4, <2>5
<1>4. Done(cmd, c)'
  <2>1. CASE CommitCreate(c)
    <3>1. cmd.op = "create" /\ quotes'[c] # NoQuote
      BY <1>2, <2>1, CreateMoves DEF CommitCreate, Quoted
    <3> QED
      BY <3>1 DEF Done, Quoted
  <2>2. CASE CommitTransition(c)
    <3>1. cmd.op \in {"send", "accept"} /\ quotes'[cmd.quote] # NoQuote
      BY <1>2, <2>2, TransitionMoves DEF CommitTransition
    <3>2. /\ cmd.op = "send" => Rank("sent") <= Rank(quotes'[cmd.quote].status)
          /\ cmd.op = "accept" => Rank("accepted") <= Rank(quotes'[cmd.quote].status)
      BY <1>2, <2>2, <3>1, TransitionMoves
    <3>3. Rank("sent") = 2 /\ Rank("accepted") = 3
      BY DEF Rank
    <3>4. Rank(quotes'[cmd.quote].status) \in 1 .. 4
      BY <1>2, <2>2, TransitionMoves, Ranks
    <3>5. /\ cmd.op = "send" => Rank(quotes'[cmd.quote].status) >= 2
          /\ cmd.op = "accept" => Rank(quotes'[cmd.quote].status) >= 3
      BY <3>2, <3>3, <3>4
    <3>6. CASE cmd.op = "send"
      BY <3>1, <3>5, <3>6 DEF Done, Quoted
    <3>7. CASE cmd.op = "accept"
      BY <3>1, <3>5, <3>7 DEF Done, Quoted
    <3> QED
      BY <3>1, <3>6, <3>7
  <2>3. CASE CommitConvert(c)
    <3>1. cmd.op = "convert" /\ orders'[c] # NoOrder /\ orders'[c].quote = cmd.quote
      BY <1>2, <2>3, ConvertMoves DEF CommitConvert, NewOrder
    <3> QED
      BY <3>1 DEF Done, Ordered
  <2>4. CASE CommitCancel(c)
    <3>1. /\ cmd.op = "cancel" /\ orders'[cmd.order] # NoOrder
          /\ orders'[cmd.order].status = "cancelled"
      BY <1>2, <2>4, CancelMoves DEF CommitCancel
    <3> QED
      BY <3>1 DEF Done, Ordered
  <2> QED
    BY <2>1, <2>2, <2>3, <2>4
<1> QED
  BY <1>1, <1>2, <1>3, <1>4, CommitTrue

LEMMA ReadsTrue ==
  ASSUME SalesInv, AnswersInv, NEW c \in Calls,
         Arrive(c) \/ LoadQuote(c) \/ LoadOrder(c) \/ ReadReplay(c) \/ Abort(c)
  PROVE  AnswersInv'
<1>1. UNCHANGED tables /\ pc[c] # "done" /\ \A d \in Calls \ {c} : command'[d] = command[d]
  BY Typed DEF Arrive, LoadQuote, LoadOrder, ReadReplay, Abort, ReadOnly
<1>2. \/ UNCHANGED answer /\ \E step : pc' = [pc EXCEPT ![c] = step]
      \/ \E kind \in Refusals : Refuse(c, kind)
      \/ /\ ReadReplay(c)
         /\ \E row \in LiveClaimed(c) : row.hash = Hash(c) /\ Respond(c, "replayed", row.by)
  <2>1. CASE Arrive(c)
    BY <2>1 DEF Arrive, Goto
  <2>2. CASE LoadQuote(c)
    BY <2>2 DEF LoadQuote, Goto, Refusals
  <2>3. CASE LoadOrder(c)
    BY <2>3 DEF LoadOrder, Goto, Refusals
  <2>4. CASE ReadReplay(c)
    <3>1. CASE \E row \in LiveClaimed(c) :
                 IF row.hash = Hash(c) THEN Respond(c, "replayed", row.by)
                                       ELSE Refuse(c, "key-conflict")
      BY <2>4, <3>1 DEF Refusals
    <3>2. CASE AfterReplay(c)
      <4>1. command[c].op \in Ops
        BY <2>4, Typed DEF ReadReplay, RouteOK, Command
      <4> QED
        BY <3>2, <4>1 DEF AfterReplay, Goto, Refusals, Ops
    <3> QED
      BY <2>4, <3>1, <3>2 DEF ReadReplay
  <2>5. CASE Abort(c)
    BY <2>5 DEF Abort, Refusals
  <2> QED
    BY <1>1, <2>1, <2>2, <2>3, <2>4, <2>5
<1>3. CASE UNCHANGED answer /\ \E step : pc' = [pc EXCEPT ![c] = step]
  <2>1. OthersSilent(c)
    BY <1>1, <1>3, Typed DEF OthersSilent
  <2>2. answer'[c].kind \notin {"ok", "replayed"}
    BY <1>1, <1>3 DEF AnswersInv, TruthOK
  <2> QED
    BY <1>1, <2>1, <2>2, NothingClaimed
<1>4. CASE \E kind \in Refusals : Refuse(c, kind)
  <2>1. OthersSilent(c) /\ answer'[c].kind \in Refusals
    BY <1>1, <1>4, Typed DEF OthersSilent, Refuse, Respond
  <2>2. answer'[c].kind \notin {"ok", "replayed"}
    BY <2>1 DEF Refusals
  <2> QED
    BY <1>1, <2>1, <2>2, NothingClaimed
<1>5. ASSUME ReadReplay(c), NEW row \in LiveClaimed(c), row.hash = Hash(c),
             Respond(c, "replayed", row.by)
      PROVE  AnswersInv'
  <2>1. pc[c] = "replay" /\ UNCHANGED command
    BY <1>5 DEF ReadReplay, ReadOnly
  <2>2. OthersSilent(c)
    BY <1>1, <1>5, Typed DEF OthersSilent, Respond
  <2> QED
    BY <1>1, <1>5, <2>1, <2>2, ReplayTrue
<1> QED
  BY <1>2, <1>3, <1>4, <1>5

LEMMA AroundTrue ==
  ASSUME SalesInv, AnswersInv, Around,
         \A row \in idempotency' : \E old \in idempotency :
           row.by = old.by /\ row.claim = old.claim /\ row.hash = old.hash
  PROVE  AnswersInv'
<1>1. UNCHANGED <<quotes, orders, events, pc, command, answer>>
  BY DEF Around, handlers
<1>2. \A cmd, by : Done(cmd, by)' = Done(cmd, by)
  BY <1>1 DEF Done, Quoted, Ordered, Rank
<1>3. \A c : Claim(c)' = Claim(c) /\ Hash(c)' = Hash(c)
  BY <1>1 DEF Claim, Hash
<1>4. \A c \in Calls : EffectOK(c)'
  BY <1>1 DEF AnswersInv, EffectOK, Effect, Quoted, Ordered
<1>5. \A c \in Calls : TruthOK(c)'
  BY <1>1, <1>2, <1>3 DEF AnswersInv, TruthOK
<1>6. \A row \in idempotency' : RowOK(row)'
  BY <1>1, <1>2, <1>3 DEF AnswersInv, RowOK
<1> QED
  BY <1>4, <1>5, <1>6 DEF AnswersInv

LEMMA TimeTrue ==
  ASSUME SalesInv, AnswersInv,
         \/ \E v \in Variants, w \in Warehouses : MoveStock(v, w)
         \/ \E q \in Quotes : Deadline(q)
         \/ \E row \in idempotency : ExpireKey(row)
         \/ UNCHANGED vars
  PROVE  AnswersInv'
<1>1. Around
  BY TimeKeeps
<1>2. ASSUME NEW row \in idempotency, ExpireKey(row) PROVE AnswersInv'
  <2>1. \A new \in idempotency' : new \in idempotency \/ new = Aged(row)
    BY <1>2 DEF ExpireKey
  <2>2. Aged(row).by = row.by /\ Aged(row).claim = row.claim /\ Aged(row).hash = row.hash
    BY DEF Aged
  <2> QED
    BY <1>1, <2>1, <2>2, AroundTrue
<1>3. CASE UNCHANGED idempotency
  BY <1>1, <1>3, AroundTrue
<1>4. \/ UNCHANGED idempotency
      \/ \E row \in idempotency : ExpireKey(row)
  BY DEF MoveStock, Deadline, tables, vars
<1> QED
  BY <1>2, <1>3, <1>4

\* A success, replayed or not, had its effect by the call it names, with the
\* same key and payload, and a refusal left nothing behind: the batch inserts
\* the idempotency row with the effect, and rows are never rewritten.
THEOREM AnswersTrue == Spec => []AnswersAreTrue
<1>1. Init => AnswersInv
  <2>1. SUFFICES ASSUME Init PROVE AnswersInv
    OBVIOUS
  <2>2. \A c \in Calls : ~Quoted(c) /\ ~Ordered(c)
    BY <2>1 DEF Init, Quoted, Ordered, Quotes
  <2>3. None \notin Calls
    BY SalesAssumption DEF Quotes
  <2>4. \A e \in events : e.by = None
    <3>1. events = UNION { { Event("quote", q, v, None) : v \in 1 .. quotes[q].version }
                           : q \in Earlier }
      BY <2>1 DEF Init
    <3> QED
      BY <3>1 DEF Event
  <2>5. \A c \in Calls : answer[c].kind = None
    BY <2>1 DEF Init, Unanswered
  <2>6. idempotency = {}
    BY <2>1 DEF Init
  <2> QED
    BY <2>2, <2>3, <2>4, <2>5, <2>6 DEF AnswersInv, EffectOK, Effect, TruthOK, None
<1>2. SalesInv /\ AnswersInv /\ [Next]_vars => AnswersInv'
  BY NextCases, ReadsTrue, CommitsTrue, TimeTrue DEF Step
<1>3. AnswersInv => AnswersAreTrue
  BY AnswersFollow
<1> QED
  BY <1>1, <1>2, <1>3, SalesAlways, PTL DEF Spec
----------------------------------------------------------------------------
(* Reservations and stock.                                                 *)

\* The rows a sum counts and their quantities.
Quantities == [row \in ReservationRow |-> row.quantity]

LEMMA ReservedIsSum ==
  ASSUME NEW v, NEW w, NEW rows \in SUBSET ReservationRow, IsFiniteSet(rows)
  PROVE  /\ Reserved(v, w, rows) = SumFunctionOnSet(Quantities, ActiveRows(v, w, rows))
         /\ IsFiniteSet(ActiveRows(v, w, rows))
         /\ \A row \in ActiveRows(v, w, rows) : Quantities[row] \in Nat
         /\ Reserved(v, w, rows) \in Nat
<1> DEFINE active == ActiveRows(v, w, rows)
           f == [row \in active |-> row.quantity]
<1>1. active \in SUBSET rows /\ IsFiniteSet(active)
  BY FS_Subset DEF ActiveRows
<1>2. \A row \in active : Quantities[row] = row.quantity /\ row.quantity \in Nat
  <2>1. \A row \in ReservationRow : Quantities[row] = row.quantity /\ row.quantity \in Nat
    BY DEF Quantities, ReservationRow
  <2> QED
    BY <1>1, <2>1
<1>3. Reserved(v, w, rows) = SumFunctionOnSet(f, active)
  BY DEF Reserved, SumFunction
<1>4. \A row \in active : f[row] = Quantities[row]
  BY <1>2
<1>5. SumFunctionOnSet(f, active) = SumFunctionOnSet(Quantities, active)
  <2> HIDE DEF f, active
  <2> QED
    BY <1>1, <1>4, SumCongruent
<1>6. SumFunctionOnSet(Quantities, active) \in Nat
  BY <1>1, <1>2, SumNat
<1> QED
  BY <1>1, <1>2, <1>3, <1>5, <1>6

LEMMA FewerReserved ==
  ASSUME NEW v, NEW w, NEW rows \in SUBSET ReservationRow, IsFiniteSet(rows),
         NEW others \in SUBSET ReservationRow, IsFiniteSet(others),
         ActiveRows(v, w, others) \subseteq ActiveRows(v, w, rows)
  PROVE  Reserved(v, w, others) <= Reserved(v, w, rows)
BY ReservedIsSum, SumSubset

\* The row with the last line is the one its trigger saw all others before.
LEMMA LastLine ==
  ASSUME NEW n \in Nat, NEW rows, rows # {}, \A row \in rows : row.line \in 1 .. n
  PROVE  \E row \in rows : \A other \in rows : other.line <= row.line
<1> DEFINE rest == { n - row.line : row \in rows }
<1>1. rest \in SUBSET Nat /\ rest # {}
  OBVIOUS
<1>2. PICK least \in rest : \A m \in rest : least <= m
  <2> HIDE DEF rest
  <2> QED
    BY <1>1, LeastNatural
<1>3. PICK row \in rows : least = n - row.line
  OBVIOUS
<1>4. \A other \in rows : other.line <= row.line
  <2>1. SUFFICES ASSUME NEW other \in rows PROVE other.line <= row.line
    OBVIOUS
  <2>2. n - row.line <= n - other.line
    BY <1>2, <1>3
  <2>3. other.line \in Nat /\ row.line \in Nat
    OBVIOUS
  <2> QED
    BY <2>2, <2>3
<1> QED
  BY <1>4

\* The rows of a conversion.
LEMMA NewRows ==
  ASSUME SalesInv, BooksAgree, NEW c \in Calls, CommitConvert(c)
  PROVE  LET lines == seen[c].lines
             rows == NewReservations(c)
         IN  /\ rows \in SUBSET ReservationRow /\ IsFiniteSet(rows)
             /\ Len(lines) \in Nat
             /\ \A row \in rows : /\ row.line \in 1 .. Len(lines) /\ row.status = "active"
                                  /\ row \notin reservations
             /\ \A row, other \in rows : row.line = other.line => row = other
<1> DEFINE lines == seen[c].lines
           rows == NewReservations(c)
           Made(n) == [order |-> c, line |-> n, variant |-> lines[n].variant,
                       warehouse |-> command[c].warehouse, quantity |-> lines[n].quantity,
                       status |-> "active"]
           f == [n \in DOMAIN lines |-> Made(n)]
<1>1. Committed(c) /\ command[c].op = "convert"
  BY DEF CommitConvert
<1>2. HandlerOK(c) /\ WellFormed(command[c]) /\ pc[c] = "batch" /\ ~Ordered(c)
  BY <1>1, CommittingHandler
<1>3. command[c].quote \in Quotes /\ Quoted(command[c].quote)
      /\ lines = quotes[command[c].quote].lines /\ command[c].warehouse \in Warehouses
  BY <1>1, <1>2 DEF HandlerOK, ReadOK, WellFormed
<1>4. lines \in LineLists
  BY <1>3, QuoteTyped
<1>5. lines \in Seq(Line) /\ Len(lines) \in Nat /\ DOMAIN lines = 1 .. Len(lines)
  BY <1>4, SalesAssumption
<1>6. rows = { Made(n) : n \in DOMAIN lines }
  BY DEF NewReservations
<1>7. rows \in SUBSET ReservationRow
  BY <1>3, <1>4, LinesTyped DEF NewReservations, ReservationRow
<1>8. IsFiniteSet(rows)
  <2>1. f \in Surjection(DOMAIN lines, rows)
    BY <1>6 DEF Surjection
  <2>2. IsFiniteSet(DOMAIN lines)
    BY <1>5, FS_Interval
  <2> HIDE DEF f, rows
  <2> QED
    BY <2>1, <2>2, FS_Surjection
<1>9. \A row \in rows : /\ row.line \in 1 .. Len(lines) /\ row.status = "active"
                        /\ row.order = c /\ row = Made(row.line)
  BY <1>5, <1>6
<1>10. \A row \in rows : row \notin reservations
  BY <1>2, <1>9 DEF BooksAgree
<1> HIDE DEF Made
<1> QED
  BY <1>5, <1>7, <1>8, <1>9, <1>10

\* A conversion that its triggers let through leaves the rows covered.
LEMMA ConvertWithin ==
  ASSUME SalesInv, BooksAgree, IsFiniteSet(reservations), NEW c \in Calls, CommitConvert(c),
         NEW v \in Variants, NEW w \in Warehouses,
         Reserved(v, w, reservations') > Reserved(v, w, reservations)
  PROVE  Reserved(v, w, reservations') <= available[v, w]
<1> DEFINE rows == NewReservations(c)
           n == Len(seen[c].lines)
           asked == ActiveRows(v, w, rows)
<1>1. /\ rows \in SUBSET ReservationRow /\ IsFiniteSet(rows) /\ n \in Nat
      /\ \A row \in rows : row.line \in 1 .. n /\ row.status = "active" /\ row \notin reservations
      /\ \A row, other \in rows : row.line = other.line => row = other
  BY NewRows
<1>2. /\ reservations \in SUBSET ReservationRow
      /\ reservations' = reservations \cup rows
      /\ ~Overcommits(c) /\ available[v, w] \in Nat
  BY Typed DEF TypeOK, CommitConvert, Committed, Stopped
<1> HIDE DEF rows, n
<1>3. reservations' \in SUBSET ReservationRow /\ IsFiniteSet(reservations')
  BY <1>1, <1>2, FS_Union
<1>4. asked # {}
  <2>1. CASE asked = {}
    <3>1. ActiveRows(v, w, reservations') = ActiveRows(v, w, reservations)
      BY <1>2, <2>1 DEF ActiveRows
    <3>2. Reserved(v, w, reservations') <= Reserved(v, w, reservations)
      BY <1>2, <1>3, <3>1, FewerReserved
    <3>3. Reserved(v, w, reservations') \in Nat /\ Reserved(v, w, reservations) \in Nat
      BY <1>2, <1>3, ReservedIsSum
    <3> QED
      BY <3>2, <3>3
  <2> QED
    BY <2>1
<1>5. asked \subseteq rows
  BY DEF ActiveRows
<1>6. PICK row \in asked : \A other \in asked : other.line <= row.line
  BY <1>1, <1>4, <1>5, LastLine
<1> DEFINE before == { other \in rows : other.line < row.line }
           stood == reservations \cup before
<1>7. /\ row \in rows /\ row.variant = v /\ row.warehouse = w /\ row.status = "active"
      /\ row.quantity \in Nat /\ row \in ReservationRow
  BY <1>1, <1>5 DEF ActiveRows, ReservationRow
<1>8. ~(row.quantity > available[v, w] - Reserved(v, w, stood))
  BY <1>2, <1>7 DEF Overcommits, rows
<1>9. stood \in SUBSET ReservationRow /\ IsFiniteSet(stood)
  BY <1>1, <1>2, FS_Subset, FS_Union
<1>10. row \notin stood
  <2>1. row.line \in Nat
    BY <1>1, <1>7
  <2> QED
    BY <1>1, <1>7, <2>1
<1>11. ActiveRows(v, w, reservations') = ActiveRows(v, w, stood) \cup {row}
  <2>1. ActiveRows(v, w, reservations') = ActiveRows(v, w, reservations) \cup asked
    BY <1>2 DEF ActiveRows
  <2>2. ActiveRows(v, w, stood) = ActiveRows(v, w, reservations) \cup ActiveRows(v, w, before)
    BY DEF ActiveRows
  <2>3. asked = ActiveRows(v, w, before) \cup {row}
    <3>1. \A other \in asked : other # row => other \in before
      <4>1. SUFFICES ASSUME NEW other \in asked, other # row PROVE other.line < row.line
        BY <1>5
      <4>2. other.line <= row.line /\ other.line # row.line
        BY <1>1, <1>5, <1>6, <4>1
      <4>3. other.line \in Nat /\ row.line \in Nat
        BY <1>1, <1>5
      <4> QED
        BY <4>2, <4>3
    <3> QED
      BY <3>1, <1>6 DEF ActiveRows
  <2> QED
    BY <2>1, <2>2, <2>3
<1> HIDE DEF stood
<1> DEFINE r == Reserved(v, w, reservations')
           s == Reserved(v, w, stood)
<1>12. s = SumFunctionOnSet(Quantities, ActiveRows(v, w, stood))
       /\ IsFiniteSet(ActiveRows(v, w, stood)) /\ s \in Nat
       /\ \A x \in ActiveRows(v, w, stood) : Quantities[x] \in Nat
  BY <1>9, ReservedIsSum
<1>13. r = SumFunctionOnSet(Quantities, ActiveRows(v, w, reservations')) /\ r \in Nat
       /\ \A x \in ActiveRows(v, w, reservations') : Quantities[x] \in Nat
  BY <1>3, ReservedIsSum
<1>14. row \notin ActiveRows(v, w, stood) /\ Quantities[row] = row.quantity
  BY <1>7, <1>10 DEF ActiveRows, Quantities
<1>15. r = s + row.quantity
  BY <1>11, <1>12, <1>13, <1>14, SumAdd
<1> DEFINE asks == row.quantity
           there == available[v, w]
<1>16. ~(asks > there - s) /\ asks \in Nat /\ there \in Nat /\ s \in Nat /\ r = s + asks
  BY <1>2, <1>7, <1>8, <1>12, <1>15
<1>17. r <= there
  <2> HIDE DEF r, s, asks, there
  <2> QED
    BY <1>16
<1> QED
  BY <1>17

\* A cancellation leaves no reservation of its order active, and no new one.
LEMMA CancelReserves ==
  ASSUME SalesInv, IsFiniteSet(reservations), NEW c \in Calls, CommitCancel(c)
  PROVE  /\ IsFiniteSet(reservations')
         /\ \A v \in Variants, w \in Warehouses :
              Reserved(v, w, reservations') <= Reserved(v, w, reservations)
<1> DEFINE o == command[c].order
           f == [row \in reservations |-> ReleasedRow(row, o)]
<1>1. /\ reservations' \in SUBSET ReservationRow
      /\ reservations' = { ReleasedRow(row, o) : row \in reservations }
  BY CancelMoves
<1>2. reservations \in SUBSET ReservationRow
  BY Typed DEF TypeOK
<1>3. IsFiniteSet(reservations')
  <2>1. f \in Surjection(reservations, reservations')
    BY <1>1 DEF Surjection
  <2> HIDE DEF f
  <2> QED
    BY <2>1, FS_Surjection
<1>4. ASSUME NEW v \in Variants, NEW w \in Warehouses
      PROVE  ActiveRows(v, w, reservations') \subseteq ActiveRows(v, w, reservations)
  <2>1. SUFFICES ASSUME NEW row \in reservations', row.status = "active"
                 PROVE  row \in reservations
    BY DEF ActiveRows
  <2>2. PICK old \in reservations : row = ReleasedRow(old, o)
    BY <1>1
  <2> QED
    BY <1>2, <2>1, <2>2, ReleasedTyped
<1>5. ASSUME NEW v \in Variants, NEW w \in Warehouses
      PROVE  Reserved(v, w, reservations') <= Reserved(v, w, reservations)
  BY <1>1, <1>2, <1>3, <1>4, FewerReserved
<1> QED
  BY <1>3, <1>5

\* There are finitely many reservations, and what a step adds to them is
\* covered by the stock.
LEMMA StepWithin ==
  ASSUME SalesInv, BooksAgree, IsFiniteSet(reservations), [Next]_vars
  PROVE  /\ IsFiniteSet(reservations')
         /\ \A v \in Variants, w \in Warehouses :
              Reserved(v, w, reservations') > Reserved(v, w, reservations) =>
                Reserved(v, w, reservations') <= available[v, w]
<1>1. reservations \in SUBSET ReservationRow
  BY Typed DEF TypeOK
<1>2. CASE UNCHANGED reservations
  <2>1. ASSUME NEW v \in Variants, NEW w \in Warehouses
        PROVE  ~(Reserved(v, w, reservations') > Reserved(v, w, reservations))
    BY <1>1, <1>2, ReservedIsSum
  <2> QED
    BY <1>2, <2>1
<1>3. ASSUME NEW c \in Calls, CommitConvert(c)
      PROVE  IsFiniteSet(reservations')
  <2>1. reservations' = reservations \cup NewReservations(c)
    BY <1>3 DEF CommitConvert
  <2> QED
    BY <1>3, <2>1, NewRows, FS_Union
<1>4. ASSUME NEW c \in Calls, CommitCancel(c), NEW v \in Variants, NEW w \in Warehouses
      PROVE  ~(Reserved(v, w, reservations') > Reserved(v, w, reservations))
  <2>1. reservations' \in SUBSET ReservationRow /\ IsFiniteSet(reservations')
    BY <1>4, CancelMoves, CancelReserves
  <2>2. Reserved(v, w, reservations') \in Nat /\ Reserved(v, w, reservations) \in Nat
    BY <1>1, <2>1, ReservedIsSum
  <2> QED
    BY <1>4, <2>2, CancelReserves
<1>5. ASSUME NEW c \in Calls, CommitCreate(c) \/ CommitTransition(c)
      PROVE  UNCHANGED reservations
  BY <1>5 DEF CommitCreate, CommitTransition
<1> QED
  BY <1>2, <1>3, <1>4, <1>5, ConvertWithin, CancelReserves, StepWrites

LEMMA FinitelyReserved == Spec => []IsFiniteSet(reservations)
<1>1. Init => IsFiniteSet(reservations)
  BY FS_EmptySet DEF Init
<1>2. SalesInv /\ BooksAgree /\ IsFiniteSet(reservations) /\ [Next]_vars
        => IsFiniteSet(reservations)'
  BY StepWithin
<1> QED
  BY <1>1, <1>2, SalesAlways, BooksAlwaysAgree, PTL DEF Spec

\* However many conversions race, and with several lines for a variant in one
\* of them, no step reserves more than is available: the triggers look at every
\* row before it is inserted, the last of a variant and warehouse at the others.
THEOREM NeverOvercommits == Spec => ReservationsWithinStock
<1>1. ASSUME SalesInv, BooksAgree, IsFiniteSet(reservations), [Next]_vars
      PROVE  \A v \in Variants, w \in Warehouses :
               Reserved(v, w, reservations') > Reserved(v, w, reservations) =>
                 Reserved(v, w, reservations') <= available[v, w]
  BY <1>1, StepWithin
<1> QED
  BY <1>1, SalesAlways, BooksAlwaysAgree, FinitelyReserved, PTL
     DEF Spec, ReservationsWithinStock
=============================================================================
