----------------------------- MODULE MasterData -----------------------------
(***************************************************************************)
(* The command handlers of apps/api/src/master-data.ts: products, warehouses *)
(* and business parties are created, and never changed or deleted.  A      *)
(* product names its unit, brand and category, and a warehouse its legal   *)
(* entity and site, by code; the handler looks each code up in a query of  *)
(* its own and inserts a row for it when there is none.  The SKUs of a      *)
(* product stand for its barcodes as well: both are looked up in the same  *)
(* query and are UNIQUE.                                                   *)
(***************************************************************************)
EXTENDS DomainCommands

VARIABLES
  parties,     \* business_parties
  names,       \* units_of_measure, product_brands, ..., sites
  products,    \* products with product_variants
  warehouses   \* warehouses with their default zone and bin

masterTables == <<parties, names, products, warehouses>>

MasterOps == {"party", "product", "warehouse"}

\* The order in which resolveNamedId is awaited.
Lookups(op) ==
  CASE op = "product"   -> <<"unit", "brand", "category">>
    [] op = "warehouse" -> <<"entity", "site">>

NameTables == {"unit", "brand", "category", "entity", "site"}

\* What a command calls its unit, brand, ...: toBusinessCode and
\* normalizedCode have been applied.
CodeFor(c, n) == command[c].names[Lookups(command[c].op)[n]]

NamedIds(t, code) == { i \in DOMAIN names[t] : names[t][i].code = code }

\* The duplicate query of each handler, and the UNIQUE keys behind it.
CodeTaken(c) ==
  CASE command[c].op = "party" ->
         \E p \in DOMAIN parties : parties[p].code = command[c].code
    [] command[c].op = "warehouse" ->
         \E w \in DOMAIN warehouses : warehouses[w].code = command[c].code
    [] command[c].op = "product" ->
         \E p \in DOMAIN products :
           \/ products[p].code = command[c].code
           \/ products[p].skus \cap command[c].skus # {}

MasterReplay(c) == ReadReplay(c, "code")

QueryCode(c) ==
  /\ Reads(c, "code")
  /\ IF CodeTaken(c) THEN Refuse(c, "already-exists")
     ELSE Goto(c, IF command[c].op = "party" THEN "batch" ELSE "resolve")

\* resolveNamedId for the next code, which falls back on an id of the call's
\* own.  existsById asks later for the id so found: it is there, and stays
\* there, unless it is the call's own.
Resolve(c) ==
  LET n == Len(seen[c].found) + 1
      ids == NamedIds(Lookups(command[c].op)[n], CodeFor(c, n))
  IN
  /\ pc[c] = "resolve"
  /\ \E id \in IF ids = {} THEN {c} ELSE ids :
       seen' = [seen EXCEPT ![c].found = Append(@, id)]
  /\ Goto(c, IF n = Len(Lookups(command[c].op)) THEN "batch" ELSE "resolve")
  /\ UNCHANGED <<idempotency, outbox, command>>

\* The lookups for which the batch inserts a row.
Missing(c) == { n \in DOMAIN seen[c].found : seen[c].found[n] = c }

\* Mutant: a name that somebody else inserted after the lookup is inserted again.
NameTaken_Ignored(c) == FALSE

\* UNIQUE (tenant_id, code) of the table of a name to be inserted.
NameTaken(c) ==
  \E n \in Missing(c) : NamedIds(Lookups(command[c].op)[n], CodeFor(c, n)) # {}

MasterStopped(c) == Claimed(c) \/ CodeTaken(c) \/ NameTaken(c)

\* A site is inserted under the legal entity of the call, and keeps its own
\* when it is there already.
Named(c, n) ==
  [code |-> CodeFor(c, n),
   parent |-> IF Lookups(command[c].op)[n] = "site" THEN seen[c].found[1] ELSE None]

NamesWith(c) ==
  [t \in NameTables |->
     LET new == { n \in Missing(c) : Lookups(command[c].op)[n] = t }
     IN  IF new = {} THEN names[t]
         ELSE Put(names[t], c, Named(c, CHOOSE n \in new : TRUE))]

Created(c) == Stored(c, 1, <<>>)

CommitParty(c) ==
  /\ command[c].op = "party" /\ ~MasterStopped(c)
  /\ Commit(c, "party", Created(c), <<>>)
  /\ parties' = Put(parties, c, [code |-> command[c].code, type |-> command[c].type])
  /\ UNCHANGED <<names, products, warehouses>>

CommitProduct(c) ==
  /\ command[c].op = "product" /\ ~MasterStopped(c)
  /\ Commit(c, "product", Created(c), <<>>)
  /\ names' = NamesWith(c)
  /\ products' = Put(products, c, [code |-> command[c].code, skus |-> command[c].skus,
                                   named |-> seen[c].found])
  /\ UNCHANGED <<parties, warehouses>>

CommitWarehouse(c) ==
  /\ command[c].op = "warehouse" /\ ~MasterStopped(c)
  /\ Commit(c, "warehouse", Created(c), <<>>)
  /\ names' = NamesWith(c)
  /\ warehouses' = Put(warehouses, c, [code |-> command[c].code, site |-> seen[c].found[2]])
  /\ UNCHANGED <<parties, products>>

MasterAbort(c) == MasterStopped(c) /\ AbortCaught(c)

MasterQuery(c) == MasterReplay(c) \/ QueryCode(c) \/ Resolve(c) \/ MasterAbort(c)

MasterStep(c) ==
  /\ command[c].op \in MasterOps
  /\ \/ MasterQuery(c) /\ UNCHANGED masterTables
     \/ CommitParty(c) \/ CommitProduct(c) \/ CommitWarehouse(c)
=============================================================================
