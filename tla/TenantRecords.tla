---------------------------- MODULE TenantRecords ----------------------------
(***************************************************************************)
(* Master data, customer records and inventory settings of one tenant: the *)
(* handlers of three files over one database, each of which may find what  *)
(* another has just written, and share the table of idempotency keys.      *)
(***************************************************************************)
EXTENDS CustomerRecords, InventorySettings

CONSTANT Beginnings   \* the tables when the behaviour starts

Optional(S) == S \cup {None}

\* What the parsers of the routes let through: requiredId, normalizedCode,
\* opportunityStage, basisPoints and the like.
Parsed(cmd) ==
  /\ cmd.op \in MasterOps \cup CrmOps \cup SettingsOps
  /\ cmd.op = "party" => cmd \in [op : {"party"}, key : Keys, code : STRING, type : STRING]
  /\ cmd.op = "product" =>
       cmd \in [op : {"product"}, key : Keys, code : STRING, skus : SUBSET STRING,
                names : [{"unit", "brand", "category"} -> STRING]]
  /\ cmd.op = "warehouse" =>
       cmd \in [op : {"warehouse"}, key : Keys, code : STRING,
                names : [{"entity", "site"} -> STRING]]
  /\ cmd.op = "account" =>
       cmd \in [op : {"account"}, key : Keys, code : STRING, party : Optional(Ids)]
  /\ cmd.op = "contact" =>
       cmd \in [op : {"contact"}, key : Keys, account : Ids, primary : BOOLEAN]
  /\ cmd.op = "opportunity" =>
       cmd \in [op : {"opportunity"}, key : Keys, account : Ids, stage : Stages,
                chance : Chances]
  /\ cmd.op = "stage" =>
       cmd \in [op : {"stage"}, key : Keys, opportunity : Ids, stage : Stages,
                chance : Chances]
  /\ cmd.op = "activity" =>
       cmd \in [op : {"activity"}, key : Keys, account : Ids, contact : Optional(Ids),
                opportunity : Optional(Ids)]
  /\ cmd.op = "task" =>
       cmd \in [op : {"task"}, key : Keys, account : Ids, opportunity : Optional(Ids)]
  /\ cmd.op = "complete" => cmd \in [op : {"complete"}, key : Keys, task : Ids]
  /\ cmd.op = "update-settings" =>
       cmd \in [op : {"update-settings"}, key : Keys, buckets : STRING]
  /\ cmd.op = "view-settings" => cmd \in [op : {"view-settings"}, key : {None}]

\* The rows there are at the beginning keep the keys of their tables.  The outbox
\* starts empty, and a change adds to it: opportunities, tasks and settings are
\* as they were made.
WellBegun(b) ==
  /\ \A table \in {b.parties, b.products, b.warehouses, b.accounts, b.contacts,
                   b.opportunities, b.tasks} : DOMAIN table \subseteq Earlier
  /\ DOMAIN b.names = NameTables
  /\ \A t \in NameTables :
       /\ DOMAIN b.names[t] \subseteq Earlier
       /\ \A i, j \in DOMAIN b.names[t] : b.names[t][i].code = b.names[t][j].code => i = j
  /\ \A s \in DOMAIN b.names["site"] : b.names["site"][s].parent \in DOMAIN b.names["entity"]
  /\ \A a \in DOMAIN b.accounts : b.accounts[a].party \in Optional(DOMAIN b.parties)
  /\ \A d \in DOMAIN b.contacts :
       b.contacts[d] \in [account : Ids, primary : BOOLEAN, version : Nat]
  /\ \A o \in DOMAIN b.opportunities :
       b.opportunities[o] \in [account : Ids, worth : Worths, version : {1}]
  /\ \A t \in DOMAIN b.tasks :
       /\ b.tasks[t] \in [account : DOMAIN b.accounts,
                          opportunity : Optional(DOMAIN b.opportunities),
                          status : {"open"}, version : {1}]
       /\ b.tasks[t].opportunity # None =>
            b.opportunities[b.tasks[t].opportunity].account = b.tasks[t].account
  /\ b.settings = NoSettings \/ b.settings.version = 1

ASSUME RecordsAssumption ==
  /\ \A c \in Calls : \A cmd \in Commands[c] : Parsed(cmd)
  /\ \A begun \in Beginnings : WellBegun(begun)

vars == <<common, masterTables, crmTables, settings>>

Init ==
  /\ CommonInit
  /\ \E begun \in Beginnings :
       /\ parties = begun.parties /\ names = begun.names
       /\ products = begun.products /\ warehouses = begun.warehouses
       /\ accounts = begun.accounts /\ contacts = begun.contacts
       /\ opportunities = begun.opportunities /\ tasks = begun.tasks
       /\ activities = [i \in {} |-> None]
       /\ settings = begun.settings

Tables == UNCHANGED <<masterTables, crmTables, settings>>

\* A call reaches its handler, whose parsers run before its first query.
Arrive(c) ==
  /\ pc[c] = "idle"
  /\ \E cmd \in Commands[c] :
       /\ command' = [command EXCEPT ![c] = cmd]
       /\ \/ cmd.op = "stage" /\ ~Certain(cmd.stage, cmd.chance) /\ Refuse(c, "invalid")
          \/ cmd.op = "stage" /\ Certain(cmd.stage, cmd.chance) /\ Goto(c, "replay")
          \/ cmd.op = "view-settings" /\ Goto(c, "settings")
          \/ cmd.op \notin {"stage", "view-settings"} /\ Goto(c, FirstStep(cmd))
  /\ UNCHANGED <<idempotency, outbox, seen>>
  /\ Tables

Step(c) ==
  \/ MasterStep(c) /\ UNCHANGED <<crmTables, settings>>
  \/ CrmStep(c) /\ UNCHANGED <<masterTables, settings>>
  \/ SettingsStep(c) /\ UNCHANGED <<masterTables, crmTables>>

Quiet == (\A c \in Calls : pc[c] = "done") /\ UNCHANGED vars

Next ==
  \/ \E c \in Calls : Arrive(c) \/ Step(c)
  \/ \E row \in idempotency : ExpireKey(row) /\ Tables
  \/ Quiet

Spec == Init /\ [][Next]_vars

----------------------------------------------------------------------------
(* Properties.                                                             *)

Refusals == {"invalid", "not-found", "not-open", "already-exists", "key-conflict", "server-error"}

Made(c) ==
  \/ c \in DOMAIN parties \/ c \in DOMAIN products \/ c \in DOMAIN warehouses
  \/ c \in DOMAIN accounts \/ c \in DOMAIN contacts \/ c \in DOMAIN opportunities
  \/ c \in DOMAIN tasks \/ c \in DOMAIN activities
  \/ \E t \in NameTables : c \in DOMAIN names[t]

TypeOK ==
  /\ DOMAIN names = NameTables
  /\ \A a \in DOMAIN accounts : accounts[a].party \in DOMAIN parties \cup {None}
  /\ \A o \in DOMAIN opportunities : opportunities[o].worth \in Worths
  /\ \A t \in DOMAIN tasks : tasks[t].status \in {"open", "completed"}
  /\ settings = NoSettings \/ settings.version \in Nat \ {0}
  /\ \A c \in Calls : answer[c].kind \in Refusals \cup {None, "ok", "replayed"}
  /\ \A row \in idempotency : row.by \in Calls /\ row.live \in BOOLEAN

\* What a record refers to is there, and is what its call asked for: the rows a
\* product or warehouse names, whoever inserted them in the end, have the
\* codes of the request, no code has two rows, a site has its legal entity, and
\* activities and tasks stay within the account they are about.
NamesOK(c, ids) ==
  \A n \in DOMAIN ids : NamedIds(Lookups(command[c].op)[n], CodeFor(c, n)) = {ids[n]}

ReferencesOK ==
  /\ \A p \in DOMAIN products \cap Calls : NamesOK(p, products[p].named)
  /\ \A w \in DOMAIN warehouses \cap Calls :
       NamedIds("site", command[w].names["site"]) = {warehouses[w].site}
  /\ \A s \in DOMAIN names["site"] : names["site"][s].parent \in DOMAIN names["entity"]
  /\ \A x \in DOMAIN activities :
       /\ activities[x].account \in DOMAIN accounts
       /\ activities[x].contact # None =>
            BelongsTo(contacts, activities[x].contact, activities[x].account)
       /\ activities[x].opportunity # None =>
            BelongsTo(opportunities, activities[x].opportunity, activities[x].account)
  /\ \A t \in DOMAIN tasks :
       /\ tasks[t].account \in DOMAIN accounts
       /\ tasks[t].opportunity # None =>
            BelongsTo(opportunities, tasks[t].opportunity, tasks[t].account)

TypeInv == TypeOK /\ ReferencesOK

\* The outbox is in commit order: of some events, the first and the last.
IsFirst(n, events) == n \in events /\ \A m \in events : n <= m

IsLast(n, events) == n \in events /\ \A m \in events : m <= n

\* An account has one primary contact from the moment it was given one: the
\* contact that the last committed creation made primary.
ChosenFor(a) ==
  { n \in DOMAIN outbox : /\ outbox[n].type = "contact"
                          /\ command[outbox[n].by].account = a
                          /\ command[outbox[n].by].primary }

PrimaryIsLastChosen ==
  \A a \in DOMAIN accounts : \A n \in ChosenFor(a) :
    IsLast(n, ChosenFor(a)) =>
      { i \in DOMAIN contacts : contacts[i].account = a /\ contacts[i].primary } = {outbox[n].id}

\* Whoever follows the outbox in commit order knows the records, although the
\* versions in it are computed from rows read before: every stage change is
\* counted and the last one told is the stored stage, a task is completed when
\* its completion was told, once in the row however often in the outbox, and
\* the first event that announces the version of the settings has the buckets
\* stored under it.  No event announces a version that is not there yet.
ChangesTold(type, id) ==
  { n \in DOMAIN outbox : outbox[n].type = type /\ outbox[n].id = id /\ outbox[n].version > 1 }

OpportunityTold(o) ==
  LET changes == ChangesTold("opportunity", o)
  IN  /\ opportunities[o].version = 1 + Cardinality(changes)
      /\ \A n \in changes : /\ outbox[n].version <= opportunities[o].version
                            /\ IsLast(n, changes) =>
                                 outbox[n].value = <<opportunities[o].worth[1]>>

TaskTold(t) ==
  LET changes == ChangesTold("task", t)
  IN  /\ tasks[t].status = "completed" <=> changes # {}
      /\ tasks[t].version = IF changes = {} THEN 1 ELSE 2
      /\ \A n \in changes : outbox[n].version = 2

SettingsTold ==
  LET told == { n \in DOMAIN outbox : outbox[n].type = "settings" }
      announced == { n \in told : outbox[n].version = settings.version }
  IN  /\ settings.version > 1 =>
           \E n \in announced : IsFirst(n, announced) /\ outbox[n].value = <<settings.buckets>>
      /\ \A n \in told : outbox[n].version <= settings.version

OutboxTellsRecords ==
  /\ \A o \in DOMAIN opportunities : OpportunityTold(o)
  /\ \A t \in DOMAIN tasks : TaskTold(t)
  /\ SettingsTold

\* What a call is told is true.  A refusal or an error left nothing behind.  A
\* success, replayed or not, names the call that did the work with the same
\* key and payload, and what it was told is stored: the record it made, the
\* completed task, a version of the opportunity that was reached.
StoredFor(cmd, by, told) ==
  CASE cmd.op = "party"       -> by \in DOMAIN parties /\ parties[by].code = cmd.code
    [] cmd.op = "product"     -> by \in DOMAIN products /\ products[by].skus = cmd.skus
    [] cmd.op = "warehouse"   -> by \in DOMAIN warehouses /\ warehouses[by].code = cmd.code
    [] cmd.op = "account"     -> by \in DOMAIN accounts /\ accounts[by].code = cmd.code
    [] cmd.op = "contact"     -> BelongsTo(contacts, by, cmd.account)
    [] cmd.op = "opportunity" -> BelongsTo(opportunities, by, cmd.account)
    [] cmd.op = "activity"    -> BelongsTo(activities, by, cmd.account)
    [] cmd.op = "task"        -> BelongsTo(tasks, by, cmd.account)
    [] cmd.op = "complete"    -> /\ tasks[cmd.task].status = "completed"
                                 /\ told.version = tasks[cmd.task].version
    [] cmd.op = "stage"       -> /\ told.version <= opportunities[cmd.opportunity].version
                                 /\ told.value = Worth(cmd)
    [] cmd.op = "update-settings" -> seen[by].version < told.version
                                       /\ told.version <= settings.version
    [] cmd.op = "view-settings"   -> told.version <= settings.version

AnswersAreTrue ==
  \A c \in Calls :
    /\ answer[c].kind \in Refusals =>
         /\ ~Made(c)
         /\ \A row \in idempotency : row.by # c
         /\ \A n \in DOMAIN outbox : outbox[n].by # c
    /\ answer[c].kind \in {"ok", "replayed"} =>
         /\ StoredFor(command[c], answer[c].by, answer[c].told)
         /\ answer[c].by # None => Claim(c) = Claim(answer[c].by) /\ Hash(c) = Hash(answer[c].by)

\* A key takes effect once, for ever: no two successful calls of a scope have
\* the same key unless one of them was answered from the other's row.
KeysTakeEffectOnce ==
  \A m, n \in DOMAIN outbox : m # n => Claim(outbox[m].by) # Claim(outbox[n].by)

----------------------------------------------------------------------------
(* What the documentation says and the code does not do.                   *)

\* docs/MASTER_DATA_AND_INVENTORY.md: every successful command writes its event
\* in the same batch as the business change.  Whoever follows the outbox would
\* then know the settings.
OutboxTellsSettings ==
  \A n \in DOMAIN outbox :
    IsLast(n, { m \in DOMAIN outbox : outbox[m].type = "settings" }) =>
      outbox[n].value = <<settings.buckets>>

\* docs/CRM_AND_SALES.md: won opportunities require 10,000 probability basis
\* points, and lost opportunities require zero.
WonAndLostAreCertain ==
  \A o \in DOMAIN opportunities : Certain(opportunities[o].worth[1], opportunities[o].worth[2])
==============================================================================
