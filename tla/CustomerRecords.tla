--------------------------- MODULE CustomerRecords ---------------------------
(***************************************************************************)
(* The command handlers of apps/api/src/crm.ts over the tenant's customer  *)
(* accounts: their contacts, opportunities, tasks and activities.  Nothing *)
(* is deleted, accounts and contacts stay active, and no handler looks     *)
(* again for a concurrent call with its key when its batch is stopped.     *)
(* A chance is a number of basis points; the response of a call is kept as *)
(* the version it names and, for what may change, the new value.           *)
(***************************************************************************)
EXTENDS MasterData

VARIABLES accounts, contacts, opportunities, tasks, activities

crmTables == <<accounts, contacts, opportunities, tasks, activities>>

CrmOps == {"account", "contact", "opportunity", "stage", "activity", "task", "complete"}

Stages == {"lead", "qualified", "proposal", "negotiation", "won", "lost"}

Chances == 0 .. 10000

Worths == Stages \X Chances

\* updateOpportunityStage refuses a won opportunity that is not certain and a
\* lost one that may still come; createOpportunity takes any pair.
Certain(stage, chance) ==
  /\ stage = "won" => chance = 10000
  /\ stage = "lost" => chance = 0

Worth(cmd) == <<cmd.stage, cmd.chance>>

\* The first step of a handler after its parsers.
FirstStep(cmd) == IF cmd.op = "opportunity" THEN "account" ELSE "replay"

----------------------------------------------------------------------------
(* Queries.                                                                *)

\* readDomainReplay, and the query each handler makes after it.
AfterReplay(op) ==
  CASE op = "account" -> "code"
    [] op \in {"contact", "activity", "task"} -> "account"
    [] op = "stage" -> "opportunity"
    [] op = "complete" -> "task"
    [] op = "opportunity" -> "batch"

\* The next query of a handler whose account is active.
AfterAccount(op) ==
  CASE op = "contact" -> "batch" [] op = "opportunity" -> "replay"
    [] op = "activity" -> "contact" [] op = "task" -> "opportunity"

QueryAccountCode(c) ==
  /\ command[c].op = "account" /\ Reads(c, "code")
  /\ IF \E a \in DOMAIN accounts : accounts[a].code = command[c].code
     THEN Refuse(c, "already-exists")
     ELSE Goto(c, IF command[c].party = None THEN "batch" ELSE "party")

\* An account may be linked to a party that buys.
QueryParty(c) ==
  /\ Reads(c, "party")
  /\ IF /\ command[c].party \in DOMAIN parties
        /\ parties[command[c].party].type \in {"customer", "distributor", "retailer"}
     THEN Goto(c, "batch") ELSE Refuse(c, "not-found")

RequireAccount(c) ==
  /\ Reads(c, "account")
  /\ IF command[c].account \in DOMAIN accounts
     THEN Goto(c, AfterAccount(command[c].op)) ELSE Refuse(c, "not-found")

BelongsTo(table, id, account) == id \in DOMAIN table /\ table[id].account = account

\* validateRelatedEntities: the contact of an activity, then the opportunity
\* of an activity or task, each only when the call names one.
RequireContact(c) ==
  /\ Reads(c, "contact")
  /\ IF command[c].contact = None \/ BelongsTo(contacts, command[c].contact, command[c].account)
     THEN Goto(c, "opportunity") ELSE Refuse(c, "not-found")

RequireOpportunity(c) ==
  /\ command[c].op \in {"activity", "task"} /\ Reads(c, "opportunity")
  /\ IF \/ command[c].opportunity = None
        \/ BelongsTo(opportunities, command[c].opportunity, command[c].account)
     THEN Goto(c, "batch") ELSE Refuse(c, "not-found")

\* The row a change starts from.
Remember(c, version) ==
  /\ seen' = [seen EXCEPT ![c].version = version]
  /\ Goto(c, "batch")
  /\ UNCHANGED <<idempotency, outbox, command>>

ReadOpportunity(c) ==
  LET o == command[c].opportunity
  IN
  /\ command[c].op = "stage" /\ pc[c] = "opportunity"
  /\ IF o \in DOMAIN opportunities THEN Remember(c, opportunities[o].version)
     ELSE Reads(c, "opportunity") /\ Refuse(c, "not-found")

ReadTask(c) ==
  LET t == command[c].task
  IN
  /\ pc[c] = "task"
  /\ \/ t \in DOMAIN tasks /\ tasks[t].status = "open" /\ Remember(c, tasks[t].version)
     \/ t \in DOMAIN tasks /\ tasks[t].status # "open" /\ Reads(c, "task") /\ Refuse(c, "not-open")
     \/ t \notin DOMAIN tasks /\ Reads(c, "task") /\ Refuse(c, "not-found")

----------------------------------------------------------------------------
(* Batches.                                                                *)

CrmStopped(c) ==
  \/ Claimed(c)
  \/ command[c].op = "account" /\ \E a \in DOMAIN accounts : accounts[a].code = command[c].code

CommitAccount(c) ==
  /\ command[c].op = "account" /\ ~CrmStopped(c)
  /\ Commit(c, "account", Stored(c, 1, <<>>), <<>>)
  /\ accounts' = Put(accounts, c, [code |-> command[c].code, party |-> command[c].party])
  /\ UNCHANGED <<contacts, opportunities, tasks, activities>>

\* Mutant: the UPDATE clears the primary contacts of every account.
CommitContact_AnyAccount(c) ==
  LET cleared == [i \in DOMAIN contacts |->
        IF command[c].primary /\ contacts[i].primary
        THEN [contacts[i] EXCEPT !.primary = FALSE, !.version = @ + 1] ELSE contacts[i]]
  IN
  /\ command[c].op = "contact"
  /\ Commit(c, "contact", Stored(c, 1, <<>>), <<>>)
  /\ contacts' = Put(cleared, c, [account |-> command[c].account,
                                  primary |-> command[c].primary, version |-> 1])
  /\ UNCHANGED <<accounts, opportunities, tasks, activities>>

\* A new primary contact takes the place of the one there is in the same batch,
\* so crm_contacts_primary_uq never stops it.
CommitContact(c) ==
  LET replaced(i) == command[c].primary /\ contacts[i].account = command[c].account
                                        /\ contacts[i].primary
      cleared == [i \in DOMAIN contacts |->
        IF replaced(i) THEN [contacts[i] EXCEPT !.primary = FALSE, !.version = @ + 1]
                       ELSE contacts[i]]
  IN
  /\ command[c].op = "contact"
  /\ Commit(c, "contact", Stored(c, 1, <<>>), <<>>)
  /\ contacts' = Put(cleared, c, [account |-> command[c].account,
                                  primary |-> command[c].primary, version |-> 1])
  /\ UNCHANGED <<accounts, opportunities, tasks, activities>>

CommitOpportunity(c) ==
  /\ command[c].op = "opportunity"
  /\ Commit(c, "opportunity", Stored(c, 1, Worth(command[c])), <<>>)
  /\ opportunities' = Put(opportunities, c,
       [account |-> command[c].account, worth |-> Worth(command[c]), version |-> 1])
  /\ UNCHANGED <<accounts, contacts, tasks, activities>>

CommitActivity(c) ==
  /\ command[c].op = "activity"
  /\ Commit(c, "activity", Stored(c, 1, <<>>), <<>>)
  /\ activities' = Put(activities, c,
       [account |-> command[c].account, contact |-> command[c].contact,
        opportunity |-> command[c].opportunity])
  /\ UNCHANGED <<accounts, contacts, opportunities, tasks>>

CommitTask(c) ==
  /\ command[c].op = "task"
  /\ Commit(c, "task", Stored(c, 1, <<"open">>), <<>>)
  /\ tasks' = Put(tasks, c,
       [account |-> command[c].account, opportunity |-> command[c].opportunity,
        status |-> "open", version |-> 1])
  /\ UNCHANGED <<accounts, contacts, opportunities, activities>>

\* The UPDATE looks at the status again; the response, the idempotency row and
\* the event have the version read before.
CommitComplete(c) ==
  LET t == command[c].task
  IN
  /\ command[c].op = "complete"
  /\ Commit(c, "task", Stored(t, seen[c].version + 1, <<"completed">>), <<"completed">>)
  /\ tasks' = IF tasks[t].status = "open"
              THEN [tasks EXCEPT ![t].status = "completed", ![t].version = @ + 1]
              ELSE tasks
  /\ UNCHANGED <<accounts, contacts, opportunities, activities>>

\* Mutant: the UPDATE stores the version computed from the row read before.
CommitStage_StoresRead(c) ==
  LET o == command[c].opportunity
  IN
  /\ command[c].op = "stage"
  /\ Commit(c, "opportunity", Stored(o, seen[c].version + 1, Worth(command[c])),
            <<command[c].stage>>)
  /\ opportunities' = [opportunities EXCEPT ![o].worth = Worth(command[c]),
                                            ![o].version = seen[c].version + 1]
  /\ UNCHANGED <<accounts, contacts, tasks, activities>>

\* The UPDATE looks at nothing but the id.
CommitStage(c) ==
  LET o == command[c].opportunity
  IN
  /\ command[c].op = "stage"
  /\ Commit(c, "opportunity", Stored(o, seen[c].version + 1, Worth(command[c])),
            <<command[c].stage>>)
  /\ opportunities' = [opportunities EXCEPT ![o].worth = Worth(command[c]),
                                            ![o].version = @ + 1]
  /\ UNCHANGED <<accounts, contacts, tasks, activities>>

CrmQuery(c) ==
  \/ ReadReplay(c, AfterReplay(command[c].op))
  \/ QueryAccountCode(c) \/ QueryParty(c)
  \/ RequireAccount(c) \/ RequireContact(c) \/ RequireOpportunity(c)
  \/ ReadOpportunity(c) \/ ReadTask(c)
  \/ CrmStopped(c) /\ AbortUncaught(c)

CrmStep(c) ==
  /\ command[c].op \in CrmOps
  /\ \/ CrmQuery(c) /\ UNCHANGED crmTables
     \/ CommitAccount(c) \/ CommitContact(c) \/ CommitOpportunity(c)
     \/ CommitActivity(c) \/ CommitTask(c) \/ CommitComplete(c) \/ CommitStage(c)
=============================================================================
