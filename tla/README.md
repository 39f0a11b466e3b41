# Formal specifications of the FMCG platform

TLA+ specifications of this repository: what the command handlers of the API do
to the control database and to a tenant's database when they run side by side,
are retried, meet a constraint or run into a deadline, and what the web client
shows while its requests are answered in any order.  TLC checks them on small
instances; TLAPS proves every safety property that holds, and both refinements, for every
instance.

The server is an HTTP API on Cloudflare Workers over two D1 (SQLite) databases.
Every command handler has the same shape, and so has every model here:

1. a session is resolved and access is checked;
2. a few queries are awaited, one after another, and business rules are checked
   on what they returned;
3. the idempotency table is looked up by (scope, key) for a replay;
4. one `db.batch` writes everything (rows, idempotency row, audit row, outbox
   row), which commits or aborts as a whole;
5. some handlers catch the abort and look for a concurrent call with their key.

Nothing is locked between the queries and the batch.  So a query is one action,
a batch is one action, and handlers interleave everywhere between them.  The
whole protection lies in what the batch itself re-checks: UNIQUE keys, CHECKs,
triggers and WHERE clauses of its UPDATEs.  The question behind every property
of the server below is whether that is enough.

The web client is the mirror image.  JavaScript runs one callback at a time, and
what interleaves is the answers: any number of loads wait together, and a
callback that runs late still has the identity and tenant of the render it was
made in.  The protection is a generation counter that each load compares before
it shows anything, and the question is whether every path goes through it.

## Inventory of the system

| Component | State it keeps | Operations | Hard behaviour | What makes it correct |
|---|---|---|---|---|
| Inventory ledger (`apps/api/src/inventory.ts`, tenant migration 0001) | lots, balances per (bin, lot, status), append-only movements, settings | receive, adjust, transfer, quarantine, release, reverse; settings; FEFO, aging, overview | stock queries go stale before the batch; lots created on the fly; reversal races; checks before replay; an UPDATE whose row has moved on | balances equal the journal, nothing negative, a key takes effect once, pairs conserve stock, a movement is undone once; FEFO and aging answer what they say |
| Approvals (`approvals.ts`, control migrations 0002 and 0004) | policies with steps, requests with a snapshot of the steps, decisions | submit, decide, cancel, expire on read, change a policy; execute the approved action in the deciding batch | decisions race each other, cancellation, expiry; steps advance; policy changes meanwhile | four eyes, resolved for good, executed exactly once, steps in order |
| Module entitlements (`platform.ts`) | enabled flag and version per module | direct change, behind the approval policy | policy query and write are apart | no direct change while a policy is enabled |
| Sales (`sales.ts`, tenant migration 0002) | price lists, quotations, orders, reservations | create, send, accept, convert, cancel | two conversions; competition for stock; stock leaves under a reservation | one order per quotation, reservations are what the order says and within stock |
| Domain support (`domain-support.ts`) | idempotency, audit and outbox rows | replay lookup and the statements every domain batch contains | rows expire but stay | a key takes effect once; the outbox tells the records |
| Tenant administration (`administration.ts`, control migration 0003) | tenants, users, memberships, roles, invitations | onboard, invite, accept, revoke, update a membership | last-administrator count and write are apart; accept and revoke race; an account appears during an acceptance | a tenant keeps an administrator; an invitation ends once and lets one subject in; a member is what the last change said |
| Session kernel (`platform.ts`, `packages/domain`) | none of its own | resolve a session, enforce permission and module | membership and roles are two queries, read once per call | a call is judged by one snapshot |
| CRM (`crm.ts`) | accounts, contacts, activities, tasks, opportunities | create, complete a task, move an opportunity | two primary contacts; a stage changed twice; a task completed twice | one primary contact, the last chosen; versions announced are versions reached |
| Master data (`master-data.ts`) | products, packs, parties, warehouses, and the names they refer to | create, list | a unit, brand, category, entity or site is looked up, then inserted by whoever did not find it | unique codes, references that exist and are the ones asked for |
| Identity (`identity.ts`) | a cache of key sets | verify a token | remote keys | out of reach (cryptography, I/O) |
| Web client (`apps/web/src/state`) | who is signed in, the chosen tenant, read models of the workspace and of the commercial boards, load generations | sign in and out, choose a tenant, load, refresh, command and reload | answers out of order; a command outlives its selection; a failure that leaves a screen with nothing to click | what is shown belongs to who is signed in and to the tenant chosen; own commands are shown; loads and commands end |
| Routes, contracts, migrations, scripts | none at run time | | | not modelled |

Interactions: sales reserves against inventory balances inside one tenant
database, through a trigger; inventory does not know about reservations.
Approvals execute entitlement changes in their own batch, and the direct
entitlement route asks the approvals module whether it may run.  Entitlements and
memberships decide, through the session, who may call anything.  CRM reads
parties that master data writes, and both share the table of idempotency keys
with inventory settings.  The commercial provider of the client is mounted
inside the gate of the application provider and loads again whenever that one
shows a new session.  Audit and outbox rows are written in the same batch as the
change; nothing in the repository reads the outbox.

`PROJECT.json` lists the components with their status, and the hazards line by
line, each with the property that would catch it or the reason none does.

## Modules

### Inventory

`StockCommands` has the commands as data: requests, idempotency scopes, and the
*legs* of a command (which balances it changes, by how much, under which
movement type).  `StockLedger` is the abstract ledger over them: a command
takes effect in one step, once per key, never below zero.

`InventoryLedger` models the handlers.  Variables are the tables (`lots`,
`balances`, `journal`, `idempotency`, `events`) and, per attempt, the handler's
position and what it keeps (`pc`, `request`, `legs`, `newLot`, `response`).

| Action | Code |
|---|---|
| `Arrive`, `Refuse` | the route; module, permission and dimension checks |
| `ReadLotForReceipt`, `RequireLot` | the lot query of a receipt, of the other commands |
| `LoadOriginal`, `CheckAlreadyReversed` | the two queries of a reversal |
| `RequireSufficientStock` | the stock query of withdrawals |
| `ReadReplay` | `readDomainReplay` |
| `Commit`, `Abort` | the D1 batch with its unique keys and triggers |
| `CatchAbort` | the catch block of `runInventoryBatch` |
| `ExpireKey` | 24 hours pass; the row stays |

Abstractions: one tenant and one variant, because every row and query is keyed
by both; `(warehouse, bin)` is one bin; reasons and references, free text inside
the hashed payload, are not distinguished; the audit and the outbox row of a
batch are one `events` row; the journal is kept per balance key, since nothing
orders movements of different keys but a time stamp.  The 409 branch of
`runInventoryBatch` is there (`ConflictMessages`), and no abort reaches it: the
trigger's text does not match.

### Approvals

`ApprovalRules` has users, grants, rules and commands; `MakerChecker` is the
abstract control: requests are signed, and the signature that completes the last
step changes the module in the same step.  `ApprovalWorkflow` models the handlers
of `approvals.ts` and the direct entitlement change.

| Action | Code |
|---|---|
| `Arrive` | `resolveSession`, `requireApprovalAccess` |
| `ReadModule`, `ReadPolicy`, `ReadPolicySteps` | `validateSupportedAction`, `loadEnabledPolicyByKey` (two queries) |
| `RequireDirectAllowed` | `requireDirectModuleChangeAllowed`, then the session checks of `setModuleEntitlement` |
| `ReadLate`, `Expire` | `expireApprovalRequests`: the query, then one batch |
| `LoadPending`, `CheckStep`, `ReadReplay`, `CheckDuplicate` | the queries and checks of a decision or cancellation |
| `CommitCreate`, `CommitDecide`, `CommitCancel`, `CommitUpsert`, `CommitDirect` | the five batches |
| `Abort`, `CatchAbort` | a stopped batch and the search for a concurrent call |
| `Deadline`, `ExpireKey` | seven days, 24 hours |

Abstractions: one tenant, and its one policy for the only supported action; what
roles grant is fixed during a run, because a session is read once per call;
requests and rows are named by the call that made them; the execution status of a
request is a function of its status; audit rows of denied calls are left out; the
default policy is there from the start, since a trigger creates it with the
tenant (so `ensureDefaultApprovalPolicy` finds it).

### Sales

`SalesOrders` models the five handlers that move a quotation and its order, with
the reservations and the available stock beside them.

| Action | Code |
|---|---|
| `Arrive` | the route; an acceptance goes to its quotation first |
| `LoadQuote`, `LoadOrder` | `loadQuote`, `loadOrder` with the status and date checks |
| `ReadReplay` | `readDomainReplay` |
| `CommitCreate`, `CommitTransition`, `CommitConvert`, `CommitCancel` | the batches |
| `Abort` | a batch stopped by a unique key or by the overcommit trigger |
| `MoveStock` | any inventory command that committed |
| `Deadline`, `ExpireKey` | `valid_until`, 24 hours |

Abstractions: accounts, variants and warehouses exist; prices, taxes and totals
are left out; a permission check reads a session and is not a step; statuses that
no code writes (`confirmed`, `fulfilled`, `rejected`, `expired`, `consumed`) do not
occur; `loadReservations` of a cancellation only shapes its response; a quotation
that is there at the beginning came through draft and sent.

### Tenant administration

`TenantAdministration` models the invitation and membership handlers of one
tenant in the control database, the session that is resolved before them, and
the onboarding of other tenants, which shares the users with them.

| Action | Code |
|---|---|
| `Arrive`, `ReadAccess` | the membership and the role query of `resolveSession`; `requireAdministrationAccess`; the check against suspending oneself |
| `ReadReplay`, `Recover` | `readTenantReplay` and `readOnboardingReplay`, before a batch and in the catch blocks of `createInvitation` and `onboardTenant` |
| `ReadSlug` | the slug query of `onboardTenant` |
| `ReadMembers`, `ReadInvites` | the two queries of `createInvitation` |
| `ReadToken`, `Lapse` | the query of `acceptInvitation` and its UPDATE of an overdue invitation |
| `ReadUsers` | the user queries of an acceptance and of an onboarding |
| `ReadMember`, `CountAdmins` | the queries of `updateMembership` |
| `LoadInvitation` | `loadInvitation` of a revocation |
| `ExpireInvitations` | the UPDATE of `getTenantAdministration` |
| `CommitOnboard`, `CommitInvite`, `CommitAccept`, `CommitUpdate`, `CommitRevoke`, `Abort` | the batches with their unique and foreign keys |
| `Deadline`, `ExpireKey` | seven days, 24 hours |

Abstractions: a person is a subject with one verified email, which two subjects
may share; an account is the fact that the person has a row in `users`, and a
call that saw none makes an id that fits only as long as there is none;
the token is the invitation; the standard roles are there (`ensureStandardRoles`
finds them), and of their permissions only administrators have those that
change anything; the platform module is enabled; accounts and tenants are
active; display names are left out, as are audit rows.  Of an onboarded tenant
its slug is kept and the account of its administrator.  Every announced change
carries a constant version, which is left out too.

### Records of a tenant

`DomainCommands` states once what the command handlers over the tenant database
share (`domain-support.ts`): the key claimed in the scope of the operation, the
replay, the rows every batch adds.  `MasterData`, `CustomerRecords` and
`InventorySettings` add the tables and handlers of `master-data.ts`, `crm.ts` and
the settings part of `inventory.ts`; `TenantRecords` composes the three over one
database and one table of keys.

| Action | Code |
|---|---|
| `Arrive` | the route and the parsers that run before the first query |
| `ReadReplay` (in `MasterReplay`, `CrmQuery`, `SettingsReplay`) | `readDomainReplay` |
| `QueryCode` | the duplicate query of a product, warehouse or party |
| `Resolve` | `resolveNamedId` for one name after another |
| `CommitParty`, `CommitProduct`, `CommitWarehouse` | the batches, with the rows for names not found |
| `QueryAccountCode`, `QueryParty`, `RequireAccount`, `RequireContact`, `RequireOpportunity` | the queries of the CRM handlers, in the order of each |
| `ReadOpportunity`, `ReadTask` | the row a change starts from |
| `CommitAccount`, `CommitContact`, `CommitOpportunity`, `CommitActivity`, `CommitTask`, `CommitStage`, `CommitComplete` | their batches |
| `ReadSettings`, `MissSettings`, `InitializeSettings`, `ShowSettings` | `ensureSettings`: the look, the INSERT OR IGNORE and the second look |
| `CommitSettings`, `AbortSettings` | the batch of an update and what follows a stopped one |
| `AbortCaught`, `AbortUncaught` | a stopped batch with a catch block (master data) and without (CRM) |
| `ExpireKey` | 24 hours |

Abstractions: nothing in these files is deleted, and accounts and contacts are
never deactivated; barcodes are looked up with the SKUs and stand with them;
packs, zones and bins are inserted with their product or warehouse in the same
batch and are part of its row; addresses, notes, names and money values are left
out; parsers are modelled by the values they let through.  The outbox starts empty,
so a database a behaviour begins with has tasks that are open and opportunities
and settings at their first version (`WellBegun`): what happened before is not in
the events that are compared with the records.

### Calculations over stock

`StockViews` has the two calculations of `inventory.ts` as the loops they are:
`Recommend` is one turn of `getFefoCandidates`, `Count` one turn of
`getInventoryAging`, over the rows `loadBalanceRows` returns (`Loaded`, with its
ORDER BY and LIMIT).  They are compared with definitions that have no loop: never
a unit while one that expires earlier is left, and each balance in the one band
its days belong to.  Dates are numbers of days.  The order of rows is stated by
`InOrder`, which chooses the sequence of a set that respects an order, and not
with `SetToSortSeq`, whose `SortSeq` is a Java method the provers know nothing of.

### Web client

`WebApplication` models one tab's `ApplicationProvider` against an API;
`WebWorkspace` adds the `CommercialProvider` that lives inside the gate, and
composes the two.

| Action | Code |
|---|---|
| `Authenticate`, `SignOut` | `authenticateDevelopment`, `authenticateOidc`, `signOut`, each with the effect that the changed authentication runs |
| `Retry`, `SelectTenant`, `Refresh` | `retry`, `selectTenant`, `refreshAll` from a button |
| `Submit`, `Onboard` | `runMutation`; `onboardTenant` and `bootstrapDevelopment` until their request is sent |
| `AnswerOptions`, `AnswerSession`, `AnswerReads` | the continuations of `initialize` and `loadTenantData` |
| `DropLoad`, `FailLoad` | the last answer of a load that is no longer current; `handleLoadFailure` |
| `ServerCommits`, `CommandSucceeds`, `CommandFails` | the API takes a command, its answer arrives, or it is refused or lost |
| `Follow` (`Unmount`, `Effect`) | how the commercial provider follows the application state: unmounted with the gate, reloaded by its effect |
| `RefreshBoard`, `SubmitToBoard`, `BoardCommandSucceeds`, `BoardCommandFails`, `SettleBoardLoad` | the commercial provider's own operations |

Abstractions: a workspace on the screen is who loaded it, for which tenant, in
which generation, and as of which version of the tenant's data; the parallel
reads of a load are answered together, at the latest of them; the texts of
errors and notices are left out, except that an error is recorded or not; the
refresh button in the page header is its two refreshes; another tab's writes to
the stored tenant id, and the double effects of React's StrictMode in development,
are left out.

### Model-checking modules and proofs

Each `MC` module defines small instances of the module it names; a `.cfg` per run
gives the constants their values.  The `Proofs` modules hold the theorems, one
per component.  `SetSums` has the laws of sums over finite sets that two of them
use.
Definitions marked "Mutant" are variants of a definition with one plausible
mistake; no specification uses them.  Each property of a passing run is violated
when the variant named in `PROJECT.json` takes the definition's place.

## What is checked

Passing runs:

| Run | Instance | Shows |
|---|---|---|
| `inventory_stock` | four attempts, two bins, one lot, two keys, nine requests (receipts that agree and disagree on the lot, withdrawals of the same units, a transfer, quarantine and release), symmetric attempts | `LedgerReconciles`, `EffectOnce`, `PairsBalance`, `AnswersAreTrue`, `LotsTraceable`, `TypeOK` (with it: nothing negative) |
| `inventory_reversal` | four attempts over a receipt, a withdrawal, a transfer and corrections of any recorded movement under two keys | `ReversalsExact`, and `ImplementsLedger`: the handlers refine `StockLedger` |
| `approvals` | a submission under any of three policies (one checker; two checkers, self allowed; two steps), two decisions and a fourth call (cancel, list, second request, direct change, policy change) by three members | `FourEyes`, `ExecutedOnceIffApproved`, `StepsInOrder`, `AnswersAreTrue`, `ResolutionIsFinal`, `TypeInv`, and `ImplementsMakerChecker`: the handlers refine `MakerChecker` |
| `sales_orders` | two quotations over one variant (one with two lines), three calls that create, send, accept, convert and cancel under equal and different keys, stock of zero to two that moves at any time | `BooksAgree`, `ReservationsWithinStock`, `LifecycleForward`, `AnswersAreTrue`, `TypeInv` |
| `tenant_members` | two administrators or one, a newcomer invited as viewer with or without an account, a second subject with the newcomer's email; three calls that onboard, accept, invite, revoke, list, demote, promote and suspend under equal and different keys and slugs | `InvitationsEndOnce`, `OnePendingPerEmail`, `OneAccountPerInvitation`, `MembershipIsLastEvent`, `LastAdminUnlessStale`, `AnswersAreTrue` (with it: a key takes effect once), `TypeInv` |
| `tenant_records` | an account with a primary contact, an opportunity and a task, a second account, one site with its legal entity, parties that buy and sell, settings there or not; three calls over all twelve operations, under equal and different keys, codes, SKUs and names | `TypeInv` (with it: references exist and are the ones asked for), `PrimaryIsLastChosen`, `OutboxTellsRecords`, `AnswersAreTrue`, `KeysTakeEffectOnce` |
| `stock_views` | all questions about one to three balances where the query returns two: expired, today, at and around a boundary, never; available, quarantined, empty; quantities below, at and above the stock; two and three bounds | `FefoAllocates`, `AgingPartitions` |
| `web_client` | two identities, one a member of two tenants, the other of none, a third tenant to be onboarded; four clicks in any order, any answer late, failed or unauthorised | `UserLoadsShowSelection`, `OwnCommandsShown`, `BoardFollowsSelection`, `TypeInv`, and under fairness `LoadingEnds`, `CommandsEnd` |

Runs that refute a sentence of the documentation or of the code:

| Run | Sentence | What happens |
|---|---|---|
| `inventory_retry` | "Reusing a key with the same payload replays the original result" | the retry of a correction that took effect is refused as already reversed, because that check comes before the replay lookup |
| `approvals_direct` | "Direct actions fail closed while a matching enabled policy exists" | a direct change that passed the policy query commits after the policy was enabled |
| `tenant_last_administrator` | "The final active tenant administrator cannot be removed" (`updateMembership`) | two administrators demote each other; each counts two, and none is left |
| `web_selection` | the workspaces "load the authenticated session, selected tenant, permissions, modules and domain read models" | a command is sent, another tenant is chosen and shown, the command's answer arrives: its closure reloads the tenant it was sent under, as the newest load, and the screen shows that tenant's workspace under the other's selection |

`LastAdminUnlessStale` is the other half of the third line: it holds, and says
that only an update whose reads were overtaken, or an acceptance, can do this.
`UserLoadsShowSelection` and `OwnCommandsShown` are the other half of the last:
only the reload after a command can show another tenant, and what it was made
for, that the own command is seen, it does.

More statements are written down next to their module, with the sentence they
come from, and are refuted in the same instances.  They have no run of their own;
to see a counterexample, name one in the run's `.cfg`:

| Statement | Module, run | What happens |
|---|---|---|
| `SuccessShowsOriginal` | `InventoryLedger`, `inventory_stock` | of two concurrent calls with one key, the loser is answered 201 with no movements |
| `NegativeStockIsConflict` | `InventoryLedger`, `inventory_stock` | the loser of a race for the last units is answered with a server error: the trigger's message is not the one `runInventoryBatch` looks for |
| `ResolvedIsNotDecided` | `ApprovalWorkflow`, `approvals` | a decision that read the request as pending is recorded after it was resolved; request and module stay as they are |
| `PromiseIsDifference` | `SalesOrders`, `sales_orders` | stock leaves under a reservation; the view shows zero instead of the negative difference |
| `OutboxTellsSettings` | `TenantRecords`, `tenant_records` | of two updates that read the same version the second changes nothing, is answered as a success and announces its buckets |
| `WonAndLostAreCertain` | `TenantRecords`, `tenant_records` | an opportunity is created as won with a probability of one half; only a change of stage checks |
| `FefoExhaustsStock` | `StockViews`, `stock_views` | the query's row limit is reached by rows that are empty or not available, and stock behind it is not recommended |
| `LoadingGivesWay` | `WebApplication`, `web_client` | a tenant is chosen while a command runs; its reload takes over from the selection's load and fails; the error is recorded, but the gate still shows that it is loading, with nothing to click |

The models reach other things worth knowing that the repository promises nothing
about, so nothing calls them wrong; the hazards name those that bite.  An
acceptance may commit after its invitation was revoked, and one that is followed
twice overwrites what an administrator changed in between.  Two stage changes that
read the same version announce the same version.  The replay of a settings update
shows the settings of now, not of then.  The retry of an accepted quotation is
refused once the validity date has passed, because the date is checked before the
replay.  A site that exists keeps its own legal entity, whatever the command says.
A request for approval may wait until it expires because the tenant has fewer
members who may decide a step than the step asks for.

### Bounds

A race in this program is between the query of one handler and the batch of
another, so two concurrent calls show it; a third makes the row they fight over
(the receipt, the request, the order), and a fourth retries, resolves or
withdraws it.  Quantities go up to two, so that two withdrawals of one and one of
two compete.  Two keys tell a retry from a new command; a key of its own for each
call adds nothing, because keys are only compared.  Two bins are what a transfer
needs.  Policies are chosen one per mechanism (a threshold of one, a threshold of
two, two steps).  `Lapsing` bounds the quotations that may pass their date to
one, and the invitations to the one there is at the beginning, `MaxUnits` the
stock in `SalesOrders`; attempts and calls happen once, which bounds everything
else.  Each idempotency row may expire at any moment, each request may pass its
deadline at any moment.  Attempts in the inventory runs are symmetric (a
permutation maps requests onto requests); in the other runs each call has a
command set of its own and no symmetry is used.

`MaxResults`, the row limit of `loadBalanceRows`, is 250 in the code and two in
the run, with up to `MostRows` = 3 balances, so that a limit with something behind
it is met; both calculations are over once the rows are, which is why
`StockViews` stops and its run does not check deadlock.

`MaxClicks` bounds what the user does in one tab, and `Generations` the loads that
follow from it.  Four clicks are enough for a command, two selections and a
sign out, in any order with every answer in between; the refuted statements about
the client need fewer.

### Fairness

None is assumed of the server and no liveness is claimed for it: a Worker may be
stopped between any two awaits, and nothing in the repository retries by itself.
`Quiet` lets a behaviour whose calls are all answered stutter, so that TLC's
deadlock check finds every other stop: no handler ever gets stuck.

`WebWorkspace` has weak fairness on the end of every request in flight, for each
load and for the command: `fetch` settles, with a result or an error, and
`apps/web/src/lib/api-client.ts` turns either into one the providers handle.
Which it is, and whether the API committed, is left open, as is everything the
user does.  Under it `LoadingEnds` and `CommandsEnd` hold.

## What is proved

All proofs hold for every value of the constants under the named assumptions,
which say that commands are well-formed (`RequestsAssumption`,
`ApprovalAssumption`, `SalesAssumption`, `AdministrationAssumption`,
`CallsAssumption`, `RecordsAssumption`) and that the questions asked of the
stock are (`ViewsAssumption`: something is wanted, two to eight bounds ascend), that calls and people are finitely many,
that absent values are told from present ones (`LotAssumption`, the `None`
clauses, `WebAssumption`) and that the tables a behaviour starts with keep their
own constraints.

Inventory (`InventoryLedgerProofs`):

- `TypeCorrect`: `TypeOK` is invariant.  By itself it is not inductive: a step
  needs to know that a handler past its arrival has a request and that only
  receipts insert lots, so the invariant proved is `TypeInv == TypeOK /\ HandlersOK`.
  Non-negativity of balances is part of it and rests on the trigger.
- `BalancesFollowJournal`: `LedgerReconciles` is invariant, by one observation
  (`OnlyCommitWrites`): of all steps only a commit touches balances and journal,
  and it changes each key by a movement and by its delta together.
- `JournalKept`: no step edits or removes a movement or an idempotency row.
- `KeysTakeEffectOnce`: `EffectOnce` is invariant.  It follows from `ClaimsOK`:
  rows are unique per scope and key, a row's attempt is finished, every movement has
  a row.  That invariant is inductive with `TypeInv` because an expired row is
  kept: expiry changes its `live` flag and never frees the key.
- `MovesBalance`, `CorrectionsExact`, `AnswersTrue`: `PairsBalance`,
  `ReversalsExact` and `AnswersAreTrue`, all from one invariant, `JournalInv`.  To
  `TypeInv` and `ClaimsOK` it adds what a handler in flight has decided to write
  (`LegsOK`: the legs of its command, or the exact opposite of a movement it found),
  that the journal shows of a recorded attempt its legs and nothing else
  (`Mirrored`), that a row lists its attempt's movements, and that no movement is
  undone twice (`UndoneOnce`, kept by the UNIQUE key the batch meets).
- `LotsKeepAttributes`: `LotsTraceable`, from `LotOK`: a receipt past the lot query
  either saw the lot with its attributes or will insert it, and a lot inserted in
  between stops it.
- `LedgerImplemented`: `Spec => ImplementsLedger`.  Under `JournalInv` the legs
  read back from the journal are those the handlers wrote (`AppliedEffects`), a
  committing batch is one command of `StockLedger` (`CommitLedger`; a correction
  finds the effect it undoes through `Mirrored`), and every other step, the expiry
  of a key included, leaves what the abstract ledger sees alone (`QuietLedger`).

Approvals (`ApprovalWorkflowProofs`):

- `TypeCorrect`: `TypeInv`, which includes what a
  handler in flight may rely on however stale its reads are: the request it
  decides exists, the step it read is one of the request's steps, and its member
  may decide that step (`HandlersOK`, `RequestsOK`).
- `ResolvedForGood`: the action property `ResolutionIsFinal`.
- `FourEyesHold`: `FourEyes` is invariant, through
  `FourEyesInv == TypeInv /\ DecisionsOK /\ StepsBacked`.  `DecisionsOK` says that
  recorded decisions are by members who may decide the step and that a member has
  one decision per step (the UNIQUE key of `approval_decisions`); `StepsBacked`
  that an approved step has its minimum of approvals and that every step before
  the current one, and every step of an approved request, is approved.  With
  both, different approvals are by different members, so counting rows counts people.
- `OrderHolds`: `StepsInOrder`, from `FourEyesInv` with the order
  itself and `ReachedOK`: a decision in flight is about a step its request has
  reached, since requests only move on.
- `ExecutedOnce`: `ExecutedOnceIffApproved`, through
  `ExecutedInv`: the changes are finite in number, each is of a call that is
  finished, an approved request has its one change and no other request has any,
  and versions count changes.
- `AnswersTrue`: `AnswersAreTrue`, from what a row, a written
  record and an answer each say of their call.
- `ControlImplemented`: `Spec => ImplementsMakerChecker`: a
  creating batch is a request, a deciding batch one signature, and the signature
  that completes the last step changes the module in the same abstract step.

Sales (`SalesOrdersProofs`), from `SalesInv == TypeInv /\ StatusRead` (the status a
handler has read is one its document has reached):

- `SalesTyped`: `TypeInv`; `ForwardOnly`: `LifecycleForward`, because the UPDATEs
  ask for the status again or the unique order of a quotation stops them;
- `BooksAlwaysAgree`: `BooksAgree`, which is inductive with `SalesInv`;
- `NeverOvercommits`: `ReservationsWithinStock`, an action property.  The trigger
  looks at each reservation before it is inserted, so it sees the rows of before
  and the earlier rows of the same batch; that the total then fits is a law of
  sums (what is reserved after a conversion is what was reserved and what its rows
  add) with the last row of a product and warehouse, for which the trigger saw all
  the others;
- `AnswersTrue`: `AnswersAreTrue`, from the same three clauses as in approvals.

Tenant administration (`TenantAdministrationProofs`), from
`AdminInv == TypeInv /\ HandlersOK` (which operation may be at which step, and that
a tenant's maker is finished):

- `AdministrationTyped`: `TypeInv`; `EndedOnce`: `InvitationsEndOnce`;
  `LastAdministrator`: `LastAdminUnlessStale`;
- `PendingOnce`: `OnePendingPerEmail`, stated as uniqueness to be inductive
  (`PendingUnique`) and turned into the count at the end;
- `AnswersTrue`: `AnswersAreTrue`, and from the same invariant `OneAccount`:
  `OneAccountPerInvitation`;
- `LastEventStands`: `MembershipIsLastEvent`, which is inductive with `AdminInv`
  once "the last event about a member" is stated by its position in the outbox:
  a step that appends an event about one member leaves the last of every other
  where it was, and writes the row the event tells.

Records of a tenant (`TenantRecordsProofs`):

- `KeyedOnce`: `KeysTakeEffectOnce` holds of all twelve operations, because every
  batch writes its row with what it does and an expired row still has its key
  (`KeysInv`).
- `RecordsTyped`: `TypeInv`, through `RecordsInv`.  The references alone are not
  inductive: `HandlerOK` says, per step of a handler, what it has checked that
  nothing takes back (its account is there, a code it looked up has the row it
  found or is its own to insert, the version it read was one of the row), and
  `Kept` says of every step that rows stay, names keep one row per code and
  versions grow, which is why a handler that waits keeps what it relies on.
- `RecordAnswersTrue`: `AnswersAreTrue`, with `AnswersInv`: a row of the
  idempotency table is of a handler that has written and tells what is stored
  (`RowOK`), no two rows have one key, and a call was told what such a row says
  (`HeardOK`).  A task that somebody else completed first has the version that the
  second completion announces, and a stage change announces a version that has
  been reached.
- `LastChosenIsPrimary`: `PrimaryIsLastChosen`, with `RecordsInv`.  Contacts are
  chosen in the order of the outbox, and clearing the old primary and inserting the
  new one are one batch.
- `OutboxIsTrue`: `OutboxTellsRecords`, through `TellsInv`.  Besides the property it
  says that a handler about to change a row has read a version of at least one
  (`SeenOK`), so no change announces the version of a creation, and that an event
  is about a row that is there (`EventsOK`), so the first event of a new row is
  that of its creation.

Calculations over stock (`StockViewsProofs`), for any list of balances, any bounds
and any row limit:

- `FefoIsAllocation`: `FefoAllocates`, by the loop invariant `FefoInv` (`Allotted`):
  the rows come to so far precede, in order of expiry, those still to come, each
  is recommended, all in full but for the last once nothing is left to allot, and
  what is recommended and what is left make what was wanted.
- `AgingIsPartition`: `AgingPartitions`, by `AgingInv` (`Tallied`): every band holds
  the quantity and the number of the rows seen that belong to it.  The step rests
  on `BandChosen`: the band `selectAgingBucket` finds, going through the bounds
  with strict and non-strict comparisons, is the one whose bounds the days are
  between (`BelowIsPrefix`: the bounds that lie below some days are the first ones).

Web client (`WebWorkspaceProofs`):

- `WorkspaceTyped`, `LatestSelectionShown`, `BoardIsOfSelection`: `TypeInv`,
  `UserLoadsShowSelection` and `BoardFollowsSelection` from one invariant,
  `WorkspaceInv == AppInv /\ BoardOK`.  Its heart is that a load of the user that is
  still current was started for the identity and tenant of now (`LoadsOK`), since
  whatever changes these starts a generation, and the same for the board's loads,
  since its effect does.
- `ReportedIsShown`: `OwnCommandsShown`, with `AcknowledgedOK`: what was reported
  is shown, or a load that is current has not asked for its read models yet or got
  them since.

Sums over sets (`SetSums`): `SumFunctionOnSet` of the community modules is defined
by a fold, and the library's induction theorems take the predicate as a parameter,
which the provers here cannot instantiate.  Its laws (the empty set, one element
more, disjoint union, monotonicity) are proved by a smallest counterexample
instead: a set that violates one has a subset of least cardinality that does
(`WFMin`), and that subset without one of its elements does not.

Only model-checked: the liveness properties `LoadingEnds` and `CommandsEnd`, since
fairness and ENABLED are outside what the proof system checks.  The refuted
statements have counterexamples and nothing to prove.
No module uses a RECURSIVE operator.

## What is not modelled, and why

- Identity: cryptography and a remote key set, with no state but a cache.
- Routing, contracts, migrations, deployment: nothing that runs side by side with
  anything.  Constraints and triggers the migrations install are in the batches.
- React components: rendering and forms.  A button of theirs is an action of the
  web client where it changes its state.
- Price lists, and the prices, discounts, taxes and totals of a quotation: a price
  list is written once and read by nothing, and the calculation has no state and
  checks its own range after each operation.
- The development bootstrap of a tenant, which is refused outside development.
- Lists and overviews: plain queries, except that the two that write on the way
  (expiry of invitations and of approval requests, the first look at the settings)
  are actions.
- The session check of inventory, sales, CRM and master data calls: it is one
  snapshot before the first step of the handler, and no property is about it; the
  two queries it makes are steps in `TenantAdministration`.
- `occurred_at`: taken before the batch, so its order may differ from the commit
  order.  Only the list of movements is sorted by it.
- In the web client: the texts of errors and notices, the stored tenant id changed
  by another tab, and effects that run twice in development.

## Plan

Done, in this order: the inventory ledger with its abstract ledger and proofs;
approvals with maker-checker and proofs; sales orders; tenant administration with
onboarding; master data, CRM and inventory settings over one database; the stock
calculations; the web client with its two providers; proofs of both refinements
and of every invariant and action property of the passing runs.

Left:

1. The stock of `SalesOrders` replaced by the balances of the ledger, so that a
   reservation meets real withdrawals instead of `MoveStock`.
2. Line and document totals within safe integers, as operators against a
   reference definition.
