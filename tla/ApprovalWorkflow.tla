-------------------------- MODULE ApprovalWorkflow --------------------------
(***************************************************************************)
(* The approval handlers of apps/api/src/approvals.ts and the direct       *)
(* entitlement change of apps/api/src/platform.ts, over the control        *)
(* database.  A handler awaits one query after another, each a step of its *)
(* own, and writes in one D1 batch, which commits or aborts as a whole.    *)
(* Time passes between any two steps: requests reach their deadline        *)
(* (7 days) and idempotency rows theirs (24 hours).                        *)
(***************************************************************************)
EXTENDS ApprovalRules

VARIABLES
  policy,       \* approval_policies and its approval_policy_steps
  modules,      \* tenant_modules
  approvals,    \* approval_requests with approval_request_steps, per creating call
  decisions,    \* approval_decisions
  idempotency,  \* idempotency_keys
  events,       \* audit and outbox rows of approval commands
  changes,      \* outbox rows platform.module-entitlement.changed.v1
  due,          \* requests whose expires_at has passed
  pc,           \* where each call's handler is
  command,      \* what each call asks
  seen,         \* what each handler keeps from its queries
  answer        \* what each call was answered

tables == <<policy, modules, approvals, decisions, idempotency, events, changes>>
handlers == <<pc, command, seen, answer>>
vars == <<policy, modules, approvals, decisions, idempotency, events, changes,
          due, pc, command, seen, answer>>

NoRequest == [status |-> None]

NoCommand == [op |-> None]

\* A session is resolved when the call arrives and not read again.
NothingSeen == [admitted |-> FALSE, version |-> 0, steps |-> <<>>, step |-> 0,
                late |-> {}]

Unanswered == [kind |-> None, by |-> None]

Statuses == {"pending", "approved", "rejected", "cancelled", "expired"}

----------------------------------------------------------------------------
(* Rows and what the batches make of them.                                 *)

\* The snapshot a request keeps and the state that moves.
NewRequest(c) ==
  [requester |-> command[c].user,
   module    |-> command[c].module,
   enabled   |-> command[c].enabled,
   steps     |-> seen[c].steps,
   progress  |-> [n \in DOMAIN seen[c].steps |-> [status |-> "pending", approved |-> 0]],
   current   |-> 1,
   status    |-> "pending"]

Exists(r) == approvals[r] # NoRequest

Pending(r) == approvals[r].status = "pending"

\* scope, idempotency_key and request_hash of a call's command.  The expected
\* module version is part of a create's payload and so of its hash.
Claim(c) ==
  [op   |-> command[c].op, module |-> command[c].module,
   request |-> command[c].request, step |-> seen[c].step,
   user |-> IF command[c].op = "decide" THEN command[c].user ELSE None,
   key  |-> command[c].key]

Hash(c) ==
  [enabled  |-> command[c].enabled,
   expected |-> IF command[c].op = "create" THEN seen[c].version ELSE 0,
   decision |-> command[c].decision,
   steps    |-> command[c].steps,
   user     |-> IF command[c].op = "cancel" THEN command[c].user ELSE None]

Row(c) == [claim |-> Claim(c), hash |-> Hash(c), by |-> c, live |-> TRUE]

Claimed(c) == { row \in idempotency : row.claim = Claim(c) }

\* readReplay and readIdempotency skip expired rows.
LiveClaimed(c) == { row \in Claimed(c) : row.live }

Decided(r, n, u) ==
  \E d \in decisions : d.request = r /\ d.step = n /\ d.user = u

Decision(c) ==
  [request |-> command[c].request, step |-> seen[c].step,
   user |-> command[c].user, decision |-> command[c].decision, by |-> c]

Approvals(r, n, rows) ==
  { d \in rows : d.request = r /\ d.step = n /\ d.decision = "approve" }

\* The UPDATE of the decided step, in force only while that step is pending.
DecidedStep(r, n, decision, rows) ==
  LET old   == approvals[r].progress[n]
      count == Cardinality(Approvals(r, n, rows))
  IN  IF old.status # "pending" THEN old
      ELSE IF decision = "reject" THEN [old EXCEPT !.status = "rejected"]
      ELSE [status |-> IF count >= approvals[r].steps[n].minimum
                       THEN "approved" ELSE "pending",
            approved |-> count]

\* Mutants: the request UPDATE forgets the request's own state, or the end of
\* its steps.
Completes_AnyStatus(r, n, step) ==
  /\ approvals[r].current = n
  /\ step.status = "approved"
  /\ n = Len(approvals[r].steps)

Completes_AnyStep(r, n, step) ==
  /\ Pending(r) /\ approvals[r].current = n
  /\ step.status = "approved"

\* finalStepCondition: this decision ends the last step of a pending request.
Completes(r, n, step) ==
  /\ Pending(r) /\ approvals[r].current = n
  /\ step.status = "approved"
  /\ n = Len(approvals[r].steps)

Advances(r, n, step) ==
  /\ Pending(r) /\ approvals[r].current = n
  /\ step.status = "approved"
  /\ n < Len(approvals[r].steps)

\* Mutant: a late rejection overrules the resolution.
Rejects_AnyStatus(r, n, decision) ==
  decision = "reject" /\ approvals[r].current = n

Rejects(r, n, decision) ==
  decision = "reject" /\ Pending(r) /\ approvals[r].current = n

\* The request and its step after the batch of one decision.
DecidedRequest(r, n, decision, rows) ==
  LET step == DecidedStep(r, n, decision, rows)
  IN  [approvals[r] EXCEPT
         !.progress[n] = step,
         !.current = IF decision = "approve" /\ Advances(r, n, step) THEN n + 1 ELSE @,
         !.status  = IF decision = "approve" /\ Completes(r, n, step) THEN "approved"
                     ELSE IF Rejects(r, n, decision) THEN "rejected" ELSE @]

Changed(m, enabled) == [enabled |-> enabled, version |-> modules[m].version + 1]

Event(type, r, c) == [type |-> type, request |-> r, by |-> c]

Change(m, enabled, version, r, c) ==
  [module |-> m, enabled |-> enabled, version |-> version, request |-> r, by |-> c]

----------------------------------------------------------------------------
(* The handlers.                                                           *)

\* A tenant has all its modules, and its default policy with its one step.
Init ==
  /\ policy \in [enabled : BOOLEAN, steps : Policies]
  /\ modules \in [Modules -> [enabled : BOOLEAN, version : {1}]]
  /\ modules["platform"].enabled
  /\ approvals = [r \in Calls |-> NoRequest]
  /\ decisions = {} /\ idempotency = {} /\ events = {} /\ changes = {}
  /\ due = {}
  /\ pc = [c \in Calls |-> "idle"]
  /\ command = [c \in Calls |-> NoCommand]
  /\ seen = [c \in Calls |-> NothingSeen]
  /\ answer = [c \in Calls |-> Unanswered]

Goto(c, step) == pc' = [pc EXCEPT ![c] = step] /\ UNCHANGED answer

Respond(c, kind, by) ==
  /\ pc' = [pc EXCEPT ![c] = "done"]
  /\ answer' = [answer EXCEPT ![c] = [kind |-> kind, by |-> by]]

Refuse(c, kind) == Respond(c, kind, None)

\* A handler step that writes nothing.
ReadOnly == UNCHANGED tables /\ UNCHANGED <<due, command>>

FirstStep(op) ==
  CASE op = "create" -> "module"
    [] op \in {"decide", "cancel"} -> "pending"
    [] op = "upsert" -> "replay"
    [] op = "set" -> "direct"
    [] op = "read" -> "late"

\* The session is resolved and, except on the direct route, which looks at the
\* policy first, access is checked: the platform module and the permission.
Arrive(c) ==
  /\ pc[c] = "idle"
  /\ \E cmd \in Commands[c] :
       LET admitted == modules["platform"].enabled /\ MayCall(cmd)
       IN  /\ command' = [command EXCEPT ![c] = cmd]
           /\ seen' = [seen EXCEPT
                ![c].admitted = admitted,
                ![c].version = IF cmd.op = "set" THEN modules[cmd.module].version ELSE 0]
           /\ IF admitted \/ cmd.op = "set" THEN Goto(c, FirstStep(cmd.op))
                                            ELSE Refuse(c, "forbidden")
  /\ UNCHANGED tables
  /\ UNCHANGED due

\* validateSupportedAction
ReadModule(c) ==
  /\ pc[c] = "module"
  /\ \/ /\ modules[command[c].module].enabled = command[c].enabled
        /\ Refuse(c, "no-change")
        /\ UNCHANGED seen
     \/ /\ modules[command[c].module].enabled # command[c].enabled
        /\ seen' = [seen EXCEPT ![c].version = modules[command[c].module].version]
        /\ Goto(c, "policy")
  /\ ReadOnly

\* loadEnabledPolicyByKey: the policy row, then its steps.
ReadPolicy(c) ==
  /\ pc[c] = "policy"
  /\ \/ ~policy.enabled /\ Refuse(c, "policy-not-found")
     \/ policy.enabled /\ Goto(c, "steps")
  /\ ReadOnly
  /\ UNCHANGED seen

ReadPolicySteps(c) ==
  /\ pc[c] = "steps"
  /\ seen' = [seen EXCEPT ![c].steps = policy.steps]
  /\ Goto(c, "replay")
  /\ ReadOnly

\* requireDirectModuleChangeAllowed, then the access checks of
\* setModuleEntitlement against the session.
RequireDirectAllowed(c) ==
  /\ pc[c] = "direct"
  /\ \/ policy.enabled /\ Refuse(c, "approval-required")
     \/ ~policy.enabled /\ ~seen[c].admitted /\ Refuse(c, "forbidden")
     \/ ~policy.enabled /\ seen[c].admitted /\ Goto(c, "replay")
  /\ ReadOnly
  /\ UNCHANGED seen

\* loadPendingRequestState and the checks made on what it returns: the deadline
\* of a decision, the standing of a cancellation.
LoadPending(c) ==
  LET r == command[c].request
  IN
  /\ pc[c] = "pending"
  /\ \/ ~Exists(r) /\ Refuse(c, "not-found") /\ UNCHANGED seen
     \/ Exists(r) /\ ~Pending(r) /\ Refuse(c, "resolved") /\ UNCHANGED seen
     \/ /\ Exists(r) /\ Pending(r) /\ command[c].op = "decide"
        /\ seen' = [seen EXCEPT ![c].step = approvals[r].current]
        /\ Goto(c, IF r \in due THEN "late" ELSE "step")
     \/ /\ Exists(r) /\ Pending(r) /\ command[c].op = "cancel"
        /\ UNCHANGED seen
        /\ IF \/ command[c].user = approvals[r].requester
              \/ "platform.approvals.decide" \in Granted[command[c].user]
           THEN Goto(c, "replay")
           ELSE Refuse(c, "forbidden")
  /\ ReadOnly

\* expireApprovalRequests: a read goes on to its answer, a late decision to
\* its refusal.
AfterExpiry(c) == IF command[c].op = "decide" THEN Refuse(c, "expired")
                                             ELSE Respond(c, "ok", c)

ReadLate(c) ==
  LET late == { r \in due : Exists(r) /\ Pending(r) }
  IN
  /\ pc[c] = "late"
  /\ seen' = [seen EXCEPT ![c].late = late]
  /\ IF late = {} THEN AfterExpiry(c) ELSE Goto(c, "expire")
  /\ ReadOnly

\* The status is checked again by the UPDATE, not by the audit and outbox rows.
Expire(c) ==
  /\ pc[c] = "expire"
  /\ approvals' = [r \in Calls |-> IF r \in seen[c].late /\ Pending(r)
                                   THEN [approvals[r] EXCEPT !.status = "expired"]
                                   ELSE approvals[r]]
  /\ events' = events \cup { Event("expired", r, c) : r \in seen[c].late }
  /\ AfterExpiry(c)
  /\ UNCHANGED <<policy, modules, decisions, idempotency, changes, due, command, seen>>

\* The current step, the maker-checker rule and the step's permission.
CheckStep(c) ==
  LET a    == approvals[command[c].request]
      rule == a.steps[seen[c].step]
  IN
  /\ pc[c] = "step"
  /\ IF a.progress[seen[c].step].status # "pending" THEN Refuse(c, "step-not-pending")
     ELSE IF ~MayDecide(command[c].user, rule, a.requester) THEN Refuse(c, "forbidden")
     ELSE Goto(c, "replay")
  /\ ReadOnly
  /\ UNCHANGED seen

\* readReplay, readIdempotency
ReadReplay(c) ==
  /\ pc[c] = "replay"
  /\ \/ \E row \in LiveClaimed(c) :
          IF row.hash = Hash(c) THEN Respond(c, "replayed", row.by)
                                ELSE Refuse(c, "key-conflict")
     \/ LiveClaimed(c) = {} /\ Goto(c, IF command[c].op = "decide" THEN "duplicate"
                                                                  ELSE "batch")
  /\ ReadOnly
  /\ UNCHANGED seen

CheckDuplicate(c) ==
  /\ pc[c] = "duplicate"
  /\ \/ /\ Decided(command[c].request, seen[c].step, command[c].user)
        /\ Refuse(c, "already-decided")
     \/ /\ ~Decided(command[c].request, seen[c].step, command[c].user)
        /\ Goto(c, "batch")
  /\ ReadOnly
  /\ UNCHANGED seen

\* Mutant: approval_decisions without its unique key.
Stopped_NoDecisionKey(c) == Claimed(c) # {}

\* The primary key of idempotency_keys, which an expired row still occupies,
\* and UNIQUE (request_id, step_number, decider_user_id).
Stopped(c) ==
  \/ Claimed(c) # {}
  \/ /\ command[c].op = "decide"
     /\ Decided(command[c].request, seen[c].step, command[c].user)

\* What every committing batch does besides its own rows.
Committed(c) ==
  /\ pc[c] = "batch" /\ ~Stopped(c)
  /\ idempotency' = idempotency \cup {Row(c)}
  /\ Respond(c, "ok", c)
  /\ UNCHANGED <<due, command, seen>>

CommitCreate(c) ==
  /\ command[c].op = "create"
  /\ Committed(c)
  /\ approvals' = [approvals EXCEPT ![c] = NewRequest(c)]
  /\ events' = events \cup {Event("created", c, c)}
  /\ UNCHANGED <<policy, modules, decisions, changes>>

\* Decision, step, module and request in one batch, in this order.
CommitDecide(c) ==
  LET r    == command[c].request
      n    == seen[c].step
      rows == decisions \cup {Decision(c)}
      step == DecidedStep(r, n, command[c].decision, rows)
      done == command[c].decision = "approve" /\ Completes(r, n, step)
      m    == approvals[r].module
      new  == Changed(m, approvals[r].enabled)
  IN
  /\ command[c].op = "decide"
  /\ Committed(c)
  /\ decisions' = rows
  /\ approvals' = [approvals EXCEPT ![r] = DecidedRequest(r, n, command[c].decision, rows)]
  /\ modules' = IF done THEN [modules EXCEPT ![m] = new] ELSE modules
  /\ changes' = IF done THEN changes \cup {Change(m, new.enabled, new.version, r, c)}
                        ELSE changes
  /\ events' = events \cup {Event("decided", r, c)}
  /\ UNCHANGED policy

\* Mutant: a cancellation does not look at the status again.
CommitCancel_AnyStatus(c) ==
  /\ command[c].op = "cancel"
  /\ Committed(c)
  /\ approvals' = [approvals EXCEPT ![command[c].request].status = "cancelled"]
  /\ events' = events \cup {Event("cancelled", command[c].request, c)}
  /\ UNCHANGED <<policy, modules, decisions, changes>>

\* The status is checked again by the UPDATE only.
CommitCancel(c) ==
  /\ command[c].op = "cancel"
  /\ Committed(c)
  /\ approvals' = [approvals EXCEPT ![command[c].request].status =
                     IF Pending(command[c].request) THEN "cancelled" ELSE @]
  /\ events' = events \cup {Event("cancelled", command[c].request, c)}
  /\ UNCHANGED <<policy, modules, decisions, changes>>

\* Mutant: the deleted steps are not inserted anew.
CommitUpsert_StepsLost(c) ==
  /\ command[c].op = "upsert"
  /\ Committed(c)
  /\ policy' = [enabled |-> command[c].enabled, steps |-> <<>>]
  /\ events' = events \cup {Event("policy-changed", None, c)}
  /\ UNCHANGED <<modules, approvals, decisions, changes>>

\* The steps of the policy are deleted and inserted anew.
CommitUpsert(c) ==
  /\ command[c].op = "upsert"
  /\ Committed(c)
  /\ policy' = [enabled |-> command[c].enabled, steps |-> command[c].steps]
  /\ events' = events \cup {Event("policy-changed", None, c)}
  /\ UNCHANGED <<modules, approvals, decisions, changes>>

\* setModuleEntitlement: the version announced is the session's plus one.
CommitDirect(c) ==
  LET m == command[c].module
  IN
  /\ command[c].op = "set"
  /\ Committed(c)
  /\ modules' = [modules EXCEPT ![m] = Changed(m, command[c].enabled)]
  /\ changes' = changes \cup
       {Change(m, command[c].enabled, seen[c].version + 1, None, c)}
  /\ UNCHANGED <<policy, approvals, decisions, events>>

\* A batch that hits a unique key leaves nothing behind.  Only a cancellation
\* has no catch block.
Abort(c) ==
  /\ pc[c] = "batch" /\ Stopped(c)
  /\ IF command[c].op = "cancel" THEN Refuse(c, "server-error") ELSE Goto(c, "catch")
  /\ ReadOnly
  /\ UNCHANGED seen

\* Mutant: a stopped batch is taken for a replay.
CatchAbort_Swallows(c) ==
  /\ pc[c] = "catch"
  /\ Respond(c, "ok", c)
  /\ ReadOnly
  /\ UNCHANGED seen

\* The catch block: the concurrent call with the same key, or the error.
CatchAbort(c) ==
  /\ pc[c] = "catch"
  /\ \/ \E row \in LiveClaimed(c) :
          IF row.hash = Hash(c) THEN Respond(c, "replayed", row.by)
                                ELSE Refuse(c, "key-conflict")
     \/ LiveClaimed(c) = {} /\ Refuse(c, "server-error")
  /\ ReadOnly
  /\ UNCHANGED seen

\* Seven days, and twenty-four hours.
Deadline(r) ==
  /\ Exists(r) /\ r \notin due
  /\ due' = due \cup {r}
  /\ UNCHANGED tables /\ UNCHANGED handlers

Aged(row) == [claim |-> row.claim, hash |-> row.hash, by |-> row.by, live |-> FALSE]

ExpireKey(row) ==
  /\ row.live
  /\ idempotency' = (idempotency \ {row}) \cup {Aged(row)}
  /\ UNCHANGED <<policy, modules, approvals, decisions, events, changes, due>>
  /\ UNCHANGED handlers

Step(c) ==
  \/ ReadModule(c) \/ ReadPolicy(c) \/ ReadPolicySteps(c)
  \/ RequireDirectAllowed(c)
  \/ LoadPending(c) \/ ReadLate(c) \/ Expire(c) \/ CheckStep(c)
  \/ ReadReplay(c) \/ CheckDuplicate(c)
  \/ CommitCreate(c) \/ CommitDecide(c) \/ CommitCancel(c)
  \/ CommitUpsert(c) \/ CommitDirect(c)
  \/ Abort(c) \/ CatchAbort(c)

\* Every call has been answered.
Quiet == (\A c \in Calls : pc[c] = "done") /\ UNCHANGED vars

Next ==
  \/ \E c \in Calls : Arrive(c) \/ Step(c)
  \/ \E r \in Calls : Deadline(r)
  \/ \E row \in idempotency : ExpireKey(row)
  \/ Quiet

Spec == Init /\ [][Next]_vars

----------------------------------------------------------------------------
(* Properties.                                                             *)

StepState == [status : {"pending", "approved", "rejected"}, approved : Nat]

RequestRow ==
  [requester : Users, module : Modules, enabled : BOOLEAN, steps : Policies,
   progress : Seq(StepState), current : Nat, status : Statuses]

DecisionRow ==
  [request : Calls, step : Nat, user : Users, decision : Decisions, by : Calls]

SeenSet == [admitted : BOOLEAN, version : Nat, steps : Policies \cup {<<>>},
            step : Nat, late : SUBSET Calls]

PCs == {"idle", "module", "policy", "steps", "direct", "pending", "late", "expire",
        "step", "replay", "duplicate", "batch", "catch", "done"}

Refusals == {"forbidden", "no-change", "policy-not-found", "approval-required",
             "not-found", "resolved", "expired", "step-not-pending", "key-conflict",
             "already-decided", "server-error"}

AnswerSet == [kind : Refusals \cup {None, "ok", "replayed"}, by : Calls \cup {None}]

IsRow(row) ==
  /\ row = [claim |-> row.claim, hash |-> row.hash, by |-> row.by, live |-> row.live]
  /\ row.by \in Calls

\* The rows of the tables and the state of the handlers have their shape.
TablesShape ==
  /\ policy \in [enabled : BOOLEAN, steps : Policies]
  /\ modules \in [Modules -> [enabled : BOOLEAN, version : Nat]]
  /\ approvals \in [Calls -> RequestRow \cup {NoRequest}]
  /\ decisions \subseteq DecisionRow /\ IsFiniteSet(decisions)
  /\ \A row \in idempotency : IsRow(row)
  /\ changes \subseteq [module : Modules, enabled : BOOLEAN, version : Nat,
                       request : Calls \cup {None}, by : Calls]
  /\ due \subseteq Calls

HandlersShape ==
  /\ pc \in [Calls -> PCs]
  /\ command \in [Calls -> Command \cup {NoCommand}]
  /\ seen \in [Calls -> SeenSet]
  /\ answer \in [Calls -> AnswerSet]

TypeOK == TablesShape /\ HandlersShape

\* A handler is where its operation takes it, past its arrival it knows its
\* command, and it writes only what it has read: the steps of a policy for a
\* new request, the standing of the member for a decision.
RouteOK(c) ==
  /\ pc[c] # "idle" => command[c] \in Command /\ WellFormed(command[c])
  /\ pc[c] \in {"module", "policy", "steps"} => command[c].op = "create"
  /\ pc[c] = "pending" => command[c].op \in {"decide", "cancel"}
  /\ pc[c] \in {"late", "expire"} => command[c].op \in {"read", "decide"}
  /\ pc[c] \in {"step", "duplicate"} => command[c].op = "decide"
  /\ pc[c] = "direct" => command[c].op = "set"

DeciderOK(c) ==
  LET r == command[c].request
  IN  /\ Exists(r)
      /\ seen[c].step \in DOMAIN approvals[r].steps
      /\ pc[c] # "step" =>
           MayDecide(command[c].user, approvals[r].steps[seen[c].step],
                     approvals[r].requester)

BeforeBatch == {"replay", "duplicate", "batch"}

HandlerOK(c) ==
  /\ RouteOK(c)
  /\ Exists(c) => pc[c] = "done"
  /\ \A r \in seen[c].late : Exists(r)
  /\ pc[c] \in BeforeBatch =>
       /\ command[c].op = "create" => seen[c].steps \in Policies
       /\ command[c].op = "cancel" => Exists(command[c].request)
  /\ (pc[c] \in BeforeBatch \cup {"step"} /\ command[c].op = "decide") => DeciderOK(c)

HandlersOK == \A c \in Calls : HandlerOK(c)

\* A request's state is about the steps of its own snapshot.
RequestOK(r) ==
  /\ DOMAIN approvals[r].progress = DOMAIN approvals[r].steps
  /\ approvals[r].current \in DOMAIN approvals[r].steps

RequestsOK == \A r \in Calls : Exists(r) => RequestOK(r)

TypeInv == TypeOK /\ HandlersOK /\ RequestsOK

\* An approved request was approved, at each of its steps, by as many members
\* as the rule in its snapshot asks, all different, each holding the step's
\* permission, and its requester among them only where the rule allows it
\* (docs/APPROVALS.md), whatever decisions raced, were retried or came late.
Approvers(r, n) == { d.user : d \in Approvals(r, n, decisions) }

FourEyes ==
  \A r \in Calls : (Exists(r) /\ approvals[r].status = "approved") =>
    \A n \in DOMAIN approvals[r].steps :
      /\ Cardinality(Approvers(r, n)) >= approvals[r].steps[n].minimum
      /\ \A u \in Approvers(r, n) :
           MayDecide(u, approvals[r].steps[n], approvals[r].requester)

\* Why: decisions are unique and their members may decide; the steps counted as
\* approved have their rows; a request's finished steps are approved ones.
DecisionsOK ==
  /\ \A d \in decisions :
       /\ Exists(d.request)
       /\ d.step \in DOMAIN approvals[d.request].steps
       /\ MayDecide(d.user, approvals[d.request].steps[d.step],
                    approvals[d.request].requester)
  /\ \A d, e \in decisions :
       (d.request = e.request /\ d.step = e.step /\ d.user = e.user) => d = e

StepsBacked ==
  \A r \in Calls : Exists(r) =>
    \A n \in DOMAIN approvals[r].steps :
      /\ approvals[r].progress[n].status = "approved" =>
           Cardinality(Approvals(r, n, decisions)) >= approvals[r].steps[n].minimum
      /\ (n < approvals[r].current \/ approvals[r].status = "approved") =>
           approvals[r].progress[n].status = "approved"

FourEyesInv == TypeInv /\ DecisionsOK /\ StepsBacked

\* Modules change by approval or by a direct change, each announced once: an
\* approved request changed its module exactly once, to what it asked for, any
\* other request not at all, and no version is without its change.
ChangesOf(r) == { x \in changes : x.request = r }

ExecutedOnceIffApproved ==
  /\ \A r \in Calls :
       IF Exists(r) /\ approvals[r].status = "approved"
       THEN \E x \in changes : /\ ChangesOf(r) = {x}
                               /\ x.module = approvals[r].module
                               /\ x.enabled = approvals[r].enabled
       ELSE ChangesOf(r) = {}
  /\ \A m \in Modules :
       modules[m].version = 1 + Cardinality({ x \in changes : x.module = m })

\* The steps are taken in order: those before the current one are approved,
\* those after it untouched, and while a request waits so does its current step.
StepsInOrder ==
  \A r \in Calls : Exists(r) =>
    LET a == approvals[r]
    IN  /\ a.current \in DOMAIN a.steps
        /\ \A n \in 1 .. a.current - 1 : a.progress[n].status = "approved"
        /\ \A n \in a.current + 1 .. Len(a.steps) :
             /\ a.progress[n] = [status |-> "pending", approved |-> 0]
             /\ \A d \in decisions : ~(d.request = r /\ d.step = n)
        /\ a.status = "pending"  => a.progress[a.current].status = "pending"
        /\ a.status = "approved" => /\ a.current = Len(a.steps)
                                    /\ a.progress[a.current].status = "approved"
        /\ a.status = "rejected" => \E d \in decisions :
             d.request = r /\ d.step = a.current /\ d.decision = "reject"

\* What a call is told is true: a success, replayed or not, is the work of the
\* call it names, under the same idempotency claim and payload; a refusal or
\* error wrote nothing but the clean-up of expired requests.
Wrote(c) ==
  \/ Exists(c)
  \/ \E d \in decisions : d.by = c
  \/ \E x \in changes : x.by = c
  \/ \E e \in events : e.by = c /\ e.type # "expired"

AnswersAreTrue ==
  \A c \in Calls :
    /\ answer[c].kind \in Refusals => ~Wrote(c)
    /\ (answer[c].kind \in {"ok", "replayed"} /\ command[c].op # "read") =>
         /\ Wrote(answer[c].by)
         /\ Claim(c) = Claim(answer[c].by)
         /\ Hash(c) = Hash(answer[c].by)

\* A resolved request is resolved for good, with the rules, payload and
\* requester it was created with; a row that was written is never taken back.
ResolutionIsFinal ==
  [][/\ \A r \in Calls : Exists(r) =>
          /\ Pending(r) \/ approvals'[r].status = approvals[r].status
          /\ approvals'[r].requester = approvals[r].requester
          /\ approvals'[r].module = approvals[r].module
          /\ approvals'[r].enabled = approvals[r].enabled
          /\ approvals'[r].steps = approvals[r].steps
     /\ decisions \subseteq decisions' /\ changes \subseteq changes'
     /\ events \subseteq events']_vars

\* The handlers implement the abstract control: the batch that resolves a
\* request is the step that resolves its ballot, and changes its module with it.
Ballot(r) ==
  IF Exists(r)
  THEN [requester |-> approvals[r].requester, module |-> approvals[r].module,
        enabled |-> approvals[r].enabled, steps |-> approvals[r].steps,
        status |-> approvals[r].status]
  ELSE NoRequest

Signatures ==
  { <<d.request, d.step, d.user>> : d \in { x \in decisions : x.decision = "approve" } }

Control == INSTANCE MakerChecker WITH
  ballots <- [r \in Calls |-> Ballot(r)],
  signed  <- Signatures

ImplementsMakerChecker == Control!Spec

----------------------------------------------------------------------------
(* What the documentation says and the handlers do not do.                 *)

\* docs/APPROVALS.md: expired, rejected, cancelled and approved requests cannot
\* be decided again.  No decision is recorded on a resolved request.
ResolvedIsNotDecided ==
  [][\A d \in decisions' \ decisions : Pending(d.request)]_vars

\* docs/APPROVALS.md: direct actions fail closed while a matching enabled
\* policy exists.  No direct change is made then.
DirectFailsClosed ==
  [][policy.enabled => \A x \in changes' \ changes : x.request # None]_vars
============================================================================
