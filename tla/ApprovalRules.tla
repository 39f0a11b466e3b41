--------------------------- MODULE ApprovalRules ---------------------------
(***************************************************************************)
(* What the maker-checker engine of apps/api/src/approvals.ts is about:    *)
(* users and their permissions, policies made of decision steps, and the   *)
(* commands a call can carry.  One tenant, and its one policy for          *)
(* platform.module-entitlement.set, the only supported action.             *)
(***************************************************************************)
EXTENDS Integers, FiniteSets, Sequences

CONSTANTS
  Users,     \* members of the tenant
  Granted,   \* the permissions each user's roles give
  Modules,   \* module keys; one of them is "platform"
  Policies,  \* the step lists an administrator may configure
  Keys,      \* Idempotency-Key values
  Calls,     \* HTTP calls; a request and a row is named by the call that made it
  Commands   \* what each call may ask

Permissions ==
  {"platform.approvals.read", "platform.approvals.request",
   "platform.approvals.decide", "platform.approval-policies.manage",
   "platform.modules.manage"}

\* approval_policy_steps, and the copy of a row in approval_request_steps.
Rule == [required : Permissions, minimum : Nat \ {0}, self : BOOLEAN]

None == "none"

\* Decisions as normalized by decideApprovalRequest.
Decisions == {"approve", "reject"}

Ops == {"create", "decide", "cancel", "upsert", "set", "read"}

Command ==
  [op : Ops, user : Users, key : Keys,
   module   : Modules \cup {None},      \* create, set
   enabled  : BOOLEAN,                  \* create, set, upsert
   request  : Calls \cup {None},        \* decide, cancel
   decision : Decisions \cup {None},    \* decide
   steps    : Policies \cup {<<>>}]     \* upsert

\* Input validation: a call past its parsers has the fields of its route.
WellFormed(cmd) ==
  /\ cmd.op \in {"create", "set"} => cmd.module \in Modules
  /\ cmd.op \in {"decide", "cancel"} => cmd.request \in Calls
  /\ cmd.op = "decide" => cmd.decision \in Decisions
  /\ cmd.op = "upsert" => cmd.steps \in Policies

ASSUME ApprovalAssumption ==
  /\ IsFiniteSet(Calls)
  /\ None \notin Calls
  /\ None \notin Modules
  /\ "platform" \in Modules
  /\ Policies \subseteq Seq(Rule) \ {<<>>}
  /\ Granted \in [Users -> SUBSET Permissions]
  /\ \A c \in Calls : Commands[c] \subseteq { cmd \in Command : WellFormed(cmd) }

\* requireApprovalAccess, per route; the direct entitlement route checks
\* platform.modules.manage later.
AccessPermission(op) ==
  CASE op \in {"create", "cancel"} -> "platform.approvals.request"
    [] op = "decide" -> "platform.approvals.decide"
    [] op = "upsert" -> "platform.approval-policies.manage"
    [] op = "set"    -> "platform.modules.manage"
    [] op = "read"   -> "platform.approvals.read"

MayCall(cmd) == AccessPermission(cmd.op) \in Granted[cmd.user]

\* Who may decide a step of whose request.
MayDecide(u, rule, requester) ==
  /\ {"platform.approvals.decide", rule.required} \subseteq Granted[u]
  /\ u # requester \/ rule.self
============================================================================
