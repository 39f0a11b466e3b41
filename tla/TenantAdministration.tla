------------------------ MODULE TenantAdministration ------------------------
(***************************************************************************)
(* The invitation and membership handlers of apps/api/src/administration.ts *)
(* for one tenant of the control database, with the session that platform.ts *)
(* resolves before them, and the onboarding of other tenants, which has no *)
(* session and shares the users.  A handler awaits one query after another and     *)
(* writes in one D1 batch; invitations reach expires_at and idempotency    *)
(* rows their 24 hours between any two steps.                              *)
(* A person is a verified identity: a subject with its email, which two    *)
(* subjects may share.  An invitation is named by the call that made it.   *)
(***************************************************************************)
EXTENDS Integers, FiniteSets, Sequences

CONSTANTS
  Calls,       \* HTTP calls
  Earlier,     \* invitations that are there from the beginning
  Beginnings,  \* the tenant when the behaviour starts
  People, Emails, EmailOf,
  Slugs,       \* what tenants are called in addresses
  Keys,        \* Idempotency-Key values
  Lapsing,     \* invitations whose expires_at may fall in the behaviour
  Commands     \* what each call may ask

None == "none"

Invitations == Calls \cup Earlier

Roles == {"tenant-admin", "operator", "viewer"}

RoleSets == SUBSET Roles \ {{}}

Ops == {"onboard", "invite", "accept", "revoke", "update", "list"}

Command ==
  [op : Ops, caller : People,
   key        : Keys \cup {None},                \* onboard, invite, revoke, update
   slug       : Slugs \cup {None},                       \* onboard
   email      : Emails \cup {None},                      \* invite
   invitation : Invitations \cup {None},                 \* accept, revoke
   person     : People \cup {None},                      \* onboard, update
   status     : {"active", "suspended", None},           \* update
   roles      : RoleSets \cup {{}}]                      \* invite, update

WellFormed(cmd) ==
  /\ cmd.op \in {"onboard", "invite", "revoke", "update"} => cmd.key \in Keys
  /\ cmd.op = "onboard" => cmd.person = cmd.caller /\ cmd.slug \in Slugs
  /\ cmd.op \in {"invite", "update"} => cmd.roles \in RoleSets
  /\ cmd.op = "invite" => cmd.email \in Emails
  /\ cmd.op \in {"accept", "revoke"} => cmd.invitation \in Invitations
  /\ cmd.op = "update" => cmd.person \in People /\ cmd.status # None

Membership == [status : {"active", "suspended"}, roles : RoleSets]

NoMember == [status |-> None, roles |-> {}]
NoInvitation == [status |-> None]
NoCommand == [op |-> None]
NothingSeen == [removes |-> FALSE, admins |-> 0, account |-> FALSE]
Unanswered == [kind |-> None, by |-> None]

\* The active administrators among these members: the count of updateMembership.
AdminsOf(members) ==
  { p \in People : members[p].status = "active" /\ "tenant-admin" \in members[p].roles }

Pending(email, roles) ==
  [email |-> email, roles |-> roles, status |-> "pending", version |-> 1]

ASSUME AdministrationAssumption ==
  /\ IsFiniteSet(Calls) /\ IsFiniteSet(People)
  /\ None \notin Invitations \cup People \cup Emails \cup Keys \cup Slugs
  /\ Calls \cap Earlier = {}
  /\ EmailOf \in [People -> Emails]
  /\ Lapsing \subseteq Invitations
  /\ \A b \in Beginnings :
       /\ b.accounts \subseteq People /\ b.slug \in Slugs
       /\ b.members \in [People -> Membership \cup {NoMember}]
       /\ \A p \in People : b.members[p] # NoMember => p \in b.accounts
       /\ \A p, q \in b.accounts : EmailOf[p] = EmailOf[q] => p = q
       /\ AdminsOf(b.members) # {}
       /\ b.invited \in [Earlier -> [email : Emails, roles : RoleSets]]
       /\ \A i, j \in Earlier : b.invited[i].email = b.invited[j].email => i = j
  /\ \A c \in Calls : Commands[c] \subseteq { cmd \in Command : WellFormed(cmd) }

VARIABLES
  tenants,      \* slugs of tenants with the call that onboarded each
  accounts,     \* people with a row in users
  memberships,  \* memberships with membership_roles
  invitations,  \* tenant_invitations with tenant_invitation_roles
  idempotency,  \* idempotency_keys and onboarding_requests
  events,       \* outbox_events, in the order of their batches
  overdue,      \* invitations past expires_at
  pc, command, seen, answer   \* the handlers, as in ApprovalWorkflow

tables == <<tenants, accounts, memberships, invitations, idempotency, events>>
handlers == <<pc, command, seen, answer>>
vars == <<tenants, accounts, memberships, invitations, idempotency, events, overdue,
          pc, command, seen, answer>>

----------------------------------------------------------------------------
(* Rows.                                                                   *)

Member(p) == memberships[p] # NoMember
Active(p) == memberships[p].status = "active"
Administrator(p) == "tenant-admin" \in memberships[p].roles
Admins == AdminsOf(memberships)

Invited(i) == invitations[i] # NoInvitation
IsPending(i) == invitations[i].status = "pending"

PendingFor(email) ==
  { i \in Invitations : Invited(i) /\ IsPending(i) /\ invitations[i].email = email }

\* The UPDATEs of an invitation all ask WHERE status = 'pending'.
Ended(i, status) ==
  IF IsPending(i)
  THEN [invitations EXCEPT ![i].status = status, ![i].version = @ + 1]
  ELSE invitations

\* Scope and key, and the payload of the request hash.
Claim(c) ==
  LET cmd == command[c]
  IN  [op |-> cmd.op, key |-> cmd.key, email |-> cmd.email,
       invitation |-> cmd.invitation, person |-> cmd.person]

Hash(c) ==
  [slug |-> command[c].slug, status |-> command[c].status, roles |-> command[c].roles]

Row(c) == [claim |-> Claim(c), hash |-> Hash(c), by |-> c, live |-> TRUE]

Claimed(c) == { row \in idempotency : row.claim = Claim(c) }

LiveClaimed(c) == { row \in Claimed(c) : row.live }

Event(type, invitation, person, status, roles, c) ==
  [type |-> type, invitation |-> invitation, person |-> person, status |-> status,
   roles |-> roles, by |-> c]

Created(i, roles, c) == Event("created", i, None, None, roles, c)

----------------------------------------------------------------------------
(* The handlers.                                                           *)

Init ==
  /\ \E b \in Beginnings :
       /\ tenants = {[slug |-> b.slug, by |-> None]}
       /\ accounts = b.accounts
       /\ memberships = b.members
       /\ invitations = [i \in Invitations |->
            IF i \in Calls THEN NoInvitation
                           ELSE Pending(b.invited[i].email, b.invited[i].roles)]
  /\ idempotency = {}
  /\ events = <<>>
  /\ overdue = {}
  /\ pc = [c \in Calls |-> "idle"]
  /\ command = [c \in Calls |-> NoCommand]
  /\ seen = [c \in Calls |-> NothingSeen]
  /\ answer = [c \in Calls |-> Unanswered]

Goto(c, step) == pc' = [pc EXCEPT ![c] = step] /\ UNCHANGED answer

Respond(c, kind, by) ==
  /\ pc' = [pc EXCEPT ![c] = "done"]
  /\ answer' = [answer EXCEPT ![c] = [kind |-> kind, by |-> by]]

Refuse(c, kind) == Respond(c, kind, None)

ReadOnly == UNCHANGED tables /\ UNCHANGED <<overdue, command>>

\* An onboarding and an acceptance come with an identity and no session; all
\* others resolve one, whose first query finds the caller's active membership.
Arrive(c) ==
  /\ pc[c] = "idle"
  /\ \E cmd \in Commands[c] :
       /\ command' = [command EXCEPT ![c] = cmd]
       /\ CASE cmd.op = "onboard" -> Goto(c, "replay")
            [] cmd.op = "accept"  -> Goto(c, "token")
            [] cmd.op \notin {"onboard", "accept"} /\ Active(cmd.caller) -> Goto(c, "access")
            [] OTHER              -> Refuse(c, "no-active-membership")
  /\ UNCHANGED tables
  /\ UNCHANGED <<overdue, seen>>

FirstStep(op) ==
  CASE op = "list" -> "expire" [] op = "update" -> "member"
    [] op \in {"invite", "revoke"} -> "replay"

\* The second query of resolveSession, the permission check of the route and,
\* for an update, the check against suspending oneself.  Every standard role
\* may list, only administrators may do the rest.
ReadAccess(c) ==
  LET cmd == command[c]
  IN
  /\ pc[c] = "access"
  /\ \/ /\ cmd.op # "list" /\ ~Administrator(cmd.caller)
        /\ Refuse(c, "forbidden")
     \/ /\ cmd.op = "list" \/ Administrator(cmd.caller)
        /\ IF cmd.op = "update" /\ cmd.person = cmd.caller /\ cmd.status = "suspended"
           THEN Refuse(c, "self-suspension")
           ELSE Goto(c, FirstStep(cmd.op))
  /\ ReadOnly
  /\ UNCHANGED seen

\* expireInvitations, on the way to the lists.
ExpireInvitations(c) ==
  /\ pc[c] = "expire"
  /\ invitations' = [i \in Invitations |->
       IF Invited(i) /\ IsPending(i) /\ i \in overdue
       THEN [invitations[i] EXCEPT !.status = "expired", !.version = @ + 1]
       ELSE invitations[i]]
  /\ Respond(c, "ok", c)
  /\ UNCHANGED <<tenants, accounts, memberships, idempotency, events, overdue, command, seen>>

AfterReplay(op) ==
  CASE op = "onboard" -> "slug" [] op = "invite" -> "members"
    [] op = "revoke" -> "invitation" [] op = "update" -> "batch"

\* Mutant: a key is recognised whatever was asked with it.
Replayed_AnyPayload(c, row) == Respond(c, "replayed", row.by)

\* readTenantReplay and readOnboardingReplay, before the batch and again after a
\* creation was stopped.
Replayed(c, row) ==
  IF row.hash = Hash(c) THEN Respond(c, "replayed", row.by)
                        ELSE Refuse(c, "key-conflict")

ReadReplay(c) ==
  /\ pc[c] = "replay"
  /\ \/ \E row \in LiveClaimed(c) : Replayed(c, row)
     \/ LiveClaimed(c) = {} /\ Goto(c, AfterReplay(command[c].op))
  /\ ReadOnly
  /\ UNCHANGED seen

\* onboardTenant
SlugTaken(slug) == \E t \in tenants : t.slug = slug

ReadSlug(c) ==
  /\ pc[c] = "slug"
  /\ IF SlugTaken(command[c].slug) THEN Refuse(c, "slug-conflict") ELSE Goto(c, "users")
  /\ ReadOnly
  /\ UNCHANGED seen

\* createInvitation: does the email belong to a member, whatever its status?
ReadMembers(c) ==
  LET taken == \E p \in People : Member(p) /\ EmailOf[p] = command[c].email
  IN
  /\ pc[c] = "members"
  /\ IF taken THEN Refuse(c, "already-member") ELSE Goto(c, "invites")
  /\ ReadOnly
  /\ UNCHANGED seen

ReadInvites(c) ==
  /\ pc[c] = "invites"
  /\ IF PendingFor(command[c].email) # {} THEN Refuse(c, "already-pending")
                                          ELSE Goto(c, "batch")
  /\ ReadOnly
  /\ UNCHANGED seen

\* acceptInvitation: the row of the token.
ReadToken(c) ==
  LET i == command[c].invitation
  IN
  /\ pc[c] = "token"
  /\ CASE ~Invited(i) \/ ~IsPending(i) -> Refuse(c, "not-found")
       [] Invited(i) /\ IsPending(i) /\ i \in overdue -> Goto(c, "lapse")
       [] OTHER -> IF invitations[i].email = EmailOf[command[c].caller]
                   THEN Goto(c, "users")
                   ELSE Refuse(c, "email-mismatch")
  /\ ReadOnly
  /\ UNCHANGED seen

\* The UPDATE of an overdue invitation, outside any batch.
Lapse(c) ==
  /\ pc[c] = "lapse"
  /\ invitations' = Ended(command[c].invitation, "expired")
  /\ Refuse(c, "expired")
  /\ UNCHANGED <<tenants, accounts, memberships, idempotency, events, overdue, command, seen>>

\* Another subject's account with one's own email.
EmailTaken(p) == \E q \in accounts : q # p /\ EmailOf[q] = EmailOf[p]

ReadUsers(c) ==
  LET p == command[c].caller
  IN
  /\ pc[c] = "users"
  /\ IF EmailTaken(p)
     THEN Refuse(c, "email-conflict") /\ UNCHANGED seen
     ELSE Goto(c, "batch") /\ seen' = [seen EXCEPT ![c].account = p \in accounts]
  /\ ReadOnly

\* updateMembership: the member, and the count if an administrator is removed.
RemovesAdmin(c) ==
  /\ Administrator(command[c].person)
  /\ command[c].status # "active" \/ "tenant-admin" \notin command[c].roles

ReadMember(c) ==
  /\ pc[c] = "member"
  /\ IF Member(command[c].person)
     THEN /\ Goto(c, IF RemovesAdmin(c) THEN "count" ELSE "replay")
          /\ seen' = [seen EXCEPT ![c].removes = RemovesAdmin(c)]
     ELSE Refuse(c, "not-found") /\ UNCHANGED seen
  /\ ReadOnly

\* Mutant: the last administrator is counted as one too many.
CountAdmins_OffByOne(c) ==
  /\ pc[c] = "count"
  /\ seen' = [seen EXCEPT ![c].admins = Cardinality(Admins)]
  /\ IF Cardinality(Admins) < 1 THEN Refuse(c, "last-administrator")
                                ELSE Goto(c, "replay")
  /\ ReadOnly

CountAdmins(c) ==
  /\ pc[c] = "count"
  /\ seen' = [seen EXCEPT ![c].admins = Cardinality(Admins)]
  /\ IF Cardinality(Admins) <= 1 THEN Refuse(c, "last-administrator")
                                 ELSE Goto(c, "replay")
  /\ ReadOnly

\* revokeInvitation: the status is read here and asked again in the batch.
LoadInvitation(c) ==
  LET i == command[c].invitation
  IN
  /\ pc[c] = "invitation"
  /\ CASE ~Invited(i)                   -> Refuse(c, "not-found")
       [] Invited(i) /\ ~IsPending(i)   -> Refuse(c, "not-pending")
       [] OTHER                         -> Goto(c, "batch")
  /\ ReadOnly
  /\ UNCHANGED seen

\* The user of an acceptance or onboarding cannot be written: the unique email
\* of users, or the foreign key of a membership whose account id is not the one
\* users kept, since it was made for a subject that has got its row meanwhile.
UserStops(c) ==
  LET p == command[c].caller
  IN  EmailTaken(p) \/ (~seen[c].account /\ p \in accounts)

\* The key of idempotency_keys or onboarding_requests.
KeyStops(c) == command[c].op # "accept" /\ Claimed(c) # {}

\* Mutant: tenant_invitations without its partial unique index.
Stopped_NoPendingIndex(c) ==
  \/ KeyStops(c)
  \/ command[c].op = "onboard" /\ SlugTaken(command[c].slug)
  \/ command[c].op \in {"onboard", "accept"} /\ UserStops(c)

\* Mutant: users without its unique email.
Stopped_NoEmailIndex(c) ==
  \/ KeyStops(c)
  \/ command[c].op = "invite" /\ PendingFor(command[c].email) # {}
  \/ command[c].op = "onboard" /\ SlugTaken(command[c].slug)
  \/ /\ command[c].op \in {"onboard", "accept"}
     /\ ~seen[c].account /\ command[c].caller \in accounts

\* What stops a batch: its key, the partial unique index on pending emails, the
\* unique slug of a tenant, or the user.
Stopped(c) ==
  \/ KeyStops(c)
  \/ command[c].op = "invite" /\ PendingFor(command[c].email) # {}
  \/ command[c].op = "onboard" /\ SlugTaken(command[c].slug)
  \/ command[c].op \in {"onboard", "accept"} /\ UserStops(c)

Committed(c) ==
  /\ pc[c] = "batch" /\ ~Stopped(c)
  /\ idempotency' = IF command[c].op = "accept" THEN idempotency
                                                ELSE idempotency \cup {Row(c)}
  /\ Respond(c, "ok", c)
  /\ UNCHANGED <<overdue, command, seen>>

\* A tenant with its roles, modules and membership of its administrator.
CommitOnboard(c) ==
  /\ command[c].op = "onboard"
  /\ Committed(c)
  /\ tenants' = tenants \cup {[slug |-> command[c].slug, by |-> c]}
  /\ accounts' = accounts \cup {command[c].caller}
  /\ events' = Append(events, Event("onboarded", None, None, None, {}, c))
  /\ UNCHANGED <<memberships, invitations>>

CommitInvite(c) ==
  LET cmd == command[c]
  IN
  /\ cmd.op = "invite"
  /\ Committed(c)
  /\ invitations' = [invitations EXCEPT ![c] = Pending(cmd.email, cmd.roles)]
  /\ events' = Append(events, Created(c, cmd.roles, c))
  /\ UNCHANGED <<tenants, accounts, memberships>>

\* The account, membership and roles are written whatever has become of the
\* invitation since it was read.
CommitAccept(c) ==
  LET p == command[c].caller  i == command[c].invitation
      roles == invitations[i].roles
  IN
  /\ command[c].op = "accept"
  /\ Committed(c)
  /\ accounts' = accounts \cup {p}
  /\ memberships' = [memberships EXCEPT ![p] = [status |-> "active", roles |-> roles]]
  /\ invitations' = Ended(i, "accepted")
  /\ events' = Append(events, Event("accepted", i, p, "active", roles, c))
  /\ UNCHANGED tenants

\* Mutant: the roles the member had before are not deleted.
CommitUpdate_KeepsRoles(c) ==
  LET cmd == command[c]
  IN
  /\ cmd.op = "update"
  /\ Committed(c)
  /\ memberships' = [memberships EXCEPT
       ![cmd.person] = [status |-> cmd.status, roles |-> @.roles \cup cmd.roles]]
  /\ events' = Append(events, Event("changed", None, cmd.person, cmd.status, cmd.roles, c))
  /\ UNCHANGED <<tenants, accounts, invitations>>

CommitUpdate(c) ==
  LET cmd == command[c]
  IN
  /\ cmd.op = "update"
  /\ Committed(c)
  /\ memberships' = [memberships EXCEPT
       ![cmd.person] = [status |-> cmd.status, roles |-> cmd.roles]]
  /\ events' = Append(events, Event("changed", None, cmd.person, cmd.status, cmd.roles, c))
  /\ UNCHANGED <<tenants, accounts, invitations>>

\* Mutant: the UPDATE of a revocation does not ask for a pending row.
CommitRevoke_AnyStatus(c) ==
  LET i == command[c].invitation
  IN
  /\ command[c].op = "revoke"
  /\ Committed(c)
  /\ invitations' = [invitations EXCEPT ![i].status = "revoked", ![i].version = @ + 1]
  /\ events' = Append(events, Event("revoked", i, None, None, {}, c))
  /\ UNCHANGED <<tenants, accounts, memberships>>

CommitRevoke(c) ==
  LET i == command[c].invitation
  IN
  /\ command[c].op = "revoke"
  /\ Committed(c)
  /\ invitations' = Ended(i, "revoked")
  /\ events' = Append(events, Event("revoked", i, None, None, {}, c))
  /\ UNCHANGED <<tenants, accounts, memberships>>

\* Only a creation, of a tenant or an invitation, looks again for a concurrent
\* call with its key.
Abort(c) ==
  /\ pc[c] = "batch" /\ Stopped(c)
  /\ IF command[c].op \in {"onboard", "invite"} THEN Goto(c, "recover")
                                               ELSE Refuse(c, "server-error")
  /\ ReadOnly
  /\ UNCHANGED seen

Recover(c) ==
  /\ pc[c] = "recover"
  /\ \/ \E row \in LiveClaimed(c) : Replayed(c, row)
     \/ LiveClaimed(c) = {} /\ Refuse(c, "server-error")
  /\ ReadOnly
  /\ UNCHANGED seen

Deadline(i) ==
  /\ i \in Lapsing /\ Invited(i) /\ i \notin overdue
  /\ overdue' = overdue \cup {i}
  /\ UNCHANGED tables /\ UNCHANGED handlers

Aged(row) == [claim |-> row.claim, hash |-> row.hash, by |-> row.by, live |-> FALSE]

ExpireKey(row) ==
  /\ row.live
  /\ idempotency' = (idempotency \ {row}) \cup {Aged(row)}
  /\ UNCHANGED <<tenants, accounts, memberships, invitations, events, overdue>>
  /\ UNCHANGED handlers

Step(c) ==
  \/ ReadAccess(c) \/ ExpireInvitations(c) \/ ReadReplay(c)
  \/ ReadSlug(c) \/ ReadMembers(c) \/ ReadInvites(c)
  \/ ReadToken(c) \/ Lapse(c) \/ ReadUsers(c)
  \/ ReadMember(c) \/ CountAdmins(c) \/ LoadInvitation(c)
  \/ CommitOnboard(c) \/ CommitInvite(c) \/ CommitAccept(c)
  \/ CommitUpdate(c) \/ CommitRevoke(c)
  \/ Abort(c) \/ Recover(c)

Quiet == (\A c \in Calls : pc[c] = "done") /\ UNCHANGED vars

Next ==
  \/ \E c \in Calls : Arrive(c) \/ Step(c)
  \/ \E i \in Lapsing : Deadline(i)
  \/ \E row \in idempotency : ExpireKey(row)
  \/ Quiet

Spec == Init /\ [][Next]_vars

----------------------------------------------------------------------------
(* Properties.                                                             *)

InvitationRow ==
  [email : Emails, roles : RoleSets,
   status : {"pending", "accepted", "revoked", "expired"}, version : Nat]

EventSet ==
  [type : {"onboarded", "created", "accepted", "changed", "revoked"},
   invitation : Invitations \cup {None}, person : People \cup {None},
   status : {"active", "suspended", None}, roles : SUBSET Roles,
   by : Calls \cup {None}]

Steps == {"idle", "access", "expire", "replay", "slug", "members", "invites", "token", "lapse",
          "users", "member", "count", "invitation", "batch", "recover", "done"}

Refusals == {"no-active-membership", "forbidden", "self-suspension", "slug-conflict",
             "already-member",
             "already-pending", "not-found", "not-pending", "expired", "email-mismatch",
             "email-conflict", "last-administrator", "key-conflict", "server-error"}

IsRow(row) ==
  /\ row = [claim |-> row.claim, hash |-> row.hash, by |-> row.by, live |-> row.live]
  /\ row.by \in Calls

TypeOK ==
  /\ tenants \subseteq [slug : Slugs, by : Calls \cup {None}]
  /\ accounts \subseteq People
  /\ memberships \in [People -> Membership \cup {NoMember}]
  /\ invitations \in [Invitations -> InvitationRow \cup {NoInvitation}]
  /\ \A row \in idempotency : IsRow(row)
  /\ events \in Seq(EventSet)
  /\ overdue \subseteq Invitations
  /\ pc \in [Calls -> Steps]
  /\ command \in [Calls -> Command \cup {NoCommand}]
  /\ seen \in [Calls -> [removes : BOOLEAN, admins : Nat, account : BOOLEAN]]
  /\ answer \in [Calls -> [kind : Refusals \cup {None, "ok", "replayed"},
                           by : Calls \cup {None}]]

\* A handler is where its operation takes it, and what it was sure of when it
\* read and nothing can take back still holds when it writes.
HandlerOK(c) ==
  LET cmd == command[c]
  IN
  /\ pc[c] # "idle" => cmd \in Command /\ WellFormed(cmd)
  /\ pc[c] = "slug" => cmd.op = "onboard"
  /\ pc[c] \in {"members", "invites"} => cmd.op = "invite"
  /\ pc[c] = "recover" => cmd.op \in {"onboard", "invite"}
  /\ pc[c] \in {"token", "lapse"} => cmd.op = "accept"
  /\ pc[c] = "users" => cmd.op \in {"onboard", "accept"}
  /\ pc[c] \in {"member", "count"} => cmd.op = "update"
  /\ pc[c] = "invitation" => cmd.op = "revoke"
  /\ pc[c] = "lapse" \/ (pc[c] = "batch" /\ cmd.op \in {"accept", "revoke"}) =>
       Invited(cmd.invitation)
  /\ pc[c] = "batch" /\ cmd.op = "accept" =>
       invitations[cmd.invitation].email = EmailOf[cmd.caller]
  /\ pc[c] \in {"replay", "batch"} /\ cmd.op = "update" => Member(cmd.person)
  /\ Invited(c) => pc[c] = "done" /\ cmd.op = "invite"

\* The rows have their types and keep their foreign and unique keys, and no
\* handler's batch is built on something that is not there.
TypeInv ==
  /\ TypeOK
  /\ \A p \in People : Member(p) => p \in accounts
  /\ \A p, q \in accounts : EmailOf[p] = EmailOf[q] => p = q
  /\ \A t, u \in tenants : t.slug = u.slug => t = u
  /\ \A t \in tenants : t.by # None => command[t.by].caller \in accounts
  /\ \A c \in Calls : HandlerOK(c)

\* An invitation ends once, as accepted, revoked or expired, and is never
\* changed or reopened after that, although acceptances, revocations and the
\* two expiries race with statuses read before.
InvitationsEndOnce ==
  [][\A i \in Invitations : Invited(i) =>
       \/ invitations'[i] = invitations[i]
       \/ /\ IsPending(i)
          /\ invitations'[i].status \in {"accepted", "revoked", "expired"}
          /\ invitations'[i].version = invitations[i].version + 1
          /\ invitations'[i].email = invitations[i].email
          /\ invitations'[i].roles = invitations[i].roles]_vars

\* However creations race, an email never has two invitations pending.
OnePendingPerEmail == \A email \in Emails : Cardinality(PendingFor(email)) <= 1

\* An invitation lets at most one subject in, the one with its email, also when
\* two subjects share the email or the link is followed twice at a time.
OneAccountPerInvitation ==
  \A m, n \in DOMAIN events :
    (/\ events[m].type = "accepted" /\ events[n].type = "accepted"
     /\ events[m].invitation = events[n].invitation) =>
       /\ events[m].person = events[n].person
       /\ EmailOf[events[m].person] = invitations[events[m].invitation].email

\* Status and roles of a member are what the last announced change said, whole:
\* nothing of an earlier acceptance or update is left, and nothing of two
\* concurrent ones is mixed.
LastAbout(p, n) ==
  events[n].person = p /\ \A m \in DOMAIN events : events[m].person = p => m <= n

MembershipIsLastEvent ==
  \A p \in People, n \in DOMAIN events : LastAbout(p, n) =>
    memberships[p] = [status |-> events[n].status, roles |-> events[n].roles]

\* The tenant loses its last administrator only to an update that read too
\* early, when the member was no administrator or others were, or to an
\* acceptance by somebody who became administrator in the meantime; an update
\* that read what still holds never does it.
Stale(c) ==
  \/ command[c].op = "update" /\ (~seen[c].removes \/ seen[c].admins # Cardinality(Admins))
  \/ command[c].op = "accept"

LastAdminUnlessStale ==
  [][Admins # {} /\ Admins' = {} =>
       \E c \in Calls : pc[c] = "batch" /\ pc'[c] = "done" /\ Stale(c)]_vars

\* What a call is told is true: a success, replayed or not, was announced by
\* the call it names with the same scope, key and payload, and by no other call
\* with that key; an invitation said to be revoked or accepted is no longer
\* open; a refusal or error left nothing behind.
Announces(e, c) ==
  LET cmd == command[c]
  IN  CASE cmd.op = "invite" -> e.type = "created" /\ invitations[e.by].email = cmd.email
                                /\ e.roles = cmd.roles
        [] cmd.op = "onboard" -> e.type = "onboarded" /\ command[e.by].caller = cmd.caller
                                 /\ [slug |-> cmd.slug, by |-> e.by] \in tenants
        [] cmd.op = "accept" -> e.type = "accepted" /\ e.invitation = cmd.invitation
                                /\ e.person = cmd.caller /\ ~IsPending(cmd.invitation)
        [] cmd.op = "update" -> e.type = "changed" /\ e.person = cmd.person
                                /\ e.status = cmd.status /\ e.roles = cmd.roles
        [] cmd.op = "revoke" -> e.type = "revoked" /\ e.invitation = cmd.invitation
                                /\ ~IsPending(cmd.invitation)

AnswersAreTrue ==
  \A c \in Calls :
    /\ answer[c].kind \in Refusals => \A n \in DOMAIN events : events[n].by # c
    /\ answer[c].kind \in {"ok", "replayed"} /\ command[c].op # "list" =>
         \E n \in DOMAIN events : events[n].by = answer[c].by /\ Announces(events[n], c)
    /\ command[c].op \in {"onboard", "invite", "revoke", "update"} =>
         \A m, n \in DOMAIN events :
           Claim(events[m].by) = Claim(c) /\ Claim(events[n].by) = Claim(c) => m = n

----------------------------------------------------------------------------
(* What the code says of itself and does not keep.                         *)

\* updateMembership refuses to go on with "The final active tenant
\* administrator cannot be removed".
AlwaysAnAdministrator == Admins # {}
============================================================================
