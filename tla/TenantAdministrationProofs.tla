---------------------- MODULE TenantAdministrationProofs ----------------------
(***************************************************************************)
(* Proofs about TenantAdministration: its rows keep their keys, invitations *)
(* end once, an email has one of them pending, answers are true, and only  *)
(* a stale update can take the last administrator away.                    *)
(***************************************************************************)
EXTENDS TenantAdministration, SequenceTheorems, FiniteSetTheorems, TLAPS

\* Where a handler is tells what it does, an update that takes an administrator
\* away is of a member and has counted two, an acceptance has found an invitation of its own.
Whereabouts(c) ==
  LET op == command[c].op
  IN
  /\ pc[c] = "access" => op \in {"list", "invite", "revoke", "update"}
  /\ pc[c] = "expire" => op = "list"
  /\ pc[c] = "replay" => op \in {"onboard", "invite", "revoke", "update"}
  /\ pc[c] = "batch" => op \in {"onboard", "invite", "accept", "revoke", "update"}
  /\ pc[c] \in {"replay", "batch"} /\ op = "update" /\ seen[c].removes => seen[c].admins > 1
  /\ pc[c] = "count" => Member(command[c].person)
  /\ pc[c] = "users" /\ op = "accept" =>
       /\ Invited(command[c].invitation)
       /\ invitations[command[c].invitation].email = EmailOf[command[c].caller]

HandlersOK ==
  /\ \A c \in Calls : Whereabouts(c)
  /\ \A t \in tenants : t.by # None => pc[t.by] = "done"

AdminInv == TypeInv /\ HandlersOK

----------------------------------------------------------------------------
(* What steps do to the invitations.                                       *)

EndStatuses == {"accepted", "revoked", "expired"}

Ends(i) ==
  /\ IsPending(i)
  /\ invitations'[i] \in InvitationRow
  /\ invitations'[i].status \in EndStatuses
  /\ invitations'[i].version = invitations[i].version + 1
  /\ invitations'[i].email = invitations[i].email
  /\ invitations'[i].roles = invitations[i].roles

\* Invitations stay as they are or end.
OnlyEnds ==
  /\ invitations' \in [Invitations -> InvitationRow \cup {NoInvitation}]
  /\ \A i \in Invitations : invitations'[i] = invitations[i] \/ (Invited(i) /\ Ends(i))

LEMMA PendingRow ==
  ASSUME TypeOK, NEW i \in Invitations, IsPending(i)
  PROVE  invitations[i] \in InvitationRow /\ Invited(i)
BY DEF TypeOK, IsPending, Invited, NoInvitation, None

LEMMA EndedRow ==
  ASSUME NEW r \in InvitationRow, NEW status \in EndStatuses
  PROVE  LET row == [r EXCEPT !.status = status, !.version = @ + 1]
         IN  /\ row \in InvitationRow /\ row.status = status /\ row.version = r.version + 1
             /\ row.email = r.email /\ row.roles = r.roles
<1>1. r.version \in Nat /\ r.version + 1 \in Nat
  BY DEF InvitationRow
<1>2. status \in {"pending", "accepted", "revoked", "expired"}
  BY DEF EndStatuses
<1> DEFINE v == r.version + 1
<1>3. v \in Nat
  BY <1>1
<1> HIDE DEF v
<1>4. LET row == [r EXCEPT !.status = status, !.version = v]
      IN  /\ row \in InvitationRow /\ row.status = status /\ row.version = v
          /\ row.email = r.email /\ row.roles = r.roles
  BY <1>2, <1>3 DEF InvitationRow
<1> QED
  BY <1>4 DEF v

LEMMA EndedOnlyEnds ==
  ASSUME TypeOK, NEW i \in Invitations, NEW status \in EndStatuses,
         invitations' = Ended(i, status)
  PROVE  OnlyEnds
<1>1. CASE IsPending(i)
  <2> DEFINE row == [invitations[i] EXCEPT !.status = status, !.version = @ + 1]
  <2>1. invitations[i] \in InvitationRow /\ Invited(i)
    BY <1>1, PendingRow
  <2>2. /\ row \in InvitationRow /\ row.status = status
        /\ row.version = invitations[i].version + 1
        /\ row.email = invitations[i].email /\ row.roles = invitations[i].roles
    BY <2>1, EndedRow
  <2>3. invitations' = [invitations EXCEPT ![i] = row]
    BY <1>1 DEF Ended, TypeOK
  <2> HIDE DEF row
  <2>4. invitations'[i] = row /\ \A j \in Invitations : j # i => invitations'[j] = invitations[j]
    BY <2>3 DEF TypeOK
  <2>5. invitations' \in [Invitations -> InvitationRow \cup {NoInvitation}]
    BY <2>2, <2>3 DEF TypeOK
  <2>6. Ends(i)
    BY <1>1, <2>2, <2>4 DEF Ends
  <2> QED
    BY <2>1, <2>4, <2>5, <2>6 DEF OnlyEnds
<1>2. CASE ~IsPending(i)
  BY <1>2 DEF Ended, OnlyEnds, TypeOK
<1> QED
  BY <1>1, <1>2

LEMMA ExpiryOnlyEnds ==
  ASSUME TypeOK, NEW c \in Calls, ExpireInvitations(c)
  PROVE  OnlyEnds
<1> DEFINE row(i) == [invitations[i] EXCEPT !.status = "expired", !.version = @ + 1]
<1> DEFINE late(i) == Invited(i) /\ IsPending(i) /\ i \in overdue
<1>1. invitations' = [i \in Invitations |-> IF late(i) THEN row(i) ELSE invitations[i]]
  BY DEF ExpireInvitations
<1>2. ASSUME NEW i \in Invitations, late(i)
      PROVE  /\ row(i) \in InvitationRow /\ row(i).status = "expired"
             /\ row(i).version = invitations[i].version + 1
             /\ row(i).email = invitations[i].email /\ row(i).roles = invitations[i].roles
  <2>1. invitations[i] \in InvitationRow
    BY <1>2, PendingRow
  <2> QED
    BY <2>1, EndedRow DEF EndStatuses
<1> HIDE DEF row
<1>3. ASSUME NEW i \in Invitations
      PROVE  /\ invitations'[i] \in InvitationRow \cup {NoInvitation}
             /\ invitations'[i] = invitations[i] \/ (Invited(i) /\ Ends(i))
  <2>1. CASE late(i)
    BY <1>1, <1>2, <2>1 DEF Ends, EndStatuses
  <2>2. CASE ~late(i)
    BY <1>1, <2>2 DEF TypeOK
  <2> QED
    BY <2>1, <2>2
<1>4. invitations' \in [Invitations -> InvitationRow \cup {NoInvitation}]
  BY <1>1, <1>3
<1> QED
  BY <1>3, <1>4 DEF OnlyEnds

LEMMA EndsKeeps ==
  ASSUME TypeOK, OnlyEnds
  PROVE  \A i \in Invitations :
           /\ Invited(i)' <=> Invited(i)
           /\ Invited(i) => invitations'[i].email = invitations[i].email
           /\ Invited(i) => invitations'[i].roles = invitations[i].roles
           /\ IsPending(i)' => IsPending(i)
<1> SUFFICES ASSUME NEW i \in Invitations
             PROVE  /\ Invited(i)' <=> Invited(i)
                    /\ Invited(i) => invitations'[i].email = invitations[i].email
                    /\ Invited(i) => invitations'[i].roles = invitations[i].roles
                    /\ IsPending(i)' => IsPending(i)
  OBVIOUS
<1>1. CASE invitations'[i] = invitations[i]
  BY <1>1 DEF Invited, IsPending
<1>2. CASE Invited(i) /\ Ends(i)
  <2>1. invitations'[i].status \in EndStatuses
    BY <1>2 DEF Ends
  <2>2. Invited(i)'
    BY <2>1 DEF Invited, NoInvitation, EndStatuses, None
  <2> QED
    BY <1>2, <2>1, <2>2 DEF Ends, IsPending, EndStatuses
<1> QED
  BY <1>1, <1>2 DEF OnlyEnds

----------------------------------------------------------------------------
(* Handlers.                                                               *)

SeenSet == [removes : BOOLEAN, admins : Nat, account : BOOLEAN]
AnswerSet == [kind : Refusals \cup {None, "ok", "replayed"}, by : Calls \cup {None}]

\* Every handler but one stays where it is.
OnlyMoves(c) ==
  \A d \in Calls \ {c} : pc'[d] = pc[d] /\ command'[d] = command[d] /\ seen'[d] = seen[d]

\* What other handlers are sure of stays true.
Grows(c) ==
  /\ \A i \in Invitations : Invited(i) =>
       Invited(i)' /\ invitations'[i].email = invitations[i].email
  /\ \A d \in Calls \ {c} : Invited(d)' => Invited(d)
  /\ \A p \in People : Member(p) => Member(p)'

LEMMA OthersKeep ==
  ASSUME AdminInv, NEW c \in Calls, OnlyMoves(c), Grows(c)
  PROVE  \A d \in Calls \ {c} : HandlerOK(d)' /\ Whereabouts(d)'
<1> SUFFICES ASSUME NEW d \in Calls \ {c} PROVE HandlerOK(d)' /\ Whereabouts(d)'
  OBVIOUS
<1>1. HandlerOK(d) /\ Whereabouts(d)
  BY DEF AdminInv, TypeInv, HandlersOK
<1>2. pc'[d] = pc[d] /\ command'[d] = command[d] /\ seen'[d] = seen[d] /\ (Invited(d)' => Invited(d))
  BY DEF OnlyMoves, Grows
<1>4. /\ pc[d] # "idle" /\ command[d].op \in {"accept", "revoke"} => command[d].invitation \in Invitations
      /\ pc[d] # "idle" /\ command[d].op = "update" => command[d].person \in People
  BY <1>1 DEF HandlerOK, WellFormed
<1>5. /\ pc[d] = "lapse" \/ (pc[d] = "batch" /\ command[d].op \in {"accept", "revoke"}) =>
           invitations'[command[d].invitation] # NoInvitation
      /\ pc[d] = "batch" /\ command[d].op = "accept" =>
           invitations'[command[d].invitation].email = EmailOf[command[d].caller]
      /\ pc[d] \in {"replay", "batch", "count"} /\ command[d].op = "update" =>
           memberships'[command[d].person] # NoMember
  BY <1>1, <1>4 DEF HandlerOK, Whereabouts, Grows, Invited, Member
<1>6. pc[d] = "users" /\ command[d].op = "accept" =>
        /\ invitations'[command[d].invitation] # NoInvitation
        /\ invitations'[command[d].invitation].email = EmailOf[command[d].caller]
  BY <1>1, <1>4 DEF Whereabouts, Grows, Invited
<1>7. HandlerOK(d)'
  BY <1>1, <1>2, <1>5 DEF HandlerOK, Invited, Member
<1>8. Whereabouts(d)'
  BY <1>1, <1>2, <1>5, <1>6 DEF Whereabouts, HandlerOK, Invited, Member
<1> QED
  BY <1>7, <1>8

\* A step that only reads.
LEMMA ReadKeeps ==
  ASSUME AdminInv, NEW c \in Calls, ReadOnly, pc[c] \notin {"idle", "done"},
         NEW step \in Steps, pc' = [pc EXCEPT ![c] = step],
         seen' \in [Calls -> SeenSet], \A d \in Calls \ {c} : seen'[d] = seen[d],
         answer' \in [Calls -> AnswerSet],
         HandlerOK(c)', Whereabouts(c)'
  PROVE  AdminInv'
<1>1. UNCHANGED <<tenants, accounts, memberships, invitations, idempotency, events, overdue, command>>
  BY DEF ReadOnly, tables
<1>2. TypeOK'
  BY <1>1 DEF AdminInv, TypeInv, TypeOK, SeenSet, AnswerSet
<1>3. OnlyMoves(c) /\ Grows(c)
  BY <1>1 DEF OnlyMoves, Grows, AdminInv, TypeInv, TypeOK, Invited, Member
<1>4. \A d \in Calls : HandlerOK(d)' /\ Whereabouts(d)'
  BY <1>3, OthersKeep
<1>5. \A t \in tenants : t.by # None => pc'[t.by] = "done"
  BY DEF AdminInv, HandlersOK, TypeInv, TypeOK
<1>6. TypeInv'
  BY <1>1, <1>2, <1>4 DEF AdminInv, TypeInv, Member
<1> QED
  BY <1>1, <1>4, <1>5, <1>6 DEF AdminInv, HandlersOK

LEMMA Typed ==
  ASSUME AdminInv
  PROVE  /\ TypeOK /\ pc \in [Calls -> Steps] /\ seen \in [Calls -> SeenSet]
         /\ answer \in [Calls -> AnswerSet]
         /\ \A c \in Calls : HandlerOK(c) /\ Whereabouts(c)
BY DEF AdminInv, TypeInv, TypeOK, SeenSet, AnswerSet, HandlersOK

\* A handler that reads and answers, or goes on to a step it may be at.
LEMMA RespondKeeps ==
  ASSUME AdminInv, NEW c \in Calls, ReadOnly, UNCHANGED seen, pc[c] \notin {"idle", "done"},
         NEW kind \in Refusals \cup {"replayed"}, NEW by \in Calls \cup {None},
         Respond(c, kind, by)
  PROVE  AdminInv'
<1>1. pc' = [pc EXCEPT ![c] = "done"] /\ "done" \in Steps
  BY DEF Respond, Steps
<1>2. answer' \in [Calls -> AnswerSet]
  BY Typed DEF Respond, AnswerSet
<1>3. HandlerOK(c) /\ Whereabouts(c) /\ pc'[c] = "done"
  BY <1>1, Typed
<1>4. UNCHANGED <<memberships, invitations, command>>
  BY DEF ReadOnly, tables
<1>5. HandlerOK(c)' /\ Whereabouts(c)'
  BY <1>3, <1>4 DEF HandlerOK, Whereabouts, Invited
<1> QED
  BY <1>1, <1>2, <1>5, Typed, ReadKeeps

LEMMA RefuseKeeps ==
  ASSUME AdminInv, NEW c \in Calls, ReadOnly, UNCHANGED seen, pc[c] \notin {"idle", "done"},
         NEW kind \in Refusals, Refuse(c, kind)
  PROVE  AdminInv'
BY RespondKeeps DEF Refuse

LEMMA GotoKeeps ==
  ASSUME AdminInv, NEW c \in Calls, ReadOnly, UNCHANGED seen, pc[c] \notin {"idle", "done"},
         NEW step \in Steps, Goto(c, step),
         pc'[c] = step => HandlerOK(c)' /\ Whereabouts(c)'
  PROVE  AdminInv'
<1>1. pc' = [pc EXCEPT ![c] = step] /\ pc'[c] = step /\ UNCHANGED answer
  BY Typed DEF Goto
<1> QED
  BY <1>1, Typed, ReadKeeps

----------------------------------------------------------------------------
(* The steps that write nothing but where the handler is.                  *)

LEMMA ReplayedKeeps ==
  ASSUME AdminInv, NEW c \in Calls, ReadOnly, UNCHANGED seen, pc[c] \notin {"idle", "done"},
         NEW row \in idempotency, Replayed(c, row)
  PROVE  AdminInv'
<1>1. row.by \in Calls
  BY Typed DEF TypeOK, IsRow
<1>2. CASE row.hash = Hash(c)
  BY <1>1, <1>2, RespondKeeps DEF Replayed
<1>3. CASE row.hash # Hash(c)
  BY <1>3, RefuseKeeps DEF Replayed, Refusals
<1> QED
  BY <1>2, <1>3

LEMMA ReadAccessKeeps ==
  ASSUME AdminInv, NEW c \in Calls, ReadAccess(c)
  PROVE  AdminInv'
<1> DEFINE cmd == command[c]
<1>1. pc[c] = "access" /\ ReadOnly /\ UNCHANGED seen
  BY DEF ReadAccess
<1>2. HandlerOK(c) /\ Whereabouts(c)
  BY Typed
<1>3. cmd.op \in {"list", "invite", "revoke", "update"}
  BY <1>1, <1>2 DEF Whereabouts
<1>4. CASE Refuse(c, "forbidden")
  BY <1>1, <1>4, RefuseKeeps DEF Refusals
<1>5. CASE Refuse(c, "self-suspension")
  BY <1>1, <1>5, RefuseKeeps DEF Refusals
<1>6. CASE Goto(c, FirstStep(cmd.op))
  <2>1. FirstStep(cmd.op) \in {"expire", "member", "replay"} \cap Steps
    BY <1>3 DEF FirstStep, Steps
  <2>2. /\ FirstStep(cmd.op) = "expire" => cmd.op = "list"
        /\ FirstStep(cmd.op) = "member" => cmd.op = "update"
        /\ FirstStep(cmd.op) = "replay" => cmd.op \in {"invite", "revoke"}
    BY <1>3 DEF FirstStep
  <2>3. UNCHANGED <<command, memberships, invitations>>
    BY <1>1 DEF ReadOnly, tables
  <2>4. pc'[c] = FirstStep(cmd.op) => HandlerOK(c)' /\ Whereabouts(c)'
    BY <1>1, <1>2, <2>1, <2>2, <2>3 DEF HandlerOK, Whereabouts, Invited
  <2> QED
    BY <1>1, <1>6, <2>1, <2>4, GotoKeeps
<1> QED
  BY <1>4, <1>5, <1>6 DEF ReadAccess

LEMMA ReadReplayKeeps ==
  ASSUME AdminInv, NEW c \in Calls, ReadReplay(c)
  PROVE  AdminInv'
<1>1. pc[c] = "replay" /\ ReadOnly /\ UNCHANGED seen
  BY DEF ReadReplay
<1>2. HandlerOK(c) /\ Whereabouts(c)
  BY Typed
<1>3. ASSUME NEW row \in LiveClaimed(c), Replayed(c, row) PROVE AdminInv'
  BY <1>1, <1>3, ReplayedKeeps DEF LiveClaimed, Claimed
<1>4. CASE Goto(c, AfterReplay(command[c].op))
  <2> DEFINE step == AfterReplay(command[c].op)
  <2>1. command[c].op \in {"onboard", "invite", "revoke", "update"}
    BY <1>1, <1>2 DEF Whereabouts
  <2>2. /\ step \in {"slug", "members", "invitation", "batch"} \cap Steps
        /\ step = "slug" <=> command[c].op = "onboard"
        /\ step = "members" <=> command[c].op = "invite"
        /\ step = "invitation" <=> command[c].op = "revoke"
        /\ step = "batch" <=> command[c].op = "update"
    BY <2>1 DEF AfterReplay, Steps
  <2>3. UNCHANGED <<command, memberships, invitations>>
    BY <1>1 DEF ReadOnly, tables
  <2>4. pc'[c] = step => HandlerOK(c)' /\ Whereabouts(c)'
    <3> HIDE DEF step
    <3> QED
      BY <1>1, <1>2, <2>2, <2>3 DEF HandlerOK, Whereabouts, Invited, Member
  <2> QED
    BY <1>1, <1>4, <2>2, <2>4, GotoKeeps
<1> QED
  BY <1>3, <1>4 DEF ReadReplay

LEMMA CreationReadsKeep ==
  ASSUME AdminInv, NEW c \in Calls, ReadSlug(c) \/ ReadMembers(c) \/ ReadInvites(c)
  PROVE  AdminInv'
<1>1. ReadOnly /\ UNCHANGED seen /\ pc[c] \in {"slug", "members", "invites"}
  BY DEF ReadSlug, ReadMembers, ReadInvites
<1>2. HandlerOK(c) /\ Whereabouts(c)
  BY Typed
<1>3. UNCHANGED <<command, memberships, invitations>>
  BY <1>1 DEF ReadOnly, tables
<1>4. CASE \E kind \in Refusals : Refuse(c, kind)
  BY <1>1, <1>4, RefuseKeeps
<1>5. CASE pc[c] = "slug" /\ Goto(c, "users")
  <2>1. pc'[c] = "users" => HandlerOK(c)' /\ Whereabouts(c)'
    BY <1>2, <1>3, <1>5 DEF HandlerOK, Whereabouts, Invited
  <2> QED
    BY <1>1, <1>5, <2>1, GotoKeeps DEF Steps
<1>6. CASE pc[c] = "members" /\ Goto(c, "invites")
  <2>1. pc'[c] = "invites" => HandlerOK(c)' /\ Whereabouts(c)'
    BY <1>2, <1>3, <1>6 DEF HandlerOK, Whereabouts, Invited
  <2> QED
    BY <1>1, <1>6, <2>1, GotoKeeps DEF Steps
<1>7. CASE pc[c] = "invites" /\ Goto(c, "batch")
  <2>1. pc'[c] = "batch" => HandlerOK(c)' /\ Whereabouts(c)'
    BY <1>2, <1>3, <1>7 DEF HandlerOK, Whereabouts, Invited
  <2> QED
    BY <1>1, <1>7, <2>1, GotoKeeps DEF Steps
<1> QED
  BY <1>4, <1>5, <1>6, <1>7 DEF ReadSlug, ReadMembers, ReadInvites, Refusals

LEMMA ReadTokenKeeps ==
  ASSUME AdminInv, NEW c \in Calls, ReadToken(c)
  PROVE  AdminInv'
<1> DEFINE i == command[c].invitation
<1>1. ReadOnly /\ UNCHANGED seen /\ pc[c] = "token"
  BY DEF ReadToken
<1>2. HandlerOK(c) /\ Whereabouts(c)
  BY Typed
<1>3. UNCHANGED <<command, memberships, invitations>>
  BY <1>1 DEF ReadOnly, tables
<1>4. CASE \E kind \in Refusals : Refuse(c, kind)
  BY <1>1, <1>4, RefuseKeeps
<1>5. CASE Invited(i) /\ Goto(c, "lapse")
  <2>1. pc'[c] = "lapse" => HandlerOK(c)' /\ Whereabouts(c)'
    BY <1>1, <1>2, <1>3, <1>5 DEF HandlerOK, Whereabouts, Invited
  <2> QED
    BY <1>1, <1>5, <2>1, GotoKeeps DEF Steps
<1>6. CASE /\ Goto(c, "users") /\ Invited(i)
            /\ invitations[i].email = EmailOf[command[c].caller]
  <2>1. pc'[c] = "users" => HandlerOK(c)' /\ Whereabouts(c)'
    BY <1>1, <1>2, <1>3, <1>6 DEF HandlerOK, Whereabouts, Invited
  <2> QED
    BY <1>1, <1>6, <2>1, GotoKeeps DEF Steps
<1> QED
  BY <1>4, <1>5, <1>6 DEF ReadToken, Refusals

LEMMA ReadUsersKeeps ==
  ASSUME AdminInv, NEW c \in Calls, ReadUsers(c)
  PROVE  AdminInv'
<1> DEFINE p == command[c].caller
<1>1. ReadOnly /\ pc[c] = "users"
  BY DEF ReadUsers
<1>2. HandlerOK(c) /\ Whereabouts(c)
  BY Typed
<1>3. UNCHANGED <<command, memberships, invitations>>
  BY <1>1 DEF ReadOnly, tables
<1>4. CASE Refuse(c, "email-conflict") /\ UNCHANGED seen
  BY <1>1, <1>4, RefuseKeeps DEF Refusals
<1>5. CASE Goto(c, "batch") /\ seen' = [seen EXCEPT ![c].account = p \in accounts]
  <2> DEFINE known == p \in accounts
  <2>1. seen' = [seen EXCEPT ![c] = [seen[c] EXCEPT !.account = known]] /\ known \in BOOLEAN
    BY <1>5, Typed
  <2> HIDE DEF known
  <2>2. seen' \in [Calls -> SeenSet] /\ \A d \in Calls \ {c} : seen'[d] = seen[d]
    BY <2>1, Typed DEF SeenSet
  <2>3. pc' = [pc EXCEPT ![c] = "batch"] /\ pc'[c] = "batch" /\ UNCHANGED answer
    BY <1>5, Typed DEF Goto
  <2>4. HandlerOK(c)'
    BY <1>1, <1>2, <1>3, <2>3 DEF HandlerOK, Whereabouts, Invited
  <2>5. Whereabouts(c)'
    BY <1>1, <1>2, <1>3, <2>3 DEF HandlerOK, Whereabouts, Invited
  <2> QED
    BY <1>1, <2>2, <2>3, <2>4, <2>5, Typed, ReadKeeps DEF Steps
<1> QED
  BY <1>4, <1>5 DEF ReadUsers

LEMMA ReadMemberKeeps ==
  ASSUME AdminInv, NEW c \in Calls, ReadMember(c)
  PROVE  AdminInv'
<1>1. ReadOnly /\ pc[c] = "member"
  BY DEF ReadMember
<1>2. HandlerOK(c) /\ Whereabouts(c)
  BY Typed
<1>3. UNCHANGED <<command, memberships, invitations>>
  BY <1>1 DEF ReadOnly, tables
<1>4. CASE Refuse(c, "not-found") /\ UNCHANGED seen
  BY <1>1, <1>4, RefuseKeeps DEF Refusals
<1>5. CASE /\ Member(command[c].person)
           /\ Goto(c, IF RemovesAdmin(c) THEN "count" ELSE "replay")
           /\ seen' = [seen EXCEPT ![c].removes = RemovesAdmin(c)]
  <2> DEFINE step == IF RemovesAdmin(c) THEN "count" ELSE "replay"
  <2>1. RemovesAdmin(c) \in BOOLEAN
    BY DEF RemovesAdmin
  <2>2. seen' = [seen EXCEPT ![c] = [seen[c] EXCEPT !.removes = RemovesAdmin(c)]]
    BY <1>5, Typed
  <2> HIDE DEF step
  <2>3. /\ seen' \in [Calls -> SeenSet] /\ \A d \in Calls \ {c} : seen'[d] = seen[d]
        /\ seen'[c].removes = RemovesAdmin(c)
    BY <2>1, <2>2, Typed DEF SeenSet
  <2>4. step \in {"count", "replay"} /\ (step = "replay" => ~RemovesAdmin(c)) /\ step \in Steps
    BY DEF step, Steps
  <2>5. pc' = [pc EXCEPT ![c] = step] /\ pc'[c] = step /\ UNCHANGED answer
    BY <1>5, Typed DEF Goto, step
  <2>6. HandlerOK(c)'
    BY <1>1, <1>2, <1>3, <1>5, <2>4, <2>5 DEF HandlerOK, Invited, Member
  <2>7. Whereabouts(c)'
    BY <1>1, <1>2, <1>3, <1>5, <2>3, <2>4, <2>5 DEF HandlerOK, Whereabouts, Member
  <2> QED
    BY <1>1, <2>3, <2>4, <2>5, <2>6, <2>7, Typed, ReadKeeps
<1> QED
  BY <1>4, <1>5 DEF ReadMember

LEMMA CountedAdmins ==
  ASSUME AdminInv
  PROVE  IsFiniteSet(Admins) /\ Cardinality(Admins) \in Nat
BY AdministrationAssumption, FS_Subset, FS_CardinalityType DEF Admins, AdminsOf

LEMMA CountAdminsKeeps ==
  ASSUME AdminInv, NEW c \in Calls, CountAdmins(c)
  PROVE  AdminInv'
<1> DEFINE n == Cardinality(Admins)
<1>1. ReadOnly /\ pc[c] = "count" /\ n \in Nat
  BY CountedAdmins DEF CountAdmins
<1>2. HandlerOK(c) /\ Whereabouts(c)
  BY Typed
<1>3. UNCHANGED <<command, memberships, invitations>>
  BY <1>1 DEF ReadOnly, tables
<1>4. seen' = [seen EXCEPT ![c] = [seen[c] EXCEPT !.admins = n]]
  BY Typed DEF CountAdmins
<1> HIDE DEF n
<1>5. /\ seen' \in [Calls -> SeenSet] /\ \A d \in Calls \ {c} : seen'[d] = seen[d]
      /\ seen'[c].admins = n
  BY <1>1, <1>4, Typed DEF SeenSet
<1>6. CASE Refuse(c, "last-administrator")
  <2>1. pc' = [pc EXCEPT ![c] = "done"] /\ pc'[c] = "done" /\ answer' \in [Calls -> AnswerSet]
    BY <1>6, Typed DEF Refuse, Respond, AnswerSet, Refusals
  <2>2. HandlerOK(c)' /\ Whereabouts(c)'
    BY <1>1, <1>2, <1>3, <2>1 DEF HandlerOK, Whereabouts, Invited
  <2> QED
    BY <1>1, <1>5, <2>1, <2>2, ReadKeeps DEF Steps
<1>7. CASE n > 1 /\ Goto(c, "replay")
  <2>1. pc' = [pc EXCEPT ![c] = "replay"] /\ pc'[c] = "replay" /\ UNCHANGED answer
    BY <1>7, Typed DEF Goto
  <2>2. HandlerOK(c)'
    BY <1>1, <1>2, <1>3, <2>1 DEF HandlerOK, Whereabouts, Invited, Member
  <2>3. Whereabouts(c)'
    BY <1>1, <1>2, <1>3, <1>5, <1>7, <2>1 DEF HandlerOK, Whereabouts
  <2> QED
    BY <1>1, <1>5, <2>1, <2>2, <2>3, Typed, ReadKeeps DEF Steps
<1>8. n <= 1 \/ n > 1
  BY <1>1
<1> QED
  BY <1>1, <1>6, <1>7, <1>8 DEF CountAdmins, n

LEMMA LoadInvitationKeeps ==
  ASSUME AdminInv, NEW c \in Calls, LoadInvitation(c)
  PROVE  AdminInv'
<1> DEFINE i == command[c].invitation
<1>1. ReadOnly /\ UNCHANGED seen /\ pc[c] = "invitation"
  BY DEF LoadInvitation
<1>2. HandlerOK(c) /\ Whereabouts(c)
  BY Typed
<1>3. UNCHANGED <<command, memberships, invitations>>
  BY <1>1 DEF ReadOnly, tables
<1>4. CASE \E kind \in Refusals : Refuse(c, kind)
  BY <1>1, <1>4, RefuseKeeps
<1>5. CASE Invited(i) /\ Goto(c, "batch")
  <2>1. pc'[c] = "batch" => HandlerOK(c)' /\ Whereabouts(c)'
    BY <1>1, <1>2, <1>3, <1>5 DEF HandlerOK, Whereabouts, Invited
  <2> QED
    BY <1>1, <1>5, <2>1, GotoKeeps DEF Steps
<1> QED
  BY <1>4, <1>5 DEF LoadInvitation, Refusals

LEMMA StoppedKeep ==
  ASSUME AdminInv, NEW c \in Calls, Abort(c) \/ Recover(c)
  PROVE  AdminInv'
<1>1. ReadOnly /\ UNCHANGED seen /\ pc[c] \in {"batch", "recover"}
  BY DEF Abort, Recover
<1>2. HandlerOK(c) /\ Whereabouts(c)
  BY Typed
<1>3. UNCHANGED <<command, memberships, invitations>>
  BY <1>1 DEF ReadOnly, tables
<1>4. CASE Refuse(c, "server-error")
  BY <1>1, <1>4, RefuseKeeps DEF Refusals
<1>5. CASE command[c].op \in {"onboard", "invite"} /\ Goto(c, "recover")
  <2>1. pc'[c] = "recover" => HandlerOK(c)' /\ Whereabouts(c)'
    BY <1>1, <1>2, <1>3, <1>5 DEF HandlerOK, Whereabouts, Invited
  <2> QED
    BY <1>1, <1>5, <2>1, GotoKeeps DEF Steps
<1>6. CASE \E row \in LiveClaimed(c) : Replayed(c, row)
  BY <1>1, <1>6, ReplayedKeeps DEF LiveClaimed, Claimed
<1> QED
  BY <1>4, <1>5, <1>6 DEF Abort, Recover

----------------------------------------------------------------------------
(* The steps that write.                                                   *)

\* A handler that answers and writes nothing but invitations.
LEMMA EndingKeeps ==
  ASSUME AdminInv, NEW c \in Calls, OnlyEnds, pc[c] \notin {"idle", "done"},
         NEW kind \in Refusals \cup {"ok"}, NEW by \in Calls \cup {None},
         Respond(c, kind, by),
         UNCHANGED <<tenants, accounts, memberships, idempotency, events, overdue, command, seen>>
  PROVE  AdminInv'
<1>1. pc' = [pc EXCEPT ![c] = "done"] /\ answer' \in [Calls -> AnswerSet]
  BY Typed DEF Respond, AnswerSet
<1>2. TypeOK'
  BY <1>1, Typed DEF TypeOK, OnlyEnds, SeenSet, AnswerSet, Steps
<1>3. \A i \in Invitations : /\ Invited(i)' <=> Invited(i)
                             /\ Invited(i) => invitations'[i].email = invitations[i].email
  BY Typed, EndsKeeps
<1>4. OnlyMoves(c) /\ Grows(c)
  BY <1>1, <1>3, Typed DEF OnlyMoves, Grows, Member, Invitations
<1>5. \A d \in Calls \ {c} : HandlerOK(d)' /\ Whereabouts(d)'
  BY <1>4, OthersKeep
<1>6. HandlerOK(c) /\ pc'[c] = "done" /\ (Invited(c)' => Invited(c))
  BY <1>1, <1>3, Typed DEF Invitations
<1>7. HandlerOK(c)' /\ Whereabouts(c)'
  BY <1>6 DEF HandlerOK, Whereabouts
<1>8. \A t \in tenants : t.by # None => pc'[t.by] = "done"
  BY <1>1, Typed DEF AdminInv, HandlersOK
<1> QED
  BY <1>2, <1>5, <1>7, <1>8 DEF AdminInv, TypeInv, HandlersOK, Member

LEMMA ExpireInvitationsKeeps ==
  ASSUME AdminInv, NEW c \in Calls, ExpireInvitations(c)
  PROVE  AdminInv'
BY Typed, ExpiryOnlyEnds, EndingKeeps DEF ExpireInvitations

LEMMA LapseKeeps ==
  ASSUME AdminInv, NEW c \in Calls, Lapse(c)
  PROVE  AdminInv'
<1>1. HandlerOK(c) /\ pc[c] = "lapse"
  BY Typed DEF Lapse
<1>2. command[c].invitation \in Invitations
  BY <1>1 DEF HandlerOK, WellFormed
<1>3. OnlyEnds
  BY <1>2, Typed, EndedOnlyEnds DEF Lapse, EndStatuses
<1> QED
  BY <1>1, <1>3, EndingKeeps DEF Lapse, Refuse, Refusals

LEMMA ArriveKeeps ==
  ASSUME AdminInv, NEW c \in Calls, Arrive(c)
  PROVE  AdminInv'
<1>1. PICK cmd \in Commands[c] :
        /\ command' = [command EXCEPT ![c] = cmd]
        /\ CASE cmd.op = "onboard" -> Goto(c, "replay")
             [] cmd.op = "accept"  -> Goto(c, "token")
             [] cmd.op \notin {"onboard", "accept"} /\ Active(cmd.caller) -> Goto(c, "access")
             [] OTHER              -> Refuse(c, "no-active-membership")
  BY DEF Arrive
<1>2. cmd \in Command /\ WellFormed(cmd) /\ cmd.op \in Ops
  BY AdministrationAssumption DEF Command
<1>3. pc[c] = "idle" /\ UNCHANGED <<tables, overdue, seen>>
  BY DEF Arrive
<1>4. HandlerOK(c) /\ ~Invited(c)
  BY <1>3, Typed DEF HandlerOK
<1>5. PICK step \in {"replay", "token", "access", "done"} :
        /\ pc' = [pc EXCEPT ![c] = step] /\ answer' \in [Calls -> AnswerSet]
        /\ step = "replay" => cmd.op = "onboard"
        /\ step = "token" => cmd.op = "accept"
        /\ step = "access" => cmd.op \notin {"onboard", "accept"}
  <2>1. CASE cmd.op = "onboard" /\ Goto(c, "replay")
    BY <2>1, Typed DEF Goto
  <2>2. CASE cmd.op = "accept" /\ Goto(c, "token")
    BY <2>2, Typed DEF Goto
  <2>3. CASE cmd.op \notin {"onboard", "accept"} /\ Goto(c, "access")
    BY <2>3, Typed DEF Goto
  <2>4. CASE Refuse(c, "no-active-membership")
    BY <2>4, Typed DEF Refuse, Respond, AnswerSet, Refusals
  <2> QED
    BY <1>1, <2>1, <2>2, <2>3, <2>4
<1>6. TypeOK'
  BY <1>1, <1>2, <1>3, <1>5, Typed DEF TypeOK, tables, Steps, SeenSet, AnswerSet
<1>7. OnlyMoves(c) /\ Grows(c)
  BY <1>1, <1>3, <1>5, Typed DEF OnlyMoves, Grows, tables, Invited, Member, TypeOK
<1>8. \A d \in Calls \ {c} : HandlerOK(d)' /\ Whereabouts(d)'
  BY <1>7, OthersKeep
<1>9. command'[c] = cmd /\ pc'[c] = step /\ invitations' = invitations
  BY <1>1, <1>3, <1>5, Typed DEF TypeOK, tables
<1>10. HandlerOK(c)'
  BY <1>2, <1>4, <1>5, <1>9 DEF HandlerOK, Invited
<1>11. Whereabouts(c)'
  BY <1>2, <1>5, <1>9 DEF Whereabouts, Ops
<1>12. \A t \in tenants : t.by # None =>
         /\ pc'[t.by] = "done" /\ command'[t.by] = command[t.by]
  BY <1>1, <1>3, <1>5, Typed DEF AdminInv, HandlersOK, TypeOK
<1>13. TypeInv'
  BY <1>3, <1>6, <1>8, <1>10, <1>12 DEF AdminInv, TypeInv, tables, Member
<1> QED
  BY <1>3, <1>8, <1>11, <1>12, <1>13 DEF AdminInv, HandlersOK, tables

\* A batch that commits, whatever rows it writes beside its key.
LEMMA CommitKeeps ==
  ASSUME AdminInv, NEW c \in Calls, Committed(c),
         tenants' \subseteq [slug : Slugs, by : Calls \cup {None}],
         accounts \subseteq accounts', accounts' \subseteq People,
         memberships' \in [People -> Membership \cup {NoMember}],
         invitations' \in [Invitations -> InvitationRow \cup {NoInvitation}],
         events' \in Seq(EventSet),
         Grows(c), Invited(c)' => command[c].op = "invite",
         \A p \in People : Member(p)' => p \in accounts',
         \A p, q \in accounts' : EmailOf[p] = EmailOf[q] => p = q,
         \A t, u \in tenants' : t.slug = u.slug => t = u,
         \A t \in tenants' : t \in tenants \/ (t.by = c /\ command[c].caller \in accounts')
  PROVE  AdminInv'
<1>1. /\ pc' = [pc EXCEPT ![c] = "done"] /\ answer' \in [Calls -> AnswerSet]
      /\ UNCHANGED <<overdue, command, seen>>
  BY Typed DEF Committed, Respond, AnswerSet
<1>2. \A row \in idempotency' : IsRow(row)
  BY Typed DEF Committed, TypeOK, IsRow, Row
<1>3. TypeOK'
  BY <1>1, <1>2, Typed DEF TypeOK, SeenSet, AnswerSet, Steps, IsRow
<1>4. OnlyMoves(c)
  BY <1>1, Typed DEF OnlyMoves
<1>5. \A d \in Calls \ {c} : HandlerOK(d)' /\ Whereabouts(d)'
  BY <1>4, OthersKeep
<1>6. HandlerOK(c) /\ pc[c] = "batch" /\ pc'[c] = "done" /\ command'[c] = command[c]
  BY <1>1, Typed DEF Committed
<1>7. HandlerOK(c)' /\ Whereabouts(c)'
  BY <1>6 DEF HandlerOK, Whereabouts
<1>8. \A t \in tenants' : t.by # None =>
         pc'[t.by] = "done" /\ command'[t.by].caller \in accounts'
  BY <1>1, <1>6, Typed DEF AdminInv, TypeInv, TypeOK, HandlersOK
<1> QED
  BY <1>3, <1>5, <1>7, <1>8 DEF AdminInv, TypeInv, HandlersOK

LEMMA CommittingHandler ==
  ASSUME AdminInv, NEW c \in Calls, Committed(c)
  PROVE  /\ HandlerOK(c) /\ ~Stopped(c) /\ pc[c] = "batch"
         /\ command[c] \in Command /\ WellFormed(command[c])
         /\ ~Invited(c)
BY Typed DEF Committed, HandlerOK

LEMMA EventTyped ==
  ASSUME NEW type \in {"onboarded", "created", "accepted", "changed", "revoked"},
         NEW i \in Invitations \cup {None}, NEW p \in People \cup {None},
         NEW status \in {"active", "suspended", None}, NEW roles \in SUBSET Roles,
         NEW c \in Calls, TypeOK
  PROVE  Append(events, Event(type, i, p, status, roles, c)) \in Seq(EventSet)
<1>1. Event(type, i, p, status, roles, c) \in EventSet
  BY DEF Event, EventSet
<1> QED
  BY <1>1, AppendProperties DEF TypeOK

LEMMA CommitOnboardKeeps ==
  ASSUME AdminInv, NEW c \in Calls, CommitOnboard(c)
  PROVE  AdminInv'
<1> DEFINE p == command[c].caller
           t == [slug |-> command[c].slug, by |-> c]
<1>1. /\ Committed(c) /\ command[c].op = "onboard"
      /\ tenants' = tenants \cup {t} /\ accounts' = accounts \cup {p}
      /\ UNCHANGED <<memberships, invitations>>
  BY DEF CommitOnboard
<1>2. /\ command[c] \in Command /\ WellFormed(command[c]) /\ ~Stopped(c) /\ ~Invited(c)
  BY <1>1, CommittingHandler
<1>3. p \in People /\ command[c].slug \in Slugs
  BY <1>1, <1>2 DEF Command, WellFormed
<1>4. events' \in Seq(EventSet)
  BY EventTyped, Typed DEF CommitOnboard
<1>5. ~EmailTaken(p) /\ ~SlugTaken(command[c].slug)
  BY <1>1, <1>2 DEF Stopped, UserStops
<1>6. \A q, r \in accounts' : EmailOf[q] = EmailOf[r] => q = r
  BY <1>1, <1>5 DEF EmailTaken, AdminInv, TypeInv
<1>7. \A u, v \in tenants' : u.slug = v.slug => u = v
  BY <1>1, <1>5 DEF SlugTaken, AdminInv, TypeInv
<1>8. Grows(c) /\ (Invited(c)' => command[c].op = "invite")
  BY <1>1, <1>2 DEF Grows, Invited, Member
<1>9. /\ tenants' \subseteq [slug : Slugs, by : Calls \cup {None}]
      /\ accounts \subseteq accounts' /\ accounts' \subseteq People
      /\ memberships' \in [People -> Membership \cup {NoMember}]
      /\ invitations' \in [Invitations -> InvitationRow \cup {NoInvitation}]
  BY <1>1, <1>3, Typed DEF TypeOK
<1>10. \A q \in People : Member(q)' => q \in accounts'
  BY <1>1 DEF Member, AdminInv, TypeInv
<1>11. \A u \in tenants' : u \in tenants \/ (u.by = c /\ command[c].caller \in accounts')
  BY <1>1
<1> QED
  BY <1>1, <1>4, <1>6, <1>7, <1>8, <1>9, <1>10, <1>11, CommitKeeps

LEMMA CommitInviteKeeps ==
  ASSUME AdminInv, NEW c \in Calls, CommitInvite(c)
  PROVE  AdminInv'
<1> DEFINE row == Pending(command[c].email, command[c].roles)
<1>1. /\ Committed(c) /\ command[c].op = "invite"
      /\ invitations' = [invitations EXCEPT ![c] = row]
      /\ UNCHANGED <<tenants, accounts, memberships>>
  BY DEF CommitInvite
<1>2. /\ command[c] \in Command /\ WellFormed(command[c]) /\ ~Invited(c) /\ c \in Invitations
  BY <1>1, CommittingHandler DEF Invitations
<1>3. row \in InvitationRow /\ command[c].roles \in SUBSET Roles
  BY <1>1, <1>2 DEF WellFormed, Pending, InvitationRow, RoleSets
<1>4. events' \in Seq(EventSet)
  BY <1>2, <1>3, EventTyped, Typed DEF CommitInvite, Created
<1> HIDE DEF row
<1>5. /\ invitations' \in [Invitations -> InvitationRow \cup {NoInvitation}]
      /\ \A i \in Invitations \ {c} : invitations'[i] = invitations[i]
  BY <1>1, <1>2, <1>3, Typed DEF TypeOK
<1>6. Grows(c)
  BY <1>1, <1>2, <1>5 DEF Grows, Invited, Member, Invitations
<1>7. \A p \in People : Member(p)' => p \in accounts'
  BY <1>1 DEF Member, AdminInv, TypeInv
<1>8. /\ tenants' \subseteq [slug : Slugs, by : Calls \cup {None}]
      /\ accounts \subseteq accounts' /\ accounts' \subseteq People
      /\ memberships' \in [People -> Membership \cup {NoMember}]
  BY <1>1, Typed DEF TypeOK
<1>9. \A p, q \in accounts' : EmailOf[p] = EmailOf[q] => p = q
  BY <1>1 DEF AdminInv, TypeInv
<1>10. /\ \A t, u \in tenants' : t.slug = u.slug => t = u
       /\ \A t \in tenants' : t \in tenants \/ (t.by = c /\ command[c].caller \in accounts')
  BY <1>1 DEF AdminInv, TypeInv
<1> QED
  BY <1>1, <1>4, <1>5, <1>6, <1>7, <1>8, <1>9, <1>10, CommitKeeps

\* A member's row is written, the account with it or there before.
LEMMA MemberWritten ==
  ASSUME AdminInv, NEW p \in People, NEW status \in {"active", "suspended"},
         NEW roles \in RoleSets,
         memberships' = [memberships EXCEPT ![p] = [status |-> status, roles |-> roles]]
  PROVE  /\ memberships' \in [People -> Membership \cup {NoMember}]
         /\ \A q \in People : Member(q) => Member(q)'
         /\ \A q \in People : Member(q)' => q = p \/ Member(q)
<1> DEFINE row == [status |-> status, roles |-> roles]
<1>1. row \in Membership /\ row # NoMember
  BY DEF Membership, NoMember, None
<1> HIDE DEF row
<1>2. memberships' = [memberships EXCEPT ![p] = row]
  BY DEF row
<1> QED
  BY <1>1, <1>2, Typed DEF TypeOK, Member

LEMMA CommitAcceptKeeps ==
  ASSUME AdminInv, NEW c \in Calls, CommitAccept(c)
  PROVE  AdminInv'
<1> DEFINE p == command[c].caller
           i == command[c].invitation
           roles == invitations[i].roles
<1>1. /\ Committed(c) /\ command[c].op = "accept" /\ accounts' = accounts \cup {p}
      /\ memberships' = [memberships EXCEPT ![p] = [status |-> "active", roles |-> roles]]
      /\ invitations' = Ended(i, "accepted") /\ UNCHANGED tenants
  BY DEF CommitAccept
<1>2. /\ HandlerOK(c) /\ ~Stopped(c) /\ pc[c] = "batch"
      /\ command[c] \in Command /\ WellFormed(command[c]) /\ ~Invited(c)
  BY <1>1, CommittingHandler
<1>3. p \in People /\ i \in Invitations /\ Invited(i)
  BY <1>1, <1>2 DEF Command, WellFormed, HandlerOK
<1>4. roles \in RoleSets /\ roles \in SUBSET Roles
  BY <1>3, Typed DEF TypeOK, Invited, InvitationRow, RoleSets
<1>5. events' \in Seq(EventSet)
  BY <1>3, <1>4, EventTyped, Typed DEF CommitAccept
<1>6. ~EmailTaken(p)
  BY <1>1, <1>2 DEF Stopped, UserStops
<1>7. \A q, r \in accounts' : EmailOf[q] = EmailOf[r] => q = r
  BY <1>1, <1>6 DEF EmailTaken, AdminInv, TypeInv
<1>8. OnlyEnds
  BY <1>1, <1>3, Typed, EndedOnlyEnds DEF EndStatuses
<1>9. /\ memberships' \in [People -> Membership \cup {NoMember}]
      /\ \A q \in People : Member(q) => Member(q)'
      /\ \A q \in People : Member(q)' => q = p \/ Member(q)
  BY <1>1, <1>3, <1>4, MemberWritten
<1>10. \A j \in Invitations : /\ Invited(j)' <=> Invited(j)
                              /\ Invited(j) => invitations'[j].email = invitations[j].email
  BY <1>8, Typed, EndsKeeps
<1>11. Grows(c) /\ ~Invited(c)'
  BY <1>2, <1>9, <1>10 DEF Grows, Invitations
<1>12. \A q \in People : Member(q)' => q \in accounts'
  BY <1>1, <1>9 DEF AdminInv, TypeInv
<1>13. /\ tenants' \subseteq [slug : Slugs, by : Calls \cup {None}]
       /\ accounts \subseteq accounts' /\ accounts' \subseteq People
       /\ invitations' \in [Invitations -> InvitationRow \cup {NoInvitation}]
  BY <1>1, <1>3, <1>8, Typed DEF TypeOK, OnlyEnds
<1>14. /\ \A t, u \in tenants' : t.slug = u.slug => t = u
       /\ \A t \in tenants' : t \in tenants \/ (t.by = c /\ command[c].caller \in accounts')
  BY <1>1 DEF AdminInv, TypeInv
<1> QED
  BY <1>1, <1>5, <1>7, <1>9, <1>11, <1>12, <1>13, <1>14, CommitKeeps

LEMMA CommitUpdateKeeps ==
  ASSUME AdminInv, NEW c \in Calls, CommitUpdate(c)
  PROVE  AdminInv'
<1> DEFINE cmd == command[c]
<1>1. /\ Committed(c) /\ cmd.op = "update"
      /\ memberships' = [memberships EXCEPT
           ![cmd.person] = [status |-> cmd.status, roles |-> cmd.roles]]
      /\ UNCHANGED <<tenants, accounts, invitations>>
  BY DEF CommitUpdate
<1>2. HandlerOK(c) /\ pc[c] = "batch" /\ cmd \in Command /\ WellFormed(cmd) /\ ~Invited(c)
  BY <1>1, CommittingHandler
<1>3. /\ cmd.person \in People /\ Member(cmd.person)
      /\ cmd.status \in {"active", "suspended"} /\ cmd.roles \in RoleSets
      /\ cmd.roles \in SUBSET Roles
  BY <1>1, <1>2 DEF Command, WellFormed, HandlerOK, RoleSets
<1>4. events' \in Seq(EventSet)
  BY <1>3, EventTyped, Typed DEF CommitUpdate
<1>5. /\ memberships' \in [People -> Membership \cup {NoMember}]
      /\ \A q \in People : Member(q) => Member(q)'
      /\ \A q \in People : Member(q)' => q = cmd.person \/ Member(q)
  BY <1>1, <1>3, MemberWritten
<1>6. Grows(c) /\ ~Invited(c)'
  BY <1>1, <1>2, <1>5 DEF Grows, Invited
<1>7. \A q \in People : Member(q)' => q \in accounts'
  BY <1>1, <1>3, <1>5 DEF AdminInv, TypeInv
<1>8. /\ tenants' \subseteq [slug : Slugs, by : Calls \cup {None}]
      /\ accounts \subseteq accounts' /\ accounts' \subseteq People
      /\ invitations' \in [Invitations -> InvitationRow \cup {NoInvitation}]
  BY <1>1, Typed DEF TypeOK
<1>9. /\ \A p, q \in accounts' : EmailOf[p] = EmailOf[q] => p = q
      /\ \A t, u \in tenants' : t.slug = u.slug => t = u
      /\ \A t \in tenants' : t \in tenants \/ (t.by = c /\ command[c].caller \in accounts')
  BY <1>1 DEF AdminInv, TypeInv
<1> QED
  BY <1>1, <1>4, <1>5, <1>6, <1>7, <1>8, <1>9, CommitKeeps

LEMMA CommitRevokeKeeps ==
  ASSUME AdminInv, NEW c \in Calls, CommitRevoke(c)
  PROVE  AdminInv'
<1> DEFINE i == command[c].invitation
<1>1. /\ Committed(c) /\ command[c].op = "revoke"
      /\ invitations' = Ended(i, "revoked") /\ UNCHANGED <<tenants, accounts, memberships>>
  BY DEF CommitRevoke
<1>2. command[c] \in Command /\ WellFormed(command[c]) /\ ~Invited(c)
  BY <1>1, CommittingHandler
<1>3. i \in Invitations
  BY <1>1, <1>2 DEF WellFormed
<1>4. events' \in Seq(EventSet)
  BY <1>3, EventTyped, Typed DEF CommitRevoke
<1>5. OnlyEnds
  BY <1>1, <1>3, Typed, EndedOnlyEnds DEF EndStatuses
<1>6. \A j \in Invitations : /\ Invited(j)' <=> Invited(j)
                             /\ Invited(j) => invitations'[j].email = invitations[j].email
  BY <1>5, Typed, EndsKeeps
<1>7. Grows(c) /\ ~Invited(c)'
  BY <1>1, <1>2, <1>6 DEF Grows, Invitations, Member
<1>8. \A q \in People : Member(q)' => q \in accounts'
  BY <1>1 DEF Member, AdminInv, TypeInv
<1>9. /\ tenants' \subseteq [slug : Slugs, by : Calls \cup {None}]
      /\ accounts \subseteq accounts' /\ accounts' \subseteq People
      /\ memberships' \in [People -> Membership \cup {NoMember}]
      /\ invitations' \in [Invitations -> InvitationRow \cup {NoInvitation}]
  BY <1>1, <1>5, Typed DEF TypeOK, OnlyEnds
<1>10. /\ \A p, q \in accounts' : EmailOf[p] = EmailOf[q] => p = q
       /\ \A t, u \in tenants' : t.slug = u.slug => t = u
       /\ \A t \in tenants' : t \in tenants \/ (t.by = c /\ command[c].caller \in accounts')
  BY <1>1 DEF AdminInv, TypeInv
<1> QED
  BY <1>1, <1>4, <1>7, <1>8, <1>9, <1>10, CommitKeeps

----------------------------------------------------------------------------
(* Time, and the invariant.                                                *)

LEMMA TimeKeeps ==
  ASSUME AdminInv,
         \/ \E i \in Lapsing : Deadline(i)
         \/ \E row \in idempotency : ExpireKey(row)
         \/ UNCHANGED vars
  PROVE  AdminInv'
<1>1. UNCHANGED <<tenants, accounts, memberships, invitations, events, pc, command, seen, answer>>
  BY DEF Deadline, ExpireKey, vars, tables, handlers
<1>2. overdue' \subseteq Invitations
  BY AdministrationAssumption, Typed DEF Deadline, ExpireKey, vars, TypeOK
<1>3. \A row \in idempotency' : IsRow(row)
  <2>1. \A row \in idempotency : IsRow(row) /\ IsRow(Aged(row))
    BY Typed DEF TypeOK, IsRow, Aged
  <2> QED
    BY <2>1 DEF Deadline, ExpireKey, vars, tables
<1>4. TypeOK'
  BY <1>1, <1>2, <1>3, Typed DEF TypeOK, IsRow
<1> QED
  BY <1>1, <1>4 DEF AdminInv, TypeInv, HandlersOK, HandlerOK, Whereabouts, Invited, Member

LEMMA InitAdmin == Init => AdminInv
<1> SUFFICES ASSUME Init PROVE AdminInv
  OBVIOUS
<1>1. PICK b \in Beginnings :
        /\ tenants = {[slug |-> b.slug, by |-> None]}
        /\ accounts = b.accounts /\ memberships = b.members
        /\ invitations = [i \in Invitations |->
             IF i \in Calls THEN NoInvitation
                            ELSE Pending(b.invited[i].email, b.invited[i].roles)]
  BY DEF Init
<1>2. /\ b.accounts \subseteq People /\ b.slug \in Slugs
      /\ b.members \in [People -> Membership \cup {NoMember}]
      /\ \A p \in People : b.members[p] # NoMember => p \in b.accounts
      /\ \A p, q \in b.accounts : EmailOf[p] = EmailOf[q] => p = q
      /\ b.invited \in [Earlier -> [email : Emails, roles : RoleSets]]
  BY AdministrationAssumption
<1>3. \A i \in Earlier : Pending(b.invited[i].email, b.invited[i].roles) \in InvitationRow
  BY <1>2 DEF Pending, InvitationRow
<1>4. invitations \in [Invitations -> InvitationRow \cup {NoInvitation}]
  BY <1>1, <1>3 DEF Invitations
<1>5. \A c \in Calls : ~Invited(c)
  BY <1>1 DEF Invited, Invitations
<1>6. /\ pc = [c \in Calls |-> "idle"] /\ command = [c \in Calls |-> NoCommand]
      /\ seen = [c \in Calls |-> NothingSeen] /\ answer = [c \in Calls |-> Unanswered]
      /\ idempotency = {} /\ events = <<>> /\ overdue = {}
  BY DEF Init
<1>7. /\ seen \in [Calls -> SeenSet] /\ answer \in [Calls -> AnswerSet]
      /\ pc \in [Calls -> Steps] /\ command \in [Calls -> Command \cup {NoCommand}]
  BY <1>6 DEF SeenSet, AnswerSet, NothingSeen, Unanswered, Steps
<1>8. TypeOK
  BY <1>1, <1>2, <1>4, <1>6, <1>7 DEF TypeOK, SeenSet, AnswerSet
<1>9. \A c \in Calls : HandlerOK(c) /\ Whereabouts(c)
  BY <1>5, <1>6 DEF HandlerOK, Whereabouts
<1> QED
  BY <1>1, <1>2, <1>8, <1>9 DEF AdminInv, TypeInv, HandlersOK, Member

LEMMA StepKeepsAdmin == AdminInv /\ [Next]_vars => AdminInv'
<1> SUFFICES ASSUME AdminInv, [Next]_vars PROVE AdminInv'
  OBVIOUS
<1>1. ASSUME NEW c \in Calls, Arrive(c) PROVE AdminInv'
  BY <1>1, ArriveKeeps
<1>2. ASSUME NEW c \in Calls, Step(c) PROVE AdminInv'
  BY <1>2, ReadAccessKeeps, ExpireInvitationsKeeps, ReadReplayKeeps, CreationReadsKeep,
     ReadTokenKeeps, LapseKeeps, ReadUsersKeeps, ReadMemberKeeps, CountAdminsKeeps,
     LoadInvitationKeeps, CommitOnboardKeeps, CommitInviteKeeps, CommitAcceptKeeps,
     CommitUpdateKeeps, CommitRevokeKeeps, StoppedKeep
     DEF Step
<1> QED
  BY <1>1, <1>2, TimeKeeps DEF Next, Quiet

LEMMA AdminAlways == Spec => []AdminInv
BY InitAdmin, StepKeepsAdmin, PTL DEF Spec

\* The rows of users, memberships, tenants and invitations keep their unique
\* and foreign keys, and handlers build on nothing that is not there.
THEOREM AdministrationTyped == Spec => []TypeInv
<1>1. AdminInv => TypeInv
  BY DEF AdminInv
<1> QED
  BY <1>1, AdminAlways, PTL

----------------------------------------------------------------------------
(* Invitations.                                                            *)

LEMMA UnchangedOnlyEnds ==
  ASSUME TypeOK, invitations' = invitations
  PROVE  OnlyEnds
BY DEF OnlyEnds, TypeOK

\* Apart from the new one of a creation, a step leaves invitations or ends them.
LEMMA InvitationStep ==
  ASSUME AdminInv, [Next]_vars, ~(\E c \in Calls : CommitInvite(c))
  PROVE  OnlyEnds
<1>1. CASE \E c \in Calls : ExpireInvitations(c)
  BY <1>1, Typed, ExpiryOnlyEnds
<1>2. ASSUME NEW c \in Calls, Lapse(c) \/ CommitAccept(c) \/ CommitRevoke(c)
      PROVE  OnlyEnds
  <2>1. command[c].invitation \in Invitations
    BY <1>2, Typed, CommittingHandler
       DEF Lapse, CommitAccept, CommitRevoke, HandlerOK, WellFormed
  <2> QED
    BY <1>2, <2>1, Typed, EndedOnlyEnds DEF Lapse, CommitAccept, CommitRevoke, EndStatuses
<1>3. ASSUME NEW c \in Calls,
             \/ Arrive(c) \/ ReadAccess(c) \/ ReadReplay(c) \/ ReadSlug(c) \/ ReadMembers(c)
             \/ ReadInvites(c) \/ ReadToken(c) \/ ReadUsers(c) \/ ReadMember(c)
             \/ CountAdmins(c) \/ LoadInvitation(c) \/ CommitOnboard(c) \/ CommitUpdate(c)
             \/ Abort(c) \/ Recover(c)
      PROVE  OnlyEnds
  <2>1. invitations' = invitations
    BY <1>3 DEF Arrive, ReadAccess, ReadReplay, ReadSlug, ReadMembers, ReadInvites, ReadToken,
                ReadUsers, ReadMember, CountAdmins, LoadInvitation, CommitOnboard, CommitUpdate,
                Abort, Recover, ReadOnly, tables
  <2> QED
    BY <2>1, Typed, UnchangedOnlyEnds
<1>4. ASSUME \/ \E i \in Lapsing : Deadline(i)
             \/ \E row \in idempotency : ExpireKey(row)
             \/ UNCHANGED vars
      PROVE  OnlyEnds
  BY <1>4, Typed, UnchangedOnlyEnds DEF Deadline, ExpireKey, vars, tables
<1> QED
  BY <1>1, <1>2, <1>3, <1>4 DEF Next, Step, Quiet

\* A creation adds an invitation where there was none and none was pending.
LEMMA NewInvitation ==
  ASSUME AdminInv, NEW c \in Calls, CommitInvite(c)
  PROVE  /\ c \in Invitations /\ ~Invited(c) /\ PendingFor(command[c].email) = {}
         /\ invitations'[c].email = command[c].email /\ Invited(c)'
         /\ \A i \in Invitations \ {c} : invitations'[i] = invitations[i]
<1>1. /\ Committed(c) /\ command[c].op = "invite"
      /\ invitations' = [invitations EXCEPT ![c] = Pending(command[c].email, command[c].roles)]
  BY DEF CommitInvite
<1>2. ~Stopped(c) /\ ~Invited(c) /\ c \in Invitations
  BY <1>1, CommittingHandler DEF Invitations
<1>3. PendingFor(command[c].email) = {}
  BY <1>1, <1>2 DEF Stopped
<1>4. invitations'[c] = Pending(command[c].email, command[c].roles)
  BY <1>1, <1>2, Typed DEF TypeOK
<1>5. invitations'[c].email = command[c].email /\ invitations'[c].status = "pending"
  BY <1>4 DEF Pending
<1>6. Invited(c)'
  BY <1>5 DEF Invited, NoInvitation, None
<1>7. \A i \in Invitations \ {c} : invitations'[i] = invitations[i]
  BY <1>1, <1>2, Typed DEF TypeOK
<1> QED
  BY <1>2, <1>3, <1>5, <1>6, <1>7

\* However acceptances, revocations and expiries race, an invitation ends once
\* and is never changed or reopened after that.
THEOREM EndedOnce == Spec => InvitationsEndOnce
<1>1. ASSUME AdminInv, [Next]_vars, NEW i \in Invitations, Invited(i)
      PROVE  \/ invitations'[i] = invitations[i]
             \/ /\ IsPending(i)
                /\ invitations'[i].status \in {"accepted", "revoked", "expired"}
                /\ invitations'[i].version = invitations[i].version + 1
                /\ invitations'[i].email = invitations[i].email
                /\ invitations'[i].roles = invitations[i].roles
  <2>1. CASE \E c \in Calls : CommitInvite(c)
    BY <1>1, <2>1, NewInvitation
  <2>2. CASE ~(\E c \in Calls : CommitInvite(c))
    BY <1>1, <2>2, InvitationStep DEF OnlyEnds, Ends, EndStatuses
  <2> QED
    BY <2>1, <2>2
<1>2. AdminInv /\ [Next]_vars =>
        [\A i \in Invitations : Invited(i) =>
           \/ invitations'[i] = invitations[i]
           \/ /\ IsPending(i)
              /\ invitations'[i].status \in {"accepted", "revoked", "expired"}
              /\ invitations'[i].version = invitations[i].version + 1
              /\ invitations'[i].email = invitations[i].email
              /\ invitations'[i].roles = invitations[i].roles]_vars
  BY <1>1
<1> QED
  BY <1>2, AdminAlways, PTL DEF Spec, InvitationsEndOnce

PendingUnique == \A email \in Emails : \A i, j \in PendingFor(email) : i = j

LEMMA StepKeepsPending ==
  ASSUME AdminInv, PendingUnique, [Next]_vars
  PROVE  PendingUnique'
<1>1. ASSUME NEW c \in Calls, CommitInvite(c) PROVE PendingUnique'
  BY <1>1, NewInvitation DEF PendingUnique, PendingFor, Invited, IsPending
<1>2. CASE ~(\E c \in Calls : CommitInvite(c))
  <2>1. \A i \in Invitations :
          /\ Invited(i)' <=> Invited(i)
          /\ Invited(i) => invitations'[i].email = invitations[i].email
          /\ IsPending(i)' => IsPending(i)
    BY <1>2, Typed, InvitationStep, EndsKeeps
  <2>2. \A email \in Emails : PendingFor(email)' \subseteq PendingFor(email)
    BY <2>1 DEF PendingFor
  <2> QED
    BY <2>2 DEF PendingUnique
<1> QED
  BY <1>1, <1>2

LEMMA InitPending == Init => PendingUnique
<1> SUFFICES ASSUME Init PROVE PendingUnique
  OBVIOUS
<1>1. PICK b \in Beginnings :
        invitations = [i \in Invitations |->
             IF i \in Calls THEN NoInvitation
                            ELSE Pending(b.invited[i].email, b.invited[i].roles)]
  BY DEF Init
<1>2. \A i, j \in Earlier : b.invited[i].email = b.invited[j].email => i = j
  BY AdministrationAssumption
<1>3. \A i \in Invitations : Invited(i) => i \in Earlier /\ invitations[i].email = b.invited[i].email
  BY <1>1 DEF Invited, Pending, Invitations
<1> QED
  BY <1>2, <1>3 DEF PendingUnique, PendingFor

\* Two creations that both found no pending invitation still leave one.
THEOREM PendingOnce == Spec => []OnePendingPerEmail
<1>1. ASSUME PendingUnique, NEW email \in Emails
      PROVE  Cardinality(PendingFor(email)) <= 1
  <2>1. CASE PendingFor(email) = {}
    BY <2>1, FS_EmptySet
  <2>2. ASSUME NEW i \in PendingFor(email)
        PROVE  Cardinality(PendingFor(email)) <= 1
    <3>1. PendingFor(email) = {i}
      BY <1>1, <2>2 DEF PendingUnique
    <3>2. Cardinality({i}) = 1
      BY FS_Singleton
    <3> QED
      BY <3>1, <3>2
  <2> QED
    BY <2>1, <2>2
<1>2. PendingUnique => OnePendingPerEmail
  BY <1>1 DEF OnePendingPerEmail
<1>3. AdminInv /\ PendingUnique /\ [Next]_vars => PendingUnique'
  BY StepKeepsPending
<1> QED
  BY <1>2, <1>3, InitPending, AdminAlways, PTL DEF Spec

----------------------------------------------------------------------------
(* The last administrator.                                                 *)

LEMMA Fewer ==
  ASSUME AdminInv, NEW p \in People, Admins \subseteq {p}
  PROVE  Cardinality(Admins) <= 1
<1>1. IsFiniteSet({p}) /\ Cardinality({p}) = 1
  BY FS_Singleton
<1> QED
  BY <1>1, FS_Subset

\* An update whose count still holds never takes the last administrator away:
\* only one that read too early does, or an acceptance.
THEOREM LastAdministrator == Spec => LastAdminUnlessStale
<1>1. ASSUME AdminInv, [Next]_vars, Admins # {}, Admins' = {}
      PROVE  \E c \in Calls : pc[c] = "batch" /\ pc'[c] = "done" /\ Stale(c)
  <2>1. ASSUME NEW c \in Calls, CommitAccept(c)
        PROVE  pc[c] = "batch" /\ pc'[c] = "done" /\ Stale(c)
    BY <1>1, <2>1, Typed DEF CommitAccept, Committed, Respond, Stale
  <2>2. ASSUME NEW c \in Calls, CommitUpdate(c)
        PROVE  pc[c] = "batch" /\ pc'[c] = "done" /\ Stale(c)
    <3> DEFINE p == command[c].person
    <3>1. /\ pc[c] = "batch" /\ pc'[c] = "done" /\ command[c].op = "update"
          /\ p \in People /\ seen[c].removes => seen[c].admins > 1
      BY <1>1, <2>2, Typed, CommittingHandler
         DEF CommitUpdate, Committed, Respond, WellFormed, Whereabouts
    <3>2. \A q \in People \ {p} : memberships'[q] = memberships[q]
      BY <1>1, <2>2, Typed DEF CommitUpdate, TypeOK
    <3>3. Admins \subseteq {p}
      BY <1>1, <3>2 DEF Admins, AdminsOf
    <3>4. p \in People /\ Cardinality(Admins) <= 1 /\ Cardinality(Admins) \in Nat
      BY <1>1, <3>3, Fewer, CountedAdmins DEF Admins, AdminsOf
    <3>5. seen[c].admins \in Nat
      BY <1>1, Typed DEF SeenSet
    <3> QED
      BY <3>1, <3>4, <3>5 DEF Stale
  <2>3. CASE memberships' = memberships
    BY <1>1, <2>3 DEF Admins, AdminsOf
  <2>4. memberships' = memberships \/ \E c \in Calls : CommitAccept(c) \/ CommitUpdate(c)
    BY <1>1 DEF Next, Step, Quiet, Arrive, ReadAccess, ReadReplay, ReadSlug, ReadMembers,
       ReadInvites, ReadToken, ReadUsers, ReadMember, CountAdmins, LoadInvitation,
       ExpireInvitations, Lapse, CommitOnboard, CommitInvite, CommitRevoke, Abort, Recover,
       Deadline, ExpireKey, ReadOnly, tables, vars
  <2> QED
    BY <2>1, <2>2, <2>3, <2>4
<1>2. AdminInv /\ [Next]_vars =>
        [Admins # {} /\ Admins' = {} =>
           \E c \in Calls : pc[c] = "batch" /\ pc'[c] = "done" /\ Stale(c)]_vars
  BY <1>1
<1> QED
  BY <1>2, AdminAlways, PTL DEF Spec, LastAdminUnlessStale

----------------------------------------------------------------------------
(* What the other steps of handlers do to events, keys and answers.        *)

Keyed == {"onboard", "invite", "revoke", "update"}

SameQuestion(row, c) == row.claim = Claim(c) /\ row.hash = Hash(c)

\* A handler goes on or answers, without a batch.
Effects(c) ==
  /\ UNCHANGED <<tenants, accounts, idempotency, events>>
  /\ OnlyEnds
  /\ \A d \in Calls \ {c} :
       pc'[d] = pc[d] /\ command'[d] = command[d] /\ answer'[d] = answer[d]
  /\ pc[c] # "done"
  /\ pc[c] # "idle" => command'[c] = command[c]
  /\ \/ pc'[c] # "done" /\ answer'[c] = answer[c]
     \/ pc'[c] = "done" /\ answer'[c].kind \in Refusals
     \/ pc'[c] = "done" /\ answer'[c].kind = "ok" /\ command'[c].op = "list"
     \/ /\ pc'[c] = "done" /\ answer'[c].kind = "replayed" /\ command'[c] = command[c]
        /\ command[c].op \in Keyed
        /\ \E row \in idempotency : SameQuestion(row, c) /\ answer'[c].by = row.by

LEMMA AnswersOf ==
  ASSUME AdminInv, NEW c \in Calls, NEW kind, NEW by, Respond(c, kind, by)
  PROVE  /\ pc'[c] = "done" /\ answer'[c].kind = kind /\ answer'[c].by = by
         /\ \A d \in Calls \ {c} : pc'[d] = pc[d] /\ answer'[d] = answer[d]
BY Typed DEF Respond

LEMMA RefusalEffects ==
  ASSUME AdminInv, NEW c \in Calls, NEW kind \in Refusals, Refuse(c, kind),
         pc[c] \notin {"idle", "done"}, OnlyEnds,
         UNCHANGED <<tenants, accounts, idempotency, events, command>>
  PROVE  Effects(c)
BY AnswersOf DEF Effects, Refuse

LEMMA ReplayedEffects ==
  ASSUME AdminInv, NEW c \in Calls, NEW row \in LiveClaimed(c), Replayed(c, row),
         pc[c] \notin {"idle", "done"}, command[c].op \in Keyed, OnlyEnds,
         UNCHANGED <<tenants, accounts, idempotency, events, command>>
  PROVE  Effects(c)
<1>1. CASE row.hash = Hash(c)
  BY <1>1, AnswersOf DEF Effects, Replayed, LiveClaimed, Claimed, SameQuestion
<1>2. CASE row.hash # Hash(c)
  BY <1>2, RefusalEffects DEF Replayed, Refusals
<1> QED
  BY <1>1, <1>2

LEMMA GotoEffects ==
  ASSUME AdminInv, NEW c \in Calls, NEW step \in Steps \ {"done"}, Goto(c, step),
         pc[c] \notin {"idle", "done"}, OnlyEnds,
         UNCHANGED <<tenants, accounts, idempotency, events, command>>
  PROVE  Effects(c)
BY Typed DEF Effects, Goto

LEMMA ReadEffects ==
  ASSUME AdminInv, NEW c \in Calls,
         \/ ReadAccess(c) \/ ReadReplay(c) \/ ReadSlug(c) \/ ReadMembers(c)
         \/ ReadInvites(c) \/ ReadToken(c) \/ ReadUsers(c) \/ ReadMember(c)
         \/ CountAdmins(c) \/ LoadInvitation(c) \/ Abort(c) \/ Recover(c)
  PROVE  Effects(c)
<1>1. ReadOnly /\ pc[c] \notin {"idle", "done"}
  BY DEF ReadAccess, ReadReplay, ReadSlug, ReadMembers, ReadInvites, ReadToken, ReadUsers,
         ReadMember, CountAdmins, LoadInvitation, Abort, Recover
<1>2. OnlyEnds /\ UNCHANGED <<tenants, accounts, idempotency, events, command>>
  BY <1>1, Typed, UnchangedOnlyEnds DEF ReadOnly, tables
<1>3. ASSUME NEW kind \in Refusals, Refuse(c, kind) PROVE Effects(c)
  BY <1>1, <1>2, <1>3, RefusalEffects
<1>4. ASSUME NEW step \in Steps \ {"done"}, Goto(c, step) PROVE Effects(c)
  BY <1>1, <1>2, <1>4, GotoEffects
<1>5. ASSUME NEW row \in LiveClaimed(c), Replayed(c, row), ReadReplay(c) \/ Recover(c)
      PROVE  Effects(c)
  <2>1. command[c].op \in Keyed
    BY <1>5, Typed DEF ReadReplay, Recover, HandlerOK, Whereabouts, Keyed
  <2> QED
    BY <1>1, <1>2, <1>5, <2>1, ReplayedEffects
<1>6. CASE ReadAccess(c)
  <2>1. command[c].op \in {"list", "invite", "revoke", "update"}
    BY <1>6, Typed DEF ReadAccess, Whereabouts
  <2>2. FirstStep(command[c].op) \in Steps \ {"done"}
    BY <2>1 DEF FirstStep, Steps
  <2> QED
    BY <1>3, <1>4, <1>6, <2>2 DEF ReadAccess, Refusals
<1>7. CASE ReadReplay(c)
  <2>1. command[c].op \in Keyed
    BY <1>7, Typed DEF ReadReplay, Whereabouts, Keyed
  <2>2. AfterReplay(command[c].op) \in Steps \ {"done"}
    BY <2>1 DEF AfterReplay, Steps, Keyed
  <2> QED
    BY <1>4, <1>5, <1>7, <2>2 DEF ReadReplay
<1>8. CASE ReadSlug(c) \/ ReadMembers(c) \/ ReadInvites(c)
  BY <1>3, <1>4, <1>8 DEF ReadSlug, ReadMembers, ReadInvites, Refusals, Steps
<1>9. CASE ReadToken(c) \/ LoadInvitation(c)
  BY <1>3, <1>4, <1>9 DEF ReadToken, LoadInvitation, Refusals, Steps
<1>10. CASE ReadUsers(c)
  BY <1>3, <1>4, <1>10 DEF ReadUsers, Refusals, Steps
<1>11. CASE ReadMember(c) \/ CountAdmins(c)
  BY <1>3, <1>4, <1>11 DEF ReadMember, CountAdmins, Refusals, Steps
<1>12. CASE Abort(c) \/ Recover(c)
  BY <1>3, <1>4, <1>5, <1>12 DEF Abort, Recover, Refusals, Steps
<1> QED
  BY <1>6, <1>7, <1>8, <1>9, <1>10, <1>11, <1>12

LEMMA OtherEffects ==
  ASSUME AdminInv, NEW c \in Calls, Arrive(c) \/ ExpireInvitations(c) \/ Lapse(c)
  PROVE  Effects(c)
<1>1. CASE Lapse(c)
  <2>1. command[c].invitation \in Invitations
    BY <1>1, Typed DEF Lapse, HandlerOK, WellFormed
  <2>2. OnlyEnds
    BY <1>1, <2>1, Typed, EndedOnlyEnds DEF Lapse, EndStatuses
  <2> QED
    BY <1>1, <2>2, RefusalEffects DEF Lapse, Refusals
<1>2. CASE ExpireInvitations(c)
  <2>1. OnlyEnds
    BY <1>2, Typed, ExpiryOnlyEnds
  <2>2. command[c].op = "list" /\ command' = command
    BY <1>2, Typed DEF ExpireInvitations, Whereabouts
  <2> QED
    BY <1>2, <2>1, <2>2, AnswersOf DEF ExpireInvitations, Effects
<1>3. CASE Arrive(c)
  <2>1. OnlyEnds
    BY <1>3, Typed, UnchangedOnlyEnds DEF Arrive, tables
  <2>2. \A d \in Calls \ {c} : command'[d] = command[d]
    BY <1>3, Typed DEF Arrive, TypeOK
  <2>3. UNCHANGED <<tenants, accounts, idempotency, events>> /\ pc[c] = "idle"
    BY <1>3 DEF Arrive, tables
  <2>4. CASE Refuse(c, "no-active-membership")
    BY <2>1, <2>2, <2>3, <2>4, AnswersOf DEF Effects, Refuse, Refusals
  <2>5. ASSUME NEW step \in {"replay", "token", "access"}, Goto(c, step)
        PROVE  Effects(c)
    BY <2>1, <2>2, <2>3, <2>5, Typed DEF Effects, Goto
  <2> QED
    BY <1>3, <2>4, <2>5 DEF Arrive
<1> QED
  BY <1>1, <1>2, <1>3

----------------------------------------------------------------------------
(* Events, keys and answers.                                               *)

Announced == {events[n] : n \in DOMAIN events}

\* An event is of a call that succeeded, says what it asked, and for good.
EventOK(e) ==
  LET c == e.by
  IN
  /\ c \in Calls /\ pc[c] = "done" /\ answer[c].kind = "ok" /\ command[c].op \in Keyed \cup {"accept"}
  /\ Announces(e, c)
  /\ command[c].op = "invite" => Invited(c)
  /\ command[c].op \in {"accept", "revoke"} =>
       command[c].invitation \in Invitations /\ Invited(command[c].invitation)
  /\ command[c].op \in Keyed => \E row \in idempotency : row.by = c
  /\ e.type = "accepted" =>
       /\ e.invitation \in Invitations /\ Invited(e.invitation) /\ e.person \in accounts
       /\ EmailOf[e.person] = invitations[e.invitation].email

RowOK(row) ==
  LET c == row.by
  IN
  /\ c \in Calls /\ pc[c] = "done" /\ command[c].op \in Keyed
  /\ SameQuestion(row, c)
  /\ \E e \in Announced : e.by = c

AnswerOK(c) ==
  /\ answer[c].kind # None => pc[c] = "done"
  /\ answer[c].kind = "ok" /\ command[c].op # "list" =>
       answer[c].by = c /\ \E e \in Announced : e.by = c
  /\ answer[c].kind = "replayed" =>
       /\ command[c].op \in Keyed
       /\ \E row \in idempotency : SameQuestion(row, c) /\ answer[c].by = row.by

AnswersInv ==
  /\ \A e \in Announced : EventOK(e)
  /\ \A m, n \in DOMAIN events : events[m].by = events[n].by => m = n
  /\ \A row \in idempotency : RowOK(row)
  /\ \A row, other \in idempotency : row.claim = other.claim => row = other
  /\ \A c \in Calls : AnswerOK(c)

\* What a step does not take back.
Persists ==
  /\ tenants \subseteq tenants' /\ accounts \subseteq accounts'
  /\ \A i \in Invitations : Invited(i) =>
       /\ Invited(i)' /\ invitations'[i].email = invitations[i].email
       /\ ~IsPending(i) => ~IsPending(i)'
  /\ \A c \in Calls : pc[c] = "done" =>
       pc'[c] = "done" /\ command'[c] = command[c] /\ answer'[c] = answer[c]
  /\ \A row \in idempotency : \E kept \in idempotency' :
       kept.by = row.by /\ kept.claim = row.claim /\ kept.hash = row.hash

LEMMA EventKept ==
  ASSUME TypeOK, NEW e, EventOK(e), Persists
  PROVE  EventOK(e)'
<1> DEFINE c == e.by
<1>1. /\ c \in Calls /\ pc[c] = "done" /\ answer[c].kind = "ok"
      /\ command[c].op \in Keyed \cup {"accept"}
      /\ pc'[c] = "done" /\ command'[c] = command[c] /\ answer'[c] = answer[c]
  BY DEF EventOK, Persists
<1>2. /\ command[c].op = "invite" => Invited(c) /\ Invited(c)'
                                     /\ invitations'[c].email = invitations[c].email
      /\ command[c].op \in {"accept", "revoke"} =>
           /\ command[c].invitation \in Invitations
           /\ invitations[command[c].invitation] # NoInvitation
           /\ invitations'[command[c].invitation] # NoInvitation
           /\ invitations[command[c].invitation].status # "pending" =>
                invitations'[command[c].invitation].status # "pending"
  BY <1>1 DEF EventOK, Persists, Invitations, Invited, IsPending
<1>3. Announces(e, c)'
  <2>1. Announces(e, c)
    BY DEF EventOK
  <2>2. command[c].op = "onboard" =>
          ([slug |-> command[c].slug, by |-> c] \in tenants =>
             [slug |-> command[c].slug, by |-> c] \in tenants')
    BY DEF Persists
  <2> QED
    BY <1>1, <1>2, <2>1, <2>2 DEF Announces, IsPending, Keyed
<1>4. command[c].op \in Keyed => \E row \in idempotency' : row.by = c
  BY <1>1 DEF EventOK, Persists
<1>5. e.type = "accepted" =>
        /\ e.invitation \in Invitations /\ invitations'[e.invitation] # NoInvitation
        /\ e.person \in accounts'
        /\ EmailOf[e.person] = invitations'[e.invitation].email
  BY DEF EventOK, Persists, Invited
<1> QED
  BY <1>1, <1>2, <1>3, <1>4, <1>5 DEF EventOK, Invited

LEMMA RowKept ==
  ASSUME NEW row, NEW c, row.by = c, RowOK(row), Persists,
         Announced \subseteq Announced',
         NEW kept, kept.by = c, kept.claim = row.claim, kept.hash = row.hash
  PROVE  RowOK(kept)'
<1>1. /\ c \in Calls /\ pc[c] = "done" /\ command[c].op \in Keyed /\ SameQuestion(row, c)
      /\ pc'[c] = "done" /\ command'[c] = command[c]
  BY DEF RowOK, Persists
<1>2. SameQuestion(kept, c)'
  BY <1>1 DEF SameQuestion, Claim, Hash
<1>3. \E e \in Announced' : e.by = c
  BY DEF RowOK
<1> QED
  BY <1>1, <1>2, <1>3 DEF RowOK

LEMMA AnswerKept ==
  ASSUME NEW c \in Calls, AnswerOK(c), Persists,
         pc[c] = "done" \/ (pc'[c] = pc[c] /\ command'[c] = command[c] /\ answer'[c] = answer[c]),
         Announced \subseteq Announced'
  PROVE  AnswerOK(c)'
<1>1. /\ answer'[c] = answer[c] /\ command'[c] = command[c]
      /\ pc[c] = "done" => pc'[c] = "done"
  BY DEF Persists
<1>2. answer[c].kind = "ok" /\ command[c].op # "list" =>
        answer[c].by = c /\ \E e \in Announced' : e.by = c
  BY DEF AnswerOK
<1>3. answer[c].kind = "replayed" =>
        /\ command[c].op \in Keyed
        /\ \E row \in idempotency' : /\ row.claim = Claim(c) /\ row.hash = Hash(c)
                                     /\ answer[c].by = row.by
  BY DEF AnswerOK, SameQuestion, Persists
<1>4. Claim(c)' = Claim(c) /\ Hash(c)' = Hash(c)
  BY <1>1 DEF Claim, Hash
<1> QED
  BY <1>1, <1>2, <1>3, <1>4 DEF AnswerOK, SameQuestion

LEMMA EffectsPersist ==
  ASSUME AdminInv, NEW c \in Calls, Effects(c)
  PROVE  Persists
<1>1. \A i \in Invitations :
        /\ Invited(i)' <=> Invited(i)
        /\ Invited(i) => invitations'[i].email = invitations[i].email
        /\ IsPending(i)' => IsPending(i)
  BY Typed, EndsKeeps DEF Effects
<1> QED
  BY <1>1 DEF Persists, Effects

LEMMA EffectsKeepAnswers ==
  ASSUME AdminInv, AnswersInv, NEW c \in Calls, Effects(c)
  PROVE  AnswersInv'
<1>1. /\ Persists /\ TypeOK /\ idempotency' = idempotency
      /\ events' = events /\ Announced' = Announced
  BY EffectsPersist, Typed DEF Effects, Announced
<1>2. \A e \in Announced' : EventOK(e)'
  <2> SUFFICES ASSUME NEW e \in Announced' PROVE EventOK(e)'
    OBVIOUS
  <2>1. EventOK(e)
    BY <1>1 DEF AnswersInv
  <2> QED
    BY <1>1, <2>1, EventKept
<1>4. ASSUME NEW row \in idempotency PROVE RowOK(row)'
  <2>1. RowOK(row)
    BY DEF AnswersInv
  <2> QED
    BY <1>1, <2>1, RowKept
<1>5. \A d \in Calls \ {c} : AnswerOK(d)'
  <2>1. \A d \in Calls \ {c} :
          AnswerOK(d) /\ pc'[d] = pc[d] /\ command'[d] = command[d] /\ answer'[d] = answer[d]
    BY DEF AnswersInv, Effects
  <2> QED
    BY <1>1, <2>1, AnswerKept
<1>6. AnswerOK(c)'
  <2>1. AnswerOK(c) /\ pc[c] # "done"
    BY DEF AnswersInv, Effects
  <2>2. CASE pc'[c] # "done" /\ answer'[c] = answer[c]
    BY <2>1, <2>2 DEF AnswerOK, None
  <2>3. CASE pc'[c] = "done" /\ answer'[c].kind \in Refusals
    BY <2>3 DEF AnswerOK, Refusals
  <2>4. CASE pc'[c] = "done" /\ answer'[c].kind = "ok" /\ command'[c].op = "list"
    BY <2>4 DEF AnswerOK
  <2>5. CASE /\ pc'[c] = "done" /\ answer'[c].kind = "replayed" /\ command'[c] = command[c]
             /\ command[c].op \in Keyed
             /\ \E row \in idempotency : SameQuestion(row, c) /\ answer'[c].by = row.by
    BY <1>1, <2>5 DEF AnswerOK, SameQuestion, Claim, Hash
  <2> QED
    BY <2>2, <2>3, <2>4, <2>5 DEF Effects
<1>7. \A m, n \in DOMAIN events' : events'[m].by = events'[n].by => m = n
  BY <1>1 DEF AnswersInv
<1>8. \A row, other \in idempotency' : row.claim = other.claim => row = other
  BY <1>1 DEF AnswersInv
<1>9. \A row \in idempotency' : RowOK(row)'
  BY <1>1, <1>4
<1>10. \A d \in Calls : AnswerOK(d)'
  BY <1>5, <1>6
<1> QED
  BY <1>2, <1>7, <1>8, <1>9, <1>10 DEF AnswersInv

LEMMA TimeKeepsAnswers ==
  ASSUME AdminInv, AnswersInv,
         \/ \E i \in Lapsing : Deadline(i)
         \/ \E row \in idempotency : ExpireKey(row)
         \/ UNCHANGED vars
  PROVE  AnswersInv'
<1>1. UNCHANGED <<tenants, accounts, memberships, invitations, events, pc, command, answer>>
  BY DEF Deadline, ExpireKey, vars, tables, handlers
<1>2. \/ idempotency' = idempotency
      \/ \E row \in idempotency : idempotency' = (idempotency \ {row}) \cup {Aged(row)}
  BY DEF Deadline, ExpireKey, vars, tables
<1>3. /\ \A row \in idempotency : \E kept \in idempotency' :
           kept.by = row.by /\ kept.claim = row.claim /\ kept.hash = row.hash
      /\ \A kept \in idempotency' : \E row \in idempotency :
           kept.by = row.by /\ kept.claim = row.claim /\ kept.hash = row.hash
  <2>1. CASE idempotency' = idempotency
    BY <2>1
  <2>2. ASSUME NEW aged \in idempotency, idempotency' = (idempotency \ {aged}) \cup {Aged(aged)}
        PROVE  /\ \A row \in idempotency : \E kept \in idempotency' :
                    kept.by = row.by /\ kept.claim = row.claim /\ kept.hash = row.hash
               /\ \A kept \in idempotency' : \E row \in idempotency :
                    kept.by = row.by /\ kept.claim = row.claim /\ kept.hash = row.hash
    <3> DEFINE late == Aged(aged)
    <3>1. late.by = aged.by /\ late.claim = aged.claim /\ late.hash = aged.hash
      BY DEF Aged
    <3> HIDE DEF late
    <3>2. idempotency' = (idempotency \ {aged}) \cup {late}
      BY <2>2 DEF late
    <3> QED
      BY <3>1, <3>2
  <2> QED
    BY <1>2, <2>1, <2>2
<1>4. Persists /\ TypeOK /\ Announced' = Announced
  BY <1>1, <1>3, Typed DEF Persists, Invited, IsPending, Announced
<1>5. \A e \in Announced' : EventOK(e)'
  <2> SUFFICES ASSUME NEW e \in Announced' PROVE EventOK(e)'
    OBVIOUS
  <2>1. EventOK(e)
    BY <1>1 DEF AnswersInv, Announced
  <2> QED
    BY <1>4, <2>1, EventKept
<1>6. ASSUME NEW kept \in idempotency' PROVE RowOK(kept)'
  <2>1. PICK row \in idempotency :
          kept.by = row.by /\ kept.claim = row.claim /\ kept.hash = row.hash
    BY <1>3
  <2>2. RowOK(row)
    BY DEF AnswersInv
  <2> QED
    BY <1>1, <1>4, <2>1, <2>2, RowKept
<1>7. \A c \in Calls : AnswerOK(c)'
  <2>1. \A c \in Calls :
          AnswerOK(c) /\ pc'[c] = pc[c] /\ command'[c] = command[c] /\ answer'[c] = answer[c]
    BY <1>1 DEF AnswersInv
  <2> QED
    BY <1>4, <2>1, AnswerKept
<1>8. \A row, other \in idempotency' : row.claim = other.claim => row = other
  <2>1. CASE idempotency' = idempotency
    BY <2>1 DEF AnswersInv
  <2>2. ASSUME NEW aged \in idempotency, idempotency' = (idempotency \ {aged}) \cup {Aged(aged)}
        PROVE  \A row, other \in idempotency' : row.claim = other.claim => row = other
    <3> DEFINE late == Aged(aged)
    <3>1. late.claim = aged.claim
      BY DEF Aged
    <3> HIDE DEF late
    <3>2. idempotency' = (idempotency \ {aged}) \cup {late}
      BY <2>2 DEF late
    <3> QED
      BY <3>1, <3>2 DEF AnswersInv
  <2> QED
    BY <1>2, <2>1, <2>2
<1>9. \A m, n \in DOMAIN events' : events'[m].by = events'[n].by => m = n
  BY <1>1 DEF AnswersInv
<1> QED
  BY <1>5, <1>6, <1>7, <1>8, <1>9 DEF AnswersInv

LEMMA LongerSeq ==
  ASSUME NEW S, NEW seq \in Seq(S), NEW e \in S
  PROVE  LET longer == Append(seq, e)
         IN  /\ DOMAIN longer = DOMAIN seq \cup {Len(seq) + 1}
             /\ Len(seq) + 1 \notin DOMAIN seq
             /\ \A n \in DOMAIN seq : longer[n] = seq[n]
             /\ longer[Len(seq) + 1] = e
<1>1. /\ Append(seq, e) \in Seq(S) /\ Len(Append(seq, e)) = Len(seq) + 1
      /\ \A n \in 1 .. Len(seq) : Append(seq, e)[n] = seq[n]
      /\ Append(seq, e)[Len(seq) + 1] = e
  BY AppendProperties
<1>2. DOMAIN seq = 1 .. Len(seq) /\ DOMAIN Append(seq, e) = 1 .. Len(Append(seq, e))
      /\ Len(seq) \in Nat
  BY <1>1, LenProperties
<1> QED
  BY <1>1, <1>2

\* A batch that commits with an event that is true of what it has written.
LEMMA CommitKeepsAnswers ==
  ASSUME AdminInv, AnswersInv, NEW c \in Calls, Committed(c),
         tenants \subseteq tenants', accounts \subseteq accounts',
         \A i \in Invitations : Invited(i) =>
           /\ Invited(i)' /\ invitations'[i].email = invitations[i].email
           /\ ~IsPending(i) => ~IsPending(i)',
         NEW e \in EventSet, e.by = c, events' = Append(events, e),
         EventOK(e)', command[c].op \in Keyed \cup {"accept"}
  PROVE  AnswersInv'
<1>1. /\ pc[c] = "batch" /\ ~Stopped(c) /\ UNCHANGED command
      /\ pc'[c] = "done" /\ answer'[c].kind = "ok" /\ answer'[c].by = c
      /\ \A d \in Calls \ {c} : pc'[d] = pc[d] /\ answer'[d] = answer[d]
  BY AnswersOf DEF Committed
<1>2. /\ command[c].op \in Keyed => idempotency' = idempotency \cup {Row(c)} /\ Claimed(c) = {}
      /\ command[c].op = "accept" => idempotency' = idempotency
  BY <1>1 DEF Committed, Keyed, Stopped, KeyStops
<1>3. /\ DOMAIN events' = DOMAIN events \cup {Len(events) + 1}
      /\ Len(events) + 1 \notin DOMAIN events
      /\ \A n \in DOMAIN events : events'[n] = events[n]
      /\ events'[Len(events) + 1] = e
  BY Typed, LongerSeq DEF TypeOK
<1>4. Announced' = Announced \cup {e}
  BY <1>3 DEF Announced
<1>5. Persists
  BY <1>1, <1>2 DEF Persists
<1>6. \A d \in Announced : d.by # c
  BY <1>1 DEF AnswersInv, EventOK
<1>7. \A f \in Announced' : EventOK(f)'
  <2> SUFFICES ASSUME NEW f \in Announced' PROVE EventOK(f)'
    OBVIOUS
  <2>1. CASE f = e
    BY <2>1
  <2>2. CASE f \in Announced
    <3>1. EventOK(f)
      BY <2>2 DEF AnswersInv
    <3> QED
      BY <1>5, <3>1, Typed, EventKept
  <2> QED
    BY <1>4, <2>1, <2>2
<1>8. \A m, n \in DOMAIN events' : events'[m].by = events'[n].by => m = n
  <2>1. \A n \in DOMAIN events : events[n].by # c
    BY <1>6 DEF Announced
  <2> QED
    BY <1>3, <2>1 DEF AnswersInv
<1>9. ASSUME NEW row \in idempotency' PROVE RowOK(row)'
  <2>1. CASE row \in idempotency
    <3>1. RowOK(row)
      BY <2>1 DEF AnswersInv
    <3> QED
      BY <1>4, <1>5, <3>1, RowKept
  <2>2. CASE command[c].op \in Keyed /\ row = Row(c)
    <3>1. row.by = c /\ row.claim = Claim(c) /\ row.hash = Hash(c)
      BY <2>2 DEF Row
    <3>2. SameQuestion(row, c)'
      BY <1>1, <3>1 DEF SameQuestion, Claim, Hash
    <3> QED
      BY <1>1, <1>4, <2>2, <3>1, <3>2 DEF RowOK
  <2> QED
    BY <1>2, <2>1, <2>2
<1>10. \A row, other \in idempotency' : row.claim = other.claim => row = other
  <2>1. CASE idempotency' = idempotency
    BY <2>1 DEF AnswersInv
  <2>2. CASE idempotency' = idempotency \cup {Row(c)} /\ Claimed(c) = {}
    <3> DEFINE new == Row(c)
    <3>1. new.claim = Claim(c)
      BY DEF Row
    <3>2. \A row \in idempotency : row.claim # new.claim
      BY <2>2, <3>1 DEF Claimed
    <3> HIDE DEF new
    <3>3. idempotency' = idempotency \cup {new}
      BY <2>2 DEF new
    <3> QED
      BY <3>2, <3>3 DEF AnswersInv
  <2> QED
    BY <1>2, <2>1, <2>2
<1>11. \A d \in Calls \ {c} : AnswerOK(d)'
  <2>1. \A d \in Calls \ {c} :
          AnswerOK(d) /\ pc'[d] = pc[d] /\ command'[d] = command[d] /\ answer'[d] = answer[d]
    BY <1>1 DEF AnswersInv
  <2>2. Announced \subseteq Announced'
    BY <1>4
  <2> QED
    BY <1>5, <2>1, <2>2, AnswerKept
<1>12. AnswerOK(c)'
  BY <1>1, <1>4 DEF AnswerOK
<1>13. \A row \in idempotency' : RowOK(row)'
  BY <1>9
<1>14. \A d \in Calls : AnswerOK(d)'
  BY <1>11, <1>12
<1> QED
  BY <1>7, <1>8, <1>10, <1>13, <1>14 DEF AnswersInv

\* The event of each batch is true when it is written.
LEMMA EndingStays ==
  ASSUME AdminInv, OnlyEnds
  PROVE  \A i \in Invitations : Invited(i) =>
           /\ Invited(i)' /\ invitations'[i].email = invitations[i].email
           /\ ~IsPending(i) => ~IsPending(i)'
BY Typed, EndsKeeps

\* An invitation whose status an UPDATE has set is pending no more.
LEMMA NotPendingAfter ==
  ASSUME AdminInv, NEW i \in Invitations, NEW status \in EndStatuses, Invited(i),
         invitations' = Ended(i, status)
  PROVE  OnlyEnds /\ invitations'[i].status # "pending" /\ invitations'[i] # NoInvitation
<1>1. OnlyEnds
  BY Typed, EndedOnlyEnds
<1>2. invitations'[i] # NoInvitation
  BY <1>1, Typed, EndsKeeps DEF Invited
<1>3. CASE IsPending(i)
  <2>1. invitations' = [invitations EXCEPT ![i] =
                          [invitations[i] EXCEPT !.status = status, !.version = @ + 1]]
    BY <1>3, Typed DEF Ended, TypeOK
  <2>2. invitations[i] \in InvitationRow
    BY <1>3, Typed, PendingRow
  <2> DEFINE row == [invitations[i] EXCEPT !.status = status, !.version = @ + 1]
  <2>3. row.status = status
    BY <2>2, EndedRow
  <2> HIDE DEF row
  <2>4. invitations'[i] = row
    BY <2>1, Typed DEF row, TypeOK
  <2> QED
    BY <1>1, <1>2, <2>3, <2>4 DEF IsPending, EndStatuses
<1>4. CASE ~IsPending(i)
  BY <1>1, <1>2, <1>4 DEF Ended, IsPending
<1> QED
  BY <1>3, <1>4

LEMMA KeyWritten ==
  ASSUME NEW c \in Calls, idempotency' = idempotency \cup {Row(c)}
  PROVE  \E row \in idempotency' : row.by = c
<1> DEFINE new == Row(c)
<1>1. new.by = c
  BY DEF Row
<1>2. new \in idempotency'
  OBVIOUS
<1> HIDE DEF new
<1> QED
  BY <1>1, <1>2

LEMMA OnboardAnswers ==
  ASSUME AdminInv, AnswersInv, NEW c \in Calls, CommitOnboard(c)
  PROVE  AnswersInv'
<1>1. PICK e \in EventSet :
        e = [type |-> "onboarded", invitation |-> None, person |-> None, status |-> None,
             roles |-> {}, by |-> c]
  BY DEF EventSet
<1>2. /\ Committed(c) /\ command[c].op = "onboard"
      /\ tenants' = tenants \cup {[slug |-> command[c].slug, by |-> c]}
      /\ accounts' = accounts \cup {command[c].caller}
      /\ UNCHANGED <<memberships, invitations>>
      /\ events' = Append(events, e)
  BY <1>1 DEF CommitOnboard, Event
<1>3. /\ UNCHANGED command /\ pc'[c] = "done" /\ answer'[c].kind = "ok"
      /\ idempotency' = idempotency \cup {Row(c)}
  BY <1>2, AnswersOf DEF Committed
<1>4. Announces(e, c)'
  BY <1>1, <1>2, <1>3 DEF Announces
<1>5. \E row \in idempotency' : row.by = c
  BY <1>3, KeyWritten
<1>6. EventOK(e)'
  BY <1>1, <1>2, <1>3, <1>4, <1>5 DEF EventOK, Keyed
<1>7. e.by = c
  BY <1>1
<1>8. OnlyEnds
  BY <1>2, Typed, UnchangedOnlyEnds
<1> QED
  BY <1>2, <1>6, <1>7, <1>8, EndingStays, CommitKeepsAnswers DEF Keyed

LEMMA InviteAnswers ==
  ASSUME AdminInv, AnswersInv, NEW c \in Calls, CommitInvite(c)
  PROVE  AnswersInv'
<1>1. /\ Committed(c) /\ command[c].op = "invite"
      /\ UNCHANGED <<tenants, accounts, memberships>>
  BY DEF CommitInvite
<1>2. command[c].roles \in SUBSET Roles
  BY <1>1, CommittingHandler DEF WellFormed, RoleSets
<1>3. PICK e \in EventSet :
        e = [type |-> "created", invitation |-> c, person |-> None, status |-> None,
             roles |-> command[c].roles, by |-> c]
  BY <1>2 DEF EventSet, Invitations
<1>4. /\ UNCHANGED command /\ pc'[c] = "done" /\ answer'[c].kind = "ok"
      /\ idempotency' = idempotency \cup {Row(c)}
  BY <1>1, AnswersOf DEF Committed
<1>5. /\ c \in Invitations /\ ~Invited(c)
      /\ invitations'[c].email = command[c].email /\ Invited(c)'
      /\ \A i \in Invitations \ {c} : invitations'[i] = invitations[i]
  BY NewInvitation
<1>6. Announces(e, c)'
  BY <1>1, <1>3, <1>4, <1>5 DEF Announces
<1>7. \E row \in idempotency' : row.by = c
  BY <1>4, KeyWritten
<1>8. EventOK(e)'
  BY <1>1, <1>3, <1>4, <1>5, <1>6, <1>7 DEF EventOK, Keyed
<1>9. e.by = c /\ events' = Append(events, e)
  BY <1>3 DEF CommitInvite, Event, Created
<1>10. \A i \in Invitations : Invited(i) =>
        /\ Invited(i)' /\ invitations'[i].email = invitations[i].email
        /\ ~IsPending(i) => ~IsPending(i)'
  BY <1>5 DEF Invited, IsPending
<1> QED
  BY <1>1, <1>8, <1>9, <1>10, CommitKeepsAnswers DEF Keyed

LEMMA AcceptAnswers ==
  ASSUME AdminInv, AnswersInv, NEW c \in Calls, CommitAccept(c)
  PROVE  AnswersInv'
<1> DEFINE p == command[c].caller
           i == command[c].invitation
<1>1. /\ Committed(c) /\ command[c].op = "accept" /\ accounts' = accounts \cup {p}
      /\ invitations' = Ended(i, "accepted") /\ UNCHANGED tenants
  BY DEF CommitAccept
<1>2. UNCHANGED command /\ pc'[c] = "done" /\ answer'[c].kind = "ok"
  BY <1>1, AnswersOf DEF Committed
<1>3. /\ HandlerOK(c) /\ pc[c] = "batch" /\ command[c] \in Command /\ WellFormed(command[c])
  BY <1>1, CommittingHandler
<1>4. /\ p \in People /\ i \in Invitations /\ Invited(i)
      /\ invitations[i].email = EmailOf[p]
  BY <1>1, <1>3 DEF Command, WellFormed, HandlerOK
<1>5. invitations[i].roles \in SUBSET Roles
  BY <1>4, Typed DEF TypeOK, Invited, InvitationRow, RoleSets
<1>6. PICK e \in EventSet :
         e = [type |-> "accepted", invitation |-> i, person |-> p, status |-> "active",
              roles |-> invitations[i].roles, by |-> c]
  BY <1>4, <1>5 DEF EventSet
<1>7. e.by = c /\ events' = Append(events, e)
  BY <1>6 DEF CommitAccept, Event
<1>8. OnlyEnds /\ invitations'[i].status # "pending" /\ invitations'[i] # NoInvitation
  BY <1>1, <1>4, NotPendingAfter DEF EndStatuses
<1>9. invitations'[i].email = EmailOf[p]
  BY <1>4, <1>8, EndingStays
<1>10. Announces(e, c)'
  BY <1>1, <1>2, <1>6, <1>8 DEF Announces, IsPending
<1>11. EventOK(e)'
  BY <1>1, <1>2, <1>4, <1>6, <1>8, <1>9, <1>10 DEF EventOK, Keyed, Invited
<1> QED
  BY <1>1, <1>7, <1>8, <1>11, EndingStays, CommitKeepsAnswers

LEMMA UpdateAnswers ==
  ASSUME AdminInv, AnswersInv, NEW c \in Calls, CommitUpdate(c)
  PROVE  AnswersInv'
<1> DEFINE cmd == command[c]
<1>1. /\ Committed(c) /\ cmd.op = "update" /\ UNCHANGED <<tenants, accounts, invitations>>
  BY DEF CommitUpdate
<1>2. cmd.person \in People /\ cmd.status \in {"active", "suspended"} /\ cmd.roles \in SUBSET Roles
  BY <1>1, CommittingHandler DEF Command, WellFormed, RoleSets
<1>3. PICK e \in EventSet :
        e = [type |-> "changed", invitation |-> None, person |-> cmd.person,
             status |-> cmd.status, roles |-> cmd.roles, by |-> c]
  BY <1>2 DEF EventSet
<1>4. e.by = c /\ events' = Append(events, e)
  BY <1>3 DEF CommitUpdate, Event
<1>5. /\ UNCHANGED command /\ pc'[c] = "done" /\ answer'[c].kind = "ok"
      /\ idempotency' = idempotency \cup {Row(c)}
  BY <1>1, AnswersOf DEF Committed
<1>6. Announces(e, c)'
  BY <1>1, <1>3, <1>5 DEF Announces
<1>7. \E row \in idempotency' : row.by = c
  BY <1>5, KeyWritten
<1>8. EventOK(e)'
  BY <1>1, <1>3, <1>5, <1>6, <1>7 DEF EventOK, Keyed
<1>9. OnlyEnds
  BY <1>1, Typed, UnchangedOnlyEnds
<1> QED
  BY <1>1, <1>4, <1>8, <1>9, EndingStays, CommitKeepsAnswers DEF Keyed

LEMMA RevokeAnswers ==
  ASSUME AdminInv, AnswersInv, NEW c \in Calls, CommitRevoke(c)
  PROVE  AnswersInv'
<1> DEFINE i == command[c].invitation
<1>1. /\ Committed(c) /\ command[c].op = "revoke" /\ invitations' = Ended(i, "revoked")
      /\ UNCHANGED <<tenants, accounts, memberships>>
  BY DEF CommitRevoke
<1>2. /\ UNCHANGED command /\ pc'[c] = "done" /\ answer'[c].kind = "ok"
      /\ idempotency' = idempotency \cup {Row(c)}
  BY <1>1, AnswersOf DEF Committed
<1>3. HandlerOK(c) /\ pc[c] = "batch" /\ WellFormed(command[c])
  BY <1>1, CommittingHandler
<1>4. i \in Invitations /\ Invited(i)
  BY <1>1, <1>3 DEF WellFormed, HandlerOK
<1>5. PICK e \in EventSet :
        e = [type |-> "revoked", invitation |-> i, person |-> None, status |-> None,
             roles |-> {}, by |-> c]
  BY <1>4 DEF EventSet
<1>6. e.by = c /\ events' = Append(events, e)
  BY <1>5 DEF CommitRevoke, Event
<1>7. OnlyEnds /\ invitations'[i].status # "pending" /\ invitations'[i] # NoInvitation
  BY <1>1, <1>4, NotPendingAfter DEF EndStatuses
<1>8. Announces(e, c)'
  BY <1>1, <1>2, <1>5, <1>7 DEF Announces, IsPending
<1>9. \E row \in idempotency' : row.by = c
  BY <1>2, KeyWritten
<1>10. EventOK(e)'
  BY <1>1, <1>2, <1>4, <1>5, <1>7, <1>8, <1>9 DEF EventOK, Keyed, Invited
<1> QED
  BY <1>1, <1>6, <1>7, <1>10, EndingStays, CommitKeepsAnswers DEF Keyed

LEMMA StepKeepsAnswers == AdminInv /\ AnswersInv /\ [Next]_vars => AnswersInv'
<1> SUFFICES ASSUME AdminInv, AnswersInv, [Next]_vars PROVE AnswersInv'
  OBVIOUS
<1>1. ASSUME NEW c \in Calls, Effects(c) PROVE AnswersInv'
  BY <1>1, EffectsKeepAnswers
<1>2. ASSUME NEW c \in Calls, Arrive(c) PROVE AnswersInv'
  BY <1>1, <1>2, OtherEffects
<1>3. ASSUME NEW c \in Calls, Step(c) PROVE AnswersInv'
  BY <1>1, <1>3, ReadEffects, OtherEffects, OnboardAnswers, InviteAnswers, AcceptAnswers,
     UpdateAnswers, RevokeAnswers DEF Step
<1> QED
  BY <1>2, <1>3, TimeKeepsAnswers DEF Next, Quiet

LEMMA InitAnswers == Init => AnswersInv
<1> SUFFICES ASSUME Init PROVE AnswersInv
  OBVIOUS
<1>1. /\ events = <<>> /\ idempotency = {} /\ answer = [c \in Calls |-> Unanswered]
  BY DEF Init
<1>2. DOMAIN events = {}
  BY <1>1
<1>3. \A c \in Calls : answer[c].kind = "none"
  BY <1>1 DEF Unanswered, None
<1>4. \A c \in Calls : AnswerOK(c)
  BY <1>3 DEF AnswerOK, None
<1>5. Announced = {}
  BY <1>2 DEF Announced
<1> QED
  BY <1>1, <1>2, <1>4, <1>5 DEF AnswersInv

LEMMA AnswersAlways == Spec => [](AdminInv /\ AnswersInv)
BY InitAnswers, StepKeepsAnswers, AdminAlways, PTL DEF Spec

\* The same question gets the same announcement.
LEMMA SameAnnouncement ==
  ASSUME NEW c \in Calls, NEW d \in Calls, WellFormed(command[c]), WellFormed(command[d]),
         Claim(c) = Claim(d), Hash(c) = Hash(d), command[d].op \in Keyed,
         NEW e, e.by = d, Announces(e, d)
  PROVE  Announces(e, c)
<1>1. /\ command[c].op = command[d].op /\ command[c].email = command[d].email
      /\ command[c].invitation = command[d].invitation
      /\ command[c].person = command[d].person
  BY DEF Claim
<1>2. /\ command[c].slug = command[d].slug /\ command[c].status = command[d].status
      /\ command[c].roles = command[d].roles
  BY DEF Hash
<1>3. command[c].op = "onboard" => command[c].caller = command[d].caller
  BY <1>1 DEF WellFormed
<1> QED
  BY <1>1, <1>2, <1>3 DEF Announces, Keyed

\* A call is told the truth: a success was announced once by the call it names,
\* for the same key and payload, and a refusal left nothing behind.
THEOREM AnswersTrue == Spec => []AnswersAreTrue
<1>1. ASSUME AdminInv, AnswersInv, NEW c \in Calls
      PROVE  /\ answer[c].kind \in Refusals => \A n \in DOMAIN events : events[n].by # c
             /\ answer[c].kind \in {"ok", "replayed"} /\ command[c].op # "list" =>
                  \E n \in DOMAIN events : events[n].by = answer[c].by /\ Announces(events[n], c)
             /\ command[c].op \in {"onboard", "invite", "revoke", "update"} =>
                  \A m, n \in DOMAIN events :
                    Claim(events[m].by) = Claim(c) /\ Claim(events[n].by) = Claim(c) => m = n
  <2>1. /\ \A n \in DOMAIN events : EventOK(events[n])
        /\ AnswerOK(c)
        /\ \A d \in Calls : pc[d] = "done" => WellFormed(command[d])
    BY <1>1, Typed DEF AnswersInv, Announced, HandlerOK
  <2>2. ASSUME answer[c].kind \in Refusals, NEW n \in DOMAIN events
        PROVE  events[n].by # c
    BY <2>1, <2>2 DEF EventOK, Refusals
  <2>3. ASSUME answer[c].kind = "ok", command[c].op # "list"
        PROVE  \E n \in DOMAIN events : events[n].by = answer[c].by /\ Announces(events[n], c)
    <3>1. answer[c].by = c /\ \E n \in DOMAIN events : events[n].by = c
      BY <2>1, <2>3 DEF AnswerOK, Announced
    <3> QED
      BY <2>1, <3>1 DEF EventOK
  <2>4. ASSUME answer[c].kind = "replayed"
        PROVE  \E n \in DOMAIN events : events[n].by = answer[c].by /\ Announces(events[n], c)
    <3>1. PICK row \in idempotency : SameQuestion(row, c) /\ answer[c].by = row.by
      BY <2>1, <2>4 DEF AnswerOK
    <3> DEFINE d == row.by
    <3>2. /\ d \in Calls /\ pc[d] = "done" /\ command[d].op \in Keyed /\ SameQuestion(row, d)
          /\ \E n \in DOMAIN events : events[n].by = d
      BY <1>1 DEF AnswersInv, RowOK, Announced
    <3>3. PICK n \in DOMAIN events : events[n].by = d
      BY <3>2
    <3>4. Announces(events[n], d)
      BY <2>1, <3>3 DEF EventOK
    <3>5. WellFormed(command[c]) /\ WellFormed(command[d])
      BY <2>1, <2>4, <3>2 DEF AnswerOK, None
    <3>6. Claim(c) = Claim(d) /\ Hash(c) = Hash(d)
      BY <3>1, <3>2 DEF SameQuestion
    <3>7. Announces(events[n], c)
      BY <3>2, <3>3, <3>4, <3>5, <3>6, SameAnnouncement
    <3> QED
      BY <3>1, <3>3, <3>7
  <2>5. ASSUME command[c].op \in Keyed, NEW m \in DOMAIN events, NEW n \in DOMAIN events,
               Claim(events[m].by) = Claim(c), Claim(events[n].by) = Claim(c)
        PROVE  m = n
    <3>1. /\ command[events[m].by].op = command[c].op
          /\ command[events[n].by].op = command[c].op
      BY <2>5 DEF Claim
    <3>2. PICK row \in idempotency : row.by = events[m].by
      BY <2>1, <2>5, <3>1 DEF EventOK
    <3>3. PICK other \in idempotency : other.by = events[n].by
      BY <2>1, <2>5, <3>1 DEF EventOK
    <3>4. row.claim = Claim(events[m].by) /\ other.claim = Claim(events[n].by)
      BY <1>1, <3>2, <3>3 DEF AnswersInv, RowOK, SameQuestion
    <3> QED
      BY <1>1, <2>5, <3>2, <3>3, <3>4 DEF AnswersInv
  <2> QED
    BY <2>2, <2>3, <2>4, <2>5 DEF Keyed
<1>2. AdminInv /\ AnswersInv => AnswersAreTrue
  BY <1>1 DEF AnswersAreTrue
<1> QED
  BY <1>2, AnswersAlways, PTL

\* An invitation lets in one subject, whose email it was sent to, although two
\* subjects may have that email and follow the link at a time.
THEOREM OneAccount == Spec => []OneAccountPerInvitation
<1>1. ASSUME AdminInv, AnswersInv, NEW m \in DOMAIN events, NEW n \in DOMAIN events,
             events[m].type = "accepted", events[n].type = "accepted",
             events[m].invitation = events[n].invitation
      PROVE  /\ events[m].person = events[n].person
             /\ EmailOf[events[m].person] = invitations[events[m].invitation].email
  <2>1. EventOK(events[m]) /\ EventOK(events[n])
    BY <1>1 DEF AnswersInv, Announced
  <2>2. /\ events[m].person \in accounts /\ events[n].person \in accounts
        /\ EmailOf[events[m].person] = invitations[events[m].invitation].email
        /\ EmailOf[events[n].person] = invitations[events[n].invitation].email
    BY <1>1, <2>1 DEF EventOK
  <2> QED
    BY <1>1, <2>2 DEF AdminInv, TypeInv
<1>2. AdminInv /\ AnswersInv => OneAccountPerInvitation
  BY <1>1 DEF OneAccountPerInvitation
<1> QED
  BY <1>2, AnswersAlways, PTL

----------------------------------------------------------------------------
(* The row of a member is what the last of the events about it tells.       *)

LEMMA EventMade ==
  ASSUME NEW type \in {"onboarded", "created", "accepted", "changed", "revoked"},
         NEW i \in Invitations \cup {None}, NEW p \in People \cup {None},
         NEW status \in {"active", "suspended", None}, NEW roles \in SUBSET Roles,
         NEW c \in Calls
  PROVE  LET e == Event(type, i, p, status, roles, c)
         IN  e \in EventSet /\ e.person = p /\ e.status = status /\ e.roles = roles
BY DEF Event, EventSet

\* A batch that writes the member its event is about, or no member at all.
LEMMA EventTells ==
  ASSUME AdminInv, MembershipIsLastEvent, NEW e \in EventSet, events' = Append(events, e),
         e.person \in People =>
           memberships'[e.person] = [status |-> e.status, roles |-> e.roles],
         \A p \in People : p # e.person => memberships'[p] = memberships[p]
  PROVE  MembershipIsLastEvent'
<1> DEFINE new == Len(events) + 1
<1>1. events \in Seq(EventSet)
  BY Typed DEF TypeOK
<1>2. /\ DOMAIN events' = DOMAIN events \cup {new} /\ new \notin DOMAIN events
      /\ \A n \in DOMAIN events : events'[n] = events[n]
      /\ events'[new] = e
  BY <1>1, LongerSeq
<1>3. DOMAIN events = 1 .. Len(events) /\ Len(events) \in Nat
  BY <1>1
<1>4. \A n \in DOMAIN events : n \in Nat /\ ~(new <= n)
  BY <1>3
<1> HIDE DEF new
<1>5. ASSUME NEW p \in People, NEW n \in DOMAIN events', LastAbout(p, n)'
      PROVE  memberships'[p] = [status |-> events'[n].status, roles |-> events'[n].roles]
  <2>1. events'[n].person = p /\ \A m \in DOMAIN events' : events'[m].person = p => m <= n
    BY <1>5 DEF LastAbout
  <2>2. CASE n = new
    BY <1>2, <2>1, <2>2
  <2>3. CASE n # new
    <3>1. n \in DOMAIN events /\ events'[n] = events[n]
      BY <1>2, <2>3
    <3>2. e.person # p
      BY <1>2, <1>4, <2>1, <3>1
    <3>3. LastAbout(p, n)
      BY <1>2, <2>1, <3>1 DEF LastAbout
    <3>4. memberships[p] = [status |-> events[n].status, roles |-> events[n].roles]
      BY <3>1, <3>3 DEF MembershipIsLastEvent
    <3> QED
      BY <3>1, <3>2, <3>4
  <2> QED
    BY <2>2, <2>3
<1> QED
  BY <1>5 DEF MembershipIsLastEvent

LEMMA StepTells ==
  ASSUME AdminInv, MembershipIsLastEvent, [Next]_vars
  PROVE  MembershipIsLastEvent'
<1>1. CASE UNCHANGED <<memberships, events>>
  BY <1>1 DEF MembershipIsLastEvent, LastAbout
<1>2. ASSUME NEW c \in Calls,
             Arrive(c) \/ ReadAccess(c) \/ ReadReplay(c) \/ ReadSlug(c) \/ ReadMembers(c)
               \/ ReadInvites(c) \/ ReadToken(c) \/ ReadUsers(c) \/ ReadMember(c)
               \/ CountAdmins(c) \/ LoadInvitation(c) \/ Abort(c) \/ Recover(c)
      PROVE  UNCHANGED <<memberships, events>>
  <2>1. UNCHANGED tables
    BY <1>2 DEF Arrive, ReadAccess, ReadReplay, ReadSlug, ReadMembers, ReadInvites, ReadToken,
                ReadUsers, ReadMember, CountAdmins, LoadInvitation, Abort, Recover, ReadOnly
  <2> QED
    BY <2>1 DEF tables
<1>3. ASSUME NEW c \in Calls, ExpireInvitations(c) \/ Lapse(c)
      PROVE  UNCHANGED <<memberships, events>>
  BY <1>3 DEF ExpireInvitations, Lapse
<1>4. ASSUME NEW c \in Calls, CommitOnboard(c) PROVE MembershipIsLastEvent'
  <2> DEFINE e == Event("onboarded", None, None, None, {}, c)
  <2>1. events' = Append(events, e) /\ memberships' = memberships
    BY <1>4 DEF CommitOnboard
  <2>2. e \in EventSet /\ e.person = None
    BY EventMade
  <2>3. None \notin People
    BY AdministrationAssumption
  <2> HIDE DEF e
  <2> QED
    BY <2>1, <2>2, <2>3, EventTells
<1>5. ASSUME NEW c \in Calls, CommitInvite(c) PROVE MembershipIsLastEvent'
  <2> DEFINE roles == command[c].roles
             e == Event("created", c, None, None, roles, c)
  <2>1. events' = Append(events, e) /\ memberships' = memberships
    BY <1>5 DEF CommitInvite, Created
  <2>2. command[c] \in Command
    BY <1>5, CommittingHandler DEF CommitInvite
  <2>3. roles \in SUBSET Roles
    BY <2>2 DEF Command, RoleSets
  <2>4. e \in EventSet /\ e.person = None
    BY <2>3, EventMade DEF Invitations
  <2>5. None \notin People
    BY AdministrationAssumption
  <2> HIDE DEF e
  <2> QED
    BY <2>1, <2>4, <2>5, EventTells
<1>6. ASSUME NEW c \in Calls, CommitAccept(c) PROVE MembershipIsLastEvent'
  <2> DEFINE p == command[c].caller
             i == command[c].invitation
             roles == invitations[i].roles
             e == Event("accepted", i, p, "active", roles, c)
  <2>1. /\ Committed(c) /\ command[c].op = "accept" /\ events' = Append(events, e)
        /\ memberships' = [memberships EXCEPT ![p] = [status |-> "active", roles |-> roles]]
    BY <1>6 DEF CommitAccept
  <2>2. /\ HandlerOK(c) /\ pc[c] = "batch"
        /\ command[c] \in Command /\ WellFormed(command[c])
    BY <2>1, CommittingHandler
  <2>3. p \in People /\ i \in Invitations /\ Invited(i)
    BY <2>1, <2>2 DEF Command, WellFormed, HandlerOK
  <2>4. roles \in SUBSET Roles
    BY <2>3, Typed DEF TypeOK, Invited, InvitationRow, RoleSets
  <2> HIDE DEF roles
  <2>5. /\ e \in EventSet /\ e.person = p /\ e.status = "active" /\ e.roles = roles
    BY <2>3, <2>4, EventMade
  <2>6. /\ memberships'[p] = [status |-> "active", roles |-> roles]
        /\ \A q \in People : q # p => memberships'[q] = memberships[q]
    BY <2>1, <2>3, Typed DEF TypeOK
  <2> HIDE DEF e
  <2> QED
    BY <2>1, <2>5, <2>6, EventTells
<1>7. ASSUME NEW c \in Calls, CommitUpdate(c) PROVE MembershipIsLastEvent'
  <2> DEFINE cmd == command[c]
             e == Event("changed", None, cmd.person, cmd.status, cmd.roles, c)
  <2>1. /\ Committed(c) /\ cmd.op = "update" /\ events' = Append(events, e)
        /\ memberships' = [memberships EXCEPT
             ![cmd.person] = [status |-> cmd.status, roles |-> cmd.roles]]
    BY <1>7 DEF CommitUpdate
  <2>2. HandlerOK(c) /\ pc[c] = "batch" /\ cmd \in Command /\ WellFormed(cmd)
    BY <2>1, CommittingHandler
  <2>3. /\ cmd.person \in People
        /\ cmd.status \in {"active", "suspended"} /\ cmd.roles \in SUBSET Roles
    BY <2>1, <2>2 DEF Command, WellFormed, RoleSets
  <2>4. e \in EventSet /\ e.person = cmd.person /\ e.status = cmd.status /\ e.roles = cmd.roles
    BY <2>3, EventMade
  <2>5. /\ memberships'[cmd.person] = [status |-> cmd.status, roles |-> cmd.roles]
        /\ \A q \in People : q # cmd.person => memberships'[q] = memberships[q]
    BY <2>1, <2>3, Typed DEF TypeOK
  <2> HIDE DEF e
  <2> QED
    BY <2>1, <2>4, <2>5, EventTells
<1>8. ASSUME NEW c \in Calls, CommitRevoke(c) PROVE MembershipIsLastEvent'
  <2> DEFINE i == command[c].invitation
             e == Event("revoked", i, None, None, {}, c)
  <2>1. events' = Append(events, e) /\ memberships' = memberships
    BY <1>8 DEF CommitRevoke
  <2>2. command[c] \in Command
    BY <1>8, CommittingHandler DEF CommitRevoke
  <2>3. i \in Invitations \cup {None}
    BY <2>2 DEF Command
  <2> HIDE DEF i
  <2>a. e \in EventSet /\ e.person = None
    BY <2>3, EventMade
  <2>4. None \notin People
    BY AdministrationAssumption
  <2> HIDE DEF e
  <2> QED
    BY <2>1, <2>a, <2>4, EventTells
<1>9. ASSUME NEW i \in Lapsing, Deadline(i) PROVE UNCHANGED <<memberships, events>>
  BY <1>9 DEF Deadline, tables
<1>10. ASSUME NEW row \in idempotency, ExpireKey(row) PROVE UNCHANGED <<memberships, events>>
  BY <1>10 DEF ExpireKey
<1>11. CASE Quiet \/ UNCHANGED vars
  BY <1>1, <1>11 DEF Quiet, vars
<1> QED
  BY <1>1, <1>2, <1>3, <1>4, <1>5, <1>6, <1>7, <1>8, <1>9, <1>10, <1>11 DEF Next, Step

\* Whatever acceptances and updates of a member race, its row is the one the
\* last of their events tells, status and roles.
THEOREM LastEventStands == Spec => []MembershipIsLastEvent
<1>1. Init => MembershipIsLastEvent
  BY DEF Init, MembershipIsLastEvent
<1>2. AdminInv /\ MembershipIsLastEvent /\ [Next]_vars => MembershipIsLastEvent'
  BY StepTells
<1> QED
  BY <1>1, <1>2, AdminAlways, PTL DEF Spec
=============================================================================
