----------------------- MODULE MCTenantAdministration -----------------------
(***************************************************************************)
(* Small instances of TenantAdministration: two administrators, a newcomer *)
(* with an invitation, and a second subject with the newcomer's email, both *)
(* of whom may also open a tenant of their own.                            *)
(***************************************************************************)
EXTENDS TenantAdministration, TLC

CONSTANTS c1, c2, c3, i1, alex, blair, casey, casper, k1, k2, s1, s2

Email(p) == IF p = casper THEN casey ELSE p

AdminEmailOf == [p \in {alex, blair, casey, casper} |-> Email(p)]

AdminRole == {"tenant-admin"}
ViewerRole == {"viewer"}

As(status, roles) == [status |-> status, roles |-> roles]

\* Alex and, in one of two ways, Blair are administrators; the newcomer is
\* invited as a viewer and has or has not an account in another tenant.
Tenant(blairRoles, others) ==
  [slug |-> s1, accounts |-> {alex, blair} \cup others,
   members  |-> (alex :> As("active", AdminRole)) @@ (blair :> As("active", blairRoles))
                  @@ (casey :> NoMember) @@ (casper :> NoMember),
   invited  |-> i1 :> [email |-> casey, roles |-> ViewerRole]]

AdminBeginnings ==
  { Tenant(AdminRole, {}), Tenant(AdminRole, {casey}), Tenant(ViewerRole, {casey}) }

Blank(op, p) ==
  [op |-> op, caller |-> p, key |-> None, slug |-> None, email |-> None, invitation |-> None,
   person |-> None, status |-> None, roles |-> {}]

Onboard(p, key, slug) ==
  [Blank("onboard", p) EXCEPT !.key = key, !.person = p, !.slug = slug]

Invite(p, key, email, roles) ==
  [Blank("invite", p) EXCEPT !.key = key, !.email = email, !.roles = roles]

Accept(p, i) == [Blank("accept", p) EXCEPT !.invitation = i]

Revoke(p, key, i) == [Blank("revoke", p) EXCEPT !.key = key, !.invitation = i]

Update(p, key, q, status, roles) ==
  [Blank("update", p) EXCEPT !.key = key, !.person = q, !.status = status, !.roles = roles]

\* The newcomer and its namesake accept, once, twice and together; one
\* administrator revokes, invites again, changes or removes the member; the
\* administrators demote and suspend each other and themselves.
AdminCommands ==
  (c1 :> {Onboard(casey, k1, s2), Accept(casey, i1), Invite(alex, k1, casey, ViewerRole),
          Invite(alex, k1, blair, ViewerRole),
          Update(alex, k1, blair, "active", ViewerRole),
          Update(alex, k1, alex, "suspended", AdminRole)})
    @@ (c2 :> {Onboard(casey, k1, s2), Onboard(casper, k1, s2), Onboard(casper, k1, s1),
               Accept(casey, i1), Accept(casper, i1), Accept(casey, c1),
               Invite(alex, k1, casey, AdminRole), Invite(blair, k2, casey, ViewerRole),
               Revoke(alex, k1, c1), Revoke(alex, k1, i1),
               Update(blair, k1, alex, "suspended", AdminRole),
               Update(alex, k2, blair, "active", AdminRole)})
    @@ (c3 :> {Onboard(casey, k1, s1), Onboard(casey, k2, s2), Accept(casey, i1),
               Blank("list", blair),
               Invite(alex, k1, casey, ViewerRole), Revoke(alex, k1, i1),
               Update(alex, k1, casey, "suspended", AdminRole),
               Update(alex, k1, alex, "active", ViewerRole),
               Update(alex, k1, blair, "active", ViewerRole)})

\* Two administrators take each other's role.
RaceCommands ==
  (c1 :> {Update(alex, k1, blair, "active", ViewerRole)})
    @@ (c2 :> {Update(blair, k1, alex, "active", ViewerRole),
               Update(blair, k1, alex, "suspended", AdminRole)})
    @@ (c3 :> {Blank("list", alex)})
=============================================================================
