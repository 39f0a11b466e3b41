--------------------------- MODULE MCWebWorkspace ---------------------------
(***************************************************************************)
(* A tab with two identities: x belongs to two tenants, y to none, and a   *)
(* third tenant is there to be onboarded.                                  *)
(***************************************************************************)
EXTENDS WebWorkspace, TLC

CONSTANTS x, y, a, b, c

\* Only x signs in.
OneMember == x :> {a, b}

Memberships == x :> {a, b} @@ y :> {}
============================================================================
