------------------------ MODULE MCApprovalWorkflow ------------------------
(***************************************************************************)
(* Small instances of ApprovalWorkflow: one maker and two checkers, one    *)
(* of whom is also an administrator; a request that two checkers decide    *)
(* while it is cancelled, expires, or its policy is replaced.              *)
(***************************************************************************)
EXTENDS ApprovalWorkflow, TLC

CONSTANTS c1, c2, c3, c4, maker, checker, admin, k1, k2

ApprovalUsers == {maker, checker, admin}

MakerGrants == {"platform.approvals.read", "platform.approvals.request",
                "platform.approvals.decide"}

ApprovalGrants ==
  (maker :> MakerGrants) @@ (checker :> (MakerGrants \cup {"platform.modules.manage"}))
    @@ (admin :> Permissions)

Step1(permission, minimum, self) ==
  [required |-> permission, minimum |-> minimum, self |-> self]

OneChecker  == <<Step1("platform.modules.manage", 1, FALSE)>>
TwoCheckers == <<Step1("platform.approvals.decide", 2, TRUE)>>
TwoSteps    == <<Step1("platform.approvals.decide", 1, FALSE),
                 Step1("platform.modules.manage", 1, FALSE)>>

ApprovalPolicies == {OneChecker, TwoCheckers, TwoSteps}

Blank(op, user, key) ==
  [op |-> op, user |-> user, key |-> key, module |-> None, enabled |-> FALSE,
   request |-> None, decision |-> None, steps |-> <<>>]

Ask(op, user, key, enabled) ==
  [Blank(op, user, key) EXCEPT !.module = "crm", !.enabled = enabled]

Decide(user, key, decision) ==
  [Blank("decide", user, key) EXCEPT !.request = c1, !.decision = decision]

Cancel(user, key) == [Blank("cancel", user, key) EXCEPT !.request = c1]

Upsert(key, enabled, steps) ==
  [Blank("upsert", admin, key) EXCEPT !.enabled = enabled, !.steps = steps]

\* Two decisions, possibly one member's and one a retry of the other, against
\* everything else that can happen to the request.
DecisionCommands ==
  (c1 :> {Ask("create", maker, k1, FALSE)})
    @@ (c2 :> {Decide(checker, k1, "approve"), Decide(checker, k1, "reject"),
               Decide(maker, k1, "approve")})
    @@ (c3 :> {Decide(checker, k1, "approve"), Decide(checker, k2, "approve"),
               Decide(admin, k1, "approve"),
               Cancel(maker, k1)})
    @@ (c4 :> {Cancel(maker, k1), Blank("read", admin, k1),
               Ask("create", maker, k1, FALSE), Ask("set", admin, k1, FALSE),
               [Ask("set", admin, k1, FALSE) EXCEPT !.module = "platform"],
               Upsert(k1, FALSE, OneChecker), Upsert(k1, TRUE, TwoSteps)})

\* A direct change while an administrator switches the policy on.
DirectCommands ==
  (c1 :> {Ask("create", maker, k1, FALSE)})
    @@ (c2 :> {Ask("set", admin, k1, FALSE)})
    @@ (c3 :> {Upsert(k1, TRUE, OneChecker), Upsert(k1, FALSE, OneChecker)})
============================================================================
