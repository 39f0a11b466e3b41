---------------------------- MODULE MakerChecker ----------------------------
(***************************************************************************)
(* What maker-checker control promises, with no calls in flight: a module  *)
(* changes with the approval of a request in the same step, an approval    *)
(* needs every step of the request's own rules signed by enough members    *)
(* who may sign it, and a resolved request is resolved for good.           *)
(***************************************************************************)
EXTENDS ApprovalRules

VARIABLES
  modules,   \* entitlement and version per module key
  ballots,   \* the requests: what they ask, their rules and their status
  signed     \* the approvals given: <<request, step, user>>

vars == <<modules, ballots, signed>>

NoBallot == [status |-> None]

Init ==
  /\ modules \in [Modules -> [enabled : BOOLEAN, version : {1}]]
  /\ ballots = [r \in Calls |-> NoBallot]
  /\ signed = {}

Signers(r, n, signatures) == { u \in Users : <<r, n, u>> \in signatures }

Carried(r, signatures) ==
  \A n \in DOMAIN ballots[r].steps :
    /\ Cardinality(Signers(r, n, signatures)) >= ballots[r].steps[n].minimum
    /\ \A u \in Signers(r, n, signatures) :
         MayDecide(u, ballots[r].steps[n], ballots[r].requester)

Set(m, enabled) ==
  modules' = [modules EXCEPT ![m] = [enabled |-> enabled, version |-> @.version + 1]]

NewBallot == [requester : Users, module : Modules, enabled : BOOLEAN,
              steps : Policies, status : {"pending"}]

Submit(r) ==
  /\ ballots[r] = NoBallot
  /\ ballots'[r] \in NewBallot
  /\ ballots' = [ballots EXCEPT ![r] = ballots'[r]]
  /\ UNCHANGED <<modules, signed>>

\* A signature that leaves the request as it is.
Sign(r, n, u) ==
  /\ ballots[r] # NoBallot
  /\ n \in DOMAIN ballots[r].steps
  /\ MayDecide(u, ballots[r].steps[n], ballots[r].requester)
  /\ signed' = signed \cup {<<r, n, u>>}
  /\ UNCHANGED <<modules, ballots>>

\* The signature that carries the request executes it.
Carry(r, n, u) ==
  /\ ballots[r].status = "pending"
  /\ n \in DOMAIN ballots[r].steps
  /\ signed' = signed \cup {<<r, n, u>>}
  /\ Carried(r, signed')
  /\ ballots' = [ballots EXCEPT ![r].status = "approved"]
  /\ Set(ballots[r].module, ballots[r].enabled)

\* Requests that end without effect; one clean-up may end several.
Dismiss(outcome) ==
  /\ ballots' = [r \in Calls |-> ballots'[r]]
  /\ \A r \in Calls :
       \/ ballots'[r] = ballots[r]
       \/ /\ ballots[r].status = "pending"
          /\ ballots'[r] = [ballots[r] EXCEPT !.status = outcome]
  /\ UNCHANGED <<modules, signed>>

Direct(m, enabled) == Set(m, enabled) /\ UNCHANGED <<ballots, signed>>

Next ==
  \/ \E r \in Calls : Submit(r)
  \/ \E r \in Calls, u \in Users :
       \E n \in (IF ballots[r] = NoBallot THEN {} ELSE DOMAIN ballots[r].steps) :
         Sign(r, n, u) \/ Carry(r, n, u)
  \/ \E outcome \in {"rejected", "cancelled", "expired"} : Dismiss(outcome)
  \/ \E m \in Modules, enabled \in BOOLEAN : Direct(m, enabled)

Spec == Init /\ [][Next]_vars
============================================================================
