----------------------- MODULE ApprovalWorkflowProofs -----------------------
(***************************************************************************)
(* Proofs about ApprovalWorkflow for every set of users, grants, modules,  *)
(* policies, calls and commands: rows keep their types, requests are       *)
(* resolved for good, nothing is approved without enough of the members    *)
(* its rules ask for, MakerChecker is implemented, modules are changed     *)
(* exactly as often as it says, answers are true and steps go in order.    *)
(***************************************************************************)
EXTENDS ApprovalWorkflow, FiniteSetTheorems, SequenceTheorems, TLAPS

(* Handlers: what an action has to show of the call it moves, and why the  *)
(* others keep their invariant.                                            *)

\* Requests stay, with the rules and the requester they were created with.
SnapshotsKept ==
  \A r \in Calls : Exists(r) =>
    /\ Exists(r)'
    /\ approvals'[r].steps = approvals[r].steps
    /\ approvals'[r].requester = approvals[r].requester

LEMMA HandlerKept ==
  ASSUME NEW d \in Calls, HandlerOK(d), SnapshotsKept, seen[d].late \subseteq Calls,
         pc'[d] = pc[d], command'[d] = command[d], seen'[d] = seen[d],
         Exists(d)' => Exists(d)
  PROVE  HandlerOK(d)'
  <1>1. RouteOK(d)'
    BY DEF HandlerOK, RouteOK
  <1>2. \A r \in seen'[d].late : Exists(r)'
    BY DEF HandlerOK, SnapshotsKept
  <1>3. pc'[d] \in BeforeBatch =>
          /\ command'[d].op = "create" => seen'[d].steps \in Policies
          /\ command'[d].op = "cancel" => Exists(command[d].request)'
    BY DEF HandlerOK, RouteOK, WellFormed, SnapshotsKept, BeforeBatch
  <1>4. (pc'[d] \in BeforeBatch \cup {"step"} /\ command'[d].op = "decide") => DeciderOK(d)'
    <2> SUFFICES ASSUME pc[d] \in BeforeBatch \cup {"step"}, command[d].op = "decide"
                 PROVE  DeciderOK(d)'
      OBVIOUS
    <2>1. DeciderOK(d) /\ command[d].request \in Calls
      BY DEF HandlerOK, RouteOK, WellFormed, BeforeBatch
    <2>2. QED
      BY <2>1 DEF DeciderOK, SnapshotsKept
  <1>5. QED
    BY <1>1, <1>2, <1>3, <1>4 DEF HandlerOK

\* An answered call has nothing left to promise.
LEMMA DoneOK ==
  ASSUME NEW c \in Calls, HandlerOK(c), SnapshotsKept, seen'[c].late \subseteq Calls,
         pc[c] # "idle", pc'[c] = "done", command'[c] = command[c],
         \A r \in seen'[c].late : Exists(r)
  PROVE  HandlerOK(c)'
  BY DEF HandlerOK, RouteOK, SnapshotsKept, BeforeBatch

\* The calls an action does not move.
LEMMA OthersKept ==
  ASSUME TypeInv, NEW c \in Calls, SnapshotsKept, HandlerOK(c)',
         \A d \in Calls \ {c} : /\ pc'[d] = pc[d]
                                /\ command'[d] = command[d]
                                /\ seen'[d] = seen[d]
                                /\ Exists(d)' => Exists(d)
  PROVE  HandlersOK'
  <1>1. ASSUME NEW d \in Calls \ {c} PROVE HandlerOK(d)'
    <2>1. seen[d].late \subseteq Calls
      BY DEF TypeInv, TypeOK, HandlersShape, SeenSet
    <2>2. HandlerOK(d)
      BY DEF TypeInv, HandlersOK
    <2>3. QED
      BY <2>1, <2>2, HandlerKept
  <1>2. QED
    BY <1>1 DEF HandlersOK

----------------------------------------------------------------------------
(* Type correctness.                                                       *)

\* What a well-shaped handler's state is.
LEMMA CurrentShape ==
  ASSUME HandlersShape, NEW c \in Calls
  PROVE  /\ pc[c] \in PCs
         /\ command[c] \in Command \cup {NoCommand}
         /\ seen[c] \in SeenSet
         /\ answer[c] \in AnswerSet
         /\ pc = [pc EXCEPT ![c] = pc[c]]
         /\ command = [command EXCEPT ![c] = command[c]]
         /\ seen = [seen EXCEPT ![c] = seen[c]]
         /\ answer = [answer EXCEPT ![c] = answer[c]]
  BY DEF HandlersShape

\* The two ways a step ends.
LEMMA GotoShape ==
  ASSUME HandlersShape, NEW c \in Calls, NEW step \in PCs, NEW cmd \in Command \cup {NoCommand},
         NEW x \in SeenSet, Goto(c, step),
         command' = [command EXCEPT ![c] = cmd],
         seen' = [seen EXCEPT ![c] = x]
  PROVE  HandlersShape'
  BY DEF HandlersShape, Goto

LEMMA RespondShape ==
  ASSUME HandlersShape, NEW c \in Calls, NEW cmd \in Command \cup {NoCommand}, NEW x \in SeenSet,
         NEW kind \in Refusals \cup {"ok", "replayed"}, NEW by \in Calls \cup {None},
         Respond(c, kind, by),
         command' = [command EXCEPT ![c] = cmd],
         seen' = [seen EXCEPT ![c] = x]
  PROVE  HandlersShape'
  <1>1. "done" \in PCs
    BY DEF PCs
  <1>2. [kind |-> kind, by |-> by] \in AnswerSet
    BY DEF AnswerSet
  <1>3. QED
    BY <1>1, <1>2 DEF HandlersShape, Respond

\* A step that leaves the tables alone keeps the invariant if the call it
\* moves keeps its own part.
LEMMA ReadOnlyKeeps ==
  ASSUME TypeInv, NEW c \in Calls, UNCHANGED tables, UNCHANGED due, HandlersShape',
         HandlerOK(c)',
         \A d \in Calls \ {c} : /\ pc'[d] = pc[d]
                                /\ command'[d] = command[d]
                                /\ seen'[d] = seen[d]
  PROVE  TypeInv'
  <1>1. SnapshotsKept /\ \A d \in Calls : Exists(d)' => Exists(d)
    BY DEF tables, SnapshotsKept, Exists
  <1>2. HandlersOK'
    BY <1>1, OthersKept
  <1>3. TypeOK'
    BY DEF TypeInv, TypeOK, TablesShape, tables
  <1>4. RequestsOK'
    BY DEF TypeInv, RequestsOK, RequestOK, tables, Exists
  <1>5. QED
    BY <1>2, <1>3, <1>4 DEF TypeInv

\* The ordinary read-only step: it moves c and may replace what c has seen.
LEMMA GotoKeeps ==
  ASSUME TypeInv, NEW c \in Calls, ReadOnly, NEW step \in PCs, Goto(c, step),
         NEW x \in SeenSet, seen' = [seen EXCEPT ![c] = x], HandlerOK(c)'
  PROVE  TypeInv'
  <1>1. HandlersShape /\ command[c] \in Command \cup {NoCommand}
    BY CurrentShape DEF TypeInv, TypeOK
  <1>2. command' = [command EXCEPT ![c] = command[c]]
    BY <1>1, CurrentShape DEF ReadOnly
  <1>3. HandlersShape'
    BY <1>1, <1>2, GotoShape
  <1>4. QED
    BY <1>1, <1>3, ReadOnlyKeeps DEF ReadOnly, Goto, HandlersShape

LEMMA RespondKeeps ==
  ASSUME TypeInv, NEW c \in Calls, ReadOnly, pc[c] # "idle",
         NEW kind \in Refusals \cup {"ok", "replayed"}, NEW by \in Calls \cup {None},
         Respond(c, kind, by),
         NEW x \in SeenSet, seen' = [seen EXCEPT ![c] = x], \A r \in x.late : Exists(r)
  PROVE  TypeInv'
  <1>1. HandlersShape /\ command[c] \in Command \cup {NoCommand}
    BY CurrentShape DEF TypeInv, TypeOK
  <1>2. command' = [command EXCEPT ![c] = command[c]]
    BY <1>1, CurrentShape DEF ReadOnly
  <1>3. HandlersShape'
    BY <1>1, <1>2, RespondShape
  <1>4. seen'[c] = x /\ pc'[c] = "done"
    BY <1>1 DEF HandlersShape, Respond
  <1>5. HandlerOK(c)'
    <2>1. SnapshotsKept
      BY DEF ReadOnly, tables, SnapshotsKept, Exists
    <2>2. HandlerOK(c)
      BY DEF TypeInv, HandlersOK
    <2>3. QED
      BY <1>2, <1>4, <2>1, <2>2, DoneOK DEF SeenSet, ReadOnly
  <1>6. QED
    BY <1>1, <1>3, <1>5, ReadOnlyKeeps DEF ReadOnly, Respond, HandlersShape

LEMMA PolicyShape ==
  ASSUME NEW p \in Policies
  PROVE  /\ p \in Seq(Rule) /\ DOMAIN p = 1 .. Len(p)
         /\ Len(p) \in Nat \ {0} /\ 1 \in DOMAIN p
         /\ \A n \in DOMAIN p : n \in Nat /\ p[n] \in Rule
  <1>1. p \in Seq(Rule) /\ p # <<>>
    BY ApprovalAssumption
  <1>2. DOMAIN p = 1 .. Len(p) /\ Len(p) \in Nat /\ \A n \in 1 .. Len(p) : p[n] \in Rule
    BY <1>1
  <1>3. Len(p) # 0
    BY <1>1, EmptySeq
  <1>4. QED
    BY <1>1, <1>2, <1>3

LEMMA InitTypeInv == Init => TypeInv
  <1> SUFFICES ASSUME Init PROVE TypeInv
    OBVIOUS
  <1> USE DEF Init
  <1>1. TablesShape
    BY FS_EmptySet DEF TablesShape
  <1>2. HandlersShape
    BY DEF HandlersShape, PCs, NothingSeen, SeenSet, Unanswered, AnswerSet
  <1>3. HandlersOK
    BY DEF HandlersOK, HandlerOK, RouteOK, Exists, NothingSeen, BeforeBatch
  <1>4. RequestsOK
    BY DEF RequestsOK, Exists
  <1>5. QED
    BY <1>1, <1>2, <1>3, <1>4 DEF TypeInv, TypeOK

\* What is known of a call that has arrived.
LEMMA Arrived ==
  ASSUME TypeInv, NEW c \in Calls, pc[c] # "idle"
  PROVE  /\ HandlersShape /\ TablesShape /\ HandlerOK(c)
         /\ command[c] \in Command /\ WellFormed(command[c])
         /\ seen[c] \in SeenSet /\ seen = [seen EXCEPT ![c] = seen[c]]
         /\ \A r \in seen[c].late : Exists(r)
  BY CurrentShape DEF TypeInv, TypeOK, HandlersOK, HandlerOK, RouteOK

LEMMA ArriveTypeInv ==
  ASSUME TypeInv, NEW c \in Calls, Arrive(c)
  PROVE  TypeInv'
  <1>1. PICK cmd \in Commands[c] :
          LET admitted == modules["platform"].enabled /\ MayCall(cmd)
          IN  /\ command' = [command EXCEPT ![c] = cmd]
              /\ seen' = [seen EXCEPT
                   ![c].admitted = admitted,
                   ![c].version = IF cmd.op = "set" THEN modules[cmd.module].version ELSE 0]
              /\ IF admitted \/ cmd.op = "set" THEN Goto(c, FirstStep(cmd.op))
                                                 ELSE Refuse(c, "forbidden")
    BY DEF Arrive
  <1> DEFINE admitted == modules["platform"].enabled /\ MayCall(cmd)
             x == [seen[c] EXCEPT !.admitted = admitted,
                     !.version = IF cmd.op = "set" THEN modules[cmd.module].version ELSE 0]
  <1>2. cmd \in Command /\ WellFormed(cmd)
    BY ApprovalAssumption
  <1>3. HandlersShape /\ TablesShape /\ seen[c] \in SeenSet /\ HandlerOK(c)
    BY CurrentShape DEF TypeInv, TypeOK, HandlersOK
  <1>4. x \in SeenSet /\ x.late = seen[c].late
    <2>1. cmd.op = "set" => modules[cmd.module].version \in Nat
      BY <1>2, <1>3 DEF WellFormed, TablesShape
    <2>2. admitted \in BOOLEAN
      BY <1>3, ApprovalAssumption DEF TablesShape, MayCall
    <2>3. QED
      BY <1>3, <2>1, <2>2 DEF SeenSet
  <1>5. seen' = [seen EXCEPT ![c] = x]
    BY <1>1, <1>3 DEF HandlersShape, SeenSet
  <1>6. FirstStep(cmd.op) \in {"module", "pending", "replay", "direct", "late"}
    BY <1>2 DEF Command, Ops, FirstStep
  <1>7. command' = [command EXCEPT ![c] = cmd] /\ (IF admitted \/ cmd.op = "set"
          THEN Goto(c, FirstStep(cmd.op)) ELSE Refuse(c, "forbidden"))
    BY <1>1
  <1> HIDE DEF x, admitted
  <1>8. HandlersShape'
    <2>1. CASE Goto(c, FirstStep(cmd.op))
      <3>1. FirstStep(cmd.op) \in PCs
        BY <1>6 DEF PCs
      <3>2. QED
        BY <1>2, <1>3, <1>4, <1>5, <1>7, <2>1, <3>1, GotoShape
    <2>2. CASE Refuse(c, "forbidden")
      BY <1>2, <1>3, <1>4, <1>5, <1>7, <2>2, RespondShape DEF Refuse, Refusals
    <2>3. QED
      BY <1>7, <2>1, <2>2
  <1>9. command'[c] = cmd /\ seen'[c] = x /\ pc[c] = "idle"
    BY <1>3, <1>5, <1>7 DEF HandlersShape, Arrive
  <1>10. ~Exists(c) /\ \A r \in x.late : Exists(r)
    BY <1>3, <1>4, <1>9 DEF HandlerOK
  <1>11. \A r \in Calls : Exists(r)' = Exists(r)
    BY DEF Arrive, tables, Exists
  <1>12. HandlerOK(c)'
    <2>1. x.late \subseteq Calls
      BY <1>4 DEF SeenSet
    <2>2. CASE Goto(c, FirstStep(cmd.op))
      <3>1. pc'[c] = FirstStep(cmd.op)
        BY <1>3, <2>2 DEF Goto, HandlersShape
      <3>2. RouteOK(c)'
        BY <1>2, <1>9, <3>1 DEF RouteOK, FirstStep, Command, Ops
      <3>3. pc'[c] = "replay" => cmd.op = "upsert"
        BY <1>2, <3>1 DEF FirstStep, Command, Ops
      <3>4. pc'[c] \in {"module", "pending", "replay", "direct", "late"}
        BY <1>6, <3>1
      <3>5. QED
        BY <1>9, <1>10, <1>11, <2>1, <3>2, <3>3, <3>4 DEF HandlerOK, BeforeBatch
    <2>3. CASE Refuse(c, "forbidden")
      <3>1. pc'[c] = "done"
        BY <1>3, <2>3 DEF Refuse, Respond, HandlersShape
      <3>2. QED
        BY <1>2, <1>9, <1>10, <1>11, <2>1, <3>1 DEF HandlerOK, RouteOK, BeforeBatch
    <2>4. QED
      BY <1>7, <2>2, <2>3
  <1>13. \A d \in Calls \ {c} : /\ pc'[d] = pc[d]
                                /\ command'[d] = command[d]
                                /\ seen'[d] = seen[d]
    BY <1>3, <1>5, <1>7 DEF HandlersShape, Goto, Refuse, Respond
  <1>14. QED
    BY <1>8, <1>12, <1>13, ReadOnlyKeeps DEF Arrive

LEMMA ReadModuleTypeInv ==
  ASSUME TypeInv, NEW c \in Calls, ReadModule(c)
  PROVE  TypeInv'
  <1> DEFINE version == modules[command[c].module].version
             x == [seen[c] EXCEPT !.version = version]
  <1>1. /\ HandlersShape /\ TablesShape /\ HandlerOK(c)
        /\ command[c] \in Command /\ WellFormed(command[c])
        /\ seen[c] \in SeenSet /\ seen = [seen EXCEPT ![c] = seen[c]]
        /\ (\A r \in seen[c].late : Exists(r)) /\ pc[c] # "idle"
    BY Arrived DEF ReadModule
  <1>2. command[c].op = "create" /\ command[c].module \in Modules
    BY <1>1 DEF ReadModule, HandlerOK, RouteOK, WellFormed
  <1>3. CASE Refuse(c, "no-change") /\ UNCHANGED seen
    BY <1>1, <1>3, RespondKeeps DEF ReadModule, Refuse, Refusals
  <1>4. CASE seen' = [seen EXCEPT ![c].version = version] /\ Goto(c, "policy")
    <2>1. x \in SeenSet /\ x.late = seen[c].late
      BY <1>1, <1>2 DEF SeenSet, TablesShape
    <2>2. seen' = [seen EXCEPT ![c] = x] /\ pc'[c] = "policy" /\ seen'[c] = x
      BY <1>1, <1>4 DEF HandlersShape, SeenSet, Goto
    <2>3. HandlerOK(c)'
      BY <1>1, <1>2, <2>1, <2>2
         DEF HandlerOK, RouteOK, ReadModule, ReadOnly, tables, Exists, BeforeBatch
    <2>4. QED
      BY <1>4, <2>1, <2>2, <2>3, GotoKeeps DEF ReadModule, PCs
  <1>5. QED
    BY <1>3, <1>4 DEF ReadModule

LEMMA ReadPolicyTypeInv ==
  ASSUME TypeInv, NEW c \in Calls, ReadPolicy(c)
  PROVE  TypeInv'
  <1>1. /\ HandlersShape /\ HandlerOK(c) /\ seen[c] \in SeenSet
        /\ seen = [seen EXCEPT ![c] = seen[c]]
        /\ (\A r \in seen[c].late : Exists(r)) /\ pc[c] # "idle"
    BY Arrived DEF ReadPolicy
  <1>2. CASE Refuse(c, "policy-not-found")
    BY <1>1, <1>2, RespondKeeps DEF ReadPolicy, Refuse, Refusals
  <1>3. CASE Goto(c, "steps")
    <2>1. HandlerOK(c)'
      BY <1>1, <1>3
         DEF HandlerOK, RouteOK, ReadPolicy, ReadOnly, tables, Exists, BeforeBatch, Goto,
             HandlersShape
    <2>2. QED
      BY <1>1, <1>3, <2>1, GotoKeeps DEF ReadPolicy, PCs
  <1>4. QED
    BY <1>2, <1>3 DEF ReadPolicy

LEMMA ReadPolicyStepsTypeInv ==
  ASSUME TypeInv, NEW c \in Calls, ReadPolicySteps(c)
  PROVE  TypeInv'
  <1> DEFINE x == [seen[c] EXCEPT !.steps = policy.steps]
  <1>1. /\ HandlersShape /\ TablesShape /\ HandlerOK(c) /\ seen[c] \in SeenSet
        /\ (\A r \in seen[c].late : Exists(r)) /\ pc[c] # "idle"
    BY Arrived DEF ReadPolicySteps
  <1>2. x \in SeenSet /\ x.late = seen[c].late /\ x.steps \in Policies
    BY <1>1 DEF SeenSet, TablesShape
  <1>3. seen' = [seen EXCEPT ![c] = x] /\ pc'[c] = "replay" /\ seen'[c] = x
    BY <1>1 DEF HandlersShape, SeenSet, Goto, ReadPolicySteps
  <1>4. HandlerOK(c)'
    BY <1>1, <1>2, <1>3
       DEF HandlerOK, RouteOK, ReadPolicySteps, ReadOnly, tables, Exists, BeforeBatch
  <1>5. QED
    BY <1>2, <1>3, <1>4, GotoKeeps DEF ReadPolicySteps, PCs

LEMMA RequireDirectAllowedTypeInv ==
  ASSUME TypeInv, NEW c \in Calls, RequireDirectAllowed(c)
  PROVE  TypeInv'
  <1>1. /\ HandlersShape /\ HandlerOK(c) /\ seen[c] \in SeenSet
        /\ seen = [seen EXCEPT ![c] = seen[c]]
        /\ (\A r \in seen[c].late : Exists(r)) /\ pc[c] # "idle"
    BY Arrived DEF RequireDirectAllowed
  <1>2. CASE Refuse(c, "approval-required") \/ Refuse(c, "forbidden")
    BY <1>1, <1>2, RespondKeeps DEF RequireDirectAllowed, Refuse, Refusals
  <1>3. CASE Goto(c, "replay")
    <2>1. HandlerOK(c)'
      BY <1>1, <1>3
         DEF HandlerOK, RouteOK, RequireDirectAllowed, ReadOnly, tables, Exists,
             BeforeBatch, Goto, HandlersShape
    <2>2. QED
      BY <1>1, <1>3, <2>1, GotoKeeps DEF RequireDirectAllowed, PCs
  <1>4. QED
    BY <1>2, <1>3 DEF RequireDirectAllowed

LEMMA LoadPendingTypeInv ==
  ASSUME TypeInv, NEW c \in Calls, LoadPending(c)
  PROVE  TypeInv'
  <1> DEFINE r == command[c].request
             x == [seen[c] EXCEPT !.step = approvals[r].current]
  <1>1. /\ HandlersShape /\ TablesShape /\ HandlerOK(c)
        /\ command[c] \in Command /\ WellFormed(command[c])
        /\ seen[c] \in SeenSet /\ seen = [seen EXCEPT ![c] = seen[c]]
        /\ (\A q \in seen[c].late : Exists(q)) /\ pc[c] # "idle"
    BY Arrived DEF LoadPending
  <1>2. pc[c] = "pending" /\ ReadOnly
    BY DEF LoadPending
  <1>3. command[c].op \in {"decide", "cancel"} /\ r \in Calls
    BY <1>1, <1>2 DEF HandlerOK, RouteOK, WellFormed
  <1>4. CASE /\ UNCHANGED seen
             /\ \E kind \in {"not-found", "resolved", "forbidden"} : Refuse(c, kind)
    BY <1>1, <1>2, <1>4, RespondKeeps DEF Refuse, Refusals
  <1>5. CASE /\ Exists(r) /\ command[c].op = "decide"
             /\ seen' = [seen EXCEPT ![c].step = approvals[r].current]
             /\ Goto(c, IF r \in due THEN "late" ELSE "step")
    <2>1. approvals[r].current \in DOMAIN approvals[r].steps /\ approvals[r].current \in Nat
      BY <1>1, <1>3, <1>5 DEF TypeInv, RequestsOK, RequestOK, TablesShape, RequestRow, Exists
    <2>2. x \in SeenSet /\ x.late = seen[c].late /\ x.step = approvals[r].current
      BY <1>1, <2>1 DEF SeenSet
    <2>3. seen' = [seen EXCEPT ![c] = x] /\ seen'[c] = x
      BY <1>1, <1>5 DEF HandlersShape, SeenSet
    <2>4. pc'[c] \in {"late", "step"}
      BY <1>1, <1>5 DEF HandlersShape, Goto
    <2>5. UNCHANGED <<approvals, command>>
      BY <1>2 DEF ReadOnly, tables
    <2> HIDE DEF x
    <2>6. pc'[c] = "step" => DeciderOK(c)'
      BY <1>5, <2>1, <2>2, <2>3, <2>5 DEF DeciderOK, Exists
    <2>7. RouteOK(c)'
      BY <1>1, <1>5, <2>4, <2>5 DEF RouteOK
    <2>8. HandlerOK(c)'
      BY <1>1, <1>2, <2>2, <2>3, <2>4, <2>5, <2>6, <2>7 DEF HandlerOK, BeforeBatch, Exists
    <2>9. QED
      BY <1>2, <1>5, <2>2, <2>3, <2>8, GotoKeeps DEF PCs
  <1>6. CASE /\ Exists(r) /\ command[c].op = "cancel"
             /\ UNCHANGED seen
             /\ Goto(c, "replay")
    <2>1. pc'[c] = "replay" /\ UNCHANGED <<approvals, command>>
      BY <1>1, <1>2, <1>6 DEF HandlersShape, Goto, ReadOnly, tables
    <2>2. HandlerOK(c)'
      BY <1>1, <1>2, <1>6, <2>1 DEF HandlerOK, RouteOK, BeforeBatch, Exists
    <2>3. QED
      BY <1>1, <1>2, <1>6, <2>2, GotoKeeps DEF PCs
  <1>7. QED
    BY <1>4, <1>5, <1>6 DEF LoadPending

LEMMA CheckStepTypeInv ==
  ASSUME TypeInv, NEW c \in Calls, CheckStep(c)
  PROVE  TypeInv'
  <1> DEFINE a == approvals[command[c].request]
  <1>1. /\ HandlersShape /\ HandlerOK(c)
        /\ seen[c] \in SeenSet /\ seen = [seen EXCEPT ![c] = seen[c]]
        /\ (\A q \in seen[c].late : Exists(q)) /\ pc[c] # "idle"
    BY Arrived DEF CheckStep
  <1>2. pc[c] = "step" /\ command[c].op = "decide" /\ DeciderOK(c)
    BY <1>1 DEF HandlerOK, RouteOK, BeforeBatch, CheckStep
  <1>3. CASE \E kind \in {"step-not-pending", "forbidden"} : Refuse(c, kind)
    BY <1>1, <1>3, RespondKeeps DEF Refuse, Refusals, CheckStep
  <1>4. CASE /\ MayDecide(command[c].user, a.steps[seen[c].step], a.requester)
             /\ Goto(c, "replay")
    <2>1. pc'[c] = "replay" /\ UNCHANGED <<approvals, command, seen>>
      BY <1>1, <1>4 DEF HandlersShape, Goto, ReadOnly, tables, CheckStep
    <2>2. DeciderOK(c)'
      BY <1>2, <1>4, <2>1 DEF DeciderOK, Exists
    <2>3. HandlerOK(c)'
      BY <1>1, <1>2, <2>1, <2>2 DEF HandlerOK, RouteOK, BeforeBatch, Exists
    <2>4. QED
      BY <1>1, <1>4, <2>3, GotoKeeps DEF PCs, CheckStep
  <1>5. QED
    BY <1>3, <1>4 DEF CheckStep

LEMMA ReadReplayTypeInv ==
  ASSUME TypeInv, NEW c \in Calls, ReadReplay(c)
  PROVE  TypeInv'
  <1>1. /\ HandlersShape /\ TablesShape /\ HandlerOK(c)
        /\ seen[c] \in SeenSet /\ seen = [seen EXCEPT ![c] = seen[c]]
        /\ (\A q \in seen[c].late : Exists(q)) /\ pc[c] # "idle"
    BY Arrived DEF ReadReplay
  <1>2. CASE \E row \in LiveClaimed(c) :
               IF row.hash = Hash(c) THEN Respond(c, "replayed", row.by)
                                     ELSE Refuse(c, "key-conflict")
    <2>1. \A row \in LiveClaimed(c) : row.by \in Calls
      BY <1>1 DEF LiveClaimed, Claimed, TablesShape, IsRow
    <2>2. QED
      BY <1>1, <1>2, <2>1, RespondKeeps DEF Refuse, Refusals, ReadReplay
  <1>3. CASE Goto(c, IF command[c].op = "decide" THEN "duplicate" ELSE "batch")
    <2>1. /\ pc[c] = "replay" /\ UNCHANGED <<approvals, command, seen>>
          /\ pc'[c] = IF command[c].op = "decide" THEN "duplicate" ELSE "batch"
      BY <1>1, <1>3 DEF HandlersShape, Goto, ReadOnly, tables, ReadReplay
    <2>2. command[c].op = "decide" => DeciderOK(c)'
      BY <1>1, <2>1 DEF HandlerOK, BeforeBatch, DeciderOK, Exists
    <2>3. HandlerOK(c)'
      BY <1>1, <2>1, <2>2 DEF HandlerOK, RouteOK, BeforeBatch, Exists
    <2>4. QED
      BY <1>1, <1>3, <2>3, GotoKeeps DEF PCs, ReadReplay
  <1>4. QED
    BY <1>2, <1>3 DEF ReadReplay

LEMMA CheckDuplicateTypeInv ==
  ASSUME TypeInv, NEW c \in Calls, CheckDuplicate(c)
  PROVE  TypeInv'
  <1>1. /\ HandlersShape /\ HandlerOK(c)
        /\ seen[c] \in SeenSet /\ seen = [seen EXCEPT ![c] = seen[c]]
        /\ (\A q \in seen[c].late : Exists(q)) /\ pc[c] # "idle"
    BY Arrived DEF CheckDuplicate
  <1>2. CASE Refuse(c, "already-decided")
    BY <1>1, <1>2, RespondKeeps DEF Refuse, Refusals, CheckDuplicate
  <1>3. CASE Goto(c, "batch")
    <2>1. /\ pc[c] = "duplicate" /\ pc'[c] = "batch"
          /\ UNCHANGED <<approvals, command, seen>>
      BY <1>1, <1>3 DEF HandlersShape, Goto, ReadOnly, tables, CheckDuplicate
    <2>2. command[c].op = "decide" => DeciderOK(c)'
      BY <1>1, <2>1 DEF HandlerOK, BeforeBatch, DeciderOK, Exists
    <2>3. HandlerOK(c)'
      BY <1>1, <2>1, <2>2 DEF HandlerOK, RouteOK, BeforeBatch, Exists
    <2>4. QED
      BY <1>1, <1>3, <2>3, GotoKeeps DEF PCs, CheckDuplicate
  <1>4. QED
    BY <1>2, <1>3 DEF CheckDuplicate

LEMMA AbortTypeInv ==
  ASSUME TypeInv, NEW c \in Calls, Abort(c)
  PROVE  TypeInv'
  <1>1. /\ HandlersShape /\ HandlerOK(c)
        /\ seen[c] \in SeenSet /\ seen = [seen EXCEPT ![c] = seen[c]]
        /\ (\A q \in seen[c].late : Exists(q)) /\ pc[c] # "idle"
    BY Arrived DEF Abort
  <1>2. CASE Refuse(c, "server-error")
    BY <1>1, <1>2, RespondKeeps DEF Refuse, Refusals, Abort
  <1>3. CASE Goto(c, "catch")
    <2>1. /\ pc[c] = "batch" /\ pc'[c] = "catch"
          /\ UNCHANGED <<approvals, command, seen>>
      BY <1>1, <1>3 DEF HandlersShape, Goto, ReadOnly, tables, Abort
    <2>2. HandlerOK(c)'
      BY <1>1, <2>1 DEF HandlerOK, RouteOK, BeforeBatch, Exists
    <2>3. QED
      BY <1>1, <1>3, <2>2, GotoKeeps DEF PCs, Abort
  <1>4. QED
    BY <1>2, <1>3 DEF Abort

LEMMA CatchAbortTypeInv ==
  ASSUME TypeInv, NEW c \in Calls, CatchAbort(c)
  PROVE  TypeInv'
  <1>1. /\ TablesShape /\ seen[c] \in SeenSet /\ seen = [seen EXCEPT ![c] = seen[c]]
        /\ (\A q \in seen[c].late : Exists(q)) /\ pc[c] # "idle"
    BY Arrived DEF CatchAbort
  <1>2. \A row \in LiveClaimed(c) : row.by \in Calls
    BY <1>1 DEF LiveClaimed, Claimed, TablesShape, IsRow
  <1>3. \E kind \in Refusals \cup {"replayed"}, by \in Calls \cup {None} : Respond(c, kind, by)
    BY <1>2 DEF CatchAbort, Refuse, Refusals
  <1>4. QED
    BY <1>1, <1>3, RespondKeeps DEF CatchAbort

LEMMA ReadLateTypeInv ==
  ASSUME TypeInv, NEW c \in Calls, ReadLate(c)
  PROVE  TypeInv'
  <1> DEFINE late == { r \in due : Exists(r) /\ Pending(r) }
             x == [seen[c] EXCEPT !.late = late]
  <1>1. /\ HandlersShape /\ TablesShape /\ HandlerOK(c)
        /\ command[c] \in Command /\ seen[c] \in SeenSet /\ pc[c] # "idle"
    BY Arrived DEF ReadLate
  <1>2. x \in SeenSet /\ \A r \in x.late : Exists(r)
    BY <1>1 DEF SeenSet, TablesShape
  <1>3. seen' = [seen EXCEPT ![c] = x] /\ seen'[c] = x
    BY <1>1 DEF HandlersShape, SeenSet, ReadLate
  <1>4. CASE AfterExpiry(c)
    <2>1. \E kind \in Refusals \cup {"ok"}, by \in Calls \cup {None} : Respond(c, kind, by)
      BY <1>4 DEF AfterExpiry, Refuse, Refusals
    <2>2. QED
      BY <1>1, <1>2, <1>3, <2>1, RespondKeeps DEF ReadLate
  <1>5. CASE Goto(c, "expire")
    <2>1. pc[c] = "late" /\ pc'[c] = "expire" /\ UNCHANGED <<approvals, command>>
      BY <1>1, <1>5 DEF HandlersShape, Goto, ReadOnly, tables, ReadLate
    <2>2. HandlerOK(c)'
      BY <1>1, <1>2, <1>3, <2>1 DEF HandlerOK, RouteOK, BeforeBatch, Exists
    <2>3. QED
      BY <1>2, <1>3, <1>5, <2>2, GotoKeeps DEF PCs, ReadLate
  <1>6. QED
    BY <1>4, <1>5 DEF ReadLate

\* A batch answers its call; the rest is about the tables it wrote.
LEMMA BatchKeeps ==
  ASSUME TypeInv, NEW c \in Calls, pc[c] # "idle",
         NEW kind \in Refusals \cup {"ok"}, NEW by \in Calls \cup {None},
         Respond(c, kind, by), UNCHANGED <<command, seen>>,
         TablesShape', SnapshotsKept, RequestsOK',
         \A d \in Calls \ {c} : Exists(d)' => Exists(d)
  PROVE  TypeInv'
  <1>1. /\ HandlersShape /\ HandlerOK(c) /\ command[c] \in Command \cup {NoCommand}
        /\ seen[c] \in SeenSet /\ \A r \in seen[c].late : Exists(r)
    BY Arrived
  <1>2. HandlersShape'
    BY <1>1, CurrentShape, RespondShape
  <1>3. pc'[c] = "done" /\ \A d \in Calls \ {c} : pc'[d] = pc[d]
    BY <1>1 DEF HandlersShape, Respond
  <1>4. HandlerOK(c)'
    BY <1>1, <1>3, DoneOK DEF SeenSet
  <1>5. HandlersOK'
    BY <1>3, <1>4, OthersKept
  <1>6. QED
    BY <1>2, <1>5 DEF TypeInv, TypeOK

LEMMA ExpireTypeInv ==
  ASSUME TypeInv, NEW c \in Calls, Expire(c)
  PROVE  TypeInv'
  <1> DEFINE expired(r) == [approvals[r] EXCEPT !.status = "expired"]
  <1>1. /\ TablesShape /\ RequestsOK /\ pc[c] # "idle"
    BY Arrived DEF Expire, TypeInv
  <1>2. \A r \in Calls : approvals'[r] = IF r \in seen[c].late /\ Pending(r)
                                         THEN expired(r) ELSE approvals[r]
    BY DEF Expire
  <1>3. \A r \in Calls : Pending(r) => Exists(r) /\ approvals[r] \in RequestRow
    BY <1>1 DEF Pending, Exists, NoRequest, TablesShape, None
  <1>4. \A r \in Calls : Pending(r) =>
          /\ expired(r) \in RequestRow
          /\ expired(r).steps = approvals[r].steps
          /\ expired(r).progress = approvals[r].progress
          /\ expired(r).current = approvals[r].current
          /\ expired(r).requester = approvals[r].requester
          /\ expired(r) # NoRequest
    <2> SUFFICES ASSUME NEW r \in Calls, approvals[r] \in RequestRow
                 PROVE  /\ expired(r) \in RequestRow
                        /\ expired(r).steps = approvals[r].steps
                        /\ expired(r).progress = approvals[r].progress
                        /\ expired(r).current = approvals[r].current
                        /\ expired(r).requester = approvals[r].requester
                        /\ expired(r).status = "expired"
      BY <1>3 DEF NoRequest, None
    <2>1. QED
      BY DEF RequestRow, Statuses
  <1> HIDE DEF expired
  <1>5. TablesShape'
    <2>1. approvals' = [r \in Calls |-> approvals'[r]]
      BY DEF Expire
    <2>2. approvals' \in [Calls -> RequestRow \cup {NoRequest}]
      BY <1>1, <1>2, <1>4, <2>1 DEF TablesShape
    <2>3. QED
      BY <1>1, <2>2 DEF TablesShape, Expire
  <1>6. SnapshotsKept /\ \A d \in Calls \ {c} : Exists(d)' => Exists(d)
    BY <1>2, <1>3, <1>4 DEF SnapshotsKept, Exists
  <1>7. RequestsOK'
    BY <1>1, <1>2, <1>3, <1>4 DEF RequestsOK, RequestOK, Exists
  <1>8. \E kind \in Refusals \cup {"ok"}, by \in Calls \cup {None} : Respond(c, kind, by)
    BY DEF Expire, AfterExpiry, Refuse, Refusals
  <1>9. QED
    BY <1>1, <1>5, <1>6, <1>7, <1>8, BatchKeeps DEF Expire

\* A batch that leaves the requests alone.
LEMMA QuietBatchKeeps ==
  ASSUME TypeInv, NEW c \in Calls, Committed(c), UNCHANGED approvals, TablesShape'
  PROVE  TypeInv'
  <1>1. SnapshotsKept /\ RequestsOK' /\ \A d \in Calls : Exists(d)' => Exists(d)
    BY DEF TypeInv, SnapshotsKept, RequestsOK, RequestOK, Exists
  <1>2. QED
    BY <1>1, BatchKeeps DEF Committed

\* The row a batch leaves in idempotency_keys.
LEMMA RowsShape ==
  ASSUME TablesShape, NEW c \in Calls, Committed(c)
  PROVE  \A row \in idempotency' : IsRow(row)
  BY DEF TablesShape, Committed, Row, IsRow

LEMMA CommitCreateTypeInv ==
  ASSUME TypeInv, NEW c \in Calls, CommitCreate(c)
  PROVE  TypeInv'
  <1> DEFINE new == NewRequest(c)
  <1>1. /\ TablesShape /\ HandlersShape /\ HandlerOK(c) /\ pc[c] = "batch"
        /\ command[c] \in Command /\ WellFormed(command[c])
    BY Arrived DEF CommitCreate, Committed
  <1>2. seen[c].steps \in Policies /\ command[c].module \in Modules
    BY <1>1 DEF HandlerOK, BeforeBatch, WellFormed, CommitCreate
  <1>3. ~Exists(c)
    BY <1>1 DEF HandlerOK
  <1>4. /\ new \in RequestRow
        /\ DOMAIN new.progress = DOMAIN new.steps /\ new.current \in DOMAIN new.steps
    <2>1. DOMAIN seen[c].steps = 1 .. Len(seen[c].steps) /\ Len(seen[c].steps) \in Nat
      BY <1>2, PolicyShape
    <2>2. [n \in DOMAIN seen[c].steps |-> [status |-> "pending", approved |-> 0]]
            \in Seq(StepState)
      BY <2>1, IsASeq DEF StepState
    <2>3. 1 \in DOMAIN seen[c].steps
      BY <1>2, PolicyShape
    <2>4. QED
      BY <1>1, <1>2, <2>2, <2>3 DEF NewRequest, RequestRow, Command, Statuses
  <1>5. new # NoRequest
    BY DEF NewRequest, NoRequest, None
  <1> HIDE DEF new
  <1>6. approvals' = [approvals EXCEPT ![c] = new]
    BY DEF CommitCreate, new
  <1>7. TablesShape'
    <2>1. approvals' \in [Calls -> RequestRow \cup {NoRequest}]
      BY <1>1, <1>4, <1>6 DEF TablesShape
    <2>2. QED
      BY <1>1, <2>1, RowsShape DEF TablesShape, CommitCreate, Committed
  <1>8. SnapshotsKept /\ \A d \in Calls \ {c} : Exists(d)' => Exists(d)
    BY <1>1, <1>3, <1>6 DEF SnapshotsKept, Exists, TablesShape
  <1>9. RequestsOK'
    BY <1>1, <1>4, <1>6 DEF TypeInv, RequestsOK, RequestOK, Exists, TablesShape
  <1>10. QED
    BY <1>1, <1>7, <1>8, <1>9, BatchKeeps DEF CommitCreate, Committed

LEMMA CommitCancelTypeInv ==
  ASSUME TypeInv, NEW c \in Calls, CommitCancel(c)
  PROVE  TypeInv'
  <1> DEFINE r == command[c].request
             new == [approvals[r] EXCEPT !.status = IF Pending(r) THEN "cancelled" ELSE @]
  <1>1. /\ TablesShape /\ HandlersShape /\ HandlerOK(c) /\ pc[c] = "batch"
        /\ command[c] \in Command /\ WellFormed(command[c])
    BY Arrived DEF CommitCancel, Committed
  <1>2. r \in Calls /\ Exists(r)
    BY <1>1 DEF HandlerOK, BeforeBatch, WellFormed, CommitCancel
  <1>3. approvals[r] \in RequestRow
    BY <1>1, <1>2 DEF TablesShape, Exists
  <1>4. /\ new \in RequestRow
        /\ new.steps = approvals[r].steps /\ new.progress = approvals[r].progress
        /\ new.current = approvals[r].current /\ new.requester = approvals[r].requester
        /\ new.status \in Statuses
    BY <1>3 DEF RequestRow, Statuses
  <1>5. new # NoRequest
    BY <1>4 DEF NoRequest, None, Statuses
  <1>6. approvals' = [approvals EXCEPT ![r] = new]
    BY <1>1, <1>2 DEF CommitCancel, TablesShape
  <1> HIDE DEF new, r
  <1>7. TablesShape'
    <2>1. approvals' \in [Calls -> RequestRow \cup {NoRequest}]
      BY <1>1, <1>4, <1>6 DEF TablesShape
    <2>2. QED
      BY <1>1, <2>1, RowsShape DEF TablesShape, CommitCancel, Committed
  <1>8. SnapshotsKept /\ \A d \in Calls : Exists(d)' => Exists(d)
    BY <1>1, <1>2, <1>4, <1>5, <1>6 DEF SnapshotsKept, Exists, TablesShape
  <1>9. RequestsOK'
    BY <1>1, <1>2, <1>4, <1>6 DEF TypeInv, RequestsOK, RequestOK, Exists, TablesShape
  <1>10. QED
    BY <1>1, <1>7, <1>8, <1>9, BatchKeeps DEF CommitCancel, Committed

LEMMA CommitUpsertTypeInv ==
  ASSUME TypeInv, NEW c \in Calls, CommitUpsert(c)
  PROVE  TypeInv'
  <1>1. TablesShape /\ command[c] \in Command /\ WellFormed(command[c])
    BY Arrived DEF CommitUpsert, Committed
  <1>2. policy' \in [enabled : BOOLEAN, steps : Policies]
    BY <1>1 DEF CommitUpsert, Command, WellFormed
  <1>3. TablesShape'
    BY <1>1, <1>2, RowsShape DEF TablesShape, CommitUpsert, Committed
  <1>4. QED
    BY <1>3, QuietBatchKeeps DEF CommitUpsert

LEMMA CommitDirectTypeInv ==
  ASSUME TypeInv, NEW c \in Calls, CommitDirect(c)
  PROVE  TypeInv'
  <1>1. /\ TablesShape /\ command[c] \in Command /\ WellFormed(command[c])
        /\ seen[c] \in SeenSet
    BY Arrived DEF CommitDirect, Committed
  <1>2. command[c].module \in Modules /\ command[c].enabled \in BOOLEAN
    BY <1>1 DEF CommitDirect, Command, WellFormed
  <1>3. modules' \in [Modules -> [enabled : BOOLEAN, version : Nat]]
    BY <1>1, <1>2 DEF CommitDirect, Changed, TablesShape
  <1>4. changes' \subseteq [module : Modules, enabled : BOOLEAN, version : Nat,
                           request : Calls \cup {None}, by : Calls]
    BY <1>1, <1>2 DEF CommitDirect, Change, TablesShape, SeenSet
  <1>5. TablesShape'
    BY <1>1, <1>3, <1>4, RowsShape DEF TablesShape, CommitDirect, Committed
  <1>6. QED
    BY <1>5, QuietBatchKeeps DEF CommitDirect

\* The batch of a decision: the request and step it is about, the decisions
\* with its own, and what it makes of that step and that request.
Target(c) == command[c].request
At(c)     == seen[c].step
Rows(c)   == decisions \cup {Decision(c)}
StepAfter(c)    == DecidedStep(Target(c), At(c), command[c].decision, Rows(c))
RequestAfter(c) == DecidedRequest(Target(c), At(c), command[c].decision, Rows(c))

CurrentAfter(c) ==
  IF command[c].decision = "approve" /\ Advances(Target(c), At(c), StepAfter(c))
  THEN At(c) + 1 ELSE approvals[Target(c)].current

StatusAfter(c) ==
  IF command[c].decision = "approve" /\ Completes(Target(c), At(c), StepAfter(c))
  THEN "approved"
  ELSE IF Rejects(Target(c), At(c), command[c].decision) THEN "rejected"
  ELSE approvals[Target(c)].status

LEMMA DecisionRowsShape ==
  ASSUME TypeInv, NEW c \in Calls, CommitDecide(c)
  PROVE  /\ decisions' = Rows(c) /\ Decision(c) \in DecisionRow
         /\ Rows(c) \subseteq DecisionRow /\ IsFiniteSet(Rows(c))
         /\ Target(c) \in Calls /\ command[c].decision \in Decisions
         /\ Exists(Target(c)) /\ approvals[Target(c)] \in RequestRow
         /\ RequestOK(Target(c)) /\ approvals[Target(c)].steps \in Policies
         /\ At(c) \in DOMAIN approvals[Target(c)].steps
         /\ MayDecide(command[c].user, approvals[Target(c)].steps[At(c)],
                      approvals[Target(c)].requester)
  <1>1. /\ TablesShape /\ HandlersShape /\ HandlerOK(c) /\ pc[c] = "batch"
        /\ command[c] \in Command /\ WellFormed(command[c]) /\ seen[c] \in SeenSet
    BY Arrived DEF CommitDecide, Committed
  <1>2. decisions' = Rows(c) /\ command[c].op = "decide"
    BY DEF CommitDecide, Rows
  <1>3. Target(c) \in Calls /\ command[c].decision \in Decisions
    BY <1>1, <1>2 DEF WellFormed, Target
  <1>4. Decision(c) \in DecisionRow
    BY <1>1, <1>3 DEF Decision, DecisionRow, Command, SeenSet, Target
  <1>5. Rows(c) \subseteq DecisionRow /\ IsFiniteSet(Rows(c))
    BY <1>1, <1>4, FS_AddElement DEF TablesShape, Rows
  <1>6. DeciderOK(c) /\ Exists(Target(c))
    BY <1>1, <1>2 DEF HandlerOK, BeforeBatch, DeciderOK, Target
  <1>7. approvals[Target(c)] \in RequestRow /\ RequestOK(Target(c))
    BY <1>1, <1>3, <1>6 DEF TypeInv, TablesShape, RequestsOK, Exists
  <1>8. QED
    BY <1>1, <1>2, <1>3, <1>4, <1>5, <1>6, <1>7 DEF DeciderOK, RequestRow, Target, At

LEMMA CountShape ==
  ASSUME NEW rows, IsFiniteSet(rows), NEW r, NEW n
  PROVE  /\ IsFiniteSet(Approvals(r, n, rows))
         /\ Cardinality(Approvals(r, n, rows)) \in Nat
  <1>1. Approvals(r, n, rows) \subseteq rows
    BY DEF Approvals
  <1>2. QED
    BY <1>1, FS_Subset, FS_CardinalityType

LEMMA StepAfterShape ==
  ASSUME TypeInv, NEW c \in Calls, CommitDecide(c)
  PROVE  /\ approvals[Target(c)].progress[At(c)] \in StepState
         /\ StepAfter(c) \in StepState
  <1>1. approvals[Target(c)].progress[At(c)] \in StepState
    BY DecisionRowsShape DEF RequestRow, RequestOK
  <1>2. Cardinality(Approvals(Target(c), At(c), Rows(c))) \in Nat
    BY DecisionRowsShape, CountShape
  <1>3. QED
    BY <1>1, <1>2 DEF StepAfter, DecidedStep, StepState

LEMMA RequestAfterShape ==
  ASSUME TypeInv, NEW c \in Calls, CommitDecide(c)
  PROVE  /\ RequestAfter(c) \in RequestRow /\ RequestAfter(c) # NoRequest
         /\ RequestAfter(c).steps = approvals[Target(c)].steps
         /\ RequestAfter(c).requester = approvals[Target(c)].requester
         /\ RequestAfter(c).module = approvals[Target(c)].module
         /\ RequestAfter(c).enabled = approvals[Target(c)].enabled
         /\ RequestAfter(c).progress =
              [approvals[Target(c)].progress EXCEPT ![At(c)] = StepAfter(c)]
         /\ DOMAIN RequestAfter(c).progress = DOMAIN RequestAfter(c).steps
         /\ RequestAfter(c).current = CurrentAfter(c)
         /\ CurrentAfter(c) \in DOMAIN approvals[Target(c)].steps
         /\ RequestAfter(c).status = StatusAfter(c)
  <1> DEFINE old == approvals[Target(c)]
             progress == [old.progress EXCEPT ![At(c)] = StepAfter(c)]
             new == [old EXCEPT !.progress = progress, !.current = CurrentAfter(c),
                                !.status = StatusAfter(c)]
  <1>0. /\ old \in RequestRow /\ RequestOK(Target(c)) /\ old.steps \in Policies
        /\ At(c) \in DOMAIN old.steps
    BY DecisionRowsShape
  <1>1. StepAfter(c) \in StepState
    BY StepAfterShape
  <1>2. DOMAIN old.steps = 1 .. Len(old.steps) /\ Len(old.steps) \in Nat
    BY <1>0, PolicyShape
  <1>3. progress \in Seq(StepState) /\ DOMAIN progress = DOMAIN old.steps
    <2>1. old.progress \in Seq(StepState) /\ DOMAIN old.progress = DOMAIN old.steps
      BY <1>0 DEF RequestRow, RequestOK
    <2>2. At(c) \in 1 .. Len(old.progress)
      BY <1>0, <2>1
    <2>3. QED
      BY <1>1, <2>1, <2>2, ExceptSeq
  <1>4. CurrentAfter(c) \in DOMAIN old.steps /\ CurrentAfter(c) \in Nat
    BY <1>0, <1>2 DEF CurrentAfter, Advances, RequestOK
  <1>5. StatusAfter(c) \in Statuses
    BY <1>0 DEF StatusAfter, RequestRow, Statuses
  <1>6. RequestAfter(c) = new
    BY <1>0 DEF RequestAfter, DecidedRequest, CurrentAfter, StatusAfter, StepAfter, RequestRow
  <1> HIDE DEF progress
  <1>7. /\ new \in RequestRow
        /\ new.steps = old.steps /\ new.requester = old.requester
        /\ new.module = old.module /\ new.enabled = old.enabled
        /\ new.progress = progress /\ new.current = CurrentAfter(c)
        /\ new.status = StatusAfter(c)
    BY <1>0, <1>3, <1>4, <1>5 DEF RequestRow
  <1>8. new # NoRequest
    BY <1>5, <1>7 DEF NoRequest, None, Statuses
  <1>9. QED
    BY <1>3, <1>4, <1>6, <1>7, <1>8 DEF progress

\* The batch in these words.
LEMMA DecideEffect ==
  ASSUME TypeInv, NEW c \in Calls, CommitDecide(c)
  PROVE  /\ approvals' = [approvals EXCEPT ![Target(c)] = RequestAfter(c)]
         /\ decisions' = Rows(c)
  BY DEF CommitDecide, RequestAfter, Rows, Target, At

LEMMA CommitDecideTypeInv ==
  ASSUME TypeInv, NEW c \in Calls, CommitDecide(c)
  PROVE  TypeInv'
  <1> DEFINE r == Target(c)
             m == approvals[r].module
             value == Changed(m, approvals[r].enabled)
             row == Change(m, value.enabled, value.version, r, c)
  <1>1. /\ TablesShape /\ HandlersShape /\ pc[c] = "batch" /\ RequestsOK
    BY Arrived DEF CommitDecide, Committed, TypeInv
  <1>2. /\ Rows(c) \subseteq DecisionRow /\ IsFiniteSet(Rows(c))
        /\ r \in Calls /\ Exists(r) /\ approvals[r] \in RequestRow
    BY DecisionRowsShape
  <1>3. /\ RequestAfter(c) \in RequestRow /\ RequestAfter(c) # NoRequest
        /\ RequestAfter(c).steps = approvals[r].steps
        /\ RequestAfter(c).requester = approvals[r].requester
        /\ DOMAIN RequestAfter(c).progress = DOMAIN RequestAfter(c).steps
        /\ RequestAfter(c).current \in DOMAIN RequestAfter(c).steps
    BY RequestAfterShape
  <1>4. approvals' = [approvals EXCEPT ![r] = RequestAfter(c)] /\ decisions' = Rows(c)
    BY DecideEffect
  <1>5. m \in Modules /\ approvals[r].enabled \in BOOLEAN
    BY <1>2 DEF RequestRow
  <1>6. /\ modules' \in [Modules -> [enabled : BOOLEAN, version : Nat]]
        /\ changes' \subseteq [module : Modules, enabled : BOOLEAN, version : Nat,
                              request : Calls \cup {None}, by : Calls]
    <2>1. value \in [enabled : BOOLEAN, version : Nat]
      BY <1>1, <1>5 DEF Changed, TablesShape
    <2>2. modules' = modules \/ modules' = [modules EXCEPT ![m] = value]
      BY DEF CommitDecide, Target
    <2>3. changes' = changes \/ changes' = changes \cup {row}
      BY DEF CommitDecide, Target
    <2>4. row \in [module : Modules, enabled : BOOLEAN, version : Nat,
                  request : Calls \cup {None}, by : Calls]
      <3> HIDE DEF value, m, r
      <3>1. QED
        BY <1>2, <1>5, <2>1 DEF Change
    <2> HIDE DEF value, m, r, row
    <2>5. modules' \in [Modules -> [enabled : BOOLEAN, version : Nat]]
      BY <1>1, <1>5, <2>1, <2>2 DEF TablesShape
    <2>6. QED
      BY <1>1, <2>3, <2>4, <2>5 DEF TablesShape
  <1> HIDE DEF r, m, value, row
  <1>7. TablesShape'
    <2>1. approvals' \in [Calls -> RequestRow \cup {NoRequest}]
      BY <1>1, <1>3, <1>4 DEF TablesShape
    <2>2. QED
      BY <1>1, <1>2, <1>4, <1>6, <2>1, RowsShape DEF TablesShape, CommitDecide, Committed
  <1>8. SnapshotsKept /\ \A d \in Calls : Exists(d)' => Exists(d)
    BY <1>1, <1>2, <1>3, <1>4 DEF SnapshotsKept, Exists, TablesShape
  <1>9. RequestsOK'
    BY <1>1, <1>2, <1>3, <1>4 DEF RequestsOK, RequestOK, Exists, TablesShape
  <1>10. QED
    BY <1>1, <1>7, <1>8, <1>9, BatchKeeps DEF CommitDecide, Committed

\* Steps outside the handlers: time passes and rows age.
LEMMA ClockKeeps ==
  ASSUME TypeInv, UNCHANGED handlers, UNCHANGED approvals, TablesShape'
  PROVE  TypeInv'
  <1>1. SnapshotsKept /\ \A d \in Calls : Exists(d)' => Exists(d)
    BY DEF SnapshotsKept, Exists
  <1>2. ASSUME NEW d \in Calls PROVE HandlerOK(d)'
    <2>1. HandlerOK(d) /\ seen[d].late \subseteq Calls
      BY DEF TypeInv, HandlersOK, TypeOK, HandlersShape, SeenSet
    <2>2. QED
      BY <1>1, <2>1, HandlerKept DEF handlers
  <1>3. HandlersShape' /\ RequestsOK'
    BY DEF TypeInv, TypeOK, HandlersShape, handlers, RequestsOK, RequestOK, Exists
  <1>4. QED
    BY <1>2, <1>3 DEF TypeInv, TypeOK, HandlersOK

LEMMA DeadlineTypeInv ==
  ASSUME TypeInv, NEW r \in Calls, Deadline(r)
  PROVE  TypeInv'
  <1>1. TablesShape'
    BY DEF TypeInv, TypeOK, TablesShape, Deadline, tables
  <1>2. QED
    BY <1>1, ClockKeeps DEF Deadline, tables

LEMMA ExpireKeyTypeInv ==
  ASSUME TypeInv, NEW row \in idempotency, ExpireKey(row)
  PROVE  TypeInv'
  <1>1. IsRow(row) /\ TablesShape
    BY DEF TypeInv, TypeOK, TablesShape
  <1>2. IsRow(Aged(row))
    BY <1>1 DEF IsRow, Aged
  <1>3. TablesShape'
    BY <1>1, <1>2 DEF TablesShape, ExpireKey
  <1>4. QED
    BY <1>3, ClockKeeps DEF ExpireKey

LEMMA QuietTypeInv ==
  ASSUME TypeInv, UNCHANGED vars
  PROVE  TypeInv'
  <1>1. UNCHANGED tables /\ UNCHANGED due /\ UNCHANGED handlers
    BY DEF vars, tables, handlers
  <1>2. TablesShape'
    BY <1>1 DEF TypeInv, TypeOK, TablesShape, tables
  <1>3. QED
    BY <1>1, <1>2, ClockKeeps DEF tables

LEMMA StepTypeInv ==
  ASSUME TypeInv, NEW c \in Calls, Step(c)
  PROVE  TypeInv'
  BY ReadModuleTypeInv, ReadPolicyTypeInv, ReadPolicyStepsTypeInv,
     RequireDirectAllowedTypeInv, LoadPendingTypeInv, ReadLateTypeInv, ExpireTypeInv,
     CheckStepTypeInv, ReadReplayTypeInv, CheckDuplicateTypeInv, CommitCreateTypeInv,
     CommitDecideTypeInv, CommitCancelTypeInv, CommitUpsertTypeInv, CommitDirectTypeInv,
     AbortTypeInv, CatchAbortTypeInv
     DEF Step

LEMMA TypeInvNext ==
  ASSUME TypeInv, [Next]_vars
  PROVE  TypeInv'
  <1>1. ASSUME NEW c \in Calls, Arrive(c) \/ Step(c) PROVE TypeInv'
    BY <1>1, ArriveTypeInv, StepTypeInv
  <1>2. ASSUME NEW r \in Calls, Deadline(r) PROVE TypeInv'
    BY <1>2, DeadlineTypeInv
  <1>3. ASSUME NEW row \in idempotency, ExpireKey(row) PROVE TypeInv'
    BY <1>3, ExpireKeyTypeInv
  <1>4. QED
    BY <1>1, <1>2, <1>3, QuietTypeInv DEF Next, Quiet

\* The tables and the handlers keep their shape, and no handler writes about a
\* request that is not there or a step it may not decide, in any interleaving.
THEOREM TypeCorrect == Spec => []TypeInv
  <1>1. TypeInv /\ [Next]_vars => TypeInv'
    BY TypeInvNext
  <1>2. QED
    BY <1>1, InitTypeInv, PTL DEF Spec

----------------------------------------------------------------------------
(* Requests are resolved for good, and approved by enough members only.    *)

\* Only these steps write requests or decisions.
LEMMA Writers ==
  ASSUME [Next]_vars
  PROVE  \/ UNCHANGED <<approvals, decisions>> /\ changes \subseteq changes'
                                               /\ events \subseteq events'
         \/ \E c \in Calls : \/ Expire(c) \/ CommitCreate(c)
                             \/ CommitCancel(c) \/ CommitDecide(c)
  <1>1. ASSUME NEW c \in Calls, Step(c)
        PROVE  \/ UNCHANGED tables
               \/ CommitUpsert(c) \/ CommitDirect(c)
               \/ Expire(c) \/ CommitCreate(c) \/ CommitCancel(c) \/ CommitDecide(c)
    BY <1>1 DEF Step, ReadModule, ReadPolicy, ReadPolicySteps, RequireDirectAllowed,
                LoadPending, ReadLate, CheckStep, ReadReplay, CheckDuplicate, Abort,
                CatchAbort, ReadOnly
  <1>2. CASE UNCHANGED tables
    BY <1>2 DEF tables
  <1>3. ASSUME NEW c \in Calls, Arrive(c) PROVE UNCHANGED tables
    BY <1>3 DEF Arrive
  <1>4. ASSUME NEW r \in Calls, Deadline(r) PROVE UNCHANGED tables
    BY <1>4 DEF Deadline
  <1>5. ASSUME NEW row \in idempotency, ExpireKey(row)
        PROVE  UNCHANGED <<approvals, decisions, changes, events>>
    BY <1>5 DEF ExpireKey
  <1>6. ASSUME NEW c \in Calls, CommitUpsert(c) \/ CommitDirect(c)
        PROVE  UNCHANGED <<approvals, decisions>> /\ changes \subseteq changes'
                                                  /\ events \subseteq events'
    BY <1>6 DEF CommitUpsert, CommitDirect
  <1>7. UNCHANGED vars => UNCHANGED tables
    BY DEF vars, tables
  <1>8. QED
    BY <1>1, <1>2, <1>3, <1>4, <1>5, <1>6, <1>7 DEF Next, Quiet

----------------------------------------------------------------------------
(* Resolutions are final.                                                  *)

\* What one step keeps of a request.
Kept(r) ==
  /\ Pending(r) \/ approvals'[r].status = approvals[r].status
  /\ approvals'[r].requester = approvals[r].requester
  /\ approvals'[r].module = approvals[r].module
  /\ approvals'[r].enabled = approvals[r].enabled
  /\ approvals'[r].steps = approvals[r].steps

\* A request of which only the status was written.
StatusWritten(r) ==
  \E status \in {"cancelled", "expired"} :
    approvals'[r] = [approvals[r] EXCEPT !.status = status]

LEMMA StatusOnly ==
  ASSUME TypeInv, NEW r \in Calls, Exists(r), StatusWritten(r)
  PROVE  /\ approvals'[r].requester = approvals[r].requester
         /\ approvals'[r].module = approvals[r].module
         /\ approvals'[r].enabled = approvals[r].enabled
         /\ approvals'[r].steps = approvals[r].steps
         /\ approvals'[r].progress = approvals[r].progress
         /\ approvals'[r].current = approvals[r].current
         /\ approvals'[r].status \in {"cancelled", "expired"}
         /\ Exists(r)'
  <1>1. approvals[r] \in RequestRow
    BY DEF TypeInv, TypeOK, TablesShape, Exists
  <1>2. QED
    BY <1>1 DEF StatusWritten, RequestRow, Exists, NoRequest, None

\* Expiry and cancellation write no more than the status of pending requests.
LEMMA ExpireWrites ==
  ASSUME TypeInv, NEW c \in Calls, Expire(c), NEW r \in Calls
  PROVE  /\ approvals'[r] = approvals[r] \/ (Exists(r) /\ Pending(r) /\ StatusWritten(r))
         /\ UNCHANGED <<decisions, changes>> /\ events \subseteq events'
  <1>1. Pending(r) => Exists(r)
    BY DEF Pending, Exists, NoRequest, None
  <1>2. QED
    BY <1>1 DEF Expire, StatusWritten

LEMMA CancelWrites ==
  ASSUME TypeInv, NEW c \in Calls, CommitCancel(c), NEW r \in Calls
  PROVE  /\ approvals'[r] = approvals[r] \/ (Exists(r) /\ Pending(r) /\ StatusWritten(r))
         /\ UNCHANGED <<decisions, changes>> /\ events \subseteq events'
  <1>1. Pending(r) => Exists(r)
    BY DEF Pending, Exists, NoRequest, None
  <1>2. approvals[r] \in RequestRow \cup {NoRequest}
    BY DEF TypeInv, TypeOK, TablesShape
  <1>3. approvals' = [approvals EXCEPT ![command[c].request].status =
                        IF Pending(command[c].request) THEN "cancelled" ELSE @]
    BY DEF CommitCancel
  <1>4. approvals \in [Calls -> RequestRow \cup {NoRequest}]
    BY DEF TypeInv, TypeOK, TablesShape
  <1>5. CASE r # command[c].request
    BY <1>3, <1>4, <1>5 DEF CommitCancel
  <1>6. CASE r = command[c].request /\ Pending(r)
    <2>1. approvals'[r] = [approvals[r] EXCEPT !.status = "cancelled"]
      BY <1>3, <1>4, <1>6
    <2>2. QED
      BY <1>1, <1>6, <2>1 DEF CommitCancel, StatusWritten
  <1>7. CASE r = command[c].request /\ ~Pending(r)
    <2>1. approvals'[r] = [approvals[r] EXCEPT !.status = approvals[r].status]
      BY <1>3, <1>4, <1>7
    <2>2. approvals'[r] = approvals[r]
      BY <1>2, <2>1 DEF RequestRow, NoRequest
    <2>3. QED
      BY <2>2 DEF CommitCancel
  <1>8. QED
    BY <1>5, <1>6, <1>7

\* A new request takes a place no request has.
LEMMA CreateWrites ==
  ASSUME TypeInv, NEW c \in Calls, CommitCreate(c)
  PROVE  /\ ~Exists(c) /\ approvals'[c] = NewRequest(c)
         /\ \A r \in Calls \ {c} : approvals'[r] = approvals[r]
         /\ UNCHANGED <<decisions, changes>> /\ events \subseteq events'
  <1>1. HandlerOK(c) /\ TablesShape /\ pc[c] = "batch"
    BY Arrived DEF CommitCreate, Committed
  <1>2. QED
    BY <1>1 DEF HandlerOK, CommitCreate, TablesShape

LEMMA DecideWrites ==
  ASSUME TypeInv, NEW c \in Calls, CommitDecide(c)
  PROVE  /\ Exists(Target(c)) /\ approvals'[Target(c)] = RequestAfter(c)
         /\ \A r \in Calls \ {Target(c)} : approvals'[r] = approvals[r]
         /\ decisions' = Rows(c)
         /\ changes \subseteq changes' /\ events \subseteq events'
  <1>1. /\ approvals' = [approvals EXCEPT ![Target(c)] = RequestAfter(c)]
        /\ decisions' = Rows(c)
    BY DecideEffect
  <1>2. Target(c) \in Calls /\ Exists(Target(c))
    BY DecisionRowsShape
  <1>3. changes \subseteq changes' /\ events \subseteq events'
    BY DEF CommitDecide
  <1>4. approvals \in [Calls -> RequestRow \cup {NoRequest}]
    BY DEF TypeInv, TypeOK, TablesShape
  <1>5. QED
    BY <1>1, <1>2, <1>3, <1>4

LEMMA RequestsKept ==
  ASSUME TypeInv, [Next]_vars
  PROVE  /\ \A r \in Calls : Exists(r) => Kept(r)
         /\ decisions \subseteq decisions' /\ changes \subseteq changes'
         /\ events \subseteq events'
  <1>1. CASE UNCHANGED <<approvals, decisions>> /\ changes \subseteq changes'
                                                /\ events \subseteq events'
    BY <1>1 DEF Kept
  <1>2. ASSUME NEW c \in Calls, Expire(c) \/ CommitCancel(c)
        PROVE  /\ \A r \in Calls : Exists(r) => Kept(r)
               /\ UNCHANGED <<decisions, changes>> /\ events \subseteq events'
    <2>1. ASSUME NEW r \in Calls, Exists(r) PROVE Kept(r)
      <3>1. approvals'[r] = approvals[r] \/ (Pending(r) /\ StatusWritten(r))
        BY <1>2, ExpireWrites, CancelWrites
      <3>2. QED
        BY <2>1, <3>1, StatusOnly DEF Kept
    <2>2. UNCHANGED <<decisions, changes>> /\ events \subseteq events'
      BY <1>2 DEF Expire, CommitCancel
    <2>3. QED
      BY <2>1, <2>2
  <1>3. ASSUME NEW c \in Calls, CommitCreate(c)
        PROVE  /\ \A r \in Calls : Exists(r) => Kept(r)
               /\ UNCHANGED <<decisions, changes>> /\ events \subseteq events'
    BY <1>3, CreateWrites DEF Kept
  <1>4. ASSUME NEW c \in Calls, CommitDecide(c)
        PROVE  /\ \A r \in Calls : Exists(r) => Kept(r)
               /\ decisions \subseteq decisions' /\ changes \subseteq changes'
               /\ events \subseteq events'
    <2>1. Kept(Target(c))
      <3>1. StatusAfter(c) = approvals[Target(c)].status \/ Pending(Target(c))
        BY DEF StatusAfter, Completes, Rejects
      <3>2. QED
        BY <1>4, <3>1, DecideWrites, RequestAfterShape DEF Kept
    <2>2. \A r \in Calls : Exists(r) => Kept(r)
      BY <1>4, <2>1, DecideWrites DEF Kept
    <2>3. QED
      BY <1>4, <2>2, DecideWrites DEF Rows
  <1>5. QED
    BY <1>1, <1>2, <1>3, <1>4, Writers

\* A resolved request is resolved for good, with the requester, the payload
\* and the rules it was created with, and what was written is never taken
\* back, whatever decisions, cancellations and expiries race.
THEOREM ResolvedForGood == Spec => ResolutionIsFinal
  <1>1. TypeInv /\ [Next]_vars =>
          [/\ \A r \in Calls : Exists(r) =>
                /\ Pending(r) \/ approvals'[r].status = approvals[r].status
                /\ approvals'[r].requester = approvals[r].requester
                /\ approvals'[r].module = approvals[r].module
                /\ approvals'[r].enabled = approvals[r].enabled
                /\ approvals'[r].steps = approvals[r].steps
           /\ decisions \subseteq decisions' /\ changes \subseteq changes'
           /\ events \subseteq events']_vars
    BY RequestsKept DEF Kept
  <1>2. QED
    BY <1>1, TypeCorrect, PTL DEF Spec, ResolutionIsFinal

----------------------------------------------------------------------------
(* Four eyes.                                                              *)

\* Decisions are not taken back, so a count of approvals never falls.
LEMMA CountGrows ==
  ASSUME NEW old, NEW new, old \subseteq new, IsFiniteSet(new), NEW r, NEW n
  PROVE  /\ Cardinality(Approvals(r, n, old)) \in Nat
         /\ Cardinality(Approvals(r, n, new)) \in Nat
         /\ Cardinality(Approvals(r, n, old)) <= Cardinality(Approvals(r, n, new))
  <1>1. Approvals(r, n, old) \subseteq Approvals(r, n, new)
    BY DEF Approvals
  <1>2. IsFiniteSet(Approvals(r, n, new)) /\ Cardinality(Approvals(r, n, new)) \in Nat
    BY CountShape
  <1>3. IsFiniteSet(Approvals(r, n, old))
    BY <1>1, <1>2, FS_Subset
  <1>4. QED
    BY <1>1, <1>2, <1>3, FS_Subset, FS_CardinalityType

\* The two parts of the invariant at one decision and at one request.
DecisionOK(d) ==
  /\ Exists(d.request)
  /\ d.step \in DOMAIN approvals[d.request].steps
  /\ MayDecide(d.user, approvals[d.request].steps[d.step], approvals[d.request].requester)

BackedAt(r, n) ==
  /\ approvals[r].progress[n].status = "approved" =>
       Cardinality(Approvals(r, n, decisions)) >= approvals[r].steps[n].minimum
  /\ (n < approvals[r].current \/ approvals[r].status = "approved") =>
       approvals[r].progress[n].status = "approved"

LEMMA MinimumShape ==
  ASSUME TypeInv, NEW r \in Calls, Exists(r), NEW n \in DOMAIN approvals[r].steps
  PROVE  approvals[r].steps[n].minimum \in Nat /\ n \in Nat
  <1>1. approvals[r].steps \in Policies
    BY DEF TypeInv, TypeOK, TablesShape, Exists, RequestRow
  <1>2. QED
    BY <1>1, PolicyShape DEF Rule

\* A request whose progress is as it was stays backed while decisions are
\* added, unless it is resolved by approval.
LEMMA BackingKept ==
  ASSUME TypeInv, NEW r \in Calls, Exists(r), NEW n \in DOMAIN approvals[r].steps,
         BackedAt(r, n), decisions \subseteq decisions', IsFiniteSet(decisions'),
         approvals'[r].steps = approvals[r].steps,
         approvals'[r].progress = approvals[r].progress,
         approvals'[r].current = approvals[r].current,
         approvals'[r].status = "approved" => approvals[r].status = "approved"
  PROVE  BackedAt(r, n)'
  <1>1. approvals[r].steps[n].minimum \in Nat
    BY MinimumShape
  <1>2. /\ Cardinality(Approvals(r, n, decisions)) \in Nat
        /\ Cardinality(Approvals(r, n, decisions')) \in Nat
        /\ Cardinality(Approvals(r, n, decisions)) <= Cardinality(Approvals(r, n, decisions'))
    BY CountGrows
  <1>3. QED
    BY <1>1, <1>2 DEF BackedAt, Approvals

\* The step a decision is about, and the others, after its batch.
LEMMA DecidedBacked ==
  ASSUME TypeInv, StepsBacked, NEW c \in Calls, CommitDecide(c),
         NEW r \in Calls, r = Target(c), NEW n \in DOMAIN approvals[r].steps
  PROVE  BackedAt(r, n)'
  <1> DEFINE old == approvals[r]
             new == RequestAfter(c)
  <1>1. /\ Exists(r) /\ old \in RequestRow /\ RequestOK(r)
        /\ decisions' = Rows(c) /\ IsFiniteSet(Rows(c)) /\ At(c) \in DOMAIN old.steps
        /\ decisions \subseteq Rows(c)
    BY DecisionRowsShape DEF Rows
  <1>2. /\ approvals'[r] = new /\ new.steps = old.steps
        /\ new.progress = [old.progress EXCEPT ![At(c)] = StepAfter(c)]
        /\ new.current = CurrentAfter(c) /\ new.status = StatusAfter(c)
    BY DecideWrites, RequestAfterShape
  <1>3. /\ old.steps[n].minimum \in Nat /\ n \in Nat /\ At(c) \in Nat
        /\ old.current \in Nat
    BY <1>1, MinimumShape DEF RequestRow
  <1>4. \A k \in DOMAIN old.steps : BackedAt(r, k)
    BY <1>1 DEF StepsBacked, BackedAt
  <1>5. /\ Cardinality(Approvals(r, n, decisions)) \in Nat
        /\ Cardinality(Approvals(r, n, Rows(c))) \in Nat
        /\ Cardinality(Approvals(r, n, decisions)) <= Cardinality(Approvals(r, n, Rows(c)))
    BY <1>1, CountGrows
  <1>6. new.progress[n] = IF n = At(c) THEN StepAfter(c) ELSE old.progress[n]
    BY <1>1, <1>2 DEF RequestOK
  <1>7. new.progress[n].status = "approved" =>
          \/ old.progress[n].status = "approved"
          \/ Cardinality(Approvals(r, n, Rows(c))) >= old.steps[n].minimum
    <2>1. CASE n # At(c)
      BY <1>6, <2>1
    <2>2. CASE n = At(c)
      BY <1>6, <2>2 DEF StepAfter, DecidedStep
    <2>3. QED
      BY <2>1, <2>2
  <1>8. old.progress[n].status = "approved" => new.progress[n].status = "approved"
    <2>1. CASE n # At(c)
      BY <1>6, <2>1
    <2>2. CASE n = At(c)
      BY <1>6, <2>2 DEF StepAfter, DecidedStep
    <2>3. QED
      BY <2>1, <2>2
  <1>9. (n < new.current \/ new.status = "approved") => new.progress[n].status = "approved"
    <2>1. CASE n < old.current \/ old.status = "approved"
      BY <1>4, <1>8, <2>1 DEF BackedAt
    <2>2. CASE Advances(r, At(c), StepAfter(c))
      BY <1>2, <1>3, <1>4, <1>6, <1>8, <2>2
         DEF Advances, Completes, Rejects, CurrentAfter, StatusAfter, Pending, BackedAt
    <2>3. CASE Completes(r, At(c), StepAfter(c))
      <3>1. n = At(c) \/ n < old.current
        <4>1. n \in 1 .. Len(old.steps) /\ Len(old.steps) = At(c) /\ old.current = At(c)
          BY <1>1, <2>3, PolicyShape DEF Completes, RequestRow
        <4>2. QED
          BY <1>3, <4>1
      <3>2. QED
        BY <1>4, <1>6, <1>8, <2>3, <3>1 DEF Completes, BackedAt
    <2>4. CASE /\ ~(n < old.current) /\ old.status # "approved"
               /\ ~Advances(r, At(c), StepAfter(c)) /\ ~Completes(r, At(c), StepAfter(c))
      BY <1>2, <2>4 DEF CurrentAfter, StatusAfter
    <2>5. QED
      BY <2>1, <2>2, <2>3, <2>4
  <1>10. BackedAt(r, n)' =
           (/\ new.progress[n].status = "approved" =>
                 Cardinality(Approvals(r, n, Rows(c))) >= new.steps[n].minimum
            /\ (n < new.current \/ new.status = "approved") =>
                 new.progress[n].status = "approved")
    BY <1>1, <1>2 DEF BackedAt, Approvals
  <1>11. new.progress[n].status = "approved" =>
           Cardinality(Approvals(r, n, Rows(c))) >= old.steps[n].minimum
    BY <1>3, <1>4, <1>5, <1>7 DEF BackedAt
  <1>12. QED
    BY <1>2, <1>9, <1>10, <1>11

\* Decisions stay about steps of requests that are there, by members who may
\* decide them.
LEMMA DecisionKept ==
  ASSUME SnapshotsKept, NEW d \in DecisionRow, DecisionOK(d)
  PROVE  DecisionOK(d)'
  BY DEF SnapshotsKept, DecisionOK, DecisionRow

\* The second conjunct of DecisionsOK.
DecisionsUnique ==
  \A d, e \in decisions :
    (d.request = e.request /\ d.step = e.step /\ d.user = e.user) => d = e

LEMMA DecisionsParts ==
  DecisionsOK <=> (\A d \in decisions : DecisionOK(d)) /\ DecisionsUnique
  BY DEF DecisionsOK, DecisionOK, DecisionsUnique

LEMMA DecideKeepsDecisions ==
  ASSUME TypeInv, DecisionsOK, NEW c \in Calls, CommitDecide(c), SnapshotsKept
  PROVE  DecisionsOK'
  <1> DEFINE new == Decision(c)
  <1>1. /\ decisions' = decisions \cup {new} /\ decisions \subseteq DecisionRow
        /\ new \in DecisionRow /\ DecisionOK(new)
    <2>1. /\ decisions' = Rows(c) /\ Rows(c) \subseteq DecisionRow
          /\ new \in DecisionRow
      BY DecisionRowsShape
    <2>2. DecisionOK(new)
      BY DecisionRowsShape DEF DecisionOK, Decision, Target, At
    <2>3. QED
      BY <2>1, <2>2 DEF Rows
  <1>2. \A d \in decisions : ~(/\ d.request = new.request /\ d.step = new.step
                               /\ d.user = new.user)
    BY DEF CommitDecide, Committed, Stopped, Decided, Decision
  <1> HIDE DEF new
  <1>3. ASSUME NEW d \in decisions' PROVE DecisionOK(d)'
    <2>1. d \in DecisionRow /\ DecisionOK(d)
      BY <1>1, DecisionsParts
    <2>2. QED
      BY <2>1, DecisionKept
  <1>4. DecisionsUnique'
    BY <1>1, <1>2, DecisionsParts DEF DecisionsUnique
  <1>5. QED
    BY <1>3, <1>4, DecisionsParts DEF DecisionsOK, DecisionsUnique, DecisionOK

\* The strengthening of FourEyes is inductive.
LEMMA FourEyesNext ==
  ASSUME FourEyesInv, [Next]_vars
  PROVE  FourEyesInv'
  <1>1. /\ TypeInv /\ DecisionsOK /\ StepsBacked /\ TypeInv'
        /\ decisions \subseteq DecisionRow
        /\ decisions \subseteq decisions' /\ IsFiniteSet(decisions')
    BY TypeInvNext, RequestsKept DEF FourEyesInv, TypeInv, TypeOK, TablesShape
  <1>2. ASSUME SnapshotsKept, UNCHANGED decisions PROVE DecisionsOK'
    <2>1. ASSUME NEW d \in decisions' PROVE DecisionOK(d)'
      BY <1>1, <1>2, DecisionsParts, DecisionKept
    <2>2. DecisionsUnique'
      BY <1>1, <1>2, DecisionsParts DEF DecisionsUnique
    <2>3. QED
      BY <2>1, <2>2 DEF DecisionsOK, DecisionsUnique, DecisionOK
  <1>3. CASE UNCHANGED <<approvals, decisions>>
    <2>1. SnapshotsKept /\ UNCHANGED decisions
      BY <1>3 DEF SnapshotsKept, Exists
    <2>2. StepsBacked'
      BY <1>1, <1>3 DEF StepsBacked, Exists, Approvals
    <2>3. QED
      BY <1>1, <1>2, <2>1, <2>2 DEF FourEyesInv
  <1>4. ASSUME NEW c \in Calls, Expire(c) \/ CommitCancel(c) PROVE FourEyesInv'
    <2>1. \A r \in Calls : \/ approvals'[r] = approvals[r]
                           \/ Exists(r) /\ StatusWritten(r)
      BY <1>1, <1>4, ExpireWrites, CancelWrites
    <2>2. UNCHANGED decisions
      BY <1>4 DEF Expire, CommitCancel
    <2>3. SnapshotsKept /\ \A r \in Calls : Exists(r)' => Exists(r)
      BY <1>1, <2>1, StatusOnly DEF SnapshotsKept, Exists
    <2>4. ASSUME NEW r \in Calls, Exists(r)', NEW n \in DOMAIN approvals'[r].steps
          PROVE  BackedAt(r, n)'
      <3>1. /\ Exists(r) /\ approvals'[r].steps = approvals[r].steps
            /\ approvals'[r].progress = approvals[r].progress
            /\ approvals'[r].current = approvals[r].current
            /\ approvals'[r].status = "approved" => approvals[r].status = "approved"
        BY <1>1, <2>1, <2>3, <2>4, StatusOnly
      <3>2. BackedAt(r, n)
        BY <1>1, <2>4, <3>1 DEF StepsBacked, BackedAt
      <3>3. QED
        BY <1>1, <2>4, <3>1, <3>2, BackingKept
    <2>5. StepsBacked'
      BY <2>4 DEF StepsBacked, BackedAt
    <2>6. QED
      BY <1>1, <1>2, <2>2, <2>3, <2>5 DEF FourEyesInv
  <1>5. ASSUME NEW c \in Calls, CommitCreate(c) PROVE FourEyesInv'
    <2>1. /\ ~Exists(c) /\ approvals'[c] = NewRequest(c)
          /\ \A r \in Calls \ {c} : approvals'[r] = approvals[r]
          /\ UNCHANGED decisions
      BY <1>1, <1>5, CreateWrites
    <2>2. SnapshotsKept
      BY <2>1 DEF SnapshotsKept, Exists
    <2>3. ASSUME NEW n \in DOMAIN approvals'[c].steps PROVE BackedAt(c, n)'
      <3>1. /\ approvals'[c].steps = seen[c].steps /\ approvals'[c].current = 1
            /\ approvals'[c].status = "pending"
            /\ approvals'[c].progress =
                 [k \in DOMAIN seen[c].steps |-> [status |-> "pending", approved |-> 0]]
        BY <2>1 DEF NewRequest
      <3>2. seen[c].steps \in Policies
        BY <1>1, <1>5, Arrived DEF CommitCreate, Committed, HandlerOK, BeforeBatch
      <3>3. ~(n < 1)
        BY <3>1, <3>2, <2>3, PolicyShape
      <3>4. QED
        BY <2>3, <3>1, <3>3 DEF BackedAt
    <2>4. \A r \in Calls \ {c} : Exists(r)' =>
            \A n \in DOMAIN approvals'[r].steps : BackedAt(r, n)'
      BY <1>1, <2>1 DEF StepsBacked, BackedAt, Exists, Approvals
    <2>5. StepsBacked'
      BY <2>3, <2>4 DEF StepsBacked, BackedAt
    <2>6. QED
      BY <1>1, <1>2, <2>1, <2>2, <2>5 DEF FourEyesInv
  <1>6. ASSUME NEW c \in Calls, CommitDecide(c) PROVE FourEyesInv'
    <2>1. /\ Target(c) \in Calls /\ Exists(Target(c))
          /\ approvals'[Target(c)] = RequestAfter(c)
          /\ RequestAfter(c).steps = approvals[Target(c)].steps
          /\ RequestAfter(c).requester = approvals[Target(c)].requester
          /\ RequestAfter(c) # NoRequest
          /\ \A r \in Calls \ {Target(c)} : approvals'[r] = approvals[r]
      BY <1>1, <1>6, DecisionRowsShape, DecideWrites, RequestAfterShape
    <2>2. SnapshotsKept /\ \A r \in Calls : Exists(r)' => Exists(r)
      BY <2>1 DEF SnapshotsKept, Exists
    <2>3. ASSUME NEW r \in Calls, Exists(r), NEW n \in DOMAIN approvals[r].steps
          PROVE  BackedAt(r, n)'
      <3>1. CASE r = Target(c)
        BY <1>1, <1>6, <2>3, <3>1, DecidedBacked
      <3>2. CASE r # Target(c)
        <4>1. approvals'[r] = approvals[r] /\ BackedAt(r, n)
          BY <1>1, <2>1, <2>3, <3>2 DEF StepsBacked, BackedAt
        <4>2. QED
          BY <1>1, <2>3, <4>1, BackingKept
      <3>3. QED
        BY <3>1, <3>2
    <2>4. \A r \in Calls : Exists(r)' => approvals'[r].steps = approvals[r].steps
      BY <2>2 DEF SnapshotsKept
    <2>5. StepsBacked'
      BY <2>2, <2>3, <2>4 DEF StepsBacked, BackedAt
    <2>6. DecisionsOK'
      BY <1>1, <1>6, <2>2, DecideKeepsDecisions
    <2>7. QED
      BY <1>1, <2>5, <2>6 DEF FourEyesInv
  <1>7. QED
    BY <1>3, <1>4, <1>5, <1>6, Writers

\* As many members as approvals: no member approves a step twice.
LEMMA ApproversCount ==
  ASSUME TypeInv, DecisionsOK, NEW r, NEW n
  PROVE  Cardinality(Approvers(r, n)) = Cardinality(Approvals(r, n, decisions))
  <1> DEFINE S == Approvals(r, n, decisions)
             T == Approvers(r, n)
             f == [d \in S |-> d.user]
  <1>1. IsFiniteSet(S)
    BY CountShape DEF TypeInv, TypeOK, TablesShape
  <1>2. f \in [S -> T] /\ \A t \in T : \E d \in S : f[d] = t
    BY DEF Approvers
  <1>3. \A d, e \in S : f[d] = f[e] => d = e
    BY DEF Approvals, DecisionsOK
  <1> HIDE DEF f, S, T
  <1>4. f \in Injection(S, T) /\ f \in Surjection(S, T)
    BY <1>2, <1>3 DEF Injection, IsInjective, Surjection
  <1>5. Cardinality(T) = Cardinality(S)
    BY <1>1, <1>4, FS_Surjection
  <1>6. QED
    BY <1>5 DEF S, T

\* Nothing is approved without four eyes: at every step of an approved request
\* as many different members as its rule asks, each of whom may decide it.
THEOREM FourEyesHold == Spec => []FourEyes
  <1>1. Init => FourEyesInv
    <2>1. Init => DecisionsOK /\ StepsBacked
      BY DEF Init, DecisionsOK, StepsBacked, Exists
    <2>2. QED
      BY <2>1, InitTypeInv DEF FourEyesInv
  <1>2. FourEyesInv /\ [Next]_vars => FourEyesInv'
    BY FourEyesNext
  <1>3. FourEyesInv => FourEyes
    <2> SUFFICES ASSUME FourEyesInv, NEW r \in Calls, Exists(r),
                        approvals[r].status = "approved",
                        NEW n \in DOMAIN approvals[r].steps
                 PROVE  /\ Cardinality(Approvers(r, n)) >= approvals[r].steps[n].minimum
                        /\ \A u \in Approvers(r, n) :
                             MayDecide(u, approvals[r].steps[n], approvals[r].requester)
      BY DEF FourEyes
    <2>1. Cardinality(Approvals(r, n, decisions)) >= approvals[r].steps[n].minimum
      BY DEF FourEyesInv, StepsBacked
    <2>2. Cardinality(Approvers(r, n)) = Cardinality(Approvals(r, n, decisions))
      BY ApproversCount DEF FourEyesInv
    <2>3. \A u \in Approvers(r, n) :
            MayDecide(u, approvals[r].steps[n], approvals[r].requester)
      BY DEF FourEyesInv, DecisionsOK, Approvers, Approvals
    <2>4. QED
      BY <2>1, <2>2, <2>3
  <1>4. QED
    BY <1>1, <1>2, <1>3, PTL DEF Spec

----------------------------------------------------------------------------
(* The implementation of MakerChecker, the answers, the steps in order.    *)

Ballots == [r \in Calls |-> Ballot(r)]

LEMMA RequestTyped ==
  ASSUME TypeInv, NEW r \in Calls, Exists(r)
  PROVE  /\ approvals[r] \in RequestRow
         /\ approvals[r].requester \in Users /\ approvals[r].module \in Modules
         /\ approvals[r].enabled \in BOOLEAN /\ approvals[r].steps \in Policies
         /\ approvals[r].status \in Statuses
<1>1. approvals[r] \in RequestRow
  BY DEF TypeInv, TypeOK, TablesShape, Exists
<1> QED
  BY <1>1 DEF RequestRow

LEMMA ThereOrNot ==
  ASSUME NEW r \in Calls
  PROVE  /\ Exists(r) => /\ Ballot(r) # NoRequest
                         /\ Ballot(r).steps = approvals[r].steps
                         /\ Ballot(r).status = approvals[r].status
                         /\ Ballot(r).requester = approvals[r].requester
                         /\ Ballot(r).module = approvals[r].module
                         /\ Ballot(r).enabled = approvals[r].enabled
         /\ ~Exists(r) => Ballot(r) = NoRequest
         /\ Ballots[r] = Ballot(r)
BY DEF Ballot, Ballots, NoRequest

\* Requests of which nothing moves that a ballot shows.
BallotKept(r) ==
  approvals'[r] = approvals[r] \/
    /\ Exists(r) /\ Exists(r)'
    /\ approvals'[r].requester = approvals[r].requester
    /\ approvals'[r].module = approvals[r].module
    /\ approvals'[r].enabled = approvals[r].enabled
    /\ approvals'[r].steps = approvals[r].steps
    /\ approvals'[r].status = approvals[r].status

LEMMA BallotKeeps ==
  ASSUME NEW r \in Calls, BallotKept(r)
  PROVE  Ballot(r)' = Ballot(r)
BY DEF BallotKept, Ballot, Exists

LEMMA BallotsKeep ==
  ASSUME \A r \in Calls : BallotKept(r)
  PROVE  UNCHANGED Ballots
BY BallotKeeps DEF Ballots

LEMMA QuietControl ==
  ASSUME UNCHANGED <<approvals, decisions, modules>>
  PROVE  [Control!Next]_(Control!vars)
<1>1. UNCHANGED Ballots
  BY BallotsKeep DEF BallotKept
<1>2. UNCHANGED Signatures
  BY DEF Signatures
<1> QED
  BY <1>1, <1>2 DEF Control!vars, Ballots

\* A request that is there loses its status to this outcome.
BallotEnded(r, outcome) ==
  /\ Exists(r) /\ Pending(r)
  /\ Exists(r)'
  /\ approvals'[r].requester = approvals[r].requester
  /\ approvals'[r].module = approvals[r].module
  /\ approvals'[r].enabled = approvals[r].enabled
  /\ approvals'[r].steps = approvals[r].steps
  /\ approvals'[r].status = outcome

LEMMA DismissControl ==
  ASSUME NEW outcome \in {"rejected", "cancelled", "expired"},
         UNCHANGED <<modules, Signatures>>,
         \A r \in Calls : BallotKept(r) \/ BallotEnded(r, outcome)
  PROVE  Control!Next
<1>1. ASSUME NEW r \in Calls
      PROVE  \/ Ballots'[r] = Ballots[r]
             \/ /\ Ballots[r].status = "pending"
                /\ Ballots'[r] = [Ballots[r] EXCEPT !.status = outcome]
  <2>1. Ballots'[r] = Ballot(r)' /\ Ballots[r] = Ballot(r)
    BY DEF Ballots
  <2>2. CASE BallotKept(r)
    BY <2>1, <2>2, BallotKeeps
  <2>3. CASE BallotEnded(r, outcome)
    BY <2>1, <2>3 DEF BallotEnded, Ballot, Exists, Pending
  <2> QED
    BY <2>2, <2>3
<1>2. Ballots' = [r \in Calls |-> Ballots'[r]]
  BY DEF Ballots
<1>3. Control!Dismiss(outcome)
  BY <1>1, <1>2 DEF Control!Dismiss, Ballots
<1> QED
  BY <1>3 DEF Control!Next

LEMMA CreateControl ==
  ASSUME TypeInv, NEW c \in Calls, CommitCreate(c)
  PROVE  Control!Next
<1>1. /\ ~Exists(c) /\ approvals'[c] = NewRequest(c)
      /\ \A r \in Calls \ {c} : approvals'[r] = approvals[r]
      /\ UNCHANGED <<decisions, modules>>
  BY CreateWrites DEF CommitCreate
<1>2. /\ command[c].user \in Users /\ command[c].module \in Modules
      /\ command[c].enabled \in BOOLEAN /\ seen[c].steps \in Policies
  BY Arrived DEF CommitCreate, Committed, HandlerOK, BeforeBatch, WellFormed, Command
<1>3. Ballots[c] = NoRequest
  BY <1>1, ThereOrNot
<1>4. Ballots'[c] = [requester |-> command[c].user, module |-> command[c].module,
                     enabled |-> command[c].enabled, steps |-> seen[c].steps,
                     status |-> "pending"]
  BY <1>1 DEF Ballots, Ballot, Exists, NewRequest, NoRequest
<1>5. \A r \in Calls \ {c} : Ballots'[r] = Ballots[r]
  BY <1>1 DEF Ballots, Ballot, Exists
<1>6. Ballots' = [Ballots EXCEPT ![c] = Ballots'[c]]
  BY <1>5 DEF Ballots
<1>7. Ballots'[c] \in Control!NewBallot
  BY <1>2, <1>4 DEF Control!NewBallot
<1>8. UNCHANGED <<modules, Signatures>>
  BY <1>1 DEF Signatures
<1>9. Control!Submit(c)
  BY <1>3, <1>6, <1>7, <1>8
     DEF Control!Submit, Control!NoBallot, Control!None, None, NoRequest, Ballots
<1> QED
  BY <1>9 DEF Control!Next

LEMMA DirectControl ==
  ASSUME TypeInv, NEW c \in Calls, CommitDirect(c)
  PROVE  Control!Next
<1>1. UNCHANGED Ballots /\ UNCHANGED Signatures
  BY BallotsKeep DEF CommitDirect, BallotKept, Signatures
<1>2. command[c].module \in Modules /\ command[c].enabled \in BOOLEAN
  BY Arrived DEF CommitDirect, Committed, WellFormed, Command
<1>3. modules' = [modules EXCEPT ![command[c].module] =
                    [enabled |-> command[c].enabled, version |-> @.version + 1]]
  BY DEF CommitDirect, Changed
<1>4. Control!Direct(command[c].module, command[c].enabled)
  BY <1>1, <1>3 DEF Control!Direct, Control!Set, Ballots
<1> QED
  BY <1>2, <1>4 DEF Control!Next

LEMMA EndingControl ==
  ASSUME TypeInv, NEW c \in Calls, Expire(c) \/ CommitCancel(c)
  PROVE  Control!Next
<1>1. UNCHANGED <<decisions, modules>>
  BY DEF Expire, CommitCancel
<1>2. UNCHANGED Signatures
  BY <1>1 DEF Signatures
<1>3. CASE Expire(c)
  <2>1. ASSUME NEW r \in Calls PROVE BallotKept(r) \/ BallotEnded(r, "expired")
    <3>1. CASE approvals'[r] = approvals[r]
      BY <3>1 DEF BallotKept
    <3>2. CASE approvals'[r] # approvals[r]
      <4>1. Exists(r) /\ Pending(r) /\ StatusWritten(r)
        BY <1>3, <3>2, ExpireWrites
      <4>2. approvals'[r] = [approvals[r] EXCEPT !.status = "expired"]
        BY <1>3, <3>2 DEF Expire
      <4>3. approvals'[r].status = "expired"
        BY <4>1, <4>2, RequestTyped DEF RequestRow
      <4> QED
        BY <4>1, <4>3, StatusOnly DEF BallotEnded
    <3> QED
      BY <3>1, <3>2
  <2> QED
    BY <1>1, <1>2, <2>1, DismissControl
<1>4. CASE CommitCancel(c)
  <2>1. ASSUME NEW r \in Calls PROVE BallotKept(r) \/ BallotEnded(r, "cancelled")
    <3>1. CASE approvals'[r] = approvals[r]
      BY <3>1 DEF BallotKept
    <3>2. CASE approvals'[r] # approvals[r]
      <4>1. Exists(r) /\ Pending(r) /\ StatusWritten(r)
        BY <1>4, <3>2, CancelWrites
      <4>2. approvals \in [Calls -> RequestRow \cup {NoRequest}]
        BY DEF TypeInv, TypeOK, TablesShape
      <4>3. r = command[c].request
        BY <1>4, <3>2, <4>2 DEF CommitCancel
      <4>4. approvals'[r] = [approvals[r] EXCEPT !.status = "cancelled"]
        BY <1>4, <4>1, <4>2, <4>3 DEF CommitCancel
      <4>5. approvals'[r].status = "cancelled"
        BY <4>1, <4>4, RequestTyped DEF RequestRow
      <4> QED
        BY <4>1, <4>5, StatusOnly DEF BallotEnded
    <3> QED
      BY <3>1, <3>2
  <2> QED
    BY <1>1, <1>2, <2>1, DismissControl
<1> QED
  BY <1>3, <1>4

\* What a decision adds to the signatures.
LEMMA DecisionSigns ==
  ASSUME TypeInv, NEW c \in Calls, CommitDecide(c)
  PROVE  /\ command[c].decision = "approve" =>
              Signatures' = Signatures \cup {<<Target(c), At(c), command[c].user>>}
         /\ command[c].decision # "approve" => Signatures' = Signatures
<1>1. decisions' = decisions \cup {Decision(c)}
  BY DecideWrites DEF Rows
<1>2. /\ Decision(c).request = Target(c) /\ Decision(c).step = At(c)
      /\ Decision(c).user = command[c].user /\ Decision(c).decision = command[c].decision
  BY DEF Decision, Target, At
<1> QED
  BY <1>1, <1>2 DEF Signatures

LEMMA SameCardinality ==
  ASSUME NEW S
  PROVE  Control!Cardinality(S) = Cardinality(S)
BY DEF Control!Cardinality, Cardinality

\* A decision's batch, in the terms of the ballots.
LEMMA DecideControl ==
  ASSUME TypeInv, FourEyes', NEW c \in Calls, CommitDecide(c)
  PROVE  Control!Next
<1>1. PICK r \in Calls, u \in Users, n \in Nat : r = Target(c) /\ u = command[c].user /\ n = At(c)
  <2>1. Target(c) \in Calls /\ command[c].user \in Users
    BY DecisionRowsShape, Arrived DEF CommitDecide, Committed, Command
  <2>2. At(c) \in Nat
    BY DecisionRowsShape, PolicyShape
  <2> QED
    BY <2>1, <2>2
<1>2. /\ Exists(r) /\ Exists(r)' /\ approvals'[r] = RequestAfter(c)
      /\ approvals'[r].steps = approvals[r].steps
      /\ approvals'[r].requester = approvals[r].requester
      /\ approvals'[r].module = approvals[r].module
      /\ approvals'[r].enabled = approvals[r].enabled
      /\ approvals'[r].status = StatusAfter(c)
      /\ \A other \in Calls \ {r} : approvals'[other] = approvals[other]
      /\ n \in DOMAIN approvals[r].steps
      /\ MayDecide(u, approvals[r].steps[n], approvals[r].requester)
  <2>1. /\ Exists(r) /\ approvals'[r] = RequestAfter(c)
        /\ \A other \in Calls \ {r} : approvals'[other] = approvals[other]
    BY <1>1, DecideWrites
  <2>2. /\ n \in DOMAIN approvals[r].steps
        /\ MayDecide(u, approvals[r].steps[n], approvals[r].requester)
    BY <1>1, DecisionRowsShape
  <2>3. /\ approvals'[r] # NoRequest
        /\ approvals'[r].steps = approvals[r].steps
        /\ approvals'[r].requester = approvals[r].requester
        /\ approvals'[r].module = approvals[r].module
        /\ approvals'[r].enabled = approvals[r].enabled
        /\ approvals'[r].status = StatusAfter(c)
    BY <1>1, <2>1, RequestAfterShape
  <2> QED
    BY <2>1, <2>2, <2>3 DEF Exists
<1>3. \A other \in Calls \ {r} : BallotKept(other)
  BY <1>2 DEF BallotKept
<1>4. approvals[r].module \in Modules /\ approvals[r].enabled \in BOOLEAN
  BY <1>2, RequestTyped
<1>5. /\ Ballots[r].steps = approvals[r].steps /\ Ballots[r].status = approvals[r].status
      /\ Ballots[r].requester = approvals[r].requester
      /\ Ballots[r].module = approvals[r].module /\ Ballots[r].enabled = approvals[r].enabled
      /\ Ballots[r] # NoRequest
  BY <1>2, ThereOrNot
<1> DEFINE done == command[c].decision = "approve" /\ Completes(r, n, StepAfter(c))
<1>6. modules' = IF done
                 THEN [modules EXCEPT ![approvals[r].module] =
                         Changed(approvals[r].module, approvals[r].enabled)]
                 ELSE modules
  BY <1>1 DEF CommitDecide, Target, At, StepAfter, Rows
<1>7. CASE command[c].decision # "approve"
  <2>1. UNCHANGED <<modules, Signatures>>
    BY <1>6, <1>7, DecisionSigns
  <2>2. BallotKept(r) \/ BallotEnded(r, "rejected")
    BY <1>1, <1>2, <1>7 DEF StatusAfter, Rejects, BallotKept, BallotEnded
  <2>3. \A other \in Calls : BallotKept(other) \/ BallotEnded(other, "rejected")
    BY <1>3, <2>2
  <2> QED
    BY <2>1, <2>3, DismissControl
<1>8. CASE command[c].decision = "approve" /\ ~done
  <2>1. StatusAfter(c) = approvals[r].status
    BY <1>1, <1>8 DEF StatusAfter, Rejects
  <2>2. UNCHANGED Ballots
    BY <1>2, <1>3, <2>1, BallotsKeep DEF BallotKept
  <2>3. UNCHANGED modules /\ Signatures' = Signatures \cup {<<r, n, u>>}
    BY <1>1, <1>6, <1>8, DecisionSigns
  <2>4. Control!Sign(r, n, u)
    BY <1>2, <1>5, <2>2, <2>3
       DEF Control!Sign, Control!NoBallot, Control!None, None, NoRequest, Ballots, MayDecide,
           Control!MayDecide
  <2> QED
    BY <1>2, <1>5, <2>4 DEF Control!Next, Control!NoBallot, Control!None, None, NoRequest, Ballots
<1>9. CASE done
  <2>1. StatusAfter(c) = "approved" /\ approvals[r].status = "pending"
    BY <1>1, <1>9 DEF StatusAfter, Completes, Pending
  <2>2. Signatures' = Signatures \cup {<<r, n, u>>}
    BY <1>1, <1>9, DecisionSigns
  <2>3. Ballots' = [Ballots EXCEPT ![r].status = "approved"]
    <3>1. Ballots'[r] = [Ballots[r] EXCEPT !.status = "approved"]
      BY <1>2, <2>1 DEF Ballots, Ballot
    <3>2. \A other \in Calls \ {r} : Ballots'[other] = Ballots[other]
      BY <1>2 DEF Ballots, Ballot, Exists
    <3> QED
      BY <3>1, <3>2 DEF Ballots
  <2>4. ASSUME NEW k \in DOMAIN Ballots[r].steps
        PROVE  /\ Cardinality(Control!Signers(r, k, Signatures')) >= Ballots[r].steps[k].minimum
               /\ \A v \in Control!Signers(r, k, Signatures') :
                    MayDecide(v, Ballots[r].steps[k], Ballots[r].requester)
    <3>1. Control!Signers(r, k, Signatures') = Approvers(r, k)'
      <4>1. decisions' \subseteq DecisionRow
        BY DecisionRowsShape
      <4> QED
        BY <4>1 DEF Control!Signers, Signatures, Approvers, Approvals, DecisionRow
    <3>2. /\ Cardinality(Approvers(r, k)') >= approvals'[r].steps[k].minimum
          /\ \A v \in Approvers(r, k)' :
               MayDecide(v, approvals'[r].steps[k], approvals'[r].requester)
      BY <1>2, <1>5, <2>1 DEF FourEyes
    <3> QED
      BY <1>2, <1>5, <3>1, <3>2
  <2>5. modules' = [modules EXCEPT ![Ballots[r].module] =
                      [enabled |-> Ballots[r].enabled, version |-> @.version + 1]]
    BY <1>5, <1>6, <1>9 DEF Changed
  <2>6. Control!Carry(r, n, u)
    BY <1>2, <1>5, <2>1, <2>2, <2>3, <2>4, <2>5, SameCardinality
       DEF Control!Carry, Control!Carried, Control!Set, Ballots, MayDecide, Control!MayDecide
  <2> QED
    BY <1>2, <1>5, <2>6 DEF Control!Next, Control!NoBallot, Control!None, None, NoRequest, Ballots
<1> QED
  BY <1>7, <1>8, <1>9

LEMMA ControlNext ==
  ASSUME TypeInv, FourEyes', [Next]_vars
  PROVE  [Control!Next]_(Control!vars)
<1>1. ASSUME NEW c \in Calls,
             Expire(c) \/ CommitCreate(c) \/ CommitCancel(c) \/ CommitDecide(c) \/ CommitDirect(c)
      PROVE  Control!Next
  BY <1>1, EndingControl, CreateControl, DecideControl, DirectControl
<1>2. CASE UNCHANGED <<approvals, decisions, modules>>
  BY <1>2, QuietControl
<1>3. \/ UNCHANGED <<approvals, decisions, modules>>
      \/ \E c \in Calls : \/ Expire(c) \/ CommitCreate(c) \/ CommitCancel(c)
                          \/ CommitDecide(c) \/ CommitDirect(c)
  <2>1. ASSUME NEW c \in Calls, Step(c)
        PROVE  \/ UNCHANGED tables \/ CommitUpsert(c)
               \/ Expire(c) \/ CommitCreate(c) \/ CommitCancel(c)
               \/ CommitDecide(c) \/ CommitDirect(c)
    BY <2>1 DEF Step, ReadModule, ReadPolicy, ReadPolicySteps, RequireDirectAllowed,
                LoadPending, ReadLate, CheckStep, ReadReplay, CheckDuplicate, Abort,
                CatchAbort, ReadOnly
  <2>2. UNCHANGED tables => UNCHANGED <<approvals, decisions, modules>>
    BY DEF tables
  <2>3. ASSUME NEW c \in Calls, Arrive(c) PROVE UNCHANGED tables
    BY <2>3 DEF Arrive
  <2>4. ASSUME NEW r \in Calls, Deadline(r) PROVE UNCHANGED tables
    BY <2>4 DEF Deadline
  <2>5. ASSUME NEW row \in idempotency, ExpireKey(row)
        PROVE  UNCHANGED <<approvals, decisions, modules>>
    BY <2>5 DEF ExpireKey
  <2>6. ASSUME NEW c \in Calls, CommitUpsert(c)
        PROVE  UNCHANGED <<approvals, decisions, modules>>
    BY <2>6 DEF CommitUpsert
  <2>7. UNCHANGED vars => UNCHANGED tables
    BY DEF vars, tables
  <2> QED
    BY <2>1, <2>2, <2>3, <2>4, <2>5, <2>6, <2>7 DEF Next, Quiet
<1> QED
  BY <1>1, <1>2, <1>3

\* The handlers, with every query a step and time in between, implement the
\* abstract control: the batch that approves a request carries its ballot and
\* changes its module in the same step, and no other step is visible but a
\* signature, a submission, a dismissal or a direct change.
THEOREM ControlImplemented == Spec => ImplementsMakerChecker
<1>1. Init => Control!Init
  <2>1. SUFFICES ASSUME Init PROVE Control!Init
    OBVIOUS
  <2>2. \A r \in Calls : Ballot(r) = NoRequest
    BY <2>1 DEF Init, Exists, Ballot
  <2>3. [r \in Calls |-> Ballot(r)] = [r \in Calls |-> NoRequest]
    BY <2>2
  <2>4. Signatures = {}
    BY <2>1 DEF Init, Signatures
  <2>5. modules \in [Modules -> [enabled : BOOLEAN, version : {1}]]
    BY <2>1 DEF Init
  <2> QED
    BY <2>3, <2>4, <2>5 DEF Control!Init, Control!NoBallot, Control!None, NoRequest, None
<1>2. TypeInv /\ FourEyes' /\ [Next]_vars => [Control!Next]_(Control!vars)
  BY ControlNext
<1> QED
  BY <1>1, <1>2, TypeCorrect, FourEyesHold, PTL DEF Spec, ImplementsMakerChecker, Control!Spec

----------------------------------------------------------------------------
(* Answers.                                                                *)

\* What a call wrote, it has answered.
WroteOK(c) == Wrote(c) => pc[c] = "done" /\ answer[c].kind = "ok"

TruthOK(c) ==
  /\ answer[c].kind \in {"ok", "replayed"} => pc[c] = "done"
  /\ (answer[c].kind \in {"ok", "replayed"} /\ command[c].op # "read") =>
       \E by \in Calls :
         /\ by = answer[c].by /\ pc[by] = "done" /\ Wrote(by)
         /\ Claim(c) = Claim(by) /\ Hash(c) = Hash(by)

\* An idempotency row stands for what its call wrote.
RowTrue(row) ==
  /\ pc[row.by] = "done" /\ Wrote(row.by)
  /\ row.claim = Claim(row.by) /\ row.hash = Hash(row.by)

AnswersInv ==
  /\ \A c \in Calls : WroteOK(c) /\ TruthOK(c)
  /\ \A row \in idempotency : RowTrue(row)

LEMMA AnswersFollow ==
  ASSUME AnswersInv
  PROVE  AnswersAreTrue
BY DEF AnswersInv, WroteOK, TruthOK, AnswersAreTrue, Refusals

\* What a step leaves of the handlers it does not move.
OthersSilent(c) ==
  \A d \in Calls \ {c} : /\ pc'[d] = pc[d] /\ command'[d] = command[d]
                         /\ seen'[d] = seen[d] /\ answer'[d] = answer[d]

\* What was written stays, and only this call writes in its name.
WritesAlone(c) ==
  /\ \A d \in Calls : Wrote(d) => Wrote(d)'
  /\ \A d \in Calls \ {c} : Wrote(d)' => Wrote(d)

LEMMA OthersTrue ==
  ASSUME TypeInv, AnswersInv, NEW c \in Calls, pc[c] # "done", OthersSilent(c), WritesAlone(c)
  PROVE  /\ \A d \in Calls \ {c} : WroteOK(d)' /\ TruthOK(d)'
         /\ \A row \in idempotency : RowTrue(row)'
<1>1. \A d \in Calls \ {c} : Claim(d)' = Claim(d) /\ Hash(d)' = Hash(d)
  BY DEF OthersSilent, Claim, Hash
<1>2. ASSUME NEW d \in Calls \ {c} PROVE WroteOK(d)' /\ TruthOK(d)'
  <2>1. WroteOK(d)'
    BY DEF AnswersInv, WroteOK, OthersSilent, WritesAlone
  <2>2. TruthOK(d)'
    <3>1. pc'[d] = pc[d] /\ command'[d] = command[d] /\ answer'[d] = answer[d] /\ TruthOK(d)
      BY DEF AnswersInv, OthersSilent
    <3>2. ASSUME answer[d].kind \in {"ok", "replayed"}, command[d].op # "read"
          PROVE  \E by \in Calls :
                   /\ by = answer'[d].by /\ pc'[by] = "done" /\ Wrote(by)'
                   /\ Claim(d)' = Claim(by)' /\ Hash(d)' = Hash(by)'
      <4>1. PICK by \in Calls :
              /\ by = answer[d].by /\ pc[by] = "done" /\ Wrote(by)
              /\ Claim(d) = Claim(by) /\ Hash(d) = Hash(by)
        BY <3>1, <3>2 DEF TruthOK
      <4>2. by \in Calls \ {c}
        BY <4>1
      <4> QED
        BY <1>1, <3>1, <4>1, <4>2 DEF OthersSilent, WritesAlone
    <3> QED
      BY <3>1, <3>2 DEF TruthOK
  <2> QED
    BY <2>1, <2>2
<1>3. ASSUME NEW row \in idempotency PROVE RowTrue(row)'
  <2>1. row.by \in Calls /\ RowTrue(row)
    BY DEF TypeInv, TypeOK, TablesShape, IsRow, AnswersInv
  <2>2. row.by \in Calls \ {c}
    BY <2>1 DEF RowTrue
  <2> QED
    BY <1>1, <2>1, <2>2 DEF RowTrue, OthersSilent, WritesAlone
<1> QED
  BY <1>2, <1>3

\* A step that writes nothing in its name, and claims nothing.
LEMMA SilentTrue ==
  ASSUME TypeInv, AnswersInv, NEW c \in Calls, pc[c] # "done", OthersSilent(c), WritesAlone(c),
         Wrote(c)' => Wrote(c), UNCHANGED idempotency,
         \/ answer'[c].kind \notin {"ok", "replayed"}
         \/ pc'[c] = "done" /\ command'[c].op = "read"
  PROVE  AnswersInv'
<1>1. ~Wrote(c)
  BY DEF AnswersInv, WroteOK
<1>2. WroteOK(c)' /\ TruthOK(c)'
  BY <1>1 DEF WroteOK, TruthOK
<1> QED
  BY <1>2, OthersTrue DEF AnswersInv

LEMMA ReplayTrue ==
  ASSUME TypeInv, AnswersInv, NEW c \in Calls, pc[c] \notin {"idle", "done"},
         UNCHANGED tables, UNCHANGED <<command, seen>>,
         NEW row \in LiveClaimed(c), row.hash = Hash(c), Respond(c, "replayed", row.by)
  PROVE  AnswersInv'
<1>1. /\ row \in idempotency /\ row.claim = Claim(c) /\ row.by \in Calls /\ RowTrue(row)
  BY DEF LiveClaimed, Claimed, AnswersInv, TypeInv, TypeOK, TablesShape, IsRow
<1>2. /\ pc' = [pc EXCEPT ![c] = "done"]
      /\ answer' = [answer EXCEPT ![c] = [kind |-> "replayed", by |-> row.by]]
      /\ HandlersShape
  BY DEF Respond, TypeInv, TypeOK
<1>3. /\ OthersSilent(c) /\ pc'[c] = "done" /\ answer'[c].kind = "replayed"
      /\ answer'[c].by = row.by
  BY <1>2 DEF OthersSilent, HandlersShape
<1>4. \A d \in Calls : Wrote(d)' = Wrote(d)
  BY DEF tables, Wrote, Exists
<1>5. WritesAlone(c) /\ ~Wrote(c)
  BY <1>4 DEF WritesAlone, AnswersInv, WroteOK
<1>6. \A d \in Calls : Claim(d)' = Claim(d) /\ Hash(d)' = Hash(d)
  BY DEF Claim, Hash
<1>7. TruthOK(c)'
  <2>1. PICK by \in Calls : by = row.by
    BY <1>1
  <2>2. /\ pc[by] = "done" /\ Wrote(by) /\ Claim(c) = Claim(by) /\ Hash(c) = Hash(by)
    BY <1>1, <2>1 DEF RowTrue
  <2>3. /\ pc'[by] = "done" /\ Wrote(by)' /\ Claim(c)' = Claim(by)' /\ Hash(c)' = Hash(by)'
    BY <1>3, <1>4, <1>6, <2>2 DEF OthersSilent
  <2> QED
    BY <1>3, <2>1, <2>3 DEF TruthOK
<1>8. WroteOK(c)'
  BY <1>4, <1>5 DEF WroteOK
<1>9. UNCHANGED idempotency
  BY DEF tables
<1> QED
  BY <1>3, <1>5, <1>7, <1>8, <1>9, OthersTrue DEF AnswersInv

LEMMA CommitTrue ==
  ASSUME TypeInv, AnswersInv, NEW c \in Calls, Committed(c), WritesAlone(c), Wrote(c)'
  PROVE  AnswersInv'
<1>1. /\ pc' = [pc EXCEPT ![c] = "done"] /\ pc[c] = "batch"
      /\ answer' = [answer EXCEPT ![c] = [kind |-> "ok", by |-> c]]
      /\ UNCHANGED <<command, seen>> /\ idempotency' = idempotency \cup {Row(c)}
      /\ HandlersShape
  BY DEF Committed, Respond, TypeInv, TypeOK
<1>2. /\ OthersSilent(c) /\ pc'[c] = "done" /\ answer'[c].kind = "ok" /\ answer'[c].by = c
  BY <1>1 DEF OthersSilent, HandlersShape
<1>3. Claim(c)' = Claim(c) /\ Hash(c)' = Hash(c)
  BY <1>1 DEF Claim, Hash
<1>4. WroteOK(c)' /\ TruthOK(c)'
  BY <1>2 DEF WroteOK, TruthOK
<1>5. \A row \in {Row(c)} : RowTrue(row)'
  <2>1. Row(c).by = c /\ Row(c).claim = Claim(c) /\ Row(c).hash = Hash(c)
    BY DEF Row
  <2> QED
    BY <1>2, <1>3, <2>1 DEF RowTrue
<1> QED
  BY <1>1, <1>2, <1>4, <1>5, OthersTrue DEF AnswersInv

LEMMA RequestStays ==
  ASSUME TypeInv, [Next]_vars, NEW r \in Calls, Exists(r)
  PROVE  Exists(r)'
<1>1. CASE UNCHANGED approvals
  BY <1>1 DEF Exists
<1>2. ASSUME NEW c \in Calls, Expire(c) \/ CommitCancel(c) PROVE Exists(r)'
  <2>1. approvals'[r] = approvals[r] \/ StatusWritten(r)
    BY <1>2, ExpireWrites, CancelWrites
  <2> QED
    BY <2>1, StatusOnly DEF Exists
<1>3. ASSUME NEW c \in Calls, CommitCreate(c) PROVE Exists(r)'
  <2>1. r # c /\ approvals'[r] = approvals[r]
    BY <1>3, CreateWrites
  <2> QED
    BY <2>1 DEF Exists
<1>4. ASSUME NEW c \in Calls, CommitDecide(c) PROVE Exists(r)'
  <2>1. /\ approvals'[Target(c)] = RequestAfter(c) /\ RequestAfter(c) # NoRequest
        /\ \A other \in Calls \ {Target(c)} : approvals'[other] = approvals[other]
    BY <1>4, DecideWrites, RequestAfterShape
  <2> QED
    BY <2>1 DEF Exists
<1> QED
  BY <1>1, <1>2, <1>3, <1>4, Writers

LEMMA WroteStays ==
  ASSUME TypeInv, [Next]_vars, NEW c \in Calls, Wrote(c)
  PROVE  Wrote(c)'
<1>1. decisions \subseteq decisions' /\ changes \subseteq changes' /\ events \subseteq events'
  BY RequestsKept
<1>2. Exists(c) => Exists(c)'
  BY RequestStays
<1> QED
  BY <1>1, <1>2 DEF Wrote

\* Each batch writes in the name of its call only.
LEMMA BatchWrites ==
  ASSUME TypeInv, NEW c \in Calls,
         \/ CommitCreate(c) \/ CommitDecide(c) \/ CommitCancel(c)
         \/ CommitUpsert(c) \/ CommitDirect(c)
  PROVE  Wrote(c)' /\ \A d \in Calls \ {c} : Wrote(d)' => Wrote(d)
<1>1. \A type, r : Event(type, r, c).by = c /\ Event(type, r, c).type = type
  BY DEF Event
<1>2. \A m, enabled, version, r : Change(m, enabled, version, r, c).by = c
  BY DEF Change
<1>3. CASE CommitCreate(c)
  <2>1. /\ approvals'[c] # NoRequest /\ \A d \in Calls \ {c} : approvals'[d] = approvals[d]
    <3>1. approvals'[c] = NewRequest(c) /\ \A d \in Calls \ {c} : approvals'[d] = approvals[d]
      BY <1>3, CreateWrites
    <3>2. NewRequest(c).status = "pending"
      BY DEF NewRequest
    <3>3. NoRequest.status = None /\ None # "pending"
      BY DEF NoRequest, None
    <3> QED
      BY <3>1, <3>2, <3>3
  <2>2. UNCHANGED <<decisions, changes>> /\ events' = events \cup {Event("created", c, c)}
    BY <1>3 DEF CommitCreate
  <2> QED
    BY <1>1, <2>1, <2>2 DEF Wrote, Exists
<1>4. CASE CommitDecide(c)
  <2>1. \A d \in Calls : Exists(d)' => Exists(d)
    BY <1>4, DecideWrites DEF Exists
  <2>2. decisions' = decisions \cup {Decision(c)} /\ Decision(c).by = c
    BY <1>4, DecideWrites DEF Rows, Decision
  <2>3. \A x \in changes' : x \in changes \/ x.by = c
    BY <1>2, <1>4 DEF CommitDecide
  <2>4. \A e \in events' : e \in events \/ e.by = c
    BY <1>1, <1>4 DEF CommitDecide
  <2> QED
    BY <2>1, <2>2, <2>3, <2>4 DEF Wrote
<1>5. CASE CommitCancel(c)
  <2>1. \A d \in Calls : Exists(d)' => Exists(d)
    BY <1>5, CancelWrites DEF Exists
  <2>2. /\ UNCHANGED <<decisions, changes>>
        /\ events' = events \cup {Event("cancelled", command[c].request, c)}
    BY <1>5 DEF CommitCancel
  <2> QED
    BY <1>1, <2>1, <2>2 DEF Wrote
<1>6. CASE CommitUpsert(c)
  <2>1. /\ UNCHANGED <<approvals, decisions, changes>>
        /\ events' = events \cup {Event("policy-changed", None, c)}
    BY <1>6 DEF CommitUpsert
  <2> QED
    BY <1>1, <2>1 DEF Wrote, Exists
<1>7. CASE CommitDirect(c)
  <2> DEFINE x == Change(command[c].module, command[c].enabled, seen[c].version + 1, None, c)
  <2>1. UNCHANGED <<approvals, decisions, events>> /\ changes' = changes \cup {x}
    BY <1>7 DEF CommitDirect
  <2>2. x.by = c
    BY <1>2
  <2> HIDE DEF x
  <2> QED
    BY <2>1, <2>2 DEF Wrote, Exists
<1> QED
  BY <1>3, <1>4, <1>5, <1>6, <1>7

LEMMA BatchTrue ==
  ASSUME TypeInv, AnswersInv, [Next]_vars, NEW c \in Calls,
         \/ CommitCreate(c) \/ CommitDecide(c) \/ CommitCancel(c)
         \/ CommitUpsert(c) \/ CommitDirect(c)
  PROVE  AnswersInv'
<1>1. Committed(c)
  BY DEF CommitCreate, CommitDecide, CommitCancel, CommitUpsert, CommitDirect
<1>2. WritesAlone(c) /\ Wrote(c)'
  BY BatchWrites, WroteStays DEF WritesAlone
<1> QED
  BY <1>1, <1>2, CommitTrue

LEMMA ExpireTrue ==
  ASSUME TypeInv, AnswersInv, [Next]_vars, NEW c \in Calls, Expire(c)
  PROVE  AnswersInv'
<1>1. /\ pc[c] = "expire" /\ AfterExpiry(c) /\ UNCHANGED <<idempotency, command, seen>>
      /\ HandlersShape
  BY DEF Expire, TypeInv, TypeOK
<1>2. command[c].op \in {"read", "decide"}
  BY <1>1, Arrived DEF HandlerOK, RouteOK
<1>3. OthersSilent(c)
  BY <1>1 DEF OthersSilent, HandlersShape, AfterExpiry, Refuse, Respond
<1>4. /\ pc'[c] = "done"
      /\ answer'[c].kind \notin {"ok", "replayed"} \/ command'[c].op = "read"
  BY <1>1, <1>2 DEF HandlersShape, AfterExpiry, Refuse, Respond
<1>5. \A d \in Calls : Wrote(d)' => Wrote(d)
  <2>1. \A d \in Calls : Exists(d)' => Exists(d)
    BY ExpireWrites DEF Exists
  <2>2. \A e \in events' : e \in events \/ e.type = "expired"
    BY DEF Expire, Event
  <2>3. UNCHANGED <<decisions, changes>>
    BY DEF Expire
  <2> QED
    BY <2>1, <2>2, <2>3 DEF Wrote
<1>6. WritesAlone(c)
  BY <1>5, WroteStays DEF WritesAlone
<1> QED
  BY <1>1, <1>3, <1>4, <1>5, <1>6, SilentTrue

\* The steps that write nothing.
ReadStep(c) ==
  \/ Arrive(c) \/ ReadModule(c) \/ ReadPolicy(c) \/ ReadPolicySteps(c)
  \/ RequireDirectAllowed(c) \/ LoadPending(c) \/ ReadLate(c) \/ CheckStep(c)
  \/ ReadReplay(c) \/ CheckDuplicate(c) \/ Abort(c) \/ CatchAbort(c)

LEMMA ReadAnswers ==
  ASSUME TypeInv, NEW c \in Calls, ReadStep(c)
  PROVE  /\ UNCHANGED tables /\ pc[c] # "done"
         /\ \A d \in Calls \ {c} : command'[d] = command[d] /\ seen'[d] = seen[d]
         /\ \/ UNCHANGED answer /\ \E step : pc' = [pc EXCEPT ![c] = step]
            \/ \E kind \in Refusals : Refuse(c, kind)
            \/ UNCHANGED command /\ command[c].op = "read" /\ Respond(c, "ok", c)
            \/ /\ pc[c] # "idle" /\ UNCHANGED <<command, seen>>
               /\ \E row \in LiveClaimed(c) :
                    row.hash = Hash(c) /\ Respond(c, "replayed", row.by)
<1>1. HandlersShape
  BY DEF TypeInv, TypeOK
<1>2. CASE Arrive(c)
  BY <1>1, <1>2 DEF Arrive, HandlersShape, Goto, Refusals
<1>3. CASE ReadModule(c)
  BY <1>1, <1>3 DEF ReadModule, ReadOnly, HandlersShape, Goto, Refusals
<1>4. CASE ReadPolicy(c)
  BY <1>1, <1>4 DEF ReadPolicy, ReadOnly, HandlersShape, Goto, Refusals
<1>5. CASE ReadPolicySteps(c)
  BY <1>1, <1>5 DEF ReadPolicySteps, ReadOnly, HandlersShape, Goto, Refusals
<1>6. CASE RequireDirectAllowed(c)
  BY <1>1, <1>6 DEF RequireDirectAllowed, ReadOnly, HandlersShape, Goto, Refusals
<1>7. CASE LoadPending(c)
  BY <1>1, <1>7 DEF LoadPending, ReadOnly, HandlersShape, Goto, Refusals
<1>8. CASE ReadLate(c)
  <2>1. command[c].op \in {"read", "decide"}
    BY <1>8, Arrived DEF ReadLate, HandlerOK, RouteOK
  <2> QED
    BY <1>1, <1>8, <2>1 DEF ReadLate, AfterExpiry, ReadOnly, HandlersShape, Goto, Refusals
<1>9. CASE CheckStep(c)
  BY <1>1, <1>9 DEF CheckStep, ReadOnly, HandlersShape, Goto, Refusals
<1>10. CASE ReadReplay(c)
  BY <1>1, <1>10 DEF ReadReplay, ReadOnly, HandlersShape, Goto, Refusals
<1>11. CASE CheckDuplicate(c)
  BY <1>1, <1>11 DEF CheckDuplicate, ReadOnly, HandlersShape, Goto, Refusals
<1>12. CASE Abort(c)
  BY <1>1, <1>12 DEF Abort, ReadOnly, HandlersShape, Goto, Refusals
<1>13. CASE CatchAbort(c)
  BY <1>1, <1>13 DEF CatchAbort, ReadOnly, HandlersShape, Goto, Refusals
<1> QED
  BY <1>2, <1>3, <1>4, <1>5, <1>6, <1>7, <1>8, <1>9, <1>10, <1>11, <1>12, <1>13 DEF ReadStep

LEMMA ReadTrue ==
  ASSUME TypeInv, AnswersInv, NEW c \in Calls, ReadStep(c)
  PROVE  AnswersInv'
<1>1. /\ UNCHANGED tables /\ pc[c] # "done" /\ HandlersShape
      /\ \A d \in Calls \ {c} : command'[d] = command[d] /\ seen'[d] = seen[d]
  BY ReadAnswers DEF TypeInv, TypeOK
<1>2. \A d \in Calls : Wrote(d)' = Wrote(d)
  BY <1>1 DEF tables, Wrote, Exists
<1>3. WritesAlone(c) /\ UNCHANGED idempotency
  BY <1>1, <1>2 DEF WritesAlone, tables
<1>4. CASE UNCHANGED answer /\ \E step : pc' = [pc EXCEPT ![c] = step]
  <2>1. OthersSilent(c)
    BY <1>1, <1>4 DEF OthersSilent, HandlersShape
  <2>2. answer'[c].kind \notin {"ok", "replayed"}
    BY <1>1, <1>4 DEF AnswersInv, TruthOK
  <2> QED
    BY <1>1, <1>2, <1>3, <2>1, <2>2, SilentTrue
<1>5. CASE \E kind \in Refusals : Refuse(c, kind)
  <2>1. OthersSilent(c) /\ answer'[c].kind \in Refusals
    BY <1>1, <1>5 DEF OthersSilent, HandlersShape, Refuse, Respond
  <2>2. answer'[c].kind \notin {"ok", "replayed"}
    BY <2>1 DEF Refusals
  <2> QED
    BY <1>1, <1>2, <1>3, <2>1, <2>2, SilentTrue
<1>6. CASE UNCHANGED command /\ command[c].op = "read" /\ Respond(c, "ok", c)
  <2>1. OthersSilent(c) /\ pc'[c] = "done" /\ command'[c].op = "read"
    BY <1>1, <1>6 DEF OthersSilent, HandlersShape, Respond
  <2> QED
    BY <1>1, <1>2, <1>3, <2>1, SilentTrue
<1>7. CASE /\ pc[c] # "idle" /\ UNCHANGED <<command, seen>>
           /\ \E row \in LiveClaimed(c) :
                row.hash = Hash(c) /\ Respond(c, "replayed", row.by)
  BY <1>1, <1>7, ReplayTrue
<1> QED
  BY <1>4, <1>5, <1>6, <1>7, ReadAnswers

\* Deadlines and ageing rows.
LEMMA ClockTrue ==
  ASSUME TypeInv, AnswersInv,
         \/ \E r \in Calls : Deadline(r)
         \/ \E row \in idempotency : ExpireKey(row)
         \/ UNCHANGED vars
  PROVE  AnswersInv'
<1>1. UNCHANGED <<approvals, decisions, events, changes, pc, command, seen, answer>>
  BY DEF Deadline, ExpireKey, tables, handlers, vars
<1>2. \A d : /\ Wrote(d)' = Wrote(d) /\ Claim(d)' = Claim(d) /\ Hash(d)' = Hash(d)
  BY <1>1 DEF Wrote, Exists, Claim, Hash
<1>3. \A row \in idempotency' : \E old \in idempotency :
        row.by = old.by /\ row.claim = old.claim /\ row.hash = old.hash
  <2>1. CASE UNCHANGED idempotency
    BY <2>1
  <2>2. ASSUME NEW old \in idempotency, ExpireKey(old), NEW row \in idempotency'
        PROVE  \E other \in idempotency :
                 row.by = other.by /\ row.claim = other.claim /\ row.hash = other.hash
    BY <2>2 DEF ExpireKey, Aged
  <2>3. UNCHANGED idempotency \/ \E row \in idempotency : ExpireKey(row)
    BY DEF Deadline, tables, vars
  <2> QED
    BY <2>1, <2>2, <2>3
<1>4. \A row \in idempotency' : RowTrue(row)'
  BY <1>1, <1>2, <1>3 DEF AnswersInv, RowTrue
<1>5. ASSUME NEW c \in Calls PROVE WroteOK(c)' /\ TruthOK(c)'
  BY <1>1, <1>2 DEF AnswersInv, WroteOK, TruthOK
<1> QED
  BY <1>4, <1>5 DEF AnswersInv

LEMMA StepCases ==
  ASSUME NEW c \in Calls, Arrive(c) \/ Step(c)
  PROVE  \/ ReadStep(c) \/ Expire(c)
         \/ CommitCreate(c) \/ CommitDecide(c) \/ CommitCancel(c)
         \/ CommitUpsert(c) \/ CommitDirect(c)
BY DEF Step, ReadStep

LEMMA NextCases ==
  ASSUME [Next]_vars
  PROVE  \/ \E c \in Calls : Arrive(c) \/ Step(c)
         \/ \E r \in Calls : Deadline(r)
         \/ \E row \in idempotency : ExpireKey(row)
         \/ UNCHANGED vars
BY DEF Next, Quiet

\* A success, replayed or not, is the work of the call it names, under the same
\* claim and payload, and a refusal wrote nothing: a batch inserts the
\* idempotency row with its writes, and a batch that is stopped leaves nothing.
THEOREM AnswersTrue == Spec => []AnswersAreTrue
<1>1. Init => AnswersInv
  BY DEF Init, AnswersInv, WroteOK, Wrote, TruthOK, Exists, Unanswered, None
<1>2. TypeInv /\ AnswersInv /\ [Next]_vars => AnswersInv'
  BY NextCases, StepCases, ReadTrue, ExpireTrue, BatchTrue, ClockTrue
<1>3. AnswersInv => AnswersAreTrue
  BY AnswersFollow
<1> QED
  BY <1>1, <1>2, <1>3, TypeCorrect, PTL DEF Spec

----------------------------------------------------------------------------
(* Modules change exactly as often as they are approved to.                *)

ChangeRow == [module : Modules, enabled : BOOLEAN, version : Nat,
              request : Calls \cup {None}, by : Calls]

\* An approved request changed its module, once and to what it asked for.
Executed(r) ==
  \E x \in changes : /\ ChangesOf(r) = {x}
                     /\ x.module = approvals[r].module
                     /\ x.enabled = approvals[r].enabled

RequestExecuted(r) ==
  IF Exists(r) /\ approvals[r].status = "approved" THEN Executed(r) ELSE ChangesOf(r) = {}

ChangesAt(m, rows) == { x \in rows : x.module = m }

VersionCounts(m) == modules[m].version = 1 + Cardinality(ChangesAt(m, changes))

\* A change is of a call that has answered, so the change of a batch is new.
ExecutedInv ==
  /\ IsFiniteSet(changes)
  /\ \A x \in changes : pc[x.by] = "done"
  /\ \A r \in Calls : RequestExecuted(r)
  /\ \A m \in Modules : VersionCounts(m)

LEMMA ExecutedFollows == ExecutedInv => ExecutedOnceIffApproved
BY DEF ExecutedInv, ExecutedOnceIffApproved, RequestExecuted, Executed, VersionCounts, ChangesAt

LEMMA DoneStays ==
  ASSUME TypeInv, [Next]_vars, NEW d \in Calls, pc[d] = "done"
  PROVE  pc'[d] = "done"
<1>1. HandlersShape
  BY DEF TypeInv, TypeOK
<1>2. ASSUME NEW c \in Calls, Arrive(c) \/ Step(c) PROVE pc'[d] = "done"
  <2>1. CASE ReadStep(c)
    BY <1>1, <2>1, ReadAnswers DEF HandlersShape, Refuse, Respond
  <2>2. CASE Expire(c)
    BY <1>1, <2>2 DEF HandlersShape, Expire, AfterExpiry, Refuse, Respond
  <2>3. CASE \/ CommitCreate(c) \/ CommitDecide(c) \/ CommitCancel(c)
             \/ CommitUpsert(c) \/ CommitDirect(c)
    BY <1>1, <2>3 DEF HandlersShape, CommitCreate, CommitDecide, CommitCancel, CommitUpsert,
                      CommitDirect, Committed, Respond
  <2> QED
    BY <1>2, <2>1, <2>2, <2>3, StepCases
<1>3. CASE UNCHANGED pc
  BY <1>3
<1> QED
  BY <1>2, <1>3, NextCases DEF Deadline, ExpireKey, handlers, vars

\* Only a decision and a direct change touch modules and changes.
LEMMA ChangeWriters ==
  ASSUME TypeInv, [Next]_vars
  PROVE  \/ UNCHANGED <<modules, changes>>
         \/ \E c \in Calls : CommitDecide(c) \/ CommitDirect(c)
<1>1. ASSUME NEW c \in Calls, Arrive(c) \/ Step(c), ~CommitDecide(c), ~CommitDirect(c)
      PROVE  UNCHANGED <<modules, changes>>
  <2>1. CASE ReadStep(c)
    BY <2>1, ReadAnswers DEF tables
  <2>2. CASE Expire(c) \/ CommitCreate(c) \/ CommitCancel(c) \/ CommitUpsert(c)
    BY <2>2 DEF Expire, CommitCreate, CommitCancel, CommitUpsert
  <2> QED
    BY <1>1, <2>1, <2>2, StepCases
<1> QED
  BY <1>1, NextCases DEF Deadline, ExpireKey, tables, vars

LEMMA ChangesTyped ==
  ASSUME TypeInv
  PROVE  changes \subseteq ChangeRow /\ modules \in [Modules -> [enabled : BOOLEAN, version : Nat]]
BY DEF TypeInv, TypeOK, TablesShape, ChangeRow

\* A version counts its changes before and after one more.
LEMMA OneMore ==
  ASSUME TypeInv, ExecutedInv, NEW m \in Modules, NEW x \in ChangeRow, x.module = m,
         x \notin changes, changes' = changes \cup {x},
         NEW enabled \in BOOLEAN, modules' = [modules EXCEPT ![m] = Changed(m, enabled)]
  PROVE  IsFiniteSet(changes') /\ \A k \in Modules : VersionCounts(k)'
<1>1. IsFiniteSet(changes) /\ IsFiniteSet(changes')
  BY FS_AddElement DEF ExecutedInv
<1>2. ASSUME NEW k \in Modules PROVE VersionCounts(k)'
  <2>1. /\ IsFiniteSet(ChangesAt(k, changes)) /\ Cardinality(ChangesAt(k, changes)) \in Nat
    <3>1. ChangesAt(k, changes) \subseteq changes
      BY DEF ChangesAt
    <3> QED
      BY <1>1, <3>1, FS_Subset, FS_CardinalityType
  <2>2. modules[k].version = 1 + Cardinality(ChangesAt(k, changes))
    BY DEF ExecutedInv, VersionCounts
  <2>3. CASE k # m
    <3>1. ChangesAt(k, changes') = ChangesAt(k, changes) /\ modules'[k] = modules[k]
      BY <2>3, ChangesTyped DEF ChangesAt
    <3>2. ChangesAt(k, changes)' = ChangesAt(k, changes')
      BY DEF ChangesAt
    <3> QED
      BY <2>2, <3>1, <3>2 DEF VersionCounts
  <2>4. CASE k = m
    <3>1. ChangesAt(k, changes') = ChangesAt(k, changes) \cup {x} /\ x \notin ChangesAt(k, changes)
      BY <2>4 DEF ChangesAt
    <3>2. Cardinality(ChangesAt(k, changes')) = Cardinality(ChangesAt(k, changes)) + 1
      BY <2>1, <3>1, FS_AddElement
    <3>3. modules'[k].version = modules[k].version + 1
      BY <2>4, ChangesTyped DEF Changed
    <3>4. ChangesAt(k, changes)' = ChangesAt(k, changes')
      BY DEF ChangesAt
    <3> QED
      BY <2>1, <2>2, <3>2, <3>3, <3>4 DEF VersionCounts
  <2> QED
    BY <2>3, <2>4
<1> QED
  BY <1>1, <1>2

\* A request of which neither the row nor the changes move, as far as its
\* execution is concerned.
LEMMA ExecutionKept ==
  ASSUME NEW r \in Calls, RequestExecuted(r), UNCHANGED changes,
         Exists(r)' => /\ Exists(r)
                       /\ (approvals'[r].status = "approved") = (approvals[r].status = "approved")
                       /\ approvals'[r].module = approvals[r].module
                       /\ approvals'[r].enabled = approvals[r].enabled,
         Exists(r) => Exists(r)'
  PROVE  RequestExecuted(r)'
<1>1. ChangesOf(r)' = ChangesOf(r)
  BY DEF ChangesOf
<1>2. CASE Exists(r) /\ approvals[r].status = "approved"
  <2>1. PICK x \in changes : /\ ChangesOf(r) = {x} /\ x.module = approvals[r].module
                             /\ x.enabled = approvals[r].enabled
    BY <1>2 DEF RequestExecuted, Executed
  <2>2. Executed(r)'
    BY <1>1, <1>2, <2>1 DEF Executed
  <2> QED
    BY <1>2, <2>2 DEF RequestExecuted
<1>3. CASE ~(Exists(r) /\ approvals[r].status = "approved")
  BY <1>1, <1>3 DEF RequestExecuted
<1> QED
  BY <1>2, <1>3

LEMMA QuietExecutes ==
  ASSUME TypeInv, ExecutedInv, [Next]_vars, UNCHANGED <<modules, changes>>,
         \A r \in Calls : RequestExecuted(r)'
  PROVE  ExecutedInv'
<1>1. \A x \in changes : x.by \in Calls
  BY ChangesTyped DEF ChangeRow
<1>2. \A x \in changes' : pc'[x.by] = "done"
  BY <1>1, DoneStays DEF ExecutedInv
<1>3. \A m \in Modules : VersionCounts(m)'
  BY DEF ExecutedInv, VersionCounts, ChangesAt
<1> QED
  BY <1>2, <1>3 DEF ExecutedInv

\* Steps other than a decision and a direct change approve nothing.
LEMMA OtherExecutes ==
  ASSUME TypeInv, ExecutedInv, [Next]_vars, UNCHANGED <<modules, changes>>,
         \A c \in Calls : ~CommitDecide(c)
  PROVE  ExecutedInv'
<1>1. ASSUME NEW r \in Calls PROVE RequestExecuted(r)'
  <2>1. RequestExecuted(r)
    BY DEF ExecutedInv
  <2>2. CASE UNCHANGED approvals
    BY <2>1, <2>2, ExecutionKept DEF Exists
  <2>3. ASSUME NEW c \in Calls, Expire(c) \/ CommitCancel(c) PROVE RequestExecuted(r)'
    <3>1. approvals'[r] = approvals[r] \/ (Exists(r) /\ Pending(r) /\ StatusWritten(r))
      BY <2>3, ExpireWrites, CancelWrites
    <3>2. CASE approvals'[r] = approvals[r]
      BY <2>1, <3>2, ExecutionKept DEF Exists
    <3>3. CASE Exists(r) /\ Pending(r) /\ StatusWritten(r)
      BY <2>1, <3>3, StatusOnly, ExecutionKept DEF Pending
    <3> QED
      BY <3>1, <3>2, <3>3
  <2>4. ASSUME NEW c \in Calls, CommitCreate(c) PROVE RequestExecuted(r)'
    <3>1. /\ ~Exists(c) /\ approvals'[c] = NewRequest(c)
          /\ \A d \in Calls \ {c} : approvals'[d] = approvals[d]
      BY <2>4, CreateWrites
    <3>2. CASE r # c
      BY <2>1, <3>1, <3>2, ExecutionKept DEF Exists
    <3>3. CASE r = c
      <4>1. ChangesOf(r)' = {} /\ approvals'[r].status = "pending"
        BY <2>1, <3>1, <3>3 DEF RequestExecuted, ChangesOf, NewRequest
      <4> QED
        BY <4>1 DEF RequestExecuted
    <3> QED
      BY <3>2, <3>3
  <2> QED
    BY <2>2, <2>3, <2>4, Writers
<1> QED
  BY <1>1, QuietExecutes

LEMMA DirectExecutes ==
  ASSUME TypeInv, ExecutedInv, [Next]_vars, NEW c \in Calls, CommitDirect(c)
  PROVE  ExecutedInv'
<1> DEFINE m == command[c].module
           x == Change(m, command[c].enabled, seen[c].version + 1, None, c)
<1>1. /\ pc[c] = "batch" /\ command[c].op = "set" /\ HandlersShape
      /\ pc'[c] = "done" /\ UNCHANGED approvals
      /\ changes' = changes \cup {x}
      /\ modules' = [modules EXCEPT ![m] = Changed(m, command[c].enabled)]
  BY DEF CommitDirect, Committed, Respond, HandlersShape, TypeInv, TypeOK
<1>2. m \in Modules /\ command[c].enabled \in BOOLEAN /\ seen[c].version + 1 \in Nat
  BY <1>1, Arrived DEF WellFormed, Command, SeenSet
<1>3. x \in ChangeRow /\ x.module = m /\ x.by = c /\ x.request = None
  BY <1>2 DEF Change, ChangeRow
<1>4. x \notin changes
  BY <1>1, <1>3 DEF ExecutedInv
<1> HIDE DEF x
<1>5. IsFiniteSet(changes') /\ \A k \in Modules : VersionCounts(k)'
  BY <1>1, <1>2, <1>3, <1>4, OneMore
<1>6. \A y \in changes' : pc'[y.by] = "done"
  <2>1. \A y \in changes : y.by \in Calls
    BY ChangesTyped DEF ChangeRow
  <2> QED
    BY <1>1, <1>3, <2>1, DoneStays DEF ExecutedInv
<1>7. ASSUME NEW r \in Calls PROVE RequestExecuted(r)'
  <2>1. ChangesOf(r)' = ChangesOf(r)
    BY <1>1, <1>3, ApprovalAssumption DEF ChangesOf
  <2>2. RequestExecuted(r) /\ approvals'[r] = approvals[r] /\ Exists(r)' = Exists(r)
    BY <1>1 DEF ExecutedInv, Exists
  <2>3. Executed(r) => Executed(r)'
    BY <1>1, <2>1, <2>2 DEF Executed
  <2> QED
    BY <2>1, <2>2, <2>3 DEF RequestExecuted
<1> QED
  BY <1>5, <1>6, <1>7 DEF ExecutedInv

LEMMA DecideExecutes ==
  ASSUME TypeInv, ExecutedInv, [Next]_vars, NEW c \in Calls, CommitDecide(c),
         NEW r \in Calls, r = Target(c)
  PROVE  ExecutedInv'
<1> DEFINE done == command[c].decision = "approve" /\ Completes(r, At(c), StepAfter(c))
           m == approvals[r].module
           new == Changed(m, approvals[r].enabled)
           x == Change(m, new.enabled, new.version, r, c)
<1>1. /\ r \in Calls /\ Exists(r) /\ approvals'[r] = RequestAfter(c)
      /\ \A d \in Calls \ {r} : approvals'[d] = approvals[d]
      /\ RequestAfter(c).module = m /\ RequestAfter(c).enabled = approvals[r].enabled
      /\ RequestAfter(c).status = StatusAfter(c) /\ RequestAfter(c) # NoRequest
      /\ approvals[r] \in RequestRow
  BY DecisionRowsShape, DecideWrites, RequestAfterShape
<1>2. /\ modules' = IF done THEN [modules EXCEPT ![m] = new] ELSE modules
      /\ changes' = IF done THEN changes \cup {x} ELSE changes
  BY DEF CommitDecide, Target, StepAfter, At, Rows
<1>3. /\ pc[c] = "batch" /\ pc'[c] = "done"
  BY DEF CommitDecide, Committed, Respond, HandlersShape, TypeInv, TypeOK
<1>4. \A d \in Calls \ {r} : Exists(d)' = Exists(d)
  BY <1>1 DEF Exists
<1>5. Exists(r)'
  BY <1>1 DEF Exists
<1>6. CASE ~done
  <2>1. UNCHANGED <<modules, changes>>
    BY <1>2, <1>6
  <2>2. (RequestAfter(c).status = "approved") = (approvals[r].status = "approved")
    BY <1>1, <1>6 DEF StatusAfter, Rejects, Pending
  <2>3. RequestExecuted(r)'
    <3>1. RequestExecuted(r)
      BY <1>1 DEF ExecutedInv
    <3> HIDE DEF done, m
    <3> QED
      BY <1>1, <1>5, <2>1, <2>2, <3>1, ExecutionKept DEF m
  <2>4. ASSUME NEW d \in Calls, d # r PROVE RequestExecuted(d)'
    BY <1>1, <1>4, <2>1, <2>4, ExecutionKept DEF ExecutedInv
  <2>5. \A d \in Calls : RequestExecuted(d)'
    BY <2>3, <2>4
  <2> QED
    BY <2>1, <2>5, QuietExecutes
<1>7. CASE done
  <2>1. changes' = changes \cup {x} /\ modules' = [modules EXCEPT ![m] = new]
    BY <1>2, <1>7
  <2>2. m \in Modules /\ approvals[r].enabled \in BOOLEAN
    BY <1>1 DEF RequestRow
  <2>3. new.enabled = approvals[r].enabled /\ new.version \in Nat
    BY <2>2, ChangesTyped DEF Changed
  <2>4. /\ x \in ChangeRow /\ x.module = m /\ x.by = c /\ x.request = r
        /\ x.enabled = approvals[r].enabled
    <3> HIDE DEF m, new
    <3> QED
      BY <1>1, <2>2, <2>3 DEF Change, ChangeRow
  <2>5. x \notin changes
    BY <1>3, <2>4 DEF ExecutedInv
  <2>6. Pending(r) /\ StatusAfter(c) = "approved"
    BY <1>7 DEF Completes, StatusAfter
  <2>7. ChangesOf(r) = {}
    BY <1>1, <2>6 DEF ExecutedInv, RequestExecuted, Pending
  <2> HIDE DEF x, done
  <2>8. IsFiniteSet(changes') /\ \A k \in Modules : VersionCounts(k)'
    BY <2>1, <2>2, <2>4, <2>5, OneMore
  <2> HIDE DEF m, new
  <2>9. \A y \in changes' : pc'[y.by] = "done"
    <3>1. \A y \in changes : y.by \in Calls
      BY ChangesTyped DEF ChangeRow
    <3> QED
      BY <1>3, <2>1, <2>4, <3>1, DoneStays DEF ExecutedInv
  <2>10. RequestExecuted(r)'
    <3>1. PICK y \in ChangeRow : y = x
      BY <2>4
    <3>2. ChangesOf(r)' = {y} /\ y \in changes'
      BY <2>1, <2>4, <2>7, <3>1 DEF ChangesOf
    <3>3. /\ y.module = approvals'[r].module /\ y.enabled = approvals'[r].enabled
          /\ approvals'[r].status = "approved"
      BY <1>1, <2>4, <2>6, <3>1 DEF m
    <3> QED
      BY <1>5, <3>2, <3>3 DEF RequestExecuted, Executed
  <2>11. ASSUME NEW d \in Calls, d # r PROVE RequestExecuted(d)'
    <3>1. ChangesOf(d)' = ChangesOf(d)
      BY <2>1, <2>4, <2>11 DEF ChangesOf
    <3>2. RequestExecuted(d) /\ approvals'[d] = approvals[d] /\ Exists(d)' = Exists(d)
      BY <1>1, <1>4, <2>11 DEF ExecutedInv
    <3>3. Executed(d) => Executed(d)'
      BY <2>1, <3>1, <3>2 DEF Executed
    <3> QED
      BY <3>1, <3>2, <3>3 DEF RequestExecuted
  <2>12. \A d \in Calls : RequestExecuted(d)'
    BY <2>10, <2>11
  <2> QED
    BY <2>8, <2>9, <2>12 DEF ExecutedInv
<1> QED
  BY <1>6, <1>7

\* An approved request changed its module exactly once and to what it asked
\* for, another request not at all, and a module's version counts its changes,
\* direct ones included: decision and change are one batch, and the batch
\* changes the module only when it resolves the request.
THEOREM ExecutedOnce == Spec => []ExecutedOnceIffApproved
<1>1. Init => ExecutedInv
  <2> SUFFICES ASSUME Init PROVE ExecutedInv
    OBVIOUS
  <2>1. changes = {} /\ \A r \in Calls : ~Exists(r)
    BY DEF Init, Exists
  <2>2. \A m \in Modules : modules[m].version = 1
    BY DEF Init
  <2>3. \A m \in Modules : ChangesAt(m, changes) = {}
    BY <2>1 DEF ChangesAt
  <2> QED
    BY <2>1, <2>2, <2>3, FS_EmptySet DEF ExecutedInv, RequestExecuted, ChangesOf, VersionCounts
<1>2. TypeInv /\ ExecutedInv /\ [Next]_vars => ExecutedInv'
  <2> SUFFICES ASSUME TypeInv, ExecutedInv, [Next]_vars PROVE ExecutedInv'
    OBVIOUS
  <2>1. ASSUME NEW c \in Calls, CommitDecide(c) PROVE ExecutedInv'
    BY <2>1, DecideExecutes, DecisionRowsShape
  <2>2. CASE \E c \in Calls : CommitDirect(c)
    BY <2>2, DirectExecutes
  <2>3. CASE ~(\E c \in Calls : CommitDecide(c)) /\ ~(\E c \in Calls : CommitDirect(c))
    BY <2>3, ChangeWriters, OtherExecutes
  <2> QED
    BY <2>1, <2>2, <2>3
<1>3. ExecutedInv => ExecutedOnceIffApproved
  BY ExecutedFollows
<1> QED
  BY <1>1, <1>2, <1>3, TypeCorrect, PTL DEF Spec

----------------------------------------------------------------------------
(* The steps of a request are taken in order.                              *)

Deciding == BeforeBatch \cup {"step"}

\* A decision is about a step the request has reached, though it may since
\* have gone past it.
ReachedOK(c) ==
  (pc[c] \in Deciding /\ command[c].op = "decide") =>
    seen[c].step <= approvals[command[c].request].current

Untouched == [status |-> "pending", approved |-> 0]

\* StepsInOrder at one request.
InOrder(r) ==
  /\ \A n \in DOMAIN approvals[r].steps :
       n > approvals[r].current =>
         /\ approvals[r].progress[n] = Untouched
         /\ \A d \in decisions : ~(d.request = r /\ d.step = n)
  /\ approvals[r].status = "pending" =>
       approvals[r].progress[approvals[r].current].status = "pending"
  /\ approvals[r].status = "approved" => approvals[r].current = Len(approvals[r].steps)
  /\ approvals[r].status = "rejected" =>
       \E d \in decisions :
         d.request = r /\ d.step = approvals[r].current /\ d.decision = "reject"

OrderInv ==
  /\ FourEyesInv
  /\ \A r \in Calls : Exists(r) => InOrder(r)
  /\ \A c \in Calls : ReachedOK(c)

LEMMA PlaceShape ==
  ASSUME TypeInv, NEW r \in Calls, Exists(r)
  PROVE  /\ approvals[r] \in RequestRow /\ approvals[r].steps \in Policies
         /\ DOMAIN approvals[r].steps = 1 .. Len(approvals[r].steps)
         /\ Len(approvals[r].steps) \in Nat
         /\ approvals[r].current \in DOMAIN approvals[r].steps
         /\ approvals[r].current \in Nat /\ RequestOK(r)
<1>1. approvals[r] \in RequestRow /\ RequestOK(r)
  BY DEF TypeInv, TypeOK, TablesShape, Exists, RequestsOK
<1>2. approvals[r].steps \in Policies /\ approvals[r].current \in Nat
  BY <1>1 DEF RequestRow
<1> QED
  BY <1>1, <1>2, PolicyShape DEF RequestOK

LEMMA OrderFollows == OrderInv => StepsInOrder
<1> SUFFICES ASSUME OrderInv, NEW r \in Calls, Exists(r)
             PROVE  LET a == approvals[r]
                    IN  /\ a.current \in DOMAIN a.steps
                        /\ \A n \in 1 .. a.current - 1 : a.progress[n].status = "approved"
                        /\ \A n \in a.current + 1 .. Len(a.steps) :
                             /\ a.progress[n] = [status |-> "pending", approved |-> 0]
                             /\ \A d \in decisions : ~(d.request = r /\ d.step = n)
                        /\ a.status = "pending"  => a.progress[a.current].status = "pending"
                        /\ a.status = "approved" => /\ a.current = Len(a.steps)
                                                    /\ a.progress[a.current].status = "approved"
                        /\ a.status = "rejected" => \E d \in decisions :
                             d.request = r /\ d.step = a.current /\ d.decision = "reject"
  BY DEF StepsInOrder
<1>1. TypeInv /\ StepsBacked /\ InOrder(r)
  BY DEF OrderInv, FourEyesInv
<1>2. /\ DOMAIN approvals[r].steps = 1 .. Len(approvals[r].steps)
      /\ Len(approvals[r].steps) \in Nat
      /\ approvals[r].current \in DOMAIN approvals[r].steps
      /\ approvals[r].current \in Nat
  BY <1>1, PlaceShape
<1>3. \A n \in 1 .. approvals[r].current - 1 : approvals[r].progress[n].status = "approved"
  BY <1>1, <1>2 DEF StepsBacked
<1>4. \A n \in approvals[r].current + 1 .. Len(approvals[r].steps) :
        /\ approvals[r].progress[n] = [status |-> "pending", approved |-> 0]
        /\ \A d \in decisions : ~(d.request = r /\ d.step = n)
  BY <1>1, <1>2 DEF InOrder, Untouched
<1>5. approvals[r].status = "approved" =>
        approvals[r].progress[approvals[r].current].status = "approved"
  BY <1>1, <1>2 DEF StepsBacked
<1> QED
  BY <1>1, <1>2, <1>3, <1>4, <1>5 DEF InOrder

\* A request never goes back to an earlier step.
LEMMA CurrentGrows ==
  ASSUME TypeInv, [Next]_vars, NEW r \in Calls, Exists(r)
  PROVE  approvals[r].current \in Nat /\ approvals'[r].current \in Nat
         /\ approvals[r].current <= approvals'[r].current
<1>1. approvals[r].current \in Nat
  BY PlaceShape
<1>2. CASE UNCHANGED approvals
  BY <1>1, <1>2
<1>3. ASSUME NEW c \in Calls, Expire(c) \/ CommitCancel(c)
      PROVE  approvals'[r].current = approvals[r].current
  <2>1. approvals'[r] = approvals[r] \/ StatusWritten(r)
    BY <1>3, ExpireWrites, CancelWrites
  <2> QED
    BY <2>1, StatusOnly
<1>4. ASSUME NEW c \in Calls, CommitCreate(c)
      PROVE  approvals'[r].current = approvals[r].current
  BY <1>4, CreateWrites
<1>5. ASSUME NEW c \in Calls, CommitDecide(c)
      PROVE  approvals'[r].current \in Nat /\ approvals[r].current <= approvals'[r].current
  <2>1. /\ approvals'[Target(c)] = RequestAfter(c) /\ RequestAfter(c).current = CurrentAfter(c)
        /\ \A d \in Calls \ {Target(c)} : approvals'[d] = approvals[d]
    BY <1>5, DecideWrites, RequestAfterShape
  <2>2. CASE r # Target(c)
    BY <1>1, <2>1, <2>2
  <2>3. CASE r = Target(c)
    BY <1>1, <2>1, <2>3 DEF CurrentAfter, Advances
  <2> QED
    BY <2>2, <2>3
<1> QED
  BY <1>1, <1>2, <1>3, <1>4, <1>5, Writers

\* How a handler comes to decide: it loads the step the request is at, and
\* keeps it.
LEMMA DecidingKept ==
  ASSUME TypeInv, NEW c \in Calls, Arrive(c) \/ Step(c),
         pc'[c] \in Deciding, command'[c].op = "decide"
  PROVE  /\ pc[c] # "idle" /\ UNCHANGED command
         /\ \/ pc[c] \in Deciding /\ seen'[c].step = seen[c].step
            \/ /\ Exists(command[c].request) /\ UNCHANGED approvals
               /\ seen'[c].step = approvals[command[c].request].current
<1>1. HandlersShape
  BY DEF TypeInv, TypeOK
<1> USE DEF Deciding, BeforeBatch
<1>2. CASE Arrive(c)
  <2>1. PICK cmd \in Commands[c] : /\ command' = [command EXCEPT ![c] = cmd]
                                   /\ Goto(c, FirstStep(cmd.op)) \/ Refuse(c, "forbidden")
    BY <1>2 DEF Arrive
  <2>2. cmd.op = "decide"
    BY <1>1, <2>1 DEF HandlersShape
  <2>3. FirstStep(cmd.op) = "pending"
    BY <2>2 DEF FirstStep
  <2>4. pc'[c] \in {"pending", "done"}
    BY <1>1, <2>1, <2>3 DEF Goto, Refuse, Respond, HandlersShape
  <2> QED
    BY <2>4
<1>3. CASE ReadModule(c) \/ ReadPolicy(c)
  BY <1>1, <1>3 DEF ReadModule, ReadPolicy, ReadOnly, Goto, Refuse, Respond, HandlersShape
<1>4. CASE ReadPolicySteps(c)
  <2>1. command[c].op = "create"
    BY <1>4, Arrived DEF ReadPolicySteps, HandlerOK, RouteOK
  <2> QED
    BY <1>4, <2>1 DEF ReadPolicySteps, ReadOnly
<1>5. CASE RequireDirectAllowed(c)
  <2>1. command[c].op = "set"
    BY <1>5, Arrived DEF RequireDirectAllowed, HandlerOK, RouteOK
  <2> QED
    BY <1>5, <2>1 DEF RequireDirectAllowed, ReadOnly
<1>6. CASE LoadPending(c)
  <2>1. UNCHANGED <<approvals, command>> /\ pc[c] = "pending"
    BY <1>6 DEF LoadPending, ReadOnly, tables
  <2>2. Exists(command[c].request)
    BY <1>1, <1>6 DEF LoadPending, Refuse, Respond, HandlersShape
  <2>3. seen' = [seen EXCEPT ![c].step = approvals[command[c].request].current]
    BY <1>1, <1>6, <2>1 DEF LoadPending, Refuse, Respond, HandlersShape
  <2>4. seen'[c].step = approvals[command[c].request].current
    BY <1>1, <2>3 DEF HandlersShape, SeenSet
  <2> QED
    BY <2>1, <2>2, <2>4
<1>7. CASE ReadLate(c) \/ Expire(c)
  BY <1>1, <1>7 DEF ReadLate, Expire, AfterExpiry, ReadOnly, Goto, Refuse, Respond, HandlersShape
<1>8. CASE CheckStep(c)
  BY <1>8 DEF CheckStep, ReadOnly
<1>9. CASE ReadReplay(c) \/ CheckDuplicate(c)
  BY <1>9 DEF ReadReplay, CheckDuplicate, ReadOnly
<1>10. CASE \/ CommitCreate(c) \/ CommitDecide(c) \/ CommitCancel(c)
            \/ CommitUpsert(c) \/ CommitDirect(c)
  BY <1>1, <1>10 DEF CommitCreate, CommitDecide, CommitCancel, CommitUpsert, CommitDirect,
                     Committed, Respond, HandlersShape
<1>11. CASE Abort(c) \/ CatchAbort(c)
  BY <1>1, <1>11 DEF Abort, CatchAbort, Goto, Refuse, Respond, HandlersShape
<1> QED
  BY <1>2, <1>3, <1>4, <1>5, <1>6, <1>7, <1>8, <1>9, <1>10, <1>11 DEF Step

LEMMA OthersStill ==
  ASSUME TypeInv, NEW c \in Calls, Arrive(c) \/ Step(c), NEW d \in Calls, d # c
  PROVE  pc'[d] = pc[d] /\ command'[d] = command[d] /\ seen'[d] = seen[d]
<1>1. HandlersShape
  BY DEF TypeInv, TypeOK
<1>2. CASE ReadStep(c)
  BY <1>1, <1>2, ReadAnswers DEF HandlersShape, Refuse, Respond
<1>3. CASE Expire(c)
  BY <1>1, <1>3 DEF Expire, AfterExpiry, Refuse, Respond, HandlersShape
<1>4. CASE \/ CommitCreate(c) \/ CommitDecide(c) \/ CommitCancel(c)
           \/ CommitUpsert(c) \/ CommitDirect(c)
  BY <1>1, <1>4 DEF CommitCreate, CommitDecide, CommitCancel, CommitUpsert, CommitDirect,
                    Committed, Respond, HandlersShape
<1> QED
  BY <1>2, <1>3, <1>4, StepCases

LEMMA ReachedNext ==
  ASSUME OrderInv, [Next]_vars, NEW d \in Calls
  PROVE  ReachedOK(d)'
<1>1. TypeInv /\ ReachedOK(d) /\ HandlersShape
  BY DEF OrderInv, FourEyesInv, TypeInv, TypeOK
<1> SUFFICES ASSUME pc'[d] \in Deciding, command'[d].op = "decide"
             PROVE  seen'[d].step <= approvals'[command'[d].request].current
  BY DEF ReachedOK
<1>2. CASE pc[d] \in Deciding /\ command'[d] = command[d] /\ seen'[d].step = seen[d].step
  <2>1. /\ command[d].op = "decide" /\ pc[d] # "idle"
    BY <1>2 DEF Deciding, BeforeBatch
  <2>2. PICK r \in Calls : r = command[d].request
    BY <1>1, <2>1, Arrived DEF WellFormed
  <2>3. Exists(r) /\ seen[d].step \in Nat
    BY <1>1, <1>2, <2>1, <2>2, Arrived DEF HandlerOK, DeciderOK, Deciding, SeenSet
  <2>4. seen[d].step <= approvals[r].current
    BY <1>1, <1>2, <2>1, <2>2 DEF ReachedOK
  <2> QED
    BY <1>1, <1>2, <2>2, <2>3, <2>4, CurrentGrows
<1>3. CASE /\ command'[d] = command[d] /\ pc[d] # "idle" /\ UNCHANGED approvals
           /\ Exists(command[d].request)
           /\ seen'[d].step = approvals[command[d].request].current
  <2>1. command[d].request \in Calls
    BY <1>1, <1>3, Arrived DEF WellFormed
  <2> QED
    BY <1>1, <1>3, <2>1, PlaceShape
<1>4. ASSUME NEW c \in Calls, Arrive(c) \/ Step(c)
      PROVE  seen'[d].step <= approvals'[command'[d].request].current
  <2>1. CASE c = d
    BY <1>1, <1>2, <1>3, <1>4, <2>1, DecidingKept
  <2>2. CASE c # d
    BY <1>1, <1>2, <1>4, <2>2, OthersStill
  <2> QED
    BY <2>1, <2>2
<1>5. CASE UNCHANGED <<pc, command, seen>>
  BY <1>2, <1>5
<1> QED
  BY <1>4, <1>5, NextCases DEF Deadline, ExpireKey, handlers, vars

\* A request that keeps its steps, progress and place stays in order while
\* decisions are added elsewhere.
LEMMA OrderKept ==
  ASSUME NEW r \in Calls, InOrder(r), decisions \subseteq decisions',
         \A d \in decisions' \ decisions : d.request # r,
         approvals'[r].steps = approvals[r].steps,
         approvals'[r].progress = approvals[r].progress,
         approvals'[r].current = approvals[r].current,
         approvals'[r].status \in {approvals[r].status, "cancelled", "expired"}
  PROVE  InOrder(r)'
<1>1. \A d \in decisions' : d.request = r => d \in decisions
  OBVIOUS
<1>2. ASSUME NEW n \in DOMAIN approvals'[r].steps, n > approvals'[r].current
      PROVE  /\ approvals'[r].progress[n] = Untouched
             /\ \A d \in decisions' : ~(d.request = r /\ d.step = n)
  BY <1>1, <1>2 DEF InOrder
<1> QED
  BY <1>2 DEF InOrder

\* What one decision does to the order of its request.
LEMMA DecidedInOrder ==
  ASSUME OrderInv, NEW c \in Calls, CommitDecide(c), NEW r \in Calls, r = Target(c)
  PROVE  InOrder(r)'
<1> DEFINE old == approvals[r]
           new == RequestAfter(c)
           n   == At(c)
<1>1. TypeInv /\ StepsBacked
  BY DEF OrderInv, FourEyesInv
<1>2. /\ Exists(r) /\ n \in DOMAIN old.steps /\ decisions' = Rows(c)
      /\ command[c].decision \in Decisions
      /\ approvals'[r] = new /\ new.steps = old.steps
      /\ new.progress = [old.progress EXCEPT ![n] = StepAfter(c)]
      /\ new.current = CurrentAfter(c) /\ new.status = StatusAfter(c)
  BY <1>1, DecisionRowsShape, DecideWrites, RequestAfterShape
<1>3. /\ DOMAIN old.steps = 1 .. Len(old.steps) /\ Len(old.steps) \in Nat
      /\ old.current \in DOMAIN old.steps /\ old.current \in Nat
      /\ DOMAIN old.progress = DOMAIN old.steps
  BY <1>1, <1>2, PlaceShape DEF RequestOK
<1>4. n \in Nat /\ n <= old.current
  <2>1. pc[c] \in Deciding /\ command[c].op = "decide"
    BY DEF CommitDecide, Committed, Deciding, BeforeBatch
  <2>2. ReachedOK(c)
    BY DEF OrderInv
  <2> QED
    BY <1>2, <1>3, <2>1, <2>2 DEF ReachedOK, Target, At
<1>5. \A k \in DOMAIN old.steps :
        new.progress[k] = IF k = n THEN StepAfter(c) ELSE old.progress[k]
  BY <1>2, <1>3
<1>6. /\ Rows(c) = decisions \cup {Decision(c)}
      /\ Decision(c).request = r /\ Decision(c).step = n
      /\ Decision(c).decision = command[c].decision
  BY DEF Rows, Decision, Target, At
<1>7. InOrder(r) /\ (n < old.current => old.progress[n].status = "approved")
  BY <1>1, <1>2, <1>3 DEF OrderInv, StepsBacked
<1>8. /\ CurrentAfter(c) \in Nat /\ old.current <= CurrentAfter(c)
      /\ CurrentAfter(c) # old.current =>
           /\ CurrentAfter(c) = n + 1 /\ n = old.current /\ old.status = "pending"
           /\ n < Len(old.steps) /\ command[c].decision = "approve"
  BY <1>3, <1>4 DEF CurrentAfter, Advances, Pending
<1>9. ASSUME NEW k \in DOMAIN old.steps, k > CurrentAfter(c)
      PROVE  /\ new.progress[k] = Untouched
             /\ \A d \in Rows(c) : ~(d.request = r /\ d.step = k)
  <2>1. k > old.current /\ k # n
    BY <1>3, <1>4, <1>8, <1>9
  <2> QED
    BY <1>5, <1>6, <1>7, <1>9, <2>1 DEF InOrder
<1>10. StatusAfter(c) = "pending" => new.progress[CurrentAfter(c)].status = "pending"
  <2> SUFFICES ASSUME StatusAfter(c) = "pending"
               PROVE  new.progress[CurrentAfter(c)].status = "pending"
    OBVIOUS
  <2>1. /\ old.status = "pending" /\ ~Rejects(r, n, command[c].decision)
        /\ ~(command[c].decision = "approve" /\ Completes(r, n, StepAfter(c)))
    BY DEF StatusAfter
  <2>2. old.progress[old.current].status = "pending"
    BY <1>7, <2>1 DEF InOrder
  <2>3. CASE CurrentAfter(c) # old.current
    <3>1. CurrentAfter(c) \in DOMAIN old.steps /\ CurrentAfter(c) > old.current
          /\ CurrentAfter(c) # n
      BY <1>3, <1>4, <1>8, <2>3
    <3> QED
      BY <1>5, <1>7, <3>1 DEF InOrder, Untouched
  <2>4. CASE CurrentAfter(c) = old.current /\ n # old.current
    BY <1>3, <1>5, <2>2, <2>4
  <2>5. CASE CurrentAfter(c) = old.current /\ n = old.current
    <3>1. command[c].decision = "approve"
      BY <1>2, <2>1, <2>5 DEF Rejects, Pending, Decisions
    <3>2. StepAfter(c).status # "approved"
      <4>1. CASE n = Len(old.steps)
        BY <2>1, <2>5, <3>1, <4>1 DEF Completes, Pending
      <4>2. CASE n < Len(old.steps)
        BY <1>3, <2>1, <2>5, <3>1, <4>2 DEF CurrentAfter, Advances, Pending
      <4> QED
        BY <1>2, <1>3, <1>4, <4>1, <4>2
    <3>3. StepAfter(c).status = "pending"
      BY <2>2, <2>5, <3>1, <3>2 DEF StepAfter, DecidedStep
    <3> QED
      BY <1>2, <1>5, <2>5, <3>3
  <2> QED
    BY <2>3, <2>4, <2>5
<1>11. StatusAfter(c) = "approved" => CurrentAfter(c) = Len(old.steps)
  <2> SUFFICES ASSUME StatusAfter(c) = "approved"
               PROVE  CurrentAfter(c) = Len(old.steps)
    OBVIOUS
  <2>1. CASE old.status = "approved"
    BY <1>7, <1>8, <2>1 DEF InOrder
  <2>2. CASE old.status # "approved"
    <3>1. Completes(r, n, StepAfter(c))
      BY <2>2 DEF StatusAfter
    <3>2. old.current = n /\ n = Len(old.steps)
      BY <3>1 DEF Completes
    <3> QED
      BY <1>3, <1>8, <3>2
  <2> QED
    BY <2>1, <2>2
<1>12. StatusAfter(c) = "rejected" =>
         \E d \in Rows(c) : /\ d.request = r /\ d.step = CurrentAfter(c)
                            /\ d.decision = "reject"
  <2> SUFFICES ASSUME StatusAfter(c) = "rejected"
               PROVE  \E d \in Rows(c) : /\ d.request = r /\ d.step = CurrentAfter(c)
                                         /\ d.decision = "reject"
    OBVIOUS
  <2>1. CASE old.status = "rejected"
    BY <1>6, <1>7, <1>8, <2>1 DEF InOrder
  <2>2. CASE old.status # "rejected"
    <3>1. command[c].decision = "reject" /\ old.current = n
      BY <2>2 DEF StatusAfter, Rejects
    <3>2. CurrentAfter(c) = n
      BY <3>1 DEF CurrentAfter
    <3> QED
      BY <1>6, <3>1, <3>2
  <2> QED
    BY <2>1, <2>2
<1> HIDE DEF old, new, n
<1> QED
  BY <1>2, <1>9, <1>10, <1>11, <1>12 DEF InOrder, old, new

LEMMA OrderNext ==
  ASSUME OrderInv, [Next]_vars
  PROVE  OrderInv'
<1>1. TypeInv /\ FourEyesInv /\ FourEyesInv'
  BY FourEyesNext DEF OrderInv, FourEyesInv
<1>2. \A c \in Calls : ReachedOK(c)'
  BY ReachedNext
<1>3. ASSUME NEW r \in Calls, Exists(r)' PROVE InOrder(r)'
  <2>1. Exists(r) => InOrder(r)
    BY DEF OrderInv
  <2>2. CASE UNCHANGED <<approvals, decisions>>
    BY <1>3, <2>1, <2>2 DEF InOrder, Exists
  <2>3. ASSUME NEW c \in Calls, Expire(c) \/ CommitCancel(c) PROVE InOrder(r)'
    <3>1. UNCHANGED decisions
          /\ (approvals'[r] = approvals[r] \/ (Exists(r) /\ Pending(r) /\ StatusWritten(r)))
      BY <1>1, <2>3, ExpireWrites, CancelWrites
    <3>2. CASE approvals'[r] = approvals[r]
      BY <1>3, <2>1, <3>1, <3>2 DEF InOrder, Exists
    <3>3. CASE Exists(r) /\ StatusWritten(r)
      BY <1>1, <2>1, <3>1, <3>3, StatusOnly, OrderKept
    <3> QED
      BY <3>1, <3>2, <3>3
  <2>4. ASSUME NEW c \in Calls, CommitCreate(c) PROVE InOrder(r)'
    <3>1. /\ ~Exists(c) /\ approvals'[c] = NewRequest(c)
          /\ \A d \in Calls \ {c} : approvals'[d] = approvals[d]
          /\ UNCHANGED decisions
      BY <1>1, <2>4, CreateWrites
    <3>2. CASE r # c
      BY <1>3, <2>1, <3>1, <3>2 DEF InOrder, Exists
    <3>3. CASE r = c
      <4>1. /\ approvals'[r].steps = seen[c].steps /\ approvals'[r].current = 1
            /\ approvals'[r].status = "pending"
            /\ approvals'[r].progress = [k \in DOMAIN seen[c].steps |-> Untouched]
        BY <3>1, <3>3 DEF NewRequest, Untouched
      <4>2. seen[c].steps \in Policies
        BY <1>1, <2>4, Arrived DEF CommitCreate, Committed, HandlerOK, BeforeBatch
      <4>3. 1 \in DOMAIN seen[c].steps
        BY <4>2, PolicyShape
      <4>4. \A d \in decisions' : d.request # r
        BY <1>1, <3>1, <3>3 DEF FourEyesInv, DecisionsOK
      <4> QED
        BY <4>1, <4>3, <4>4 DEF InOrder, Untouched
    <3> QED
      BY <3>2, <3>3
  <2>5. ASSUME NEW c \in Calls, CommitDecide(c) PROVE InOrder(r)'
    <3>1. CASE r = Target(c)
      BY <2>5, <3>1, DecidedInOrder
    <3>2. CASE r # Target(c)
      <4>1. /\ approvals'[r] = approvals[r] /\ decisions' = decisions \cup {Decision(c)}
            /\ Decision(c).request # r
        BY <1>1, <2>5, <3>2, DecideWrites DEF Rows, Decision, Target
      <4>2. InOrder(r)
        BY <1>3, <2>1, <4>1 DEF Exists
      <4> QED
        BY <4>1, <4>2, OrderKept
    <3> QED
      BY <3>1, <3>2
  <2> QED
    BY <2>2, <2>3, <2>4, <2>5, Writers
<1> QED
  BY <1>1, <1>2, <1>3 DEF OrderInv

\* The steps of a request are taken in order, whatever decisions race: those
\* before the current one are approved, those after it have no decision, and
\* while the request waits so does its current step.
THEOREM OrderHolds == Spec => []StepsInOrder
<1>1. Init => OrderInv
  <2>1. Init => DecisionsOK /\ StepsBacked /\ \A r \in Calls : ~Exists(r)
    BY DEF Init, DecisionsOK, StepsBacked, Exists
  <2>2. Init => \A c \in Calls : ReachedOK(c)
    BY DEF Init, ReachedOK, Deciding, BeforeBatch
  <2> QED
    BY <2>1, <2>2, InitTypeInv DEF OrderInv, FourEyesInv
<1>2. OrderInv /\ [Next]_vars => OrderInv'
  BY OrderNext
<1>3. OrderInv => StepsInOrder
  BY OrderFollows
<1> QED
  BY <1>1, <1>2, <1>3, PTL DEF Spec
=============================================================================
