---------------------------- MODULE WebWorkspace ----------------------------
(***************************************************************************)
(* The whole web client: the application state and, inside the gate that   *)
(* only an open workspace passes (apps/web/src/main.tsx), the commercial   *)
(* state of apps/web/src/state/CommercialProvider.tsx with the CRM and     *)
(* sales read models.  The commercial provider lives as long as the        *)
(* workspace is open; what it left in flight when it is unmounted has no   *)
(* effect any more.                                                        *)
(***************************************************************************)
EXTENDS WebApplication

VARIABLES
  board,            \* crm and sales, which are set and cleared together
  boardGeneration,  \* generation.current
  boardLoads,
  boardFlags,       \* which of loading and refreshing are true
  boardCommand      \* busyAction, with the closure of the command

boardVars == <<board, boardGeneration, boardLoads, boardFlags, boardCommand>>
vars == <<appVars, boardVars>>

NoBoard == [who |-> NoOne, tenant |-> NoTenant]

BoardIdle == [phase |-> "idle", who |-> NoOne, tenant |-> NoTenant]

BoardInit ==
  /\ board = NoBoard
  /\ boardGeneration = 0
  /\ boardLoads = {}
  /\ boardFlags = {}
  /\ boardCommand = BoardIdle

\* loadCommercialData until its two requests are sent.
StartBoardLoad(who, tenant, flag, forCommand) ==
  /\ boardGeneration' = boardGeneration + 1
  /\ boardLoads' = boardLoads \cup
       {[generation |-> boardGeneration + 1, who |-> who, tenant |-> tenant,
         forCommand |-> forCommand]}
  /\ boardFlags' = boardFlags \cup {flag}

----------------------------------------------------------------------------
(* How the commercial state follows the application state.                 *)

Open == status = "ready"

\* Mutant: the provider forgets what it shows, but its loads go on.
Unmount_LoadsGoOn ==
  /\ ~Open'
  /\ board' = NoBoard
  /\ boardFlags' = {}
  /\ boardCommand' = BoardIdle
  /\ UNCHANGED <<boardGeneration, boardLoads>>

\* The gate closes: the provider is unmounted, with its generation counter.
Unmount ==
  /\ ~Open'
  /\ board' = NoBoard
  /\ boardGeneration' = 0
  /\ boardLoads' = {}
  /\ boardFlags' = {}
  /\ boardCommand' = BoardIdle

dependencies == <<Open, tenantId, shown, authentication>>

\* The effect on a change of status, tenant, session or client.
Effect ==
  /\ dependencies' # dependencies
  /\ IF ~Open' \/ tenantId' = NoTenant \/ authentication' = NoOne
       THEN /\ boardGeneration' = boardGeneration + 1
            /\ board' = NoBoard
            /\ boardFlags' = boardFlags \ {"loading"}
            /\ UNCHANGED boardLoads
       ELSE /\ StartBoardLoad(authentication', tenantId', "loading", FALSE)
            /\ UNCHANGED board
  /\ UNCHANGED boardCommand

NoEffect == dependencies' = dependencies /\ UNCHANGED boardVars

\* Mutant: the provider is mounted around the gate, and lives on behind it.
Follow_AroundTheGate == Effect \/ NoEffect

Follow == Unmount \/ (Open' /\ (Effect \/ NoEffect))

----------------------------------------------------------------------------
(* The commercial provider's own operations.                               *)

Usable == Open /\ authentication # NoOne /\ tenantId # NoTenant

RefreshBoard ==
  /\ Click
  /\ Usable /\ "refreshing" \notin boardFlags
  /\ StartBoardLoad(authentication, tenantId, "refreshing", FALSE)
  /\ UNCHANGED <<server, screen, work, board, boardCommand>>

SubmitToBoard ==
  /\ Click
  /\ Usable /\ boardCommand = BoardIdle
  /\ boardCommand' = [phase |-> "sent", who |-> authentication, tenant |-> tenantId]
  /\ UNCHANGED <<server, screen, work, board, boardGeneration, boardLoads, boardFlags>>

BoardCommandSucceeds ==
  /\ boardCommand.phase = "sent"
  /\ boardCommand' = [boardCommand EXCEPT !.phase = "reload"]
  /\ StartBoardLoad(boardCommand.who, boardCommand.tenant, "refreshing", TRUE)
  /\ UNCHANGED <<appVars, board>>

BoardCommandFails ==
  /\ boardCommand.phase = "sent"
  /\ boardCommand' = BoardIdle
  /\ UNCHANGED <<appVars, board, boardGeneration, boardLoads, boardFlags>>

\* Both answers are there, or one of the requests failed: a load that is still
\* current shows what it got, and lowers both flags in either case.
SettleBoardLoad(l) ==
  /\ boardLoads' = boardLoads \ {l}
  /\ IF l.generation = boardGeneration
       THEN /\ board' \in {board, [who |-> l.who, tenant |-> l.tenant]}
            /\ boardFlags' = {}
       ELSE UNCHANGED <<board, boardFlags>>
  /\ boardCommand' = IF l.forCommand THEN BoardIdle ELSE boardCommand
  /\ UNCHANGED <<appVars, boardGeneration>>

----------------------------------------------------------------------------
(* The client as a whole.                                                  *)

WebInit == Init /\ BoardInit

AppActs == (UserActs \/ ApiActs) /\ Follow

BoardActs ==
  \/ RefreshBoard \/ SubmitToBoard
  \/ BoardCommandSucceeds \/ BoardCommandFails
  \/ \E l \in boardLoads : SettleBoardLoad(l)

\* No request is in flight, and the user may leave it at that.
Quiet ==
  /\ loads = {} /\ boardLoads = {}
  /\ command.phase \notin {"sent", "committed"} /\ boardCommand.phase # "sent"
  /\ UNCHANGED vars

Next == AppActs \/ BoardActs \/ Quiet

\* Bound: no more generations than clicks and the reloads of their commands.
Generations == 1 .. 2 * MaxClicks + 1

\* fetch settles: the browser gives every request a result or an error, so every
\* load and every command in flight goes on.  What the user clicks is up to the
\* user, and the API may or may not commit.
Fairness ==
  /\ \A g \in Generations :
       WF_vars(\E l \in loads : l.generation = g /\ Answer(l) /\ Follow)
  /\ WF_vars((CommandSucceeds \/ CommandFails) /\ Follow)
  /\ \A g \in Generations :
       WF_vars(\E l \in boardLoads : l.generation = g /\ SettleBoardLoad(l))
  /\ WF_vars(BoardCommandSucceeds \/ BoardCommandFails)

Spec == WebInit /\ [][Next]_vars /\ Fairness

----------------------------------------------------------------------------
(* Properties of the composition.                                          *)

\* The state of both providers is well-formed.
TypeInv ==
  /\ ApplicationTypeInv
  /\ board \in [who : Identities, tenant : Tenants] \cup {NoBoard}
  /\ boardGeneration \in Nat
  /\ \A l \in boardLoads : l.generation <= boardGeneration
  /\ boardFlags \subseteq {"loading", "refreshing"}
  /\ boardLoads # {} => Open
  /\ boardCommand.phase = "reload" <=> \E l \in boardLoads : l.forCommand

\* However clicks, commands and answers interleave, the CRM and sales boards on
\* the screen are those of who is signed in and of the tenant that is chosen,
\* even when a command outlives the selection it was given under.
BoardFollowsSelection ==
  board # NoBoard => board = [who |-> authentication, tenant |-> tenantId]
============================================================================
