--------------------------- MODULE WebApplication ---------------------------
(***************************************************************************)
(* The application state of the web client                                 *)
(* (apps/web/src/state/ApplicationProvider.tsx), one browser tab against   *)
(* the API: who is signed in, which tenant is chosen, and the tenant's     *)
(* read models on the screen.                                              *)
(*                                                                         *)
(* JavaScript runs one callback at a time, so a step is one click or one   *)
(* answer of the API with everything the program does until it waits       *)
(* again.  Any number of loads may be waiting together, and their answers  *)
(* come in any order; each load carries the generation it was started in,  *)
(* and the identity and tenant of the render that started it.              *)
(***************************************************************************)
EXTENDS Naturals, FiniteSets

CONSTANTS
  Identities,      \* who may sign in
  NoOne,           \* authentication is null
  Tenants,
  NoTenant,        \* tenantId is null
  InitialMembers,  \* the tenants each identity is a member of at the beginning
  MaxClicks        \* bound: what the user does, in clicks

ASSUME WebAssumption ==
  /\ NoOne \notin Identities
  /\ NoTenant \notin Tenants
  /\ InitialMembers \in [Identities -> SUBSET Tenants]
  /\ MaxClicks \in Nat

VARIABLES
  member,          \* control database: the active memberships of each identity
  version,         \* tenant databases: how many of the tab's commands committed
  authentication, status, tenants, tenantId,
  shown,           \* session and data, which are set and cleared together
  error,           \* error is not null
  stored,          \* local storage: the preferred tenant
  generation,      \* loadGeneration.current
  loads,           \* the loads that wait for an answer
  refreshing,
  command,         \* busyAction, with the closure of the command in flight
  acknowledged,    \* the newest version of each tenant whose success was reported
  clicks

server == <<member, version>>
screen == <<authentication, status, tenants, tenantId, shown, error, stored>>
work   == <<generation, loads, refreshing, command, acknowledged>>
appVars == <<member, version, authentication, status, tenants, tenantId, shown,
             error, stored, generation, loads, refreshing, command,
             acknowledged, clicks>>

Statuses == {"authentication-required", "loading", "tenant-required", "ready",
             "error"}

\* What started a load.  The last two are the reloads that follow a command.
Causes == {"initialize", "select", "refresh", "command", "onboarding"}

\* What a request may come to instead of its result: a 401, or any other
\* problem response, timeout or network failure.
Failures == {"unauthorized", "failed"}

Nothing == [who |-> NoOne, tenant |-> NoTenant, asOf |-> 0, generation |-> 0,
            cause |-> "initialize"]

Idle == [phase |-> "idle", who |-> NoOne, tenant |-> NoTenant, version |-> 0]

\* A load waits for the tenant options, for the session, or for the read models.
Load(g, cause, who, tenant, phase) ==
  [generation |-> g, cause |-> cause, who |-> who, tenant |-> tenant,
   phase |-> phase, asOf |-> 0]

----------------------------------------------------------------------------
(* Starting a load makes it the only current one.                          *)

StartLoad(cause, who, tenant, phase) ==
  /\ generation' = generation + 1
  /\ loads' = loads \cup {Load(generation + 1, cause, who, tenant, phase)}

\* initialize: the first thing asked is which tenants there are.
Initialize(cause, who) ==
  /\ StartLoad(cause, who, NoTenant, "options")
  /\ status' = "loading"
  /\ error' = FALSE

\* The effect that follows a change of authentication to nobody.
ClearScreen ==
  /\ status' = "authentication-required"
  /\ tenants' = {}
  /\ tenantId' = NoTenant
  /\ shown' = Nothing

Init ==
  /\ member = InitialMembers
  /\ version = [t \in Tenants |-> 0]
  /\ authentication \in Identities \cup {NoOne}
  /\ tenants = {} /\ tenantId = NoTenant /\ shown = Nothing /\ error = FALSE
  /\ stored \in Tenants \cup {NoTenant}
  /\ refreshing = FALSE /\ command = Idle
  /\ acknowledged = [t \in Tenants |-> 0]
  /\ clicks = 0
  /\ IF authentication = NoOne
       THEN /\ status = "authentication-required"
            /\ generation = 0 /\ loads = {}
       ELSE /\ status = "loading"
            /\ generation = 1
            /\ loads = {Load(1, "initialize", authentication, NoTenant, "options")}

----------------------------------------------------------------------------
(* What the user does.  The gate decides what there is to click.           *)

Click == clicks < MaxClicks /\ clicks' = clicks + 1

\* authenticateDevelopment, authenticateOidc, and the effect they cause.
Authenticate(who) ==
  /\ Click
  /\ status = "authentication-required"
  /\ authentication' = who
  /\ Initialize("initialize", who)
  /\ UNCHANGED <<server, tenants, tenantId, shown, stored, refreshing, command,
                 acknowledged>>

\* Mutant: signing out leaves the loads in flight current.
SignOut_LoadsGoOn ==
  /\ Click
  /\ status \in {"ready", "error", "tenant-required"}
  /\ generation' = generation
  /\ stored' = NoTenant
  /\ authentication' = NoOne
  /\ IF authentication = NoOne THEN UNCHANGED <<status, tenants, tenantId, shown>>
                               ELSE ClearScreen
  /\ UNCHANGED <<server, error, loads, refreshing, command, acknowledged>>

\* When nobody is signed in, authentication does not change and no effect runs.
SignOut ==
  /\ Click
  /\ status \in {"ready", "error", "tenant-required"}
  /\ generation' = generation + 1
  /\ stored' = NoTenant
  /\ authentication' = NoOne
  /\ IF authentication = NoOne THEN UNCHANGED <<status, tenants, tenantId, shown>>
                               ELSE ClearScreen
  /\ UNCHANGED <<server, error, loads, refreshing, command, acknowledged>>

Retry ==
  /\ Click
  /\ status = "error"
  /\ IF authentication = NoOne
       THEN /\ status' = "authentication-required"
            /\ UNCHANGED <<error, generation, loads>>
       ELSE Initialize("initialize", authentication)
  /\ UNCHANGED <<server, authentication, tenants, tenantId, shown, stored,
                 refreshing, command, acknowledged>>

SelectTenant(t) ==
  /\ Click
  /\ status = "ready" /\ authentication # NoOne
  /\ t \in tenants \ {tenantId}
  /\ StartLoad("select", authentication, t, "session")
  /\ status' = "loading"
  /\ error' = FALSE
  /\ stored' = t
  /\ tenantId' = t
  /\ UNCHANGED <<server, authentication, tenants, shown, refreshing, command,
                 acknowledged>>

\* refreshAll from a button.
Refresh ==
  /\ Click
  /\ status = "ready" /\ authentication # NoOne /\ tenantId # NoTenant
  /\ ~refreshing
  /\ StartLoad("refresh", authentication, tenantId, "session")
  /\ refreshing' = TRUE
  /\ UNCHANGED <<server, screen, command, acknowledged>>

\* runMutation: the command keeps the client and the tenant of this render.
Submit ==
  /\ Click
  /\ status = "ready" /\ authentication # NoOne /\ tenantId # NoTenant
  /\ command = Idle
  /\ command' = [phase |-> "sent", who |-> authentication, tenant |-> tenantId,
                 version |-> 0]
  /\ UNCHANGED <<server, screen, generation, loads, refreshing, acknowledged>>

\* onboardTenant and bootstrapDevelopment, from the onboarding gate.
Onboard ==
  /\ Click
  /\ status = "tenant-required" /\ authentication # NoOne
  /\ command = Idle
  /\ command' = [phase |-> "sent", who |-> authentication, tenant |-> NoTenant,
                 version |-> 0]
  /\ UNCHANGED <<server, screen, generation, loads, refreshing, acknowledged>>

UserActs ==
  \/ \E who \in Identities : Authenticate(who)
  \/ SignOut \/ Retry \/ Refresh \/ Submit \/ Onboard
  \/ \E t \in Tenants : SelectTenant(t)

----------------------------------------------------------------------------
(* What the API answers.                                                   *)

Current(l) == l.generation = generation

\* Mutant: a command ends only with a reload that is still current.
EndLoad_OnlyCurrent(l) ==
  /\ loads' = loads \ {l}
  /\ command' = IF l.cause \in {"command", "onboarding"} /\ Current(l)
                  THEN Idle ELSE command
  /\ refreshing' = IF l.cause \in {"refresh", "command"} THEN FALSE ELSE refreshing

\* A load is over.  The one a command waits for ends the command; refreshAll
\* ends with refreshing = FALSE whether or not its load is still current.
EndLoad(l) ==
  /\ loads' = loads \ {l}
  /\ command' = IF l.cause \in {"command", "onboarding"} THEN Idle ELSE command
  /\ refreshing' = IF l.cause \in {"refresh", "command"} THEN FALSE ELSE refreshing

\* The preferred tenant if it is still among the options, or else the first.
MaySelect(t, options) ==
  t \in options /\ (stored \in options => t = stored)

AnswerOptions(l) ==
  /\ l.phase = "options" /\ Current(l)
  /\ tenants' = member[l.who]
  /\ \/ /\ tenants' = {}
        /\ tenantId' = NoTenant
        /\ shown' = Nothing
        /\ status' = "tenant-required"
        /\ EndLoad(l)
        /\ UNCHANGED stored
     \/ \E t \in Tenants :
          /\ MaySelect(t, tenants')
          /\ stored' = t
          /\ tenantId' = t
          /\ loads' = (loads \ {l}) \cup {[l EXCEPT !.tenant = t, !.phase = "session"]}
          /\ UNCHANGED <<status, shown, refreshing, command>>
  /\ UNCHANGED <<server, authentication, error, generation, acknowledged, clicks>>

\* The session tells which read models to ask for.  They are asked for in
\* parallel, so each is at least as new as the moment the session arrives.
AnswerSession(l) ==
  /\ l.phase = "session"
  /\ loads' = (loads \ {l})
       \cup {[l EXCEPT !.phase = "reads", !.asOf = version[l.tenant]]}
  /\ UNCHANGED <<server, screen, generation, refreshing, command, acknowledged,
                 clicks>>

\* Mutant: loadTenantData shows what arrives, whatever was started since.
AnswerReads_AnyGeneration(l) ==
  /\ l.phase = "reads"
  /\ shown' = [who |-> l.who, tenant |-> l.tenant, asOf |-> l.asOf,
               generation |-> l.generation, cause |-> l.cause]
  /\ error' = FALSE
  /\ status' = "ready"
  /\ EndLoad(l)
  /\ UNCHANGED <<server, authentication, tenants, tenantId, stored, generation,
                 acknowledged, clicks>>

\* All read models are there: they are shown, and the workspace opens.
AnswerReads(l) ==
  /\ l.phase = "reads" /\ Current(l)
  /\ shown' = [who |-> l.who, tenant |-> l.tenant, asOf |-> l.asOf,
               generation |-> l.generation, cause |-> l.cause]
  /\ error' = FALSE
  /\ status' = "ready"
  /\ EndLoad(l)
  /\ UNCHANGED <<server, authentication, tenants, tenantId, stored, generation,
                 acknowledged, clicks>>

\* The last answer of a load that is no longer current, or its failure,
\* changes nothing on the screen.
DropLoad(l) ==
  /\ ~Current(l)
  /\ EndLoad(l)
  /\ UNCHANGED <<server, screen, generation, acknowledged, clicks>>

\* Mutant: a failure that is no 401 is recorded without leaving "loading".
HandleLoadFailure_StaysLoading(failure) ==
  /\ shown' = Nothing
  /\ IF failure = "unauthorized"
       THEN /\ authentication' = NoOne
            /\ status' = "authentication-required"
            /\ error' = TRUE
            /\ tenants' = {} /\ tenantId' = NoTenant
       ELSE UNCHANGED <<status, authentication, tenants, tenantId, error>>

\* handleLoadFailure, with the effect of signing out on a 401.
HandleLoadFailure(failure) ==
  /\ error' = TRUE
  /\ shown' = Nothing
  /\ IF failure = "unauthorized"
       THEN /\ authentication' = NoOne
            /\ status' = "authentication-required"
            /\ IF authentication = NoOne
                 THEN UNCHANGED <<tenants, tenantId>>
                 ELSE tenants' = {} /\ tenantId' = NoTenant
       ELSE /\ status' = "error"
            /\ UNCHANGED <<authentication, tenants, tenantId>>

\* A request of a load fails.  A reload by refreshAll only records the error.
FailLoad(l, failure) ==
  /\ Current(l)
  /\ EndLoad(l)
  /\ IF l.cause \in {"refresh", "command"}
       THEN /\ error' = TRUE
            /\ UNCHANGED <<authentication, status, tenants, tenantId, shown>>
       ELSE HandleLoadFailure(failure)
  /\ UNCHANGED <<server, stored, generation, acknowledged, clicks>>

\* The API commits the command: an onboarding makes a tenant nobody is in yet.
ServerCommits ==
  /\ command.phase = "sent"
  /\ \/ /\ command.tenant # NoTenant
        /\ version' = [version EXCEPT ![command.tenant] = @ + 1]
        /\ command' = [command EXCEPT !.phase = "committed",
                                      !.version = version'[command.tenant]]
        /\ UNCHANGED member
     \/ /\ command.tenant = NoTenant
        /\ \E t \in Tenants \ UNION { member[i] : i \in Identities } :
             member' = [member EXCEPT ![command.who] = @ \cup {t}]
        /\ command' = [command EXCEPT !.phase = "committed"]
        /\ UNCHANGED version
  /\ UNCHANGED <<screen, generation, loads, refreshing, acknowledged, clicks>>

\* Mutant: the reload after a command does not start a generation of its own.
CommandSucceeds_SameGeneration ==
  /\ command.phase = "committed"
  /\ command' = [command EXCEPT !.phase = "reload"]
  /\ \/ /\ command.tenant # NoTenant
        /\ loads' = loads \cup
             {Load(generation, "command", command.who, command.tenant, "session")}
        /\ refreshing' = TRUE
        /\ acknowledged' = [acknowledged EXCEPT ![command.tenant] = command.version]
        /\ UNCHANGED <<generation, status, error>>
     \/ /\ command.tenant = NoTenant
        /\ Initialize("onboarding", command.who)
        /\ UNCHANGED <<refreshing, acknowledged>>
  /\ UNCHANGED <<server, authentication, tenants, tenantId, shown, stored, clicks>>

\* The command succeeded: refreshAll of the closure that started it, or
\* initialize with the client of that closure.
CommandSucceeds ==
  /\ command.phase = "committed"
  /\ command' = [command EXCEPT !.phase = "reload"]
  /\ \/ /\ command.tenant # NoTenant
        /\ StartLoad("command", command.who, command.tenant, "session")
        /\ refreshing' = TRUE
        /\ acknowledged' = [acknowledged EXCEPT ![command.tenant] = command.version]
        /\ UNCHANGED <<status, error>>
     \/ /\ command.tenant = NoTenant
        /\ Initialize("onboarding", command.who)
        /\ UNCHANGED <<refreshing, acknowledged>>
  /\ UNCHANGED <<server, authentication, tenants, tenantId, shown, stored, clicks>>

\* The command is refused, or its answer is lost after it took effect.
CommandFails ==
  /\ command.phase \in {"sent", "committed"}
  /\ command' = Idle
  /\ UNCHANGED <<server, screen, generation, loads, refreshing, acknowledged,
                 clicks>>

Answer(l) ==
  \/ AnswerOptions(l) \/ AnswerSession(l) \/ AnswerReads(l)
  \/ DropLoad(l)
  \/ \E failure \in Failures : FailLoad(l, failure)

ApiActs ==
  \/ \E l \in loads : Answer(l)
  \/ ServerCommits \/ CommandSucceeds \/ CommandFails

----------------------------------------------------------------------------
(* Properties of the application state.                                    *)

LoadRecord ==
  [generation : Nat, cause : Causes, who : Identities,
   tenant : Tenants \cup {NoTenant}, phase : {"options", "session", "reads"},
   asOf : Nat]

\* The state of the tab is well-formed: generations name loads, a load past the
\* options knows its tenant, and a command waits for a load exactly while it
\* reloads.
ApplicationTypeInv ==
  /\ member \in [Identities -> SUBSET Tenants]
  /\ version \in [Tenants -> Nat] /\ acknowledged \in [Tenants -> Nat]
  /\ authentication \in Identities \cup {NoOne}
  /\ status \in Statuses
  /\ tenants \subseteq Tenants
  /\ tenantId \in Tenants \cup {NoTenant} /\ stored \in Tenants \cup {NoTenant}
  /\ error \in BOOLEAN /\ refreshing \in BOOLEAN
  /\ generation \in Nat
  /\ loads \subseteq LoadRecord
  /\ \A l \in loads : l.generation <= generation
                      /\ (l.tenant = NoTenant <=> l.phase = "options")
  /\ \A l, k \in loads : l.generation = k.generation => l = k
  /\ status = "ready" => shown # Nothing
  /\ command.phase = "reload"
       <=> \E l \in loads : l.cause \in {"command", "onboarding"}

\* Whatever the order in which answers arrive, a workspace that was loaded for
\* the user (signing in, choosing a tenant, refreshing, retrying) is the one of
\* the identity that is signed in and the tenant that is chosen: of the loads in
\* flight only the last one started may be shown, and signing out leaves none.
\* Only the reload after a command may show another (ReadyShowsSelection).
UserLoadsShowSelection ==
  shown # Nothing /\ shown.cause \in {"initialize", "select", "refresh"} =>
    /\ shown.who = authentication
    /\ status = "ready" => shown.tenant = tenantId

\* When nothing is in flight and no error is recorded, the workspace shows
\* every command of this tab whose success was reported: the reload that follows
\* a command, or a later load, is the one that is shown in the end.
OwnCommandsShown ==
  loads = {} /\ command = Idle /\ status = "ready" /\ ~error =>
    shown.asOf >= acknowledged[shown.tenant]

\* docs/LIVE_WEB_OPERATIONS.md:3: the primary workspaces "load the authenticated
\* session, selected tenant, permissions, modules and domain read models".  An
\* open workspace is the one of who is signed in and of the tenant that is
\* chosen.
ReadyShowsSelection ==
  status = "ready" => shown.who = authentication /\ shown.tenant = tenantId

\* A tab that is loading leaves that state or records an error.
LoadingEnds == status = "loading" ~> (status # "loading" \/ error)

\* docs/LIVE_WEB_OPERATIONS.md:112: failures other than a 401 "preserve the
\* credential and allow a retry".  So a tab does not load for ever: its gate
\* shows nothing to click while it does.
LoadingGivesWay == status = "loading" ~> status # "loading"

\* Every command ends, and gives the forms back to the user.
CommandsEnd == command # Idle ~> command = Idle
============================================================================
