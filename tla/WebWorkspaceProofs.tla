------------------------- MODULE WebWorkspaceProofs -------------------------
(***************************************************************************)
(* Proofs about the web client: in whatever order clicks and answers come, *)
(* what is loaded for the user is of the chosen tenant, and so is the      *)
(* board of the commercial provider.                                       *)
(***************************************************************************)
EXTENDS WebWorkspace, TLAPS

CommandRecord ==
  [phase : {"idle", "sent", "committed", "reload"}, who : Identities \cup {NoOne},
   tenant : Tenants \cup {NoTenant}, version : Nat]

ShownRecord ==
  [who : Identities \cup {NoOne}, tenant : Tenants \cup {NoTenant}, asOf : Nat,
   generation : Nat, cause : Causes]

CommandOK ==
  /\ command \in CommandRecord
  /\ command.phase # "idle" => command.who \in Identities
  /\ shown \in ShownRecord

\* A closed workspace shows nothing, except while another load is awaited.
ClosedShowsNothing ==
  status \in {"authentication-required", "tenant-required", "error"} => shown = Nothing

ForCommand(l) == l.cause \in {"command", "onboarding"}

\* One command at a time, so one reload for it.  The load that is current and
\* was started for the user has the selection of the screen, and one that has
\* yet to choose a tenant keeps the workspace closed.
LoadsOK ==
  /\ \A l, k \in loads : ForCommand(l) /\ ForCommand(k) => l = k
  /\ \A l \in loads : Current(l) =>
       /\ l.phase = "options" => status = "loading"
       /\ ~ForCommand(l) =>
            l.who = authentication /\ (l.phase # "options" => l.tenant = tenantId)

AppInv ==
  /\ ApplicationTypeInv /\ CommandOK /\ ClosedShowsNothing /\ LoadsOK
  /\ UserLoadsShowSelection

----------------------------------------------------------------------------
(* The application state.                                                  *)

LEMMA InitApp == Init => AppInv
<1> SUFFICES ASSUME Init PROVE AppInv
  OBVIOUS
<1> USE WebAssumption
<1>1. ApplicationTypeInv
  <2> DEFINE first == Load(1, "initialize", authentication, NoTenant, "options")
  <2>1. error \in BOOLEAN /\ refreshing \in BOOLEAN
    BY DEF Init
  <2>2. /\ member \in [Identities -> SUBSET Tenants]
        /\ version \in [Tenants -> Nat] /\ acknowledged \in [Tenants -> Nat]
        /\ authentication \in Identities \cup {NoOne} /\ status \in Statuses
        /\ tenants \subseteq Tenants
        /\ tenantId \in Tenants \cup {NoTenant} /\ stored \in Tenants \cup {NoTenant}
        /\ generation \in Nat /\ status # "ready" /\ command.phase # "reload"
    BY DEF Init, Statuses, Idle
  <2>3. authentication # NoOne =>
          /\ first \in LoadRecord /\ first.generation = 1 /\ first.tenant = NoTenant
          /\ first.phase = "options" /\ first.cause = "initialize"
    BY DEF Init, LoadRecord, Load, Causes
  <2>4. \/ loads = {}
        \/ authentication # NoOne /\ loads = {first} /\ generation = 1
    BY DEF Init
  <2> HIDE DEF first
  <2> QED
    BY <2>1, <2>2, <2>3, <2>4 DEF ApplicationTypeInv
<1>2. CommandOK
  BY DEF Init, CommandOK, CommandRecord, ShownRecord, Idle, Nothing, Causes
<1>3. LoadsOK
  BY DEF Init, LoadsOK, Load, ForCommand, Current
<1>4. UserLoadsShowSelection /\ ClosedShowsNothing
  BY DEF Init, UserLoadsShowSelection, ClosedShowsNothing
<1> QED
  BY <1>1, <1>2, <1>3, <1>4 DEF AppInv

\* A new load is the only current one.
LEMMA LoadStarts ==
  ASSUME AppInv, NEW cause \in Causes, NEW who \in Identities,
         NEW tenant \in Tenants \cup {NoTenant}, NEW phase \in {"options", "session"},
         tenant = NoTenant <=> phase = "options",
         StartLoad(cause, who, tenant, phase)
  PROVE  /\ generation' \in Nat
         /\ loads' \subseteq LoadRecord
         /\ \A l \in loads' : /\ l.generation <= generation'
                              /\ (l.tenant = NoTenant <=> l.phase = "options")
         /\ \A l, k \in loads' : l.generation = k.generation => l = k
         /\ \A l \in loads' : l.generation = generation' =>
              /\ l.who = who /\ l.tenant = tenant /\ l.phase = phase /\ l.cause = cause
         /\ (\E l \in loads' : ForCommand(l))
              <=> (cause \in {"command", "onboarding"} \/ \E l \in loads : ForCommand(l))
         /\ cause \notin {"command", "onboarding"} \/ (\A l \in loads : ~ForCommand(l)) =>
              \A l, k \in loads' : ForCommand(l) /\ ForCommand(k) => l = k
<1> DEFINE new == Load(generation + 1, cause, who, tenant, phase)
<1>1. /\ new \in LoadRecord /\ new.generation = generation + 1 /\ new.who = who
      /\ new.tenant = tenant /\ new.phase = phase /\ new.cause = cause
  BY DEF Load, LoadRecord, AppInv, ApplicationTypeInv
<1>2. loads' = loads \cup {new} /\ generation' = generation + 1
  BY DEF StartLoad
<1> HIDE DEF new
<1>3. /\ generation \in Nat /\ loads \subseteq LoadRecord
      /\ \A l \in loads : l.generation \in Nat /\ l.generation <= generation
      /\ \A l \in loads : l.tenant = NoTenant <=> l.phase = "options"
      /\ \A l, k \in loads : l.generation = k.generation => l = k
      /\ \A l, k \in loads : ForCommand(l) /\ ForCommand(k) => l = k
  BY DEF AppInv, ApplicationTypeInv, LoadsOK, LoadRecord
<1>4. \A l \in loads' : l = new \/ (l \in loads /\ l.generation < generation')
  BY <1>2, <1>3
<1>5. generation' \in Nat /\ loads' \subseteq LoadRecord
  BY <1>1, <1>2, <1>3
<1>6. \A l \in loads' : l.generation <= generation' /\ (l.tenant = NoTenant <=> l.phase = "options")
  BY <1>1, <1>2, <1>3
<1>7. \A l, k \in loads' : l.generation = k.generation => l = k
  BY <1>1, <1>2, <1>3, <1>4
<1>8. \A l \in loads' : l.generation = generation' => l = new
  BY <1>2, <1>3, <1>4
<1>9. ForCommand(new) <=> cause \in {"command", "onboarding"}
  BY <1>1 DEF ForCommand
<1>10. (\E l \in loads' : ForCommand(l))
         <=> (cause \in {"command", "onboarding"} \/ \E l \in loads : ForCommand(l))
  BY <1>2, <1>9
<1>11. ASSUME cause \notin {"command", "onboarding"} \/ (\A l \in loads : ~ForCommand(l))
       PROVE  \A l, k \in loads' : ForCommand(l) /\ ForCommand(k) => l = k
  BY <1>2, <1>3, <1>9, <1>11
<1> QED
  BY <1>1, <1>5, <1>6, <1>7, <1>8, <1>10, <1>11

\* When a load is over, the others are as they were, and none is current if it was.
LEMMA LoadEnds ==
  ASSUME AppInv, NEW l \in loads, EndLoad(l)
  PROVE  /\ loads' = loads \ {l}
         /\ command' \in CommandRecord
         /\ command'.phase # "idle" => command'.who \in Identities
         /\ refreshing' \in BOOLEAN
         /\ command'.phase = "reload" <=> \E k \in loads' : ForCommand(k)
         /\ Current(l) => \A k \in loads' : ~Current(k)
<1> USE WebAssumption
<1>1. loads' = loads \ {l} /\ refreshing' \in BOOLEAN
  BY DEF EndLoad, AppInv, ApplicationTypeInv
<1>2. command' = IF ForCommand(l) THEN Idle ELSE command
  BY DEF EndLoad, ForCommand
<1>3. Idle \in CommandRecord /\ Idle.phase = "idle"
  BY DEF Idle, CommandRecord
<1>4. command' \in CommandRecord /\ (command'.phase # "idle" => command'.who \in Identities)
  BY <1>2, <1>3 DEF AppInv, CommandOK
<1>5. command.phase = "reload" <=> \E k \in loads : ForCommand(k)
  BY DEF AppInv, ApplicationTypeInv, ForCommand
<1>6. command'.phase = "reload" <=> \E k \in loads' : ForCommand(k)
  BY <1>1, <1>2, <1>3, <1>5 DEF AppInv, LoadsOK
<1>7. Current(l) => \A k \in loads' : ~Current(k)
  BY <1>1 DEF Current, AppInv, ApplicationTypeInv
<1> QED
  BY <1>1, <1>4, <1>6, <1>7

LEMMA UserKeeps ==
  ASSUME AppInv, UserActs
  PROVE  AppInv'
<1> USE WebAssumption
<1> USE DEF server, screen, Click
<1>0. /\ ApplicationTypeInv /\ CommandOK /\ ClosedShowsNothing /\ LoadsOK
      /\ UserLoadsShowSelection
      /\ command.phase = "reload" <=> \E l \in loads : ForCommand(l)
  BY DEF AppInv, ApplicationTypeInv, ForCommand
<1>1. ASSUME NEW who \in Identities, Authenticate(who) PROVE AppInv'
  <2>1. StartLoad("initialize", who, NoTenant, "options")
    BY <1>1 DEF Authenticate, Initialize
  <2>2. ApplicationTypeInv'
    BY <1>0, <1>1, <2>1, LoadStarts DEF Authenticate, Initialize, ApplicationTypeInv, Causes, Statuses, ForCommand
  <2>3. CommandOK'
    BY <1>0, <1>1 DEF Authenticate, Initialize, CommandOK, CommandRecord, ShownRecord
  <2>4. LoadsOK'
    BY <1>0, <1>1, <2>1, LoadStarts DEF Authenticate, Initialize, LoadsOK, Current, ForCommand, Causes
  <2>5. UserLoadsShowSelection' /\ ClosedShowsNothing'
    BY <1>0, <1>1 DEF Authenticate, Initialize, UserLoadsShowSelection, ClosedShowsNothing
  <2> QED
    BY <2>2, <2>3, <2>4, <2>5 DEF AppInv
<1>2. ASSUME SignOut PROVE AppInv'
  <2>1. CASE authentication = NoOne
    <3>1. UNCHANGED <<status, tenants, tenantId, shown, authentication, loads, command, error>>
          /\ generation' = generation + 1
      BY <1>2, <2>1 DEF SignOut
    <3>2. ApplicationTypeInv' /\ CommandOK' /\ LoadsOK'
      BY <1>0, <1>2, <3>1 DEF SignOut, ApplicationTypeInv, CommandOK, LoadsOK, Current, LoadRecord, ForCommand
    <3> QED
      BY <1>0, <3>1, <3>2 DEF AppInv, UserLoadsShowSelection, ClosedShowsNothing
  <2>2. CASE authentication # NoOne
    <3>1. ClearScreen /\ UNCHANGED <<loads, command, error>> /\ generation' = generation + 1
      BY <1>2, <2>2 DEF SignOut
    <3>2. ApplicationTypeInv'
      BY <1>0, <1>2, <3>1 DEF SignOut, ClearScreen, ApplicationTypeInv, LoadRecord, Statuses
    <3>3. CommandOK'
      BY <1>0, <3>1 DEF ClearScreen, CommandOK, ShownRecord, Nothing, Causes
    <3>4. LoadsOK'
      BY <1>0, <3>1 DEF LoadsOK, Current, LoadRecord, ApplicationTypeInv, ForCommand
    <3>5. UserLoadsShowSelection' /\ ClosedShowsNothing'
      BY <3>1 DEF ClearScreen, UserLoadsShowSelection, ClosedShowsNothing
    <3> QED
      BY <3>2, <3>3, <3>4, <3>5 DEF AppInv
  <2> QED
    BY <2>1, <2>2
<1>3. ASSUME Retry PROVE AppInv'
  <2>1. CASE authentication = NoOne
    BY <1>0, <1>3, <2>1 DEF Retry, AppInv, ApplicationTypeInv, CommandOK, LoadsOK, Current, ForCommand,
       UserLoadsShowSelection, ClosedShowsNothing, Statuses
  <2>2. CASE authentication # NoOne
    <3>1. StartLoad("initialize", authentication, NoTenant, "options") /\ authentication \in Identities
      BY <1>0, <1>3, <2>2 DEF Retry, Initialize, ApplicationTypeInv
    <3>2. ApplicationTypeInv'
      BY <1>0, <1>3, <2>2, <3>1, LoadStarts DEF Retry, Initialize, ApplicationTypeInv, Causes, Statuses, ForCommand
    <3>3. CommandOK'
      BY <1>0, <1>3 DEF Retry, CommandOK, CommandRecord, ShownRecord
    <3>4. LoadsOK'
      BY <1>0, <1>3, <2>2, <3>1, LoadStarts DEF Retry, Initialize, LoadsOK, Current, ForCommand, Causes
    <3>5. UserLoadsShowSelection' /\ ClosedShowsNothing'
      BY <1>0, <1>3, <2>2 DEF Retry, Initialize, UserLoadsShowSelection, ClosedShowsNothing
    <3> QED
      BY <3>2, <3>3, <3>4, <3>5 DEF AppInv
  <2> QED
    BY <2>1, <2>2
<1>4. ASSUME NEW t \in Tenants, SelectTenant(t) PROVE AppInv'
  <2>1. StartLoad("select", authentication, t, "session") /\ authentication \in Identities
    BY <1>0, <1>4 DEF SelectTenant, ApplicationTypeInv
  <2>2. ApplicationTypeInv'
    BY <1>0, <1>4, <2>1, LoadStarts DEF SelectTenant, ApplicationTypeInv, Causes, Statuses, ForCommand
  <2>3. CommandOK'
    BY <1>0, <1>4 DEF SelectTenant, ApplicationTypeInv, CommandOK, CommandRecord, ShownRecord, Idle
  <2>4. LoadsOK'
    BY <1>0, <1>4, <2>1, LoadStarts DEF SelectTenant, ApplicationTypeInv, LoadsOK, Current, ForCommand, Causes
  <2>5. UserLoadsShowSelection' /\ ClosedShowsNothing'
    BY <1>0, <1>4 DEF SelectTenant, UserLoadsShowSelection, ClosedShowsNothing
  <2> QED
    BY <2>2, <2>3, <2>4, <2>5 DEF AppInv
<1>5. ASSUME Refresh PROVE AppInv'
  <2>1. StartLoad("refresh", authentication, tenantId, "session") /\ authentication \in Identities /\ tenantId \in Tenants
    BY <1>0, <1>5 DEF Refresh, ApplicationTypeInv
  <2>2. ApplicationTypeInv'
    BY <1>0, <1>5, <2>1, LoadStarts DEF Refresh, ApplicationTypeInv, Causes, Statuses, ForCommand
  <2>3. CommandOK'
    BY <1>0, <1>5 DEF Refresh, ApplicationTypeInv, CommandOK, CommandRecord, ShownRecord, Idle
  <2>4. LoadsOK'
    BY <1>0, <1>5, <2>1, LoadStarts DEF Refresh, ApplicationTypeInv, LoadsOK, Current, ForCommand, Causes
  <2>5. UserLoadsShowSelection' /\ ClosedShowsNothing'
    BY <1>0, <1>5 DEF Refresh, UserLoadsShowSelection, ClosedShowsNothing
  <2> QED
    BY <2>2, <2>3, <2>4, <2>5 DEF AppInv
<1>6. ASSUME Submit PROVE AppInv'
  <2>1. ApplicationTypeInv'
    <3>1. command.phase = "idle" /\ command'.phase = "sent"
      BY <1>6 DEF Submit, Idle
    <3>2. UNCHANGED <<member, version, acknowledged, authentication, status, tenants, tenantId,
                      stored, error, refreshing, generation, loads, shown>>
      BY <1>6 DEF Submit
    <3> QED
      BY <1>0, <3>1, <3>2 DEF ApplicationTypeInv, ForCommand
  <2>2. CommandOK'
    BY <1>0, <1>6 DEF Submit, ApplicationTypeInv, CommandOK, CommandRecord, ShownRecord, Idle
  <2>3. LoadsOK'
    BY <1>0, <1>6 DEF Submit, ApplicationTypeInv, LoadsOK, Current, ForCommand, Causes
  <2>4. UserLoadsShowSelection' /\ ClosedShowsNothing'
    BY <1>0, <1>6 DEF Submit, UserLoadsShowSelection, ClosedShowsNothing
  <2> QED
    BY <2>1, <2>2, <2>3, <2>4 DEF AppInv
<1>7. ASSUME Onboard PROVE AppInv'
  <2>1. ApplicationTypeInv'
    <3>1. command.phase = "idle" /\ command'.phase = "sent"
      BY <1>7 DEF Onboard, Idle
    <3>2. UNCHANGED <<member, version, acknowledged, authentication, status, tenants, tenantId,
                      stored, error, refreshing, generation, loads, shown>>
      BY <1>7 DEF Onboard
    <3> QED
      BY <1>0, <3>1, <3>2 DEF ApplicationTypeInv, ForCommand
  <2>2. CommandOK'
    BY <1>0, <1>7 DEF Onboard, ApplicationTypeInv, CommandOK, CommandRecord, ShownRecord, Idle
  <2>3. LoadsOK'
    BY <1>0, <1>7 DEF Onboard, ApplicationTypeInv, LoadsOK, Current, ForCommand, Causes
  <2>4. UserLoadsShowSelection' /\ ClosedShowsNothing'
    BY <1>0, <1>7 DEF Onboard, UserLoadsShowSelection, ClosedShowsNothing
  <2> QED
    BY <2>1, <2>2, <2>3, <2>4 DEF AppInv
<1> QED
  BY <1>1, <1>2, <1>3, <1>4, <1>5, <1>6, <1>7 DEF UserActs

LEMMA AnswersKeep ==
  ASSUME AppInv, NEW l \in loads, Answer(l)
  PROVE  AppInv'
<1> USE WebAssumption
<1> USE DEF server, screen
<1>0. /\ ApplicationTypeInv /\ CommandOK /\ ClosedShowsNothing /\ LoadsOK
      /\ UserLoadsShowSelection
      /\ command.phase = "reload" <=> \E k \in loads : ForCommand(k)
      /\ l \in LoadRecord
  BY DEF AppInv, ApplicationTypeInv, ForCommand
<1>1. ASSUME AnswerOptions(l), tenants' = {} PROVE AppInv'
  <2>1. EndLoad(l)
    BY <1>1 DEF AnswerOptions, MaySelect
  <2>2. ApplicationTypeInv'
    BY <1>0, <1>1, <2>1, LoadEnds DEF AnswerOptions, MaySelect, ApplicationTypeInv, Statuses, ForCommand
  <2>3. CommandOK'
    BY <1>0, <1>1, <2>1, LoadEnds DEF AnswerOptions, MaySelect, CommandOK, ShownRecord, Nothing, Causes
  <2>4. LoadsOK'
    BY <1>0, <1>1, <2>1, LoadEnds DEF AnswerOptions, LoadsOK, Current, ForCommand
  <2>5. UserLoadsShowSelection' /\ ClosedShowsNothing'
    BY <1>1 DEF AnswerOptions, MaySelect, UserLoadsShowSelection, ClosedShowsNothing
  <2> QED
    BY <2>2, <2>3, <2>4, <2>5 DEF AppInv
<1>2. ASSUME AnswerOptions(l), tenants' # {} PROVE AppInv'
  <2> DEFINE chosen(t) == [l EXCEPT !.tenant = t, !.phase = "session"]
  <2>1. PICK t \in Tenants :
          /\ stored' = t /\ tenantId' = t
          /\ loads' = (loads \ {l}) \cup {chosen(t)}
          /\ UNCHANGED <<status, shown, refreshing, command>>
    BY <1>1, <1>2 DEF AnswerOptions
  <2> DEFINE new == chosen(t)
  <2>2. /\ new \in LoadRecord /\ new.generation = l.generation /\ new.who = l.who
        /\ new.tenant = t /\ new.phase = "session" /\ new.cause = l.cause
    BY <1>0 DEF LoadRecord
  <2>3. loads' = (loads \ {l}) \cup {new}
    BY <2>1
  <2>4. /\ Current(l) /\ l.phase = "options" /\ status = "loading" /\ tenants' = member[l.who]
        /\ UNCHANGED <<member, version, authentication, error, generation, acknowledged>>
    BY <1>0, <1>2 DEF AnswerOptions, LoadsOK
  <2> HIDE DEF new, chosen
  <2>5. ForCommand(new) <=> ForCommand(l)
    BY <2>2 DEF ForCommand
  <2>6. (\E k \in loads' : ForCommand(k)) <=> (\E k \in loads : ForCommand(k))
    BY <2>3, <2>5
  <2>7. tenants' \subseteq Tenants
    BY <1>0, <2>4 DEF ApplicationTypeInv, LoadRecord
  <2>8. /\ loads' \subseteq LoadRecord
        /\ \A k \in loads' : k.generation <= generation /\ (k.tenant = NoTenant <=> k.phase = "options")
        /\ \A k, m \in loads' : k.generation = m.generation => k = m
    BY <1>0, <2>2, <2>3 DEF ApplicationTypeInv
  <2>9. ApplicationTypeInv'
    BY <1>0, <2>1, <2>4, <2>6, <2>7, <2>8 DEF ApplicationTypeInv, ForCommand
  <2>10. CommandOK' /\ ClosedShowsNothing'
    BY <1>0, <2>1 DEF CommandOK, ClosedShowsNothing
  <2>11. LoadsOK'
    BY <1>0, <2>1, <2>2, <2>3, <2>4, <2>5 DEF LoadsOK, Current, ApplicationTypeInv, ForCommand
  <2>12. UserLoadsShowSelection'
    BY <1>0, <2>1, <2>4 DEF UserLoadsShowSelection
  <2> QED
    BY <2>9, <2>10, <2>11, <2>12 DEF AppInv
<1>3. ASSUME AnswerSession(l) PROVE AppInv'
  <2> DEFINE new == [l EXCEPT !.phase = "reads", !.asOf = version[l.tenant]]
  <2>1. l.tenant \in Tenants /\ l.phase = "session"
    BY <1>0, <1>3 DEF AnswerSession, ApplicationTypeInv, LoadRecord
  <2>2. /\ new \in LoadRecord /\ new.generation = l.generation /\ new.who = l.who
        /\ new.tenant = l.tenant /\ new.phase = "reads" /\ new.cause = l.cause
    BY <1>0, <2>1 DEF LoadRecord, ApplicationTypeInv
  <2>3. loads' = (loads \ {l}) \cup {new}
    BY <1>3 DEF AnswerSession
  <2>4. UNCHANGED <<member, version, authentication, status, tenants, tenantId, shown, error,
                    stored, generation, refreshing, command, acknowledged>>
    BY <1>3 DEF AnswerSession
  <2> HIDE DEF new
  <2>5. ForCommand(new) <=> ForCommand(l)
    BY <2>2 DEF ForCommand
  <2>6. (\E k \in loads' : ForCommand(k)) <=> (\E k \in loads : ForCommand(k))
    BY <2>3, <2>5
  <2>7. /\ loads' \subseteq LoadRecord
        /\ \A k \in loads' : k.generation <= generation /\ (k.tenant = NoTenant <=> k.phase = "options")
        /\ \A k, m \in loads' : k.generation = m.generation => k = m
    BY <1>0, <2>1, <2>2, <2>3 DEF ApplicationTypeInv
  <2>8. ApplicationTypeInv'
    BY <1>0, <2>4, <2>6, <2>7 DEF ApplicationTypeInv, ForCommand
  <2>9. CommandOK' /\ ClosedShowsNothing'
    BY <1>0, <2>4 DEF CommandOK, ClosedShowsNothing
  <2>10. LoadsOK'
    BY <1>0, <2>1, <2>2, <2>3, <2>4, <2>5 DEF LoadsOK, Current, ForCommand
  <2>11. UserLoadsShowSelection'
    BY <1>0, <2>4 DEF UserLoadsShowSelection
  <2> QED
    BY <2>8, <2>9, <2>10, <2>11 DEF AppInv
<1>4. ASSUME AnswerReads(l) PROVE AppInv'
  <2>1. EndLoad(l) /\ Current(l) /\ l.tenant \in Tenants
    BY <1>0, <1>4 DEF AnswerReads, ApplicationTypeInv, LoadRecord
  <2>2. shown' \in ShownRecord /\ shown'.who = l.who /\ shown'.tenant = l.tenant /\ shown'.cause = l.cause
    BY <1>0, <1>4 DEF AnswerReads, LoadRecord, ShownRecord
  <2>3. shown' # Nothing
    BY <1>0, <2>2 DEF Nothing, LoadRecord
  <2>4. ApplicationTypeInv'
    BY <1>0, <1>4, <2>1, <2>3, LoadEnds DEF AnswerReads, ApplicationTypeInv, Statuses, ForCommand
  <2>5. CommandOK' /\ ClosedShowsNothing'
    BY <1>4, <2>1, <2>2, LoadEnds DEF AnswerReads, CommandOK, ClosedShowsNothing
  <2>6. LoadsOK'
    BY <1>0, <1>4, <2>1, LoadEnds DEF AnswerReads, LoadsOK, Current, ForCommand
  <2>7. UserLoadsShowSelection'
    BY <1>0, <1>4, <2>1, <2>2 DEF AnswerReads, LoadsOK, UserLoadsShowSelection, ForCommand
  <2> QED
    BY <2>4, <2>5, <2>6, <2>7 DEF AppInv
<1>5. ASSUME DropLoad(l) PROVE AppInv'
  <2>1. EndLoad(l)
    BY <1>5 DEF DropLoad
  <2>2. UNCHANGED <<member, version, authentication, status, tenants, tenantId, shown, error,
                    stored, generation, acknowledged>>
    BY <1>5 DEF DropLoad
  <2>3. ApplicationTypeInv'
    BY <1>0, <2>1, <2>2, LoadEnds DEF ApplicationTypeInv, ForCommand
  <2>4. CommandOK' /\ ClosedShowsNothing'
    BY <1>0, <2>1, <2>2, LoadEnds DEF CommandOK, ClosedShowsNothing
  <2>5. LoadsOK'
    BY <1>0, <2>1, <2>2, LoadEnds DEF LoadsOK, Current, ForCommand
  <2>6. UserLoadsShowSelection'
    BY <1>0, <2>2 DEF UserLoadsShowSelection
  <2> QED
    BY <2>3, <2>4, <2>5, <2>6 DEF AppInv
<1>6. ASSUME NEW failure \in Failures, FailLoad(l, failure) PROVE AppInv'
  <2>1. EndLoad(l) /\ Current(l) /\ error' = TRUE
        /\ UNCHANGED <<member, version, stored, generation, acknowledged>>
    BY <1>6 DEF FailLoad, HandleLoadFailure
  <2>2. \/ UNCHANGED <<authentication, status, tenants, tenantId, shown>>
        \/ HandleLoadFailure(failure)
    BY <1>6 DEF FailLoad
  <2>3. /\ authentication' \in Identities \cup {NoOne} /\ status' \in Statuses
        /\ tenants' \subseteq Tenants /\ tenantId' \in Tenants \cup {NoTenant}
        /\ status' = "ready" => shown' # Nothing
    BY <1>0, <2>2 DEF ApplicationTypeInv, HandleLoadFailure, Statuses
  <2>4. shown' \in ShownRecord
    BY <1>0, <2>2 DEF CommandOK, HandleLoadFailure, ShownRecord, Nothing, Causes
  <2>5. ApplicationTypeInv'
    BY <1>0, <2>1, <2>3, LoadEnds DEF ApplicationTypeInv, ForCommand
  <2>6. CommandOK'
    BY <2>1, <2>4, LoadEnds DEF CommandOK
  <2>7. LoadsOK'
    BY <1>0, <2>1, LoadEnds DEF LoadsOK, Current, ForCommand
  <2>8. UserLoadsShowSelection' /\ ClosedShowsNothing'
    BY <1>0, <2>2 DEF UserLoadsShowSelection, ClosedShowsNothing, HandleLoadFailure
  <2> QED
    BY <2>5, <2>6, <2>7, <2>8 DEF AppInv
<1> QED
  BY <1>1, <1>2, <1>3, <1>4, <1>5, <1>6 DEF Answer

LEMMA CommandsKeep ==
  ASSUME AppInv, ServerCommits \/ CommandSucceeds \/ CommandFails
  PROVE  AppInv'
<1> USE WebAssumption
<1> USE DEF server, screen
<1>0. /\ ApplicationTypeInv /\ CommandOK /\ ClosedShowsNothing /\ LoadsOK
      /\ UserLoadsShowSelection
      /\ command.phase = "reload" <=> \E k \in loads : ForCommand(k)
  BY DEF AppInv, ApplicationTypeInv, ForCommand
<1>1. ASSUME ServerCommits PROVE AppInv'
  <2>1. /\ UNCHANGED <<authentication, status, tenants, tenantId, shown, error, stored,
                       generation, loads, refreshing, acknowledged>>
        /\ command.phase = "sent"
    BY <1>1 DEF ServerCommits
  <2>2. /\ member' \in [Identities -> SUBSET Tenants] /\ version' \in [Tenants -> Nat]
        /\ command' \in CommandRecord /\ command'.phase = "committed" /\ command'.who \in Identities
    <3>1. CASE command.tenant # NoTenant
      <4>1. command.tenant \in Tenants /\ version' = [version EXCEPT ![command.tenant] = @ + 1]
            /\ UNCHANGED member
        BY <1>0, <1>1, <3>1 DEF ServerCommits, CommandOK, CommandRecord
      <4>2. version' \in [Tenants -> Nat]
        BY <1>0, <4>1 DEF ApplicationTypeInv
      <4>3. command' = [command EXCEPT !.phase = "committed", !.version = version'[command.tenant]]
        BY <1>1, <3>1 DEF ServerCommits
      <4>4. version'[command.tenant] \in Nat
        BY <4>1, <4>2
      <4> QED
        BY <1>0, <2>1, <4>1, <4>2, <4>3, <4>4 DEF ApplicationTypeInv, CommandOK, CommandRecord
    <3>2. CASE command.tenant = NoTenant
      <4>1. PICK t \in Tenants : member' = [member EXCEPT ![command.who] = @ \cup {t}]
        BY <1>1, <3>2 DEF ServerCommits
      <4>2. command' = [command EXCEPT !.phase = "committed"] /\ UNCHANGED version
        BY <1>1, <3>2 DEF ServerCommits
      <4>3. command.who \in Identities /\ command \in CommandRecord
        BY <1>0, <2>1 DEF CommandOK
      <4>4. member' \in [Identities -> SUBSET Tenants] /\ version' \in [Tenants -> Nat]
        BY <1>0, <4>1, <4>2, <4>3 DEF ApplicationTypeInv
      <4> QED
        BY <4>2, <4>3, <4>4 DEF CommandRecord
    <3> QED
      BY <3>1, <3>2
  <2>3. ApplicationTypeInv'
    BY <1>0, <2>1, <2>2 DEF ApplicationTypeInv, ForCommand
  <2>4. CommandOK' /\ ClosedShowsNothing'
    BY <1>0, <2>1, <2>2 DEF CommandOK, ClosedShowsNothing
  <2>5. LoadsOK' /\ UserLoadsShowSelection'
    BY <1>0, <2>1 DEF LoadsOK, Current, ForCommand, UserLoadsShowSelection
  <2> QED
    BY <2>3, <2>4, <2>5 DEF AppInv
<1>2. ASSUME CommandSucceeds PROVE AppInv'
  <2>1. /\ command.phase = "committed" /\ command.who \in Identities
        /\ command' = [command EXCEPT !.phase = "reload"]
        /\ UNCHANGED <<member, version, authentication, tenants, tenantId, shown, stored>>
    BY <1>0, <1>2 DEF CommandSucceeds, CommandOK
  <2>2. CommandOK' /\ command'.phase = "reload"
    BY <1>0, <2>1 DEF CommandOK, CommandRecord
  <2>3. \A k \in loads : ~ForCommand(k)
    BY <1>0, <2>1
  <2>4. CASE command.tenant # NoTenant
    <3>1. /\ StartLoad("command", command.who, command.tenant, "session")
          /\ command.tenant \in Tenants /\ command.version \in Nat
          /\ refreshing' = TRUE /\ UNCHANGED <<status, error>>
          /\ acknowledged' = [acknowledged EXCEPT ![command.tenant] = command.version]
      BY <1>0, <1>2, <2>4 DEF CommandSucceeds, CommandOK, CommandRecord
    <3>2. acknowledged' \in [Tenants -> Nat]
      BY <1>0, <3>1 DEF ApplicationTypeInv
    <3>3. ApplicationTypeInv'
      BY <1>0, <2>1, <2>2, <3>1, <3>2, LoadStarts DEF ApplicationTypeInv, Causes, ForCommand
    <3>4. LoadsOK'
      BY <1>0, <2>1, <2>3, <3>1, LoadStarts DEF LoadsOK, Current, ForCommand, Causes
    <3>5. UserLoadsShowSelection' /\ ClosedShowsNothing'
      BY <1>0, <2>1, <3>1 DEF UserLoadsShowSelection, ClosedShowsNothing
    <3> QED
      BY <2>2, <3>3, <3>4, <3>5 DEF AppInv
  <2>5. CASE command.tenant = NoTenant
    <3>1. /\ StartLoad("onboarding", command.who, NoTenant, "options")
          /\ status' = "loading" /\ error' = FALSE /\ UNCHANGED <<refreshing, acknowledged>>
      BY <1>2, <2>5 DEF CommandSucceeds, Initialize
    <3>2. ApplicationTypeInv'
      <4>1. /\ generation' \in Nat /\ loads' \subseteq LoadRecord
            /\ \A l \in loads' : /\ l.generation <= generation'
                                 /\ (l.tenant = NoTenant <=> l.phase = "options")
            /\ \A l, k \in loads' : l.generation = k.generation => l = k
            /\ \E l \in loads' : ForCommand(l)
        BY <1>0, <2>1, <3>1, LoadStarts DEF Causes
      <4> QED
        BY <1>0, <2>1, <2>2, <3>1, <4>1 DEF ApplicationTypeInv, ForCommand, Statuses
    <3>3. LoadsOK'
      BY <1>0, <2>1, <2>3, <3>1, LoadStarts DEF LoadsOK, Current, ForCommand, Causes
    <3>4. UserLoadsShowSelection' /\ ClosedShowsNothing'
      BY <1>0, <2>1, <3>1 DEF UserLoadsShowSelection, ClosedShowsNothing
    <3> QED
      BY <2>2, <3>2, <3>3, <3>4 DEF AppInv
  <2> QED
    BY <2>4, <2>5
<1>3. ASSUME CommandFails PROVE AppInv'
  <2>1. /\ command.phase \in {"sent", "committed"} /\ command'.phase = "idle"
        /\ command' \in CommandRecord
        /\ UNCHANGED <<member, version, authentication, status, tenants, tenantId, shown, error,
                       stored, generation, loads, refreshing, acknowledged>>
    BY <1>3 DEF CommandFails, Idle, CommandRecord
  <2> QED
    BY <1>0, <2>1 DEF AppInv, ApplicationTypeInv, CommandOK, ClosedShowsNothing, LoadsOK, Current,
       ForCommand, UserLoadsShowSelection
<1> QED
  BY <1>1, <1>2, <1>3

LEMMA AppStutters ==
  ASSUME AppInv, UNCHANGED appVars
  PROVE  AppInv'
BY DEF AppInv, appVars, ApplicationTypeInv, CommandOK, ClosedShowsNothing, LoadsOK, Current,
   ForCommand, UserLoadsShowSelection

----------------------------------------------------------------------------
(* The commercial board.                                                   *)

\* Behind a closed gate the board is empty and waits for nothing; behind an
\* open one, everything it shows or waits for is of the selection.
Selected(x) == x.who = authentication /\ x.tenant = tenantId

BoardLoad ==
  [generation : Nat, who : Identities, tenant : Tenants, forCommand : BOOLEAN]

BoardCommand ==
  [phase : {"sent", "reload"}, who : Identities, tenant : Tenants]

BoardOK ==
  /\ boardGeneration \in Nat /\ boardLoads \subseteq BoardLoad
  /\ \A l \in boardLoads : l.generation <= boardGeneration
  /\ boardFlags \subseteq {"loading", "refreshing"}
  /\ board = NoBoard \/ (board \in [who : Identities, tenant : Tenants] /\ Selected(board))
  /\ boardCommand = BoardIdle \/ (boardCommand \in BoardCommand /\ Selected(boardCommand))
  /\ \A l \in boardLoads : Selected(l)
  /\ \A l, k \in boardLoads : l.forCommand /\ k.forCommand => l = k
  /\ boardCommand.phase = "reload" <=> \E l \in boardLoads : l.forCommand
  /\ ~Open => board = NoBoard /\ boardLoads = {} /\ boardCommand = BoardIdle

WorkspaceInv == AppInv /\ BoardOK

\* While the workspace stays open nobody signs in or out and no tenant is chosen.
LEMMA OpenKeepsSelection ==
  ASSUME AppInv, UserActs \/ ApiActs, Open, Open'
  PROVE  UNCHANGED <<authentication, tenantId>>
<1> USE DEF server, screen, Open
<1>1. CASE UserActs
  BY <1>1 DEF UserActs, Authenticate, SignOut, Retry, SelectTenant, Refresh, Submit, Onboard,
     Initialize, ClearScreen
<1>2. CASE \E l \in loads : Answer(l)
  <2>1. PICK l \in loads : Answer(l)
    BY <1>2
  <2>2. CASE AnswerOptions(l)
    BY <2>2 DEF AnswerOptions, AppInv, LoadsOK
  <2>3. CASE AnswerSession(l) \/ AnswerReads(l) \/ DropLoad(l)
    BY <2>3 DEF AnswerSession, AnswerReads, DropLoad
  <2>4. CASE \E failure \in Failures : FailLoad(l, failure)
    BY <2>4 DEF FailLoad, HandleLoadFailure
  <2> QED
    BY <2>1, <2>2, <2>3, <2>4 DEF Answer
<1>3. CASE ServerCommits \/ CommandSucceeds \/ CommandFails
  BY <1>3 DEF ServerCommits, CommandSucceeds, CommandFails, Initialize
<1> QED
  BY <1>1, <1>2, <1>3 DEF ApiActs

\* A load of the board for the selection.
LEMMA BoardLoadStarts ==
  ASSUME AppInv, BoardOK, NEW flag \in {"loading", "refreshing"}, NEW forCommand \in BOOLEAN,
         NEW who \in Identities, NEW tenant \in Tenants,
         StartBoardLoad(who, tenant, flag, forCommand)
  PROVE  /\ boardGeneration' \in Nat /\ boardLoads' \subseteq BoardLoad
         /\ \A l \in boardLoads' : l.generation <= boardGeneration'
         /\ boardFlags' \subseteq {"loading", "refreshing"}
         /\ \A l \in boardLoads' : l \in boardLoads \/ (l.who = who /\ l.tenant = tenant)
         /\ forCommand = FALSE =>
              /\ \A l, k \in boardLoads' : l.forCommand /\ k.forCommand => l = k
              /\ (\E l \in boardLoads' : l.forCommand) <=> (\E l \in boardLoads : l.forCommand)
         /\ forCommand = TRUE /\ (\A l \in boardLoads : ~l.forCommand) =>
              /\ \A l, k \in boardLoads' : l.forCommand /\ k.forCommand => l = k
              /\ \E l \in boardLoads' : l.forCommand
<1> DEFINE new == [generation |-> boardGeneration + 1, who |-> who, tenant |-> tenant,
                   forCommand |-> forCommand]
<1>1. boardLoads' = boardLoads \cup {new} /\ boardGeneration' = boardGeneration + 1
      /\ boardFlags' = boardFlags \cup {flag}
  BY DEF StartBoardLoad
<1>2. /\ new \in BoardLoad /\ new.generation = boardGeneration + 1
      /\ new.who = who /\ new.tenant = tenant /\ new.forCommand = forCommand
  BY DEF BoardOK, BoardLoad
<1> HIDE DEF new
<1>3. \A l \in boardLoads : l \in BoardLoad /\ l.generation \in Nat /\ l.generation <= boardGeneration
  BY DEF BoardOK, BoardLoad
<1>4. /\ boardGeneration' \in Nat /\ boardLoads' \subseteq BoardLoad
      /\ \A l \in boardLoads' : l.generation <= boardGeneration'
      /\ boardFlags' \subseteq {"loading", "refreshing"}
  BY <1>1, <1>2, <1>3 DEF BoardOK
<1>5. \A l \in boardLoads' : l \in boardLoads \/ (l.who = who /\ l.tenant = tenant)
  BY <1>1, <1>2
<1>6. ASSUME forCommand = FALSE
      PROVE  /\ \A l, k \in boardLoads' : l.forCommand /\ k.forCommand => l = k
             /\ (\E l \in boardLoads' : l.forCommand) <=> (\E l \in boardLoads : l.forCommand)
  BY <1>1, <1>2, <1>6 DEF BoardOK
<1>7. ASSUME forCommand = TRUE, \A l \in boardLoads : ~l.forCommand
      PROVE  /\ \A l, k \in boardLoads' : l.forCommand /\ k.forCommand => l = k
             /\ \E l \in boardLoads' : l.forCommand
  BY <1>1, <1>2, <1>7
<1> QED
  BY <1>4, <1>5, <1>6, <1>7

LEMMA FollowKeeps ==
  ASSUME AppInv, AppInv', BoardOK, UserActs \/ ApiActs, Follow
  PROVE  BoardOK'
<1> USE WebAssumption
<1>1. CASE Unmount
  BY <1>1 DEF Unmount, BoardOK, BoardIdle, NoBoard
<1>2. CASE Open' /\ NoEffect
  <2>1. Open /\ UNCHANGED <<authentication, tenantId>>
    BY <1>2, OpenKeepsSelection DEF NoEffect, dependencies
  <2>2. UNCHANGED boardVars
    BY <1>2 DEF NoEffect
  <2> QED
    BY <1>2, <2>1, <2>2 DEF BoardOK, boardVars, Selected
<1>3. CASE Open' /\ Effect
  <2>1. \/ ~Open /\ board = NoBoard /\ boardLoads = {} /\ boardCommand = BoardIdle
        \/ Open /\ UNCHANGED <<authentication, tenantId>>
    BY <1>3, OpenKeepsSelection DEF BoardOK
  <2>2. UNCHANGED boardCommand
    BY <1>3 DEF Effect
  <2>3. /\ board = NoBoard \/ (/\ board \in [who : Identities, tenant : Tenants]
                               /\ board.who = authentication' /\ board.tenant = tenantId')
        /\ boardCommand = BoardIdle \/ (/\ boardCommand \in BoardCommand
                                        /\ boardCommand.who = authentication'
                                        /\ boardCommand.tenant = tenantId')
        /\ \A l \in boardLoads : l.who = authentication' /\ l.tenant = tenantId'
    BY <2>1 DEF BoardOK, Selected
  <2>4. CASE tenantId' = NoTenant \/ authentication' = NoOne
    <3>1. /\ boardGeneration' = boardGeneration + 1 /\ board' = NoBoard
          /\ boardFlags' = boardFlags \ {"loading"} /\ UNCHANGED boardLoads
      BY <1>3, <2>4 DEF Effect
    <3> QED
      BY <1>3, <2>2, <2>3, <3>1 DEF BoardOK, BoardLoad, Selected
  <2>5. CASE tenantId' # NoTenant /\ authentication' # NoOne
    <3>1. /\ StartBoardLoad(authentication', tenantId', "loading", FALSE) /\ UNCHANGED board
          /\ authentication' \in Identities /\ tenantId' \in Tenants
      BY <1>3, <2>5 DEF Effect, AppInv, ApplicationTypeInv
    <3>2. /\ boardGeneration' \in Nat /\ boardLoads' \subseteq BoardLoad
          /\ \A l \in boardLoads' : l.generation <= boardGeneration'
          /\ boardFlags' \subseteq {"loading", "refreshing"}
          /\ \A l \in boardLoads' : l \in boardLoads \/ (l.who = authentication' /\ l.tenant = tenantId')
          /\ \A l, k \in boardLoads' : l.forCommand /\ k.forCommand => l = k
          /\ (\E l \in boardLoads' : l.forCommand) <=> (\E l \in boardLoads : l.forCommand)
      BY <3>1, BoardLoadStarts
    <3>3. boardCommand'.phase = "reload" <=> \E l \in boardLoads' : l.forCommand
      BY <2>2, <3>2 DEF BoardOK
    <3>4. \A l \in boardLoads' : l.who = authentication' /\ l.tenant = tenantId'
      BY <2>3, <3>2
    <3> QED
      BY <1>3, <2>2, <2>3, <3>1, <3>2, <3>3, <3>4 DEF BoardOK, Selected, NoBoard
  <2> QED
    BY <2>4, <2>5
<1> QED
  BY <1>1, <1>2, <1>3 DEF Follow

\* A command that has been sent and has not failed is of the selection.
LEMMA BoardActsKeep ==
  ASSUME AppInv, BoardOK, BoardActs
  PROVE  AppInv' /\ BoardOK'
<1> USE WebAssumption
<1>1. UNCHANGED <<member, version, authentication, status, tenants, tenantId, shown, error, stored,
                  generation, loads, refreshing, command, acknowledged>>
  BY DEF BoardActs, RefreshBoard, SubmitToBoard, BoardCommandSucceeds, BoardCommandFails,
     SettleBoardLoad, appVars, server, screen, work
<1>2. AppInv'
  BY <1>1 DEF AppInv, ApplicationTypeInv, CommandOK, ClosedShowsNothing, LoadsOK, Current,
     ForCommand, UserLoadsShowSelection
<1>3. /\ UNCHANGED <<authentication, tenantId, status>>
      /\ authentication \in Identities \cup {NoOne} /\ tenantId \in Tenants \cup {NoTenant}
  BY <1>1 DEF AppInv, ApplicationTypeInv
<1>4. CASE RefreshBoard
  <2>1. /\ StartBoardLoad(authentication, tenantId, "refreshing", FALSE)
        /\ authentication \in Identities /\ tenantId \in Tenants /\ Open
        /\ UNCHANGED <<board, boardCommand>>
    BY <1>3, <1>4 DEF RefreshBoard, Usable
  <2>2. /\ boardGeneration' \in Nat /\ boardLoads' \subseteq BoardLoad
        /\ \A l \in boardLoads' : l.generation <= boardGeneration'
        /\ boardFlags' \subseteq {"loading", "refreshing"}
        /\ \A l \in boardLoads' : l \in boardLoads \/ (l.who = authentication /\ l.tenant = tenantId)
        /\ \A l, k \in boardLoads' : l.forCommand /\ k.forCommand => l = k
        /\ (\E l \in boardLoads' : l.forCommand) <=> (\E l \in boardLoads : l.forCommand)
    BY <2>1, BoardLoadStarts
  <2> QED
    BY <1>2, <1>3, <2>1, <2>2 DEF BoardOK, Selected, Open
<1>5. CASE SubmitToBoard
  <2>1. /\ boardCommand' = [phase |-> "sent", who |-> authentication, tenant |-> tenantId]
        /\ authentication \in Identities /\ tenantId \in Tenants /\ Open
        /\ boardCommand = BoardIdle
        /\ UNCHANGED <<board, boardGeneration, boardLoads, boardFlags>>
    BY <1>3, <1>5 DEF SubmitToBoard, Usable
  <2>2. boardCommand' \in BoardCommand /\ Selected(boardCommand)' /\ boardCommand'.phase # "reload"
        /\ boardCommand.phase # "reload"
    BY <1>3, <2>1 DEF BoardCommand, Selected, BoardIdle
  <2> QED
    BY <1>2, <1>3, <2>1, <2>2 DEF BoardOK, Selected, Open
<1>6. CASE BoardCommandSucceeds
  <2>1. boardCommand \in BoardCommand /\ Selected(boardCommand) /\ Open
    BY <1>6 DEF BoardCommandSucceeds, BoardOK, BoardIdle
  <2>2. /\ StartBoardLoad(boardCommand.who, boardCommand.tenant, "refreshing", TRUE)
        /\ boardCommand.who \in Identities /\ boardCommand.tenant \in Tenants
        /\ boardCommand.phase = "sent" /\ UNCHANGED board
    BY <1>6, <2>1 DEF BoardCommandSucceeds, BoardCommand
  <2>3. boardCommand' \in BoardCommand /\ Selected(boardCommand)' /\ boardCommand'.phase = "reload"
    BY <1>3, <1>6, <2>1 DEF BoardCommandSucceeds, BoardCommand, Selected
  <2>4. \A l \in boardLoads : ~l.forCommand
    BY <2>2 DEF BoardOK
  <2>5. /\ boardGeneration' \in Nat /\ boardLoads' \subseteq BoardLoad
        /\ \A l \in boardLoads' : l.generation <= boardGeneration'
        /\ boardFlags' \subseteq {"loading", "refreshing"}
        /\ \A l \in boardLoads' : l \in boardLoads \/ (l.who = boardCommand.who /\ l.tenant = boardCommand.tenant)
        /\ \A l, k \in boardLoads' : l.forCommand /\ k.forCommand => l = k
        /\ \E l \in boardLoads' : l.forCommand
    BY <2>2, <2>4, BoardLoadStarts
  <2>6. \A l \in boardLoads' : Selected(l)'
    BY <1>3, <2>1, <2>5 DEF BoardOK, Selected
  <2>7. board' = NoBoard \/ (board' \in [who : Identities, tenant : Tenants] /\ Selected(board)')
    BY <1>3, <2>2 DEF BoardOK, Selected
  <2> QED
    BY <1>2, <1>3, <2>1, <2>3, <2>5, <2>6, <2>7 DEF BoardOK, Open
<1>7. CASE BoardCommandFails
  <2>1. /\ boardCommand' = BoardIdle /\ boardCommand.phase = "sent" /\ BoardIdle.phase = "idle"
        /\ UNCHANGED <<board, boardGeneration, boardLoads, boardFlags>>
    BY <1>7 DEF BoardCommandFails, BoardIdle
  <2> QED
    BY <1>2, <1>3, <2>1 DEF BoardOK, Selected, Open
<1>8. CASE \E l \in boardLoads : SettleBoardLoad(l)
  <2>1. PICK l \in boardLoads : SettleBoardLoad(l)
    BY <1>8
  <2>2. /\ boardLoads' = boardLoads \ {l} /\ UNCHANGED boardGeneration
        /\ boardFlags' \in {{}, boardFlags}
        /\ board' \in {board, [who |-> l.who, tenant |-> l.tenant]}
        /\ boardCommand' = IF l.forCommand THEN BoardIdle ELSE boardCommand
    BY <2>1 DEF SettleBoardLoad
  <2>3. board' = NoBoard \/ (board' \in [who : Identities, tenant : Tenants] /\ Selected(board)')
    BY <1>3, <2>2 DEF BoardOK, BoardLoad, Selected
  <2>4. boardCommand' = BoardIdle \/ (boardCommand' \in BoardCommand /\ Selected(boardCommand)')
    BY <1>3, <2>2 DEF BoardOK, Selected
  <2>5. boardCommand'.phase = "reload" <=> \E k \in boardLoads' : k.forCommand
    BY <2>2 DEF BoardOK, BoardIdle
  <2> QED
    BY <1>2, <1>3, <2>2, <2>3, <2>4, <2>5 DEF BoardOK, Selected, Open
<1> QED
  BY <1>4, <1>5, <1>6, <1>7, <1>8 DEF BoardActs

LEMMA InitWorkspace == WebInit => WorkspaceInv
<1> SUFFICES ASSUME WebInit PROVE WorkspaceInv
  OBVIOUS
<1>1. AppInv
  BY InitApp DEF WebInit
<1>2. BoardOK
  BY DEF WebInit, BoardInit, BoardOK, BoardIdle
<1> QED
  BY <1>1, <1>2 DEF WorkspaceInv

LEMMA NextWorkspace ==
  ASSUME WorkspaceInv, [Next]_vars
  PROVE  WorkspaceInv'
<1>1. CASE AppActs
  <2>1. AppInv'
    BY <1>1, UserKeeps, AnswersKeep, CommandsKeep DEF AppActs, ApiActs, WorkspaceInv
  <2> QED
    BY <1>1, <2>1, FollowKeeps DEF AppActs, WorkspaceInv
<1>2. CASE BoardActs
  BY <1>2, BoardActsKeep DEF WorkspaceInv
<1>3. CASE UNCHANGED vars
  <2>1. AppInv'
    BY <1>3, AppStutters DEF vars, WorkspaceInv
  <2>2. UNCHANGED <<authentication, tenantId, status, board, boardGeneration, boardLoads, boardFlags,
                    boardCommand>>
    BY <1>3 DEF vars, appVars, boardVars
  <2>3. BoardOK'
    BY <2>2 DEF WorkspaceInv, BoardOK, Selected, Open
  <2> QED
    BY <2>1, <2>3 DEF WorkspaceInv
<1> QED
  BY <1>1, <1>2, <1>3 DEF Next, Quiet

LEMMA WorkspaceInvariant == Spec => []WorkspaceInv
<1>1. WebInit => WorkspaceInv
  BY InitWorkspace
<1>2. WorkspaceInv /\ [Next]_vars => WorkspaceInv'
  BY NextWorkspace
<1> QED
  BY <1>1, <1>2, PTL DEF Spec

\* The state of both providers is well-formed whatever the user clicks and
\* however the API answers: loads are told apart by their generation, and a
\* command that reloads waits for exactly one load.
THEOREM WorkspaceTyped == Spec => []TypeInv
<1>1. WorkspaceInv => TypeInv
  BY DEF WorkspaceInv, AppInv, BoardOK, TypeInv
<1> QED
  BY <1>1, WorkspaceInvariant, PTL

\* What a load for the user shows is of the identity that is signed in and of
\* the tenant that is chosen (the generation check of loadTenantData): only the
\* last load started can be shown, and it was started for the selection.
THEOREM LatestSelectionShown == Spec => []UserLoadsShowSelection
<1>1. WorkspaceInv => UserLoadsShowSelection
  BY DEF WorkspaceInv, AppInv
<1> QED
  BY <1>1, WorkspaceInvariant, PTL

\* The CRM and sales boards are of the selection, although the commands of
\* CommercialProvider keep the one they were given under: the selection changes
\* only behind the closed gate, which unmounts the provider.
THEOREM BoardIsOfSelection == Spec => []BoardFollowsSelection
<1>1. WorkspaceInv => BoardFollowsSelection
  BY DEF WorkspaceInv, BoardOK, BoardFollowsSelection, Selected
<1> QED
  BY <1>1, WorkspaceInvariant, PTL

----------------------------------------------------------------------------
(* Commands whose success was reported are shown.                          *)

NoneCurrent == \A l \in loads : ~Current(l)

\* A success starts the newest load, so a current load that has its session
\* asked for it after every success of its tenant; and an open workspace shows
\* one that was current to its end, unless another is on its way.
AcknowledgedOK ==
  /\ \A t \in Tenants : acknowledged[t] <= version[t]
  /\ command.phase = "committed" /\ command.tenant # NoTenant =>
       command.version <= version[command.tenant]
  /\ \A l \in loads : Current(l) /\ l.phase = "reads" => l.asOf >= acknowledged[l.tenant]
  /\ status = "ready" => shown.tenant \in Tenants
  /\ status = "ready" /\ authentication = NoOne => command = Idle /\ NoneCurrent
  /\ status = "ready" /\ NoneCurrent =>
       error = TRUE \/ shown.asOf >= acknowledged[shown.tenant]

LEMMA UserAcknowledges ==
  ASSUME AppInv, AcknowledgedOK, UserActs
  PROVE  AcknowledgedOK'
<1> USE WebAssumption
<1> USE DEF server, screen
<1>0. ApplicationTypeInv /\ CommandOK
  BY DEF AppInv
<1>1. UNCHANGED <<version, acknowledged>>
  BY DEF UserActs, Authenticate, SignOut, Retry, SelectTenant, Refresh, Submit, Onboard
<1>2. CASE /\ status' # "ready" /\ UNCHANGED command
           /\ \A l \in loads' : Current(l)' => l.phase # "reads" \/ (l \in loads /\ Current(l))
  BY <1>1, <1>2 DEF AcknowledgedOK
<1>3. ASSUME NEW cause \in Causes, NEW who \in Identities, NEW tenant \in Tenants \cup {NoTenant},
             NEW phase \in {"options", "session"}, tenant = NoTenant <=> phase = "options",
             StartLoad(cause, who, tenant, phase)
      PROVE  /\ \A l \in loads' : Current(l)' => l.phase # "reads"
             /\ ~NoneCurrent'
  <2>1. \A l \in loads' : Current(l)' => l.phase # "reads"
    BY <1>3, LoadStarts DEF Current
  <2>2. Load(generation + 1, cause, who, tenant, phase) \in loads' /\ generation' = generation + 1
    BY <1>3 DEF StartLoad
  <2>3. ~NoneCurrent'
    BY <2>2 DEF NoneCurrent, Current, Load
  <2> QED
    BY <2>1, <2>3
<1>4. CASE \E who \in Identities : Authenticate(who)
  <2>1. PICK who \in Identities : Authenticate(who)
    BY <1>4
  <2>2. StartLoad("initialize", who, NoTenant, "options") /\ status' = "loading" /\ UNCHANGED command
    BY <2>1 DEF Authenticate, Initialize
  <2> QED
    BY <1>2, <1>3, <2>2 DEF Causes
<1>5. CASE SignOut
  <2>1. UNCHANGED <<command, loads, error>> /\ generation' = generation + 1
    BY <1>5 DEF SignOut
  <2>2. \A l \in loads' : ~Current(l)'
    BY <1>0, <2>1 DEF ApplicationTypeInv, LoadRecord, Current
  <2>3. CASE authentication = NoOne
    <3>1. UNCHANGED <<authentication, status, shown>>
      BY <1>5, <2>3 DEF SignOut
    <3> QED
      BY <1>1, <2>1, <2>2, <2>3, <3>1 DEF AcknowledgedOK, NoneCurrent
  <2>4. CASE authentication # NoOne
    BY <1>2, <1>5, <2>1, <2>2, <2>4 DEF SignOut, ClearScreen
  <2> QED
    BY <2>3, <2>4
<1>6. CASE Retry
  <2>1. CASE authentication = NoOne
    BY <1>2, <1>6, <2>1 DEF Retry, Current
  <2>2. CASE authentication # NoOne
    <3>1. StartLoad("initialize", authentication, NoTenant, "options") /\ authentication \in Identities
          /\ status' = "loading" /\ UNCHANGED command
      BY <1>0, <1>6, <2>2 DEF Retry, Initialize, ApplicationTypeInv
    <3> QED
      BY <1>2, <1>3, <3>1 DEF Causes
  <2> QED
    BY <2>1, <2>2
<1>7. CASE \E t \in Tenants : SelectTenant(t)
  <2>1. PICK t \in Tenants : SelectTenant(t)
    BY <1>7
  <2>2. StartLoad("select", authentication, t, "session") /\ authentication \in Identities
        /\ status' = "loading" /\ UNCHANGED command
    BY <1>0, <2>1 DEF SelectTenant, ApplicationTypeInv
  <2> QED
    BY <1>2, <1>3, <2>2 DEF Causes
<1>8. CASE Refresh
  <2>1. /\ StartLoad("refresh", authentication, tenantId, "session") /\ authentication \in Identities
        /\ tenantId \in Tenants /\ UNCHANGED <<authentication, status, shown, command>>
    BY <1>0, <1>8 DEF Refresh, ApplicationTypeInv
  <2>2. (\A l \in loads' : Current(l)' => l.phase # "reads") /\ ~NoneCurrent'
    BY <1>3, <2>1 DEF Causes
  <2> QED
    BY <1>1, <2>1, <2>2 DEF AcknowledgedOK
<1>9. CASE Submit \/ Onboard
  <2>1. /\ UNCHANGED <<authentication, status, shown, error, loads, generation>>
        /\ command'.phase = "sent" /\ authentication # NoOne
    BY <1>9 DEF Submit, Onboard
  <2> QED
    BY <1>1, <2>1 DEF AcknowledgedOK, NoneCurrent, Current
<1> QED
  BY <1>4, <1>5, <1>6, <1>7, <1>8, <1>9 DEF UserActs

LEMMA AnswersAcknowledge ==
  ASSUME AppInv, AcknowledgedOK, NEW l \in loads, Answer(l)
  PROVE  AcknowledgedOK'
<1> USE WebAssumption
<1> USE DEF server, screen
<1>0. ApplicationTypeInv /\ CommandOK /\ LoadsOK /\ l \in LoadRecord
  BY DEF AppInv, ApplicationTypeInv
<1>1. UNCHANGED <<version, acknowledged, generation>>
  BY DEF Answer, AnswerOptions, AnswerSession, AnswerReads, DropLoad, FailLoad
<1>2. \A t \in Tenants : acknowledged'[t] <= version'[t]
  BY <1>1 DEF AcknowledgedOK
\* A load that ends leaves the others as they are, and a command that it does
\* not end is unchanged.
<1>3. ASSUME EndLoad(l)
      PROVE  /\ loads' = loads \ {l} /\ command' \in {Idle, command}
             /\ Current(l) => NoneCurrent'
             /\ ~Current(l) => (NoneCurrent' => NoneCurrent)
  BY <1>1, <1>3, LoadEnds DEF EndLoad, NoneCurrent, Current
<1>4. ASSUME EndLoad(l)
      PROVE  /\ command'.phase = "committed" /\ command'.tenant # NoTenant =>
                  command'.version <= version'[command'.tenant]
             /\ \A k \in loads' : Current(k)' /\ k.phase = "reads" =>
                  k.asOf >= acknowledged'[k.tenant]
  BY <1>1, <1>3, <1>4 DEF AcknowledgedOK, Idle, Current
<1>5. CASE AnswerOptions(l)
  <2>1. Current(l) /\ l.phase = "options" /\ status = "loading"
    BY <1>0, <1>5 DEF AnswerOptions, LoadsOK
  <2>2. CASE EndLoad(l) /\ status' = "tenant-required"
    BY <1>2, <1>4, <2>2 DEF AcknowledgedOK
  <2>3. CASE \E t \in Tenants :
               /\ loads' = (loads \ {l}) \cup {[l EXCEPT !.tenant = t, !.phase = "session"]}
               /\ UNCHANGED <<status, command>>
    <3>1. PICK t \in Tenants :
            /\ loads' = (loads \ {l}) \cup {[l EXCEPT !.tenant = t, !.phase = "session"]}
            /\ UNCHANGED <<status, command>>
      BY <2>3
    <3>2. [l EXCEPT !.tenant = t, !.phase = "session"].phase = "session"
      BY <1>0 DEF LoadRecord
    <3>3. \A k \in loads' : Current(k)' /\ k.phase = "reads" => k.asOf >= acknowledged'[k.tenant]
      BY <1>1, <3>1, <3>2 DEF AcknowledgedOK, Current
    <3> QED
      BY <1>1, <1>2, <2>1, <3>1, <3>3 DEF AcknowledgedOK
  <2> QED
    BY <1>5, <2>2, <2>3 DEF AnswerOptions
<1>6. CASE AnswerSession(l)
  <2> DEFINE new == [l EXCEPT !.phase = "reads", !.asOf = version[l.tenant]]
  <2>1. l.tenant \in Tenants
    BY <1>0, <1>6 DEF AnswerSession, ApplicationTypeInv, LoadRecord
  <2>2. new.generation = l.generation /\ new.tenant = l.tenant /\ new.asOf = version[l.tenant]
    BY <1>0 DEF LoadRecord
  <2>3. loads' = (loads \ {l}) \cup {new}
        /\ UNCHANGED <<authentication, status, shown, error, command>>
    BY <1>6 DEF AnswerSession
  <2> HIDE DEF new
  <2>4. version[l.tenant] \in Nat /\ acknowledged[l.tenant] \in Nat
        /\ version[l.tenant] >= acknowledged[l.tenant]
    BY <1>0, <2>1 DEF AcknowledgedOK, ApplicationTypeInv
  <2>5. \A k \in loads' : Current(k)' /\ k.phase = "reads" => k.asOf >= acknowledged'[k.tenant]
    BY <1>1, <2>2, <2>3, <2>4 DEF AcknowledgedOK, Current
  <2>6. NoneCurrent' <=> NoneCurrent
    BY <1>1, <2>2, <2>3 DEF NoneCurrent, Current
  <2> QED
    BY <1>1, <1>2, <2>3, <2>5, <2>6 DEF AcknowledgedOK
<1>7. CASE AnswerReads(l)
  <2>1. EndLoad(l) /\ Current(l) /\ l.phase = "reads" /\ l.tenant \in Tenants
    BY <1>0, <1>7 DEF AnswerReads, ApplicationTypeInv, LoadRecord
  <2>2. shown'.tenant = l.tenant /\ shown'.asOf = l.asOf
    BY <1>7 DEF AnswerReads
  <2>3. shown'.asOf >= acknowledged'[shown'.tenant]
    BY <1>1, <2>1, <2>2 DEF AcknowledgedOK
  <2>4. authentication' = NoOne => command' = Idle
    <3>1. CASE ForCommand(l)
      BY <2>1, <3>1 DEF EndLoad, ForCommand
    <3>2. CASE ~ForCommand(l)
      BY <1>0, <1>7, <2>1, <3>2 DEF LoadsOK, AnswerReads, LoadRecord
    <3> QED
      BY <3>1, <3>2
  <2>5. NoneCurrent'
    BY <1>3, <2>1
  <2> QED
    BY <1>2, <1>4, <2>1, <2>2, <2>3, <2>4, <2>5 DEF AcknowledgedOK
<1>8. CASE DropLoad(l)
  <2>1. EndLoad(l) /\ ~Current(l) /\ UNCHANGED <<authentication, status, shown, error>>
    BY <1>8 DEF DropLoad
  <2>2. NoneCurrent => NoneCurrent'
    BY <1>1, <1>3, <2>1 DEF NoneCurrent, Current
  <2>3. command = Idle => command' = Idle
    BY <1>3, <2>1
  <2> QED
    BY <1>1, <1>2, <1>3, <1>4, <2>1, <2>2, <2>3 DEF AcknowledgedOK
<1>9. CASE \E failure \in Failures : FailLoad(l, failure)
  <2>1. EndLoad(l) /\ Current(l) /\ error' = TRUE
    BY <1>9 DEF FailLoad, HandleLoadFailure
  <2>2. status' # "ready" \/ UNCHANGED <<authentication, status, shown>>
    BY <1>9 DEF FailLoad, HandleLoadFailure
  <2>3. status = "ready" => authentication # NoOne
    BY <2>1 DEF AcknowledgedOK, NoneCurrent
  <2> QED
    BY <1>2, <1>4, <2>1, <2>2, <2>3 DEF AcknowledgedOK
<1> QED
  BY <1>5, <1>6, <1>7, <1>8, <1>9 DEF Answer

LEMMA CommandsAcknowledge ==
  ASSUME AppInv, AcknowledgedOK, ServerCommits \/ CommandSucceeds \/ CommandFails
  PROVE  AcknowledgedOK'
<1> USE WebAssumption
<1> USE DEF server, screen
<1>0. ApplicationTypeInv /\ CommandOK
  BY DEF AppInv
<1>1. CASE ServerCommits
  <2>1. UNCHANGED <<authentication, status, shown, error, generation, loads, acknowledged>>
        /\ command.phase = "sent"
    BY <1>1 DEF ServerCommits
  <2>2. status = "ready" => authentication # NoOne
    BY <2>1 DEF AcknowledgedOK, Idle
  <2>3. \A t \in Tenants : acknowledged'[t] <= version'[t]
    <3>1. UNCHANGED version
          \/ (command.tenant \in Tenants /\ version' = [version EXCEPT ![command.tenant] = @ + 1])
      BY <1>0, <1>1 DEF ServerCommits, CommandOK, CommandRecord
    <3> QED
      BY <1>0, <2>1, <3>1 DEF AcknowledgedOK, ApplicationTypeInv
  <2>4. command'.phase = "committed" /\ command'.tenant # NoTenant =>
          command'.version <= version'[command'.tenant]
    <3>1. CASE command.tenant # NoTenant
      <4>1. /\ command' = [command EXCEPT !.phase = "committed", !.version = version'[command.tenant]]
            /\ version' = [version EXCEPT ![command.tenant] = @ + 1] /\ command.tenant \in Tenants
        BY <1>0, <1>1, <3>1 DEF ServerCommits, CommandOK, CommandRecord
      <4>2. command'.version = version'[command'.tenant] /\ version'[command.tenant] \in Nat
            /\ command'.tenant = command.tenant
        BY <1>0, <4>1 DEF CommandOK, CommandRecord, ApplicationTypeInv
      <4> QED
        BY <4>2
    <3>2. CASE command.tenant = NoTenant
      <4>1. command' = [command EXCEPT !.phase = "committed"]
        BY <1>1, <3>2 DEF ServerCommits
      <4> QED
        BY <1>0, <3>2, <4>1 DEF CommandOK, CommandRecord
    <3> QED
      BY <3>1, <3>2
  <2> QED
    BY <2>1, <2>2, <2>3, <2>4 DEF AcknowledgedOK, NoneCurrent, Current
<1>2. CASE CommandSucceeds
  <2>1. /\ command.phase = "committed" /\ command.who \in Identities
        /\ command' = [command EXCEPT !.phase = "reload"] /\ UNCHANGED <<version, authentication, shown>>
    BY <1>0, <1>2 DEF CommandSucceeds, CommandOK
  <2>2. command'.phase = "reload"
    BY <1>0, <2>1 DEF CommandOK, CommandRecord
  <2>3. status = "ready" => authentication # NoOne
    BY <2>1 DEF AcknowledgedOK, Idle
  <2>4. CASE command.tenant # NoTenant
    <3>1. /\ StartLoad("command", command.who, command.tenant, "session")
          /\ command.tenant \in Tenants /\ UNCHANGED status
          /\ acknowledged' = [acknowledged EXCEPT ![command.tenant] = command.version]
      BY <1>0, <1>2, <2>4 DEF CommandSucceeds, CommandOK, CommandRecord
    <3>2. \A t \in Tenants : acknowledged'[t] <= version'[t]
      BY <1>0, <2>1, <2>4, <3>1 DEF AcknowledgedOK, ApplicationTypeInv
    <3>3. \A k \in loads' : Current(k)' => k.phase = "session"
      BY <2>1, <3>1, LoadStarts DEF Current, Causes
    <3>4. ~NoneCurrent'
      <4>1. Load(generation + 1, "command", command.who, command.tenant, "session") \in loads'
            /\ generation' = generation + 1
        BY <3>1 DEF StartLoad
      <4>2. Load(generation + 1, "command", command.who, command.tenant, "session").generation
              = generation + 1
        BY DEF Load
      <4> QED
        BY <4>1, <4>2 DEF NoneCurrent, Current
    <3> QED
      BY <2>1, <2>2, <2>3, <3>1, <3>2, <3>3, <3>4 DEF AcknowledgedOK
  <2>5. CASE command.tenant = NoTenant
    <3>1. /\ StartLoad("onboarding", command.who, NoTenant, "options")
          /\ status' = "loading" /\ UNCHANGED acknowledged
      BY <1>2, <2>5 DEF CommandSucceeds, Initialize
    <3>2. \A k \in loads' : Current(k)' => k.phase = "options"
      BY <2>1, <3>1, LoadStarts DEF Current, Causes
    <3> QED
      BY <2>1, <2>2, <3>1, <3>2 DEF AcknowledgedOK
  <2> QED
    BY <2>4, <2>5
<1>3. CASE CommandFails
  <2>1. /\ command' = Idle
        /\ UNCHANGED <<version, authentication, status, shown, error, generation, loads, acknowledged>>
    BY <1>3 DEF CommandFails
  <2> QED
    BY <2>1 DEF AcknowledgedOK, Idle, NoneCurrent, Current
<1> QED
  BY <1>1, <1>2, <1>3

LEMMA InitAcknowledged == WebInit => AcknowledgedOK
<1> SUFFICES ASSUME WebInit PROVE AcknowledgedOK
  OBVIOUS
<1>1. Init /\ status # "ready" /\ command.phase = "idle"
  BY DEF WebInit, Init, Idle
<1>2. \A l \in loads : l.phase = "options"
  BY <1>1 DEF Init, Load
<1>3. \A t \in Tenants : acknowledged[t] <= version[t]
  BY <1>1 DEF Init
<1> QED
  BY <1>1, <1>2, <1>3 DEF AcknowledgedOK

LEMMA NextAcknowledged ==
  ASSUME WorkspaceInv, AcknowledgedOK, [Next]_vars
  PROVE  AcknowledgedOK'
<1>1. AppInv
  BY DEF WorkspaceInv
<1>2. CASE AppActs
  BY <1>1, <1>2, UserAcknowledges, AnswersAcknowledge, CommandsAcknowledge DEF AppActs, ApiActs
<1>3. CASE BoardActs \/ UNCHANGED vars
  <2>1. UNCHANGED <<version, authentication, status, shown, error, generation, loads, command,
                    acknowledged>>
    BY <1>3 DEF BoardActs, RefreshBoard, SubmitToBoard, BoardCommandSucceeds, BoardCommandFails,
       SettleBoardLoad, vars, appVars, server, screen, work
  <2> QED
    BY <2>1 DEF AcknowledgedOK, NoneCurrent, Current
<1> QED
  BY <1>2, <1>3 DEF Next, Quiet

\* A command whose success was reported is on the screen when all is quiet: the
\* reload that runMutation awaits, or whatever load came after it, asked for its
\* read models after the command had committed.
THEOREM ReportedIsShown == Spec => []OwnCommandsShown
<1>1. WebInit => WorkspaceInv /\ AcknowledgedOK
  BY InitWorkspace, InitAcknowledged
<1>2. (WorkspaceInv /\ AcknowledgedOK) /\ [Next]_vars => (WorkspaceInv /\ AcknowledgedOK)'
  BY NextWorkspace, NextAcknowledged
<1>3. WorkspaceInv /\ AcknowledgedOK => OwnCommandsShown
  <2> SUFFICES ASSUME AcknowledgedOK PROVE OwnCommandsShown
    OBVIOUS
  <2>1. loads = {} => NoneCurrent
    BY DEF NoneCurrent
  <2> QED
    BY <2>1 DEF AcknowledgedOK, OwnCommandsShown
<1> QED
  BY <1>1, <1>2, <1>3, PTL DEF Spec
=============================================================================
