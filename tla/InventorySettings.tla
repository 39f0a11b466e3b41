-------------------------- MODULE InventorySettings --------------------------
(***************************************************************************)
(* The settings handlers of apps/api/src/inventory.ts: one row per tenant, *)
(* made with the default aging buckets by whoever looks at it first, read  *)
(* with its version, and updated if it still has that version.  The aging  *)
(* report starts with the same look.                                       *)
(***************************************************************************)
EXTENDS DomainCommands

CONSTANT DefaultBuckets   \* DEFAULT_AGING_BUCKETS

VARIABLE settings         \* tenant_inventory_settings

SettingsOps == {"view-settings", "update-settings"}

NoSettings == [version |-> 0, buckets |-> None]

Shown == Stored("settings", settings.version, <<settings.buckets>>)

\* A settings response is loaded again after the batch or the replay.
SettingsReplay(c) ==
  /\ command[c].op = "update-settings" /\ Reads(c, "replay")
  /\ \/ LiveClaims(c) = {} /\ Goto(c, "settings")
     \/ \E row \in LiveClaims(c) :
          IF row.hash = Hash(c) THEN Goto(c, "show-replayed") ELSE Refuse(c, "key-conflict")
  /\ UNCHANGED settings

\* ensureSettings: the row as it is, or the default row and a second look.
\* An update does not ask whether its INSERT found the row taken.
ReadSettings(c) ==
  /\ pc[c] = "settings" /\ settings # NoSettings
  /\ IF command[c].op = "update-settings"
     THEN /\ seen' = [seen EXCEPT ![c].version = settings.version]
          /\ Goto(c, "batch")
     ELSE /\ Respond(c, "ok", None, Shown)
          /\ UNCHANGED seen
  /\ UNCHANGED <<idempotency, outbox, command, settings>>

MissSettings(c) ==
  Reads(c, "settings") /\ settings = NoSettings /\ Goto(c, "initialize") /\ UNCHANGED settings

\* INSERT OR IGNORE
InitializeSettings(c) ==
  /\ Reads(c, "initialize")
  /\ settings' = IF settings = NoSettings THEN [version |-> 1, buckets |-> DefaultBuckets]
                                          ELSE settings
  /\ Goto(c, "settings")

\* The UPDATE matches nothing when the version has moved on; the idempotency
\* row and the event are written all the same.
CommitSettings(c) ==
  /\ command[c].op = "update-settings"
  /\ Write(c, "settings", Stored("settings", seen[c].version + 1, <<>>), <<command[c].buckets>>)
  /\ settings' = IF settings.version = seen[c].version
                 THEN [version |-> seen[c].version + 1, buckets |-> command[c].buckets]
                 ELSE settings
  /\ Goto(c, "show")

\* runInventoryBatch: a concurrent call with the key has done the work.
AbortSettings(c) ==
  /\ command[c].op = "update-settings" /\ Claimed(c) /\ Reads(c, "batch")
  /\ \/ LiveClaims(c) = {} /\ Refuse(c, "server-error")
     \/ \E row \in LiveClaims(c) :
          IF row.hash = Hash(c) THEN Goto(c, "show") ELSE Refuse(c, "key-conflict")
  /\ UNCHANGED settings

\* The second ensureSettings: the answer is what is stored now.
ShowSettings(c) ==
  /\ pc[c] \in {"show", "show-replayed"}
  /\ \E row \in Claims(c) :
       Respond(c, IF pc[c] = "show" THEN "ok" ELSE "replayed", row.by, Shown)
  /\ UNCHANGED <<idempotency, outbox, command, seen, settings>>

SettingsStep(c) ==
  /\ command[c].op \in SettingsOps
  /\ \/ SettingsReplay(c) \/ ReadSettings(c) \/ MissSettings(c) \/ InitializeSettings(c)
     \/ CommitSettings(c) \/ AbortSettings(c) \/ ShowSettings(c)
=============================================================================
