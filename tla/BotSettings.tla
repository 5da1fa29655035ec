----------------------------- MODULE BotSettings -----------------------------
(***************************************************************************)
(* The settings file of the bot: what state.py's Settings makes of it and  *)
(* how the bot's tasks change it.  Every change is one read-merge-write    *)
(* without an await, so it is one step of the event loop; the file can     *)
(* still be damaged, or replaced by the worker, from outside.              *)
(***************************************************************************)
EXTENDS Naturals, FiniteSets

CONSTANTS
  Users,      \* Discord users
  Owner,      \* DISCORD_OWNER_ID
  EnvGrants,  \* EnvGrants[k]: the users the environment puts on a list
  EnvChannel, \* HOMELAB_CONTROL_RELEASE_CHANNEL
  EnvMode,    \* HOMELAB_CONTROL_AUTO_UPDATE_MODE
  Damaged,    \* a settings file that cannot be read
  NoNotice    \* no post-update notice

IdentityKinds == {"superuserIds", "adminUserIds", "guestUserIds"}
Channels == {"stable", "beta"}
Modes    == {"off", "daily", "weekly", "hotfix"}

ASSUME OwnerAssumption == Owner \in Users
ASSUME GrantsAssumption == EnvGrants \in [IdentityKinds -> SUBSET Users]
ASSUME ScheduleAssumption == EnvChannel \in Channels /\ EnvMode \in Modes

VARIABLE settings   \* settings.json: its fields, or Damaged

\* A missing file, or the one a reset leaves: the environment decides.
EmptyFile ==
  [ids |-> [k \in IdentityKinds |-> {}], disabled |-> [k \in IdentityKinds |-> {}],
   channel |-> EnvChannel, mode |-> EnvMode, confirmed |-> FALSE, notice |-> NoNotice]

Denied(raw, k) == IF k = "superuserIds" THEN raw.disabled[k] \ {Owner} ELSE raw.disabled[k]

\* The lists merge the environment and the file, without the deny-list.  The
\* owner is on no deny-list of superusers.
Normalise(raw) ==
  [raw EXCEPT
     !.disabled = [k \in IdentityKinds |-> Denied(raw, k)],
     !.ids = [k \in IdentityKinds |->
        (EnvGrants[k] \cup (IF k = "superuserIds" THEN {Owner} ELSE {}) \cup raw.ids[k])
           \ Denied(raw, k)]]

\* Settings.read; a damaged file is an error, never the environment's grants.
Readable == settings # Damaged
Saved    == Normalise(settings)

\* Settings.update with the fields of a patch, here a record of the same shape.
Save(value) == Readable /\ settings' = Normalise(value)

Grant(u, k)  == Save([Saved EXCEPT !.ids[k] = @ \cup {u}, !.disabled[k] = @ \ {u}])

\* Wrong on purpose: the user leaves the list but is not denied.
RevokeUndenied(u, k) ==
  /\ ~(u = Owner /\ k = "superuserIds")
  /\ Save([Saved EXCEPT !.ids[k] = @ \ {u}])

\* The configured owner cannot be removed from the superusers.
Revoke(u, k) ==
  /\ ~(u = Owner /\ k = "superuserIds")
  /\ Save([Saved EXCEPT !.ids[k] = @ \ {u}, !.disabled[k] = @ \cup {u}])

\* dispatch: auto_mode is refused on Beta, leaving Beta switches updates off.
SetMode(m)  == Readable /\ Saved.channel # "beta" /\ Save([Saved EXCEPT !.mode = m])
LeaveBeta   == Save([Saved EXCEPT !.channel = "stable", !.confirmed = FALSE, !.mode = "off"])

\* execute: the confirmed beta action.
JoinBeta    == Save([Saved EXCEPT !.channel = "beta", !.confirmed = TRUE, !.mode = "daily"])

SaveNotice(n) == Save([Saved EXCEPT !.notice = n])

\* Settings.consume_notice writes only if there is one.
ConsumeNotice ==
  IF Saved.notice # NoNotice THEN SaveNotice(NoNotice) ELSE UNCHANGED settings

\* Settings.access: the owner is decided before the file is read.
Access(u) ==
  IF u = Owner THEN "superuser"
  ELSE IF ~Readable THEN "none"
  ELSE IF u \in Saved.ids["superuserIds"] THEN "superuser"
  ELSE IF u \in Saved.ids["adminUserIds"] THEN "admin"
  ELSE IF u \in Saved.ids["guestUserIds"] THEN "guest" ELSE "none"

\* Controller.require.
Permits(u, superuser) ==
  Access(u) = "superuser" \/ (~superuser /\ Access(u) = "admin")

SettingsType ==
  settings = Damaged \/
  (/\ DOMAIN settings = DOMAIN EmptyFile
   /\ settings.ids \in [IdentityKinds -> SUBSET Users]
   /\ settings.disabled \in [IdentityKinds -> SUBSET Users]
   /\ settings.channel \in Channels /\ settings.mode \in Modes
   /\ settings.confirmed \in BOOLEAN)
=============================================================================
