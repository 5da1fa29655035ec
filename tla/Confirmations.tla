---------------------------- MODULE Confirmations ----------------------------
(***************************************************************************)
(* The bot's side of an action: its confirmation panels, which expire and  *)
(* are used once, and who may use them while access is granted, revoked    *)
(* and lost.  A press runs without an await up to the access check of      *)
(* execute; the request to the agent leaves later.                         *)
(***************************************************************************)
EXTENDS BotSettings

CONSTANTS
  Panels,   \* confirmation panels, in the order they are opened: 1..n
  Targets,  \* containers
  Nobody    \* the user of a panel that was not opened yet

ASSUME PanelsAssumption == Panels \subseteq Nat /\ IsFiniteSet(Panels)

VARIABLES
  panel,   \* panel[c]: its user, target, and whether it is open, used, ...
  member   \* history: member[k]: who should be on list k, by the decisions made

panelVars == <<panel, member>>

States == {"closed", "open", "expired", "cancelled", "granted", "refused", "posted"}

PanelInit ==
  /\ settings = EmptyFile
  /\ panel = [c \in Panels |-> [state |-> "closed", user |-> Nobody, target |-> Nobody,
                                entitled |-> FALSE]]
  /\ member = [k \in IdentityKinds |->
                 EnvGrants[k] \cup IF k = "superuserIds" THEN {Owner} ELSE {}]

PanelType ==
  /\ SettingsType
  /\ \A c \in Panels :
       /\ panel[c].state \in States
       /\ panel[c].user \in Users \cup {Nobody} /\ panel[c].target \in Targets \cup {Nobody}

\* Who may act by the decisions made: an administrator, a superuser, and when
\* the settings are damaged the owner alone.
Entitled(u) ==
  u = Owner \/ (Readable /\ u \in member["superuserIds"] \cup member["adminUserIds"])

\* dispatch: the button is pressed and confirm opens a panel of its own.
Ask(c, u, target) ==
  /\ panel[c].state = "closed"
  /\ \A d \in Panels : d < c => panel[d].state # "closed"
  /\ Permits(u, FALSE)
  /\ panel' = [panel EXCEPT ![c] = [state |-> "open", user |-> u, target |-> target,
                                    entitled |-> FALSE]]
  /\ UNCHANGED <<settings, member>>

\* Sixty seconds pass.
ExpirePanel(c) ==
  /\ panel[c].state = "open"
  /\ panel' = [panel EXCEPT ![c].state = "expired"]
  /\ UNCHANGED <<settings, member>>

\* interaction_check, and the callback's test of used and expires.
Pressable(c, u) == panel[c].state = "open" /\ u = panel[c].user /\ Access(u) # "none"

\* Wrong on purpose: who could open the panel may use it.
PressTrusting(c, u) ==
  /\ Pressable(c, u)
  /\ panel' = [panel EXCEPT ![c].state = "granted",
                            ![c].entitled = Entitled(u)]
  /\ UNCHANGED <<settings, member>>

\* Confirm: used is set and execute requires access again.
Press(c, u) ==
  /\ Pressable(c, u)
  /\ panel' = [panel EXCEPT ![c].state = IF Permits(u, FALSE) THEN "granted" ELSE "refused",
                            ![c].entitled = Entitled(u)]
  /\ UNCHANGED <<settings, member>>

\* Cancel, or Back to home.
Cancel(c, u) ==
  /\ Pressable(c, u)
  /\ panel' = [panel EXCEPT ![c].state = "cancelled"]
  /\ UNCHANGED <<settings, member>>

\* execute sends the request to the agent.
Post(c) ==
  /\ panel[c].state = "granted"
  /\ panel' = [panel EXCEPT ![c].state = "posted"]
  /\ UNCHANGED <<settings, member>>

\* The bot is recreated: its views, and what execute was about to send, are gone.
BotRestart ==
  /\ panel' = [c \in Panels |-> IF panel[c].state \in {"open", "granted"}
                                THEN [panel[c] EXCEPT !.state = "expired"] ELSE panel[c]]
  /\ UNCHANGED <<settings, member>>

-----------------------------------------------------------------------------
(* The access panel, and a damaged file.                                   *)

GrantUser(u, k) ==
  /\ Grant(u, k)
  /\ member' = [member EXCEPT ![k] = @ \cup {u}]
  /\ UNCHANGED panel

RevokeUser(u, k) ==
  /\ Revoke(u, k)
  /\ member' = [member EXCEPT ![k] = @ \ {u}]
  /\ UNCHANGED panel

DamageFile == Readable /\ settings' = Damaged /\ UNCHANGED panelVars

-----------------------------------------------------------------------------
(* Properties.                                                             *)

\* The lists in force are the decisions made: an environment grant is on them
\* until it is revoked, and who was revoked stays off them, the owner apart,
\* through every merge of the file with the environment.
ListsAreDecisions ==
  Readable => \A k \in IdentityKinds : Saved.ids[k] = member[k]

\* Who confirms is entitled to it when confirming, however long ago the panel
\* was opened, and a damaged file leaves that to the owner.
GrantedToEntitled ==
  \A c \in Panels : panel[c].state \in {"granted", "posted"} => panel[c].entitled
=============================================================================
