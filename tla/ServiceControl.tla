---------------------------- MODULE ServiceControl ----------------------------
(***************************************************************************)
(* Service control end to end: confirmations of the bot send actions to    *)
(* the agent, its control panel changes the policy the agent checks them   *)
(* against, while access changes and either program is recreated.          *)
(***************************************************************************)
EXTENDS Confirmations

CONSTANTS Guarded, Changers, Listers, Actors, Inodes, EnvControlMode, Torn, None,
          MaxEdits, MaxRestarts   \* bounds

VARIABLES content, live, tmp, changer, actor, lister, cache, sole, answer,
          promise, edits, restarts   \* counters

ASSUME ControlModeAssumption == EnvControlMode \in {"opt-in", "opt-out"}
ASSUME InodeAssumption == /\ IsFiniteSet(Inodes) /\ IsFiniteSet(Changers)
                          /\ Cardinality(Inodes) > Cardinality(Changers) + 1
ASSUME NullAssumption == /\ None \notin Targets /\ None \notin Inodes /\ None \notin Changers
                         /\ None \notin {"on", "off", "unset"}

Policy == INSTANCE ControlPolicy WITH Idents <- Targets

ASSUME TornAssumption == Torn \notin Policy!Policies

agentVars == <<content, live, tmp, changer, actor, lister, cache, sole, answer, promise>>
vars == <<settings, panelVars, agentVars, edits, restarts>>
counters == <<edits, restarts>>

Init ==
  /\ PanelInit /\ Policy!PolicyInit
  /\ edits = 0 /\ restarts = 0

TypeOK == PanelType /\ Policy!PolicyType

\* A change made in the controls panel by an administrator.
ChangePolicy ==
  /\ edits < MaxEdits
  /\ \E u \in Users : Permits(u, FALSE)
  /\ \E t \in Changers :
       \/ \E i \in Targets, to \in {"on", "off"} : Policy!RequestOverride(t, i, to)
       \/ \E m \in Policy!ControlModes : Policy!RequestMode(t, m)
  /\ edits' = edits + 1
  /\ UNCHANGED <<settings, panelVars, restarts>>

\* The request of a confirmed panel reaches a thread of the agent.
SendAction(c) ==
  /\ Post(c)
  /\ \E t \in Actors : Policy!RequestAction(t, panel[c].target)
  /\ UNCHANGED counters

\* A superuser edits the access lists.
EditAccess ==
  /\ edits < MaxEdits
  /\ \E by \in Users : Permits(by, TRUE)
  /\ \E u \in Users, k \in IdentityKinds : GrantUser(u, k) \/ RevokeUser(u, k)
  /\ edits' = edits + 1
  /\ UNCHANGED <<agentVars, restarts>>

Damage ==
  /\ edits < MaxEdits
  /\ DamageFile
  /\ edits' = edits + 1
  /\ UNCHANGED <<agentVars, restarts>>

PanelStep ==
  /\ \E c \in Panels :
       \/ \E u \in Users : \/ \E i \in Targets : Ask(c, u, i)
                           \/ Press(c, u) \/ Cancel(c, u)
       \/ ExpirePanel(c)
  /\ UNCHANGED <<agentVars, counters>>

AgentStep ==
  /\ \/ Policy!PolicyStep \/ Policy!Expire
     \/ \E t \in Listers : Policy!ReadList(t)
  /\ UNCHANGED <<settings, panelVars, counters>>

Restarts ==
  /\ restarts < MaxRestarts
  /\ restarts' = restarts + 1
  /\ \/ Policy!AgentRestart /\ UNCHANGED <<settings, panelVars>>
     \/ BotRestart /\ UNCHANGED agentVars
  /\ UNCHANGED edits

Next ==
  \/ ChangePolicy \/ (\E c \in Panels : SendAction(c)) \/ EditAccess \/ Damage
  \/ PanelStep \/ AgentStep \/ Restarts

Spec == Init /\ [][Next]_vars

-----------------------------------------------------------------------------
(* Properties; ListsAreDecisions and GrantedToEntitled are those of        *)
(* Confirmations.                                                          *)

\* README.md: "protected containers and explicit opt-outs remain read-only",
\* as long as no two changes of the policy overlap.
PromiseHolds == Policy!PromiseHolds

\* The answer to a change shows the rows as they are after it.
AnswerShowsChange == Policy!AnswerShowsChange

\* An action that passes manage_service's check is for a container that is not
\* protected and was not switched off by an acknowledged change, since which no
\* two changes have overlapped, however old the list and the confirmation it
\* was started from.
ActionHonoursPolicy ==
  [][\A t \in Actors :
       (actor[t].at = "check" /\ actor'[t].at = "docker")
         => promise[actor[t].of] # "off" /\ actor[t].of \notin Guarded]_vars
=============================================================================
