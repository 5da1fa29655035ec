------------------------- MODULE ServiceControlProofs -------------------------
(***************************************************************************)
(* Theorems about who may use a confirmation and about what an action is   *)
(* checked against, for every set of users, panels, containers and threads *)
(* and any number of edits and restarts.                                   *)
(***************************************************************************)
EXTENDS ServiceControl, FiniteSetTheorems, TLAPS

-----------------------------------------------------------------------------
(* Access: the settings file and the confirmation panels.                  *)

Lists == [IdentityKinds -> SUBSET Users]

Files == [ids : Lists, disabled : Lists, channel : Channels, mode : Modes,
          confirmed : BOOLEAN, notice : {NoNotice}]

AccessShape ==
  /\ settings \in Files \cup {Damaged}
  /\ panel \in [Panels -> [state : States, user : Users \cup {Nobody},
                           target : Targets \cup {Nobody}, entitled : BOOLEAN]]
  /\ member \in Lists

\* An opened panel names a container.
PanelsName == \A c \in Panels : panel[c].state # "closed" => panel[c].target \in Targets

AccessInv == AccessShape /\ PanelsName /\ ListsAreDecisions /\ GrantedToEntitled

\* The list in force: what the environment and the file grant, less the denied.
InForce(raw, k) ==
  (EnvGrants[k] \cup (IF k = "superuserIds" THEN {Owner} ELSE {}) \cup raw.ids[k]) \ Denied(raw, k)

\* Normalise fills the two lists and leaves the rest.
LEMMA NormaliseValue ==
  ASSUME NEW raw \in Files
  PROVE  /\ Normalise(raw) \in Files
         /\ \A k \in IdentityKinds : /\ Normalise(raw).ids[k] = InForce(raw, k)
                                     /\ Normalise(raw).disabled[k] = Denied(raw, k)
<1> DEFINE own(k) == IF k = "superuserIds" THEN {Owner} ELSE {}
           denied == [k \in IdentityKinds |-> Denied(raw, k)]
           ids == [k \in IdentityKinds |-> (EnvGrants[k] \cup own(k) \cup raw.ids[k]) \ Denied(raw, k)]
<1>1. denied \in Lists
  BY DEF Denied, Lists, Files
<1>2. ids \in Lists
  BY OwnerAssumption, GrantsAssumption DEF Denied, Lists, Files
<1>3. Normalise(raw) = [raw EXCEPT !.disabled = denied, !.ids = ids]
  BY DEF Normalise
<1> HIDE DEF denied, ids
<1>4. /\ Normalise(raw) \in Files
      /\ Normalise(raw).ids = ids /\ Normalise(raw).disabled = denied
  BY <1>1, <1>2, <1>3 DEF Files
<1> QED BY <1>4 DEF denied, ids, InForce

\* Saving lists that are in force already keeps them, one user apart: who is
\* taken off the deny-list is let in, who is denied is out, nobody else moves.
LEMMA SaveValue ==
  ASSUME NEW value \in Files, Save(value)
  PROVE  /\ settings' \in Files
         /\ (settings' # Damaged) => \A k \in IdentityKinds :
              Saved'.ids[k] = InForce(value, k)
<1>1. settings' = Normalise(value)
  BY DEF Save
<1>2. Saved' = Normalise(Normalise(value))
  BY <1>1 DEF Saved
<1>3. Normalise(value) \in Files
  BY NormaliseValue
<1>4. ASSUME NEW k \in IdentityKinds
      PROVE  InForce(Normalise(value), k) = InForce(value, k)
  <2>1. Denied(Normalise(value), k) = Denied(value, k)
    BY NormaliseValue DEF Denied
  <2> QED BY <2>1, NormaliseValue DEF InForce
<1> QED BY <1>1, <1>2, <1>3, <1>4, NormaliseValue

LEMMA GrantKeepsLists ==
  ASSUME AccessInv, NEW u \in Users, NEW k \in IdentityKinds, GrantUser(u, k)
  PROVE  AccessInv'
<1> DEFINE value == [Saved EXCEPT !.ids[k] = @ \cup {u}, !.disabled[k] = @ \ {u}]
<1>1. Readable /\ settings \in Files
  BY DEF GrantUser, Grant, Save, AccessInv, AccessShape, Readable
<1>2. Saved \in Files
  BY <1>1, NormaliseValue DEF Saved
<1>3. /\ value \in Files
      /\ \A l \in IdentityKinds :
           /\ value.ids[l] = IF l = k THEN Saved.ids[l] \cup {u} ELSE Saved.ids[l]
           /\ value.disabled[l] = IF l = k THEN Saved.disabled[l] \ {u} ELSE Saved.disabled[l]
  BY <1>2 DEF Files, Lists
<1>4. Save(value)
  BY DEF GrantUser, Grant
<1> HIDE DEF value
<1>5. /\ settings' \in Files
      /\ Readable' => \A l \in IdentityKinds : Saved'.ids[l] = InForce(value, l)
  BY <1>3, <1>4, SaveValue DEF Readable
<1>6. ASSUME NEW l \in IdentityKinds
      PROVE  InForce(value, l) = IF l = k THEN Saved.ids[l] \cup {u} ELSE Saved.ids[l]
  <2>1. /\ Saved.ids[l] = InForce(settings, l)
        /\ Saved.disabled[l] = Denied(settings, l)
    BY <1>1, NormaliseValue DEF Saved
  <2>2. Denied(value, l) = IF l = k THEN Denied(settings, l) \ {u} ELSE Denied(settings, l)
    BY <1>3, <2>1 DEF Denied
  <2> QED BY <1>3, <2>1, <2>2 DEF InForce
<1>7. member' = [member EXCEPT ![k] = @ \cup {u}] /\ panel' = panel
  BY DEF GrantUser
<1>8. AccessShape'
  BY <1>5, <1>7 DEF AccessInv, AccessShape, Lists
<1>9. ListsAreDecisions'
  BY <1>1, <1>5, <1>6, <1>7 DEF AccessInv, AccessShape, ListsAreDecisions, Lists
<1> QED BY <1>7, <1>8, <1>9 DEF AccessInv, GrantedToEntitled, PanelsName

LEMMA RevokeKeepsLists ==
  ASSUME AccessInv, NEW u \in Users, NEW k \in IdentityKinds, RevokeUser(u, k)
  PROVE  AccessInv'
<1> DEFINE value == [Saved EXCEPT !.ids[k] = @ \ {u}, !.disabled[k] = @ \cup {u}]
<1>1. Readable /\ settings \in Files /\ ~(u = Owner /\ k = "superuserIds")
  BY DEF RevokeUser, Revoke, Save, AccessInv, AccessShape, Readable
<1>2. Saved \in Files
  BY <1>1, NormaliseValue DEF Saved
<1>3. /\ value \in Files
      /\ \A l \in IdentityKinds :
           /\ value.ids[l] = IF l = k THEN Saved.ids[l] \ {u} ELSE Saved.ids[l]
           /\ value.disabled[l] = IF l = k THEN Saved.disabled[l] \cup {u} ELSE Saved.disabled[l]
  BY <1>2 DEF Files, Lists
<1>4. Save(value)
  BY DEF RevokeUser, Revoke
<1> HIDE DEF value
<1>5. /\ settings' \in Files
      /\ Readable' => \A l \in IdentityKinds : Saved'.ids[l] = InForce(value, l)
  BY <1>3, <1>4, SaveValue DEF Readable
<1>6. ASSUME NEW l \in IdentityKinds
      PROVE  InForce(value, l) = IF l = k THEN Saved.ids[l] \ {u} ELSE Saved.ids[l]
  <2>1. /\ Saved.ids[l] = InForce(settings, l)
        /\ Saved.disabled[l] = Denied(settings, l)
    BY <1>1, NormaliseValue DEF Saved
  <2>2. Denied(value, l) = IF l = k THEN Denied(settings, l) \cup {u} ELSE Denied(settings, l)
    BY <1>1, <1>3, <2>1 DEF Denied
  <2> QED BY <1>3, <2>1, <2>2 DEF InForce
<1>7. member' = [member EXCEPT ![k] = @ \ {u}] /\ panel' = panel
  BY DEF RevokeUser
<1>8. AccessShape'
  BY <1>5, <1>7 DEF AccessInv, AccessShape, Lists
<1>9. ListsAreDecisions'
  BY <1>1, <1>5, <1>6, <1>7 DEF AccessInv, AccessShape, ListsAreDecisions, Lists
<1> QED BY <1>7, <1>8, <1>9 DEF AccessInv, GrantedToEntitled, PanelsName

\* Whom the settings permit, the decisions entitle.
LEMMA PermitsEntitled ==
  ASSUME ListsAreDecisions, NEW u \in Users, Permits(u, FALSE)
  PROVE  Entitled(u)
BY DEF Permits, Access, Entitled, ListsAreDecisions, IdentityKinds

\* Steps of a panel: only a press grants, and it asks for access again.
LEMMA PanelKeepsAccess ==
  ASSUME AccessInv, UNCHANGED <<settings, member>>, NEW c \in Panels,
         \/ \E u \in Users : \/ \E i \in Targets : Ask(c, u, i)
                             \/ Press(c, u) \/ Cancel(c, u)
         \/ ExpirePanel(c) \/ Post(c)
  PROVE  AccessInv'
<1>1. ListsAreDecisions'
  BY DEF AccessInv, ListsAreDecisions, Saved, Readable
<1>2. CASE \E u \in Users, i \in Targets : Ask(c, u, i)
  BY <1>1, <1>2 DEF Ask, AccessInv, AccessShape, GrantedToEntitled, PanelsName, States
<1>3. CASE \E u \in Users : Press(c, u)
  <2>1. PICK u \in Users : Press(c, u) BY <1>3
  <2>2. Permits(u, FALSE) => Entitled(u) BY PermitsEntitled DEF AccessInv
  <2>3. Entitled(u) \in BOOLEAN BY DEF Entitled
  <2>4. panel' \in [Panels -> [state : States, user : Users \cup {Nobody},
                              target : Targets \cup {Nobody}, entitled : BOOLEAN]]
    BY <2>1, <2>3 DEF Press, AccessInv, AccessShape, States
  <2>5. ASSUME NEW d \in Panels, panel'[d].state \in {"granted", "posted"}
        PROVE  panel'[d].entitled
    <3>1. CASE d # c
      BY <2>1, <2>5, <3>1 DEF Press, AccessInv, AccessShape, GrantedToEntitled
    <3>2. CASE d = c
      <4>1. /\ panel'[c].state = (IF Permits(u, FALSE) THEN "granted" ELSE "refused")
            /\ panel'[c].entitled = Entitled(u)
        BY <2>1 DEF Press, AccessInv, AccessShape
      <4> QED BY <2>2, <2>5, <3>2, <4>1
    <3> QED BY <3>1, <3>2
  <2>6. GrantedToEntitled' BY <2>5 DEF GrantedToEntitled
  <2>7. PanelsName' BY <2>1 DEF Press, AccessInv, AccessShape, PanelsName, Pressable
  <2> QED BY <1>1, <2>4, <2>6, <2>7 DEF AccessInv, AccessShape
<1>4. CASE \E u \in Users : Cancel(c, u)
  BY <1>1, <1>4 DEF Cancel, Pressable, AccessInv, AccessShape, GrantedToEntitled, PanelsName, States
<1>5. CASE ExpirePanel(c)
  BY <1>1, <1>5 DEF ExpirePanel, AccessInv, AccessShape, GrantedToEntitled, PanelsName, States
<1>6. CASE Post(c)
  BY <1>1, <1>6 DEF Post, AccessInv, AccessShape, GrantedToEntitled, PanelsName, States
<1> QED BY <1>2, <1>3, <1>4, <1>5, <1>6

LEMMA AccessInit == Init => AccessInv
<1> SUFFICES ASSUME Init PROVE AccessInv
  OBVIOUS
<1>1. /\ settings = EmptyFile
      /\ panel = [c \in Panels |-> [state |-> "closed", user |-> Nobody, target |-> Nobody,
                                    entitled |-> FALSE]]
      /\ member = [k \in IdentityKinds |->
                     EnvGrants[k] \cup IF k = "superuserIds" THEN {Owner} ELSE {}]
  BY DEF Init, PanelInit
<1>2. EmptyFile \in Files
  BY ScheduleAssumption DEF EmptyFile, Files, Lists
<1>3. AccessShape
  BY <1>1, <1>2, OwnerAssumption, GrantsAssumption DEF AccessShape, States, Lists
<1>4. ASSUME NEW k \in IdentityKinds PROVE Saved.ids[k] = member[k]
  <2>1. Saved.ids[k] = InForce(EmptyFile, k)
    BY <1>1, <1>2, NormaliseValue DEF Saved
  <2>2. Denied(EmptyFile, k) = {} /\ EmptyFile.ids[k] = {}
    BY DEF Denied, EmptyFile
  <2> QED BY <1>1, <2>1, <2>2 DEF InForce
<1> QED BY <1>1, <1>3, <1>4 DEF AccessInv, PanelsName, ListsAreDecisions, GrantedToEntitled

\* Every step keeps the access part.
LEMMA AccessStep == AccessInv /\ [Next]_vars => AccessInv'
<1> SUFFICES ASSUME AccessInv, [Next]_vars PROVE AccessInv'
  OBVIOUS
<1>1. ASSUME UNCHANGED <<settings, panelVars>> PROVE AccessInv'
  BY <1>1 DEF panelVars, AccessInv, AccessShape, PanelsName, ListsAreDecisions, GrantedToEntitled, Saved, Readable
<1>2. CASE ChangePolicy \/ AgentStep \/ UNCHANGED vars
  BY <1>1, <1>2 DEF ChangePolicy, AgentStep, vars
<1>3. ASSUME NEW c \in Panels, SendAction(c) PROVE AccessInv'
  BY <1>3, PanelKeepsAccess DEF SendAction, Post
<1>4. CASE EditAccess
  BY <1>4, GrantKeepsLists, RevokeKeepsLists DEF EditAccess
<1>5. CASE Damage
  BY <1>5 DEF Damage, DamageFile, panelVars, AccessInv, AccessShape, PanelsName,
              ListsAreDecisions, GrantedToEntitled, Readable
<1>6. CASE PanelStep
  <2>1. PICK c \in Panels :
          \/ \E u \in Users : \/ \E i \in Targets : Ask(c, u, i)
                              \/ Press(c, u) \/ Cancel(c, u)
          \/ ExpirePanel(c)
    BY <1>6 DEF PanelStep
  <2>2. UNCHANGED <<settings, member>>
    BY <2>1 DEF Ask, Press, Cancel, ExpirePanel
  <2> QED BY <2>1, <2>2, PanelKeepsAccess
<1>7. CASE Restarts
  <2>1. CASE UNCHANGED <<settings, panelVars>> BY <1>1, <2>1
  <2>2. CASE BotRestart
    <3>1. ListsAreDecisions' BY <2>2 DEF BotRestart, AccessInv, ListsAreDecisions, Saved, Readable
    <3> QED BY <2>2, <3>1 DEF BotRestart, AccessInv, AccessShape, GrantedToEntitled, PanelsName, States
  <2> QED BY <1>7, <2>1, <2>2 DEF Restarts
<1> QED BY <1>2, <1>3, <1>4, <1>5, <1>6, <1>7 DEF Next

LEMMA AccessCorrect == Spec => []AccessInv
BY AccessInit, AccessStep, PTL DEF Spec

\* An environment grant is in force until it is revoked, and who was revoked
\* stays off, through any number of merges of the file with the environment.
THEOREM AccessListsAreDecisions == Spec => []ListsAreDecisions
<1>1. AccessInv => ListsAreDecisions
  BY DEF AccessInv
<1> QED BY <1>1, AccessCorrect, PTL

\* No confirmation is used by who is not entitled to it when pressing, however
\* access changed since the panel was opened.
THEOREM ConfirmedByEntitled == Spec => []GrantedToEntitled
<1>1. AccessInv => GrantedToEntitled
  BY DEF AccessInv
<1> QED BY <1>1, AccessCorrect, PTL

-----------------------------------------------------------------------------
(* Policy: types, with any number of threads that change it.               *)

Places == {"idle", "read", "open", "write", "replace", "list"}

Carries == [at : Places, of : Targets \cup {None},
            to : Policy!Overrides \cup Policy!ControlModes \cup {None},
            policy : Policy!Policies, inode : Inodes \cup {None}]

PolicyShape ==
  /\ content \in [Inodes -> Policy!Policies \cup {Torn}]
  /\ live \in Inodes \cup {None} /\ tmp \in Inodes \cup {None}
  /\ changer \in [Changers -> Carries]
  /\ actor \in [Actors -> [at : {"idle", "check", "docker"}, of : Targets \cup {None}]]
  /\ lister \in [Listers -> Policy!Lists \cup {None}] /\ cache \in Policy!Lists \cup {None}
  /\ promise \in [Targets -> Policy!Overrides \cup {None}]
  /\ sole \in Changers \cup {None}

LEMMA ReadType ==
  ASSUME PolicyShape PROVE Policy!PolicyRead \in Policy!Policies
BY ControlModeAssumption DEF PolicyShape, Policy!PolicyRead, Policy!Defaults, Policy!Policies,
   Policy!ControlModes, Policy!Overrides

\* What a request under way asks for.
Asks(h) ==
  h.at # "idle" => IF h.of = None THEN h.to \in Policy!ControlModes ELSE h.to \in {"on", "off"}

\* A thread about to write has a file open.
Opened(h) == h.at = "write" => h.inode # None

PolicyTyped ==
  /\ PolicyShape
  /\ \A t \in Changers : Asks(changer[t]) /\ Opened(changer[t])

\* However many threads change the policy, there is a file for a new temporary
\* one: at most one each, and the policy itself, is in use.
LEMMA FileLeft ==
  ASSUME PolicyShape, tmp = None
  PROVE  Policy!Unused # {}
<1> DEFINE inodes == {changer[t].inode : t \in Changers}
           f == [t \in Changers |-> changer[t].inode]
           used == inodes \cup {live}
<1>1. IsFiniteSet(inodes) /\ Cardinality(inodes) <= Cardinality(Changers)
  <2>1. f \in Surjection(Changers, inodes)
    BY DEF Surjection
  <2> HIDE DEF f, inodes
  <2> QED BY <2>1, FS_Surjection, InodeAssumption
<1>2. IsFiniteSet(used) /\ Cardinality(used) <= Cardinality(inodes) + 1
  <2> HIDE DEF inodes
  <2>1. Cardinality(inodes) \in Nat
    BY <1>1, FS_CardinalityType
  <2>2. used = inodes \/ Cardinality(used) = Cardinality(inodes) + 1
    BY <1>1, FS_AddElement
  <2>3. IsFiniteSet(used)
    BY <1>1, FS_AddElement
  <2> HIDE DEF used
  <2> QED BY <2>1, <2>2, <2>3
<1>3. SUFFICES ASSUME Policy!Unused = {} PROVE FALSE
  OBVIOUS
<1>4. Inodes \subseteq used
  BY <1>3, NullAssumption DEF Policy!Unused
<1> HIDE DEF inodes, used
<1>5. Cardinality(Inodes) <= Cardinality(used)
  BY <1>2, <1>4, FS_Subset
<1>6. /\ Cardinality(Inodes) \in Nat /\ Cardinality(used) \in Nat
      /\ Cardinality(inodes) \in Nat /\ Cardinality(Changers) \in Nat
  BY <1>1, <1>2, InodeAssumption, FS_CardinalityType
<1> QED BY <1>1, <1>2, <1>5, <1>6, InodeAssumption

\* Threads and the history of a new request.
LEMMA RequestShape ==
  ASSUME PolicyShape, NEW t \in Changers, NEW of, Policy!Request(t, of)
  PROVE  /\ promise' \in [Targets -> Policy!Overrides \cup {None}]
         /\ sole' \in Changers \cup {None}
         /\ UNCHANGED <<content, live, tmp, actor, lister, cache, answer>>
<1>1. CASE \A u \in Changers : changer[u].at = "idle"
  BY <1>1 DEF Policy!Request, Policy!files, PolicyShape
<1>2. CASE ~\A u \in Changers : changer[u].at = "idle"
  BY <1>2 DEF Policy!Request, Policy!files, PolicyShape
<1> QED BY <1>1, <1>2

\* Lists marked late are still lists.
LEMMA OverlappedShape ==
  ASSUME PolicyShape
  PROVE  /\ Policy!Overlapped \in [Listers -> Policy!Lists \cup {None}]
         /\ Policy!Late(cache) \in Policy!Lists \cup {None}
         /\ \A u \in Listers : Policy!Overlapped[u] # None => Policy!Overlapped[u].late
         /\ Policy!Late(cache) # None => Policy!Late(cache).late
BY DEF Policy!Overlapped, Policy!Late, Policy!Lists, PolicyShape

\* One thread moves, within its types.
LEMMA ChangerTyped ==
  ASSUME PolicyTyped, NEW t \in Changers, NEW g \in Carries, Asks(g), Opened(g),
         changer' = [changer EXCEPT ![t] = g], PolicyShape'
  PROVE  PolicyTyped'
BY DEF PolicyTyped, PolicyShape, Asks, Opened

\* A thread that changes the policy keeps the types, whatever others have
\* written to the file it has open.
LEMMA ChangerTypes ==
  ASSUME PolicyTyped, NEW t \in Changers,
         \/ \E i \in Targets, to \in {"on", "off"} : Policy!RequestOverride(t, i, to)
         \/ \E m \in Policy!ControlModes : Policy!RequestMode(t, m)
         \/ Policy!ReadPolicy(t) \/ Policy!OpenTemporary(t) \/ Policy!WriteTemporary(t)
         \/ Policy!Replace(t) \/ Policy!Answer(t)
  PROVE  PolicyTyped'
<1> DEFINE h == changer[t]
<1>1. h \in Carries /\ Asks(h) /\ Opened(h)
  BY DEF PolicyTyped, PolicyShape
<1>2. /\ Policy!PolicyRead \in Policy!Policies /\ Policy!Defaults \in Policy!Policies
      /\ Policy!IdleChanger \in Carries
  <2>1. Policy!Defaults \in Policy!Policies
    BY ControlModeAssumption DEF Policy!Defaults, Policy!Policies, Policy!ControlModes, Policy!Overrides
  <2> QED BY <2>1, ReadType DEF PolicyTyped, Policy!IdleChanger, Carries, Places
<1>3. CASE \E i \in Targets, to \in {"on", "off"} : Policy!RequestOverride(t, i, to)
  <2>1. PICK i \in Targets, to \in {"on", "off"} : Policy!RequestOverride(t, i, to)
    BY <1>3
  <2> DEFINE g == [Policy!IdleChanger EXCEPT !.at = "read", !.of = i, !.to = to]
  <2>2. g \in Carries /\ Asks(g) /\ Opened(g)
    BY <1>2, NullAssumption DEF Policy!IdleChanger, Carries, Places, Policy!Overrides, Asks, Opened
  <2>3. changer' = [changer EXCEPT ![t] = g]
    BY <2>1, Zenon DEF Policy!RequestOverride
  <2> HIDE DEF g
  <2>4. Policy!Request(t, i)
    BY <2>1, Zenon DEF Policy!RequestOverride
  <2>5. PolicyShape'
    BY <2>2, <2>3, <2>4, RequestShape DEF PolicyTyped, PolicyShape
  <2> QED BY <2>2, <2>3, <2>5, ChangerTyped
<1>4. CASE \E m \in Policy!ControlModes : Policy!RequestMode(t, m)
  <2>1. PICK m \in Policy!ControlModes : Policy!RequestMode(t, m)
    BY <1>4
  <2> DEFINE g == [Policy!IdleChanger EXCEPT !.at = "read", !.to = m]
  <2>2. g \in Carries /\ Asks(g) /\ Opened(g)
    BY <1>2 DEF Policy!IdleChanger, Carries, Places, Asks, Opened
  <2>3. changer' = [changer EXCEPT ![t] = g]
    BY <2>1, Zenon DEF Policy!RequestMode
  <2> HIDE DEF g
  <2>4. Policy!Request(t, None)
    BY <2>1, Zenon DEF Policy!RequestMode
  <2>5. PolicyShape'
    BY <2>2, <2>3, <2>4, RequestShape DEF PolicyTyped, PolicyShape
  <2> QED BY <2>2, <2>3, <2>5, ChangerTyped
<1>5. CASE Policy!ReadPolicy(t)
  <2> DEFINE p == IF h.of = None THEN [Policy!PolicyRead EXCEPT !.mode = h.to]
                  ELSE [Policy!PolicyRead EXCEPT !.overrides[h.of] = h.to]
             place == IF h.of = None /\ p = Policy!PolicyRead THEN "list" ELSE "open"
             g == [h EXCEPT !.policy = p, !.at = place]
  <2>1. h.at = "read" /\ changer' = [changer EXCEPT ![t].policy = p, ![t].at = place]
    BY <1>5 DEF Policy!ReadPolicy
  <2>2. p \in Policy!Policies
    BY <1>1, <1>2, <2>1 DEF Asks, Carries, Policy!Policies, Policy!Overrides
  <2>3. place \in {"open", "list"}
    OBVIOUS
  <2> HIDE DEF p, place
  <2>4. g \in Carries /\ Asks(g) /\ Opened(g)
    BY <1>1, <2>1, <2>2, <2>3 DEF Carries, Places, Asks, Opened
  <2>5. changer' = [changer EXCEPT ![t] = g]
    BY <1>1, <2>1 DEF PolicyTyped, PolicyShape, Carries
  <2> HIDE DEF g
  <2>6. PolicyShape'
    BY <1>5, <2>4, <2>5 DEF Policy!ReadPolicy, Policy!files, Policy!history, PolicyTyped, PolicyShape
  <2> QED BY <2>4, <2>5, <2>6, ChangerTyped
<1>6. CASE Policy!OpenTemporary(t)
  <2> DEFINE n == IF tmp # None THEN tmp ELSE CHOOSE m \in Policy!Unused : TRUE
             g == [h EXCEPT !.at = "write", !.inode = n]
  <2>1. n \in Inodes
    <3>1. tmp = None => n \in Policy!Unused
      BY FileLeft DEF PolicyTyped
    <3> QED BY <3>1 DEF Policy!Unused, PolicyTyped, PolicyShape
  <2> HIDE DEF n
  <2>2. /\ h.at = "open" /\ content' = [content EXCEPT ![n] = Torn] /\ tmp' = n
        /\ changer' = [changer EXCEPT ![t].at = "write", ![t].inode = n]
        /\ UNCHANGED <<live, actor, lister, cache, promise, sole>>
    BY <1>6 DEF Policy!OpenTemporary, Policy!history, n
  <2>3. g \in Carries /\ Asks(g) /\ Opened(g)
    BY <1>1, <2>1, <2>2, NullAssumption DEF Carries, Places, Asks, Opened
  <2>4. changer' = [changer EXCEPT ![t] = g]
    BY <1>1, <2>2 DEF PolicyTyped, PolicyShape, Carries
  <2> HIDE DEF g
  <2>5. PolicyShape'
    BY <2>1, <2>2, <2>3, <2>4 DEF PolicyTyped, PolicyShape
  <2> QED BY <2>3, <2>4, <2>5, ChangerTyped
<1>7. CASE Policy!WriteTemporary(t)
  <2> DEFINE g == [h EXCEPT !.at = "replace"]
  <2>1. PICK c \in Policy!Policies \cup {Torn} :
          /\ h.at = "write" /\ content' = [content EXCEPT ![h.inode] = c]
          /\ changer' = [changer EXCEPT ![t].at = "replace"]
          /\ UNCHANGED <<live, tmp, actor, promise, sole>>
          /\ \/ UNCHANGED <<lister, cache>>
             \/ lister' = Policy!Overlapped /\ cache' = Policy!Late(cache)
    BY <1>1, <1>7 DEF Policy!WriteTemporary, Policy!history, Carries
  <2>2. h.inode \in Inodes
    BY <1>1, <2>1 DEF Carries, Opened
  <2>3. g \in Carries /\ Asks(g) /\ Opened(g)
    BY <1>1, <2>1 DEF Carries, Places, Asks, Opened
  <2>4. changer' = [changer EXCEPT ![t] = g]
    BY <1>1, <2>1 DEF PolicyTyped, PolicyShape, Carries
  <2> HIDE DEF g
  <2>5. lister' \in [Listers -> Policy!Lists \cup {None}] /\ cache' \in Policy!Lists \cup {None}
    BY <2>1, OverlappedShape DEF PolicyTyped, PolicyShape
  <2>6. PolicyShape'
    BY <2>1, <2>2, <2>3, <2>4, <2>5 DEF PolicyTyped, PolicyShape
  <2> QED BY <2>3, <2>4, <2>6, ChangerTyped
<1>8. CASE Policy!Replace(t)
  <2>1. /\ h.at = "replace"
        /\ UNCHANGED <<content, actor, promise, sole>>
        /\ \/ /\ changer' = [changer EXCEPT ![t] = Policy!IdleChanger]
              /\ UNCHANGED <<live, tmp, lister, cache>>
           \/ /\ live' = tmp /\ tmp' = None /\ cache' = None /\ lister' = Policy!Overlapped
              /\ changer' = [changer EXCEPT ![t].at = "list", ![t].inode = None]
    BY <1>8 DEF Policy!Replace, Policy!history
  <2> DEFINE g == IF changer' = [changer EXCEPT ![t] = Policy!IdleChanger]
                  THEN Policy!IdleChanger ELSE [h EXCEPT !.at = "list", !.inode = None]
  <2>2. g \in Carries /\ Asks(g) /\ Opened(g)
    <3>1. Policy!IdleChanger.at = "idle"
      BY DEF Policy!IdleChanger
    <3> QED BY <1>1, <1>2, <2>1, <3>1 DEF Carries, Places, Asks, Opened
  <2>3. changer' = [changer EXCEPT ![t] = g]
    BY <1>1, <2>1 DEF PolicyTyped, PolicyShape, Carries
  <2> HIDE DEF g
  <2>4. lister' \in [Listers -> Policy!Lists \cup {None}]
    BY <2>1, OverlappedShape DEF PolicyTyped, PolicyShape
  <2>5. PolicyShape'
    BY <2>1, <2>2, <2>3, <2>4 DEF PolicyTyped, PolicyShape
  <2> QED BY <2>2, <2>3, <2>5, ChangerTyped
<1>9. CASE Policy!Answer(t)
  <2>1. /\ h.at = "list" /\ cache' = Policy!List
        /\ \/ promise' = [i \in Targets |-> IF i = h.of THEN h.to ELSE promise[i]] /\ sole' = None
           \/ UNCHANGED <<promise, sole>>
        /\ changer' = [changer EXCEPT ![t] = Policy!IdleChanger]
        /\ UNCHANGED <<content, live, tmp, actor, lister>>
    BY <1>9 DEF Policy!Answer, Policy!files, Policy!history
  <2>2. Asks(Policy!IdleChanger) /\ Opened(Policy!IdleChanger)
    BY DEF Policy!IdleChanger, Asks, Opened
  <2>3. Policy!List \in Policy!Lists
    BY <1>2 DEF Policy!List, Policy!Lists, PolicyTyped, PolicyShape
  <2>4. promise' \in [Targets -> Policy!Overrides \cup {None}]
    BY <1>1, <2>1, NullAssumption DEF Asks, Carries, Policy!Overrides, PolicyTyped, PolicyShape
  <2>5. PolicyShape'
    BY <1>2, <2>1, <2>3, <2>4 DEF PolicyTyped, PolicyShape
  <2> QED BY <1>2, <2>1, <2>2, <2>5, ChangerTyped
<1> QED BY <1>3, <1>4, <1>5, <1>6, <1>7, <1>8, <1>9

\* Lists, actions and a new start.
LEMMA OthersTyped ==
  ASSUME PolicyTyped,
         \/ \E t \in Listers : Policy!ReadList(t) \/ Policy!CacheList(t)
         \/ Policy!Expire \/ Policy!AgentRestart
         \/ \E t \in Actors : \/ \E i \in Targets : Policy!RequestAction(t, i)
                              \/ Policy!CheckAction(t) \/ Policy!RunAction(t)
         \/ UNCHANGED agentVars
  PROVE  PolicyTyped'
<1>1. Policy!PolicyRead \in Policy!Policies
  BY ReadType DEF PolicyTyped
<1>2. CASE \/ \E t \in Listers : Policy!ReadList(t) \/ Policy!CacheList(t)
           \/ Policy!Expire
  <2>1. UNCHANGED <<content, live, tmp, changer, actor, promise, sole>>
    BY <1>2 DEF Policy!ReadList, Policy!CacheList, Policy!Expire, Policy!files, Policy!history
  <2>2. lister' \in [Listers -> Policy!Lists \cup {None}] /\ cache' \in Policy!Lists \cup {None}
    <3>1. CASE \E t \in Listers : Policy!ReadList(t)
      <4>1. [policy |-> Policy!PolicyRead, late |-> FALSE] \in Policy!Lists
        BY <1>1 DEF Policy!Lists
      <4> QED BY <3>1, <4>1 DEF Policy!ReadList, PolicyTyped, PolicyShape
    <3>2. CASE Policy!Expire \/ \E t \in Listers : Policy!CacheList(t)
      BY <3>2 DEF Policy!Expire, Policy!CacheList, PolicyTyped, PolicyShape
    <3> QED BY <1>2, <3>1, <3>2
  <2> QED BY <2>1, <2>2 DEF PolicyTyped, PolicyShape, Asks, Opened
<1>3. CASE Policy!AgentRestart
  <2>1. Policy!Defaults \in Policy!Policies
    BY ControlModeAssumption DEF Policy!Defaults, Policy!Policies, Policy!ControlModes, Policy!Overrides
  <2>2. Policy!IdleChanger \in Carries /\ Asks(Policy!IdleChanger) /\ Opened(Policy!IdleChanger)
    BY <2>1 DEF Policy!IdleChanger, Carries, Places, Asks, Opened
  <2> QED BY <1>3, <2>2 DEF Policy!AgentRestart, Policy!files, Policy!IdleActor, PolicyTyped, PolicyShape
<1>4. CASE \E t \in Actors : \/ \E i \in Targets : Policy!RequestAction(t, i)
                             \/ Policy!CheckAction(t) \/ Policy!RunAction(t)
  <2>1. actor' \in [Actors -> [at : {"idle", "check", "docker"}, of : Targets \cup {None}]]
    BY <1>4 DEF Policy!RequestAction, Policy!CheckAction, Policy!RunAction, PolicyTyped, PolicyShape
  <2>2. UNCHANGED <<content, live, tmp, changer, lister, cache, promise, sole>>
    BY <1>4 DEF Policy!RequestAction, Policy!CheckAction, Policy!RunAction, Policy!files, Policy!history
  <2> QED BY <2>1, <2>2 DEF PolicyTyped, PolicyShape, Asks, Opened
<1>5. CASE UNCHANGED agentVars
  BY <1>5 DEF agentVars, PolicyTyped, PolicyShape, Asks, Opened
<1> QED BY <1>2, <1>3, <1>4, <1>5

LEMMA StartsTyped == Init => PolicyTyped
<1> SUFFICES ASSUME Init PROVE PolicyTyped
  OBVIOUS
<1>1. Policy!PolicyInit
  BY DEF Init
<1>2. Policy!Defaults \in Policy!Policies
  BY ControlModeAssumption DEF Policy!Defaults, Policy!Policies, Policy!ControlModes, Policy!Overrides
<1>3. PolicyShape
  BY <1>1, <1>2 DEF Policy!PolicyInit, PolicyShape, Carries, Policy!IdleChanger, Policy!IdleActor, Places
<1> QED BY <1>1, <1>3 DEF Policy!PolicyInit, PolicyTyped, Policy!IdleChanger, Asks, Opened

\* Every step keeps the types, with any number of changers.
LEMMA TypesStep == AccessInv /\ PolicyTyped /\ [Next]_vars => PolicyTyped'
<1> SUFFICES ASSUME AccessInv, PolicyTyped, [Next]_vars PROVE PolicyTyped'
  OBVIOUS
<1>1. CASE EditAccess \/ Damage \/ PanelStep \/ UNCHANGED vars
  BY <1>1, OthersTyped DEF EditAccess, Damage, PanelStep, vars
<1>2. CASE ChangePolicy
  BY <1>2, ChangerTypes DEF ChangePolicy
<1>3. ASSUME NEW c \in Panels, SendAction(c) PROVE PolicyTyped'
  <2>1. panel[c].target \in Targets
    BY <1>3 DEF SendAction, Post, AccessInv, PanelsName
  <2> QED BY <1>3, <2>1, OthersTyped DEF SendAction
<1>4. CASE AgentStep
  BY <1>4, ChangerTypes, OthersTyped DEF AgentStep, Policy!PolicyStep
<1>5. CASE Restarts
  BY <1>5, OthersTyped DEF Restarts
<1> QED BY <1>1, <1>2, <1>3, <1>4, <1>5 DEF Next

-----------------------------------------------------------------------------
(* Policy: the files, the caches, and what was promised.                   *)

\* The temporary file is never the policy file.
Apart == tmp # None => tmp # live

\* The policy that is read, with the request's change in it.
Changed(h) == IF h.of = None THEN [Policy!PolicyRead EXCEPT !.mode = h.to]
              ELSE [Policy!PolicyRead EXCEPT !.overrides[h.of] = h.to]

\* Where the only changing thread is, against what is on disk.
Progress(h) ==
  /\ h.at # "idle"
  /\ h.of # None => promise[h.of] = None
  /\ h.at \in {"open", "write", "replace"} => h.policy = Changed(h)
  /\ h.at \in {"write", "replace"} => tmp # None /\ h.inode = tmp
  /\ h.at = "write" => content[tmp] = Torn
  /\ h.at = "replace" => content[tmp] = h.policy
  /\ h.at = "list" => /\ h.policy = Policy!PolicyRead
                      /\ h.of # None => h.policy.overrides[h.of] = h.to

\* A change that no other overlaps is alone, from its request to its answer.
Alone ==
  sole # None => /\ \A u \in Changers : u # sole => changer[u].at = "idle"
                 /\ Progress(changer[sole])

\* While changes overlap, and until the last of them has ended, nothing is promised.
Quiet ==
  \/ \A u \in Changers : changer[u].at = "idle"
  \/ sole # None
  \/ \A i \in Targets : promise[i] = None

\* A list that no change has overtaken shows the policy.
Fresh(l) == l # None => l.late \/ l.policy = Policy!PolicyRead
FreshLists == Fresh(cache) /\ \A t \in Listers : Fresh(lister[t])

ActorsName == \A t \in Actors : actor[t].at = "check" => actor[t].of \in Targets

PolicyInv == Apart /\ Alone /\ Quiet /\ FreshLists /\ PromiseHolds /\ AnswerShowsChange /\ ActorsName

LEMMA PolicyInit == Init => PolicyInv
<1> SUFFICES ASSUME Init PROVE PolicyInv
  OBVIOUS
<1>1. Policy!PolicyInit
  BY DEF Init
<1>2. Apart /\ Alone /\ Quiet
  BY <1>1 DEF Policy!PolicyInit, Policy!IdleChanger, Apart, Alone, Quiet
<1> QED BY <1>1, <1>2 DEF Policy!PolicyInit, PolicyInv, FreshLists, Fresh, PromiseHolds,
       Policy!PromiseHolds, AnswerShowsChange, Policy!AnswerShowsChange, ActorsName, Policy!IdleActor

\* A thread that is under way is the only one, or nothing is promised.
LEMMA SoleOrUnpromised ==
  ASSUME PolicyInv, PolicyTyped, NEW t \in Changers, changer[t].at # "idle"
  PROVE  \/ sole = t /\ Progress(changer[t])
         \/ sole = None /\ \A i \in Targets : promise[i] = None
BY DEF PolicyInv, Alone, Quiet, PolicyTyped, PolicyShape

\* What a thread under way has to show of its step: the two files stay apart,
\* the lists fresh, and if it is the only one, it gets on and keeps the promises.
LEMMA ChangerMoves ==
  ASSUME PolicyInv, PolicyTyped, NEW t \in Changers, changer[t].at # "idle",
         \A u \in Changers : u # t => changer'[u] = changer[u],
         UNCHANGED <<actor, sole, answer, promise>>,
         Apart', FreshLists',
         (sole = t /\ Progress(changer[t])) => Progress(changer[t])' /\ PromiseHolds'
  PROVE  PolicyInv'
<1>1. CASE sole = t /\ Progress(changer[t])
  <2>1. Progress(changer[t])' /\ PromiseHolds'
    BY <1>1
  <2>2. Alone'
    BY <1>1, <2>1 DEF PolicyInv, Alone
  <2>3. Quiet'
    BY <1>1, NullAssumption DEF Quiet
  <2> QED BY <2>1, <2>2, <2>3 DEF PolicyInv, AnswerShowsChange, Policy!AnswerShowsChange, ActorsName
<1>2. CASE sole = None /\ \A i \in Targets : promise[i] = None
  BY <1>2 DEF PolicyInv, Alone, Quiet, PromiseHolds, Policy!PromiseHolds, AnswerShowsChange,
              Policy!AnswerShowsChange, ActorsName
<1> QED BY <1>1, <1>2, SoleOrUnpromised

\* A request is the only one, or it is the end of all promises.
LEMMA RequestStep ==
  ASSUME PolicyInv, PolicyTyped, NEW t \in Changers, NEW of \in Targets \cup {None},
         Policy!Request(t, of), changer'[t].at = "read", changer'[t].of = of,
         \A u \in Changers : u # t => changer'[u] = changer[u]
  PROVE  PolicyInv'
<1>1. UNCHANGED <<content, live, tmp, actor, lister, cache, answer>>
  BY RequestShape DEF PolicyTyped
<1>2. Policy!PolicyRead' = Policy!PolicyRead
  BY <1>1 DEF Policy!PolicyRead, Policy!Defaults
<1>3. Apart' /\ FreshLists' /\ AnswerShowsChange' /\ ActorsName'
  BY <1>1, <1>2 DEF PolicyInv, Apart, FreshLists, Fresh, AnswerShowsChange,
                    Policy!AnswerShowsChange, ActorsName
<1>4. /\ \A i \in Targets : promise'[i] # None => promise'[i] = promise[i]
      /\ \/ /\ sole' = t /\ (of # None => promise'[of] = None)
            /\ \A u \in Changers : u # t => changer[u].at = "idle"
         \/ sole' = None /\ \A i \in Targets : promise'[i] = None
  <2>1. CASE \A u \in Changers : changer[u].at = "idle"
    BY <2>1 DEF Policy!Request
  <2>2. CASE ~\A u \in Changers : changer[u].at = "idle"
    BY <2>2 DEF Policy!Request
  <2> QED BY <2>1, <2>2
<1>5. Alone'
  BY <1>4, NullAssumption DEF Alone, Progress
<1>6. Quiet'
  BY <1>4, NullAssumption DEF Quiet
<1>7. PromiseHolds'
  BY <1>2, <1>4 DEF PolicyInv, PromiseHolds, Policy!PromiseHolds
<1> QED BY <1>3, <1>5, <1>6, <1>7 DEF PolicyInv

\* The policy is read and changed in memory.
LEMMA ReadStep ==
  ASSUME PolicyInv, PolicyTyped, NEW t \in Changers, Policy!ReadPolicy(t)
  PROVE  PolicyInv'
<1> DEFINE h == changer[t]
           p == IF h.of = None THEN [Policy!PolicyRead EXCEPT !.mode = h.to]
                ELSE [Policy!PolicyRead EXCEPT !.overrides[h.of] = h.to]
           place == IF h.of = None /\ p = Policy!PolicyRead THEN "list" ELSE "open"
<1>1. /\ h.at = "read" /\ changer' = [changer EXCEPT ![t].policy = p, ![t].at = place]
      /\ UNCHANGED <<content, live, tmp, actor, lister, cache, sole, answer, promise>>
  BY DEF Policy!ReadPolicy, Policy!files, Policy!history
<1>2. Policy!PolicyRead' = Policy!PolicyRead
  BY <1>1 DEF Policy!PolicyRead, Policy!Defaults
<1>3. /\ changer'[t].at = place /\ changer'[t].policy = p /\ changer'[t].of = h.of
      /\ changer'[t].to = h.to
      /\ \A u \in Changers : u # t => changer'[u] = changer[u]
  <2> HIDE DEF p, place
  <2> QED BY <1>1 DEF PolicyTyped, PolicyShape, Carries
<1>4. ASSUME Progress(h) PROVE Progress(changer[t])'
  <2>1. p = Changed(changer[t])'
    BY <1>2, <1>3 DEF Changed
  <2>2. place \in {"open", "list"} /\ (place = "list" => p = Policy!PolicyRead /\ h.of = None)
    OBVIOUS
  <2>3. h.of # None => promise[h.of] = None
    BY <1>4 DEF Progress
  <2> HIDE DEF p, place
  <2> QED BY <1>1, <1>2, <1>3, <2>1, <2>2, <2>3 DEF Progress
<1>5. Apart' /\ FreshLists' /\ PromiseHolds'
  BY <1>1, <1>2 DEF PolicyInv, Apart, FreshLists, Fresh, PromiseHolds, Policy!PromiseHolds
<1> HIDE DEF p, place
<1> QED BY <1>1, <1>3, <1>4, <1>5, ChangerMoves

\* Opening the temporary file does not touch the policy file.
LEMMA OpenStep ==
  ASSUME PolicyInv, PolicyTyped, NEW t \in Changers, Policy!OpenTemporary(t)
  PROVE  PolicyInv'
<1> DEFINE n == IF tmp # None THEN tmp ELSE CHOOSE m \in Policy!Unused : TRUE
           h == changer[t]
<1>1. /\ h.at = "open" /\ content' = [content EXCEPT ![n] = Torn] /\ tmp' = n
      /\ changer' = [changer EXCEPT ![t].at = "write", ![t].inode = n]
      /\ UNCHANGED <<live, actor, lister, cache, sole, answer, promise>>
  BY DEF Policy!OpenTemporary, Policy!history
<1>2. n \in Inodes /\ n # live
  <2>1. CASE tmp # None
    BY <2>1 DEF PolicyInv, Apart, PolicyTyped, PolicyShape
  <2>2. CASE tmp = None
    <3>1. n \in Policy!Unused
      BY <2>2, FileLeft DEF PolicyTyped
    <3> QED BY <3>1 DEF Policy!Unused
  <2> QED BY <2>1, <2>2
<1> HIDE DEF n
<1>3. content'[live] = content[live] /\ content'[n] = Torn /\ n # None
  BY <1>1, <1>2, NullAssumption DEF PolicyTyped, PolicyShape
<1>4. Policy!PolicyRead' = Policy!PolicyRead
  BY <1>1, <1>3 DEF Policy!PolicyRead, Policy!Defaults
<1>5. /\ changer'[t].at = "write" /\ changer'[t].inode = n
      /\ changer'[t].policy = h.policy /\ changer'[t].of = h.of /\ changer'[t].to = h.to
      /\ \A u \in Changers : u # t => changer'[u] = changer[u]
  BY <1>1 DEF PolicyTyped, PolicyShape, Carries
<1>6. ASSUME Progress(h) PROVE Progress(changer[t])'
  <2>1. (h.of # None => promise[h.of] = None) /\ h.policy = Changed(changer[t])'
    BY <1>1, <1>4, <1>5, <1>6 DEF Changed, Progress
  <2> QED BY <1>1, <1>3, <1>5, <2>1 DEF Progress
<1>7. Apart' /\ FreshLists' /\ PromiseHolds'
  BY <1>1, <1>2, <1>4 DEF PolicyInv, Apart, FreshLists, Fresh, PromiseHolds, Policy!PromiseHolds
<1> QED BY <1>1, <1>5, <1>6, <1>7, ChangerMoves

\* The only change writes to the temporary file it has emptied; a change that
\* another overlaps may write into the policy, and then no list is fresh.
LEMMA WriteStep ==
  ASSUME PolicyInv, PolicyTyped, NEW t \in Changers, Policy!WriteTemporary(t)
  PROVE  PolicyInv'
<1> DEFINE h == changer[t]
<1>1. /\ h.at = "write" /\ changer' = [changer EXCEPT ![t].at = "replace"]
      /\ UNCHANGED <<live, tmp, actor, sole, answer, promise>>
  BY DEF Policy!WriteTemporary, Policy!history
<1>2. h.inode \in Inodes /\ h \in Carries
  BY <1>1 DEF PolicyTyped, PolicyShape, Carries, Opened
<1>3. PICK c \in Policy!Policies \cup {Torn} :
        /\ content' = [content EXCEPT ![h.inode] = c]
        /\ content[h.inode] = Torn => c = h.policy
  BY <1>2 DEF Policy!WriteTemporary, Carries
<1>4. /\ changer'[t].at = "replace" /\ changer'[t].inode = h.inode
      /\ changer'[t].policy = h.policy /\ changer'[t].of = h.of /\ changer'[t].to = h.to
      /\ \A u \in Changers : u # t => changer'[u] = changer[u]
  BY <1>1 DEF PolicyTyped, PolicyShape, Carries
<1>5. ASSUME h.inode # live PROVE Policy!PolicyRead' = Policy!PolicyRead
  <2>1. content'[live] = content[live]
    BY <1>2, <1>3, <1>5 DEF PolicyTyped, PolicyShape
  <2> QED BY <1>1, <2>1 DEF Policy!PolicyRead, Policy!Defaults
<1>6. FreshLists'
  <2>1. CASE h.inode = live
    <3>1. lister' = Policy!Overlapped /\ cache' = Policy!Late(cache)
      BY <2>1 DEF Policy!WriteTemporary
    <3> QED BY <3>1, OverlappedShape DEF FreshLists, Fresh, PolicyTyped
  <2>2. CASE h.inode # live
    <3>1. UNCHANGED <<lister, cache>>
      BY <2>2 DEF Policy!WriteTemporary
    <3> QED BY <1>5, <2>2, <3>1 DEF PolicyInv, FreshLists, Fresh
  <2> QED BY <2>1, <2>2
<1>7. ASSUME Progress(h) PROVE Progress(changer[t])' /\ PromiseHolds'
  <2>1. /\ h.inode = tmp /\ tmp # None /\ tmp # live /\ content[tmp] = Torn
        /\ h.of # None => promise[h.of] = None
        /\ h.policy = Changed(h)
    BY <1>1, <1>7 DEF Progress, PolicyInv, Apart
  <2>2. content'[tmp] = h.policy
    BY <1>2, <1>3, <2>1 DEF PolicyTyped, PolicyShape
  <2>3. Policy!PolicyRead' = Policy!PolicyRead
    BY <1>5, <2>1
  <2>4. h.policy = Changed(changer[t])'
    BY <1>4, <2>1, <2>3 DEF Changed
  <2>5. Progress(changer[t])'
    BY <1>1, <1>4, <2>1, <2>2, <2>4 DEF Progress
  <2>6. PromiseHolds'
    BY <1>1, <2>3 DEF PolicyInv, PromiseHolds, Policy!PromiseHolds
  <2> QED BY <2>5, <2>6
<1>8. Apart'
  BY <1>1 DEF PolicyInv, Apart
<1> QED BY <1>1, <1>4, <1>6, <1>7, <1>8, ChangerMoves

\* The rename makes the change the policy; of its container nothing was
\* promised, all others keep what they had, and no cached list survives.
LEMMA ReplaceStep ==
  ASSUME PolicyInv, PolicyTyped, NEW t \in Changers, Policy!Replace(t)
  PROVE  PolicyInv'
<1> DEFINE h == changer[t]
<1>1. h.at = "replace" /\ UNCHANGED <<content, actor, sole, answer, promise>>
  BY DEF Policy!Replace, Policy!history
<1>2. h \in Carries /\ Policy!PolicyRead \in Policy!Policies
  BY ReadType DEF PolicyTyped, PolicyShape
<1>3. CASE tmp = None
  <2>1. /\ changer' = [changer EXCEPT ![t] = Policy!IdleChanger]
        /\ UNCHANGED <<live, tmp, lister, cache>>
    BY <1>3 DEF Policy!Replace
  <2>2. Policy!PolicyRead' = Policy!PolicyRead
    BY <1>1, <2>1 DEF Policy!PolicyRead, Policy!Defaults
  <2>3. ~Progress(h)
    BY <1>1, <1>3 DEF Progress
  <2>4. Apart' /\ FreshLists'
    BY <2>1, <2>2 DEF PolicyInv, Apart, FreshLists, Fresh
  <2>5. \A u \in Changers : u # t => changer'[u] = changer[u]
    BY <2>1 DEF PolicyTyped, PolicyShape
  <2> QED BY <1>1, <2>3, <2>4, <2>5, ChangerMoves
<1>4. CASE tmp # None
  <2>1. /\ live' = tmp /\ tmp' = None /\ cache' = None /\ lister' = Policy!Overlapped
        /\ changer' = [changer EXCEPT ![t].at = "list", ![t].inode = None]
    BY <1>4 DEF Policy!Replace
  <2>2. Apart' /\ FreshLists'
    BY <2>1, OverlappedShape DEF Apart, FreshLists, Fresh, PolicyTyped
  <2>3. /\ changer'[t].at = "list" /\ changer'[t].policy = h.policy
        /\ changer'[t].of = h.of /\ changer'[t].to = h.to
        /\ \A u \in Changers : u # t => changer'[u] = changer[u]
    BY <1>2, <2>1 DEF PolicyTyped, PolicyShape, Carries
  <2>4. ASSUME Progress(h) PROVE Progress(changer[t])' /\ PromiseHolds'
    <3>1. /\ content[tmp] = h.policy /\ h.policy = Changed(h)
          /\ h.of # None => promise[h.of] = None
      BY <1>1, <2>4 DEF Progress
    <3>2. h.policy # Torn
      BY <1>2, TornAssumption DEF Carries
    <3>3. Policy!PolicyRead' = h.policy
      BY <1>1, <1>4, <2>1, <3>1, <3>2 DEF Policy!PolicyRead
    <3>4. h.of # None => h.of \in Targets
      BY <1>2 DEF Carries
    <3>5. /\ h.of # None => h.policy.overrides[h.of] = h.to
          /\ \A i \in Targets : i # h.of => h.policy.overrides[i] = Policy!PolicyRead.overrides[i]
      BY <1>2, <3>1, <3>4 DEF Changed, Policy!Policies
    <3>6. Progress(changer[t])'
      BY <1>1, <2>3, <3>1, <3>3, <3>5 DEF Progress
    <3>7. ASSUME NEW i \in Targets, promise[i] # None
          PROVE  h.policy.overrides[i] = promise[i]
      <4>1. i # h.of
        BY <3>1, <3>7, NullAssumption
      <4> QED BY <3>5, <3>7, <4>1 DEF PolicyInv, PromiseHolds, Policy!PromiseHolds
    <3>8. PromiseHolds'
      BY <1>1, <3>3, <3>7 DEF PromiseHolds, Policy!PromiseHolds
    <3> QED BY <3>6, <3>8
  <2> QED BY <1>1, <2>2, <2>3, <2>4, ChangerMoves
<1> QED BY <1>3, <1>4

\* The answer shows the cached list, which no change has overtaken, or the
\* policy itself.
LEMMA AnswerStep ==
  ASSUME PolicyInv, PolicyTyped, NEW t \in Changers, Policy!Answer(t)
  PROVE  PolicyInv'
<1> DEFINE h == changer[t]
<1>1. /\ h.at = "list" /\ cache' = Policy!List
      /\ changer' = [changer EXCEPT ![t] = Policy!IdleChanger]
      /\ UNCHANGED <<content, live, tmp, actor, lister>>
  BY DEF Policy!Answer, Policy!files
<1>2. Policy!PolicyRead' = Policy!PolicyRead /\ Policy!PolicyRead \in Policy!Policies
  BY <1>1, ReadType DEF Policy!PolicyRead, Policy!Defaults, PolicyTyped
<1>3. Policy!List.late \/ Policy!List.policy = Policy!PolicyRead
  BY <1>2 DEF Policy!List, PolicyInv, FreshLists, Fresh
<1>4. Apart' /\ FreshLists'
  BY <1>1, <1>2, <1>3 DEF PolicyInv, Apart, FreshLists, Fresh
<1>5. /\ changer'[t].at = "idle"
      /\ \A u \in Changers : u # t => changer'[u] = changer[u]
  BY <1>1 DEF PolicyTyped, PolicyShape, Policy!IdleChanger
<1>6. CASE sole = t /\ Progress(h)
  <2>1. /\ answer' = [asked |-> h.policy, shown |-> Policy!List.policy, late |-> Policy!List.late]
        /\ promise' = [i \in Targets |-> IF i = h.of THEN h.to ELSE promise[i]]
        /\ sole' = None
    BY <1>6 DEF Policy!Answer
  <2>2. h.policy = Policy!PolicyRead /\ (h.of # None => h.policy.overrides[h.of] = h.to)
    BY <1>1, <1>6 DEF Progress
  <2>3. AnswerShowsChange'
    BY <1>3, <2>1, <2>2 DEF AnswerShowsChange, Policy!AnswerShowsChange
  <2>4. PromiseHolds'
    BY <1>2, <2>1, <2>2, NullAssumption DEF PolicyInv, PromiseHolds, Policy!PromiseHolds
  <2>5. Alone' /\ Quiet' /\ ActorsName'
    BY <1>1, <1>5, <1>6, <2>1, NullAssumption DEF PolicyInv, Alone, Quiet, ActorsName
  <2> QED BY <1>4, <2>3, <2>4, <2>5 DEF PolicyInv
<1>7. CASE sole = None /\ \A i \in Targets : promise[i] = None
  <2>1. UNCHANGED <<sole, answer, promise>>
    BY <1>7, NullAssumption DEF Policy!Answer, Policy!history
  <2> QED BY <1>1, <1>4, <1>7, <2>1
          DEF PolicyInv, Alone, Quiet, PromiseHolds, Policy!PromiseHolds, AnswerShowsChange,
              Policy!AnswerShowsChange, ActorsName
<1> QED BY <1>1, <1>6, <1>7, SoleOrUnpromised

\* Steps that leave the files, the changing threads and the history alone.
LEMMA FilesStay ==
  ASSUME PolicyInv, UNCHANGED <<content, live, tmp, changer, sole, answer, promise>>,
         FreshLists', ActorsName'
  PROVE  PolicyInv'
<1>1. Policy!PolicyRead' = Policy!PolicyRead
  BY DEF Policy!PolicyRead, Policy!Defaults
<1>2. Alone'
  BY <1>1 DEF PolicyInv, Alone, Progress, Changed
<1> QED BY <1>1, <1>2 DEF PolicyInv, Apart, Quiet, PromiseHolds, Policy!PromiseHolds,
                          AnswerShowsChange, Policy!AnswerShowsChange

\* Reading and caching the list: what is cached late is marked so.
LEMMA ListStep ==
  ASSUME PolicyInv, PolicyTyped,
         \/ \E t \in Listers : Policy!ReadList(t) \/ Policy!CacheList(t)
         \/ Policy!Expire
  PROVE  PolicyInv'
<1>1. UNCHANGED <<content, live, tmp, changer, actor, sole, answer, promise>>
  BY DEF Policy!ReadList, Policy!CacheList, Policy!Expire, Policy!files, Policy!history
<1>2. Policy!PolicyRead' = Policy!PolicyRead
  BY <1>1 DEF Policy!PolicyRead, Policy!Defaults
<1>3. FreshLists'
  <2>1. CASE \E t \in Listers : Policy!ReadList(t)
    <3>1. PICK t \in Listers : Policy!ReadList(t)
      BY <2>1
    <3> DEFINE l == [policy |-> Policy!PolicyRead, late |-> FALSE]
    <3>2. l.policy = Policy!PolicyRead
      OBVIOUS
    <3>3. lister' = [lister EXCEPT ![t] = l] /\ cache' = cache
      BY <3>1 DEF Policy!ReadList
    <3> HIDE DEF l
    <3> QED BY <1>2, <3>2, <3>3 DEF PolicyInv, FreshLists, Fresh, PolicyTyped, PolicyShape
  <2>2. CASE \E t \in Listers : Policy!CacheList(t)
    BY <1>2, <2>2 DEF Policy!CacheList, PolicyInv, FreshLists, Fresh, PolicyTyped, PolicyShape
  <2>3. CASE Policy!Expire
    BY <1>2, <2>3 DEF Policy!Expire, PolicyInv, FreshLists, Fresh
  <2> QED BY <2>1, <2>2, <2>3
<1>4. ActorsName'
  BY <1>1 DEF PolicyInv, ActorsName
<1> QED BY <1>1, <1>3, <1>4, FilesStay

\* Actions read the policy and change nothing of it.
LEMMA ActorStep ==
  ASSUME PolicyInv, PolicyTyped, NEW t \in Actors,
         \/ \E i \in Targets : Policy!RequestAction(t, i)
         \/ Policy!CheckAction(t) \/ Policy!RunAction(t)
  PROVE  PolicyInv'
<1>1. UNCHANGED <<content, live, tmp, changer, lister, cache, sole, answer, promise>>
  BY DEF Policy!RequestAction, Policy!CheckAction, Policy!RunAction, Policy!files, Policy!history
<1>2. FreshLists'
  BY <1>1 DEF PolicyInv, FreshLists, Fresh, Policy!PolicyRead, Policy!Defaults
<1>3. ActorsName'
  BY DEF Policy!RequestAction, Policy!CheckAction, Policy!RunAction, PolicyInv, ActorsName,
         PolicyTyped, PolicyShape
<1> QED BY <1>1, <1>2, <1>3, FilesStay

\* A new agent finds the files as they are, a half-written temporary one too.
LEMMA AgentRestartStep ==
  ASSUME PolicyInv, Policy!AgentRestart PROVE PolicyInv'
<1>1. /\ changer' = [t \in Changers |-> Policy!IdleChanger]
      /\ actor' = [t \in Actors |-> Policy!IdleActor]
      /\ lister' = [t \in Listers |-> None] /\ cache' = None /\ sole' = None
      /\ UNCHANGED <<content, live, tmp, answer, promise>>
  BY DEF Policy!AgentRestart, Policy!files
<1>2. Alone' /\ Quiet'
  BY <1>1 DEF Alone, Quiet, Policy!IdleChanger
<1>3. FreshLists' /\ ActorsName'
  BY <1>1 DEF FreshLists, Fresh, ActorsName, Policy!IdleActor
<1>4. Apart' /\ PromiseHolds' /\ AnswerShowsChange'
  BY <1>1 DEF PolicyInv, Apart, PromiseHolds, Policy!PromiseHolds, Policy!PolicyRead,
              Policy!Defaults, AnswerShowsChange, Policy!AnswerShowsChange
<1> QED BY <1>2, <1>3, <1>4 DEF PolicyInv

LEMMA ChangeRequested ==
  ASSUME PolicyInv, PolicyTyped, ChangePolicy PROVE PolicyInv'
<1>1. Policy!IdleChanger.at = "idle" /\ Policy!IdleChanger.of = None
  BY DEF Policy!IdleChanger
<1>2. ASSUME NEW t \in Changers, NEW i \in Targets, NEW to \in {"on", "off"},
             Policy!RequestOverride(t, i, to)
      PROVE  PolicyInv'
  <2> DEFINE g == [Policy!IdleChanger EXCEPT !.at = "read", !.of = i, !.to = to]
  <2>1. Policy!Request(t, i) /\ changer' = [changer EXCEPT ![t] = g]
    BY <1>2, Zenon DEF Policy!RequestOverride
  <2>2. g.at = "read" /\ g.of = i
    BY DEF Policy!IdleChanger
  <2> HIDE DEF g
  <2>3. /\ changer'[t].at = "read" /\ changer'[t].of = i
        /\ \A u \in Changers : u # t => changer'[u] = changer[u]
    BY <2>1, <2>2 DEF PolicyTyped, PolicyShape
  <2> QED BY <2>1, <2>3, RequestStep
<1>3. ASSUME NEW t \in Changers, NEW m \in Policy!ControlModes, Policy!RequestMode(t, m)
      PROVE  PolicyInv'
  <2> DEFINE g == [Policy!IdleChanger EXCEPT !.at = "read", !.to = m]
  <2>1. Policy!Request(t, None) /\ changer' = [changer EXCEPT ![t] = g]
    BY <1>3, Zenon DEF Policy!RequestMode
  <2>2. g.at = "read" /\ g.of = None
    BY DEF Policy!IdleChanger
  <2> HIDE DEF g
  <2>3. /\ changer'[t].at = "read" /\ changer'[t].of = None
        /\ \A u \in Changers : u # t => changer'[u] = changer[u]
    BY <2>1, <2>2 DEF PolicyTyped, PolicyShape
  <2> QED BY <2>1, <2>3, RequestStep
<1> QED BY <1>2, <1>3 DEF ChangePolicy

\* Every step keeps the policy part.
LEMMA PolicyStepKeeps == AccessInv /\ PolicyTyped /\ PolicyInv /\ [Next]_vars => PolicyInv'
<1> SUFFICES ASSUME AccessInv, PolicyTyped, PolicyInv, [Next]_vars PROVE PolicyInv'
  OBVIOUS
<1>1. CASE UNCHANGED agentVars
  <2>1. FreshLists' /\ ActorsName'
    BY <1>1 DEF agentVars, PolicyInv, FreshLists, Fresh, ActorsName, Policy!PolicyRead, Policy!Defaults
  <2> QED BY <1>1, <2>1, FilesStay DEF agentVars
<1>2. CASE EditAccess \/ Damage \/ PanelStep \/ UNCHANGED vars
  BY <1>1, <1>2 DEF EditAccess, Damage, PanelStep, vars, agentVars
<1>3. CASE ChangePolicy
  BY <1>3, ChangeRequested
<1>4. ASSUME NEW c \in Panels, SendAction(c) PROVE PolicyInv'
  <2>1. panel[c].target \in Targets
    BY <1>4 DEF SendAction, Post, AccessInv, PanelsName
  <2> QED BY <1>4, <2>1, ActorStep DEF SendAction
<1>5. CASE AgentStep
  <2>1. CASE \E t \in Changers : \/ Policy!ReadPolicy(t) \/ Policy!OpenTemporary(t)
                                 \/ Policy!WriteTemporary(t) \/ Policy!Replace(t) \/ Policy!Answer(t)
    BY <2>1, ReadStep, OpenStep, WriteStep, ReplaceStep, AnswerStep
  <2>2. CASE Policy!Expire \/ \E t \in Listers : Policy!ReadList(t) \/ Policy!CacheList(t)
    BY <2>2, ListStep
  <2>3. CASE \E t \in Actors : Policy!CheckAction(t) \/ Policy!RunAction(t)
    BY <2>3, ActorStep
  <2> QED BY <1>5, <2>1, <2>2, <2>3 DEF AgentStep, Policy!PolicyStep
<1>6. CASE Restarts
  BY <1>1, <1>6, AgentRestartStep DEF Restarts
<1> QED BY <1>2, <1>3, <1>4, <1>5, <1>6 DEF Next

LEMMA PolicyCorrect == Spec => [](AccessInv /\ PolicyTyped /\ PolicyInv)
BY AccessInit, AccessStep, StartsTyped, TypesStep, PolicyInit, PolicyStepKeeps, PTL DEF Spec

\* What an acknowledged change said of a container is what every action reads,
\* wherever a later change of something else is or dies, until two overlap.
THEOREM PromiseKept == Spec => []PromiseHolds
<1>1. PolicyInv => PromiseHolds
  BY DEF PolicyInv
<1> QED BY <1>1, PolicyCorrect, PTL

\* The answer to a change that no other overlaps shows the policy after it, or
\* a list that was read before the policy changed and cached after it.
THEOREM ChangeAnswered == Spec => []AnswerShowsChange
<1>1. PolicyInv => AnswerShowsChange
  BY DEF PolicyInv
<1> QED BY <1>1, PolicyCorrect, PTL

\* Only the check of the policy lets an action through.
LEMMA CheckedBefore ==
  ASSUME PolicyShape, Next, NEW t \in Actors, actor[t].at = "check", actor'[t].at = "docker"
  PROVE  Policy!CheckAction(t)
<1>1. actor' # actor
  OBVIOUS
<1>2. CASE ChangePolicy
  BY <1>1, <1>2 DEF ChangePolicy, Policy!RequestOverride, Policy!RequestMode, Policy!Request
<1>3. CASE EditAccess \/ Damage \/ PanelStep
  BY <1>1, <1>3 DEF EditAccess, Damage, PanelStep, agentVars
<1>4. CASE \E c \in Panels : SendAction(c)
  BY <1>4 DEF SendAction, Policy!RequestAction, PolicyShape
<1>5. CASE AgentStep
  <2>1. PICK u \in Actors : Policy!CheckAction(u) \/ Policy!RunAction(u)
    BY <1>1, <1>5 DEF AgentStep, Policy!PolicyStep, Policy!ReadPolicy, Policy!OpenTemporary,
       Policy!WriteTemporary, Policy!Replace, Policy!Answer, Policy!ReadList,
       Policy!CacheList, Policy!Expire
  <2> QED BY <2>1 DEF Policy!CheckAction, Policy!RunAction, PolicyShape
<1>6. CASE Restarts
  BY <1>1, <1>6 DEF Restarts, Policy!AgentRestart, Policy!IdleActor, agentVars
<1> QED BY <1>2, <1>3, <1>4, <1>5, <1>6 DEF Next

\* No action on a protected container is let through, nor on one that an
\* acknowledged change switched off, unless two changes have overlapped since.
THEOREM ActionsHonourPolicy == Spec => ActionHonoursPolicy
<1> DEFINE honours ==
      \A t \in Actors : (actor[t].at = "check" /\ actor'[t].at = "docker")
                          => promise[actor[t].of] # "off" /\ actor[t].of \notin Guarded
<1>1. AccessInv /\ PolicyTyped /\ PolicyInv /\ [Next]_vars => [honours]_vars
  <2> SUFFICES ASSUME AccessInv, PolicyTyped, PolicyInv, Next,
                      NEW t \in Actors, actor[t].at = "check", actor'[t].at = "docker"
               PROVE  promise[actor[t].of] # "off" /\ actor[t].of \notin Guarded
    OBVIOUS
  <2>1. Policy!CheckAction(t)
    BY CheckedBefore DEF PolicyTyped
  <2>2. Policy!ControlAllowed(actor[t].of, Policy!PolicyRead)
    BY <2>1 DEF Policy!CheckAction, PolicyTyped, PolicyShape
  <2>3. actor[t].of \in Targets
    BY DEF PolicyInv, ActorsName
  <2> QED BY <2>2, <2>3, NullAssumption DEF Policy!ControlAllowed, PolicyInv, PromiseHolds, Policy!PromiseHolds
<1>2. Spec => [][honours]_vars
  BY <1>1, PolicyCorrect, PTL DEF Spec
<1> QED BY <1>2 DEF ActionHonoursPolicy

\* Types: settings, panels, files and threads keep their shape, with any number
\* of threads writing to the temporary file they share; what a thread opens is
\* always a file, and what can be read from it is a policy or torn.
THEOREM ServiceTypes == Spec => []TypeOK
<1>1. Init => PolicyTyped
  BY StartsTyped
<1>2. AccessInv => PanelType
  BY DEF AccessInv, AccessShape, PanelType, SettingsType, Files, Lists, EmptyFile
<1>3. PolicyTyped => Policy!PolicyType
  BY DEF PolicyTyped, PolicyShape, Policy!PolicyType, Carries, Places
<1>4. AccessInv /\ PolicyTyped => TypeOK
  BY <1>2, <1>3 DEF TypeOK
<1> QED BY <1>1, <1>4, AccessInit, AccessStep, TypesStep, PTL DEF Spec

\* README.md: "protected containers ... remain read-only": whatever the policy
\* file holds, and however many threads write to it at once, no action on a
\* protected container is let through.
THEOREM ProtectedReadOnly ==
  Spec => [][\A t \in Actors : (actor[t].at = "check" /\ actor'[t].at = "docker")
                                 => actor[t].of \notin Guarded]_vars
<1> DEFINE readOnly ==
      \A t \in Actors : (actor[t].at = "check" /\ actor'[t].at = "docker")
                          => actor[t].of \notin Guarded
<1>1. PolicyTyped /\ [Next]_vars => [readOnly]_vars
  BY CheckedBefore DEF Policy!CheckAction, Policy!ControlAllowed, PolicyTyped, PolicyShape
<1>2. Init => PolicyTyped
  BY StartsTyped
<1> QED BY <1>1, <1>2, AccessInit, AccessStep, TypesStep, PTL DEF Spec

=============================================================================
