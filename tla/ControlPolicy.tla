---------------------------- MODULE ControlPolicy ----------------------------
(***************************************************************************)
(* The agent's side of service control: which containers may be started,   *)
(* stopped or restarted, the policy file that says so and the cached list  *)
(* of services.  Every HTTP request is a thread of its own; nothing but    *)
(* the cache is locked.                                                    *)
(*                                                                         *)
(* The policy file is replaced by renaming a temporary file whose name all *)
(* threads share, so files are inodes: a thread may still write to one     *)
(* that another thread has already made the policy.                        *)
(***************************************************************************)
CONSTANTS
  Idents,         \* identities of containers
  Guarded,        \* the protected ones among them
  Changers,       \* threads that may run a POST /v1/control-policy
  Listers,        \* threads that may run a GET /v1/services
  Actors,         \* threads that may run a POST /v1/services/.../<action>
  Inodes,         \* files, more than are in use at once
  EnvControlMode, \* SERVICE_CONTROL_MODE
  Torn,           \* content of a file that is empty or not JSON
  None            \* no file, no thread, no promise

ControlModes == {"opt-in", "opt-out"}
Overrides    == {"on", "off", "unset"}
Policies     == [mode : ControlModes, overrides : [Idents -> Overrides]]

VARIABLES
  content, \* content[n]: what inode n holds
  live,    \* the inode of control-policy.json
  tmp,     \* the inode of control-policy.json.tmp
  changer, \* changer[t]: where a changing thread is, and what it carries
  actor,   \* actor[t]: where an acting thread is, and its container
  lister,  \* lister[t]: the policy a listing thread has read, or None
  cache,   \* _service_cache_value: the policy its rows show, or None; late is
           \* history: the policy has changed since it was read
  sole,    \* history: the thread whose change no other has overlapped, or None
  answer,  \* history: the latest answer to such a change, what it showed, how late
  promise  \* history: what the latest such change of each container said

files      == <<content, live, tmp>>
history    == <<sole, answer, promise>>
policyVars == <<files, changer, actor, lister, cache, history>>

\* _policy_read: what cannot be read counts as a policy without overrides.
Defaults == [mode |-> EnvControlMode, overrides |-> [i \in Idents |-> "unset"]]
PolicyRead == IF live = None \/ content[live] = Torn THEN Defaults ELSE content[live]

\* _control_allowed.
ControlAllowed(i, policy) ==
  /\ i \notin Guarded
  /\ \/ policy.overrides[i] = "on"
     \/ policy.overrides[i] = "unset" /\ policy.mode = "opt-out"

IdleChanger == [at |-> "idle", of |-> None, to |-> None, policy |-> Defaults, inode |-> None]
IdleActor   == [at |-> "idle", of |-> None]

PolicyInit ==
  /\ content = [n \in Inodes |-> Torn] /\ live = None /\ tmp = None
  /\ changer = [t \in Changers |-> IdleChanger]
  /\ actor = [t \in Actors |-> IdleActor]
  /\ lister = [t \in Listers |-> None] /\ cache = None
  /\ sole = None /\ answer = None
  /\ promise = [i \in Idents |-> None]

Lists == [policy : Policies, late : BOOLEAN]

PolicyType ==
  /\ content \in [Inodes -> Policies \cup {Torn}]
  /\ live \in Inodes \cup {None} /\ tmp \in Inodes \cup {None}
  /\ \A t \in Changers :
       /\ changer[t].at \in {"idle", "read", "open", "write", "replace", "list"}
       /\ changer[t].policy \in Policies
       /\ changer[t].inode \in Inodes \cup {None}
  /\ \A t \in Actors : actor[t].at \in {"idle", "check", "docker"}
  /\ lister \in [Listers -> Lists \cup {None}] /\ cache \in Lists \cup {None}
  /\ sole \in Changers \cup {None}

-----------------------------------------------------------------------------
(* set_control_policy and set_control_mode.                                *)

\* History: while a change is under way nothing is promised about what it
\* changes; changes that overlap may lose each other's and tear the file, so
\* from then on nothing is promised at all, until it is acknowledged anew.
Request(t, of) ==
  /\ changer[t].at = "idle"
  /\ IF \A u \in Changers : changer[u].at = "idle"
     THEN sole' = t /\ promise' = [i \in Idents |-> IF i = of THEN None ELSE promise[i]]
     ELSE sole' = None /\ promise' = [i \in Idents |-> None]
  /\ UNCHANGED <<files, actor, lister, cache, answer>>

\* A request for an override of i, refused for a protected container.
RequestOverride(t, i, to) ==
  /\ i \notin Guarded
  /\ changer' = [changer EXCEPT ![t] = [IdleChanger EXCEPT !.at = "read", !.of = i, !.to = to]]
  /\ Request(t, i)

RequestMode(t, mode) ==
  /\ changer' = [changer EXCEPT ![t] = [IdleChanger EXCEPT !.at = "read", !.to = mode]]
  /\ Request(t, None)

\* A mode that is set already is not written.
ReadPolicy(t) ==
  LET h == changer[t]
      p == IF h.of = None THEN [PolicyRead EXCEPT !.mode = h.to]
           ELSE [PolicyRead EXCEPT !.overrides[h.of] = h.to] IN
  /\ h.at = "read"
  /\ changer' = [changer EXCEPT ![t].policy = p,
                    ![t].at = IF h.of = None /\ p = PolicyRead THEN "list" ELSE "open"]
  /\ UNCHANGED <<files, actor, lister, cache, history>>

Unused == Inodes \ ({live, tmp} \cup {changer[t].inode : t \in Changers})

\* Wrong on purpose: the policy file itself is opened for writing.
OpenInPlace(t) ==
  LET n == IF live # None THEN live ELSE CHOOSE m \in Unused : TRUE IN
  /\ changer[t].at = "open"
  /\ content' = [content EXCEPT ![n] = Torn]
  /\ live' = n /\ tmp' = n
  /\ changer' = [changer EXCEPT ![t].at = "write", ![t].inode = n]
  /\ UNCHANGED <<actor, lister, cache, history>>

\* Opening the temporary file truncates what another thread may have in it.
OpenTemporary(t) ==
  LET n == IF tmp # None THEN tmp ELSE CHOOSE m \in Unused : TRUE IN
  /\ changer[t].at = "open"
  /\ content' = [content EXCEPT ![n] = Torn]
  /\ tmp' = n
  /\ changer' = [changer EXCEPT ![t].at = "write", ![t].inode = n]
  /\ UNCHANGED <<live, actor, lister, cache, history>>

Late(l) == IF l = None THEN None ELSE [l EXCEPT !.late = TRUE]
Overlapped == [u \in Listers |-> Late(lister[u])]

\* The text replaces a shorter one and leaves the end of a longer one.  If
\* another thread has made the file the policy meanwhile, the policy changes
\* under the lists that were read from it.
WriteTemporary(t) ==
  LET h == changer[t] IN
  /\ h.at = "write"
  /\ \E c \in {h.policy} \cup ({content[h.inode]} \ {Torn}) :
       content' = [content EXCEPT ![h.inode] =
                     IF c = h.policy THEN h.policy ELSE Torn]
  /\ changer' = [changer EXCEPT ![t].at = "replace"]
  /\ IF h.inode = live THEN lister' = Overlapped /\ cache' = Late(cache)
     ELSE UNCHANGED <<lister, cache>>
  /\ UNCHANGED <<live, tmp, actor, history>>

\* Wrong on purpose: the cached list survives a change.
ReplaceKeepsCache(t) ==
  LET h == changer[t] IN
  /\ h.at = "replace"
  /\ IF tmp = None
     THEN /\ changer' = [changer EXCEPT ![t] = IdleChanger]
          /\ UNCHANGED <<live, tmp, lister>>
     ELSE /\ live' = tmp /\ tmp' = None /\ lister' = Overlapped
          /\ changer' = [changer EXCEPT ![t].at = "list", ![t].inode = None]
  /\ UNCHANGED <<content, actor, cache, history>>

\* os.replace; without the temporary file the request fails.  Else the cached
\* list is dropped.
Replace(t) ==
  LET h == changer[t] IN
  /\ h.at = "replace"
  /\ IF tmp = None
     THEN /\ changer' = [changer EXCEPT ![t] = IdleChanger]
          /\ UNCHANGED <<live, tmp, lister, cache>>
     ELSE /\ live' = tmp /\ tmp' = None /\ cache' = None /\ lister' = Overlapped
          /\ changer' = [changer EXCEPT ![t].at = "list", ![t].inode = None]
  /\ UNCHANGED <<content, actor, history>>

\* control_policy: the rows come from the cached list if there is one.
List == IF cache # None THEN cache ELSE [policy |-> PolicyRead, late |-> FALSE]

Answer(t) ==
  LET h == changer[t] IN
  /\ h.at = "list"
  /\ cache' = List
  /\ changer' = [changer EXCEPT ![t] = IdleChanger]
  /\ IF sole = t
     THEN /\ answer' = [asked |-> h.policy, shown |-> List.policy, late |-> List.late]
          /\ promise' = [i \in Idents |-> IF i = h.of THEN h.to ELSE promise[i]]
          /\ sole' = None
     ELSE UNCHANGED history
  /\ UNCHANGED <<files, actor, lister>>

\* service_list: the policy is read before the containers are probed, and the
\* rows are cached afterwards, whatever was dropped from the cache meanwhile.
ReadList(t) ==
  /\ lister[t] = None /\ cache = None
  /\ lister' = [lister EXCEPT ![t] = [policy |-> PolicyRead, late |-> FALSE]]
  /\ UNCHANGED <<files, changer, actor, cache, history>>

CacheList(t) ==
  /\ lister[t] # None
  /\ cache' = lister[t]
  /\ lister' = [lister EXCEPT ![t] = None]
  /\ UNCHANGED <<files, changer, actor, history>>

\* SERVICE_CACHE_TTL.
Expire == cache # None /\ cache' = None /\ UNCHANGED <<files, changer, actor, lister, history>>

-----------------------------------------------------------------------------
(* manage_service: the policy is read anew for every action.               *)

RequestAction(t, i) ==
  /\ actor[t].at = "idle"
  /\ actor' = [actor EXCEPT ![t] = [at |-> "check", of |-> i]]
  /\ UNCHANGED <<files, changer, lister, cache, history>>

\* Wrong on purpose: the action trusts the row of the cached list.
CheckCached(t) ==
  /\ actor[t].at = "check"
  /\ actor' = [actor EXCEPT ![t].at = IF ControlAllowed(actor[t].of, List.policy) THEN "docker" ELSE "idle"]
  /\ UNCHANGED <<files, changer, lister, cache, history>>

CheckAction(t) ==
  /\ actor[t].at = "check"
  /\ actor' = [actor EXCEPT ![t].at =
                 IF ControlAllowed(actor[t].of, PolicyRead) THEN "docker" ELSE "idle"]
  /\ UNCHANGED <<files, changer, lister, cache, history>>

RunAction(t) ==
  /\ actor[t].at = "docker"
  /\ actor' = [actor EXCEPT ![t].at = "idle"]
  /\ UNCHANGED <<files, changer, lister, cache, history>>

\* The agent is recreated: its threads and its cache are gone, the files stay,
\* a half-written temporary file too.
AgentRestart ==
  /\ changer' = [t \in Changers |-> IdleChanger]
  /\ actor' = [t \in Actors |-> IdleActor]
  /\ lister' = [t \in Listers |-> None] /\ cache' = None
  /\ sole' = None
  /\ UNCHANGED <<files, answer, promise>>

PolicyStep ==
  \/ \E t \in Changers : ReadPolicy(t) \/ OpenTemporary(t) \/ WriteTemporary(t)
                           \/ Replace(t) \/ Answer(t)
  \/ \E t \in Listers : CacheList(t)
  \/ \E t \in Actors : CheckAction(t) \/ RunAction(t)

-----------------------------------------------------------------------------
(* Properties.                                                             *)

\* README.md: "protected containers and explicit opt-outs remain read-only".
\* What an acknowledged change said of a container is what every action reads,
\* while another change is half written and after the agent died in one, until
\* two changes overlap: the code has no lock against that.
PromiseHolds ==
  \A i \in Idents : promise[i] # None => PolicyRead.overrides[i] = promise[i]

\* The answer to a change that no other overlapped shows the rows as they are
\* after it, not as the list was cached before, unless the policy had changed
\* since that list was read and another thread cached it all the same.
AnswerShowsChange == answer # None => answer.late \/ answer.shown = answer.asked
=============================================================================
