---------------------------- MODULE RuntipiUpdates ----------------------------
(***************************************************************************)
(* App updates through Runtipi: update_app and update_all of the agent,    *)
(* the list of available updates and its cache, and as the environment     *)
(* Runtipi's jobs, its app store and the containers of the apps.           *)
(*                                                                         *)
(* The agent only asks Runtipi for an update and then watches; a request   *)
(* that the agent no longer waits for goes on in Runtipi.                  *)
(***************************************************************************)
EXTENDS Naturals, FiniteSets

CONSTANTS
  Apps,       \* installed Runtipi apps
  Shielded,   \* RUNTIPI_PROTECTED_APP_IDS
  Handlers,   \* request threads
  All,        \* the target of POST /v1/updates/all
  None,       \* nobody, nothing
  MaxVersion, MaxOperations, MaxFaults   \* bounds

ASSUME AppsAssumption == Shielded \subseteq Apps /\ All \notin Apps /\ None \notin Handlers
ASSUME VersionAssumption == MaxVersion \in Nat /\ MaxVersion >= 2

VARIABLES
  version, latest, \* Tipi versions: installed, and in the store
  box,     \* box[a]: "running", "stopped" or "missing"
  work,    \* work[a]: update jobs Runtipi has for a
  lock,    \* _runtipi_update_lock
  handler, \* handler[t]: where a thread is, its rows and their results
  cache,   \* _runtipi_cache_value, or None once it is too old
  operations, faults,
  withdrawn, \* history: apps of which the store has taken a version back
  given    \* history: apps of which a job went on that the agent did not wait for

vars == <<version, latest, box, work, lock, handler, cache, operations, faults, withdrawn, given>>
runtipi  == <<version, latest, box, work, withdrawn>>
counters == <<operations, faults>>

Behind(a) == latest[a] > version[a]

\* _installed_app_updates.
Rows == {[app |-> a, target |-> latest[a]] :
           a \in {b \in Apps \ Shielded : Behind(b)}}

IdleHandler == [at |-> "idle", what |-> None, todo |-> {}, row |-> None, seen |-> 0,
                behind |-> FALSE, done |-> [a \in Apps |-> "none"]]

Versions == 1..MaxVersion
RowType == [app : Apps \ Shielded, target : Versions]

Init ==
  /\ version = [a \in Apps |-> 1] /\ latest = [a \in Apps |-> 2]
  /\ box \in [Apps -> {"running", "stopped", "missing"}]
  /\ \A a \in Shielded : box[a] = "running"
  /\ work = [a \in Apps |-> 0]
  /\ lock = None /\ handler = [t \in Handlers |-> IdleHandler]
  /\ cache = None
  /\ operations = 0 /\ faults = 0 /\ withdrawn = {} /\ given = {}

TypeOK ==
  /\ version \in [Apps -> Versions] /\ latest \in [Apps -> Versions]
  /\ box \in [Apps -> {"running", "stopped", "missing"}]
  /\ work \in [Apps -> Nat]
  /\ lock \in Handlers \cup {None}
  /\ \A t \in Handlers :
       /\ handler[t].at \in {"idle", "check", "rows", "wait", "probe"}
       /\ handler[t].todo \subseteq RowType
       /\ handler[t].at \in {"wait", "probe"} => handler[t].row \in RowType
       /\ handler[t].done \in [Apps -> {"none", "updated", "failed", "skipped"}]
  /\ cache = None \/ cache \subseteq RowType
  /\ given \subseteq Apps

-----------------------------------------------------------------------------
(* update_app and update_all.                                              *)

Admitted(what) == what = All \/ what \notin Shielded

\* Wrong on purpose: operations do not exclude each other.
BeginUnlocked(t, what) ==
  /\ handler[t].at = "idle" /\ operations < MaxOperations /\ Admitted(what)
  /\ operations' = operations + 1
  /\ lock' = t
  /\ handler' = [handler EXCEPT ![t] = [IdleHandler EXCEPT !.at = "check", !.what = what]]
  /\ UNCHANGED <<runtipi, cache, faults, given>>

\* A protected app is refused; while another operation runs the answer is busy.
Begin(t, what) ==
  /\ handler[t].at = "idle" /\ operations < MaxOperations /\ Admitted(what)
  /\ lock = None
  /\ operations' = operations + 1
  /\ lock' = t
  /\ handler' = [handler EXCEPT ![t] = [IdleHandler EXCEPT !.at = "check", !.what = what]]
  /\ UNCHANGED <<runtipi, cache, faults, given>>

Wanted(t, rows) == {r \in rows : handler[t].what \in {All, r.app}}

\* runtipi_updates(force=True).
Check(t) ==
  /\ handler[t].at = "check"
  /\ cache' = Rows
  /\ handler' = [handler EXCEPT ![t].at = "rows", ![t].todo = Wanted(t, Rows)]
  /\ UNCHANGED <<runtipi, lock, counters, given>>

\* Wrong on purpose: only a finished operation releases the lock.
CheckFailsLocked(t) ==
  /\ handler[t].at = "check" /\ faults < MaxFaults
  /\ faults' = faults + 1
  /\ cache' = {}
  /\ handler' = [handler EXCEPT ![t] = IdleHandler]
  /\ UNCHANGED <<runtipi, lock, operations, given>>

\* Runtipi does not answer: an empty list is cached, the operation ends.
CheckFails(t) ==
  /\ handler[t].at = "check" /\ faults < MaxFaults
  /\ faults' = faults + 1
  /\ cache' = {}
  /\ handler' = [handler EXCEPT ![t] = IdleHandler]
  /\ lock' = None
  /\ UNCHANGED <<runtipi, operations, given>>

\* The row is settled with a result.
Settle(t, row, status) ==
  handler' = [handler EXCEPT ![t].at = "rows", ![t].todo = @ \ {row}, ![t].row = None,
                             ![t].done[row.app] = status]

\* The app has no running container, or the time for all apps is used up.
Skip(t) ==
  /\ handler[t].at = "rows"
  /\ \E r \in handler[t].todo :
       /\ box[r.app] # "running" \/ handler[t].what = All
       /\ Settle(t, r, "skipped")
  /\ UNCHANGED <<runtipi, lock, cache, counters, given>>

\* Runtipi accepts the update.
Request(t) ==
  /\ handler[t].at = "rows"
  /\ \E r \in handler[t].todo :
       /\ box[r.app] = "running"
       /\ work' = [work EXCEPT ![r.app] = @ + 1]
       /\ handler' = [handler EXCEPT ![t].at = "wait", ![t].row = r]
  /\ UNCHANGED <<version, latest, box, withdrawn, lock, cache, counters, given>>

\* Runtipi refuses, or its answer comes too late for the agent.
RequestFails(t) ==
  /\ handler[t].at = "rows" /\ faults < MaxFaults
  /\ faults' = faults + 1
  /\ \E r \in handler[t].todo :
       /\ box[r.app] = "running"
       /\ Settle(t, r, "failed")
       /\ \/ work' = [work EXCEPT ![r.app] = @ + 1] /\ given' = given \cup {r.app}
          \/ UNCHANGED <<work, given>>
  /\ UNCHANGED <<version, latest, box, withdrawn, lock, cache, operations>>

\* _wait_for_updated_app: the app's version is read, then its container.
PollVersion(t) ==
  /\ handler[t].at = "wait"
  /\ LET a == handler[t].row.app IN
     handler' = [handler EXCEPT ![t].at = "probe", ![t].seen = version[a], ![t].behind = Behind(a)]
  /\ UNCHANGED <<runtipi, lock, cache, counters, given>>

\* Wrong on purpose: a running container is enough.
ConvergedProbeOnly(h) == TRUE

\* The version is reached, or the store offers no newer one any more.
Converged(h) == h.seen >= h.row.target \/ ~h.behind

PollProbe(t) ==
  LET h == handler[t] IN
  /\ h.at = "probe"
  /\ IF box[h.row.app] = "running" /\ Converged(h)
     THEN Settle(t, h.row, "updated")
     ELSE handler' = [handler EXCEPT ![t].at = "wait"]
  /\ UNCHANGED <<runtipi, lock, cache, counters, given>>

\* RUNTIPI_UPDATE_TIMEOUT.
GiveUp(t) ==
  /\ handler[t].at = "wait"
  /\ Settle(t, handler[t].row, "failed")
  /\ given' = IF work[handler[t].row.app] > 0 THEN given \cup {handler[t].row.app} ELSE given
  /\ UNCHANGED <<runtipi, lock, cache, counters>>

\* The answer.  The cache is meant to be dropped, but the assignment to
\* _runtipi_cache_timestamp lacks a global declaration and has no effect.
Finish(t) ==
  /\ handler[t].at = "rows" /\ handler[t].todo = {}
  /\ handler' = [handler EXCEPT ![t] = IdleHandler]
  /\ lock' = None
  /\ UNCHANGED <<runtipi, cache, counters, given>>

-----------------------------------------------------------------------------
(* The panel's list, the containers, Runtipi, and the agent's death.       *)

\* runtipi_updates(), for a panel.
List ==
  /\ cache = None
  /\ cache' = Rows
  /\ UNCHANGED <<runtipi, lock, handler, counters, given>>

Expire ==
  /\ cache # None
  /\ cache' = None
  /\ UNCHANGED <<runtipi, lock, handler, counters, given>>

\* A job stops the app, and ends with it updated or not, running or not.
WorkStops(a) ==
  /\ work[a] > 0 /\ box[a] = "running"
  /\ box' = [box EXCEPT ![a] = "stopped"]
  /\ UNCHANGED <<version, latest, work, withdrawn, lock, handler, cache, counters, given>>

WorkEnds(a) ==
  /\ work[a] > 0
  /\ work' = [work EXCEPT ![a] = @ - 1]
  /\ \E v \in {version[a], latest[a]}, b \in {"running", "stopped"} :
       /\ version' = [version EXCEPT ![a] = IF v > @ THEN v ELSE @]
       /\ box' = [box EXCEPT ![a] = b]
  /\ UNCHANGED <<latest, withdrawn, lock, handler, cache, counters, given>>

\* The store offers a newer version of an app, or takes one back.
StoreChanges(a) ==
  /\ a \notin Shielded /\ faults < MaxFaults
  /\ faults' = faults + 1
  /\ \E v \in Versions \ {latest[a]} :
       /\ latest' = [latest EXCEPT ![a] = v]
       /\ withdrawn' = IF v < latest[a] THEN withdrawn \cup {a} ELSE withdrawn
  /\ UNCHANGED <<version, box, work, lock, handler, cache, operations, given>>

AgentRestart ==
  /\ faults < MaxFaults
  /\ faults' = faults + 1
  /\ lock' = None /\ handler' = [t \in Handlers |-> IdleHandler]
  /\ cache' = None
  /\ given' = given \cup {a \in Apps : work[a] > 0}
  /\ UNCHANGED <<runtipi, operations>>

HandlerStep(t) ==
  \/ Check(t) \/ CheckFails(t) \/ Skip(t) \/ Request(t) \/ RequestFails(t)
  \/ PollVersion(t) \/ PollProbe(t) \/ GiveUp(t) \/ Finish(t)

Next ==
  \/ \E t \in Handlers : HandlerStep(t) \/ \E what \in Apps \cup {All} : Begin(t, what)
  \/ List \/ Expire
  \/ \E a \in Apps : WorkStops(a) \/ WorkEnds(a) \/ StoreChanges(a)
  \/ AgentRestart

Spec == Init /\ [][Next]_vars

\* Threads run on, and a deadline passes however often Runtipi is polled.
Fairness == \A t \in Handlers : WF_vars(HandlerStep(t)) /\ SF_vars(GiveUp(t))

FairSpec == Spec /\ Fairness

-----------------------------------------------------------------------------
(* Properties.                                                             *)

\* "updated" is only said of an app that has the version it was to get, unless
\* the store has taken a version of it back: between the poll of the version
\* and the probe of the container nothing else can make it untrue.
UpdatedIsTrue ==
  [][\A t \in Handlers : \A a \in Apps :
       (handler'[t].done[a] = "updated" /\ handler[t].done[a] # "updated")
         => version[a] >= handler[t].row.target \/ a \in withdrawn]_vars

\* Whatever Runtipi is doing to an app is watched by the one operation that
\* holds the lock, or was given up: by a timeout, a lost answer or the agent's
\* death, or taken for done when the store took the version back.  So two jobs
\* for one app, or jobs for two apps, need one of those.
WorkIsWatched ==
  \A a \in Apps : work[a] > 0 =>
    \/ a \in given \cup withdrawn
    \/ /\ work[a] = 1 /\ lock # None
       /\ handler[lock].at \in {"wait", "probe"} /\ handler[lock].row.app = a

\* No failure, timeout or refusal leaves later updates answered "busy".
LockReleased == (lock # None) ~> (lock = None)
=============================================================================
