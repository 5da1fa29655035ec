---------------------------- MODULE ControlRelease ----------------------------
(***************************************************************************)
(* What the worker does to the two control containers: run_bot_update,     *)
(* run_bot_rollback and run_bot_maintenance, with restore_release under    *)
(* all three.  The worker executes one job at a time; it may die between   *)
(* any two steps, and docker compose may replace one container and not the *)
(* other.  A step ends where the worker publishes bot-release.json, so the *)
(* status below is the file and the worker's own copy at once.             *)
(***************************************************************************)
EXTENDS Naturals, Sequences, FiniteSets

CONSTANTS
  Versions,      \* release versions; an image tag is its version
  UserSettings,  \* what users may have configured
  Cleared,       \* the contents a reset or a fresh repair leaves
  Gone,          \* docker compose knows no such container
  None,          \* no version, no pair, no backup
  MaxJobs,       \* bound: jobs executed
  MaxCrashes,    \* bound: worker deaths in the middle of a job
  MaxEdits,      \* bound: settings changed by users
  MaxEvents,     \* bound: of the three together
  Installed      \* the settings at the installation

ASSUME VersionsAssumption == Versions \subseteq Nat
ASSUME BoundsAssumption   == {MaxJobs, MaxCrashes, MaxEdits, MaxEvents} \subseteq Nat
ASSUME InstalledAssumption == Installed \in UserSettings
Services  == {"agent", "bot"}
Settings  == UserSettings \cup {Cleared}
Container == [image : Versions, cfg : Settings]
Pair      == [Services -> Versions]

ASSUME ClearedAssumption == Cleared \notin UserSettings
ASSUME NullsAssumption ==
  None \notin Versions \cup Settings \cup Pair /\ Gone \notin Versions \cup Container

ReleaseKinds  == {"update", "rollback"}
RecoveryKinds == {"bot_restart", "bot_repair", "settings_restore", "settings_reset"}

Active  == {"checking", "downloading", "building", "restarting", "verifying_runtime"}
Settled == {"complete", "rolled_back", "failed"}

VARIABLES
  ctr,       \* the two control containers
  healthy,   \* whether the containers, as they are now, pass both health checks
  settings,  \* config and runtime overlay on disk
  backups,   \* SETTINGS_BACKUP_ROOT, oldest first
  status,    \* bot-release.json
  job,       \* the worker's place in the current or latest job, its locals
  origin,    \* history: the deployment as the latest job found it
  jobs, crashes, edits

vars == <<ctr, healthy, settings, backups, status, job, origin, jobs, crashes, edits>>
counters == <<jobs, crashes, edits>>

Image(c)   == IF c = Gone THEN Gone ELSE c.image
Images     == [s \in Services |-> Image(ctr[s])]
AllUp      == \A s \in Services : ctr[s] # Gone
Uniform(v) == [s \in Services |-> v]

\* snapshot_version looks at the bot's image first.
SnapshotVersion(p) == p["bot"]

EventsLeft == jobs + crashes + edits < MaxEvents

Places == {"idle", "down", "prepare", "fetch", "stage", "build", "switch", "verify",
           "finish", "restore", "restore_verify", "restore_failed",
           "recover", "reset_done", "recreate", "recover_verify", "recovery_failed"}
Returns == {"update_undone", "rollback_undone", "local", "refused", "recovery"}

StatusType ==
  [phase : Active \cup Settled \cup {"idle"},
   detail : {"none", "refused", "restored", "unverified", "interrupted", "failed"},
   changed : BOOLEAN, restored : BOOLEAN,
   current : Versions \cup {None}, retained : Pair \cup {None}]

JobType ==
  [at : Places, kind : ReleaseKinds \cup RecoveryKinds \cup {"none"},
   target : Versions \cup {None}, named : BOOLEAN,
   before : Pair \cup {None}, backup : Settings \cup {None},
   tried : BOOLEAN, to : Pair \cup {None}, then : Returns]

OriginType ==
  [ctr : [Services -> Container \cup {Gone}], healthy : BOOLEAN,
   retained : Pair \cup {None}, settings : Settings, edits : Nat, recreated : BOOLEAN]

TypeOK ==
  /\ ctr \in [Services -> Container \cup {Gone}]
  /\ healthy \in BOOLEAN
  /\ settings \in Settings
  /\ backups \in Seq(Settings)
  /\ status \in StatusType
  /\ job \in JobType
  /\ origin \in OriginType
  /\ jobs \in Nat /\ crashes \in Nat /\ edits \in Nat

NoJob == [at |-> "idle", kind |-> "none", target |-> None, named |-> FALSE,
          before |-> None, backup |-> None, tried |-> FALSE, to |-> None,
          then |-> "refused"]

\* A fresh installation of some release, no release job has run.
Init ==
  /\ \E v \in Versions : ctr = [s \in Services |-> [image |-> v, cfg |-> Installed]]
  /\ settings = Installed
  /\ healthy = TRUE /\ backups = <<>>
  /\ status = [phase |-> "idle", detail |-> "none", changed |-> FALSE,
               restored |-> FALSE, current |-> None, retained |-> None]
  /\ job = NoJob
  /\ origin = [ctr |-> ctr, healthy |-> TRUE, retained |-> None, settings |-> settings,
               edits |-> 0, recreated |-> FALSE]
  /\ jobs = 0 /\ crashes = 0 /\ edits = 0

-----------------------------------------------------------------------------
(* docker compose up -d                                                    *)

\* Both services run the images of pair p and the settings of now.
Started(p) == [s \in Services |-> [image |-> p[s], cfg |-> settings]]

\* The command may fail with any of the services replaced, removed or untouched.
PartlyStarted(p) ==
  {c \in [Services -> Container \cup {Gone}] :
     \A s \in Services : c[s] \in {ctr[s], Started(p)[s], Gone}}

UpSucceeds(p) ==
  /\ ctr' = Started(p)
  /\ healthy' \in BOOLEAN
  /\ origin' = [origin EXCEPT !.recreated = TRUE]

UpFails(p) ==
  /\ ctr' \in PartlyStarted(p)
  /\ healthy' \in {h \in BOOLEAN : h => \A s \in Services : ctr'[s] # Gone}
  /\ origin' = [origin EXCEPT !.recreated = @ \/ ctr' # ctr]

Publish(phase, detail) ==
  status' = [status EXCEPT !.phase = phase, !.detail = detail]

EndJob == job' = [job EXCEPT !.at = "idle"]
Goto(place) == job' = [job EXCEPT !.at = place]

\* Entering restore_release: it announces the change before it makes it.
\* phase is what the caller's status shows meanwhile.
Restore(p, then, phase) ==
  /\ job' = [job EXCEPT !.at = "restore", !.to = p, !.then = then]
  /\ status' = [status EXCEPT !.phase = phase, !.changed = TRUE]

-----------------------------------------------------------------------------
(* run_bot_update and run_bot_rollback                                     *)

\* The request is the agent's: any version, or for a rollback perhaps none (a
\* retained pair is meant); a version may have been named by the user.
BeginRelease ==
  /\ job.at = "idle" /\ jobs < MaxJobs /\ EventsLeft
  /\ \E k \in ReleaseKinds, v \in Versions \cup {None}, n \in BOOLEAN :
       /\ k = "update" => v # None /\ ~n
       /\ n => v # None
       /\ job' = [NoJob EXCEPT !.at = "prepare", !.kind = k, !.target = v, !.named = n]
  /\ status' = [status EXCEPT !.phase = "checking", !.detail = "none",
                              !.changed = FALSE, !.restored = FALSE]
  /\ origin' = [ctr |-> ctr, healthy |-> healthy, retained |-> status.retained,
                settings |-> settings, edits |-> edits, recreated |-> FALSE]
  /\ jobs' = jobs + 1
  /\ UNCHANGED <<ctr, healthy, settings, backups, crashes, edits>>

\* The outer exception handler.  A rollback that tried the retained pair in vain
\* puts the running pair back first.
Refuse ==
  /\ IF job.tried THEN Restore(job.before, "refused", status.phase)
     ELSE EndJob /\ Publish("failed", "refused")
  /\ UNCHANGED <<ctr, healthy, settings, backups, origin, counters>>

\* A retained pair is the shortcut unless the user named a GitHub release.
LocalRollback == job.kind = "rollback" /\ ~job.named /\ status.retained # None

\* Settings are backed up, the request validated, the running pair recorded.
Prepare ==
  /\ job.at = "prepare" /\ AllUp
  /\ backups' = Append(backups, settings)
  /\ LET here == [job EXCEPT !.before = Images]
     IN  IF LocalRollback
         THEN /\ job' = [here EXCEPT !.at = "restore", !.to = status.retained, !.then = "local"]
              /\ status' = [status EXCEPT !.phase = "restarting", !.changed = TRUE]
         ELSE /\ job' = [here EXCEPT !.at = "fetch"]
              /\ UNCHANGED status
  /\ UNCHANGED <<ctr, healthy, settings, origin, counters>>

PrepareFails ==
  /\ job.at = "prepare"
  /\ backups' \in {backups, Append(backups, settings)}
  /\ EndJob /\ Publish("failed", "refused")
  /\ UNCHANGED <<ctr, healthy, settings, origin, counters>>

\* A rollback needs release metadata, and a release older than the running one.
Fetch ==
  /\ job.at = "fetch" /\ job.target # None
  /\ job.kind = "rollback" => job.target < SnapshotVersion(job.before)
  /\ Goto("stage") /\ Publish("downloading", "none")
  /\ UNCHANGED <<ctr, healthy, settings, backups, origin, counters>>

FetchFails == job.at = "fetch" /\ Refuse

\* Downloaded, SHA-256 verified, unpacked and checked; then building begins.
Stage ==
  /\ job.at = "stage"
  /\ Goto("build") /\ Publish("building", "none")
  /\ UNCHANGED <<ctr, healthy, settings, backups, origin, counters>>

StageFails == job.at = "stage" /\ Refuse

\* The inner exception handler: back to the pair that ran before.  An update has
\* set its phase by then; a rollback sets it afterwards.
Undo(phase) ==
  Restore(job.before,
          IF job.kind = "update" THEN "update_undone" ELSE "rollback_undone",
          IF job.kind = "update" THEN "failed" ELSE phase)

\* Wrong on purpose: the change is announced with the end of the switch only.
BuildUnannounced ==
  /\ job.at = "build"
  /\ Goto("switch") /\ Publish("restarting", "none")
  /\ UNCHANGED <<ctr, healthy, settings, backups, origin, counters>>

\* docker compose config and build.  containers_changed is published before the
\* containers change.
Build ==
  /\ job.at = "build"
  /\ Goto("switch")
  /\ status' = [status EXCEPT !.phase = "restarting", !.changed = TRUE]
  /\ UNCHANGED <<ctr, healthy, settings, backups, origin, counters>>

BuildFails ==
  /\ job.at = "build"
  /\ Undo("failed")      \* run_bot_command has published it
  /\ UNCHANGED <<ctr, healthy, settings, backups, origin, counters>>

Switch ==
  /\ job.at = "switch"
  /\ UpSucceeds(Uniform(job.target))
  /\ Goto("verify") /\ Publish("verifying_runtime", "none")
  /\ UNCHANGED <<settings, backups, counters>>

SwitchFails ==
  /\ job.at = "switch"
  /\ UpFails(Uniform(job.target))
  /\ Undo("failed")
  /\ UNCHANGED <<settings, backups, counters>>

\* Wrong on purpose: running containers are taken for healthy ones.
VerifyRunning ==
  /\ job.at = "verify" /\ AllUp
  /\ IF job.kind = "update"
     THEN /\ EndJob
          /\ status' = [phase |-> "complete", detail |-> "none", changed |-> TRUE,
                        restored |-> FALSE, current |-> job.target, retained |-> job.before]
     ELSE Goto("finish") /\ UNCHANGED status
  /\ UNCHANGED <<ctr, healthy, settings, backups, origin, counters>>

\* Wrong on purpose: the success is published while the job still works.
VerifyAnnounces ==
  /\ job.at = "verify" /\ healthy
  /\ Goto("finish") /\ Publish("rolled_back", "none")
  /\ UNCHANGED <<ctr, healthy, settings, backups, origin, counters>>

\* wait_control_health on the new containers
Verify ==
  /\ job.at = "verify" /\ healthy
  /\ IF job.kind = "update"
     THEN /\ EndJob
          /\ status' = [phase |-> "complete", detail |-> "none", changed |-> TRUE,
                        restored |-> FALSE, current |-> job.target, retained |-> job.before]
     ELSE Goto("finish") /\ UNCHANGED status
  /\ UNCHANGED <<ctr, healthy, settings, backups, origin, counters>>

\* Wrong on purpose: an unhealthy release is refused like a bad archive.
VerifyRefuses == job.at = "verify" /\ ~healthy /\ Refuse

VerifyFails ==
  /\ job.at = "verify" /\ ~healthy
  /\ Undo(status.phase)
  /\ UNCHANGED <<ctr, healthy, settings, backups, origin, counters>>

\* Wrong on purpose: a rollback keeps the pair it restored as the retained one.
FinishForgetful ==
  /\ job.at = "finish"
  /\ EndJob
  /\ status' = [status EXCEPT !.phase = "rolled_back", !.restored = FALSE]
  /\ UNCHANGED <<ctr, healthy, settings, backups, origin, counters>>

\* The end of a rollback, from retained images or from GitHub.
Finish ==
  /\ job.at = "finish"
  /\ EndJob
  /\ status' = [phase |-> "rolled_back", detail |-> "none", changed |-> TRUE, restored |-> FALSE,
                current |-> IF LocalRollback /\ ~job.tried
                            THEN SnapshotVersion(status.retained) ELSE job.target,
                retained |-> job.before]
  /\ UNCHANGED <<ctr, healthy, settings, backups, origin, counters>>

-----------------------------------------------------------------------------
(* restore_release                                                         *)

RestoreUp ==
  /\ job.at = "restore"
  /\ UpSucceeds(job.to)
  /\ Goto("restore_verify")
  /\ UNCHANGED <<settings, backups, status, counters>>

\* The failed command publishes "failed" although its caller may go on.
RestoreUpFails ==
  /\ job.at = "restore"
  /\ UpFails(job.to)
  /\ Goto("restore_failed") /\ Publish("failed", "none")
  /\ UNCHANGED <<settings, backups, counters>>

\* What the caller does with the answer of restore_release.
Returned(ok) ==
  /\ job' = IF job.then # "local" THEN [job EXCEPT !.at = "idle"]
            ELSE [job EXCEPT !.at = IF ok THEN "finish" ELSE "fetch", !.tried = ~ok]
  /\ status' =
       LET told == [status EXCEPT !.restored = @ \/ ok]
           verdict == IF ok THEN "restored" ELSE "unverified"
       IN  CASE job.then = "local" -> told
             [] job.then = "update_undone" ->
                  [told EXCEPT !.phase = "failed", !.detail = verdict,
                               !.current = IF ok THEN SnapshotVersion(job.before) ELSE @]
             [] job.then = "rollback_undone" ->
                  [told EXCEPT !.phase = "failed", !.detail = verdict]
             [] job.then = "refused" ->
                  [told EXCEPT !.phase = "failed", !.detail = "refused"]
             [] job.then = "recovery" ->
                  [told EXCEPT !.phase = "failed", !.detail = "failed"]

\* Wrong on purpose: the image pair is compared, the health checks are not awaited.
RestoreUnverified ==
  /\ job.at = "restore_verify" /\ Images = job.to
  /\ Returned(TRUE)
  /\ UNCHANGED <<ctr, healthy, settings, backups, origin, counters>>

\* Healthy, and on exactly the images asked for.
RestoreVerify ==
  /\ job.at = "restore_verify" /\ healthy /\ Images = job.to
  /\ Returned(TRUE)
  /\ UNCHANGED <<ctr, healthy, settings, backups, origin, counters>>

RestoreVerifyFails ==
  /\ job.at = "restore_verify" /\ ~(healthy /\ Images = job.to)
  /\ Goto("restore_failed")
  /\ UNCHANGED <<ctr, healthy, settings, backups, status, origin, counters>>

RestoreFailed ==
  /\ job.at = "restore_failed"
  /\ Returned(FALSE)
  /\ UNCHANGED <<ctr, healthy, settings, backups, origin, counters>>

Release ==
  \/ BeginRelease \/ Prepare \/ PrepareFails \/ Fetch \/ FetchFails \/ Stage \/ StageFails
  \/ Build \/ BuildFails \/ Switch \/ SwitchFails \/ Verify \/ VerifyFails \/ Finish
  \/ RestoreUp \/ RestoreUpFails \/ RestoreVerify \/ RestoreVerifyFails \/ RestoreFailed

-----------------------------------------------------------------------------
(* run_bot_maintenance                                                     *)

\* Unlike a release job it inherits containers_changed and restored.
BeginRecovery ==
  /\ job.at = "idle" /\ jobs < MaxJobs /\ EventsLeft
  /\ \E k \in RecoveryKinds : job' = [NoJob EXCEPT !.at = "recover", !.kind = k]
  /\ Publish("checking", "none")
  /\ origin' = [ctr |-> ctr, healthy |-> healthy, retained |-> status.retained,
                settings |-> settings, edits |-> edits, recreated |-> FALSE]
  /\ jobs' = jobs + 1
  /\ UNCHANGED <<ctr, healthy, settings, backups, crashes, edits>>

\* settings_reset leaves the containers alone.
Reset ==
  /\ job.at = "recover" /\ job.kind = "settings_reset"
  /\ backups' = Append(backups, settings) /\ settings' = Cleared
  /\ job' = [job EXCEPT !.at = "reset_done", !.backup = settings]
  /\ UNCHANGED <<ctr, healthy, status, origin, counters>>

ResetDone ==
  /\ job.at = "reset_done"
  /\ EndJob
  /\ status' = [status EXCEPT !.phase = "complete",
                  !.current = IF ctr["bot"] # Gone THEN ctr["bot"].image ELSE None]
  /\ UNCHANGED <<ctr, healthy, settings, backups, origin, counters>>

\* The deployment cannot be identified.
RecoverFails ==
  /\ job.at = "recover" /\ job.kind # "settings_reset"
  /\ EndJob /\ Publish("failed", "failed")
  /\ UNCHANGED <<ctr, healthy, settings, backups, origin, counters>>

\* What the job wants the settings to be.  settings_restore takes the newest
\* backup that is not its own, and fails without one.
Wanted ==
  CASE job.kind = "bot_repair" -> {settings, Cleared}     \* fresh, or not
    [] job.kind = "settings_restore" -> IF backups = <<>> THEN {} ELSE {backups[Len(backups)]}
    [] OTHER -> {settings}

\* Wrong on purpose: what settings_restore overwrites is not backed up.
BacksUpRepair(wanted) == job.kind = "bot_repair" /\ wanted = Cleared

BacksUp(wanted) == job.kind = "settings_restore" \/ (job.kind = "bot_repair" /\ wanted = Cleared)

Recover ==
  /\ job.at = "recover" /\ job.kind # "settings_reset" /\ AllUp
  /\ \E wanted \in Wanted :
       /\ settings' = wanted
       /\ IF BacksUp(wanted)
          THEN /\ backups' = Append(backups, settings)
               /\ job' = [job EXCEPT !.at = "recreate", !.before = Images, !.backup = settings]
          ELSE /\ UNCHANGED backups
               /\ job' = [job EXCEPT !.at = "recreate", !.before = Images]
  /\ status' = [status EXCEPT !.phase = "restarting", !.changed = TRUE]
  /\ UNCHANGED <<ctr, healthy, origin, counters>>

NoBackupYet ==
  /\ job.at = "recover" /\ AllUp /\ Wanted = {}
  /\ backups' = Append(backups, settings)
  /\ EndJob /\ Publish("failed", "failed")
  /\ UNCHANGED <<ctr, healthy, settings, origin, counters>>

\* The containers are always recreated, from the images they run.
Recreate ==
  /\ job.at = "recreate"
  /\ UpSucceeds(job.before)
  /\ Goto("recover_verify") /\ Publish("verifying_runtime", "none")
  /\ UNCHANGED <<settings, backups, counters>>

RecreateFails ==
  /\ job.at = "recreate"
  /\ UpFails(job.before)
  /\ Goto("recovery_failed") /\ Publish("failed", "none")
  /\ UNCHANGED <<settings, backups, counters>>

RecoverVerify ==
  /\ job.at = "recover_verify" /\ healthy /\ Images = job.before
  /\ EndJob
  /\ status' = [status EXCEPT !.phase = "complete", !.current = SnapshotVersion(job.before)]
  /\ UNCHANGED <<ctr, healthy, settings, backups, origin, counters>>

RecoverVerifyFails ==
  /\ job.at = "recover_verify" /\ ~(healthy /\ Images = job.before)
  /\ Goto("recovery_failed")
  /\ UNCHANGED <<ctr, healthy, settings, backups, status, origin, counters>>

\* The exception handler: the job's own backup goes back on disk; containers
\* are recreated only if they run other images.
RecoveryFailed ==
  /\ job.at \in {"recovery_failed", "reset_done"}
  /\ settings' = IF job.backup = None THEN settings ELSE job.backup
  /\ IF job.before # None /\ Images # job.before
     THEN Restore(job.before, "recovery", status.phase)
     ELSE EndJob /\ Publish("failed", "failed")
  /\ UNCHANGED <<ctr, healthy, backups, origin, counters>>

Recovery ==
  \/ BeginRecovery \/ Reset \/ ResetDone \/ RecoverFails \/ Recover \/ NoBackupYet
  \/ Recreate \/ RecreateFails \/ RecoverVerify \/ RecoverVerifyFails \/ RecoveryFailed

-----------------------------------------------------------------------------
(* Around the jobs                                                         *)

Crash ==
  /\ job.at \notin {"idle", "down"} /\ crashes < MaxCrashes /\ EventsLeft
  /\ Goto("down") /\ crashes' = crashes + 1
  /\ UNCHANGED <<ctr, healthy, settings, backups, status, origin, jobs, edits>>

\* Wrong on purpose: the phase of an interrupted job stands.
StartForgetful ==
  /\ job.at = "down"
  /\ EndJob
  /\ UNCHANGED <<ctr, healthy, settings, backups, status, origin, counters>>

\* main(): a job the previous worker left unfinished is reported as failed.
StartWorker ==
  /\ job.at = "down"
  /\ EndJob
  /\ IF status.phase \in Active THEN Publish("failed", "interrupted") ELSE UNCHANGED status
  /\ UNCHANGED <<ctr, healthy, settings, backups, origin, counters>>

\* A user changes the settings; the running bot writes the file and applies it.
EditSettings ==
  /\ edits < MaxEdits /\ EventsLeft /\ ctr["bot"] # Gone
  /\ \E c \in UserSettings :
       /\ settings' = c
       /\ ctr' = [ctr EXCEPT !["bot"].cfg = c]
  /\ edits' = edits + 1
  /\ UNCHANGED <<healthy, backups, status, job, origin, jobs, crashes>>

Next == Release \/ Recovery \/ Crash \/ StartWorker \/ EditSettings

Spec == Init /\ [][Next]_vars

\* The worker's steps.  Commands, downloads and health checks end (the health
\* check by its own deadline), and systemd restarts a worker that died.
WorkerStep == Next /\ job.at # "idle" /\ UNCHANGED <<crashes, edits>>

FairSpec == Spec /\ WF_vars(WorkerStep)

-----------------------------------------------------------------------------
(* What an administrator may rely on                                       *)

OriginImages == [s \in Services |-> Image(origin.ctr[s])]

\* The pairs the latest job may announce as its success.
Goals ==
  CASE job.kind = "update" -> {Uniform(job.target)}
    [] job.kind = "rollback" -> {Uniform(v) : v \in {job.target} \ {None}}
                                  \cup ({origin.retained} \ {None})
    [] OTHER -> {OriginImages}

\* "complete" and "rolled_back" are only published when both containers run the
\* pair the job was asked for and passed their health checks.
SuccessIsRunning ==
  job.at = "idle" /\ status.phase \in {"complete", "rolled_back"} /\ job.kind # "settings_reset" =>
    Images \in Goals /\ healthy

\* A successful release job retains exactly the pair it replaced, however many
\* pairs it tried in between: "Revert" leads back to where the job started.
RetainsReplacedPair ==
  job.at = "idle" /\ status.phase \in {"complete", "rolled_back"} /\ job.kind \in ReleaseKinds =>
    status.retained = OriginImages

\* "The previous control release was restored" means that both containers run
\* the images they ran before the job, and are healthy.
RestoredIsOriginal ==
  status.detail = "restored" => Images = OriginImages /\ healthy

\* containers_changed is on disk before the first container changes, so that a
\* worker that dies in between cannot leave a changed deployment unannounced.
ChangeAnnounced == origin.recreated => status.changed

\* "Bot release was refused before changing containers"
RefusedUntouched ==
  job.kind = "update" /\ status.detail = "refused" => ~origin.recreated

Saved(c, b) == \E i \in DOMAIN b : b[i] = c

\* A recovery action, and its undoing, never overwrites a user's settings that
\* are in no backup, unless that user made them while the job was at work: not
\* even when the newest backup, which settings_restore takes, is an old one.
SavedBeforeOverwritten ==
  [][settings' # settings /\ settings \in UserSettings
       /\ edits = origin.edits /\ edits' = edits => Saved(settings, backups')]_vars

\* Every job the worker begins is eventually reported in a settled phase.
JobSettles == job.at # "idle" ~> job.at = "idle" /\ status.phase \in Settled

\* The administrator's view of the job, for ReleaseContract.  A report of
\* "restored", or of a job that announced no change, promises the pair of before.
Report ==
  IF job.at # "idle" THEN "working"
  ELSE IF status.phase \in {"complete", "rolled_back"} THEN "done"
  ELSE IF status.detail = "restored" \/ ~status.changed THEN "kept"
  ELSE "unsure"

Contract == INSTANCE ReleaseContract
  WITH Pairs <- [Services -> Versions \cup {Gone}], pair <- Images, base <- OriginImages,
       goals <- IF job.kind = "none" THEN {} ELSE Goals, report <- Report

ContractSpec == Contract!Spec

\* No job publishes an outcome before its last step: its steps are those that
\* MaintenanceBridge allows a release job, as a reader of the file sees them.
Phases == INSTANCE ReleasePhases
  WITH phase  <- IF status.phase = "idle" THEN "none"
                 ELSE IF status.phase \in Active THEN "busy"
                 ELSE IF status.phase = "failed" THEN "failed" ELSE "done",
       worker <- IF job.at = "idle" THEN "idle" ELSE IF job.at = "down" THEN "dead" ELSE "job"

PhasesKept == Phases!Spec

-----------------------------------------------------------------------------
(* Why it keeps them: an inductive strengthening.                          *)

RestorePlaces == {"restore", "restore_verify", "restore_failed"}
SwitchPlaces  == {"fetch", "stage", "build", "switch", "verify", "finish"}
RepairPlaces  == {"recreate", "recover_verify", "recovery_failed"}

\* Which job can be at which place, and what restore_release is called for.
PlacesFit ==
  /\ job.kind = "none" => job.at = "idle"
  /\ job.at \in {"prepare"} \cup SwitchPlaces => job.kind \in ReleaseKinds
  /\ job.at = "finish" \/ job.tried => job.kind = "rollback"
  /\ job.at \in {"recover"} \cup RepairPlaces => job.kind \in RecoveryKinds
  /\ job.at \in RepairPlaces => job.kind # "settings_reset"
  /\ job.at = "reset_done" => job.kind = "settings_reset"
  /\ job.at \in {"stage", "build", "switch", "verify"} => job.target # None
  /\ job.at \in SwitchPlaces \cup RepairPlaces \cup RestorePlaces => job.before # None
  /\ job.at \in RestorePlaces =>
       /\ job.to # None
       /\ IF job.then = "local" THEN job.kind = "rollback" /\ job.to = status.retained
          ELSE job.to = job.before /\ (job.then = "refused" => job.kind = "rollback")

\* The pair a job puts back is the pair it found: before its first change the
\* containers run their original images, and that is when it records them.
BeforeIsOriginal ==
  /\ job.before # None => job.before = OriginImages
  /\ ~origin.recreated => Images = OriginImages
  /\ job.at \in {"prepare", "recover", "reset_done"} => ~origin.recreated
  /\ job.kind = "update" /\ job.at \in {"fetch", "stage", "build", "switch"}
       => ~origin.recreated

\* A job at work has published no outcome, and retains what it inherited.
NoOutcomeYet ==
  job.at # "idle" =>
    /\ status.detail = "none" /\ status.phase \notin {"complete", "rolled_back"}
    /\ status.retained = origin.retained

\* What the containers run when a health check decides.
SwitchedTo ==
  /\ job.at = "verify" => Images = Uniform(job.target)
  /\ job.at = "finish" => Images \in Goals /\ healthy

\* The change is announced wherever compose is about to be called.
AnnouncedFirst ==
  job.at \in {"switch", "restore", "recreate"} => status.changed

\* A success, resetting the settings included, is a pair the job was asked for.
SuccessIsGoal ==
  job.at = "idle" /\ status.phase \in {"complete", "rolled_back"} => Images \in Goals

\* What the exception handler of a recovery may overwrite is in a backup, unless
\* a user edited it.
OverwritableSaved ==
  /\ origin.edits <= edits
  /\ job.at = "recover" => job.backup = None
  /\ job.at \in {"reset_done"} \cup RepairPlaces /\ job.backup # None
       /\ edits = origin.edits /\ settings \in UserSettings => Saved(settings, backups)

ReleaseInv ==
  /\ PlacesFit /\ BeforeIsOriginal /\ NoOutcomeYet /\ SwitchedTo
  /\ AnnouncedFirst /\ ChangeAnnounced /\ RefusedUntouched /\ OverwritableSaved
  /\ SuccessIsGoal /\ SuccessIsRunning /\ RetainsReplacedPair /\ RestoredIsOriginal

-----------------------------------------------------------------------------
(* What comments and messages of the worker say, and the code does not do  *)

\* "A failed recovery must not strand a working deployment.  Restore the exact
\* pre-action config and image pair": a bot that ran a healthy configuration
\* before a failed recovery runs that configuration afterwards.
NotStranded ==
  job.at = "idle" /\ job.kind \in RecoveryKinds /\ status.phase = "failed" /\ origin.healthy
    => ctr["bot"] = Gone \/ ctr["bot"].cfg = origin.settings

=============================================================================
