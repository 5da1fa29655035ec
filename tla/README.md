# Homelab Control: verification project

TLA+ modules, TLC runs and TLAPS proofs about Homelab Control, a Discord bot
that operates a home server through an HTTP agent and a root-owned worker on
the host. The reference is the code; every definition that models code is
listed in `PROJECT.json` (`map`) with the lines it stands for.

    Discord -> bot (src/bot) -> HTTP -> agent (src/agent/agent.py)
                                          |  request.json            ^ status.json
                                          v  (shared directory)      | bot-release.json
                                        worker (src/maintenance, root on the host)
                                          |-> apt-get, systemctl reboot
                                          '-> docker compose: the agent and the bot themselves

## Inventory

| Component | State it keeps | Operations | Interacts with | Hard behaviour | What makes it correct | Modelled in |
|---|---|---|---|---|---|---|
| **Maintenance bridge** (agent `_queue_*`, worker `main`) | `request.json`, its `.tmp`, `status.json`, `bot-release.json` | queue, read, unlink, dispatch; `apply_updates`, `request_reboot`; status refresh, start-up transition | agent threads, worker, systemd, kernel | threads share one temporary file and check long before they write; the worker and the host restart between any two steps; `systemctl reboot` is asynchronous | a job runs at most once; a reboot only with its confirmation; no busy phase without a worker behind it; accepted jobs are begun | `MaintenanceBridge` |
| **Release jobs** (worker `run_bot_update`, `run_bot_rollback`, `run_bot_maintenance`, `restore_release`) | the two control containers, settings and their backups, `bot-release.json` | stage, build, switch, verify, restore; reset, restore, repair, restart | docker compose, GitHub, the bot's settings file | every command may fail halfway; a job tries several image pairs; the worker dies in the middle | the published outcome is true of the containers; the retained pair leads back; settings are saved before they are overwritten; every job settles | `ControlRelease`, `ReleaseContract`, `ReleasePhases` |
| **Release choice** (agent `bot_release_status`, three `version_key`s, worker's checks) | what runs and what is retained; GitHub's page of releases and `release-policy.json` | list, offer, queue, install; roll back to a chosen release | GitHub, scheduler, panels, release jobs | three implementations of one version order; GitHub's list changes between offer and installation | the orders agree; updates go forward; a chosen release is installed or none is; the rollback list reaches back as far as its limit allows | `VersionOrder`, `ReleaseChoice` |
| **Recovery handoff** (bot `Recovery`, `Controller.execute`, end of `Scheduler.tick`) | one JSON file per kind of action, `lastOnline`, the last host job told | stage, accepted, clear, resume; announce a returned host | agent, Discord, the bot's own restart | the bot is recreated by the job it waits for; tokens expire; answers are lost; the scheduler tells of the same event | every accepted job's message gets that job's outcome; a returned host is told once | `RecoveryHandoff` |
| **Scheduler** (bot `Scheduler.tick`) | `weekly-report-state.json` | automatic update, completion, notice, weekly report | agent, settings, release jobs | the bot is recreated by the update it posted; settings are stale across awaits; answers and jobs are lost | one attempt per schedule and version; an opt-out takes effect; notices are true; a finished job is noticed | `AutoUpdate` |
| **Settings and access** (bot `Settings`) | settings file, environment | read, update, grant, revoke, schedule, notice | every task of the bot | merge of file and environment in every save; damaged file | a revoked user stays revoked; the owner stays; lists are the decisions made | `BotSettings`, `Confirmations` |
| **Service control** (agent `manage_service`, `control_policy`, bot confirmations) | policy file, service cache, open confirmations | start, stop, restart; modes and overrides; list | Docker, the bot's panels | one temporary file for all threads; a list cached after the policy changed; access revoked while a confirmation is open | a protected or switched-off container is never touched; a change is kept once acknowledged | `ControlPolicy`, `Confirmations`, `ServiceControl` |
| **Runtipi updates** (agent `update_app`, `update_all`) | update lock, cache | check, request, wait, probe | Runtipi, Docker | Runtipi goes on with what the agent gave up; version and container are read one after the other | one operation at a time; "updated" is true; the lock is always released | `RuntipiUpdates` |
| **Panels** (bot `Controller.show`, `dispatch`, `live_tasks`) | revisions, live loops | show, open, go live, stop | Discord | answers out of order, two clicks at once, a dictionary at its limit | the newest page wins; displaced loops end | `Panels` |
| Telemetry, HTTP surface, Minecraft, wake-on-LAN, rendering, scripts | caches | read-only requests, formatting | other services | - | - | not modelled |

The hazards of this code, each at the line where it bites and with the
properties aimed at it, are listed in `PROJECT.json` (`hazards`).

## Modules

| Module | Models | Extends or instantiates |
|---|---|---|
| `MaintenanceBridge` | the mailbox between agent and worker, host jobs, reboots, restarts | `ReleasePhases` (refinement) |
| `ControlRelease` | what the jobs do to the control containers and settings | `ReleaseContract`, `ReleasePhases` (refinements) |
| `ReleasePhases` | a job as readers of `bot-release.json` see it: the interface between the two modules above | |
| `ReleaseContract` | what an administrator may rely on: the abstract specification `ControlRelease` implements | |
| `VersionOrder` | versions and the keys agent, worker and bot compare them with | |
| `ReleaseChoice` | which release is offered, queued and installed | `VersionOrder` |
| `RecoveryHandoff` | confirmed jobs, their handoff files and the messages that wait for them | |
| `BotSettings` | the settings file: reads, merges and the operations on it | |
| `AutoUpdate` | the scheduler's ticks | `BotSettings` |
| `Confirmations` | confirmation panels and the access lists | `BotSettings` |
| `ControlPolicy` | the agent's policy file, cached list and actions | |
| `ServiceControl` | both composed: who may act on what | `Confirmations`, `ControlPolicy` |
| `RuntipiUpdates` | app updates and Runtipi as their environment | |
| `Panels` | pages, details and live lists on messages | |
| `MaintenanceBridgeProofs`, `ControlReleaseProofs`, `ReleaseChoiceProofs`, `RecoveryHandoffProofs`, `AutoUpdateProofs`, `ServiceControlProofs`, `RuntipiUpdatesProofs`, `PanelsProofs` | theorems | the module they are named after |
| `MCMaintenanceBridge`, `MCControlRelease`, `MCReleaseChoice`, `MCAutoUpdate`, `MCServiceControl` | small sets for TLC | the module they are named after |

A definition whose comment begins with "Wrong on purpose" is a plausible bug of
the code; no specification uses it. `PROJECT.json` (`mutants`) says which
definition it replaces and which property then fails.

### MaintenanceBridge

State. `mailbox` and `scratch` are `request.json` and `request.json.tmp`;
`thread[t]` is where an HTTP handler thread is (`idle`, `checked` the mailbox,
`admitted` by the status it read, `written` the temporary file) and what it
carries; `host` and `bot` are the fields of `status.json` and
`bot-release.json` that decide anything (phase, job id, boot id,
`reboot_required`); `worker` is the worker's place with the request it read.
`boot`, `marker` and `goingDown` are the kernel's boot id,
`/var/run/reboot-required` and a reboot systemd has accepted. The remaining
variables are history, read only by properties and by the freshness of job ids.

Actions. The three queueing functions share one shape, so the model has it
once: `CheckMailbox`, then the status read and its guards (`Admit`/`Refuse`),
then the two halves of `_write_maintenance_request` (`WriteScratch`,
`Publish`/`PublishFails`). Release kinds talk to GitHub between their status
read and the write; that is the interleaving between `Admit` and
`WriteScratch`. The worker's loop is `ReadRequest`, `Unlink` and the dispatch
to `BeginApply`, `BeginReboot` or `BeginRelease`; `Upgrade`, `RebootCommand`
and the release job's steps follow. A release job appears as the phases it
publishes (`ReleaseProgress`, `SettleRelease`, any of them in any order) and as the
loss of every handler thread when it recreates the agent's container
(`RecreateContainers`). `ReleasePhases` says what is taken of such a job;
`ControlRelease` keeps it (see there).
`StartWorker` is `main` up to its loop. `StopWorker`, `RequestedBoot` and
`Outage` are the environment.

Abstractions. The six release and recovery actions are one kind, as they share
guards, status file and start-up handling. Guards that depend on data outside
the model (pending packages, a verified release, a configured Compose target)
are the nondeterministic `Refuse`. The branches of the worker for a missing
`manual_confirmation` and for an unknown action cannot be reached from the
agent. `request.json` can always be unlinked (the worker is root), and a reader
never sees half a JSON file. The records of builds before the status split
(`looks_like_bot_status`, phase `pre_reboot`) are left out.

### ControlRelease, ReleaseContract and ReleasePhases

State. `ctr` is what the two services run (image and the settings they
started with, or `Gone`), `healthy` whether they pass the health checks as they
are now, `settings` and `backups` the files on disk, `status` the fields of
`bot-release.json` an administrator or a later job reads, `job` the worker's
place and locals. `origin` is history: the deployment as the latest job found
it, the number of edits by then, and whether a container was recreated since.

Actions. One per step between two writes of `bot-release.json` and one per
failure of it. `docker compose up` either replaces both containers or fails
with each of them replaced, gone or untouched (`UpSucceeds`, `UpFails`).
`restore_release` is the subroutine `RestoreUp`, `RestoreVerify`, ... with a
return place, as four callers use its answer differently (`Returned`). `Crash`
stops the worker anywhere in a job and `StartWorker` reports what it left.
`EditSettings` is a user changing settings through the running bot.

Abstractions. An image tag is its version, and versions are numbers. The target
of an update is arbitrary, which allows more than the agent's choice does.
Configuration file and runtime overlay are one settings value. Downloading,
unpacking and checking an archive succeed or fail. Writes of the status file
and of backups in the exception handler do not fail. The health of containers
is chosen when they are (re)created and stays.

Contract. A job turns `pair` into anything while it works; it ends in `done`
(only on a pair it was asked for), `kept` (only on the pair of before) or
`unsure`, and it ends. `ControlRelease` implements it under the mapping of its
`INSTANCE`: `report` is computed from the published status alone, `pair` and
`base` from the containers, so the refinement says that what can be read in the
status file is true of what runs.

Phases. `ReleasePhases` has the class of the published phase (none yet, busy,
failed, done) and whether a worker is idle, at work on a job or dead.
`MaintenanceBridge`, where a job shows arbitrary phases, and `ControlRelease`,
where they are what the code publishes, implement it under one and the same
mapping of phase and place (`PhasesKept` in both). What the agent admits requests by is thus one
interface: the bridge's properties do not depend on phases a job never shows,
and no job shows a phase the bridge has not reckoned with. The case to exclude is a
success published before the last step, as a worker that died after it would
leave an outcome that nothing corrects ("failed" in the middle of a job is
allowed, as `run_command` publishes it).

### VersionOrder and ReleaseChoice

`VersionOrder` has a version as its three core numbers (as one number), its
hotfix letter and its pre-release tokens, the keys the agent (word for word the
worker) and the bot build from it, and Python's order of tuples (`KeyLess`).
Spellings of a version (a leading v, capitals, build metadata) are left out.
`Precedes` is the order that the comments in `_release_version_key` describe
(release line, hotfixes above it, pre-releases below), stated without keys: the
reference the keys are compared with.

`ReleaseChoice` follows one request from the look at GitHub's list to its end.
`listing` is the first page of it, `running` and `retained` the versions of the
control images, `settings` what the schedule depends on, `intent` what is being
asked (with the version the user or the scheduler saw), `job` the queued
request with the version of the archive it names, if any. `AutoAsks`, `UpdateAsked`, `SelectAsked` and `RetainedAsked` are the
scheduler and the three buttons, `Send` the look again in `execute`, `Queue*`
and `Refuse` the branches of `_queue_bot_release_request`, `Run*` the worker
with the checks of its own. `ListChanges` publishes, withdraws, flags or
verifies a release between any two of them; a full page pushes one out.

`Options` is the rollback list: of the earlier verified releases (`Earlier`)
every one of the running line, every approved one, and the newest of the others
in each older line (`Kept`), cut to the newest `MaxOptions` (25 in the code).
Approved for this purpose are the golden and the last major version of
`release-policy.json`; the roles overwrite each other, so a golden version that
is an LTS version too counts as neither (`ApprovedTarget`). Roles without a say
in the list (LTS, `approved`) appear only in that.

A rollback request names an archive (`job.version`) or none. `UsesRetained` is
the worker's choice between the two ways: a chosen version that comes with an
archive is fetched, and only if the two versions are the same
(`validated_release_request`); anything else restores the retained pair.
`QueueGone` is the branch for a chosen release that has left the list while its
images are retained: the request then carries the newest option's archive
(`SpareArchive`), and the worker refuses it, although the comment in the agent
says that the retained version is used. So a chosen release is installed or
none is (`ChosenIsInstalled`, without exception), and that the retained one is
not restored is the run `rollback_refused`. The 60 second cache of
`bot_release_status` is left out, because every step that decides passes
`force` or a channel. Crashes and failures of the installation are
`ControlRelease`'s. Of the constants it is assumed that the
releases ever published are finitely many, that what runs at the start has
a version, published or not, and that the rollback list has room for one. `ChoiceInv`, the inductive invariant, says what a
request under way was let through for.

### RecoveryHandoff

State. `file[k]` is the handoff file of a kind (message and job id), `exec[a]`
how far `Controller.execute` is with a confirmed action (`staged` the file,
`sent` the request, `recorded` its job id), `watcher[k]` a `resume` with what
it holds in memory, `unresumed` the kinds `on_ready` has yet to look at.
`shown[a]` is the last verdict on the action's message and `late` says that its
interaction token has expired. `queue` and `status` are the mailbox and the two
status files as the bot sees them through the agent; `MaintenanceBridge` has
them in detail. `tick` and `lastOnline` are the part of `Scheduler.tick` that
announces a returned host, with its two records of what was told. An action's
number is the job it becomes.

Actions. `Confirm` ... `Follow` are `execute` from await to await, `Fail` its
exception handler; `Poll`, `GiveUp`, `EditMessage`, `PostInstead`, `Finish` are
`resume`; `ReadHost`, `DecideHost`, `PostHost`, `RecordHost` the announcement;
`Restart` and `RestartHost` end every task, `StartupResume` is `resume_all`.
`BeginJob`, `LoseJob`, `EndJob` are the worker, which may lose an accepted job
(`bridge_lost_job`). `Stumble` is a command of a release job that fails: its
file says failed (`failing`) while the job goes on to restore, and agent and
watcher take that for the end, so the agent may queue the next job, which the
worker begins only after this one (`BeginJob`). A rollback from retained images
may go on to GitHub and succeed (`Retry`); `retried` remembers it, as the one
exception that `OwnVerdict` names. `ControlRelease` has these phases step by
step. The write of the job id may fail (`Record`), an answer may
be lost (`LoseAnswer`), an edit and the webhook may fail (`PostInstead`).

Crossing. Two confirmed actions of one kind share one file, and nothing in the
bot keeps a user from confirming the second while the first is under way:
`stage` overwrites the file, a refusal of either deletes it, and the first loses
its report although its panel promised one. `Confirm` is never held back by
that; it notes in `crossed` the actions that met (the new one, those still in
`execute`, and those whose message the file or a watcher holds). The properties
promise what they say to the other actions, `Uncrossed`, whatever crossed ones
leave in files, watchers and status before and after them. Promised to the
crossed ones too, `AcceptedIsCarried` fails at once (see the hazard).
`MaxCrossed` bounds how many may cross in a run; the proofs have no bound.

Abstractions. Files are written whole (`write_json` replaces). Any release job
may retry, an update too. The panel that shows progress while a job runs (`host_progress`) is not modelled.

### BotSettings, AutoUpdate

`BotSettings` is the settings file and the operations of `Settings`: what a
read makes of it (`Normalise`: environment, file and deny-lists merged, the
owner never denied), `Save`, `Grant`, `Revoke`, the schedule and the notice.
Every save is one step, as none of them awaits. Access by Discord roles is left
out, and so is the parsing of `config.py`.

`AutoUpdate` is the scheduler's tick from await to await. `tick` is its place
with what it read at its beginning (settings, day, window); `sched` the state
file (`lastAutoAttempt`, completion, failure, pending, last report), `release`
the status of the release job as the agent reports it, `published` GitHub's
list, `clock` the day and the window of it, `reply` a slash command that took
the update notice and has yet to show it. `Begin` reads, `CheckPending` settles
a pending update, `Fetch` asks for the offer, `Offer` writes the attempt,
`PostAccepted` is the agent taking the request (with the latest release of
*its* look, and possibly lost on its way to the worker: `Lossy`), `Record` the
pending job. `TickFails` is any request of a tick that fails, is refused or
whose answer is lost. `Edit`, `ManualJob`, `JobEnds`, `Publish`, `Passes`,
`Restart` and `DiesHalfway` (between the two files `CheckPending` writes) are
the world. A day has two windows: in one updates are due, in the other the
report. Releases are numbers in their order (`ReleaseChoice` has the order
itself) of three sorts. An update that shows a failure before it has undone
what it did is taken for ended, by the code and by `JobEnds` alike: such an
update always ends failed, so only the time of the end differs.

### Confirmations, ControlPolicy, ServiceControl

`Confirmations` has the confirmation panels (`panel[c]`: user, target, open,
expired, used) and the access lists over `BotSettings`; `member` is history:
the decisions administrators made. `Press` runs from the interaction check to
the access check of `execute` without an await. A damaged settings file may
appear at any time; the owner alone then decides.

`ControlPolicy` is the agent's side. All threads share the name of one
temporary file, so files are inodes here: `content[n]`, the one that is `live`
and the one that is `tmp`; a thread may still write to an inode that another
thread has renamed into place, truncate what another has written, or find the
temporary file gone. `ReadPolicy` ... `Answer` are `set_control_policy` and
`set_control_mode`, `ReadList` and `CacheList` the two ends of `service_list`
with the probes in between, `CheckAction` the check of `manage_service`. What
Docker does with an action is not modelled.

`ServiceControl` composes the two: `SendAction` is the request of a confirmed
panel reaching a thread of the agent; either program is recreated at any time
(a half-written temporary file stays).

The agent does not lock its read-modify-write, so two changes that overlap may
lose one of them, although both are acknowledged, or leave a file that is not
JSON, which counts as no opt-outs at all. All of that is in the model, and
checked with two threads that change the policy. The README of the repository
promises that explicit opt-outs remain read-only; the code can keep that only of
changes that do not overlap, so that is what the properties say: `sole` is the
thread whose change no other has overlapped, only such a change is recorded as
promised when it is answered, and two changes that overlap end every promise,
also of containers neither names, until a later change promises anew. With the
promises kept through an overlap TLC refutes `PromiseHolds` within seconds: two
threads read the same policy and the second to replace the file drops the
first's opt-out.

### RuntipiUpdates

`handler[t]` is a request thread with its rows and their results, `lock` the
update lock, `cache` the cached list; `version`, `latest`, `box` and `work` are
the environment: what is installed, what the store has, the container, and the
jobs Runtipi runs for an app. `Begin` takes the lock or answers busy, `Check` is
the forced look at the list, `Request`/`RequestFails` the update request (which
may go on in Runtipi although its answer is lost), `PollVersion` and
`PollProbe` the two reads of `_wait_for_updated_app`, `GiveUp` its deadline,
`Finish` the answer. The cache is meant to be dropped there, but the assignment
to `_runtipi_cache_timestamp` lacks a `global` declaration and does nothing, so
`Finish` leaves it alone. `StoreChanges` offers a newer version or takes one
back; `AgentRestart` forgets threads, lock and cache.

### Panels

`click[i]` is a click with its message, kind and the place of its task,
`revision` and `keys` the dictionary of page revisions (trimmed at its limit),
`live[m]` the loop registered for a message, `loop[i]` the loop a click has
spawned, `shown[m]` who drew last. `ClickPage`, `PageLoads`, `PageShows` are
`show`; `ClickOther`, `Deferred`, `OtherShows`, `LiveFails`, `Register` are
`dispatch` for details and the live list; `Wakes`, `Sampled`, `Closes` are
`live_tasks`. Edits of a message are assumed to land in the order they are
sent. The navigation of views that survived a restart is left out.

## Runs

Bounds are CONSTANTS of the modules, named `Max...`, and the sizes of the sets.

| Run | Bounds | Shows |
|---|---|---|
| `bridge_safety` | 2 threads, 2 jobs, 1 failure (a death of the worker or an unrequested boot), fair | `AtMostOnce`, `RebootConfirmedOnce`, `NoOrphanedRelease`, `AloneReachesWorker`, `PhasesKept`, `AcceptedRuns`, `ReleaseUnlocked` |
| `release_safety` | 2 versions, 2 settings, 4 events: at most 3 jobs, 1 crash and 1 edit, fair | `SuccessIsRunning`, `RetainsReplacedPair`, `RestoredIsOriginal`, `ChangeAnnounced`, `RefusedUntouched`, `SavedBeforeOverwritten`, `JobSettles`; the refinements `ContractSpec`, with its liveness, and `PhasesKept` |
| `release_choice` | 7 releases (two hotfixes, two pre-releases, one without an archive), three approved roles, 2 versions to start from, a page of 6, a rollback list of 3, every schedule and channel, 1 change of the list | `OffersAgree`, `UpdatesGoForward`, `ChosenIsInstalled`, `OptionsReachBack` |
| `handoff_reports` | kinds release and host, 2 actions, 1 restart besides the host's own, 2 posts, fair | `OwnVerdict`, `AcceptedIsCarried`, `RefusedIsDropped`, `HostToldOnce`, `AcceptedGetsReport` |
| `auto_update` | 3 versions (the second a hotfix), 2 days (one a Sunday), 2 automatic jobs, 1 restart, 1 edit or manual job, jobs may be lost, fair | `QueuedOnce`, `OptOutIsPrompt`, `NoticeIsTrue`, `CompletionNoticed` |
| `service_control` | 2 users, 1 panel, 2 containers (one protected), 2 changers (symmetric), 1 lister and actor, 4 inodes, 3 edits, 1 restart | `ListsAreDecisions`, `GrantedToEntitled`, `PromiseHolds`, `AnswerShowsChange`, `ActionHonoursPolicy` |
| `runtipi_updates` | 3 apps (one protected), 2 threads, 3 versions, 2 operations, 1 fault, fair | `WorkIsWatched`, `UpdatedIsTrue`, `LockReleased` |
| `panel_pages` | 2 messages, 3 clicks, a dictionary of 1, 2 rounds of a loop, fair | `StraysAreBrief`, `PagesInOrder`, `LoopsEnd` |

Why the bounds suffice.

- Bridge: the threads share one temporary file and one mailbox, so two threads
  with two jobs exhibit every overtaking, and the inductive invariant is proved
  for any number. A host job needs one update and one restart, a second job is
  there to interfere; one failure may hit every step.
- Release jobs: two versions are what runs and what is asked for, in either
  order; three jobs are a success that retains a pair or backs settings up, a
  job that uses it and one that inherits what both left; one crash may hit
  every step of any of them. Of two settings one is in force and the other in
  the newest backup, by an edit or by a restore of an older one, so a restore
  overwrites what is not saved unless the job saves it first. Four events in all
  are three jobs with a crash or an edit, or two jobs with both; the settings
  at the start are fixed, as the two may be exchanged.
  (Settings a user changes while a recovery is at work are lost when it is
  undone; `SavedBeforeOverwritten` says so by its condition
  `edits = origin.edits`.)
- Release choice: the list is any page of a history with every kind of
  neighbour (hotfixes, two pre-releases whose numbers order differently as text,
  a newer line, a release without an archive), two more releases than the page
  holds; one change may come between any two steps of one request. Three entries
  fill the rollback list: from 40 its own pre-releases and the line 39 are more.
  Of line 39 one release is golden and LTS (and loses the first role), one is
  the last major version, one has no role.
- Handoff: two actions are a release and a host restart, or two of one kind one
  after the other, where the second meets the status the first left; the first
  may have shown its failure, and a retry of it may still be at work when the
  second is accepted. One restart may hit every await, and a host job adds its
  own. With two actions a crossing leaves no uncrossed one, so `MaxCrossed` is 0
  in the run; the proofs are for any crossings, and three host actions with all
  crossings allowed were checked while they were written.
- Scheduler: a day has both windows, two days the same schedule again; two
  automatic jobs are the least that can violate `QueuedOnce`; one edit, one
  restart and three releases may come between any of them.
- Service control: two changers, a lister and an actor may each stand between any
  two steps of the others; three edits are two changes that overlap and a third
  after them, or a change, its opposite and an access edit or a damaged file;
  four inodes are the live one, the temporary one and one per changer, as the
  assumption of the module asks.
- Runtipi: an operation with all apps and a second that meets what the first
  gave up; the third version lets the store move on or back while a job runs.
- Panels: three clicks are a page, one that overtakes it and a live list or
  detail in between; the dictionary of one entry (2048 in the code) is full
  with the second message, so forgetting happens.

`CHECK_DEADLOCK FALSE` stands where the system of the model stops by a bound:
the jobs (`release_*`), actions, clicks or operations are used up, the days are
over (`auto_*`), the request followed has ended (`release_choice`, `rollback_refused`). The bridge
never stops (the worker refreshes its status), so its runs check deadlock.

Runs that find a disagreement between the code and what it says of itself, each
an entry of `findings` with the quoted line:

| Run | Property | What happens |
|---|---|---|
| `bridge_lost_job` | `AcceptedReachesWorker` | both threads see an empty mailbox, both are answered "accepted", one request overwrites the other |
| `release_stranded` | `NotStranded` | a failed recovery puts the old settings file back but leaves the containers running the settings that failed |
| `auto_stuck` | `PendingIsSettled` | a manual job replaces the status of the pending automatic one before a tick saw its end; the pending update is never settled and no automatic update is queued again |
| `rollback_refused` | `ChoiceCanRun` | after an update to 39B the retained 39 is chosen for a rollback and leaves the list before the request arrives, where 39A is still an option; the agent queues the choice with the archive of 39A, and the worker refuses the pair instead of restoring the retained images |

## Fairness

- `MaintenanceBridge`: weak fairness of the steps a job takes once begun
  (`JobStep`), of reading the mailbox, of starting a worker that is down and of
  a reboot systemd accepted. The code's loop polls without end, commands end or
  hit their timeout, the unit has `Restart=on-failure` and is wanted by
  `multi-user.target`. Nothing is assumed of the agent's threads, of users, of
  the status refresh, or of what a job publishes on its way.
- `ControlRelease`: weak fairness of the worker's next step while a job is
  unfinished, for the same reasons (`wait_control_health` has a deadline of its
  own). New jobs, edits and crashes are never forced.
- `RecoveryHandoff`: weak fairness of `execute` and of each kind's watcher (the
  event loop runs every task that can go on, requests have timeouts), of
  looking at each file after a start, and of tokens expiring (a clock). Nothing
  is assumed of users, the worker or restarts: a job that never ends, or is
  lost, is why a watcher gives up with its token.
- `AutoUpdate`: weak fairness of the tick's steps (`discord.ext.tasks` every
  thirty seconds) and of a release job ending (`JobSettles` of
  `ControlRelease`); strong fairness of `CheckPending`, that is: a status
  request of a tick that is asked again and again is answered sometime.
- `RuntipiUpdates`: weak fairness of each thread's next step, strong fairness of
  `GiveUp`, as the deadline is checked between polls that alternate with it.
- `Panels`: weak fairness of each click's task: awaits end in an answer or an
  error, and sleeping loops wake up.

`ServiceControl` and `ReleaseChoice` have no liveness property and no fairness.

## Proofs

All theorems hold for every value of the constants that meets the named
assumptions of their module (bounds are numbers, `None` and its like are none of
the values they stand beside); the prover sees no bound on threads, jobs,
actions, clicks or restarts. An invariant that is not inductive is proved from
one that is, whose parts are named definitions with a comment each, and the
lemmas go through the actions one by one.

### MaintenanceBridgeProofs

- `TypeCorrect`: `Spec => []TypeOK`
- `BridgeCorrect`: `Spec => [](TypeOK /\ BridgeInv)`
- `ExecutedAtMostOnce`, `RebootsOnlyConfirmed`, `ReleaseNeverOrphaned`: the three
  invariants of `bridge_safety`
- `AcceptedNotLost`: `Spec => []AloneReachesWorker`
- `BridgeKeepsPhases`: `Spec => PhasesKept`, the refinement of `ReleasePhases`

The inductive invariant `BridgeInv` (TLC found no counterexample to it on the
instance of `bridge_safety`) has four parts, each with a lemma:

- `OneCopy` (`OneCopyStep`). "runs at most once" is not inductive: it needs that
  while a job has not run, exactly one place can still cause it to run - a
  thread about to write, the temporary file, the mailbox or the worker's hands -
  and that the job id was drawn before. Publishing moves the copy, overwriting
  destroys one, and the unlink before the dispatch removes the copy the worker
  and the mailbox shared.
- `RestartsConfirmed` (`RestartsConfirmedStep`): restart requests may be
  duplicated (an administrator may click twice), but each copy descends from a
  click for that job.
- `RestartPending` (`RestartStep`): while `status.json` shows a host job before its
  restart, that job ran exactly once and was never rebooted for; a worker about
  to call `systemctl reboot` has just changed the phase, so a second copy of the
  request is refused by it.
- `NoOrphanedRelease` with `ReleaseNamesJob` (`ReleaseStep`).

A request the agent accepted is lost when another handler thread overwrites
`request.json` between the worker's read and its unlink, or the other's temporary
file. `crowded` notes that two calls were past their check at once, until all
calls have ended; `alone` has the accepted jobs of calls that met none.
`HandedOver` says why those are safe: while such a call is under way the mailbox
is empty and what it publishes is what it wrote; from then on no call is past
its check until the worker has unlinked what it read. No assumption restricts
the threads; of calls that crowd each other it is false, which is
`bridge_lost_job`.

The refinement goes by what a step does to the pair of phase and place:
`ElsewhereStep` for the steps of threads, kernel and host jobs, which leave it
alone, `AtWorkStep` for those of a release job and `BridgePhaseStep` for all. Types
are all it needs.

### ControlReleaseProofs

- `ReleaseTypeCorrect`: `Spec => [](TypeOK /\ PlacesFit)`
- `ReleaseInvariant`: `Spec => [](TypeOK /\ ReleaseInv)`
- `ReleaseSuccessIsRunning`, `ReleaseRetainsReplaced`, `ReleaseRestoredIsOriginal`,
  `ReleaseChangeAnnounced`, `ReleaseRefusedUntouched`, `ReleaseSavesSettings`: the
  safety properties of `release_safety`
- `ReleaseKeepsContract`: `Spec => Contract!Init /\ [][Contract!Next]_(Contract!cvars)`,
  the refinement without its fairness
- `ReleaseKeepsPhases`: `Spec => PhasesKept`, the refinement of `ReleasePhases`

The verdicts are statements about idle workers, so none of them is inductive.
`ReleaseInv` adds what makes them true at the moment they are published:

- `PlacesFit` (`StepPlaces`): which job can be where, and for which caller and which
  pair `restore_release` was entered. Types need it: a switch is only well typed
  where its target is known.
- `BeforeIsOriginal` (`BeforeStep`): the pair a job records is the pair the job
  found, because it is recorded before the first change.
- `NoOutcomeYet` (`OutcomeStep`): no job publishes an outcome and goes on, nor
  touches the retained pair; so a verdict is only about the step that ends a job
  (`EndStep`).
- `SwitchedTo` (`SwitchedStep`), `AnnouncedFirst` (`AnnouncedStep`): what the containers
  run when a health check decides, and what is on disk when compose is called.
- `OverwritableSaved` (`SettingsStep`): what the exception handler of a recovery may
  overwrite is in a backup.

The 31 actions are grouped by what they do to the deployment: `Begins` record it,
`Ups` change it, and all others keep it (`KeptStep`); `MoveFrame` and `UpsFrame` say
how a job moves on, and each conjunct is then three cases.

That no job publishes an outcome and goes on (`NoOutcomeYet`) is also what the
refinement of `ReleasePhases` rests on, with `PhaseNamed` (a job at work has
written a phase) and `LeaveStep` (a job ends in a settled phase, a worker that
dies leaves the file as it is). With `BridgeKeepsPhases` it closes the gap between the
two modules: what `MaintenanceBridge` lets a job publish is what `ControlRelease`'s jobs
are proved to publish.

### ReleaseChoiceProofs

The order, for all versions:

- `OrdersAgree`: the agent's key and the bot's order any two versions alike. The
  agent puts a hotfix letter where the bot puts a constant and the pre-release
  tokens; the lemmas say that a common head can be dropped (`SameHead`) and that
  the first difference decides.
- `OrderMeant`: they order them as `Precedes` says, the order described in words.
- `VersionsOrdered`: it is a strict total order of versions.

The choice, for any finite set of releases, any starting point, any approved
roles, any size of page and rollback list, and any changes of GitHub's list:

- `ChoiceCorrect`: `Spec => [](TypeOK /\ ChoiceInv)`; `ChoiceInv` ties a queued
  request to what it was let through for
- `OffersHeld`, `RollbackListHeld`, `UpdatesHeld`, `ChosenHeld`: the four properties of
  `release_choice`

`Latest` and `Previous` are `CHOOSE`s of a newest release: that one exists is
`NewestExists`. Induction over a finite set is out of reach here, so it takes the
release with the fewest newer ones, which the least element of a set of numbers
(`LeastNat`) gives; transitivity makes it the newest.

`RollbackListHeld` is about a list that may be cut. `NewestFew` is the counting
argument: of a finite set of versions, those with fewer than k above them are at
most k, because the lowest of them has all others above it; and if one is left
out, they are exactly k, because the newest one left out has k above it, none of
which is left out. So what `Options` cuts off `Kept` is older than a full list
(`CutOff`). `LineKept` gives a line a release of `Kept` that is at least as new
as any left out by the grouping, and a line whose release is cut is then older
than the whole list too.

An update goes forward although the list changed since the offer, because the agent
compares with what runs when it queues the request and one request is under way
at a time. A chosen release is installed or none is, because the worker fetches
only an archive of that version, and because the agent leaves the archive out
only of a choice that is retained (`JobAsAsked`).

### RecoveryHandoffProofs

For any kinds, actions, crossings, restarts and posts, with no assumption on when
users confirm; what they promise, they promise to uncrossed actions:

- `HandoffTypes`, `OwnVerdictHeld`, `AcceptedCarried`, `RefusedDropped`,
  `HostToldOnceHeld`: types and the four safety properties of `handoff_reports`

`OwnVerdictHeld` needs a third invariant, as a watcher may report a failure
while the job is at work: a verdict of failure, in a watcher or on a message,
is then a statement about how the job will end. `Doomed` says which jobs cannot
end well any more: those that have ended otherwise, those that show `failing`,
and the rollbacks that tried again. `Inv3` says that every such verdict is of a
doomed job, and `DoomStays` that nothing the worker does next saves one.

`Inv1` ties the parts together for the uncrossed actions, while crossed ones may
have left anything in file and watcher: a job is in the queue, then in one status, and
ends once (`JobInv`); the file of a kind names one action of that kind, and the
watcher of the kind the same one, with a job id that is its own or missing
(`FileInv`); an action under way in `execute` has the file, unwatched
(`LiveInv`); what messages show follows (`MessageInv`).
`Inv2` is about the returned host: a job that was told stays noted (by the
watcher, the tick, or one of the two records) until the next host job takes its
place in the status (`ToldInv`); the scheduler posts only without a file
(`TickInv`), a watcher with a verdict is about the newest host job
(`CompleteInv`), and a file not yet reported was not announced (`FreshInv`). So
the one record each teller has is overwritten only for a newer job.

### AutoUpdateProofs

- `SchedulerTypes`, `QueuedOnceHeld`, `OptOutHeld`, `NoticeHeld`: types and the three
  safety properties of `auto_update`, for any releases, days, jobs, edits and
  restarts; of the releases it assumes only that a first stable one exists

The state file holds one key, the last attempt, and is to rule out all of the
past ones. `QueueInv` says why it does. Count only the jobs queued since an
administrator last changed something (`Recent`): a tick that read an older
schedule finds none of them (`Behind`); those of the current schedule have keys
up to the one on disk, by day and then by version (`UpTo`), as ticks follow one
another and `Latest` never goes back (`PublishMonotone`); so a key that differs
from the one on disk is newer than all of them (`OfferStep`). `OffInv` says that
once a job was queued after the switch to off, every tick still to act has read
"off". `JobsInv` ties the agent's status to the history of the job it names.

### ServiceControlProofs

- `AccessListsAreDecisions`, `ConfirmedByEntitled`: for any users, panels and edits
- `PromiseKept`, `ChangeAnswered`, `ActionsHonourPolicy`: what is promised of changes
  that did not overlap, for any number of threads that change the policy and any
  listers, actors and inodes
- `ServiceTypes`, `ProtectedReadOnly`: types, and that no action on a protected
  container is let through, overlapping changes included

Access part: merging the environment into the file again and again keeps the
lists (`AccessInv`). Policy part: `PolicyInv` says that a change that is alone is the
only one under way (`Alone`), that while something is promised every thread that
still writes is that one and the live file is whole (`Quiet`, `Apart`), and that a
list, being filled or cached, shows the policy or is marked late (`FreshLists`).
`SoleOrUnpromised` is the case split all steps use: a step of a changing thread is
one of the sole change, or nothing is promised.
With overlapping changes a write may be lost or leave a file that is not JSON, and
those promises end; the code decides protected containers without the file, which
is why `ProtectedReadOnly` needs types only. Types need a counting argument: a
changer that opens the temporary file finds an unused inode, as at most one per
changer and the live one are in use (`FileLeft`).

### RuntipiUpdatesProofs

- `RuntipiTypes`, `RuntipiWorkWatched`, `RuntipiUpdatedIsTrue`, for any apps,
  threads, operations and faults. The invariant adds that only the holder of
  the lock is not idle (`Shape`), that every row is for an app of its own, at most
  the newest version and still to come (`RowsSound`), and that what a poll saw is still reached when
  the container is probed (`PollSound`).

### PanelsProofs

- `PanelTypes`, `StraysBrief`, `PagesKeepOrder`, for any messages, clicks and limit
  of the dictionary. `KeysSound` ties the dictionary's keys to its revisions,
  `Ordered` says that a click's revision is below that of a later click on the
  message unless it was forgotten, `Registered` and `LoopSound` that a loop off the
  register is in its last round.

## Only model-checked

- Liveness: `AcceptedRuns`, `ReleaseUnlocked`, `JobSettles`, the fairness of
  `ContractSpec`, `AcceptedGetsReport` (stated as `<>[]`, since both of its sets
  only grow), `CompletionNoticed`, `LockReleased`,
  `LoopsEnd`. The prover has no rule for `ENABLED`.
- That `AcceptedNotLost` cannot be extended to calls that crowd each other:
  `bridge_lost_job` is the counterexample. That the promises of `RecoveryHandoff`
  and `ControlPolicy` cannot be extended to crossed actions and overlapping changes
  was checked in the same way while the models were written.

Every safety property of a passing run, invariant or action property, is stated by
a theorem; the runs remain as the check that the formulae say something on
instances where everything happens.

## Plan

In the order of what each would add:

1. The worker of `RecoveryHandoff` and `AutoUpdate` under `ReleasePhases`, as the
   queue and the job themselves are: so far both state what they assume of it.
2. `resolve_service`: a panel acts on a container through a key that may be
   stale after the container was recreated under the same name.
3. Access by Discord roles, and what a change of a role does to open
   confirmations.
4. The navigation of views that survived a restart of the bot, and
   `host_progress`.
5. Telemetry caches: their times to live and the threads that refill them.

## Not modelled

- Telemetry: read-only probes of Docker, the host and media servers. Their
  caches differ in their time to live; what they compute is number formatting.
- The agent's HTTP surface: routing, token, request parsing and redaction. A
  route that changes state is part of the module of what it calls.
- Minecraft and wake-on-LAN clients: single requests to other services.
- Rendering of embeds, parsing of `config.py`, packaging and install scripts.
- Within the modelled parts: write failures of status files, a `docker inspect`
  that lies, wall-clock time (the timeouts are steps that may happen; the
  command timeout that is only reached once a command closed its output is
  listed as a hazard), access by Discord roles, and the abstractions each
  section above names.
