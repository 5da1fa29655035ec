-------------------------- MODULE MaintenanceBridge --------------------------
(***************************************************************************)
(* The mailbox between the control agent and the root-owned host worker.   *)
(*                                                                         *)
(* The agent serves every HTTP request on a thread of its own.  A thread   *)
(* that queues a job looks at request.json, reads a status file, and only  *)
(* then writes request.json through one shared temporary file.  The worker *)
(* polls request.json, unlinks it, runs the job to its end and reports in  *)
(* status.json (host jobs) or bot-release.json (control-release jobs).     *)
(* Either side may be restarted between any two of these steps.            *)
(*                                                                         *)
(* What a control-release job does to the containers is the subject of     *)
(* module ControlRelease; here such a job is only its published phases.    *)
(***************************************************************************)
EXTENDS Naturals

CONSTANTS
  Threads,      \* HTTP handler threads of the agent
  Jobs,         \* job ids the agent can draw (uuid4)
  NoJob,        \* a status file that names no job
  NoRequest,    \* request.json (or its temporary file) does not exist
  MaxFailures   \* bound: deaths of the worker and host boots nobody asked for

ASSUME JobsAssumption == NoJob \notin Jobs
ASSUME BoundAssumption == MaxFailures \in Nat

\* "release" stands for bot_update, bot_rollback and the four recovery actions
\* (bot_restart, bot_repair, settings_reset, settings_restore).
Kinds   == {"release", "apply_updates", "reboot"}
Request == [action : Kinds, job : Jobs]

ASSUME RequestAssumption == NoRequest \notin Request

\* Phases a release job publishes while it works: "checking" stands for every
\* phase before the containers change, "restarting" for those after.
BotActive  == {"checking", "restarting"}
BotSettled == {"complete", "rolled_back", "failed"}
BotPhases  == BotActive \cup BotSettled \cup {"idle"}

HostBusy   == {"checking", "applying"}
HostPhases == HostBusy \cup
                {"idle", "ready_for_reboot", "complete", "rebooting", "online", "failed"}

VARIABLES
  mailbox,   \* request.json
  scratch,   \* request.json.tmp, one file shared by all threads
  thread,    \* where each handler thread is, and the request it carries
  host,      \* status.json
  bot,       \* bot-release.json
  worker,    \* where the worker is, and the request it read
  boot,      \* the kernel's boot id, counted
  marker,    \* /var/run/reboot-required
  goingDown, \* systemd has accepted the reboot
  failures,  \* how many of the bounded failures happened
  \* history, read by properties and by fresh job ids only; crowded is reset
  \* when a call starts and finds no other under way
  issued,    \* job ids drawn so far
  confirmed, \* jobs whose restart an administrator confirmed
  accepted,  \* jobs the agent answered "accepted" for (restarts excluded)
  crowded,   \* two calls have been past their check at once, and one still is
  alone,     \* accepted jobs whose call met no other call past its check
  runs,      \* how often the worker began each job
  reboots    \* how often systemctl reboot succeeded for each job

agentVars   == <<thread, scratch>>
historyVars == <<issued, confirmed, accepted, crowded, alone, runs, reboots>>
machineVars == <<boot, marker, goingDown, failures>>
vars == <<mailbox, agentVars, host, bot, worker, machineVars, historyVars>>

Idle == [at |-> "idle"]
ThreadStates ==
  {Idle}
    \cup [at : {"checked"}, action : Kinds \ {"reboot"}]
    \cup [at : {"checked"}, action : {"reboot"}, job : Jobs]
    \cup [at : {"admitted", "written"}, req : Request]

WorkerStates ==
  [at : {"down", "poll"}]
    \cup [at : {"read", "dispatch", "refreshing", "upgrading", "rebooting", "release"},
          req : Request]

Down == [at |-> "down"]
Poll == [at |-> "poll"]

TypeOK ==
  /\ mailbox \in Request \cup {NoRequest}
  /\ scratch \in Request \cup {NoRequest}
  /\ thread \in [Threads -> ThreadStates]
  /\ host \in [phase : HostPhases, job : Jobs \cup {NoJob},
               boot : Nat, reboot : BOOLEAN]
  /\ bot \in [phase : BotPhases, job : Jobs \cup {NoJob}]
  /\ worker \in WorkerStates
  /\ boot \in Nat /\ marker \in BOOLEAN /\ goingDown \in BOOLEAN
  /\ failures \in Nat
  /\ issued \subseteq Jobs
  /\ confirmed \subseteq Jobs /\ accepted \subseteq Jobs
  /\ crowded \in BOOLEAN /\ alone \subseteq Jobs
  /\ runs \in [Jobs -> Nat] /\ reboots \in [Jobs -> Nat]

\* The bridge was installed and started once; nothing was requested yet.
Init ==
  /\ mailbox = NoRequest /\ scratch = NoRequest
  /\ thread = [t \in Threads |-> Idle]
  /\ host = [phase |-> "idle", job |-> NoJob, boot |-> 0, reboot |-> FALSE]
  /\ bot = [phase |-> "idle", job |-> NoJob]
  /\ worker = Poll
  /\ boot = 0 /\ marker = FALSE /\ goingDown = FALSE
  /\ failures = 0
  /\ issued = {} /\ confirmed = {} /\ accepted = {} /\ crowded = FALSE /\ alone = {}
  /\ runs = [j \in Jobs |-> 0] /\ reboots = [j \in Jobs |-> 0]

-----------------------------------------------------------------------------
(* The agent: _queue_system_request, _queue_bot_release_request and        *)
(* _queue_bot_maintenance_request share one shape.                         *)

\* Wrong on purpose: the call does not look for an existing request.json.
CheckNothing(t, k) ==
  /\ thread[t] = Idle /\ k # "reboot"
  /\ thread' = [thread EXCEPT ![t] = [at |-> "checked", action |-> k]]
  /\ crowded' = (\E u \in Threads : thread[u] # Idle)
  /\ UNCHANGED <<mailbox, scratch, host, bot, worker, machineVars,
                 issued, confirmed, accepted, alone, runs, reboots>>

\* An existing request.json refuses the call, which changes nothing.
CheckMailbox(t, k) ==
  /\ thread[t] = Idle /\ mailbox = NoRequest
  /\ IF k = "reboot"
     THEN \E j \in Jobs :
            /\ thread' = [thread EXCEPT ![t] = [at |-> "checked", action |-> k, job |-> j]]
            /\ confirmed' = confirmed \cup {j}
     ELSE /\ thread' = [thread EXCEPT ![t] = [at |-> "checked", action |-> k]]
          /\ UNCHANGED confirmed
  /\ crowded' = (\E u \in Threads : thread[u] # Idle)
  /\ UNCHANGED <<mailbox, scratch, host, bot, worker, machineVars,
                 issued, accepted, alone, runs, reboots>>

\* system_updates() / bot_release_status() / _safe_bot_release_state(), and
\* the guards on the phase they return.  The release kinds still talk to
\* GitHub after this read, so the write may come much later.
Admits(th) ==
  CASE th.action = "apply_updates" ->
         host.phase \notin HostBusy \cup {"rebooting", "ready_for_reboot"}
    [] th.action = "reboot" ->
         host.phase = "ready_for_reboot" /\ host.reboot /\ th.job = host.job
    [] OTHER -> bot.phase \notin BotActive

Admit(t) ==
  /\ thread[t].at = "checked" /\ Admits(thread[t])
  /\ \E req \in Request :
       /\ req.action = thread[t].action
       /\ IF req.action = "reboot"
          THEN req.job = thread[t].job /\ UNCHANGED issued
          ELSE req.job \notin issued /\ issued' = issued \cup {req.job}
       /\ thread' = [thread EXCEPT ![t] = [at |-> "admitted", req |-> req]]
  /\ UNCHANGED <<mailbox, scratch, host, bot, worker, machineVars,
                 confirmed, accepted, crowded, alone, runs, reboots>>

\* The phase forbids it, or a condition outside this model does (no pending
\* packages, no verified release, no Compose target, GitHub unreachable).
Refuse(t) ==
  /\ thread[t].at = "checked"
  /\ thread' = [thread EXCEPT ![t] = Idle]
  /\ UNCHANGED <<mailbox, scratch, host, bot, worker, machineVars, historyVars>>

WriteScratch(t) ==
  /\ thread[t].at = "admitted"
  /\ scratch' = thread[t].req
  /\ thread' = [thread EXCEPT ![t].at = "written"]
  /\ UNCHANGED <<mailbox, host, bot, worker, machineVars, historyVars>>

\* os.replace publishes whatever the shared temporary file holds by now.
Publish(t) ==
  /\ thread[t].at = "written" /\ scratch # NoRequest
  /\ mailbox' = scratch /\ scratch' = NoRequest
  /\ LET job == IF thread[t].req.action = "reboot" THEN {} ELSE {thread[t].req.job}
     IN  /\ accepted' = accepted \cup job
         /\ alone' = IF crowded THEN alone ELSE alone \cup job
  /\ thread' = [thread EXCEPT ![t] = Idle]
  /\ UNCHANGED <<host, bot, worker, machineVars, issued, confirmed, crowded, runs, reboots>>

\* Another thread moved the temporary file away: OSError, the call is refused.
PublishFails(t) ==
  /\ thread[t].at = "written" /\ scratch = NoRequest
  /\ thread' = [thread EXCEPT ![t] = Idle]
  /\ UNCHANGED <<mailbox, scratch, host, bot, worker, machineVars, historyVars>>

Agent(t) ==
  \/ \E k \in Kinds : CheckMailbox(t, k)
  \/ Admit(t) \/ Refuse(t) \/ WriteScratch(t) \/ Publish(t) \/ PublishFails(t)

-----------------------------------------------------------------------------
(* The worker: main() and the jobs it dispatches.                          *)

To(place) == worker' = [worker EXCEPT !.at = place]

\* Wrong on purpose: the loop waits for the restart before it reads requests.
ReadUnlessReady ==
  /\ worker = Poll /\ mailbox # NoRequest
  /\ worker' = IF host.phase = "ready_for_reboot" THEN Poll
               ELSE [at |-> "read", req |-> mailbox]
  /\ UNCHANGED <<mailbox, agentVars, host, bot, machineVars, historyVars>>

ReadRequest ==
  /\ worker = Poll /\ mailbox # NoRequest
  /\ worker' = [at |-> "read", req |-> mailbox]
  /\ UNCHANGED <<mailbox, agentVars, host, bot, machineVars, historyVars>>

\* Wrong on purpose: the request is dispatched but stays in the directory.
KeepRequest ==
  /\ worker.at = "read"
  /\ To("dispatch")
  /\ UNCHANGED <<mailbox, agentVars, host, bot, machineVars, historyVars>>

Unlink ==
  /\ worker.at = "read"
  /\ mailbox' = NoRequest
  /\ To("dispatch")
  /\ UNCHANGED <<agentVars, host, bot, machineVars, historyVars>>

\* apply_updates starts from base_status(), not from the file it replaces.
BeginApply ==
  /\ worker.at = "dispatch" /\ worker.req.action = "apply_updates"
  /\ runs' = [runs EXCEPT ![worker.req.job] = @ + 1]
  /\ \/ /\ host' = [phase |-> "checking", job |-> worker.req.job,
                    boot |-> boot, reboot |-> marker]
        /\ To("refreshing")
     \/ /\ host' = [phase |-> "failed", job |-> worker.req.job,  \* unsupported system
                    boot |-> boot, reboot |-> marker]
        /\ worker' = Poll
  /\ UNCHANGED <<mailbox, agentVars, bot, machineVars,
                 issued, confirmed, accepted, crowded, alone, reboots>>

\* apt-get update
RefreshCatalogue ==
  /\ worker.at = "refreshing"
  /\ \/ host' = [host EXCEPT !.phase = "applying"] /\ To("upgrading")
     \/ host' = [host EXCEPT !.phase = "failed"] /\ worker' = Poll
  /\ UNCHANGED <<mailbox, agentVars, bot, machineVars, historyVars>>

\* apt-get upgrade; a package may ask for a reboot whether or not it succeeds.
Upgrade ==
  /\ worker.at = "upgrading"
  /\ marker' \in {marker, TRUE}
  /\ worker' = Poll
  /\ host' \in {[host EXCEPT !.reboot = marker',
                             !.phase = IF marker' THEN "ready_for_reboot" ELSE "complete"],
                [host EXCEPT !.phase = "failed"]}
  /\ UNCHANGED <<mailbox, agentVars, bot, boot, goingDown, failures, historyVars>>

\* Wrong on purpose: the phase is not part of the confirmation.
MarkerConfirms == worker.req.job = host.job /\ marker

\* request_reboot checks the confirmation again against its own status file.
RebootConfirmed ==
  worker.req.job = host.job /\ host.phase = "ready_for_reboot" /\ marker

BeginReboot ==
  /\ worker.at = "dispatch" /\ worker.req.action = "reboot"
  /\ \/ /\ RebootConfirmed
        /\ host' = [host EXCEPT !.phase = "rebooting", !.boot = boot]
        /\ To("rebooting")
     \/ /\ ~RebootConfirmed
        /\ host' = [host EXCEPT !.phase = "failed"]
        /\ worker' = Poll
  /\ UNCHANGED <<mailbox, agentVars, bot, machineVars, historyVars>>

\* systemctl reboot returns before the host is down; the loop goes on.
RebootCommand ==
  /\ worker.at = "rebooting"
  /\ worker' = Poll
  /\ \/ /\ goingDown' = TRUE
        /\ reboots' = [reboots EXCEPT ![worker.req.job] = @ + 1]
        /\ UNCHANGED host
     \/ /\ host' = [host EXCEPT !.phase = "failed"]
        /\ UNCHANGED <<goingDown, reboots>>
  /\ UNCHANGED <<mailbox, agentVars, bot, boot, marker, failures,
                 issued, confirmed, accepted, crowded, alone, runs>>

BeginRelease ==
  /\ worker.at = "dispatch" /\ worker.req.action = "release"
  /\ runs' = [runs EXCEPT ![worker.req.job] = @ + 1]
  /\ bot' = [phase |-> "checking", job |-> worker.req.job]
  /\ To("release")
  /\ UNCHANGED <<mailbox, agentVars, host, machineVars,
                 issued, confirmed, accepted, crowded, alone, reboots>>

\* Phases written while the job works.  run_command publishes "failed" before
\* the job's own error handling goes on, possibly to a later success.
ReleaseProgress ==
  /\ worker.at = "release"
  /\ bot' \in {[bot EXCEPT !.phase = p] : p \in BotActive \cup {"failed"}}
  /\ UNCHANGED <<mailbox, agentVars, host, worker, machineVars, historyVars>>

\* Recreating the containers ends every handler thread of the agent.
RecreateContainers ==
  /\ worker.at = "release"
  /\ thread' = [t \in Threads |-> Idle]
  /\ UNCHANGED <<mailbox, scratch, host, bot, worker, machineVars, historyVars>>

SettleRelease ==
  /\ worker.at = "release"
  /\ bot' \in {[bot EXCEPT !.phase = p] : p \in BotSettled}
  /\ worker' = Poll
  /\ UNCHANGED <<mailbox, agentVars, host, machineVars, historyVars>>

\* The five-minute refresh of the idle loop.
RefreshStatus ==
  /\ worker = Poll /\ host.phase \in {"idle", "complete", "online"}
  /\ host' = [host EXCEPT !.reboot = marker]
  /\ UNCHANGED <<mailbox, agentVars, bot, worker, machineVars, historyVars>>

\* Wrong on purpose: an unfinished release job keeps its phase over a restart.
StartForgetful ==
  /\ worker = Down
  /\ worker' = Poll
  /\ host' = IF host.phase = "rebooting" /\ host.boot # boot
             THEN [host EXCEPT !.phase = "online", !.boot = boot, !.reboot = marker]
             ELSE host
  /\ UNCHANGED <<mailbox, agentVars, bot, machineVars, historyVars>>

\* main() up to its loop: startup_transition for the host, and a release job
\* the previous process left unfinished is reported as failed.
StartWorker ==
  /\ worker = Down
  /\ worker' = Poll
  /\ host' = IF host.phase = "rebooting" /\ host.boot # boot
             THEN [host EXCEPT !.phase = "online", !.boot = boot, !.reboot = marker]
             ELSE host
  /\ bot' = IF bot.phase \in BotActive THEN [bot EXCEPT !.phase = "failed"] ELSE bot
  /\ UNCHANGED <<mailbox, agentVars, machineVars, historyVars>>

Worker ==
  \/ ReadRequest \/ Unlink
  \/ BeginApply \/ RefreshCatalogue \/ Upgrade
  \/ BeginReboot \/ RebootCommand
  \/ BeginRelease \/ ReleaseProgress \/ RecreateContainers \/ SettleRelease
  \/ RefreshStatus \/ StartWorker

-----------------------------------------------------------------------------
(* The machine.                                                            *)

StopWorker ==
  /\ worker # Down /\ failures < MaxFailures
  /\ worker' = Down /\ failures' = failures + 1
  /\ UNCHANGED <<mailbox, agentVars, host, bot, boot, marker, goingDown, historyVars>>

\* /var/run is empty after a boot; the files of the bridge are not.
Boot ==
  /\ boot' = boot + 1 /\ marker' = FALSE /\ goingDown' = FALSE
  /\ worker' = Down
  /\ thread' = [t \in Threads |-> Idle]
  /\ UNCHANGED <<mailbox, scratch, host, bot, historyVars>>

RequestedBoot == goingDown /\ Boot /\ UNCHANGED failures

\* A power cut, or an administrator at the console.
Outage == failures < MaxFailures /\ Boot /\ failures' = failures + 1

Next ==
  \/ \E t \in Threads : Agent(t)
  \/ Worker
  \/ StopWorker \/ RequestedBoot \/ Outage

Spec == Init /\ [][Next]_vars

\* A command of the worker ends, the loop polls, systemd restarts the worker
\* (Restart=on-failure, WantedBy=multi-user.target) and carries out a reboot it
\* accepted.  Nothing is assumed of the agent or of how a job reports on the way.
JobStep ==
  \/ Unlink \/ BeginApply \/ RefreshCatalogue \/ Upgrade
  \/ BeginReboot \/ RebootCommand \/ BeginRelease \/ SettleRelease

Fairness ==
  /\ WF_vars(JobStep) /\ WF_vars(ReadRequest)
  /\ WF_vars(StartWorker) /\ WF_vars(RequestedBoot)

FairSpec == Spec /\ Fairness

-----------------------------------------------------------------------------
(* What the bridge promises.                                               *)

\* A job is never executed twice, whatever the interleaving of handler threads
\* on the shared temporary file and wherever the worker dies: request.json is
\* unlinked before the job is dispatched and no thread publishes a job again.
AtMostOnce == \A j \in Jobs : runs[j] <= 1

\* The host is rebooted at most once for a maintenance job, only after that job
\* ran and only when an administrator confirmed that very job's restart: the
\* worker must not act on its file alone nor on the request alone.
RebootConfirmedOnce ==
  \A j \in Jobs : reboots[j] > 0 =>
    reboots[j] = 1 /\ runs[j] = 1 /\ j \in confirmed

\* bot-release.json shows a job in progress only while the worker is working on
\* it (or is down and will report it failed on start): the agent refuses every
\* release and recovery action for as long as such a phase stands.
NoOrphanedRelease ==
  bot.phase \in BotActive =>
    worker = Down \/ (worker.at = "release" /\ worker.req.job = bot.job)

\* A request the agent answered "accepted" reaches the worker, as long as no
\* process dies: it is in request.json, in the worker's hands, or was begun.
ReachesWorker(j) ==
  \/ runs[j] > 0
  \/ mailbox # NoRequest /\ mailbox.job = j
  \/ worker.at \in {"read", "dispatch"} /\ worker.req.job = j

\* So the agent answers, whatever other calls are under way.
AcceptedReachesWorker ==
  failures = 0 /\ boot = 0 => \A j \in accepted : ReachesWorker(j)

\* So it is for a call that no other call past its check overlapped, however
\* many calls crowded before and after it: the check keeps a later call from
\* overwriting request.json, and the worker unlinks what it read.
AloneReachesWorker ==
  failures = 0 /\ boot = 0 => \A j \in alone : ReachesWorker(j)

\* Release actions are never locked out for good, not even when the worker dies
\* in the middle of one.
ReleaseUnlocked == []<>(bot.phase \notin BotActive)

\* Every job accepted from such a call is eventually begun, whatever the other
\* job's status says, as long as no process dies.
AcceptedRuns ==
  \A j \in Jobs : j \in alone ~> runs[j] > 0 \/ failures > 0 \/ boot > 0

\* Readers of bot-release.json see a release job as ReleasePhases has it, however
\* requests, restarts and boots interleave with it.
Phases == INSTANCE ReleasePhases
  WITH phase  <- IF bot.phase = "idle" THEN "none"
                 ELSE IF bot.phase \in BotActive THEN "busy"
                 ELSE IF bot.phase = "failed" THEN "failed" ELSE "done",
       worker <- IF worker.at = "release" THEN "job"
                 ELSE IF worker = Down THEN "dead" ELSE "idle"

PhasesKept == Phases!Spec

-----------------------------------------------------------------------------
(* Why it keeps the safety promises: inductive strengthenings.             *)

\* Request x asks for job j to be executed.
Asks(x, j) == x # NoRequest /\ x.action # "reboot" /\ x.job = j

ThreadAsks(t, j) == thread[t].at = "admitted" /\ Asks(thread[t].req, j)
WorkerAsks(j)    == worker.at \in {"read", "dispatch"} /\ Asks(worker.req, j)

\* Before a job runs, one place at a time can still cause it to run: a thread
\* about to write, the temporary file, request.json, or the worker's hands (the
\* worker and request.json may share it only until the unlink).  This is why
\* AtMostOnce holds: when the worker begins a job, no copy is left behind.
OneCopy ==
  \A j \in Jobs :
    /\ Asks(scratch, j) \/ Asks(mailbox, j) \/ WorkerAsks(j)
         \/ (\E t \in Threads : ThreadAsks(t, j)) => j \in issued /\ runs[j] = 0
    /\ runs[j] > 0 => j \in issued
    /\ \A t \in Threads : ThreadAsks(t, j) =>
         /\ ~Asks(scratch, j) /\ ~Asks(mailbox, j) /\ ~WorkerAsks(j)
         /\ \A u \in Threads : ThreadAsks(u, j) => u = t
    /\ Asks(scratch, j) => ~Asks(mailbox, j) /\ ~WorkerAsks(j)
    /\ Asks(mailbox, j) => ~(worker.at = "dispatch" /\ WorkerAsks(j))

\* Every copy of a restart request descends from an administrator's click.
Confirmed(x) == x # NoRequest /\ x.action = "reboot" => x.job \in confirmed

RestartsConfirmed ==
  /\ Confirmed(scratch) /\ Confirmed(mailbox)
  /\ worker.at \notin {"down", "poll"} => Confirmed(worker.req)
  /\ \A t \in Threads :
       /\ thread[t].at \in {"admitted", "written"} => Confirmed(thread[t].req)
       /\ thread[t].at = "checked" /\ thread[t].action = "reboot" =>
            thread[t].job \in confirmed

\* What status.json says of a job before its restart, and where the worker is.
RestartPending ==
  /\ worker.at = "refreshing" => host.phase = "checking"
  /\ worker.at = "upgrading" => host.phase = "applying"
  /\ worker.at = "rebooting" =>
       /\ host.phase = "rebooting" /\ worker.req.action = "reboot"
       /\ host.job = worker.req.job /\ reboots[host.job] = 0
  /\ host.phase \in HostBusy \cup {"ready_for_reboot"} =>
       host.job \in Jobs /\ runs[host.job] = 1 /\ reboots[host.job] = 0
  /\ host.phase = "rebooting" => host.job \in Jobs /\ runs[host.job] = 1

ReleaseNamesJob == worker.at = "release" => bot.job = worker.req.job

BridgeInv ==
  /\ OneCopy /\ AtMostOnce
  /\ RestartsConfirmed /\ RestartPending /\ RebootConfirmedOnce
  /\ ReleaseNamesJob /\ NoOrphanedRelease

\* A call that no other overlapped found request.json absent, it still is, and
\* what the call publishes is what it wrote.  From then on no call is past its
\* check until the worker has unlinked the request it read.
HandedOver ==
  /\ ~crowded => \A t \in Threads : thread[t] # Idle =>
       /\ \A u \in Threads : thread[u] # Idle => u = t
       /\ mailbox = NoRequest
       /\ thread[t].at = "written" => scratch = thread[t].req
  /\ worker.at = "read" => mailbox # NoRequest
  /\ failures = 0 /\ boot = 0 => \A j \in alone :
       \/ runs[j] > 0
       \/ /\ Asks(mailbox, j) /\ \A t \in Threads : thread[t] = Idle
          /\ worker.at = "read" => worker.req = mailbox
       \/ worker.at = "dispatch" /\ Asks(worker.req, j)

=============================================================================
