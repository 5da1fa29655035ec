--------------------------- MODULE RecoveryHandoff ---------------------------
(***************************************************************************)
(* How the outcome of a confirmed job finds its way back to the Discord    *)
(* message that asked for it, although the job restarts the bot (or the    *)
(* whole host) on its way: Controller.execute, the handoff files of        *)
(* Recovery, the watcher that follows a job, and the scheduler's           *)
(* announcement of a host that came back without a message to edit.        *)
(*                                                                         *)
(* The bot is one event loop: a step runs from one await to the next.  The *)
(* agent and the worker appear as the mailbox and the two status files     *)
(* they share; MaintenanceBridge has them in detail.                       *)
(***************************************************************************)
EXTENDS Naturals, FiniteSets

CONSTANTS
  Kinds,        \* kinds of handoff in use, one file each
  None,         \* no entry, no job, no message
  MaxActions,   \* bound: actions users confirm
  MaxRestarts,  \* bound: restarts of the bot but for those of the host
  MaxPosts,     \* bound: announcements of one host job
  MaxCrossed    \* bound: of crossed actions, to let one more of a busy kind be confirmed

Actions == 1..MaxActions   \* in the order of their confirmation; also the job each becomes
Streams == {"bot", "host"}
Stream(k) == IF k = "host" THEN "host" ELSE "bot"

ASSUME NoneAssumption   == None \notin Actions
ASSUME KindsAssumption  == "host" \in Kinds /\ Kinds \subseteq {"release", "maintenance", "host"}
ASSUME BoundsAssumption == {MaxActions, MaxRestarts, MaxPosts, MaxCrossed} \subseteq Nat

VARIABLES
  kind,       \* kind[a]: the handoff an action uses, once it is confirmed
  exec,       \* exec[a]: how far Controller.execute is with the action
  file,       \* the handoff files
  watcher,    \* Recovery.running, with the state each resume holds in memory
  unresumed,  \* kinds resume_all has yet to look at after a start
  shown,      \* shown[a]: the last verdict on the message of the action
  late,       \* actions whose interaction token has expired
  queue,      \* request.json
  status,     \* bot-release.json and status.json, as the agent reports them
  tick,       \* the scheduler's announcement of a returned host
  lastOnline, \* lastOnline of the scheduler's state, then host-reboot-last-online.json
  restarts,   \* how many of the bounded restarts happened
  accepted,   \* history: actions whose acceptance reached the bot
  reported,   \* history: actions whose final panel was sent, somewhere
  outcome,    \* history: how the job of an action ended
  retried,    \* history: rollbacks that went on to GitHub after they had shown "failed"
  announced,  \* history: how often the return of the host was told for a job
  torn,       \* history: jobs told, with the bot restarted before it wrote that down
  crossed     \* history: actions confirmed while another of their kind was under way,
              \* and those others

handoff == <<kind, exec, file, watcher, unresumed, shown, late>>
bridge  == <<queue, status, outcome, retried>>
online  == <<tick, lastOnline>>
history == <<accepted, reported, announced, torn, crossed>>
vars    == <<handoff, bridge, online, restarts, history>>

Jobs      == Actions \cup {None}
Entry     == [msg : Actions \cup {None}, job : Jobs]
Verdicts  == {"complete", "failed", "expired"}
Ended     == {"done", "mismatch", "failed"}
Settled   == Ended \cup {"failing"}  \* the file says failed, and the worker goes on
Status    == [job : Jobs, phase : {"idle", "busy", "booted"} \cup Settled]
Watching  == [at : {"poll", "report", "finish"}, msg : Actions, job : Jobs,
              verdict : Verdicts \cup {None}]
ASSUME RecordAssumption == None \notin Entry /\ None \notin Watching /\ None \notin Verdicts

ExecPlace == {"new", "staged", "refused", "sent", "recorded", "over"}

NoTick == [at |-> "idle", job |-> None]

TypeOK ==
  /\ kind \in [Actions -> Kinds \cup {None}]
  /\ exec \in [Actions -> ExecPlace]
  /\ file \in [Kinds -> Entry \cup {None}]
  /\ watcher \in [Kinds -> Watching \cup {None}]
  /\ unresumed \subseteq Kinds
  /\ shown \in [Actions -> Verdicts \cup {"none", "error"}]
  /\ queue \in Jobs
  /\ status \in [Streams -> Status]
  /\ tick \in [at : {"idle", "decide", "post", "record"}, job : Jobs]
  /\ lastOnline \in [saved : Jobs, handoff : Jobs]
  /\ restarts \in Nat
  /\ outcome \in [Actions -> Ended \cup {"none"}]
  /\ announced \in [Actions -> Nat]
  /\ {retried, late, accepted, reported, torn, crossed} \subseteq SUBSET Actions

Init ==
  /\ kind = [a \in Actions |-> None]
  /\ exec = [a \in Actions |-> "new"]
  /\ file = [k \in Kinds |-> None]
  /\ watcher = [k \in Kinds |-> None]
  /\ unresumed = {}
  /\ shown = [a \in Actions |-> "none"]
  /\ late = {}
  /\ queue = None
  /\ status = [s \in Streams |-> [job |-> None, phase |-> "idle"]]
  /\ tick = NoTick
  /\ lastOnline = [saved |-> None, handoff |-> None]
  /\ restarts = 0 /\ retried = {}
  /\ accepted = {} /\ reported = {} /\ torn = {} /\ crossed = {}
  /\ outcome = [a \in Actions |-> "none"]
  /\ announced = [a \in Actions |-> 0]

-----------------------------------------------------------------------------
(* Recovery's file operations: each is synchronous, and each works on the
   file of the kind, whichever action it belongs to. *)

Stage(k, a, job) == [file EXCEPT ![k] = [msg |-> a, job |-> job]]

\* read_json gives an empty object for a missing file, which accepted then
\* writes back with a job and without a message.
Accepted(k, job) ==
  [file EXCEPT ![k] = IF @ = None THEN [msg |-> None, job |-> job]
                                  ELSE [@ EXCEPT !.job = job]]

Clear(k) == [file EXCEPT ![k] = None]

\* Wrong on purpose: the file is consumed when it is read, not after the report.
ResumeConsumes(k) ==
  IF watcher[k] # None \/ file[k] = None THEN UNCHANGED <<file, watcher>>
  ELSE /\ watcher' = [watcher EXCEPT ![k] = [at |-> "poll", msg |-> file[k].msg,
                                             job |-> file[k].job, verdict |-> None]]
       /\ file' = Clear(k)

\* resume(kind): nothing while the kind is being watched or without a file; a
\* file without a message is removed; else the file is read, once.
Resume(k) ==
  IF watcher[k] # None \/ file[k] = None THEN UNCHANGED <<file, watcher>>
  ELSE IF file[k].msg = None THEN file' = Clear(k) /\ UNCHANGED watcher
  ELSE /\ watcher' = [watcher EXCEPT ![k] = [at |-> "poll", msg |-> file[k].msg,
                                             job |-> file[k].job, verdict |-> None]]
       /\ UNCHANGED file

-----------------------------------------------------------------------------
(* Controller.execute, for the three types of action that are handed off.    *)

\* Actions of the kind that execute has not let go of.
Executing(k) ==
  {b \in Actions : kind[b] = k /\ exec[b] \in {"staged", "refused", "sent", "recorded"}}

\* Messages that the file or the watcher of the kind is there for.
Owed(k) == {b \in Actions : \/ file[k] # None /\ file[k].msg = b
                            \/ watcher[k] # None /\ watcher[k].msg = b}

\* Something of the kind is under way, or a start has yet to look at its file.
Busy(k) == k \in unresumed \/ file[k] # None \/ watcher[k] # None \/ Executing(k) # {}

\* A host restart is the second half of a job whose id the confirmation knows.
\* stage overwrites the file of the kind, whoever it belongs to.
Confirm(a, k) ==
  /\ exec[a] = "new" /\ \A b \in 1..(a - 1) : exec[b] # "new"
  /\ Busy(k) => Cardinality(crossed) < MaxCrossed
  /\ kind' = [kind EXCEPT ![a] = k]
  /\ exec' = [exec EXCEPT ![a] = "staged"]
  /\ file' = Stage(k, a, IF k = "host" THEN a ELSE None)
  /\ crossed' = IF Busy(k) THEN crossed \cup {a} \cup Executing(k) \cup Owed(k) ELSE crossed
  /\ UNCHANGED <<watcher, unresumed, shown, late, bridge, online, restarts,
                 accepted, reported, announced, torn>>

\* The agent takes the request: the mailbox is free and no job is under way.
Accept(a) ==
  /\ exec[a] = "staged"
  /\ queue = None /\ status[Stream(kind[a])].phase \notin {"busy", "booted"}
  /\ queue' = a
  /\ exec' = [exec EXCEPT ![a] = "sent"]
  /\ UNCHANGED <<kind, file, watcher, unresumed, shown, late, status, outcome, retried, online,
                 restarts, history>>

\* The agent refuses, or the release is no longer the one that was confirmed.
Refuse(a) ==
  /\ exec[a] = "staged"
  /\ exec' = [exec EXCEPT ![a] = "refused"]
  /\ UNCHANGED <<kind, file, watcher, unresumed, shown, late, bridge, online, restarts, history>>

\* The agent's answer is lost, or the client gave up waiting for it.
LoseAnswer(a) ==
  /\ exec[a] = "sent"
  /\ exec' = [exec EXCEPT ![a] = "refused"]
  /\ UNCHANGED <<kind, file, watcher, unresumed, shown, late, bridge, online, restarts, history>>

\* Wrong on purpose: the handoff of a refused action stays.
FailKeepsFile(a) ==
  /\ exec[a] = "refused"
  /\ exec' = [exec EXCEPT ![a] = "over"]
  /\ shown' = [shown EXCEPT ![a] = "error"]
  /\ UNCHANGED <<kind, file, watcher, unresumed, late, bridge, online, restarts, history>>

\* execute's exception handler, with nothing accepted: the file of the kind goes
\* and the message shows the error.
Fail(a) ==
  /\ exec[a] = "refused"
  /\ exec' = [exec EXCEPT ![a] = "over"]
  /\ file' = Clear(kind[a])
  /\ shown' = [shown EXCEPT ![a] = "error"]
  /\ UNCHANGED <<kind, watcher, unresumed, late, bridge, online, restarts, history>>

\* The answer arrives; the write of the job id may fail.
Record(a) ==
  /\ exec[a] = "sent"
  /\ exec' = [exec EXCEPT ![a] = "recorded"]
  /\ file' \in {Accepted(kind[a], a), file}
  /\ accepted' = accepted \cup {a}
  /\ UNCHANGED <<kind, watcher, unresumed, shown, late, bridge, online, restarts,
                 reported, announced, torn, crossed>>

\* The queued panel is on the message or its edit failed: either way resume is spawned.
Follow(a) ==
  /\ exec[a] = "recorded"
  /\ exec' = [exec EXCEPT ![a] = "over"]
  /\ Resume(kind[a])
  /\ UNCHANGED <<kind, unresumed, shown, late, bridge, online, restarts, history>>

-----------------------------------------------------------------------------
(* Recovery.resume and its edit.                                           *)

\* Wrong on purpose: without a job id any completion will do.
AnyJob(w, s) == w.job = None \/ s.job = w.job

\* A job is the one waited for only by a job id that is there and equal.
SameJob(w, s) == w.job # None /\ s.job = w.job

\* A release that ended well on another version than its handoff names has failed.
Verdict(s) == IF s.phase = "done" THEN "complete" ELSE "failed"

Poll(k) ==
  LET w == watcher[k]
      s == status[Stream(k)] IN
  /\ w # None /\ w.at = "poll" /\ w.msg \notin late
  /\ SameJob(w, s) /\ s.phase \in Settled
  /\ watcher' = [watcher EXCEPT ![k] = [w EXCEPT !.at = "report", !.verdict = Verdict(s)]]
  /\ UNCHANGED <<kind, exec, file, unresumed, shown, late, bridge, online, restarts, history>>

\* Wrong on purpose: the loop has no deadline.
NeverGiveUp(k) == FALSE

\* Fourteen minutes have passed without an outcome.
GiveUp(k) ==
  LET w == watcher[k] IN
  /\ w # None /\ w.at = "poll" /\ w.msg \in late
  /\ watcher' = [watcher EXCEPT ![k] = [w EXCEPT !.at = "report", !.verdict = "expired"]]
  /\ UNCHANGED <<kind, exec, file, unresumed, shown, late, bridge, online, restarts, history>>

Told(w, k) ==
  IF k = "host" /\ w.verdict = "complete" THEN [announced EXCEPT ![w.job] = @ + 1]
                                          ELSE announced

\* The final panel goes to the message; with an expired token or a failed edit
\* it goes to the webhook, which may fail too.
EditMessage(k) ==
  LET w == watcher[k] IN
  /\ w # None /\ w.at = "report" /\ w.msg \notin late
  /\ watcher' = [watcher EXCEPT ![k].at = "finish"]
  /\ shown' = [shown EXCEPT ![w.msg] = w.verdict]
  /\ reported' = reported \cup {w.msg}
  /\ announced' = Told(w, k)
  /\ UNCHANGED <<kind, exec, file, unresumed, late, bridge, online, restarts,
                 accepted, torn, crossed>>

PostInstead(k) ==
  LET w == watcher[k] IN
  /\ w # None /\ w.at = "report"
  /\ watcher' = [watcher EXCEPT ![k].at = "finish"]
  /\ reported' = reported \cup {w.msg}
  /\ announced' \in {Told(w, k), announced}
  /\ UNCHANGED <<kind, exec, file, unresumed, shown, late, bridge, online, restarts,
                 accepted, torn, crossed>>

Finish(k) ==
  LET w == watcher[k] IN
  /\ w # None /\ w.at = "finish"
  /\ lastOnline' = IF k = "host" /\ w.verdict = "complete"
                   THEN [lastOnline EXCEPT !.handoff = w.job] ELSE lastOnline
  /\ file' = Clear(k)
  /\ watcher' = [watcher EXCEPT ![k] = None]
  /\ UNCHANGED <<kind, exec, unresumed, shown, late, bridge, tick, restarts, history>>

-----------------------------------------------------------------------------
(* Scheduler.tick, its last part: a host that came back is announced unless a *)
(* handoff will tell, or it was told before.                                  *)

\* A host that is not online ends this part of the tick at once.
ReadHost ==
  /\ tick.at = "idle" /\ status["host"].phase = "done"
  /\ tick' = [at |-> "decide", job |-> status["host"].job]
  /\ UNCHANGED <<handoff, bridge, lastOnline, restarts, history>>

\* Wrong on purpose: a handoff under way does not hold the announcement back.
DecideHostHasty ==
  /\ tick.at = "decide"
  /\ tick' = IF tick.job \notin {lastOnline.saved, lastOnline.handoff}
             THEN [tick EXCEPT !.at = "post"] ELSE NoTick
  /\ UNCHANGED <<handoff, bridge, lastOnline, restarts, history>>

DecideHost ==
  /\ tick.at = "decide"
  /\ tick' = IF file["host"] = None /\ tick.job \notin {lastOnline.saved, lastOnline.handoff}
             THEN [tick EXCEPT !.at = "post"] ELSE NoTick
  /\ UNCHANGED <<handoff, bridge, lastOnline, restarts, history>>

PostHost ==
  /\ tick.at = "post"
  /\ \/ tick' = NoTick /\ UNCHANGED announced
     \/ /\ announced[tick.job] < MaxPosts
        /\ tick' = [tick EXCEPT !.at = "record"]
        /\ announced' = [announced EXCEPT ![tick.job] = @ + 1]
  /\ UNCHANGED <<handoff, bridge, lastOnline, restarts, accepted, reported, torn, crossed>>

RecordHost ==
  /\ tick.at = "record"
  /\ lastOnline' = [lastOnline EXCEPT !.saved = tick.job]
  /\ tick' = NoTick
  /\ UNCHANGED <<handoff, bridge, restarts, history>>

-----------------------------------------------------------------------------
(* The bot's process, the clock, and the worker.                           *)

\* The container is recreated, the host restarts, or the bot dies: tasks are
\* gone, files and messages stay.
BotRestarts ==
  /\ exec' = [a \in Actions |-> IF exec[a] = "new" THEN "new" ELSE "over"]
  /\ watcher' = [k \in Kinds |-> None]
  /\ unresumed' = Kinds
  /\ tick' = NoTick
  /\ torn' = torn \cup {a \in Actions :
       \/ \E k \in Kinds : watcher[k] # None /\ watcher[k].at = "finish" /\ watcher[k].msg = a
       \/ tick.at = "record" /\ tick.job = a}
  /\ UNCHANGED <<kind, file, shown, late, queue, outcome, retried, lastOnline, accepted, reported,
                 announced, crossed>>

Restart ==
  /\ restarts < MaxRestarts /\ restarts' = restarts + 1
  /\ BotRestarts /\ UNCHANGED status

\* The host itself restarts, as its job asked.
RestartHost ==
  /\ status["host"].phase = "busy"
  /\ status' = [status EXCEPT !["host"].phase = "booted"]
  /\ BotRestarts /\ UNCHANGED restarts

\* on_ready: resume_all, some seconds after the start.
StartupResume(k) ==
  /\ k \in unresumed
  /\ unresumed' = unresumed \ {k}
  /\ Resume(k)
  /\ UNCHANGED <<kind, exec, shown, late, bridge, online, restarts, history>>

\* The fourteen minutes of a token pass; who is not waited for has no clock.
Expire(a) ==
  /\ a \notin late
  /\ \/ exec[a] \in {"staged", "sent", "recorded"}
     \/ \E k \in Kinds : \/ file[k] # None /\ file[k].msg = a
                         \/ watcher[k] # None /\ watcher[k].msg = a
  /\ late' = late \cup {a}
  /\ UNCHANGED <<kind, exec, file, watcher, unresumed, shown, bridge, online, restarts, history>>

\* The worker is at one release job at a time, whatever its file says.
BeginJob ==
  /\ queue # None /\ status["bot"].phase \notin {"busy", "failing"}
  /\ queue' = None
  /\ status' = [status EXCEPT ![Stream(kind[queue])] = [job |-> queue, phase |-> "busy"]]
  /\ UNCHANGED <<outcome, retried, handoff, online, restarts, history>>

\* The worker dies with the request in its hands, or another request replaced it.
LoseJob ==
  /\ queue # None
  /\ queue' = None
  /\ UNCHANGED <<status, outcome, retried, handoff, online, restarts, history>>

\* A command of a release job fails: the file says so at once, while the job goes
\* on to undo what it did.
Stumble ==
  /\ status["bot"].phase = "busy"
  /\ status' = [status EXCEPT !["bot"].phase = "failing"]
  /\ UNCHANGED <<queue, outcome, retried, handoff, online, restarts, history>>

\* A rollback whose retained images failed goes on to the GitHub release, once.
Retry ==
  LET a == status["bot"].job IN
  /\ status["bot"].phase = "failing" /\ kind[a] = "release" /\ a \notin retried
  /\ status' = [status EXCEPT !["bot"].phase = "busy"]
  /\ retried' = retried \cup {a}
  /\ UNCHANGED <<queue, outcome, handoff, online, restarts, history>>

\* mismatch: the release ended well, on another version than its handoff names.
\* A host job has ended well when the worker sees the new boot.
Ends(s) ==
  IF s = "host" THEN IF status[s].phase = "booted" THEN {"done"} ELSE {"failed"}
  ELSE IF status[s].phase = "failing" THEN {"failed"}
  ELSE IF kind[status[s].job] = "release" THEN Ended ELSE {"done", "failed"}

EndJob(s) ==
  /\ status[s].phase \in {"busy", "booted", "failing"}
  /\ \E o \in Ends(s) :
       /\ status' = [status EXCEPT ![s].phase = o]
       /\ outcome' = [outcome EXCEPT ![status[s].job] = o]
  /\ UNCHANGED <<queue, retried, handoff, online, restarts, history>>

ActionStep(a) ==
  \/ (\E k \in Kinds : Confirm(a, k)) \/ Accept(a) \/ Refuse(a) \/ LoseAnswer(a) \/ Fail(a)
  \/ Record(a) \/ Follow(a) \/ Expire(a)

WatchStep(k) == Poll(k) \/ GiveUp(k) \/ EditMessage(k) \/ PostInstead(k) \/ Finish(k)

AnnounceStep == ReadHost \/ DecideHost \/ PostHost \/ RecordHost

Next ==
  \/ \E a \in Actions : ActionStep(a)
  \/ \E k \in Kinds : WatchStep(k) \/ StartupResume(k)
  \/ AnnounceStep \/ Restart \/ RestartHost
  \/ BeginJob \/ LoseJob \/ Stumble \/ Retry \/ \E s \in Streams : EndJob(s)

Spec == Init /\ [][Next]_vars

\* The event loop runs every task that can go on, requests are answered or time
\* out, and tokens expire.  Nothing is assumed of users, the worker or restarts.
Fairness ==
  /\ \A a \in Actions :
       WF_vars(Accept(a) \/ Refuse(a) \/ LoseAnswer(a) \/ Fail(a) \/ Record(a)
               \/ Follow(a)) /\ WF_vars(Expire(a))
  /\ \A k \in Kinds : WF_vars(WatchStep(k)) /\ WF_vars(StartupResume(k))

FairSpec == Spec /\ Fairness

-----------------------------------------------------------------------------
(* The file of a kind holds one action.  What follows is promised to an action *)
(* that met no other of its kind from its confirmation to its last panel,      *)
(* whatever actions of the kind crossed before or after it.                    *)

Uncrossed == Actions \ crossed

\* A message says complete only if the job of that very action ended well: not
\* for the completion an older job left in the status file, not for a job whose
\* id was never learnt, and for a release only on the version asked for
\* (same_job and the version check in resume).  It says failed, even before the
\* job has ended, only if that job ends without success; only a rollback that
\* goes on to GitHub when its retained images fail may still succeed.
OwnVerdict ==
  \A a \in Uncrossed : /\ shown[a] = "complete" => outcome[a] = "done"
                       /\ shown[a] = "failed" /\ a \notin retried => outcome[a] # "done"

\* What still owes the message of an action its outcome: the handoff file, a
\* watcher, or execute itself.
Carried(a) == (\E k \in Kinds : a \in Owed(k)) \/ exec[a] = "recorded"

\* From the agent's acceptance to the final panel an action is carried, wherever
\* the bot is stopped (stage before the request, accepted, clear last).  So the
\* panel promises it: "This message will be updated after the replacement
\* services return."
AcceptedIsCarried == \A a \in (accepted \ reported) \ crossed : Carried(a)

\* A returned host is told once: by the message or by the scheduler, not both
\* (the handoff file hides it, host-reboot-last-online.json remembers it), unless
\* the bot was restarted between telling and writing that down.
HostToldOnce == \A a \in Uncrossed \ torn : announced[a] <= 1

\* A message that showed an error is left alone: no file and no watcher brings a
\* verdict to it after the next restart (clear in execute's exception handler).
RefusedIsDropped == \A a \in Uncrossed : shown[a] = "error" => ~Carried(a)

\* Every accepted action gets a final report although the bot may restart
\* anywhere (MaxRestarts is a bound of the model, not of the code).  The sets only
\* grow, so this says it of each action.
AcceptedGetsReport == <>[](accepted \ crossed \subseteq reported)
=============================================================================
