------------------------------ MODULE AutoUpdate ------------------------------
(***************************************************************************)
(* The scheduler of the bot: Scheduler.tick with its settings, its state   *)
(* file and the agent's release job, while administrators change the       *)
(* schedule, start jobs of their own and read the post-update notice, and  *)
(* while the job restarts the bot.                                         *)
(*                                                                         *)
(* A tick reads settings, clock and state file once and then waits for     *)
(* up to four answers; a step runs from one await to the next, except that *)
(* the bot may be killed between the two files a tick writes (DiesHalfway).*)
(***************************************************************************)
EXTENDS BotSettings, Sequences

CONSTANTS
  Versions,     \* releases in their order, numbers
  Sort,         \* Sort[v]: "full", "hotfix" of the release before it, or "pre"
  Sundays,      \* days that are Sundays
  None,         \* no key, no version, no pending update
  Lossy,        \* may an accepted job be lost on its way to the worker?
  MaxDays, MaxJobs, MaxRestarts, MaxEdits   \* bounds

ASSUME BoundsAssumption ==
  /\ MaxDays \in Nat \ {0}
  /\ MaxJobs \in Nat /\ MaxRestarts \in Nat /\ MaxEdits \in Nat

\* One of the releases is the first stable one.
ASSUME VersionsAssumption ==
  /\ Versions \subseteq Nat /\ Sort \in [Versions -> {"full", "hotfix", "pre"}]
  /\ \E v \in Versions : Sort[v] # "pre" /\ \A w \in Versions : Sort[w] # "pre" => v <= w

VARIABLES
  clock,     \* the day, and the window of it: for updates, or for the report
  published, \* releases on GitHub
  release,   \* bot-release.json, as the agent reports it
  sched,     \* weekly-report-state.json
  tick,      \* the tick under way: its place and what it has read
  reply,     \* a slash command that took the notice and has yet to show it
  restarts, edits,
  auto,      \* history: automatic jobs, by their number
  afterOff   \* history: automatic jobs since updates were switched off

vars == <<settings, clock, published, release, sched, tick, reply, restarts, edits,
          auto, afterOff>>
history == <<auto, afterOff>>
idleBot == <<reply, restarts, edits>>

Jobs == 1..MaxJobs
Days == 1..MaxDays
Key(s, day, v) == [day |-> day, mode |-> s.mode, channel |-> s.channel, version |-> v]

Keys     == [day : Days, mode : Modes, channel : Channels, version : Versions]
Pendings == [key : Keys, job : Jobs, version : Versions]
Notices  == [job : Jobs, version : Versions]

ASSUME NoneAssumption == None \notin Jobs \cup Keys

Largest(S) == CHOOSE v \in S : \A w \in S : w <= v
Visible(channel) == {v \in published : Sort[v] # "pre" \/ channel = "beta"}
Latest(channel)  == Largest(Visible(channel))

\* The windows of a day; in the second no update is due.
Slots == {"update", "report"}

\* What a tick keeps of the settings it has read.
Schedules   == [mode : Modes, channel : Channels, confirmed : BOOLEAN]
Schedule(s) == [mode |-> s.mode, channel |-> s.channel, confirmed |-> s.confirmed]

NoTick == [at |-> "idle", s |-> Schedule(EmptyFile), day |-> 1, slot |-> "report",
           job |-> None, key |-> None, version |-> None]

Places == {"idle", "pending", "fetch", "post", "record", "report", "reported"}

Init ==
  /\ settings = Normalise(EmptyFile)
  /\ clock = [day |-> 1, slot |-> "update"]
  /\ published = {Largest({v \in Versions : Sort[v] # "pre" /\
                           \A w \in Versions : Sort[w] # "pre" => v <= w})}
  /\ release = [job |-> None, automatic |-> FALSE, phase |-> "idle",
                current |-> Latest("stable"), target |-> None]
  /\ sched = [attempt |-> None, completion |-> None, failure |-> None, pending |-> None,
              report |-> None]
  /\ tick = NoTick /\ reply = None /\ restarts = 0 /\ edits = 0
  /\ auto = <<>> /\ afterOff = 0

Phases == {"idle", "busy", "complete", "failed"}

Ticks == [at : Places, s : Schedules, day : Days, slot : Slots, job : Jobs \cup {None},
          key : Keys \cup {None}, version : Versions \cup {None}]

StateFiles == [attempt : Keys \cup {None}, completion : Keys \cup {None},
               failure : Keys \cup {None}, pending : Pendings \cup {None},
               report : Days \cup {None}]

\* What the history keeps of an automatic job.
Runs == [key : Keys, target : Versions, edits : Nat, outcome : {"none", "complete", "failed"}]

SchedulerType ==
  /\ clock \in [day : Days, slot : Slots]
  /\ published \subseteq Versions
  /\ release \in [job : Jobs \cup {None}, automatic : BOOLEAN, phase : Phases,
                  current : Versions, target : Versions \cup {None}]
  /\ sched \in StateFiles
  /\ tick \in Ticks
  /\ reply \in Jobs \cup {None}
  /\ auto \in Seq(Runs)
  /\ Len(auto) <= MaxJobs
  /\ restarts \in Nat /\ edits \in Nat /\ afterOff \in Nat

TypeOK ==
  SettingsType /\ (Readable => settings.notice \in Notices \cup {NoNotice}) /\ SchedulerType

-----------------------------------------------------------------------------
(* Scheduler.tick.                                                         *)

\* allowed_release, with update_available, asset_verified and update_supported
\* as the agent found them: a release there is newer and verified.
Allowed(s, current, latest, sunday) ==
  /\ latest > current
  /\ IF s.channel = "beta" THEN s.confirmed
     ELSE /\ Sort[latest] # "pre"
          /\ LET hotfix == /\ Sort[current] # "pre"
                           /\ \A v \in (current + 1)..latest : Sort[v] = "hotfix"
             IN \/ s.mode = "daily"
                \/ s.mode = "hotfix" /\ hotfix
                \/ s.mode = "weekly" /\ (hotfix \/ sunday)

\* What a reader of the settings panel takes for switched off.
SwitchedOff(s) == s.mode = "off" /\ ~s.confirmed

Due(t) ==
  /\ t.s.mode # "off" \/ (t.s.channel = "beta" /\ t.s.confirmed)
  /\ t.slot = "update"

Sunday(t) == t.day \in Sundays

\* What a tick still has to do once updates are dealt with.
Rest(t, state) ==
  IF t.slot = "report" /\ Sunday(t) /\ state.report # t.day
  THEN [t EXCEPT !.at = "report"] ELSE NoTick

\* Wrong on purpose: settings are read when the bot starts and kept.
BeginStale ==
  /\ tick.at = "idle" /\ Readable
  /\ LET t == [NoTick EXCEPT !.s = [Schedule(Saved) EXCEPT !.mode = EnvMode], !.day = clock.day,
                             !.slot = clock.slot] IN
     tick' = IF sched.pending # None THEN [t EXCEPT !.at = "pending"]
             ELSE IF Due(t) THEN [t EXCEPT !.at = "fetch"] ELSE Rest(t, sched)
  /\ UNCHANGED <<settings, clock, published, release, sched, idleBot, history>>

\* Wrong on purpose: the pending update is only looked at when one is due.
BeginWhenDue ==
  /\ tick.at = "idle" /\ Readable
  /\ LET t == [NoTick EXCEPT !.s = Schedule(Saved), !.day = clock.day, !.slot = clock.slot] IN
     tick' = IF ~Due(t) THEN Rest(t, sched)
             ELSE [t EXCEPT !.at = IF sched.pending # None THEN "pending" ELSE "fetch"]
  /\ UNCHANGED <<settings, clock, published, release, sched, idleBot, history>>

\* One tick at a time (busy).
Begin ==
  /\ tick.at = "idle" /\ Readable
  /\ LET t == [NoTick EXCEPT !.s = Schedule(Saved), !.day = clock.day, !.slot = clock.slot] IN
     tick' = IF sched.pending # None THEN [t EXCEPT !.at = "pending"]
             ELSE IF Due(t) THEN [t EXCEPT !.at = "fetch"] ELSE Rest(t, sched)
  /\ UNCHANGED <<settings, clock, published, release, sched, idleBot, history>>

\* Wrong on purpose: the attempt is not written down.
OfferUnmarked(t, state) ==
  LET latest == Latest(t.s.channel) IN
  IF /\ Due(t) /\ state.pending = None
     /\ release.phase # "busy"
     /\ Allowed(t.s, release.current, latest, Sunday(t))
  THEN /\ sched' = state
       /\ tick' = [t EXCEPT !.at = "post", !.key = Key(t.s, t.day, latest), !.version = latest]
  ELSE sched' = state /\ tick' = Rest(t, state)

\* The part that starts an update, on the answer just received and without a
\* pending update: the attempt is on disk before the request leaves.
Offer(t, state) ==
  LET latest == Latest(t.s.channel)
      key    == Key(t.s, t.day, latest) IN
  IF /\ Due(t) /\ state.pending = None
     /\ key \notin {state.attempt, state.completion}
     /\ release.phase # "busy"
     /\ Allowed(t.s, release.current, latest, Sunday(t))
  THEN /\ sched' = [state EXCEPT !.attempt = key]
       /\ tick' = [t EXCEPT !.at = "post", !.key = key, !.version = latest]
  ELSE sched' = state /\ tick' = Rest(t, state)

\* Wrong on purpose: any finished job settles the pending one.
FinishedAny == release.phase \in {"complete", "failed"}

Finished ==
  /\ release.job = sched.pending.job /\ release.automatic
  /\ release.phase \in {"complete", "failed"}

Reached == release.phase = "complete" /\ release.current = sched.pending.version

Notice == [job |-> sched.pending.job, version |-> release.current]

Settled ==
  [sched EXCEPT !.completion = IF Reached THEN sched.pending.key ELSE @,
                !.failure = IF Reached THEN @ ELSE sched.pending.key,
                !.pending = None]

\* The status of the pending job has arrived: a success is written to the
\* settings, then the verdict to the state file, then updates are considered.
CheckPending ==
  /\ tick.at = "pending"
  /\ IF Finished THEN Offer(tick, Settled) ELSE Offer(tick, sched)
  /\ IF Finished /\ Reached THEN SaveNotice(Notice) ELSE UNCHANGED settings
  /\ UNCHANGED <<clock, published, release, idleBot, history>>

Fetch ==
  /\ tick.at = "fetch"
  /\ Offer(tick, sched)
  /\ UNCHANGED <<settings, clock, published, release, idleBot, history>>

\* The agent looks for the latest release itself, and may find a newer one.
\* Without an update to it there is nothing to accept.
PostAccepted ==
  LET target == Latest(tick.s.channel) IN
  /\ tick.at = "post" /\ release.phase # "busy" /\ Len(auto) < MaxJobs
  /\ target > release.current
  /\ auto' = Append(auto, [key |-> tick.key, target |-> target, edits |-> edits,
                           outcome |-> "none"])
  /\ afterOff' = IF SwitchedOff(Saved) THEN afterOff + 1 ELSE 0
  /\ \/ release' = [job |-> Len(auto) + 1, automatic |-> TRUE, phase |-> "busy",
                    current |-> release.current, target |-> target]
     \/ Lossy /\ UNCHANGED release
  /\ tick' = [tick EXCEPT !.at = "record", !.job = Len(auto) + 1]
  /\ UNCHANGED <<settings, clock, published, sched, idleBot>>

Record ==
  /\ tick.at = "record"
  /\ LET state == [sched EXCEPT !.pending = [key |-> tick.key, job |-> tick.job,
                                             version |-> tick.version]] IN
     sched' = state /\ tick' = Rest(tick, state)
  /\ UNCHANGED <<settings, clock, published, release, idleBot, history>>

\* Scheduler.weekly posts its card, after requests of its own.
SendReport ==
  /\ tick.at = "report"
  /\ tick' = [tick EXCEPT !.at = "reported"]
  /\ UNCHANGED <<settings, clock, published, release, sched, idleBot, history>>

NoteReport ==
  /\ tick.at = "reported"
  /\ sched' = [sched EXCEPT !.report = tick.day]
  /\ tick' = NoTick
  /\ UNCHANGED <<settings, clock, published, release, idleBot, history>>

\* A request fails, is refused or its answer is lost: the tick ends there.  An
\* unanswered report counts as not sent.
TickFails ==
  /\ tick.at \notin {"idle", "record"}
  /\ tick' = NoTick
  /\ UNCHANGED <<settings, clock, published, release, sched, idleBot, history>>

-----------------------------------------------------------------------------
(* Administrators, the release job, GitHub, the clock and restarts.        *)

\* A schedule is changed in the settings panel.
Edit ==
  /\ edits < MaxEdits
  /\ \/ \E m \in Modes : SetMode(m)
     \/ JoinBeta
     \/ LeaveBeta
  /\ edits' = edits + 1
  /\ afterOff' = IF SwitchedOff(settings') /\ SwitchedOff(Saved) THEN afterOff ELSE 0
  /\ UNCHANGED <<clock, published, release, sched, tick, reply, restarts, auto>>

\* show(notice=True): the notice is taken, then the message is edited.
TakeNotice ==
  /\ reply = None /\ Readable /\ Saved.notice # NoNotice
  /\ ConsumeNotice
  /\ reply' = Saved.notice.job
  /\ UNCHANGED <<clock, published, release, sched, tick, restarts, edits, history>>

ShowNotice ==
  /\ reply # None
  /\ reply' = None
  /\ UNCHANGED <<settings, clock, published, release, sched, tick, restarts, edits, history>>

\* An update, rollback or recovery an administrator asked for.
ManualJob ==
  /\ edits < MaxEdits /\ release.phase # "busy"
  /\ edits' = edits + 1
  /\ \E v \in published :
       release' = [job |-> None, automatic |-> FALSE, phase |-> "busy",
                   current |-> release.current, target |-> v]
  /\ UNCHANGED <<settings, clock, published, sched, tick, reply, restarts, history>>

JobEnds ==
  /\ release.phase = "busy"
  /\ \E good \in BOOLEAN :
       /\ release' = [release EXCEPT !.phase = IF good THEN "complete" ELSE "failed",
                                     !.current = IF good THEN release.target ELSE @]
       /\ auto' = IF release.job = None THEN auto
                  ELSE [auto EXCEPT ![release.job].outcome =
                          IF good THEN "complete" ELSE "failed"]
  /\ UNCHANGED <<settings, clock, published, sched, tick, idleBot, afterOff>>

Publish ==
  /\ \E v \in Versions \ published :
       /\ \A w \in Versions \ published : v <= w
       /\ published' = published \cup {v}
  /\ UNCHANGED <<settings, clock, release, sched, tick, idleBot, history>>

Passes ==
  /\ \/ clock.slot = "update" /\ clock' = [clock EXCEPT !.slot = "report"]
     \/ /\ clock.slot = "report" /\ clock.day < MaxDays
        /\ clock' = [day |-> clock.day + 1, slot |-> "update"]
  /\ UNCHANGED <<settings, published, release, sched, tick, idleBot, history>>

Restart ==
  /\ restarts < MaxRestarts
  /\ restarts' = restarts + 1
  /\ tick' = NoTick
  /\ reply' = None
  /\ UNCHANGED <<settings, clock, published, release, sched, edits, history>>

\* Killed between the settings and the state file of CheckPending.
DiesHalfway ==
  /\ restarts < MaxRestarts
  /\ tick.at = "pending" /\ Finished /\ Reached
  /\ SaveNotice(Notice)
  /\ restarts' = restarts + 1
  /\ tick' = NoTick
  /\ reply' = None
  /\ UNCHANGED <<clock, published, release, sched, edits, history>>

TickStep ==
  \/ Begin \/ CheckPending \/ Fetch \/ PostAccepted \/ Record
  \/ SendReport \/ NoteReport \/ TickFails

Next ==
  \/ TickStep \/ Edit \/ TakeNotice \/ ShowNotice \/ ManualJob \/ JobEnds
  \/ Publish \/ Passes \/ Restart \/ DiesHalfway

Spec == Init /\ [][Next]_vars

\* The scheduler ticks every thirty seconds, the agent answers it again and
\* again, and a release job ends (JobSettles of ControlRelease).
Fairness == WF_vars(TickStep) /\ SF_vars(CheckPending) /\ WF_vars(JobEnds)

FairSpec == Spec /\ Fairness

-----------------------------------------------------------------------------
(* Properties.                                                             *)

\* One schedule queues one version once: two automatic jobs of the same day,
\* mode, channel and version have a change by an administrator between them,
\* whatever tick failed or was killed after the request (lastAutoAttempt).
QueuedOnce ==
  \A i, j \in 1..Len(auto) :
    auto[i].key = auto[j].key /\ auto[i].edits = auto[j].edits => i = j

\* While automatic updates are switched off at most the tick that had read the
\* settings before still queues a job.
OptOutIsPrompt == afterOff <= 1

\* The notice in the settings tells of an automatic job that did complete, and
\* of the version it installed.
NoticeIsTrue ==
  LET n == settings.notice IN
  n # NoNotice => auto[n.job].outcome = "complete" /\ auto[n.job].target = n.version

\* A pending update whose job has ended is settled by a later tick, as long as
\* the status still shows that job.
CompletionNoticed ==
  (sched.pending # None /\ Finished)
     ~> (sched.pending = None \/ release.job # sched.pending.job)

\* README.md: "The scheduler records a pending job and reports completion".  A
\* pending update that another job's status hides is never settled, and no
\* automatic update is queued again.
PendingIsSettled == (sched.pending # None) ~> (sched.pending = None)
=============================================================================
