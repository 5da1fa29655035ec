--------------------------- MODULE AutoUpdateProofs ---------------------------
(***************************************************************************)
(* Theorems about the scheduler, for every set of releases and any number  *)
(* of days, jobs, edits and restarts.                                      *)
(***************************************************************************)
EXTENDS AutoUpdate, TLAPS

Files == [ids : [IdentityKinds -> SUBSET Users], disabled : [IdentityKinds -> SUBSET Users],
          channel : Channels, mode : Modes, confirmed : BOOLEAN, notice : Notices \cup {NoNotice}]

\* Holds of both channels all the time, so that Latest names a release.
HasLargest(S) == \E v \in S : \A w \in S : w <= v

\* Where a tick that is about to act has come from.
TickInv ==
  /\ tick.at = "pending" => sched.pending \in Pendings
  /\ tick.at \in {"fetch", "post"} => Due(tick)
  /\ tick.at \in {"post", "record"} => tick.version \in Versions /\ tick.key \in Keys
  /\ tick.at = "post" => /\ sched.attempt = tick.key
                         /\ tick.key = Key(tick.s, tick.day, tick.version)
  /\ tick.at = "record" => tick.job \in 1..Len(auto)
  /\ tick.at # "idle" => tick.day <= clock.day

Shape ==
  /\ settings \in Files /\ SchedulerType
  /\ \A c \in Channels : HasLargest(Visible(c))
  /\ TickInv

\* The agent's status tells of the automatic job it names, and the notice of a
\* job that ended well.
JobsInv ==
  /\ release.job # None =>
       /\ release.job <= Len(auto)
       /\ release.target = auto[release.job].target
       /\ release.phase = "busy" => auto[release.job].outcome = "none"
       /\ release.phase = "complete" => /\ auto[release.job].outcome = "complete"
                                        /\ release.current = release.target
  /\ release.phase = "busy" => release.target \in Versions
  /\ settings.notice # NoNotice => settings.notice.job <= Len(auto)
  /\ NoticeIsTrue

\* Only a tick that read the settings before can act on a schedule switched off.
OffInv ==
  /\ OptOutIsPrompt
  /\ afterOff # 0 =>
       /\ SwitchedOff(settings)
       /\ tick.at \in {"pending", "fetch", "post"} => SwitchedOff(tick.s)

\* Keys of one schedule follow one another by day and version.
UpTo(k, l) == k.day < l.day \/ (k.day = l.day /\ k.version <= l.version)

\* The jobs queued since the last change by an administrator.
Recent == {i \in 1..Len(auto) : auto[i].edits = edits}

\* A tick yet to act that has read another schedule than the one in the file.
Behind ==
  /\ tick.at \in {"pending", "fetch", "post"}
  /\ tick.s.mode # settings.mode \/ tick.s.channel # settings.channel

\* What the attempt on disk says of the jobs queued since the last change.
QueueInv ==
  /\ \A i \in 1..Len(auto) : auto[i].edits <= edits
  /\ sched.attempt \in Keys =>
       /\ sched.attempt.day <= clock.day
       /\ tick.at # "idle" => sched.attempt.day <= tick.day
       /\ \A c \in Channels : sched.attempt.channel = c => sched.attempt.version <= Latest(c)
  /\ Behind => Recent = {}
  /\ \A i \in Recent :
       (auto[i].key.mode = settings.mode /\ auto[i].key.channel = settings.channel) =>
         /\ sched.attempt \in Keys
         /\ sched.attempt.mode = settings.mode /\ sched.attempt.channel = settings.channel
         /\ UpTo(auto[i].key, sched.attempt)
  /\ tick.at = "post" => \A i \in Recent : auto[i].key # tick.key
  /\ QueuedOnce

Inv == Shape /\ JobsInv /\ OffInv /\ QueueInv

-----------------------------------------------------------------------------
(* The settings, the releases and the history.                             *)

\* Normalise leaves the schedule and the notice alone.
LEMMA NormaliseKeeps ==
  ASSUME NEW raw \in Files
  PROVE  /\ Normalise(raw) \in Files
         /\ Normalise(raw).mode = raw.mode /\ Normalise(raw).channel = raw.channel
         /\ Normalise(raw).confirmed = raw.confirmed /\ Normalise(raw).notice = raw.notice
<1> DEFINE own(k) == IF k = "superuserIds" THEN {Owner} ELSE {}
           denied == [k \in IdentityKinds |-> Denied(raw, k)]
           ids == [k \in IdentityKinds |->
                     (EnvGrants[k] \cup own(k) \cup raw.ids[k]) \ Denied(raw, k)]
<1>1. denied \in [IdentityKinds -> SUBSET Users]
  BY DEF Denied, Files
<1>2. ids \in [IdentityKinds -> SUBSET Users]
  BY OwnerAssumption, GrantsAssumption DEF Denied, Files
<1>3. Normalise(raw) = [raw EXCEPT !.disabled = denied, !.ids = ids]
  BY DEF Normalise
<1> HIDE DEF denied, ids
<1> QED BY <1>1, <1>2, <1>3 DEF Files

\* The file the environment gives.
LEMMA EmptyFileKeeps ==
  EmptyFile \in Files /\ EmptyFile.notice = NoNotice
BY ScheduleAssumption DEF EmptyFile, Files, IdentityKinds

\* Latest is the newest release of a channel.
LEMMA LatestIs ==
  ASSUME NEW c, HasLargest(Visible(c))
  PROVE  /\ Latest(c) \in Visible(c) /\ Latest(c) \in published
         /\ \A w \in Visible(c) : w <= Latest(c)
<1> DEFINE S == Visible(c)
<1>1. PICK v \in S : \A w \in S : w <= v
  BY DEF HasLargest
<1>2. Latest(c) \in S /\ \A w \in S : w <= Latest(c)
  BY <1>1 DEF Latest, Largest
<1> QED BY <1>2 DEF Visible

\* A new release moves Latest on or leaves it.
LEMMA PublishMonotone ==
  ASSUME NEW c \in Channels, HasLargest(Visible(c)), published \subseteq Versions, Publish
  PROVE  HasLargest(Visible(c))' /\ Latest(c) <= Latest(c)'
<1>1. PICK v \in Versions : published' = published \cup {v}
  BY DEF Publish
<1>2. Latest(c) \in Visible(c) /\ \A w \in Visible(c) : w <= Latest(c)
  BY LatestIs
<1>3. Visible(c) \subseteq Nat /\ v \in Nat
  BY VersionsAssumption DEF Visible
<1>4. Visible(c)' = Visible(c) \/ Visible(c)' = Visible(c) \cup {v}
  BY <1>1 DEF Visible
<1>5. HasLargest(Visible(c)')
  <2>1. CASE Visible(c)' = Visible(c) \cup {v} /\ v > Latest(c)
    <3>1. \A w \in Visible(c)' : w <= v
      BY <2>1, <1>2, <1>3
    <3> QED BY <3>1, <2>1 DEF HasLargest
  <2>2. CASE ~(Visible(c)' = Visible(c) \cup {v} /\ v > Latest(c))
    <3>1. Latest(c) \in Visible(c)' /\ \A w \in Visible(c)' : w <= Latest(c)
      BY <2>2, <1>2, <1>3, <1>4
    <3> QED BY <3>1 DEF HasLargest
  <2> QED BY <2>1, <2>2
<1>6. \E x \in Visible(c)' : \A w \in Visible(c)' : w <= x
  BY <1>5 DEF HasLargest
<1>7. Latest(c)' \in Visible(c)' /\ \A w \in Visible(c)' : w <= Latest(c)'
  BY <1>6 DEF Latest, Largest
<1>8. Latest(c) \in Visible(c)'
  BY <1>2, <1>4
<1> QED BY <1>5, <1>7, <1>8

\* Days, jobs and versions are numbers.
LEMMA Numbers ==
  /\ \A d \in Days : d \in Nat
  /\ \A j \in Jobs : j \in Nat /\ 1 <= j
  /\ \A v \in Versions : v \in Nat
BY BoundsAssumption, VersionsAssumption DEF Days, Jobs

LEMMA KeysAre ==
  ASSUME NEW k \in Keys
  PROVE  k.day \in Nat /\ k.version \in Nat
<1>1. k.day \in Days /\ k.version \in Versions
  BY DEF Keys
<1> QED BY <1>1, Numbers

\* One more job in the history.
LEMMA AppendFacts ==
  ASSUME NEW T, NEW s \in Seq(T), NEW r \in T
  PROVE  /\ Append(s, r) \in Seq(T) /\ Len(Append(s, r)) = Len(s) + 1
         /\ \A i \in 1..Len(s) : Append(s, r)[i] = s[i]
         /\ Append(s, r)[Len(s) + 1] = r
OBVIOUS

LEMMA ShapeTypes == Shape => TypeOK
BY DEF Shape, TypeOK, SettingsType, Files, EmptyFile, Readable

\* A tick at rest.
LEMMA NoTickRests ==
  NoTick \in Ticks /\ NoTick.at = "idle"
BY EmptyFileKeeps, BoundsAssumption
   DEF NoTick, Ticks, Places, Slots, Days, Schedule, Schedules, Files

-----------------------------------------------------------------------------
(* The initial state.                                                      *)

LEMMA InitInv == Init => Inv
<1> SUFFICES ASSUME Init PROVE Inv
  OBVIOUS
<1> DEFINE firsts == {v \in Versions : Sort[v] # "pre" /\
                       \A w \in Versions : Sort[w] # "pre" => v <= w}
<1>1. PICK first \in Versions : firsts = {first} /\ Sort[first] # "pre"
  <2>1. PICK v \in firsts : TRUE
    BY VersionsAssumption
  <2>2. \A w \in firsts : w = v
    BY <2>1, VersionsAssumption
  <2> QED BY <2>1, <2>2
<1>2. Largest(firsts) = first
  BY <1>1, VersionsAssumption DEF Largest
<1>3. published = {first}
  BY <1>2 DEF Init
<1>4. \A c \in Channels : Visible(c) = {first}
  BY <1>1, <1>3 DEF Visible
<1>5. \A c \in Channels : HasLargest(Visible(c))
  BY <1>4, VersionsAssumption DEF HasLargest
<1>6. Latest("stable") = first
  BY <1>3, <1>5, LatestIs DEF Channels
<1>7. settings \in Files /\ settings.notice = NoNotice
  BY NormaliseKeeps, EmptyFileKeeps DEF Init
<1>8. Shape
  <2>1. clock \in [day : Days, slot : Slots] /\ published \subseteq Versions
    BY <1>3, BoundsAssumption DEF Init, Days, Slots
  <2>2. release \in [job : Jobs \cup {None}, automatic : BOOLEAN, phase : Phases,
                     current : Versions, target : Versions \cup {None}]
    BY <1>6 DEF Init, Phases
  <2>3. sched \in StateFiles
    BY DEF Init, StateFiles
  <2>4. tick \in Ticks /\ tick.at = "idle"
    BY NoTickRests DEF Init
  <2>5. auto \in Seq(Runs) /\ Len(auto) <= MaxJobs
    BY BoundsAssumption DEF Init
  <2>6. SchedulerType
    BY <2>1, <2>2, <2>3, <2>4, <2>5 DEF SchedulerType, Init, Runs
  <2> QED BY <2>4, <2>6, <1>5, <1>7 DEF Shape, TickInv
<1>9. JobsInv
  BY <1>7 DEF Init, JobsInv, NoticeIsTrue
<1>10. OffInv
  BY DEF Init, OffInv, OptOutIsPrompt
<1>11. QueueInv
  <2>1. auto = <<>> /\ tick.at = "idle" /\ sched.attempt = None
    BY DEF Init, NoTick
  <2>2. CASE None \notin Keys
    BY <2>1, <2>2 DEF QueueInv, Recent, Behind, QueuedOnce
  <2> QED BY <2>2, NoneAssumption
<1> QED BY <1>8, <1>9, <1>10, <1>11 DEF Inv

-----------------------------------------------------------------------------
(* Steps that touch neither the settings nor the history.                  *)

LEMMA SameReleases ==
  ASSUME published' = published
  PROVE  \A c \in Channels : Visible(c)' = Visible(c) /\ Latest(c)' = Latest(c)
BY DEF Visible, Latest

\* The saved settings are those of the file, the lists of users aside.
LEMMA SavedKeeps ==
  ASSUME settings \in Files
  PROVE  /\ Saved \in Files /\ Saved.mode = settings.mode /\ Saved.channel = settings.channel
         /\ Saved.confirmed = settings.confirmed /\ Saved.notice = settings.notice
         /\ Schedule(Saved) \in Schedules
<1>1. Saved \in Files
  BY NormaliseKeeps DEF Saved
<1> QED BY <1>1, NormaliseKeeps DEF Saved, Schedule, Schedules, Files

\* A tick that has not decided anything yet, or has nothing left to do.
LEMMA TickAlone ==
  ASSUME Inv, UNCHANGED <<settings, clock, published, release, sched, reply, restarts, edits,
                          auto, afterOff>>,
         tick' \in Ticks,
         tick'.at \notin {"post", "record"}, TickInv',
         tick'.at # "idle" => (sched.attempt \in Keys => sched.attempt.day <= tick'.day),
         tick'.at \in {"pending", "fetch"} =>
            /\ tick'.s.mode = settings.mode /\ tick'.s.channel = settings.channel
            /\ tick'.s.confirmed = settings.confirmed
  PROVE  Inv'
<1>1. Shape'
  BY SameReleases DEF Inv, Shape, SchedulerType, HasLargest
<1>2. JobsInv'
  BY DEF Inv, JobsInv, NoticeIsTrue
<1>3. OffInv'
  BY DEF Inv, OffInv, OptOutIsPrompt, SwitchedOff
<1>4. QueueInv'
  <2>1. Recent' = Recent
    BY DEF Recent
  <2>2. ~Behind'
    BY DEF Behind
  <2>3. QueuedOnce'
    BY DEF Inv, QueueInv, QueuedOnce
  <2>4. \A i \in 1..Len(auto)' : auto[i]'.edits <= edits'
    BY DEF Inv, QueueInv
  <2> QED BY <2>1, <2>2, <2>3, <2>4, SameReleases DEF Inv, QueueInv
<1> QED BY <1>1, <1>2, <1>3, <1>4 DEF Inv

LEMMA BeginStep ==
  ASSUME Inv, Begin
  PROVE  Inv'
<1> DEFINE t == [NoTick EXCEPT !.s = Schedule(Saved), !.day = clock.day, !.slot = clock.slot]
<1>1. settings \in Files /\ clock \in [day : Days, slot : Slots]
  BY DEF Inv, Shape, SchedulerType
<1>2. /\ t \in Ticks
      /\ t.day = clock.day /\ t.at = "idle" /\ t.s = Schedule(Saved)
  BY <1>1, SavedKeeps, NoTickRests DEF NoTick, Ticks, Places
<1>3. NoTick.at = "idle" /\ NoTick \in Ticks
  BY NoTickRests
<1> HIDE DEF t
<1>4. \/ sched.pending # None /\ tick' = [t EXCEPT !.at = "pending"]
      \/ Due(t) /\ tick' = [t EXCEPT !.at = "fetch"]
      \/ tick' = [t EXCEPT !.at = "report"]
      \/ tick' = NoTick
  BY DEF Begin, Rest, t
<1>5. /\ tick' \in Ticks
      /\ tick'.at \in {"idle", "pending", "fetch", "report"}
      /\ tick'.at # "idle" => tick'.day = clock.day /\ tick'.s = Schedule(Saved)
      /\ tick'.at = "pending" => sched.pending # None
  BY <1>2, <1>3, <1>4 DEF Ticks, Places
<1>6. tick'.at = "fetch" => Due(tick')
  BY <1>2, <1>3, <1>4 DEF Due, Ticks
<1>7. UNCHANGED <<settings, clock, published, release, sched, reply, restarts, edits,
                  auto, afterOff>>
  BY DEF Begin, idleBot, history
<1>8. TickInv'
  <2>1. sched \in StateFiles
    BY DEF Inv, Shape, SchedulerType
  <2>2. Due(tick)' <=> Due(tick')
    BY DEF Due
  <2> QED BY <1>1, <1>5, <1>6, <1>7, <2>1, <2>2 DEF TickInv, StateFiles, Days
<1>9. sched.attempt \in Keys => sched.attempt.day <= clock.day
  BY DEF Inv, QueueInv
<1>10. tick'.at \in {"pending", "fetch"} =>
            /\ tick'.s.mode = settings.mode /\ tick'.s.channel = settings.channel
            /\ tick'.s.confirmed = settings.confirmed
  BY <1>1, <1>5, SavedKeeps DEF Schedule
<1> QED BY <1>5, <1>7, <1>8, <1>9, <1>10, TickAlone

LEMMA TickEndsStep ==
  ASSUME Inv, TickFails \/ SendReport
  PROVE  Inv'
<1>1. NoTick.at = "idle" /\ NoTick \in Ticks
  BY NoTickRests
<1>2. tick' = NoTick \/ (tick.at = "report" /\ tick' = [tick EXCEPT !.at = "reported"])
  BY DEF TickFails, SendReport
<1>3. tick \in Ticks
  BY DEF Inv, Shape, SchedulerType
<1>4. UNCHANGED <<settings, clock, published, release, sched, reply, restarts, edits,
                  auto, afterOff>>
  BY DEF TickFails, SendReport, idleBot, history
<1>5. /\ tick' \in Ticks
      /\ tick'.at \in {"idle", "reported"}
      /\ tick'.at = "reported" => tick'.day = tick.day /\ tick.at # "idle"
  BY <1>1, <1>2, <1>3 DEF Ticks, Places
<1>6. TickInv'
  BY <1>4, <1>5 DEF Inv, Shape, TickInv
<1>7. tick'.at # "idle" => (sched.attempt \in Keys => sched.attempt.day <= tick'.day)
  BY <1>5 DEF Inv, QueueInv
<1> QED BY <1>4, <1>5, <1>6, <1>7, TickAlone

-----------------------------------------------------------------------------
(* Restarts, clock, releases and the release job.                          *)

\* Nothing the invariant speaks of changes but the tick, which ends.
LEMMA TickStops ==
  ASSUME Inv, tick' = NoTick, reply' \in Jobs \cup {None}, restarts' \in Nat,
         UNCHANGED <<settings, clock, published, release, edits, auto, afterOff>>,
         sched' \in StateFiles, sched'.pending = sched.pending, sched'.attempt = sched.attempt
  PROVE  Inv'
<1>1. tick' \in Ticks /\ tick'.at = "idle"
  BY NoTickRests
<1>2. Shape'
  BY <1>1, SameReleases DEF Inv, Shape, SchedulerType, HasLargest, TickInv
<1>3. JobsInv'
  BY DEF Inv, JobsInv, NoticeIsTrue
<1>4. OffInv'
  BY <1>1 DEF Inv, OffInv, OptOutIsPrompt, SwitchedOff
<1>5. QueueInv'
  <2>1. Recent' = Recent /\ ~Behind'
    BY <1>1 DEF Recent, Behind
  <2>2. QueuedOnce' /\ \A i \in 1..Len(auto)' : auto[i]'.edits <= edits'
    BY DEF Inv, QueueInv, QueuedOnce
  <2> QED BY <1>1, <2>1, <2>2, SameReleases DEF Inv, QueueInv
<1> QED BY <1>2, <1>3, <1>4, <1>5 DEF Inv

LEMMA RestartStep ==
  ASSUME Inv, Restart
  PROVE  Inv'
<1>1. sched \in StateFiles /\ restarts \in Nat
  BY DEF Inv, Shape, SchedulerType
<1> QED BY <1>1, TickStops DEF Restart, history

LEMMA NoteReportStep ==
  ASSUME Inv, NoteReport
  PROVE  Inv'
<1>1. sched \in StateFiles /\ tick.day \in Days
  BY DEF Inv, Shape, SchedulerType, Ticks
<1>2. /\ sched' \in StateFiles /\ sched'.pending = sched.pending
      /\ sched'.attempt = sched.attempt
  BY <1>1 DEF NoteReport, StateFiles
<1> QED BY <1>2, TickStops DEF NoteReport, Inv, Shape, SchedulerType, idleBot, history

\* A step that leaves settings, state file, tick and history alone.
LEMMA Elsewhere ==
  ASSUME Inv, UNCHANGED <<settings, sched, tick, edits, auto, afterOff>>,
         reply' \in Jobs \cup {None}, restarts' \in Nat,
         clock' \in [day : Days, slot : Slots], clock.day <= clock'.day,
         published' \subseteq Versions, release' = release,
         \A c \in Channels : HasLargest(Visible(c))' /\ Latest(c) <= Latest(c)'
  PROVE  Inv'
<1>1. /\ clock.day \in Nat /\ clock'.day \in Nat
      /\ tick.day \in Nat /\ (sched.attempt \in Keys => sched.attempt.day \in Nat)
  BY BoundsAssumption DEF Inv, Shape, SchedulerType, Ticks, Days, Keys
<1>2. \A c \in Channels : Latest(c) \in Nat /\ Latest(c)' \in Nat
  <2>1. published \subseteq Versions /\ \A c \in Channels : HasLargest(Visible(c))
    BY DEF Inv, Shape, SchedulerType
  <2> SUFFICES ASSUME NEW c \in Channels PROVE Latest(c) \in Nat /\ Latest(c)' \in Nat
    OBVIOUS
  <2>2. Latest(c) \in Nat
    BY <2>1, LatestIs, VersionsAssumption
  <2>3. PICK v \in Visible(c)' : \A w \in Visible(c)' : w <= v
    BY DEF HasLargest
  <2>4. Latest(c)' \in Visible(c)'
    BY <2>3 DEF Latest, Largest
  <2>5. Latest(c)' \in Nat
    BY <2>4, VersionsAssumption DEF Visible
  <2> QED BY <2>2, <2>5
<1>3. Shape'
  <2>1. SchedulerType'
    BY DEF Inv, Shape, SchedulerType
  <2>2. TickInv'
    BY <1>1 DEF Inv, Shape, TickInv, Due
  <2> QED BY <2>1, <2>2 DEF Inv, Shape
<1>4. JobsInv'
  BY DEF Inv, JobsInv, NoticeIsTrue
<1>5. OffInv'
  BY DEF Inv, OffInv, OptOutIsPrompt, SwitchedOff
<1>6. QueueInv'
  <2>1. Recent' = Recent /\ Behind' = Behind
    BY DEF Recent, Behind
  <2>2. QueuedOnce' /\ \A i \in 1..Len(auto)' : auto[i]'.edits <= edits'
    BY DEF Inv, QueueInv, QueuedOnce
  <2>3. (sched.attempt \in Keys => /\ sched.attempt.day <= clock.day
                                   /\ tick.at # "idle" => sched.attempt.day <= tick.day
                                   /\ \A c \in Channels : sched.attempt.channel = c =>
                                         sched.attempt.version <= Latest(c))
    BY DEF Inv, QueueInv
  <2>4. sched.attempt \in Keys => sched.attempt.version \in Nat
    BY VersionsAssumption DEF Keys
  <2>5. sched'.attempt \in Keys => /\ sched'.attempt.day <= clock'.day
                                   /\ tick'.at # "idle" => sched'.attempt.day <= tick'.day
                                   /\ \A c \in Channels : sched'.attempt.channel = c =>
                                         sched'.attempt.version <= Latest(c)'
    BY <1>1, <1>2, <2>3, <2>4
  <2> QED BY <2>1, <2>2, <2>5 DEF Inv, QueueInv
<1> QED BY <1>3, <1>4, <1>5, <1>6 DEF Inv

LEMMA PassesStep ==
  ASSUME Inv, Passes
  PROVE  Inv'
<1>1. clock \in [day : Days, slot : Slots] /\ published \subseteq Versions
  BY DEF Inv, Shape, SchedulerType
<1>2. clock' \in [day : Days, slot : Slots] /\ clock.day <= clock'.day
  BY <1>1, BoundsAssumption DEF Passes, Days, Slots
<1>3. \A c \in Channels : HasLargest(Visible(c))' /\ Latest(c) <= Latest(c)'
  <2>1. published' = published
    BY DEF Passes
  <2>2. \A c \in Channels : HasLargest(Visible(c)) /\ Latest(c) \in Nat
    BY <1>1, LatestIs, VersionsAssumption DEF Inv, Shape
  <2> QED BY <2>1, <2>2, SameReleases DEF HasLargest
<1> QED BY <1>1, <1>2, <1>3, Elsewhere DEF Passes, Inv, Shape, SchedulerType, idleBot, history

LEMMA PublishStep ==
  ASSUME Inv, Publish
  PROVE  Inv'
<1>1. /\ clock \in [day : Days, slot : Slots] /\ published \subseteq Versions
      /\ \A c \in Channels : HasLargest(Visible(c))
  BY DEF Inv, Shape, SchedulerType
<1>2. published' \subseteq Versions
  BY <1>1 DEF Publish
<1>3. \A c \in Channels : HasLargest(Visible(c))' /\ Latest(c) <= Latest(c)'
  BY <1>1, PublishMonotone
<1>4. clock.day <= clock.day
  BY <1>1, BoundsAssumption DEF Days
<1> QED BY <1>1, <1>2, <1>3, <1>4, Elsewhere
        DEF Publish, Inv, Shape, SchedulerType, idleBot, history

LEMMA ShowNoticeStep ==
  ASSUME Inv, ShowNotice
  PROVE  Inv'
<1>1. /\ clock \in [day : Days, slot : Slots] /\ published \subseteq Versions
      /\ \A c \in Channels : HasLargest(Visible(c))
  BY DEF Inv, Shape, SchedulerType
<1>2. \A c \in Channels : HasLargest(Visible(c))' /\ Latest(c) <= Latest(c)'
  <2>1. published' = published
    BY DEF ShowNotice
  <2>2. \A c \in Channels : Latest(c) \in Nat
    BY <1>1, LatestIs, VersionsAssumption
  <2> QED BY <1>1, <2>1, <2>2, SameReleases DEF HasLargest
<1>3. clock.day <= clock.day
  BY <1>1, BoundsAssumption DEF Days
<1> QED BY <1>1, <1>2, <1>3, Elsewhere DEF ShowNotice, Inv, Shape, SchedulerType, history

\* The job an administrator started leaves the history alone.
LEMMA ManualJobStep ==
  ASSUME Inv, ManualJob
  PROVE  Inv'
<1>1. PICK v \in published :
        release' = [job |-> None, automatic |-> FALSE, phase |-> "busy",
                    current |-> release.current, target |-> v]
  BY DEF ManualJob
<1>2. UNCHANGED <<settings, clock, published, sched, tick, reply, restarts, auto, afterOff>>
  BY DEF ManualJob, history
<1>3. edits \in Nat /\ edits' = edits + 1 /\ v \in Versions
  BY DEF Inv, Shape, SchedulerType, ManualJob
<1>4. Shape'
  <2>1. release' \in [job : Jobs \cup {None}, automatic : BOOLEAN, phase : Phases,
                      current : Versions, target : Versions \cup {None}]
    BY <1>1, <1>3 DEF Inv, Shape, SchedulerType, Phases
  <2>2. SchedulerType'
    BY <1>2, <1>3, <2>1 DEF Inv, Shape, SchedulerType
  <2> QED BY <1>2, <2>2, SameReleases DEF Inv, Shape, TickInv, HasLargest, Due
<1>5. JobsInv'
  BY <1>1, <1>2, <1>3 DEF Inv, JobsInv, NoticeIsTrue
<1>6. OffInv'
  BY <1>2 DEF Inv, OffInv, OptOutIsPrompt, SwitchedOff
<1>7. QueueInv'
  <2>1. auto \in Seq(Runs)
    BY DEF Inv, Shape, SchedulerType
  <2>2. \A i \in 1..Len(auto) : auto[i].edits \in Nat /\ auto[i].edits <= edits
    <3>1. \A i \in 1..Len(auto) : auto[i] \in Runs
      BY <2>1
    <3> QED BY <3>1 DEF Inv, QueueInv, Runs
  <2>3. Recent' = {}
    BY <1>2, <1>3, <2>2 DEF Recent
  <2>4. QueuedOnce' /\ \A i \in 1..Len(auto)' : auto[i]'.edits <= edits'
    BY <1>2, <1>3, <2>2 DEF Inv, QueueInv, QueuedOnce
  <2> QED BY <1>2, <2>3, <2>4, SameReleases DEF Inv, QueueInv
<1> QED BY <1>4, <1>5, <1>6, <1>7 DEF Inv

\* The verdict of an automatic job is recorded where the agent reports it.
LEMMA JobEndsStep ==
  ASSUME Inv, JobEnds
  PROVE  Inv'
<1>1. PICK good \in BOOLEAN :
        /\ release' = [release EXCEPT !.phase = IF good THEN "complete" ELSE "failed",
                                      !.current = IF good THEN release.target ELSE @]
        /\ auto' = IF release.job = None THEN auto
                   ELSE [auto EXCEPT ![release.job].outcome = IF good THEN "complete" ELSE "failed"]
  BY DEF JobEnds
<1>2. UNCHANGED <<settings, clock, published, sched, tick, reply, restarts, edits, afterOff>>
      /\ release.phase = "busy"
  BY DEF JobEnds, idleBot
<1>3. /\ auto \in Seq(Runs)
      /\ release \in [job : Jobs \cup {None}, automatic : BOOLEAN, phase : Phases,
                      current : Versions, target : Versions \cup {None}]
      /\ release.target \in Versions
      /\ release.job # None => release.job \in 1..Len(auto)
  BY <1>2, BoundsAssumption DEF Inv, Shape, SchedulerType, JobsInv, Jobs
<1>4. /\ release' \in [job : Jobs \cup {None}, automatic : BOOLEAN, phase : Phases,
                       current : Versions, target : Versions \cup {None}]
      /\ release'.job = release.job
      /\ release'.target = release.target /\ release'.phase \in {"complete", "failed"}
      /\ release'.phase = "complete" => good /\ release'.current = release.target
  BY <1>1, <1>3 DEF Phases
<1>5. /\ auto' \in Seq(Runs) /\ Len(auto') = Len(auto)
      /\ \A i \in 1..Len(auto) : /\ auto'[i].key = auto[i].key /\ auto'[i].edits = auto[i].edits
                                 /\ auto'[i].target = auto[i].target
                                 /\ release.job # i => auto'[i] = auto[i]
      /\ release.job # None => auto'[release.job].outcome = IF good THEN "complete" ELSE "failed"
  <2>1. CASE release.job = None
    BY <1>1, <1>3, <2>1, NoneAssumption DEF Jobs
  <2>2. CASE release.job # None
    <3> DEFINE r == [auto[release.job] EXCEPT !.outcome = IF good THEN "complete" ELSE "failed"]
    <3>1. r \in Runs /\ r.key = auto[release.job].key /\ r.edits = auto[release.job].edits
          /\ r.target = auto[release.job].target
          /\ r.outcome = IF good THEN "complete" ELSE "failed"
      <4>1. auto[release.job] \in Runs
        BY <1>3, <2>2
      <4> QED BY <4>1 DEF Runs
    <3>2. auto' = [auto EXCEPT ![release.job] = r]
      BY <1>1, <2>2
    <3> HIDE DEF r
    <3> QED BY <1>3, <2>2, <3>1, <3>2
  <2> QED BY <2>1, <2>2
<1>6. Shape'
  <2>1. SchedulerType'
    BY <1>2, <1>4, <1>5 DEF Inv, Shape, SchedulerType
  <2> QED BY <1>2, <1>5, <2>1, SameReleases DEF Inv, Shape, TickInv, HasLargest, Due
<1>7. JobsInv'
  <2>1. settings.notice # NoNotice =>
           /\ settings.notice.job \in 1..Len(auto) /\ settings.notice.job # release.job
    <3> SUFFICES ASSUME settings.notice # NoNotice
                 PROVE  settings.notice.job \in 1..Len(auto) /\ settings.notice.job # release.job
      OBVIOUS
    <3>1. settings.notice.job \in Jobs
      BY DEF Inv, Shape, Files, Notices
    <3>2. settings.notice.job \in 1..Len(auto)
      BY <1>3, <3>1, BoundsAssumption DEF Inv, JobsInv, Jobs
    <3>3. release.job # None => auto[release.job].outcome = "none"
      BY <1>2 DEF Inv, JobsInv
    <3>4. auto[settings.notice.job].outcome = "complete"
      BY DEF Inv, JobsInv, NoticeIsTrue
    <3> QED BY <3>1, <3>2, <3>3, <3>4, NoneAssumption
  <2>2. NoticeIsTrue'
    BY <1>2, <1>5, <2>1 DEF Inv, JobsInv, NoticeIsTrue
  <2>3. release.job # None => /\ release.job <= Len(auto)
                              /\ release.target = auto[release.job].target
    BY DEF Inv, JobsInv
  <2> QED BY <1>2, <1>3, <1>4, <1>5, <2>2, <2>3 DEF Inv, JobsInv
<1>8. OffInv'
  BY <1>2 DEF Inv, OffInv, OptOutIsPrompt, SwitchedOff
<1>9. QueueInv'
  <2>1. Recent' = Recent
    BY <1>2, <1>5 DEF Recent
  <2>2. Behind' = Behind
    BY <1>2 DEF Behind
  <2>3. QueuedOnce'
    BY <1>5 DEF Inv, QueueInv, QueuedOnce
  <2>4. \A i \in Recent : auto'[i].key = auto[i].key
    BY <1>5 DEF Recent
  <2>5. \A i \in 1..Len(auto)' : auto[i]'.edits <= edits'
    BY <1>2, <1>5 DEF Inv, QueueInv
  <2> QED BY <1>2, <2>1, <2>2, <2>3, <2>4, <2>5, SameReleases DEF Inv, QueueInv
<1> QED BY <1>6, <1>7, <1>8, <1>9 DEF Inv

-----------------------------------------------------------------------------
(* Steps that change the settings.                                         *)

LEMMA SaveKeeps ==
  ASSUME NEW value \in Files, Save(value)
  PROVE  /\ settings' \in Files /\ settings'.mode = value.mode
         /\ settings'.channel = value.channel /\ settings'.confirmed = value.confirmed
         /\ settings'.notice = value.notice
BY NormaliseKeeps DEF Save

LEMMA SaveNoticeKeeps ==
  ASSUME settings \in Files, NEW n \in Notices \cup {NoNotice}, SaveNotice(n)
  PROVE  /\ settings' \in Files /\ settings'.mode = settings.mode
         /\ settings'.channel = settings.channel /\ settings'.confirmed = settings.confirmed
         /\ settings'.notice = n
<1> DEFINE value == [Saved EXCEPT !.notice = n]
<1>1. Saved \in Files
  BY SavedKeeps
<1>2. /\ value \in Files /\ value.mode = Saved.mode /\ value.channel = Saved.channel
      /\ value.confirmed = Saved.confirmed /\ value.notice = n
  BY <1>1 DEF Files
<1>3. Save(value)
  BY DEF SaveNotice
<1> HIDE DEF value
<1> QED BY <1>2, <1>3, SaveKeeps, SavedKeeps

\* An administrator's change ends the jobs that count as recent.
LEMMA EditStep ==
  ASSUME Inv, Edit
  PROVE  Inv'
<1>1. settings \in Files
  BY DEF Inv, Shape
<1>2. settings' \in Files /\ settings'.notice = settings.notice
  <2>1. Saved \in Files /\ Saved.notice = settings.notice
    BY <1>1, SavedKeeps
  <2>2. CASE \E m \in Modes : SetMode(m)
    <3>1. PICK m \in Modes : Save([Saved EXCEPT !.mode = m])
      BY <2>2 DEF SetMode
    <3>2. [Saved EXCEPT !.mode = m] \in Files /\ [Saved EXCEPT !.mode = m].notice = Saved.notice
      BY <2>1 DEF Files
    <3> QED BY <2>1, <3>1, <3>2, SaveKeeps
  <2>3. CASE JoinBeta
    <3> DEFINE value == [Saved EXCEPT !.channel = "beta", !.confirmed = TRUE, !.mode = "daily"]
    <3>1. value \in Files /\ value.notice = Saved.notice
      BY <2>1 DEF Files, Channels, Modes
    <3>2. Save(value)
      BY <2>3 DEF JoinBeta
    <3> HIDE DEF value
    <3> QED BY <2>1, <3>1, <3>2, SaveKeeps
  <2>4. CASE LeaveBeta
    <3> DEFINE value == [Saved EXCEPT !.channel = "stable", !.confirmed = FALSE, !.mode = "off"]
    <3>1. value \in Files /\ value.notice = Saved.notice
      BY <2>1 DEF Files, Channels, Modes
    <3>2. Save(value)
      BY <2>4 DEF LeaveBeta
    <3> HIDE DEF value
    <3> QED BY <2>1, <3>1, <3>2, SaveKeeps
  <2> QED BY <2>2, <2>3, <2>4 DEF Edit
<1>3. /\ UNCHANGED <<clock, published, release, sched, tick, reply, restarts, auto>>
      /\ edits \in Nat /\ edits' = edits + 1
      /\ afterOff' = IF SwitchedOff(settings') /\ SwitchedOff(Saved) THEN afterOff ELSE 0
  BY DEF Edit, Inv, Shape, SchedulerType
<1>4. Shape'
  <2>1. SchedulerType'
    BY <1>3 DEF Inv, Shape, SchedulerType
  <2> QED BY <1>2, <1>3, <2>1, SameReleases DEF Inv, Shape, TickInv, HasLargest, Due
<1>5. JobsInv'
  BY <1>2, <1>3 DEF Inv, JobsInv, NoticeIsTrue
<1>6. OffInv'
  <2>1. SwitchedOff(settings') <=> SwitchedOff(settings)'
    BY DEF SwitchedOff
  <2> QED BY <1>3, <2>1 DEF Inv, OffInv, OptOutIsPrompt, SwitchedOff
<1>7. QueueInv'
  <2>1. auto \in Seq(Runs)
    BY DEF Inv, Shape, SchedulerType
  <2>2. \A i \in 1..Len(auto) : auto[i].edits \in Nat /\ auto[i].edits <= edits
    <3>1. \A i \in 1..Len(auto) : auto[i] \in Runs
      BY <2>1
    <3> QED BY <3>1 DEF Inv, QueueInv, Runs
  <2>3. Recent' = {}
    BY <1>3, <2>2 DEF Recent
  <2>4. QueuedOnce' /\ \A i \in 1..Len(auto)' : auto[i]'.edits <= edits'
    BY <1>3, <2>2 DEF Inv, QueueInv, QueuedOnce
  <2> QED BY <1>3, <2>3, <2>4, SameReleases DEF Inv, QueueInv
<1> QED BY <1>4, <1>5, <1>6, <1>7 DEF Inv

\* The notice changes, and the tick may end; the schedule does not change.
LEMMA NoticeMoves ==
  ASSUME Inv, settings' \in Files, settings'.mode = settings.mode,
         settings'.channel = settings.channel, settings'.confirmed = settings.confirmed,
         settings'.notice # NoNotice => settings'.notice.job <= Len(auto),
         NoticeIsTrue',
         UNCHANGED <<clock, published, release, sched, edits, auto, afterOff>>,
         tick' = tick \/ tick' = NoTick,
         reply' \in Jobs \cup {None}, restarts' \in Nat
  PROVE  Inv'
<1>1. NoTick \in Ticks /\ NoTick.at = "idle"
  BY NoTickRests
<1>2. Shape'
  <2>1. SchedulerType'
    BY <1>1 DEF Inv, Shape, SchedulerType
  <2>2. TickInv'
    BY <1>1 DEF Inv, Shape, TickInv, Due
  <2> QED BY <2>1, <2>2, SameReleases DEF Inv, Shape, HasLargest
<1>3. JobsInv'
  BY DEF Inv, JobsInv
<1>4. OffInv'
  BY <1>1 DEF Inv, OffInv, OptOutIsPrompt, SwitchedOff
<1>5. QueueInv'
  <2>1. Recent' = Recent /\ (Behind' => Behind)
    BY <1>1 DEF Recent, Behind
  <2>2. QueuedOnce' /\ \A i \in 1..Len(auto)' : auto[i]'.edits <= edits'
    BY DEF Inv, QueueInv, QueuedOnce
  <2> QED BY <1>1, <2>1, <2>2, SameReleases DEF Inv, QueueInv
<1> QED BY <1>2, <1>3, <1>4, <1>5 DEF Inv

LEMMA TakeNoticeStep ==
  ASSUME Inv, TakeNotice
  PROVE  Inv'
<1>1. settings \in Files /\ Saved.notice = settings.notice /\ Saved.notice # NoNotice
  BY SavedKeeps DEF Inv, Shape, TakeNotice
<1>2. SaveNotice(NoNotice)
  BY <1>1 DEF TakeNotice, ConsumeNotice
<1>3. /\ settings' \in Files /\ settings'.mode = settings.mode /\ settings'.notice = NoNotice
      /\ settings'.channel = settings.channel /\ settings'.confirmed = settings.confirmed
  BY <1>1, <1>2, SaveNoticeKeeps
<1>4. reply' \in Jobs /\ restarts' \in Nat
  BY <1>1 DEF TakeNotice, Files, Notices, Inv, Shape, SchedulerType
<1>5. NoticeIsTrue'
  BY <1>3 DEF NoticeIsTrue
<1> QED BY <1>3, <1>4, <1>5, NoticeMoves DEF TakeNotice, history

\* What is told of a finished job is what the history keeps of it.
LEMMA VerdictIsTrue ==
  ASSUME Inv, sched.pending \in Pendings, Finished, Reached
  PROVE  /\ Notice \in Notices /\ Notice.job \in 1..Len(auto)
         /\ auto[Notice.job].outcome = "complete" /\ auto[Notice.job].target = Notice.version
<1>1. sched.pending \in Pendings /\ release.current \in Versions
  BY DEF Inv, Shape, SchedulerType
<1>2. sched.pending.job \in Jobs /\ release.job = sched.pending.job /\ release.phase = "complete"
  BY <1>1 DEF Pendings, Finished, Reached
<1>3. release.job # None
  BY <1>2, NoneAssumption
<1>4. release.job \in 1..Len(auto)
  BY <1>2, <1>3, BoundsAssumption DEF Inv, JobsInv, Jobs
<1>5. auto[release.job].outcome = "complete" /\ auto[release.job].target = release.current
  BY <1>2, <1>3 DEF Inv, JobsInv
<1> QED BY <1>1, <1>2, <1>4, <1>5 DEF Notice, Notices

LEMMA DiesHalfwayStep ==
  ASSUME Inv, DiesHalfway
  PROVE  Inv'
<1>1. sched.pending \in Pendings /\ Finished /\ Reached /\ SaveNotice(Notice)
  BY DEF Inv, Shape, TickInv, DiesHalfway
<1>2. /\ Notice \in Notices /\ Notice.job \in 1..Len(auto)
      /\ auto[Notice.job].outcome = "complete" /\ auto[Notice.job].target = Notice.version
  BY <1>1, VerdictIsTrue
<1>3. /\ settings' \in Files /\ settings'.mode = settings.mode /\ settings'.notice = Notice
      /\ settings'.channel = settings.channel /\ settings'.confirmed = settings.confirmed
  BY <1>1, <1>2, SaveNoticeKeeps DEF Inv, Shape
<1>4. UNCHANGED <<clock, published, release, sched, edits, auto, afterOff>>
      /\ tick' = NoTick /\ reply' = None /\ restarts' = restarts + 1 /\ restarts \in Nat
  BY DEF DiesHalfway, history, Inv, Shape, SchedulerType
<1>5. NoticeIsTrue'
  BY <1>2, <1>3, <1>4 DEF NoticeIsTrue
<1>6. Notice.job <= Len(auto)
  BY <1>2, BoundsAssumption
<1> QED BY <1>3, <1>4, <1>5, <1>6, NoticeMoves

-----------------------------------------------------------------------------
(* The tick at work.                                                       *)

\* What is left of a tick that starts no update.
LEMMA RestIs ==
  ASSUME NEW t \in Ticks, NEW state
  PROVE  /\ Rest(t, state) \in Ticks /\ Rest(t, state).at \in {"report", "idle"}
         /\ Rest(t, state).at = "report" => Rest(t, state).day = t.day
BY NoTickRests DEF Rest, Ticks, Places

\* The two outcomes of Offer.
LEMMA OfferIs ==
  ASSUME NEW t \in Ticks, NEW state \in StateFiles, Offer(t, state),
         HasLargest(Visible(t.s.channel)), published \subseteq Versions
  PROVE  \/ /\ Due(t) /\ Key(t.s, t.day, Latest(t.s.channel)) # state.attempt
            /\ sched' = [state EXCEPT !.attempt = Key(t.s, t.day, Latest(t.s.channel))]
            /\ Key(t.s, t.day, Latest(t.s.channel)) \in Keys
            /\ tick' = [t EXCEPT !.at = "post", !.key = Key(t.s, t.day, Latest(t.s.channel)),
                                 !.version = Latest(t.s.channel)]
         \/ sched' = state /\ tick' = Rest(t, state)
<1>1. Latest(t.s.channel) \in Versions
  BY LatestIs
<1>2. Key(t.s, t.day, Latest(t.s.channel)) \in Keys
  BY <1>1 DEF Key, Keys, Ticks, Schedules
<1> QED BY <1>2 DEF Offer

\* An update is offered under a key of its own, later than every recent one of
\* its schedule.
LEMMA OfferStep ==
  ASSUME Inv, tick.at \in {"pending", "fetch"},
         settings' \in Files, settings'.mode = settings.mode,
         settings'.channel = settings.channel, settings'.confirmed = settings.confirmed,
         settings'.notice # NoNotice => settings'.notice.job <= Len(auto),
         NoticeIsTrue',
         UNCHANGED <<clock, published, release, reply, restarts, edits, auto, afterOff>>,
         NEW state \in StateFiles, state.attempt = sched.attempt,
         Offer(tick, state)
  PROVE  Inv'
<1> DEFINE latest == Latest(tick.s.channel)
           key == Key(tick.s, tick.day, latest)
<1>1. /\ tick \in Ticks /\ clock \in [day : Days, slot : Slots] /\ published \subseteq Versions
      /\ tick.s.channel \in Channels /\ HasLargest(Visible(tick.s.channel))
      /\ sched \in StateFiles /\ auto \in Seq(Runs)
  BY DEF Inv, Shape, SchedulerType, Ticks, Schedules
<1>2. /\ latest \in Versions /\ latest \in Nat /\ tick.day \in Nat /\ clock.day \in Nat
      /\ tick.day <= clock.day
  <2>1. latest \in published
    BY <1>1, LatestIs
  <2>2. tick.day \in Days /\ clock.day \in Days
    BY <1>1 DEF Ticks
  <2> HIDE DEF latest
  <2> QED BY <1>1, <2>1, <2>2, BoundsAssumption, VersionsAssumption DEF Inv, Shape, TickInv, Days
<1>3. /\ key.day = tick.day /\ key.mode = tick.s.mode /\ key.channel = tick.s.channel
      /\ key.version = latest
  BY DEF Key
<1>4. \/ /\ Due(tick) /\ key # sched.attempt /\ key \in Keys
         /\ sched' = [state EXCEPT !.attempt = key]
         /\ tick' = [tick EXCEPT !.at = "post", !.key = key, !.version = latest]
      \/ sched' = state /\ tick' = Rest(tick, state)
  BY <1>1, OfferIs
<1> HIDE DEF latest, key
<1>5. CASE sched' = state /\ tick' = Rest(tick, state)
  <2>1. /\ tick' \in Ticks /\ tick'.at \in {"report", "idle"}
        /\ tick'.at = "report" => tick'.day = tick.day
    BY <1>1, <1>5, RestIs
  <2>2. Shape'
    <3>1. SchedulerType'
      BY <1>5, <2>1 DEF Inv, Shape, SchedulerType
    <3>2. TickInv'
      BY <1>2, <2>1 DEF TickInv
    <3> QED BY <3>1, <3>2, SameReleases DEF Inv, Shape, HasLargest
  <2>3. JobsInv'
    BY DEF Inv, JobsInv
  <2>4. OffInv'
    BY <2>1 DEF Inv, OffInv, OptOutIsPrompt, SwitchedOff
  <2>5. QueueInv'
    <3>1. Recent' = Recent /\ ~Behind'
      BY <2>1 DEF Recent, Behind
    <3>2. QueuedOnce' /\ \A i \in 1..Len(auto)' : auto[i]'.edits <= edits'
      BY DEF Inv, QueueInv, QueuedOnce
    <3>3. sched'.attempt = sched.attempt
      BY <1>5
    <3> QED BY <2>1, <3>1, <3>2, <3>3, SameReleases DEF Inv, QueueInv
  <2> QED BY <2>2, <2>3, <2>4, <2>5 DEF Inv
<1>6. CASE /\ Due(tick) /\ key # sched.attempt /\ key \in Keys
           /\ sched' = [state EXCEPT !.attempt = key]
           /\ tick' = [tick EXCEPT !.at = "post", !.key = key, !.version = latest]
  <2>1. /\ tick' \in Ticks /\ tick'.at = "post" /\ tick'.day = tick.day /\ tick'.s = tick.s
        /\ tick'.slot = tick.slot /\ tick'.key = key /\ tick'.version = latest
    BY <1>1, <1>2, <1>6 DEF Ticks, Places
  <2>2. sched' \in StateFiles /\ sched'.attempt = key
    BY <1>6 DEF StateFiles
  <2>3. Shape'
    <3>1. SchedulerType'
      BY <2>1, <2>2 DEF Inv, Shape, SchedulerType
    <3>2. Due(tick)'
      BY <1>6, <2>1 DEF Due
    <3>3. key = Key(tick'.s, tick'.day, tick'.version)
      BY <2>1 DEF key
    <3>4. Key(tick.s, tick.day, tick.version)' = Key(tick'.s, tick'.day, tick'.version)
      BY DEF Key
    <3>5. TickInv'
      BY <1>2, <1>6, <2>1, <2>2, <3>2, <3>3, <3>4 DEF TickInv
    <3> QED BY <3>1, <3>5, SameReleases DEF Inv, Shape, HasLargest
  <2>4. JobsInv'
    BY DEF Inv, JobsInv
  <2>5. OffInv'
    BY <2>1 DEF Inv, OffInv, OptOutIsPrompt, SwitchedOff
  <2>6. Recent' = Recent /\ (Behind' <=> Behind)
    BY <2>1 DEF Recent, Behind
  <2>7. \A i \in Recent : auto[i].key \in Keys
    <3>1. \A i \in 1..Len(auto) : auto[i] \in Runs
      BY <1>1
    <3> QED BY <3>1 DEF Recent, Runs
  <2>8. ASSUME NEW i \in Recent, auto[i].key.mode = settings.mode,
               auto[i].key.channel = settings.channel
        PROVE  UpTo(auto[i].key, key) /\ auto[i].key # key
               /\ key.mode = settings.mode /\ key.channel = settings.channel
    <3>1. /\ sched.attempt \in Keys
          /\ sched.attempt.mode = settings.mode /\ sched.attempt.channel = settings.channel
          /\ UpTo(auto[i].key, sched.attempt)
      BY <2>8 DEF Inv, QueueInv
    <3>2. ~Behind
      BY DEF Inv, QueueInv
    <3>3. tick.s.mode = settings.mode /\ tick.s.channel = settings.channel
      BY <3>2 DEF Behind
    <3>4. sched.attempt.day <= tick.day /\ sched.attempt.version <= latest
      BY <1>1, <3>1, <3>3 DEF Inv, QueueInv, latest
    <3>5. /\ sched.attempt.day \in Nat /\ sched.attempt.version \in Nat
          /\ auto[i].key.day \in Nat /\ auto[i].key.version \in Nat
      BY <2>7, <3>1, KeysAre
    <3>6. UpTo(sched.attempt, key)
      BY <1>2, <1>3, <3>4, <3>5 DEF UpTo
    <3>7. UpTo(auto[i].key, key)
      BY <1>2, <1>3, <3>1, <3>5, <3>6 DEF UpTo
    <3>8. auto[i].key # key
      <4> SUFFICES ASSUME auto[i].key = key PROVE FALSE
        OBVIOUS
      <4>1. sched.attempt.day = key.day /\ sched.attempt.version = key.version
        BY <1>2, <1>3, <3>1, <3>4, <3>5, <3>6 DEF UpTo
      <4>2. sched.attempt = key
        BY <1>3, <1>6, <3>1, <3>3, <4>1 DEF Keys
      <4> QED BY <1>6, <4>2
    <3> QED BY <1>3, <3>3, <3>7, <3>8
  <2>9. \A i \in Recent : auto[i].key # key
    <3> SUFFICES ASSUME NEW i \in Recent, auto[i].key = key PROVE FALSE
      OBVIOUS
    <3>1. ~Behind
      BY DEF Inv, QueueInv
    <3>2. key.mode = settings.mode /\ key.channel = settings.channel
      BY <1>3, <3>1 DEF Behind
    <3> QED BY <3>2, <2>8
  <2>10. QueueInv'
    <3>1. QueuedOnce' /\ \A i \in 1..Len(auto)' : auto[i]'.edits <= edits'
      BY DEF Inv, QueueInv, QueuedOnce
    <3>2. \A c \in Channels : sched'.attempt.channel = c => sched'.attempt.version <= Latest(c)'
      BY <1>2, <1>3, <2>2, SameReleases DEF latest
    <3>3. Behind' => Recent' = {}
      BY <2>6 DEF Inv, QueueInv
    <3>4. \A i \in Recent' : auto'[i].key # tick'.key
      BY <2>1, <2>6, <2>9
    <3>5. sched'.attempt.day <= clock'.day /\ sched'.attempt.day <= tick'.day
      BY <1>2, <1>3, <2>1, <2>2
    <3>6. \A i \in Recent' :
            (auto'[i].key.mode = settings'.mode /\ auto'[i].key.channel = settings'.channel) =>
              /\ sched'.attempt \in Keys
              /\ sched'.attempt.mode = settings'.mode /\ sched'.attempt.channel = settings'.channel
              /\ UpTo(auto'[i].key, sched'.attempt)
      BY <1>6, <2>2, <2>6, <2>8
    <3> QED BY <3>1, <3>2, <3>3, <3>4, <3>5, <3>6 DEF QueueInv, UpTo
  <2> QED BY <2>3, <2>4, <2>5, <2>10 DEF Inv
<1> QED BY <1>4, <1>5, <1>6

LEMMA FetchStep ==
  ASSUME Inv, Fetch
  PROVE  Inv'
<1>1. sched \in StateFiles /\ settings \in Files
  BY DEF Inv, Shape, SchedulerType
<1>2. UNCHANGED <<settings, clock, published, release, reply, restarts, edits, auto, afterOff>>
      /\ Offer(tick, sched) /\ tick.at = "fetch"
  BY DEF Fetch, idleBot, history
<1>3. (settings'.notice # NoNotice => settings'.notice.job <= Len(auto)) /\ NoticeIsTrue'
  BY <1>2 DEF Inv, JobsInv, NoticeIsTrue
<1> QED BY <1>1, <1>2, <1>3, OfferStep

LEMMA CheckPendingStep ==
  ASSUME Inv, CheckPending
  PROVE  Inv'
<1>1. sched \in StateFiles /\ settings \in Files /\ sched.pending \in Pendings
  BY DEF Inv, Shape, SchedulerType, TickInv, CheckPending
<1>2. UNCHANGED <<clock, published, release, reply, restarts, edits, auto, afterOff>>
      /\ tick.at = "pending"
  BY DEF CheckPending, idleBot, history
<1>3. PICK state \in {sched, Settled} : Offer(tick, state)
  BY DEF CheckPending
<1>4. Settled \in StateFiles /\ Settled.attempt = sched.attempt
  BY <1>1 DEF Settled, StateFiles, Pendings
<1>5. state \in StateFiles /\ state.attempt = sched.attempt
  BY <1>1, <1>3, <1>4
<1>6. CASE Finished /\ Reached
  <2>1. SaveNotice(Notice)
    BY <1>6 DEF CheckPending
  <2>2. /\ Notice \in Notices /\ Notice.job \in 1..Len(auto)
        /\ auto[Notice.job].outcome = "complete" /\ auto[Notice.job].target = Notice.version
    BY <1>1, <1>6, VerdictIsTrue
  <2>3. /\ settings' \in Files /\ settings'.mode = settings.mode /\ settings'.notice = Notice
        /\ settings'.channel = settings.channel /\ settings'.confirmed = settings.confirmed
    BY <1>1, <2>1, <2>2, SaveNoticeKeeps
  <2>4. NoticeIsTrue' /\ Notice.job <= Len(auto)
    BY <1>2, <2>2, <2>3 DEF NoticeIsTrue
  <2> QED BY <1>2, <1>3, <1>5, <2>3, <2>4, OfferStep
<1>7. CASE ~(Finished /\ Reached)
  <2>1. settings' = settings
    BY <1>7 DEF CheckPending
  <2>2. (settings'.notice # NoNotice => settings'.notice.job <= Len(auto)) /\ NoticeIsTrue'
    BY <1>2, <2>1 DEF Inv, JobsInv, NoticeIsTrue
  <2> QED BY <1>1, <1>2, <1>3, <1>5, <2>1, <2>2, OfferStep
<1> QED BY <1>6, <1>7

\* The job id reaches the state file.
LEMMA RecordStep ==
  ASSUME Inv, Record
  PROVE  Inv'
<1> DEFINE pending == [key |-> tick.key, job |-> tick.job, version |-> tick.version]
           state == [sched EXCEPT !.pending = pending]
<1>1. /\ tick \in Ticks /\ sched \in StateFiles /\ tick.key \in Keys /\ tick.version \in Versions
      /\ tick.job \in 1..Len(auto) /\ Len(auto) <= MaxJobs /\ auto \in Seq(Runs)
      /\ tick.at = "record" /\ tick.day <= clock.day
  BY DEF Inv, Shape, SchedulerType, TickInv, Record
<1>2. UNCHANGED <<settings, clock, published, release, reply, restarts, edits, auto, afterOff>>
      /\ sched' = state /\ tick' = Rest(tick, state)
  BY DEF Record, idleBot, history
<1>3. pending \in Pendings
  BY <1>1, BoundsAssumption DEF Pendings, Jobs
<1> HIDE DEF pending
<1>4. state \in StateFiles /\ state.attempt = sched.attempt
  BY <1>1, <1>3 DEF StateFiles
<1> HIDE DEF state
<1>5. /\ tick' \in Ticks /\ tick'.at \in {"report", "idle"}
      /\ tick'.at = "report" => tick'.day = tick.day
  BY <1>1, <1>2, RestIs
<1>6. Shape'
  <2>1. SchedulerType'
    BY <1>2, <1>4, <1>5 DEF Inv, Shape, SchedulerType
  <2>2. TickInv'
    BY <1>1, <1>2, <1>5 DEF TickInv
  <2> QED BY <1>2, <2>1, <2>2, SameReleases DEF Inv, Shape, HasLargest
<1>7. JobsInv'
  BY <1>2 DEF Inv, JobsInv, NoticeIsTrue
<1>8. OffInv'
  BY <1>2, <1>5 DEF Inv, OffInv, OptOutIsPrompt, SwitchedOff
<1>9. QueueInv'
  <2>1. Recent' = Recent /\ ~Behind'
    BY <1>2, <1>5 DEF Recent, Behind
  <2>2. QueuedOnce' /\ \A i \in 1..Len(auto)' : auto[i]'.edits <= edits'
    BY <1>2 DEF Inv, QueueInv, QueuedOnce
  <2>3. sched'.attempt = sched.attempt
    BY <1>2, <1>4
  <2>4. sched.attempt \in Keys /\ tick'.at # "idle" => sched.attempt.day <= tick'.day
    BY <1>1, <1>5 DEF Inv, QueueInv
  <2> QED BY <1>2, <1>5, <2>1, <2>2, <2>3, <2>4, SameReleases DEF Inv, QueueInv
<1> QED BY <1>6, <1>7, <1>8, <1>9 DEF Inv

\* The agent accepts: the new job has a key no recent one has.
LEMMA PostAcceptedStep ==
  ASSUME Inv, PostAccepted
  PROVE  Inv'
<1> DEFINE target == Latest(tick.s.channel)
           run == [key |-> tick.key, target |-> target, edits |-> edits, outcome |-> "none"]
<1>1. /\ tick \in Ticks /\ tick.at = "post" /\ tick.key \in Keys /\ sched.attempt = tick.key
      /\ tick.version \in Versions /\ tick.key = Key(tick.s, tick.day, tick.version)
      /\ published \subseteq Versions /\ HasLargest(Visible(tick.s.channel))
      /\ auto \in Seq(Runs) /\ edits \in Nat /\ Due(tick) /\ settings \in Files
      /\ tick.day <= clock.day
  BY DEF Inv, Shape, SchedulerType, TickInv, PostAccepted, Ticks, Schedules
<1>2. target \in Versions
  BY <1>1, LatestIs
<1>3. run \in Runs
  BY <1>1, <1>2 DEF Runs
<1>4. /\ UNCHANGED <<settings, clock, published, sched, reply, restarts, edits>>
      /\ auto' = Append(auto, run) /\ Len(auto) < MaxJobs
      /\ tick' = [tick EXCEPT !.at = "record", !.job = Len(auto) + 1]
      /\ afterOff' = IF SwitchedOff(Saved) THEN afterOff + 1 ELSE 0
      /\ release.phase # "busy"
      /\ \/ release' = [job |-> Len(auto) + 1, automatic |-> TRUE, phase |-> "busy",
                        current |-> release.current, target |-> target]
         \/ release' = release
  BY DEF PostAccepted, idleBot
<1>5. run.key = tick.key /\ run.edits = edits /\ run.target = target /\ run.outcome = "none"
  OBVIOUS
<1> HIDE DEF run, target
<1>6. /\ auto' \in Seq(Runs) /\ Len(auto') = Len(auto) + 1 /\ Len(auto) \in Nat
      /\ \A i \in 1..Len(auto) : auto'[i] = auto[i]
      /\ auto'[Len(auto) + 1] = run
  BY <1>1, <1>3, <1>4, AppendFacts
<1>7. Len(auto) + 1 \in Jobs
  BY <1>4, <1>6, BoundsAssumption DEF Jobs
<1>8. /\ tick' \in Ticks /\ tick'.at = "record" /\ tick'.job = Len(auto) + 1 /\ tick'.key = tick.key
      /\ tick'.version = tick.version /\ tick'.day = tick.day
  BY <1>1, <1>4, <1>7 DEF Ticks, Places
<1>9. Shape'
  <2>1. release' \in [job : Jobs \cup {None}, automatic : BOOLEAN, phase : Phases,
                      current : Versions, target : Versions \cup {None}]
    <3>1. release \in [job : Jobs \cup {None}, automatic : BOOLEAN, phase : Phases,
                       current : Versions, target : Versions \cup {None}]
      BY DEF Inv, Shape, SchedulerType
    <3> DEFINE queued == [job |-> Len(auto) + 1, automatic |-> TRUE, phase |-> "busy",
                          current |-> release.current, target |-> target]
    <3>2. release.current \in Versions
      BY <3>1
    <3>3. queued \in [job : Jobs \cup {None}, automatic : BOOLEAN, phase : Phases,
                      current : Versions, target : Versions \cup {None}]
      BY <1>2, <1>7, <3>2 DEF Phases
    <3> QED BY <1>4, <3>1, <3>3
  <2>2. afterOff' \in Nat /\ Len(auto') <= MaxJobs
    BY <1>4, <1>6, BoundsAssumption DEF Inv, Shape, SchedulerType
  <2>3. SchedulerType'
    BY <1>4, <1>6, <1>8, <2>1, <2>2 DEF Inv, Shape, SchedulerType
  <2>4. TickInv'
    BY <1>1, <1>4, <1>6, <1>8 DEF TickInv
  <2> QED BY <1>4, <2>3, <2>4, SameReleases DEF Inv, Shape, HasLargest
<1>10. JobsInv'
  <2>1. settings.notice # NoNotice => settings.notice.job \in 1..Len(auto)
    BY <1>1, <1>6, BoundsAssumption DEF Inv, JobsInv, Files, Notices, Jobs
  <2>2. NoticeIsTrue'
    BY <1>4, <1>6, <2>1 DEF Inv, JobsInv, NoticeIsTrue
  <2>3. settings'.notice # NoNotice => settings'.notice.job <= Len(auto')
    BY <1>4, <1>6, <2>1
  <2>4. CASE release' = release
    <3>1. release.job # None =>
            /\ release.job <= Len(auto) /\ release.target = auto[release.job].target
            /\ release.phase = "complete" => /\ auto[release.job].outcome = "complete"
                                             /\ release.current = release.target
      BY DEF Inv, JobsInv
    <3>2. release.job # None => release.job \in 1..Len(auto)
      <4>1. release.job # None => release.job \in Jobs
        BY DEF Inv, Shape, SchedulerType
      <4> QED BY <1>6, <3>1, <4>1, Numbers
    <3>3. release.job # None => auto'[release.job] = auto[release.job] /\ release.job <= Len(auto')
      BY <1>6, <3>2
    <3>4. release.phase # "busy"
      BY <1>4
    <3> QED BY <2>2, <2>3, <2>4, <3>1, <3>3, <3>4 DEF JobsInv
  <2>5. CASE release' = [job |-> Len(auto) + 1, automatic |-> TRUE, phase |-> "busy",
                         current |-> release.current, target |-> target]
    BY <1>2, <1>5, <1>6, <2>2, <2>3, <2>5 DEF JobsInv
  <2> QED BY <1>4, <2>4, <2>5
<1>11. OffInv'
  <2>1. ~SwitchedOff(tick.s)
    BY <1>1 DEF Due, SwitchedOff
  <2>2. afterOff = 0
    BY <1>1, <2>1 DEF Inv, OffInv
  <2>3. SwitchedOff(Saved) <=> SwitchedOff(settings)
    BY <1>1, SavedKeeps DEF SwitchedOff
  <2> QED BY <1>4, <1>8, <2>2, <2>3 DEF OffInv, OptOutIsPrompt, SwitchedOff
<1>12. QueueInv'
  <2>1. \A i \in 1..Len(auto') : i \in 1..Len(auto) \/ i = Len(auto) + 1
    BY <1>6
  <2>2. \A i \in 1..Len(auto') : auto'[i].edits <= edits'
    BY <1>1, <1>4, <1>5, <1>6, <2>1 DEF Inv, QueueInv
  <2>3. \A i \in 1..Len(auto) : auto[i].edits = edits => auto[i].key # run.key
    BY <1>1, <1>5 DEF Inv, QueueInv, Recent
  <2>4. QueuedOnce'
    BY <1>4, <1>5, <1>6, <2>1, <2>3 DEF Inv, QueueInv, QueuedOnce
  <2>5. ~Behind'
    BY <1>8 DEF Behind
  <2>6. Recent' = Recent \cup {Len(auto) + 1}
    BY <1>4, <1>5, <1>6, <2>1 DEF Recent
  <2>7. tick.key.day \in Nat /\ tick.key.version \in Nat /\ UpTo(tick.key, tick.key)
    BY <1>1, KeysAre DEF UpTo
  <2>8. \A i \in Recent' :
          (auto'[i].key.mode = settings'.mode /\ auto'[i].key.channel = settings'.channel) =>
            /\ sched'.attempt \in Keys
            /\ sched'.attempt.mode = settings'.mode /\ sched'.attempt.channel = settings'.channel
            /\ UpTo(auto'[i].key, sched'.attempt)
    <3>1. \A i \in Recent : auto'[i] = auto[i]
      BY <1>6 DEF Recent
    <3> QED BY <1>1, <1>4, <1>5, <1>6, <2>6, <2>7, <3>1 DEF Inv, QueueInv
  <2>9. sched'.attempt \in Keys => /\ sched'.attempt.day <= clock'.day
                                   /\ tick'.at # "idle" => sched'.attempt.day <= tick'.day
                                   /\ \A c \in Channels : sched'.attempt.channel = c =>
                                         sched'.attempt.version <= Latest(c)'
    BY <1>1, <1>4, <1>8, SameReleases DEF Inv, QueueInv
  <2>10. tick'.at # "post"
    BY <1>8
  <2> QED BY <2>2, <2>4, <2>5, <2>8, <2>9, <2>10 DEF QueueInv, UpTo
<1> QED BY <1>9, <1>10, <1>11, <1>12 DEF Inv

-----------------------------------------------------------------------------
(* Every step, and the theorems.                                           *)

LEMMA NextInv ==
  Inv /\ [Next]_vars => Inv'
<1> SUFFICES ASSUME Inv, [Next]_vars PROVE Inv'
  OBVIOUS
<1>1. CASE TickStep
  BY <1>1, BeginStep, CheckPendingStep, FetchStep, PostAcceptedStep, RecordStep, NoteReportStep,
     TickEndsStep DEF TickStep
<1>2. CASE Edit \/ TakeNotice \/ ShowNotice \/ ManualJob \/ JobEnds
  BY <1>2, EditStep, TakeNoticeStep, ShowNoticeStep, ManualJobStep, JobEndsStep
<1>3. CASE Publish \/ Passes \/ Restart \/ DiesHalfway
  BY <1>3, PublishStep, PassesStep, RestartStep, DiesHalfwayStep
<1>4. CASE UNCHANGED vars
  <2>1. UNCHANGED <<settings, clock, published, release, sched, tick, reply, restarts, edits,
                    auto, afterOff>>
    BY <1>4 DEF vars
  <2>2. /\ settings' \in Files /\ (settings'.notice # NoNotice => settings'.notice.job <= Len(auto))
        /\ NoticeIsTrue' /\ reply' \in Jobs \cup {None} /\ restarts' \in Nat
    BY <2>1 DEF Inv, Shape, SchedulerType, JobsInv, NoticeIsTrue
  <2> QED BY <2>1, <2>2, NoticeMoves
<1> QED BY <1>1, <1>2, <1>3, <1>4 DEF Next

LEMMA InvHolds == Spec => []Inv
BY InitInv, NextInv, PTL DEF Spec

\* Settings, state file, tick and history keep their types: what the bot writes
\* to disk is a state it can start from.
THEOREM SchedulerTypes == Spec => []TypeOK
<1>1. Inv => TypeOK
  BY ShapeTypes DEF Inv
<1> QED BY <1>1, InvHolds, PTL

\* One schedule queues one version once, for any number of days, releases,
\* failed ticks and restarts: every tick writes its key down before it asks, and
\* the key on disk is the latest of all that were asked for since the schedule
\* was last changed.
THEOREM QueuedOnceHeld == Spec => []QueuedOnce
<1>1. Inv => QueuedOnce
  BY DEF Inv, QueueInv
<1> QED BY <1>1, InvHolds, PTL

\* Once updates are switched off, at most the tick under way still queues one.
THEOREM OptOutHeld == Spec => []OptOutIsPrompt
<1>1. Inv => OptOutIsPrompt
  BY DEF Inv, OffInv
<1> QED BY <1>1, InvHolds, PTL

\* The post-update notice tells of a job that did complete and of the version it
\* installed, wherever a tick is killed and whatever other jobs ran meanwhile.
THEOREM NoticeHeld == Spec => []NoticeIsTrue
<1>1. Inv => NoticeIsTrue
  BY DEF Inv, JobsInv
<1> QED BY <1>1, InvHolds, PTL
=============================================================================
