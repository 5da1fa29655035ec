------------------------ MODULE ControlReleaseProofs ------------------------
(***************************************************************************)
(* Theorems about the jobs that change the control containers, for every   *)
(* set of versions and settings and any number of jobs, crashes and edits. *)
(***************************************************************************)
EXTENDS ControlRelease, TLAPS

\* What the containers run is always a pair of versions and missing containers,
\* and a proper pair when no container is missing.
LEMMA ImagesType ==
  TypeOK => /\ Images \in [Services -> Versions \cup {Gone}]
            /\ OriginImages \in [Services -> Versions \cup {Gone}]
            /\ AllUp => Images \in Pair
BY DEF TypeOK, OriginType, Images, OriginImages, Image, AllUp, Pair, Container

\* The version reported for a pair is a version.
LEMMA PairVersion == ASSUME NEW p \in Pair PROVE SnapshotVersion(p) \in Versions
BY DEF Pair, SnapshotVersion, Services

\* docker compose leaves containers of the right shape, however it ends.
LEMMA UpType ==
  ASSUME TypeOK, NEW p \in Pair, UpSucceeds(p) \/ UpFails(p)
  PROVE  /\ ctr' \in [Services -> Container \cup {Gone}]
         /\ healthy' \in BOOLEAN
         /\ origin' \in OriginType
<1>1. Started(p) \in [Services -> Container \cup {Gone}]
  BY DEF Started, TypeOK, Pair, Container
<1>2. CASE UpSucceeds(p)
  BY <1>1, <1>2 DEF UpSucceeds, TypeOK, OriginType
<1>3. CASE UpFails(p)
  <2>1. ctr' \in [Services -> Container \cup {Gone}] BY <1>3 DEF UpFails, PartlyStarted
  <2>2. healthy' \in BOOLEAN BY <1>3 DEF UpFails
  <2>3. (origin.recreated \/ ctr' # ctr) \in BOOLEAN BY DEF TypeOK, OriginType
  <2> QED BY <1>3, <2>1, <2>2, <2>3 DEF UpFails, TypeOK, OriginType
<1> QED BY <1>2, <1>3

\* Moving on in a job.
LEMMA JobMoves ==
  ASSUME TypeOK, NEW place \in Places
  PROVE  [job EXCEPT !.at = place] \in JobType
BY DEF TypeOK, JobType

\* So a step that goes to a place, or ends the job, keeps the job in its type.
LEMMA GotoType ==
  ASSUME TypeOK, NEW place \in Places, Goto(place)
  PROVE  job' \in JobType
BY JobMoves DEF Goto

\* Ending the job is going idle.
LEMMA EndType == TypeOK /\ EndJob => job' \in JobType
BY JobMoves DEF EndJob, Places

\* Publishing a phase.
LEMMA PublishType ==
  ASSUME TypeOK, NEW phase \in Active \cup Settled, 
         NEW detail \in {"none", "refused", "restored", "unverified", "interrupted", "failed"},
         Publish(phase, detail)
  PROVE  status' \in StatusType
BY DEF TypeOK, StatusType, Publish

\* Calling restore_release, and the two handlers that do.
LEMMA RestoreType ==
  ASSUME TypeOK, NEW p \in Pair, NEW then \in Returns,
         NEW phase \in Active \cup Settled \cup {"idle"}, Restore(p, then, phase)
  PROVE  job' \in JobType /\ status' \in StatusType
BY DEF TypeOK, StatusType, JobType, Restore, Places

\* Refusing a job.
LEMMA RefuseType ==
  ASSUME TypeOK, job.before # None \/ ~job.tried, Refuse
  PROVE  job' \in JobType /\ status' \in StatusType
<1>1. CASE job.tried
  <2>1. job.before \in Pair BY <1>1 DEF TypeOK, JobType
  <2>2. status.phase \in Active \cup Settled \cup {"idle"} BY DEF TypeOK, StatusType
  <2>3. "refused" \in Returns BY DEF Returns
  <2>4. Restore(job.before, "refused", status.phase) BY <1>1, Zenon DEF Refuse
  <2> QED BY <2>1, <2>2, <2>3, <2>4, RestoreType
<1>2. CASE ~job.tried
  <2>1. EndJob /\ Publish("failed", "refused") BY <1>2, Zenon DEF Refuse
  <2> QED BY <2>1, EndType, PublishType DEF Settled
<1> QED BY <1>1, <1>2

\* Undoing a switch.
LEMMA UndoType ==
  ASSUME TypeOK, job.before # None,
         NEW phase \in Active \cup Settled \cup {"idle"}, Undo(phase)
  PROVE  job' \in JobType /\ status' \in StatusType
<1>1. job.before \in Pair BY DEF TypeOK, JobType
<1>2. PICK then \in Returns, ph \in Active \cup Settled \cup {"idle"} :
        Restore(job.before, then, ph)
  BY DEF Undo, Returns, Settled
<1> QED BY <1>1, <1>2, RestoreType

\* Returning from it.
LEMMA ReturnedType ==
  ASSUME TypeOK, job.before # None, NEW ok \in BOOLEAN, Returned(ok)
  PROVE  job' \in JobType /\ status' \in StatusType
<1>1. job' \in JobType
  <2>1. CASE job.then # "local"
    <3>1. job' = [job EXCEPT !.at = "idle"] BY <2>1 DEF Returned
    <3> QED BY <3>1, JobMoves DEF Places
  <2>2. CASE job.then = "local"
    <3>1. PICK place \in {"finish", "fetch"} : job' = [job EXCEPT !.at = place, !.tried = ~ok]
      BY <2>2 DEF Returned
    <3> QED BY <3>1 DEF TypeOK, JobType, Places
  <2> QED BY <2>1, <2>2
<1>2. SnapshotVersion(job.before) \in Versions
  BY PairVersion DEF TypeOK, JobType
<1>3. job.then \in Returns BY DEF TypeOK, JobType
<1>4. status' \in StatusType
  BY <1>2, <1>3 DEF TypeOK, StatusType, Returned, Returns, Settled
<1> QED BY <1>1, <1>4

\* Every step of a job keeps every variable in its type, as long as jobs are
\* where they can be (a switch needs the version it switches to).
LEMMA ReleaseTypes == TypeOK /\ PlacesFit /\ Release => TypeOK'
<1> SUFFICES ASSUME TypeOK, PlacesFit, Release PROVE TypeOK'
  OBVIOUS
<1> USE DEF Active, Settled, Places, counters, SwitchPlaces, RestorePlaces
<1>0. /\ job.at \in {"stage", "build", "switch", "verify"} => Uniform(job.target) \in Pair
      /\ job.at \in SwitchPlaces \cup RestorePlaces => job.before \in Pair
      /\ job.at \in RestorePlaces => job.to \in Pair
  BY DEF TypeOK, JobType, PlacesFit, Uniform, Pair
<1>1. CASE BeginRelease
  <2>1. job' \in JobType
    BY <1>1 DEF BeginRelease, JobType, NoJob, Returns, ReleaseKinds
  <2>2. status' \in StatusType BY <1>1 DEF BeginRelease, TypeOK, StatusType
  <2>3. origin' \in OriginType BY <1>1 DEF BeginRelease, TypeOK, OriginType, StatusType
  <2> QED BY <1>1, <2>1, <2>2, <2>3 DEF BeginRelease, TypeOK
<1>2. CASE Prepare
  <2>1. Images \in Pair BY <1>2, ImagesType DEF Prepare
  <2>2. backups' \in Seq(Settings) BY <1>2 DEF Prepare, TypeOK
  <2>3. job' \in JobType
    <3>1. CASE LocalRollback
      <4>1. status.retained \in Pair BY <3>1 DEF LocalRollback, TypeOK, StatusType
      <4> DEFINE here == [job EXCEPT !.before = Images]
      <4>2. here \in JobType BY <2>1 DEF TypeOK, JobType
      <4>3. job' = [here EXCEPT !.at = "restore", !.to = status.retained, !.then = "local"]
        BY <1>2, <3>1 DEF Prepare
      <4> HIDE DEF here
      <4> QED BY <4>1, <4>2, <4>3 DEF JobType, Returns
    <3>2. CASE ~LocalRollback
      BY <1>2, <2>1, <3>2 DEF Prepare, TypeOK, JobType
    <3> QED BY <3>1, <3>2
  <2>4. status' \in StatusType BY <1>2 DEF Prepare, TypeOK, StatusType
  <2> QED BY <1>2, <2>2, <2>3, <2>4 DEF Prepare, TypeOK
<1>3. CASE PrepareFails
  BY <1>3, EndType, PublishType DEF PrepareFails, TypeOK
<1>4. CASE Fetch
  BY <1>4, GotoType, PublishType DEF Fetch, TypeOK
<1>5. CASE FetchFails
  BY <1>5, <1>0, NullsAssumption, RefuseType DEF FetchFails, Refuse, TypeOK
<1>6. CASE Stage
  BY <1>6, GotoType, PublishType DEF Stage, TypeOK
<1>7. CASE StageFails
  BY <1>7, RefuseType, PlacesFit DEF StageFails, Refuse, TypeOK, PlacesFit
<1>8. CASE Build
  <2>1. status' \in StatusType BY <1>8 DEF Build, TypeOK, StatusType
  <2> QED BY <1>8, <2>1, GotoType DEF Build, TypeOK
<1>9. CASE BuildFails
  BY <1>9, UndoType DEF BuildFails, TypeOK, PlacesFit
<1>10. CASE Switch
  <2>1. job' \in JobType /\ status' \in StatusType
    BY <1>10, GotoType, PublishType DEF Switch
  <2> QED BY <1>0, <1>10, <2>1, UpType DEF Switch, TypeOK
<1>11. CASE SwitchFails
  <2>1. job' \in JobType /\ status' \in StatusType
    BY <1>11, UndoType DEF SwitchFails, PlacesFit
  <2> QED BY <1>0, <1>11, <2>1, UpType DEF SwitchFails, TypeOK
<1>12. CASE Verify
  <2>1. CASE job.kind = "update"
    <3>1. status' \in StatusType
      <4>1. job.target \in Versions \cup {None} /\ job.before \in Pair \cup {None}
        BY DEF TypeOK, JobType
      <4>2. status' = [phase |-> "complete", detail |-> "none", changed |-> TRUE,
                       restored |-> FALSE, current |-> job.target, retained |-> job.before]
        BY <1>12, <2>1 DEF Verify
      <4> QED BY <4>1, <4>2 DEF StatusType
    <3> QED BY <1>12, <2>1, <3>1, EndType DEF Verify, TypeOK
  <2>2. CASE job.kind # "update"
    BY <1>12, <2>2, GotoType DEF Verify, TypeOK
  <2> QED BY <2>1, <2>2
<1>13. CASE VerifyFails
  BY <1>13, UndoType DEF VerifyFails, TypeOK, PlacesFit, StatusType
<1>14. CASE Finish
  <2>1. status.retained # None => SnapshotVersion(status.retained) \in Versions
    BY PairVersion DEF TypeOK, StatusType
  <2>2. status' \in StatusType
    BY <1>0, <1>14, <2>1 DEF Finish, TypeOK, StatusType, JobType, LocalRollback
  <2> QED BY <1>14, <2>2, EndType DEF Finish, TypeOK
<1>15. CASE RestoreUp
  BY <1>0, <1>15, UpType, GotoType DEF RestoreUp, TypeOK
<1>16. CASE RestoreUpFails
  <2>1. job' \in JobType /\ status' \in StatusType
    BY <1>16, GotoType, PublishType DEF RestoreUpFails
  <2> QED BY <1>0, <1>16, <2>1, UpType DEF RestoreUpFails, TypeOK
<1>17. CASE RestoreVerify
  BY <1>17, ReturnedType DEF RestoreVerify, TypeOK, PlacesFit
<1>18. CASE RestoreVerifyFails
  BY <1>18, GotoType DEF RestoreVerifyFails, TypeOK
<1>19. CASE RestoreFailed
  BY <1>19, ReturnedType DEF RestoreFailed, TypeOK, PlacesFit
<1> QED
  BY <1>1, <1>2, <1>3, <1>4, <1>5, <1>6, <1>7, <1>8, <1>9, <1>10, <1>11, <1>12, <1>13,
     <1>14, <1>15, <1>16, <1>17, <1>18, <1>19 DEF Release

\* The same for the recovery actions.
LEMMA RecoveryTypes == TypeOK /\ PlacesFit /\ Recovery => TypeOK'
<1> SUFFICES ASSUME TypeOK, PlacesFit, Recovery PROVE TypeOK'
  OBVIOUS
<1> USE DEF Active, Settled, Places, counters, RepairPlaces
<1>0. job.at \in RepairPlaces => job.before \in Pair
  BY DEF TypeOK, JobType, PlacesFit
<1>1. CASE BeginRecovery
  <2>1. job' \in JobType
    BY <1>1 DEF BeginRecovery, JobType, NoJob, Returns, RecoveryKinds
  <2>2. origin' \in OriginType BY <1>1 DEF BeginRecovery, TypeOK, OriginType, StatusType
  <2> QED BY <1>1, <2>1, <2>2, PublishType DEF BeginRecovery, TypeOK
<1>2. CASE Reset
  <2>1. job' \in JobType BY <1>2 DEF Reset, TypeOK, JobType
  <2> QED BY <1>2, <2>1 DEF Reset, TypeOK, Settings
<1>3. CASE ResetDone
  <2>1. ctr["bot"] # Gone => ctr["bot"].image \in Versions
    BY DEF TypeOK, Container, Services
  <2>2. PICK v \in Versions \cup {None} :
          status' = [status EXCEPT !.phase = "complete", !.current = v]
    BY <1>3, <2>1 DEF ResetDone
  <2>3. status' \in StatusType BY <2>2 DEF TypeOK, StatusType
  <2> QED BY <1>3, <2>3, EndType DEF ResetDone, TypeOK
<1>4. CASE RecoverFails
  BY <1>4, EndType, PublishType DEF RecoverFails, TypeOK
<1>5. CASE Recover
  <2>1. Images \in Pair BY <1>5, ImagesType DEF Recover
  <2>2. Wanted \subseteq Settings
    BY DEF Wanted, TypeOK, Settings
  <2>3. backups' \in Seq(Settings) BY <1>5 DEF Recover, TypeOK
  <2>4. job' \in JobType
    <3>1. PICK b \in Settings \cup {None} :
            job' = [job EXCEPT !.at = "recreate", !.before = Images, !.backup = b]
      <4>1. \/ job' = [job EXCEPT !.at = "recreate", !.before = Images, !.backup = settings]
            \/ job' = [job EXCEPT !.at = "recreate", !.before = Images]
        BY <1>5 DEF Recover
      <4>2. [job EXCEPT !.at = "recreate", !.before = Images]
              = [job EXCEPT !.at = "recreate", !.before = Images, !.backup = job.backup]
        BY DEF TypeOK, JobType
      <4> QED BY <4>1, <4>2 DEF TypeOK, JobType
    <3> QED BY <2>1, <3>1 DEF TypeOK, JobType
  <2>5. status' \in StatusType BY <1>5 DEF Recover, TypeOK, StatusType
  <2> QED BY <1>5, <2>2, <2>3, <2>4, <2>5 DEF Recover, TypeOK
<1>6. CASE NoBackupYet
  BY <1>6, EndType, PublishType DEF NoBackupYet, TypeOK
<1>7. CASE Recreate
  <2>1. job' \in JobType /\ status' \in StatusType
    BY <1>7, GotoType, PublishType DEF Recreate
  <2> QED BY <1>0, <1>7, <2>1, UpType DEF Recreate, TypeOK
<1>8. CASE RecreateFails
  <2>1. job' \in JobType /\ status' \in StatusType
    BY <1>8, GotoType, PublishType DEF RecreateFails
  <2> QED BY <1>0, <1>8, <2>1, UpType DEF RecreateFails, TypeOK
<1>9. CASE RecoverVerify
  <2>1. SnapshotVersion(job.before) \in Versions
    BY <1>0, <1>9, PairVersion DEF RecoverVerify
  <2>2. status' \in StatusType BY <1>9, <2>1 DEF RecoverVerify, TypeOK, StatusType
  <2> QED BY <1>9, <2>2, EndType DEF RecoverVerify, TypeOK
<1>10. CASE RecoverVerifyFails
  BY <1>10, GotoType DEF RecoverVerifyFails, TypeOK
<1>11. CASE RecoveryFailed
  <2>1. settings' \in Settings BY <1>11 DEF RecoveryFailed, TypeOK, JobType
  <2>2. job' \in JobType /\ status' \in StatusType
    <3>1. CASE job.before # None /\ Images # job.before
      <4>1. /\ job.before \in Pair
            /\ status.phase \in Active \cup Settled \cup {"idle"}
            /\ "recovery" \in Returns
        BY <3>1 DEF TypeOK, JobType, StatusType, Returns
      <4>2. Restore(job.before, "recovery", status.phase)
        BY <1>11, <3>1, Zenon DEF RecoveryFailed
      <4> QED BY <4>1, <4>2, RestoreType
    <3>2. CASE ~(job.before # None /\ Images # job.before)
      <4>1. EndJob /\ Publish("failed", "failed")
        BY <1>11, <3>2, Zenon DEF RecoveryFailed
      <4> QED BY <4>1, EndType, PublishType
    <3> QED BY <3>1, <3>2
  <2> QED BY <1>11, <2>1, <2>2 DEF RecoveryFailed, TypeOK
<1> QED
  BY <1>1, <1>2, <1>3, <1>4, <1>5, <1>6, <1>7, <1>8, <1>9, <1>10, <1>11 DEF Recovery

\* And for every step.
LEMMA StepTypes == TypeOK /\ PlacesFit /\ [Next]_vars => TypeOK'
<1> SUFFICES ASSUME TypeOK, PlacesFit, [Next]_vars PROVE TypeOK'
  OBVIOUS
<1>1. CASE Crash
  BY <1>1, GotoType DEF TypeOK, Crash, Places
<1>2. CASE StartWorker
  BY <1>2, EndType, PublishType DEF TypeOK, StartWorker, counters, Settled
<1>3. CASE EditSettings
  BY <1>3 DEF TypeOK, EditSettings, Container, Services, Settings
<1>4. CASE UNCHANGED vars BY <1>4 DEF TypeOK, vars
<1> QED BY <1>1, <1>2, <1>3, <1>4, ReleaseTypes, RecoveryTypes DEF Next

-----------------------------------------------------------------------------
(* What the building blocks of the actions leave alone                     *)

\* Moving on changes the place only.
LEMMA GotoFrame ==
  ASSUME TypeOK, NEW place \in Places, Goto(place)
  PROVE  /\ job'.at = place /\ job'.kind = job.kind /\ job'.target = job.target
         /\ job'.named = job.named /\ job'.before = job.before /\ job'.tried = job.tried
         /\ job'.to = job.to /\ job'.then = job.then /\ job'.backup = job.backup
BY DEF TypeOK, JobType, Goto

\* So does ending the job.
LEMMA EndFrame ==
  ASSUME TypeOK, EndJob
  PROVE  /\ job'.at = "idle" /\ job'.kind = job.kind /\ job'.target = job.target
         /\ job'.named = job.named /\ job'.before = job.before /\ job'.tried = job.tried
         /\ job'.to = job.to /\ job'.then = job.then
BY DEF TypeOK, JobType, EndJob

\* Publishing a phase leaves the announcement and the retained pair alone.
LEMMA PublishFrame ==
  ASSUME TypeOK, NEW phase, NEW detail, Publish(phase, detail)
  PROVE  /\ status'.phase = phase /\ status'.detail = detail
         /\ status'.changed = status.changed /\ status'.retained = status.retained
BY DEF TypeOK, StatusType, Publish

\* Calling restore_release announces the change.
LEMMA RestoreFrame ==
  ASSUME TypeOK, NEW p, NEW then, NEW phase, Restore(p, then, phase)
  PROVE  /\ job'.at = "restore" /\ job'.to = p /\ job'.then = then /\ job'.kind = job.kind
         /\ job'.target = job.target /\ job'.before = job.before /\ job'.tried = job.tried
         /\ status'.phase = phase /\ status'.changed = TRUE
         /\ status'.detail = status.detail /\ status'.retained = status.retained
BY DEF TypeOK, JobType, StatusType, Restore

\* A refusal ends the job, or puts the running pair back first.
LEMMA RefuseFrame ==
  ASSUME TypeOK, Refuse
  PROVE  /\ job'.kind = job.kind /\ job'.target = job.target /\ job'.before = job.before
         /\ job'.tried = job.tried /\ status'.retained = status.retained
         /\ job.tried => /\ job'.at = "restore" /\ job'.to = job.before
                         /\ job'.then = "refused" /\ status'.changed = TRUE
                         /\ status'.phase = status.phase /\ status'.detail = status.detail
         /\ ~job.tried => /\ job'.at = "idle" /\ status'.changed = status.changed
                          /\ status'.phase = "failed" /\ status'.detail = "refused"
<1>1. CASE job.tried
  <2>1. Restore(job.before, "refused", status.phase) BY <1>1, Zenon DEF Refuse
  <2> QED BY <1>1, <2>1, RestoreFrame
<1>2. CASE ~job.tried
  <2>1. EndJob /\ Publish("failed", "refused") BY <1>2, Zenon DEF Refuse
  <2> QED BY <1>2, <2>1, EndFrame, PublishFrame
<1> QED BY <1>1, <1>2

\* Undoing a switch always does.
LEMMA UndoFrame ==
  ASSUME TypeOK, NEW phase, Undo(phase)
  PROVE  /\ job'.kind = job.kind /\ job'.target = job.target /\ job'.before = job.before
         /\ job'.tried = job.tried /\ job'.at = "restore" /\ job'.to = job.before
         /\ job'.then \in {"update_undone", "rollback_undone"}
         /\ status'.retained = status.retained /\ status'.changed = TRUE
         /\ status'.phase \in {"failed", phase} /\ status'.detail = status.detail
<1> DEFINE then == IF job.kind = "update" THEN "update_undone" ELSE "rollback_undone"
           ph   == IF job.kind = "update" THEN "failed" ELSE phase
<1>1. Restore(job.before, then, ph) BY DEF Undo
<1>2. then \in {"update_undone", "rollback_undone"} /\ ph \in {"failed", phase} OBVIOUS
<1> HIDE DEF then, ph
<1> QED BY <1>1, <1>2, RestoreFrame

\* What the caller of restore_release does with its answer.
LEMMA ReturnedFrame ==
  ASSUME TypeOK, NEW ok \in BOOLEAN, Returned(ok)
  PROVE  /\ job'.kind = job.kind /\ job'.target = job.target /\ job'.before = job.before
         /\ job'.then = job.then
         /\ job.then # "local" => job'.at = "idle" /\ job'.tried = job.tried
         /\ job.then = "local" => /\ job'.at = IF ok THEN "finish" ELSE "fetch"
                                  /\ job'.tried = ~ok
         /\ status'.retained = status.retained /\ status'.changed = status.changed
         /\ job.then = "local" => /\ status'.phase = status.phase
                                  /\ status'.detail = status.detail
         /\ job.then # "local" => status'.phase = "failed"
         /\ status'.detail = "restored" /\ job.then # "local" => ok
         /\ status'.detail = "refused" /\ job.then # "local" => job.then = "refused"
<1>1. job.then \in Returns BY DEF TypeOK, JobType
<1>2. /\ job'.kind = job.kind /\ job'.target = job.target /\ job'.before = job.before
      /\ job'.then = job.then
      /\ job.then # "local" => job'.at = "idle" /\ job'.tried = job.tried
      /\ job.then = "local" => /\ job'.at = IF ok THEN "finish" ELSE "fetch"
                               /\ job'.tried = ~ok
  BY DEF Returned, TypeOK, JobType
<1>3. /\ status'.retained = status.retained /\ status'.changed = status.changed
      /\ job.then = "local" => /\ status'.phase = status.phase
                               /\ status'.detail = status.detail
      /\ job.then # "local" => status'.phase = "failed"
  BY <1>1 DEF Returned, Returns, TypeOK, StatusType
<1>4. /\ status'.detail = "restored" /\ job.then # "local" => ok
      /\ status'.detail = "refused" /\ job.then # "local" => job.then = "refused"
  BY <1>1 DEF Returned, Returns, TypeOK, StatusType
<1> QED BY <1>2, <1>3, <1>4

\* Preparing a release job records the running pair.
LEMMA PrepareFrame ==
  ASSUME TypeOK, Prepare
  PROVE  /\ job'.kind = job.kind /\ job'.target = job.target /\ job'.before = Images
         /\ job'.tried = job.tried /\ status'.retained = status.retained
         /\ status'.detail = status.detail
         /\ \/ /\ LocalRollback /\ job'.at = "restore" /\ job'.to = status.retained
               /\ job'.then = "local" /\ status'.changed = TRUE
               /\ status'.phase = "restarting"
            \/ job'.at = "fetch" /\ status' = status
<1> DEFINE here == [job EXCEPT !.before = Images]
<1>1. CASE LocalRollback
  <2>1. /\ job' = [here EXCEPT !.at = "restore", !.to = status.retained, !.then = "local"]
        /\ status' = [status EXCEPT !.phase = "restarting", !.changed = TRUE]
    BY <1>1 DEF Prepare
  <2> QED BY <1>1, <2>1 DEF TypeOK, JobType, StatusType
<1>2. CASE ~LocalRollback
  <2>1. job' = [here EXCEPT !.at = "fetch"] /\ status' = status
    BY <1>2 DEF Prepare
  <2> QED BY <2>1 DEF TypeOK, JobType, StatusType
<1> QED BY <1>1, <1>2

\* So does a recovery action that recreates the containers.
LEMMA RecoverFrame ==
  ASSUME TypeOK, Recover
  PROVE  /\ job'.kind = job.kind /\ job'.target = job.target /\ job'.before = Images
         /\ job'.tried = job.tried /\ job'.at = "recreate"
         /\ status'.retained = status.retained /\ status'.detail = status.detail
         /\ status'.phase = "restarting" /\ status'.changed = TRUE
<1>1. \/ job' = [job EXCEPT !.at = "recreate", !.before = Images, !.backup = settings]
      \/ job' = [job EXCEPT !.at = "recreate", !.before = Images]
  BY DEF Recover
<1>2. status' = [status EXCEPT !.phase = "restarting", !.changed = TRUE]
  BY DEF Recover
<1> QED BY <1>1, <1>2 DEF TypeOK, JobType, StatusType

\* A failed recovery ends, or puts the pair it found back first.
LEMMA RecoveryFailedFrame ==
  ASSUME TypeOK, RecoveryFailed
  PROVE  /\ job'.kind = job.kind /\ job'.target = job.target /\ job'.before = job.before
         /\ job'.tried = job.tried /\ status'.retained = status.retained
         /\ \/ /\ job.before # None /\ job'.at = "restore" /\ job'.to = job.before
               /\ job'.then = "recovery" /\ status'.changed = TRUE
               /\ status'.phase = status.phase /\ status'.detail = status.detail
            \/ /\ job'.at = "idle" /\ status'.changed = status.changed
               /\ status'.phase = "failed" /\ status'.detail = "failed"
<1>1. CASE job.before # None /\ Images # job.before
  <2>1. Restore(job.before, "recovery", status.phase) BY <1>1, Zenon DEF RecoveryFailed
  <2> QED BY <1>1, <2>1, RestoreFrame
<1>2. CASE ~(job.before # None /\ Images # job.before)
  <2>1. EndJob /\ Publish("failed", "failed") BY <1>2, Zenon DEF RecoveryFailed
  <2> QED BY <2>1, EndFrame, PublishFrame
<1> QED BY <1>1, <1>2

-----------------------------------------------------------------------------
(* Where jobs can be                                                       *)

\* The actions of the release jobs keep PlacesFit.
LEMMA ReleasePlaces == TypeOK /\ PlacesFit /\ Release => PlacesFit'
<1> SUFFICES ASSUME TypeOK, PlacesFit, Release PROVE PlacesFit'
  OBVIOUS
<1> USE DEF SwitchPlaces, RestorePlaces, RepairPlaces, Places
<1>0. None \notin Pair BY NullsAssumption
<1>1. CASE BeginRelease
  BY <1>1 DEF BeginRelease, NoJob, PlacesFit, ReleaseKinds
<1>2. CASE Prepare
  <2>1. AllUp /\ job.at = "prepare" BY <1>2 DEF Prepare
  <2>2. Images # None BY <1>0, <2>1, ImagesType
  <2> QED BY <1>2, <2>1, <2>2, PrepareFrame DEF LocalRollback, PlacesFit
<1>3. CASE PrepareFails
  BY <1>3, EndFrame DEF PrepareFails, PlacesFit
<1>4. CASE Fetch
  BY <1>4, GotoFrame DEF Fetch, PlacesFit
<1>5. CASE FetchFails
  BY <1>5, RefuseFrame DEF FetchFails, PlacesFit
<1>6. CASE Stage
  BY <1>6, GotoFrame DEF Stage, PlacesFit
<1>7. CASE StageFails
  BY <1>7, RefuseFrame DEF StageFails, PlacesFit
<1>8. CASE Build
  BY <1>8, GotoFrame DEF Build, PlacesFit
<1>9. CASE BuildFails
  BY <1>9, UndoFrame DEF BuildFails, PlacesFit
<1>10. CASE Switch
  BY <1>10, GotoFrame DEF Switch, PlacesFit
<1>11. CASE SwitchFails
  BY <1>11, UndoFrame DEF SwitchFails, PlacesFit
<1>12. CASE Verify
  BY <1>12, GotoFrame, EndFrame DEF Verify, PlacesFit, ReleaseKinds
<1>13. CASE VerifyFails
  BY <1>13, UndoFrame DEF VerifyFails, PlacesFit
<1>14. CASE Finish
  BY <1>14, EndFrame DEF Finish, PlacesFit
<1>15. CASE RestoreUp
  BY <1>15, GotoFrame DEF RestoreUp, PlacesFit
<1>16. CASE RestoreUpFails
  BY <1>16, GotoFrame, PublishFrame DEF RestoreUpFails, PlacesFit
<1>17. CASE RestoreVerify
  BY <1>17, ReturnedFrame DEF RestoreVerify, PlacesFit, ReleaseKinds
<1>18. CASE RestoreVerifyFails
  BY <1>18, GotoFrame DEF RestoreVerifyFails, PlacesFit
<1>19. CASE RestoreFailed
  BY <1>19, ReturnedFrame DEF RestoreFailed, PlacesFit, ReleaseKinds
<1> QED
  BY <1>1, <1>2, <1>3, <1>4, <1>5, <1>6, <1>7, <1>8, <1>9, <1>10, <1>11, <1>12, <1>13,
     <1>14, <1>15, <1>16, <1>17, <1>18, <1>19 DEF Release

\* So does every step.
LEMMA StepPlaces == TypeOK /\ PlacesFit /\ [Next]_vars => PlacesFit'
<1> SUFFICES ASSUME TypeOK, PlacesFit, [Next]_vars PROVE PlacesFit'
  OBVIOUS
<1> USE DEF SwitchPlaces, RestorePlaces, RepairPlaces, Places
<1>0. None \notin Pair BY NullsAssumption
<1>1. CASE BeginRecovery
  BY <1>1 DEF BeginRecovery, NoJob, PlacesFit, RecoveryKinds
<1>2. CASE Reset
  BY <1>2 DEF Reset, PlacesFit, TypeOK, JobType
<1>3. CASE ResetDone
  BY <1>3, EndFrame DEF ResetDone, PlacesFit
<1>4. CASE RecoverFails
  BY <1>4, EndFrame DEF RecoverFails, PlacesFit
<1>5. CASE Recover
  <2>1. AllUp /\ job.at = "recover" /\ job.kind # "settings_reset" BY <1>5 DEF Recover
  <2>2. Images # None BY <1>0, <2>1, ImagesType
  <2> QED BY <1>5, <2>1, <2>2, RecoverFrame DEF PlacesFit
<1>6. CASE NoBackupYet
  BY <1>6, EndFrame DEF NoBackupYet, PlacesFit
<1>7. CASE Recreate
  BY <1>7, GotoFrame DEF Recreate, PlacesFit
<1>8. CASE RecreateFails
  BY <1>8, GotoFrame DEF RecreateFails, PlacesFit
<1>9. CASE RecoverVerify
  BY <1>9, EndFrame DEF RecoverVerify, PlacesFit
<1>10. CASE RecoverVerifyFails
  BY <1>10, GotoFrame DEF RecoverVerifyFails, PlacesFit
<1>11. CASE RecoveryFailed
  BY <1>11, RecoveryFailedFrame DEF RecoveryFailed, PlacesFit
<1>12. CASE Crash
  BY <1>12, GotoFrame DEF Crash, PlacesFit
<1>13. CASE StartWorker
  BY <1>13, EndFrame DEF StartWorker, PlacesFit
<1>14. CASE EditSettings
  BY <1>14 DEF EditSettings, PlacesFit
<1>15. CASE UNCHANGED vars
  BY <1>15 DEF vars, PlacesFit
<1> QED
  BY <1>1, <1>2, <1>3, <1>4, <1>5, <1>6, <1>7, <1>8, <1>9, <1>10, <1>11, <1>12, <1>13,
     <1>14, <1>15, ReleasePlaces DEF Next, Recovery

\* Every variable keeps its type in every behaviour, and every job is where a
\* job of its kind can be: containers, status file and job locals never hold a
\* value the code could not have put there.
THEOREM ReleaseTypeCorrect == Spec => [](TypeOK /\ PlacesFit)
<1>1. Init => TypeOK /\ PlacesFit
  BY InstalledAssumption DEF Init, TypeOK, PlacesFit, NoJob, StatusType, JobType, OriginType, Places, Returns,
         Container, Settings, SwitchPlaces, RestorePlaces, RepairPlaces, Services
<1>2. TypeOK /\ PlacesFit /\ [Next]_vars => (TypeOK /\ PlacesFit)'
  BY StepTypes, StepPlaces
<1> QED BY <1>1, <1>2, PTL DEF Spec

-----------------------------------------------------------------------------
(* What a step does to the deployment and to the record of it              *)

Begins == BeginRelease \/ BeginRecovery
Ups    == \/ Switch \/ SwitchFails \/ RestoreUp \/ RestoreUpFails
          \/ Recreate \/ RecreateFails

\* Other steps change neither what the containers run nor their health: a user
\* who edits the settings reaches the bot's settings, never its image.
LEMMA KeptStep ==
  ASSUME TypeOK, [Next]_vars, ~Begins, ~Ups
  PROVE  origin' = origin /\ OriginImages' = OriginImages
         /\ Images' = Images /\ healthy' = healthy
<1>1. CASE EditSettings
  <2>1. ctr["bot"] # Gone /\ UNCHANGED <<origin, healthy>> BY <1>1 DEF EditSettings
  <2>2. ctr \in [Services -> Container \cup {Gone}] /\ ctr["bot"] \in Container
    BY <2>1 DEF TypeOK, Services
  <2>3. PICK c \in UserSettings : ctr' = [ctr EXCEPT !["bot"].cfg = c]
    BY <1>1 DEF EditSettings
  <2>4. ctr'["bot"] \in Container /\ ctr'["bot"].image = ctr["bot"].image
    BY <2>2, <2>3 DEF Container, Settings, Services
  <2>5. ctr'["agent"] = ctr["agent"] BY <2>2, <2>3 DEF Services
  <2>6. \A s \in Services : Image(ctr'[s]) = Image(ctr[s])
    BY <2>1, <2>4, <2>5, NullsAssumption DEF Services, Image
  <2> QED BY <2>1, <2>6 DEF Images, OriginImages
<1>2. CASE ~EditSettings
  <2>1. UNCHANGED <<ctr, healthy, origin>>
    BY <1>2 DEF Next, Release, Recovery, Begins, Ups, Prepare, PrepareFails, Fetch,
       FetchFails, Stage, StageFails, Refuse, Build, BuildFails, Verify, VerifyFails, Finish,
       RestoreVerify, RestoreVerifyFails, RestoreFailed, Reset, ResetDone, RecoverFails,
       Recover, NoBackupYet, RecoverVerify, RecoverVerifyFails, RecoveryFailed, Crash,
       StartWorker, vars
  <2> QED BY <2>1 DEF Images, OriginImages
<1> QED BY <1>1, <1>2

\* A job begins by recording the deployment it finds.
LEMMA BeginStep ==
  ASSUME TypeOK, Begins
  PROVE  /\ Images' = Images /\ OriginImages' = Images /\ origin'.recreated = FALSE
         /\ origin'.retained = status.retained /\ job'.before = None
         /\ job'.at \in {"prepare", "recover"} /\ status'.detail = "none"
         /\ status'.phase = "checking" /\ status'.retained = status.retained
<1>1. UNCHANGED ctr /\ origin' = [ctr |-> ctr, healthy |-> healthy,
        retained |-> status.retained, settings |-> settings, edits |-> edits,
        recreated |-> FALSE]
  BY DEF Begins, BeginRelease, BeginRecovery
<1>2. Images' = Images BY <1>1 DEF Images
<1>3. /\ OriginImages' = Images /\ origin'.recreated = FALSE
      /\ origin'.retained = status.retained
  BY <1>1 DEF OriginImages, Images
<1>4. job'.before = None /\ job'.at \in {"prepare", "recover"}
  BY DEF Begins, BeginRelease, BeginRecovery, NoJob
<1>5. /\ status'.detail = "none" /\ status'.phase = "checking"
      /\ status'.retained = status.retained
  BY DEF Begins, BeginRelease, BeginRecovery, Publish, TypeOK, StatusType
<1> QED BY <1>2, <1>3, <1>4, <1>5

\* docker compose does not touch the record, except that it was called.
LEMMA UpStep ==
  ASSUME TypeOK, NEW p \in Pair, UpSucceeds(p) \/ UpFails(p)
  PROVE  /\ OriginImages' = OriginImages /\ origin'.retained = origin.retained
         /\ ~origin'.recreated => ~origin.recreated /\ Images' = Images
         /\ UpSucceeds(p) => Images' = p
<1>1. /\ origin'.ctr = origin.ctr /\ origin'.retained = origin.retained
      /\ ~origin'.recreated => ~origin.recreated /\ ctr' = ctr
  BY DEF UpSucceeds, UpFails, TypeOK, OriginType
<1>2. OriginImages' = OriginImages BY <1>1 DEF OriginImages
<1>3. ctr' = ctr => Images' = Images BY DEF Images
<1>4. UpSucceeds(p) => Images' = p
  <2> SUFFICES ASSUME UpSucceeds(p) PROVE Images' = p
    OBVIOUS
  <2>1. ASSUME NEW s \in Services PROVE Image(Started(p)[s]) = p[s]
    <3>1. Started(p)[s] = [image |-> p[s], cfg |-> settings] BY DEF Started
    <3>2. p[s] \in Versions /\ settings \in Settings BY DEF TypeOK, Pair
    <3>3. [image |-> p[s], cfg |-> settings] # Gone BY <3>2, NullsAssumption DEF Container
    <3> QED BY <3>1, <3>3 DEF Image
  <2>2. ctr' = Started(p) BY DEF UpSucceeds
  <2>3. Images' = [s \in Services |-> p[s]] BY <2>1, <2>2 DEF Images
  <2> QED BY <2>3 DEF Pair
<1> QED BY <1>1, <1>2, <1>3, <1>4

\* Which pair each call of docker compose asks for, and where it leads.
LEMMA UpsFrame ==
  ASSUME TypeOK, PlacesFit, Ups
  PROVE  /\ OriginImages' = OriginImages /\ origin'.retained = origin.retained
         /\ ~origin'.recreated => ~origin.recreated /\ Images' = Images
         /\ job.at \in {"switch", "restore", "recreate"}
         /\ job'.kind = job.kind /\ job'.target = job.target /\ job'.before = job.before
         /\ job'.at \in {"verify", "restore", "restore_verify", "restore_failed",
                         "recover_verify", "recovery_failed"}
         /\ job'.at = "verify" => Images' = Uniform(job.target)
         /\ status'.changed = status.changed \/ status'.changed = TRUE
         /\ status'.retained = status.retained /\ status'.detail \in {"none", status.detail}
         /\ status'.phase \in {status.phase, "failed", "verifying_runtime"}
<1> USE DEF Places
<1>0. /\ job.at = "switch" => Uniform(job.target) \in Pair
      /\ job.at = "recreate" => job.before \in Pair
      /\ job.at = "restore" => job.to \in Pair
  BY DEF TypeOK, JobType, PlacesFit, Uniform, Pair, SwitchPlaces, RepairPlaces, RestorePlaces
<1>1. CASE Switch
  BY <1>0, <1>1, UpStep, GotoFrame, PublishFrame DEF Switch
<1>2. CASE SwitchFails
  BY <1>0, <1>2, UpStep, UndoFrame DEF SwitchFails
<1>3. CASE RestoreUp
  BY <1>0, <1>3, UpStep, GotoFrame DEF RestoreUp
<1>4. CASE RestoreUpFails
  BY <1>0, <1>4, UpStep, GotoFrame, PublishFrame DEF RestoreUpFails
<1>5. CASE Recreate
  BY <1>0, <1>5, UpStep, GotoFrame, PublishFrame DEF Recreate
<1>6. CASE RecreateFails
  BY <1>0, <1>6, UpStep, GotoFrame, PublishFrame DEF RecreateFails
<1> QED BY <1>1, <1>2, <1>3, <1>4, <1>5, <1>6 DEF Ups

\* How a job moves on by any other step: what it may keep, where it may get
\* and what it must have published or seen before it gets there.
LEMMA MoveFrame ==
  ASSUME TypeOK, PlacesFit, [Next]_vars, ~Begins, ~Ups
  PROVE  /\ job'.kind = job.kind /\ job'.target = job.target
         /\ \/ job'.before = job.before
            \/ job'.before = Images /\ job.at \in {"prepare", "recover"}
         /\ job'.at \in {"prepare", "recover"} => job' = job
         /\ job'.at = "reset_done" => job.at \in {"recover", "reset_done"}
         /\ job.kind = "update" /\ job'.at \in {"fetch", "stage", "build", "switch"}
              => job.at \in {"prepare", "fetch", "stage", "build", "switch"}
         /\ job'.at = "verify" => job.at = "verify"
         /\ job'.at = "finish" =>
              \/ job.at = "finish"
              \/ job.at = "verify" /\ healthy /\ job.kind = "rollback"
              \/ /\ job.at = "restore_verify" /\ healthy /\ Images = job.to
                 /\ job.then = "local"
         /\ job'.at \in {"switch", "restore", "recreate"} =>
              \/ status'.changed = TRUE
              \/ job'.at = job.at /\ status' = status
         /\ job'.at # "idle" =>
              /\ job.at # "idle" /\ status'.detail \in {"none", status.detail}
              /\ status'.phase \in Active \cup {"failed", status.phase}
              /\ status'.retained = status.retained
         /\ status'.changed = status.changed \/ status'.changed = TRUE
<1> USE DEF Places, SwitchPlaces, RestorePlaces, RepairPlaces, Active
<1>1. CASE Prepare
  BY <1>1, PrepareFrame DEF Prepare, PlacesFit
<1>2. CASE PrepareFails
  BY <1>2, EndFrame, PublishFrame DEF PrepareFails
<1>3. CASE Fetch
  BY <1>3, GotoFrame, PublishFrame DEF Fetch
<1>4. CASE FetchFails
  BY <1>4, RefuseFrame DEF FetchFails
<1>5. CASE Stage
  BY <1>5, GotoFrame, PublishFrame DEF Stage
<1>6. CASE StageFails
  BY <1>6, RefuseFrame DEF StageFails
<1>7. CASE Build
  BY <1>7, GotoFrame DEF Build, TypeOK, StatusType
<1>8. CASE BuildFails
  BY <1>8, UndoFrame DEF BuildFails
<1>9. CASE Verify
  BY <1>9, GotoFrame, EndFrame DEF Verify, PlacesFit, ReleaseKinds
<1>10. CASE VerifyFails
  BY <1>10, UndoFrame DEF VerifyFails
<1>11. CASE Finish
  BY <1>11, EndFrame DEF Finish
<1>12. CASE RestoreVerify
  BY <1>12, ReturnedFrame DEF RestoreVerify, PlacesFit
<1>13. CASE RestoreVerifyFails
  BY <1>13, GotoFrame DEF RestoreVerifyFails
<1>14. CASE RestoreFailed
  BY <1>14, ReturnedFrame DEF RestoreFailed, PlacesFit
<1>15. CASE Reset
  BY <1>15 DEF Reset, TypeOK, JobType
<1>16. CASE ResetDone
  BY <1>16, EndFrame DEF ResetDone
<1>17. CASE RecoverFails
  BY <1>17, EndFrame, PublishFrame DEF RecoverFails
<1>18. CASE Recover
  BY <1>18, RecoverFrame DEF Recover
<1>19. CASE NoBackupYet
  BY <1>19, EndFrame, PublishFrame DEF NoBackupYet
<1>20. CASE RecoverVerify
  BY <1>20, EndFrame DEF RecoverVerify
<1>21. CASE RecoverVerifyFails
  BY <1>21, GotoFrame DEF RecoverVerifyFails
<1>22. CASE RecoveryFailed
  BY <1>22, RecoveryFailedFrame DEF RecoveryFailed
<1>23. CASE Crash
  BY <1>23, GotoFrame DEF Crash
<1>24. CASE StartWorker
  BY <1>24, EndFrame DEF StartWorker, Publish, TypeOK, StatusType
<1>25. CASE EditSettings \/ UNCHANGED vars
  BY <1>25 DEF EditSettings, vars
<1> QED
  BY <1>1, <1>2, <1>3, <1>4, <1>5, <1>6, <1>7, <1>8, <1>9, <1>10, <1>11, <1>12, <1>13,
     <1>14, <1>15, <1>16, <1>17, <1>18, <1>19, <1>20, <1>21, <1>22, <1>23, <1>24, <1>25
     DEF Next, Release, Recovery, Begins, Ups

-----------------------------------------------------------------------------
(* The inductive invariant, conjunct by conjunct                           *)

\* The pair a job puts back stays the pair it found.
LEMMA BeforeStep ==
  TypeOK /\ PlacesFit /\ BeforeIsOriginal /\ [Next]_vars => BeforeIsOriginal'
<1> SUFFICES ASSUME TypeOK, PlacesFit, BeforeIsOriginal, [Next]_vars
             PROVE  BeforeIsOriginal'
  OBVIOUS
<1>1. CASE Begins
  BY <1>1, BeginStep DEF BeforeIsOriginal
<1>2. CASE Ups
  BY <1>2, UpsFrame DEF BeforeIsOriginal
<1>3. CASE ~Begins /\ ~Ups
  BY <1>3, KeptStep, MoveFrame DEF BeforeIsOriginal
<1> QED BY <1>1, <1>2, <1>3

\* A job at work publishes no outcome, and leaves the retained pair alone.
LEMMA OutcomeStep ==
  TypeOK /\ PlacesFit /\ NoOutcomeYet /\ [Next]_vars => NoOutcomeYet'
<1> SUFFICES ASSUME TypeOK, PlacesFit, NoOutcomeYet, [Next]_vars
             PROVE  NoOutcomeYet'
  OBVIOUS
<1>1. CASE Begins
  BY <1>1, BeginStep DEF NoOutcomeYet
<1>2. CASE Ups
  BY <1>2, UpsFrame DEF NoOutcomeYet
<1>3. CASE ~Begins /\ ~Ups
  BY <1>3, KeptStep, MoveFrame DEF NoOutcomeYet, Active
<1> QED BY <1>1, <1>2, <1>3

\* What a job may announce is fixed while it runs.
LEMMA GoalsFrame ==
  ASSUME job'.kind = job.kind, job'.target = job.target,
         OriginImages' = OriginImages, origin'.retained = origin.retained
  PROVE  Goals' = Goals
BY DEF Goals

\* The containers run what the health checks of the switch are about.
LEMMA SwitchedStep ==
  TypeOK /\ PlacesFit /\ NoOutcomeYet /\ SwitchedTo /\ [Next]_vars => SwitchedTo'
<1> SUFFICES ASSUME TypeOK, PlacesFit, NoOutcomeYet, SwitchedTo, [Next]_vars
             PROVE  SwitchedTo'
  OBVIOUS
<1>1. CASE Begins
  BY <1>1, BeginStep DEF SwitchedTo
<1>2. CASE Ups
  BY <1>2, UpsFrame DEF SwitchedTo
<1>3. CASE ~Begins /\ ~Ups
  <2>1. Goals' = Goals /\ Images' = Images /\ healthy' = healthy
    BY <1>3, KeptStep, MoveFrame, GoalsFrame
  <2>2. job'.at = "verify" => Images' = Uniform(job'.target)
    BY <1>3, <2>1, MoveFrame DEF SwitchedTo
  <2>3. ASSUME job'.at = "finish" PROVE Images \in Goals /\ healthy
    <3>1. CASE job.at = "finish"
      BY <3>1 DEF SwitchedTo
    <3>2. CASE job.at = "verify" /\ healthy /\ job.kind = "rollback"
      <4>1. Images = Uniform(job.target) /\ job.target # None
        BY <3>2 DEF SwitchedTo, PlacesFit
      <4> QED BY <3>2, <4>1 DEF Goals
    <3>3. CASE /\ job.at = "restore_verify" /\ healthy /\ Images = job.to
               /\ job.then = "local"
      <4>1. job.kind = "rollback" /\ Images = origin.retained /\ Images # None
        BY <3>3 DEF PlacesFit, NoOutcomeYet, RestorePlaces
      <4> QED BY <3>3, <4>1 DEF Goals
    <3> QED BY <1>3, <2>3, <3>1, <3>2, <3>3, MoveFrame
  <2> QED BY <2>1, <2>2, <2>3 DEF SwitchedTo
<1> QED BY <1>1, <1>2, <1>3

\* The change is announced before docker compose is called.
LEMMA AnnouncedStep ==
  TypeOK /\ PlacesFit /\ AnnouncedFirst /\ ChangeAnnounced /\ [Next]_vars
    => AnnouncedFirst' /\ ChangeAnnounced'
<1> SUFFICES ASSUME TypeOK, PlacesFit, AnnouncedFirst, ChangeAnnounced, [Next]_vars
             PROVE  AnnouncedFirst' /\ ChangeAnnounced'
  OBVIOUS
<1>1. CASE Begins
  BY <1>1, BeginStep DEF AnnouncedFirst, ChangeAnnounced
<1>2. CASE Ups
  BY <1>2, UpsFrame DEF AnnouncedFirst, ChangeAnnounced
<1>3. CASE ~Begins /\ ~Ups
  BY <1>3, KeptStep, MoveFrame DEF AnnouncedFirst, ChangeAnnounced
<1> QED BY <1>1, <1>2, <1>3

\* A backup is never removed, and the newest is the one just made.
LEMMA AppendSaves ==
  ASSUME NEW b \in Seq(Settings), NEW c \in Settings
  PROVE  /\ Saved(c, Append(b, c))
         /\ \A d : Saved(d, b) => Saved(d, Append(b, c))
<1>1. /\ Append(b, c) \in Seq(Settings) /\ Len(Append(b, c)) = Len(b) + 1
      /\ Append(b, c)[Len(b) + 1] = c
      /\ \A i \in 1..Len(b) : Append(b, c)[i] = b[i]
  OBVIOUS
<1>2. /\ DOMAIN b = 1..Len(b) /\ DOMAIN Append(b, c) = 1..(Len(b) + 1) /\ Len(b) \in Nat
  BY <1>1
<1> QED BY <1>1, <1>2 DEF Saved

\* A step that moves neither settings nor backups, nor into the places where a
\* recovery may be undone, keeps what may be overwritten saved.
LEMMA SettingsFrame ==
  ASSUME TypeOK, OverwritableSaved, UNCHANGED <<settings, edits>>,
         backups' \in {backups, Append(backups, settings)},
         origin'.edits \in {origin.edits, edits},
         \/ job'.at \notin {"recover", "reset_done"} \cup RepairPlaces
         \/ job'.at = "recover" /\ job'.backup = None
         \/ /\ job.at \in {"reset_done"} \cup RepairPlaces
            /\ job'.at # "recover" /\ job'.backup = job.backup /\ origin' = origin
  PROVE  OverwritableSaved'
<1>1. \A d : Saved(d, backups) => Saved(d, backups')
  BY AppendSaves DEF TypeOK
<1>2. origin'.edits <= edits'
  BY DEF TypeOK, OriginType, OverwritableSaved
<1>3. job'.at = "recover" => job'.backup = None
  OBVIOUS
<1>4. job'.at \in {"reset_done"} \cup RepairPlaces /\ job'.backup # None
        /\ edits' = origin'.edits /\ settings' \in UserSettings => Saved(settings', backups')
  BY <1>1 DEF OverwritableSaved, RepairPlaces
<1> QED BY <1>2, <1>3, <1>4 DEF OverwritableSaved

\* Every step keeps what a recovery may overwrite in a backup.
LEMMA SettingsStep ==
  TypeOK /\ OverwritableSaved /\ [Next]_vars => OverwritableSaved'
<1> SUFFICES ASSUME TypeOK, OverwritableSaved, [Next]_vars
             PROVE  OverwritableSaved'
  OBVIOUS
<1> USE DEF RepairPlaces
<1>1. CASE Begins
  <2>1. job'.at \in {"prepare", "recover"} /\ UNCHANGED <<settings, backups, edits>>
    BY <1>1, BeginStep DEF Begins, BeginRelease, BeginRecovery
  <2>2. job'.backup = None BY <1>1 DEF Begins, BeginRelease, BeginRecovery, NoJob
  <2>3. origin' = [ctr |-> ctr, healthy |-> healthy, retained |-> status.retained,
                   settings |-> settings, edits |-> edits, recreated |-> FALSE]
    BY <1>1 DEF Begins, BeginRelease, BeginRecovery
  <2> QED BY <2>1, <2>2, <2>3, SettingsFrame
<1>2. CASE Reset
  <2>1. /\ settings' \notin UserSettings /\ UNCHANGED <<origin, edits>>
        /\ job'.at = "reset_done"
    BY <1>2, ClearedAssumption DEF Reset, counters, TypeOK, JobType
  <2> QED BY <2>1 DEF OverwritableSaved
<1>3. CASE Recover
  <2>1. /\ UNCHANGED <<origin, edits>>
        /\ \/ /\ UNCHANGED <<settings, backups>> /\ job'.backup = job.backup
           \/ settings' \notin UserSettings
           \/ Saved(settings', backups')
    <3>1. PICK wanted \in Wanted :
            /\ settings' = wanted
            /\ BacksUp(wanted) => backups' = Append(backups, settings)
            /\ ~BacksUp(wanted) => /\ UNCHANGED backups
                                  /\ job' = [job EXCEPT !.at = "recreate", !.before = Images]
      BY <1>3 DEF Recover
    <3>2. UNCHANGED <<origin, edits>> BY <1>3 DEF Recover, counters
    <3>3. CASE job.kind = "bot_repair"
      BY <3>1, <3>2, <3>3, ClearedAssumption DEF Wanted, BacksUp, TypeOK, JobType
    <3>4. CASE job.kind = "settings_restore"
      <4>1. backups # <<>> /\ wanted = backups[Len(backups)]
        BY <3>1, <3>4 DEF Wanted
      <4>2. Len(backups) \in DOMAIN backups BY <4>1 DEF TypeOK
      <4>3. Saved(wanted, backups) BY <4>1, <4>2 DEF Saved
      <4>4. backups' = Append(backups, settings) BY <3>1, <3>4 DEF BacksUp
      <4> QED BY <3>1, <3>2, <4>3, <4>4, AppendSaves DEF TypeOK
    <3>5. CASE job.kind \notin {"bot_repair", "settings_restore"}
      BY <3>1, <3>2, <3>5 DEF Wanted, BacksUp, TypeOK, JobType
    <3> QED BY <3>3, <3>4, <3>5
  <2>2. job.at = "recover" /\ job'.at = "recreate" BY <1>3, RecoverFrame DEF Recover
  <2> QED BY <2>1, <2>2 DEF OverwritableSaved
<1>4. CASE RecoveryFailed
  <2>1. job'.at \in {"idle", "restore"} /\ UNCHANGED <<origin, edits>>
    BY <1>4, RecoveryFailedFrame DEF RecoveryFailed, counters
  <2> QED BY <2>1 DEF OverwritableSaved
<1>5. CASE EditSettings
  <2>1. edits' = edits + 1 /\ UNCHANGED <<origin, job>> BY <1>5 DEF EditSettings
  <2> QED BY <2>1 DEF OverwritableSaved, TypeOK, OriginType
<1>6. CASE UNCHANGED vars
  BY <1>6 DEF vars, OverwritableSaved
<1>7. CASE Ups
  <2>1. origin'.edits = origin.edits /\ UNCHANGED <<settings, backups, edits>>
    BY <1>7 DEF Ups, Switch, SwitchFails, RestoreUp, RestoreUpFails, Recreate, RecreateFails,
       UpSucceeds, UpFails, TypeOK, OriginType, counters
  <2>2. \/ job'.at \notin {"recover", "reset_done"} \cup RepairPlaces
        \/ job.at \in RepairPlaces /\ job'.at \in RepairPlaces /\ job'.backup = job.backup
    BY <1>7, GotoFrame, UndoFrame DEF Ups, Switch, SwitchFails, RestoreUp, RestoreUpFails,
       Recreate, RecreateFails, Places
  <2> QED BY <2>1, <2>2 DEF OverwritableSaved
<1>8. CASE Release /\ ~Begins /\ ~Ups
  <2>1. /\ UNCHANGED <<settings, edits, origin>>
        /\ backups' \in {backups, Append(backups, settings)}
    BY <1>8 DEF Release, Begins, Ups, Prepare, PrepareFails, Fetch, FetchFails, Stage,
       StageFails, Refuse, Build, BuildFails, Verify, VerifyFails, Finish, RestoreVerify,
       RestoreVerifyFails, RestoreFailed, counters
  <2>2. job'.at \notin {"recover", "reset_done"} \cup RepairPlaces
    BY <1>8, PrepareFrame, EndFrame, GotoFrame, RefuseFrame, UndoFrame, ReturnedFrame
       DEF Release, Begins, Ups, Prepare, PrepareFails, Fetch, FetchFails, Stage, StageFails,
           Build, BuildFails, Verify, VerifyFails, Finish, RestoreVerify, RestoreVerifyFails,
           RestoreFailed, Places
  <2> QED BY <2>1, <2>2, SettingsFrame
<1>9. CASE \/ ResetDone \/ RecoverFails \/ NoBackupYet \/ RecoverVerify
           \/ RecoverVerifyFails \/ Crash \/ StartWorker
  <2>1. /\ UNCHANGED <<settings, edits, origin>>
        /\ backups' \in {backups, Append(backups, settings)}
    BY <1>9 DEF ResetDone, RecoverFails, NoBackupYet, RecoverVerify, RecoverVerifyFails,
       Crash, StartWorker, counters
  <2>2. \/ job'.at \in {"idle", "down"}
        \/ job.at \in RepairPlaces /\ job'.backup = job.backup /\ job'.at \in RepairPlaces
    BY <1>9, EndFrame, GotoFrame DEF ResetDone, RecoverFails, NoBackupYet, RecoverVerify,
       RecoverVerifyFails, Crash, StartWorker, Places
  <2> QED BY <2>1, <2>2, SettingsFrame
<1> QED
  BY <1>1, <1>2, <1>3, <1>4, <1>5, <1>6, <1>7, <1>8, <1>9 DEF Next, Recovery, Begins, Ups

\* The verdicts a job may end with.
Verdicts ==
  /\ RefusedUntouched /\ SuccessIsGoal /\ SuccessIsRunning
  /\ RetainsReplacedPair /\ RestoredIsOriginal

\* Between jobs a step that begins none leaves the verdict alone.
LEMMA IdleStep ==
  ASSUME [Next]_vars, ~Begins, ~Ups, job.at = "idle"
  PROVE  status' = status /\ job' = job
BY DEF Next, Release, Recovery, Begins, Ups, Prepare, PrepareFails, Fetch, FetchFails,
   Stage, StageFails, Build, BuildFails, Verify, VerifyFails, Finish, RestoreVerify,
   RestoreVerifyFails, RestoreFailed, Reset, ResetDone, RecoverFails, Recover,
   NoBackupYet, RecoverVerify, RecoverVerifyFails, RecoveryFailed, Crash, StartWorker,
   EditSettings, vars

\* The step that ends a job publishes what is true of the containers.
LEMMA EndStep ==
  ASSUME TypeOK, ReleaseInv, [Next]_vars, ~Begins, ~Ups, job'.at = "idle"
  PROVE  Verdicts'
<1> USE DEF Places, SwitchPlaces, RestorePlaces, RepairPlaces
<1>0. /\ PlacesFit /\ BeforeIsOriginal /\ NoOutcomeYet /\ SwitchedTo
      /\ RefusedUntouched /\ SuccessIsGoal /\ SuccessIsRunning
      /\ RetainsReplacedPair /\ RestoredIsOriginal
  BY DEF ReleaseInv
<1>a. /\ origin' = origin /\ OriginImages' = OriginImages
      /\ Images' = Images /\ healthy' = healthy
  BY KeptStep
<1>b. job'.kind = job.kind /\ job'.target = job.target
  BY <1>0, MoveFrame
<1>c. Goals' = Goals BY <1>a, <1>b, GoalsFrame
<1>d. ASSUME status'.phase \notin {"complete", "rolled_back"}, status'.detail # "restored",
             status'.detail = "refused" /\ job.kind = "update" => ~origin.recreated
      PROVE  Verdicts'
  BY <1>a, <1>b, <1>d DEF Verdicts, RefusedUntouched, SuccessIsGoal, SuccessIsRunning,
     RetainsReplacedPair, RestoredIsOriginal
<1>e. ASSUME Images \in Goals, healthy \/ job.kind = "settings_reset",
             job.kind \in ReleaseKinds => status'.retained = OriginImages,
             status'.detail = "none"
      PROVE  Verdicts'
  BY <1>a, <1>b, <1>c, <1>e DEF Verdicts, RefusedUntouched, SuccessIsGoal,
     SuccessIsRunning, RetainsReplacedPair, RestoredIsOriginal
<1>1. CASE job.at = "idle"
  <2>1. status' = status /\ job' = job BY <1>1, IdleStep
  <2> QED
    BY <1>0, <1>a, <1>c, <2>1 DEF Verdicts, RefusedUntouched, SuccessIsGoal,
       SuccessIsRunning, RetainsReplacedPair, RestoredIsOriginal
<1>2. CASE job.at # "idle"
  <2>0. /\ status.detail = "none" /\ status.phase \notin {"complete", "rolled_back"}
    BY <1>0, <1>2 DEF NoOutcomeYet
  <2>1. CASE PrepareFails
    BY <1>0, <1>d, <2>1, PublishFrame DEF PrepareFails, BeforeIsOriginal
  <2>2. CASE FetchFails
    BY <1>0, <1>d, <2>2, RefuseFrame DEF FetchFails, BeforeIsOriginal
  <2>3. CASE StageFails
    BY <1>0, <1>d, <2>3, RefuseFrame DEF StageFails, BeforeIsOriginal
  <2>4. CASE Verify
    <3>1. job.kind = "update" BY <2>4, GotoFrame DEF Verify
    <3>2. healthy /\ Images \in Goals
      BY <1>0, <2>4, <3>1 DEF Verify, SwitchedTo, Goals
    <3>3. status'.retained = job.before /\ status'.detail = "none"
      BY <2>4, <3>1 DEF Verify
    <3>4. job.before = OriginImages BY <1>0, <2>4 DEF Verify, PlacesFit, BeforeIsOriginal
    <3> QED BY <1>e, <3>2, <3>3, <3>4
  <2>5. CASE Finish
    <3>1. healthy /\ Images \in Goals BY <1>0, <2>5 DEF Finish, SwitchedTo
    <3>2. status'.retained = job.before /\ status'.detail = "none"
      BY <2>5 DEF Finish
    <3>3. job.before = OriginImages BY <1>0, <2>5 DEF Finish, PlacesFit, BeforeIsOriginal
    <3> QED BY <1>e, <3>1, <3>2, <3>3
  <2>6. CASE RestoreVerify
    <3>1. job.then # "local" BY <2>6, ReturnedFrame DEF RestoreVerify
    <3>2. status'.phase = "failed" /\ (status'.detail = "refused" => job.then = "refused")
      BY <2>6, <3>1, ReturnedFrame DEF RestoreVerify
    <3>3. /\ job.to = OriginImages /\ (job.then = "refused" => job.kind = "rollback")
      BY <1>0, <2>6, <3>1 DEF RestoreVerify, PlacesFit, BeforeIsOriginal
    <3>4. Images = OriginImages /\ healthy BY <2>6, <3>3 DEF RestoreVerify
    <3> QED
      BY <1>a, <1>b, <3>2, <3>3, <3>4 DEF Verdicts, RefusedUntouched, SuccessIsGoal,
         SuccessIsRunning, RetainsReplacedPair, RestoredIsOriginal
  <2>7. CASE RestoreFailed
    <3>1. job.then # "local" BY <2>7, ReturnedFrame DEF RestoreFailed
    <3>2. /\ status'.phase = "failed" /\ status'.detail # "restored"
          /\ status'.detail = "refused" => job.then = "refused"
      BY <2>7, <3>1, ReturnedFrame DEF RestoreFailed
    <3>3. job.then = "refused" => job.kind = "rollback"
      BY <1>0, <2>7, <3>1 DEF RestoreFailed, PlacesFit
    <3> QED BY <1>d, <3>2, <3>3
  <2>8. CASE ResetDone
    <3>1. job.kind = "settings_reset" /\ Images = OriginImages
      BY <1>0, <2>8 DEF ResetDone, PlacesFit, BeforeIsOriginal
    <3>2. Images \in Goals BY <3>1 DEF Goals
    <3>3. status'.detail = "none" BY <2>0, <2>8 DEF ResetDone, TypeOK, StatusType
    <3> QED BY <1>e, <3>1, <3>2, <3>3 DEF ReleaseKinds
  <2>9. CASE RecoverVerify
    <3>1. /\ healthy /\ Images = OriginImages /\ job.kind \in RecoveryKinds
      BY <1>0, <2>9 DEF RecoverVerify, PlacesFit, BeforeIsOriginal
    <3>2. Images \in Goals /\ job.kind \notin ReleaseKinds
      BY <3>1 DEF Goals, RecoveryKinds, ReleaseKinds
    <3>3. status'.detail = "none" BY <2>0, <2>9 DEF RecoverVerify, TypeOK, StatusType
    <3> QED BY <1>e, <3>1, <3>2, <3>3
  <2>10. CASE RecoverFails
    BY <1>d, <2>10, PublishFrame DEF RecoverFails
  <2>11. CASE NoBackupYet
    BY <1>d, <2>11, PublishFrame DEF NoBackupYet
  <2>12. CASE RecoveryFailed
    BY <1>d, <2>12, RecoveryFailedFrame
  <2>13. CASE StartWorker
    <3>1. \/ status'.phase = "failed" /\ status'.detail = "interrupted"
          \/ status' = status
      BY <2>13 DEF StartWorker, Publish, TypeOK, StatusType
    <3> QED BY <1>d, <2>0, <3>1
  <2>14. CASE EditSettings \/ UNCHANGED vars
    BY <1>2, <2>14 DEF EditSettings, vars
  <2>15. CASE Prepare \/ Fetch \/ Stage \/ Build \/ BuildFails \/ VerifyFails
               \/ RestoreVerifyFails \/ Reset \/ Recover \/ RecoverVerifyFails \/ Crash
    BY <2>15, PrepareFrame, GotoFrame, UndoFrame, RecoverFrame
       DEF Fetch, Stage, Build, BuildFails, VerifyFails, RestoreVerifyFails, Reset,
           RecoverVerifyFails, Crash, TypeOK, JobType
  <2> QED
    BY <2>1, <2>2, <2>3, <2>4, <2>5, <2>6, <2>7, <2>8, <2>9, <2>10, <2>11, <2>12, <2>13,
       <2>14, <2>15 DEF Next, Release, Recovery, Begins, Ups
<1> QED BY <1>1, <1>2

\* Every step keeps the verdicts: a job at work has none, and the one it ends
\* with is true.
LEMMA VerdictStep ==
  TypeOK /\ ReleaseInv /\ [Next]_vars /\ NoOutcomeYet' => Verdicts'
<1> SUFFICES ASSUME TypeOK, ReleaseInv, [Next]_vars, NoOutcomeYet'
             PROVE  Verdicts'
  OBVIOUS
<1>1. CASE job'.at # "idle"
  BY <1>1 DEF NoOutcomeYet, Verdicts, RefusedUntouched, SuccessIsGoal, SuccessIsRunning,
     RetainsReplacedPair, RestoredIsOriginal
<1>2. CASE job'.at = "idle"
  <2>1. ~Begins BY <1>2, BeginStep
  <2>2. ~Ups BY <1>2, UpsFrame DEF ReleaseInv
  <2> QED BY <1>2, <2>1, <2>2, EndStep
<1> QED BY <1>1, <1>2

\* The types and the strengthening together are inductive.
THEOREM ReleaseInvariant == Spec => [](TypeOK /\ ReleaseInv)
<1>1. Init => TypeOK /\ ReleaseInv
  <2> SUFFICES ASSUME Init PROVE TypeOK /\ ReleaseInv
    OBVIOUS
  <2>1. TypeOK /\ PlacesFit
    BY InstalledAssumption DEF Init, TypeOK, PlacesFit, NoJob, StatusType, JobType, OriginType, Places, Returns,
           Container, Settings, SwitchPlaces, RestorePlaces, RepairPlaces, Services
  <2>2. Images = OriginImages BY DEF Init, Images, OriginImages
  <2>3. BeforeIsOriginal /\ NoOutcomeYet /\ SwitchedTo /\ AnnouncedFirst /\ ChangeAnnounced
    BY <2>2 DEF Init, NoJob, BeforeIsOriginal, NoOutcomeYet, SwitchedTo, AnnouncedFirst,
       ChangeAnnounced
  <2>4. OverwritableSaved BY InstalledAssumption DEF Init, NoJob, OverwritableSaved, RepairPlaces
  <2>5. Verdicts
    BY DEF Init, Verdicts, RefusedUntouched, SuccessIsGoal, SuccessIsRunning,
       RetainsReplacedPair, RestoredIsOriginal
  <2> QED BY <2>1, <2>3, <2>4, <2>5 DEF ReleaseInv, Verdicts
<1>2. TypeOK /\ ReleaseInv /\ [Next]_vars => (TypeOK /\ ReleaseInv)'
  <2> SUFFICES ASSUME TypeOK, ReleaseInv, [Next]_vars PROVE (TypeOK /\ ReleaseInv)'
    OBVIOUS
  <2>1. TypeOK' /\ PlacesFit' BY StepTypes, StepPlaces DEF ReleaseInv
  <2>2. BeforeIsOriginal' BY BeforeStep DEF ReleaseInv
  <2>3. NoOutcomeYet' BY OutcomeStep DEF ReleaseInv
  <2>4. SwitchedTo' BY SwitchedStep DEF ReleaseInv
  <2>5. AnnouncedFirst' /\ ChangeAnnounced' BY AnnouncedStep DEF ReleaseInv
  <2>6. Verdicts' BY <2>3, VerdictStep
  <2>7. OverwritableSaved' BY SettingsStep DEF ReleaseInv
  <2> QED BY <2>1, <2>2, <2>3, <2>4, <2>5, <2>6, <2>7 DEF ReleaseInv, Verdicts
<1> QED BY <1>1, <1>2, PTL DEF Spec

\* "complete" and "rolled_back" are only published when both containers run the
\* pair the job was asked for and are healthy, whatever failed or crashed before.
THEOREM ReleaseSuccessIsRunning == Spec => []SuccessIsRunning
<1>1. TypeOK /\ ReleaseInv => SuccessIsRunning BY DEF ReleaseInv
<1> QED BY <1>1, ReleaseInvariant, PTL

\* A successful update or rollback retains the pair it replaced, even after it
\* tried the retained images in vain.
THEOREM ReleaseRetainsReplaced == Spec => []RetainsReplacedPair
<1>1. TypeOK /\ ReleaseInv => RetainsReplacedPair BY DEF ReleaseInv
<1> QED BY <1>1, ReleaseInvariant, PTL

\* "The previous control release was restored" is never said of a deployment
\* that does not run, healthily, the images from before the job.
THEOREM ReleaseRestoredIsOriginal == Spec => []RestoredIsOriginal
<1>1. TypeOK /\ ReleaseInv => RestoredIsOriginal BY DEF ReleaseInv
<1> QED BY <1>1, ReleaseInvariant, PTL

\* containers_changed is on disk before docker compose changes a container, so
\* a worker that dies in between leaves no changed deployment unannounced.
THEOREM ReleaseChangeAnnounced == Spec => []ChangeAnnounced
<1>1. TypeOK /\ ReleaseInv => ChangeAnnounced BY DEF ReleaseInv
<1> QED BY <1>1, ReleaseInvariant, PTL

\* An update reported as refused has not changed a container.
THEOREM ReleaseRefusedUntouched == Spec => []RefusedUntouched
<1>1. TypeOK /\ ReleaseInv => RefusedUntouched BY DEF ReleaseInv
<1> QED BY <1>1, ReleaseInvariant, PTL

\* Whatever order resets, repairs, restores, crashes and edits come in, what a
\* recovery action overwrites is in a backup.
THEOREM ReleaseSavesSettings == Spec => SavedBeforeOverwritten
<1>1. TypeOK /\ ReleaseInv /\ [Next]_vars =>
        [settings' # settings /\ settings \in UserSettings
           /\ edits = origin.edits /\ edits' = edits => Saved(settings, backups')]_vars
  <2> SUFFICES ASSUME TypeOK, ReleaseInv, Next, settings' # settings,
                      settings \in UserSettings, edits = origin.edits, edits' = edits
               PROVE  Saved(settings, backups')
    OBVIOUS
  <2>1. CASE Reset
    BY <2>1, AppendSaves DEF Reset, TypeOK
  <2>2. CASE Recover
    <3>1. backups' = Append(backups, settings)
      BY <2>2 DEF Recover, Wanted, BacksUp, TypeOK, JobType
    <3> QED BY <3>1, AppendSaves DEF TypeOK
  <2>3. CASE RecoveryFailed
    <3>1. /\ job.at \in {"recovery_failed", "reset_done"} /\ job.backup # None
          /\ UNCHANGED backups
      BY <2>3 DEF RecoveryFailed
    <3> QED BY <3>1 DEF ReleaseInv, OverwritableSaved, RepairPlaces
  <2>4. CASE EditSettings
    BY <2>4 DEF EditSettings, TypeOK
  <2>5. CASE ~(Reset \/ Recover \/ RecoveryFailed \/ EditSettings)
    BY <2>5 DEF Next, Release, Recovery, BeginRelease, Prepare, PrepareFails, Fetch,
       FetchFails, Stage, StageFails, Refuse, Build, BuildFails, Switch, SwitchFails, Verify,
       VerifyFails, Finish, RestoreUp, RestoreUpFails, RestoreVerify, RestoreVerifyFails,
       RestoreFailed, BeginRecovery, ResetDone, RecoverFails, NoBackupYet, Recreate,
       RecreateFails, RecoverVerify, RecoverVerifyFails, Crash, StartWorker
  <2> QED BY <2>1, <2>2, <2>3, <2>4, <2>5
<1> QED BY <1>1, ReleaseInvariant, PTL DEF Spec, SavedBeforeOverwritten

-----------------------------------------------------------------------------
(* The jobs keep the administrator's contract                              *)

\* A job begins with goals that are pairs.
LEMMA BeginGoals ==
  ASSUME TypeOK, Begins
  PROVE  /\ job.at = "idle" /\ job'.kind # "none"
         /\ Goals' \subseteq [Services -> Versions \cup {Gone}]
<1>0. OriginImages' \in [Services -> Versions \cup {Gone}] BY BeginStep, ImagesType
<1>1. status.retained \in Pair \cup {None} /\ origin'.retained = status.retained
  BY BeginStep DEF TypeOK, StatusType
<1>2. ASSUME NEW v \in Versions PROVE Uniform(v) \in [Services -> Versions \cup {Gone}]
  BY DEF Uniform
<1>3. CASE BeginRelease
  <2>1. /\ job.at = "idle" /\ job'.kind \in ReleaseKinds
        /\ job'.target \in Versions \cup {None}
        /\ job'.kind = "update" => job'.target # None
    BY <1>3 DEF BeginRelease, NoJob
  <2>2. job'.kind = "update" => Goals' = {Uniform(job'.target)} BY DEF Goals
  <2>3. job'.kind = "rollback" =>
          Goals' = {Uniform(v) : v \in {job'.target} \ {None}}
                     \cup ({origin'.retained} \ {None})
    BY DEF Goals
  <2>4. CASE job'.kind = "update" BY <1>2, <2>1, <2>2, <2>4
  <2>5. CASE job'.kind = "rollback"
    <3>1. {Uniform(v) : v \in {job'.target} \ {None}} \subseteq [Services -> Versions \cup {Gone}]
      BY <1>2, <2>1
    <3>2. {origin'.retained} \ {None} \subseteq [Services -> Versions \cup {Gone}]
      BY <1>1 DEF Pair
    <3> QED BY <2>1, <2>3, <2>5, <3>1, <3>2
  <2> QED BY <2>1, <2>4, <2>5 DEF ReleaseKinds
<1>4. CASE BeginRecovery
  <2>1. job.at = "idle" /\ job'.kind \in RecoveryKinds BY <1>4 DEF BeginRecovery, NoJob
  <2>2. Goals' = {OriginImages'} BY <2>1 DEF Goals, RecoveryKinds
  <2> QED BY <1>0, <2>1, <2>2 DEF RecoveryKinds
<1> QED BY <1>3, <1>4 DEF Begins

\* Each step is one the contract allows, or invisible to the administrator.
LEMMA ContractStep ==
  TypeOK /\ ReleaseInv /\ [Next]_vars => [Contract!Next]_(Contract!cvars)
<1> SUFFICES ASSUME TypeOK, ReleaseInv, [Next]_vars
             PROVE  [Contract!Next]_(Contract!cvars)
  OBVIOUS
<1> DEFINE goals == IF job.kind = "none" THEN {} ELSE Goals
<1>0. PlacesFit /\ NoOutcomeYet BY DEF ReleaseInv
<1>t. TypeOK' BY <1>0, StepTypes
<1>i. PlacesFit' /\ BeforeIsOriginal' /\ NoOutcomeYet' /\ ChangeAnnounced' /\ Verdicts'
  BY StepPlaces, BeforeStep, OutcomeStep, AnnouncedStep, VerdictStep DEF ReleaseInv
<1>1. CASE Begins
  <2>1. Report # "working" /\ Report' = "working"
    BY <1>1, BeginGoals, BeginStep DEF Report
  <2>2. OriginImages' = Images /\ Images' = Images BY <1>1, BeginStep
  <2>3. goals' \in SUBSET [Services -> Versions \cup {Gone}] BY <1>1, BeginGoals
  <2> QED BY <2>1, <2>2, <2>3 DEF Contract!Next, Contract!Begin
<1>2. CASE Ups
  <2>1. Report = "working" /\ Report' = "working" BY <1>0, <1>2, UpsFrame DEF Report
  <2>2. Images' \in [Services -> Versions \cup {Gone}] BY <1>t DEF TypeOK, Images, Image, Container
  <2>3. OriginImages' = OriginImages /\ goals' = goals BY <1>0, <1>2, UpsFrame, GoalsFrame
  <2> QED BY <2>1, <2>2, <2>3 DEF Contract!Next, Contract!Change
<1>3. CASE ~Begins /\ ~Ups
  <2>0. Images' = Images /\ OriginImages' = OriginImages /\ goals' = goals
    BY <1>0, <1>3, KeptStep, MoveFrame, GoalsFrame
  <2>1. CASE job.at = "idle" \/ job'.at # "idle"
    <3>1. Report' = Report BY <1>0, <1>3, <2>1, IdleStep, MoveFrame DEF Report
    <3> QED BY <2>0, <3>1 DEF Contract!cvars
  <2>2. CASE job.at # "idle" /\ job'.at = "idle"
    <3>0. Report = "working" /\ job.kind # "none" /\ goals = Goals
      BY <1>0, <2>2 DEF Report, PlacesFit
    <3>1. CASE Report' = "done"
      <4>1. Images' \in Goals'
        BY <1>i, <2>2, <3>1 DEF Report, Verdicts, SuccessIsGoal
      <4>2. Goals' = Goals BY <1>0, <1>3, KeptStep, MoveFrame, GoalsFrame
      <4> QED BY <2>0, <3>0, <3>1, <4>1, <4>2 DEF Contract!Next, Contract!Done
    <3>2. CASE Report' = "kept"
      <4>1. status'.detail = "restored" \/ ~status'.changed
        BY <2>2, <3>2 DEF Report
      <4>2. Images' = OriginImages'
        BY <1>i, <4>1 DEF Verdicts, RestoredIsOriginal, ChangeAnnounced, BeforeIsOriginal
      <4> QED BY <2>0, <3>0, <3>2, <4>2 DEF Contract!Next, Contract!Keep
    <3>3. CASE Report' = "unsure"
      BY <2>0, <3>0, <3>3 DEF Contract!Next, Contract!Unsure
    <3> QED BY <2>2, <3>1, <3>2, <3>3 DEF Report
  <2> QED BY <2>1, <2>2
<1> QED BY <1>1, <1>2, <1>3

\* The jobs implement ReleaseContract but for its liveness: whatever fails or
\* crashes inside a job, a success names a pair the job was asked for, and a
\* reported restoration or refusal means the pair of before.
THEOREM ReleaseKeepsContract == Spec => Contract!Init /\ [][Contract!Next]_(Contract!cvars)
<1>1. Init => Contract!Init
  <2> SUFFICES ASSUME Init PROVE Contract!Init
    OBVIOUS
  <2>1. TypeOK
    BY InstalledAssumption DEF Init, TypeOK, NoJob, StatusType, JobType, OriginType, Places, Returns,
           Container, Settings, Services
  <2>2. Images = OriginImages BY DEF Init, Images, OriginImages
  <2>3. Report = "kept" /\ job.kind = "none" BY DEF Init, NoJob, Report
  <2> QED BY <2>1, <2>2, <2>3, ImagesType DEF Contract!Init
<1>2. TypeOK /\ ReleaseInv /\ [Next]_vars => [Contract!Next]_(Contract!cvars)
  BY ContractStep
<1> QED BY <1>1, <1>2, ReleaseInvariant, PTL DEF Spec

-----------------------------------------------------------------------------
(* The jobs are what the bridge takes them for                             *)

\* Once a job has begun the file names a phase.
PhaseNamed == job.at # "idle" => status.phase # "idle"

LEMMA PhaseNamedStep ==
  TypeOK /\ PlacesFit /\ PhaseNamed /\ [Next]_vars => PhaseNamed'
<1> SUFFICES ASSUME TypeOK, PlacesFit, PhaseNamed, [Next]_vars PROVE PhaseNamed'
  OBVIOUS
<1>1. CASE Begins
  BY <1>1, BeginStep DEF PhaseNamed
<1>2. CASE Ups
  BY <1>2, UpsFrame DEF PhaseNamed
<1>3. CASE ~Begins /\ ~Ups
  BY <1>3, MoveFrame DEF PhaseNamed, Active
<1> QED BY <1>1, <1>2, <1>3

\* A dead worker does nothing until the next one starts.
LEMMA DeadStep ==
  ASSUME [Next]_vars, job.at = "down"
  PROVE  StartWorker \/ UNCHANGED <<job, status>>
BY DEF Next, Release, Recovery, BeginRelease, Prepare, PrepareFails, Fetch, FetchFails,
   Stage, StageFails, Build, BuildFails, Switch, SwitchFails, Verify, VerifyFails, Finish,
   RestoreUp, RestoreUpFails, RestoreVerify, RestoreVerifyFails, RestoreFailed,
   BeginRecovery, Reset, ResetDone, RecoverFails, Recover, NoBackupYet, Recreate,
   RecreateFails, RecoverVerify, RecoverVerifyFails, RecoveryFailed, Crash, EditSettings, vars

\* A job at work ends in a settled phase, and a worker that dies in one leaves
\* the file as it is.
LEMMA LeaveStep ==
  ASSUME TypeOK, PlacesFit, [Next]_vars, ~Begins, ~Ups, job.at \notin {"idle", "down"}
  PROVE  /\ job'.at = "idle" => status'.phase \in Settled
         /\ job'.at = "down" => status'.phase = status.phase
<1> USE DEF Places, Settled
<1>1. CASE \/ Prepare \/ Fetch \/ Stage \/ Build \/ BuildFails \/ VerifyFails
           \/ RestoreVerifyFails \/ Reset \/ Recover \/ RecoverVerifyFails
  BY <1>1, PrepareFrame, GotoFrame, UndoFrame, RecoverFrame
     DEF Fetch, Stage, Build, BuildFails, VerifyFails, RestoreVerifyFails, Reset,
         RecoverVerifyFails, TypeOK, JobType
<1>2. CASE PrepareFails \/ RecoverFails \/ NoBackupYet
  BY <1>2, EndFrame, PublishFrame DEF PrepareFails, RecoverFails, NoBackupYet
<1>3. CASE FetchFails \/ StageFails
  BY <1>3, RefuseFrame DEF FetchFails, StageFails
<1>4. CASE Verify
  BY <1>4, GotoFrame, EndFrame DEF Verify
<1>5. CASE Finish
  BY <1>5, EndFrame DEF Finish
<1>6. CASE RestoreVerify \/ RestoreFailed
  BY <1>6, ReturnedFrame DEF RestoreVerify, RestoreFailed
<1>7. CASE ResetDone \/ RecoverVerify
  BY <1>7, EndFrame DEF ResetDone, RecoverVerify, TypeOK, StatusType
<1>8. CASE RecoveryFailed
  <2>1. CASE job.before # None /\ Images # job.before
    BY <1>8, <2>1, RestoreFrame DEF RecoveryFailed
  <2>2. CASE ~(job.before # None /\ Images # job.before)
    BY <1>8, <2>2, EndFrame, PublishFrame DEF RecoveryFailed
  <2> QED BY <2>1, <2>2
<1>9. CASE Crash
  BY <1>9, GotoFrame DEF Crash
<1>10. CASE StartWorker \/ EditSettings \/ UNCHANGED vars
  BY <1>10 DEF StartWorker, EditSettings, vars
<1> QED
  BY <1>1, <1>2, <1>3, <1>4, <1>5, <1>6, <1>7, <1>8, <1>9, <1>10
     DEF Next, Release, Recovery, Begins, Ups

\* The administrator's view of the phase.
LEMMA PhasesView ==
  ASSUME TypeOK
  PROVE  status.phase \in Active \cup {"failed", "complete", "rolled_back", "idle"}
BY DEF TypeOK, StatusType, Settled

\* Each step is one that ReleasePhases has, or changes neither the phase's class
\* nor whether a worker is at work.
LEMMA PhaseStep ==
  TypeOK /\ ReleaseInv /\ PhaseNamed /\ [Next]_vars => [Phases!Next]_(Phases!pvars)
<1> SUFFICES ASSUME TypeOK, ReleaseInv, PhaseNamed, [Next]_vars
             PROVE  [Phases!Next]_(Phases!pvars)
  OBVIOUS
<1> DEFINE shown(p) == IF p = "idle" THEN "none" ELSE IF p \in Active THEN "busy"
                       ELSE IF p = "failed" THEN "failed" ELSE "done"
           place(at) == IF at = "idle" THEN "idle" ELSE IF at = "down" THEN "dead" ELSE "job"
<1>0. PlacesFit /\ NoOutcomeYet /\ PhaseNamed' /\ NoOutcomeYet' /\ TypeOK'
  BY PhaseNamedStep, OutcomeStep, StepTypes DEF ReleaseInv
<1>i. /\ job.at # "idle" => shown(status.phase) \in {"busy", "failed"}
      /\ job'.at # "idle" => shown(status'.phase) \in {"busy", "failed"}
  <2>1. /\ status.phase \in Active \cup {"failed", "complete", "rolled_back", "idle"}
        /\ status'.phase \in Active \cup {"failed", "complete", "rolled_back", "idle"}
    BY <1>0, PhasesView DEF TypeOK, StatusType, Settled
  <2> QED BY <1>0, <2>1 DEF NoOutcomeYet, PhaseNamed
<1>1. CASE Begins
  <2>1. job.at = "idle" /\ place(job'.at) = "job" /\ shown(status'.phase) = "busy"
    BY <1>1, BeginStep, BeginGoals DEF Active
  <2> QED BY <2>1 DEF Phases!Next, Phases!Begin
<1>2. CASE Ups
  <2>1. place(job.at) = "job" /\ place(job'.at) = "job"
    BY <1>0, <1>2, UpsFrame
  <2>2. shown(status'.phase) \in {"busy", "failed"}
    BY <1>i, <2>1
  <2> QED BY <2>1, <2>2 DEF Phases!Next, Phases!Progress
<1>3. CASE ~Begins /\ ~Ups /\ job.at = "idle"
  <2>1. UNCHANGED <<job, status>>
    BY <1>3, IdleStep
  <2> QED BY <2>1 DEF Phases!pvars
<1>4. CASE job.at = "down"
  <2>1. CASE UNCHANGED <<job, status>>
    BY <2>1 DEF Phases!pvars
  <2>2. CASE StartWorker
    <3>1. job'.at = "idle"
      BY <2>2, EndFrame DEF StartWorker
    <3>2. status'.phase = IF status.phase \in Active THEN "failed" ELSE status.phase
      BY <2>2, PublishFrame DEF StartWorker
    <3>3. shown(status'.phase) = IF shown(status.phase) = "busy" THEN "failed" ELSE shown(status.phase)
      BY <3>2 DEF Active
    <3> QED BY <1>4, <3>1, <3>3 DEF Phases!Next, Phases!Start
  <2> QED BY <1>4, <2>1, <2>2, DeadStep
<1>5. CASE ~Begins /\ ~Ups /\ job.at \notin {"idle", "down"}
  <2>0. place(job.at) = "job"
    BY <1>5
  <2>1. CASE job'.at = "idle"
    <3>1. shown(status'.phase) \in {"failed", "done"}
      BY <1>0, <1>5, <2>1, LeaveStep DEF Settled, Active
    <3> QED BY <2>0, <2>1, <3>1 DEF Phases!Next, Phases!Settle
  <2>2. CASE job'.at = "down"
    <3>1. status'.phase = status.phase
      BY <1>0, <1>5, <2>2, LeaveStep
    <3> QED BY <2>0, <2>2, <3>1 DEF Phases!Next, Phases!Die
  <2>3. CASE job'.at \notin {"idle", "down"}
    BY <1>i, <2>0, <2>3 DEF Phases!Next, Phases!Progress
  <2> QED BY <2>1, <2>2, <2>3
<1> QED BY <1>1, <1>2, <1>3, <1>4, <1>5

\* What MaintenanceBridge takes a release or recovery job for is what the jobs
\* are: a failed command in the middle may show "failed", but no outcome is
\* published before the last step, and a dead worker's job is reported once.
THEOREM ReleaseKeepsPhases == Spec => PhasesKept
<1>1. Init => PhaseNamed /\ Phases!Init
  BY DEF Init, NoJob, PhaseNamed, Phases!Init
<1>2. Spec => [](TypeOK /\ ReleaseInv /\ PhaseNamed)
  <2>1. TypeOK /\ ReleaseInv /\ PhaseNamed /\ [Next]_vars => PhaseNamed'
    BY PhaseNamedStep DEF ReleaseInv
  <2> QED BY <1>1, <2>1, ReleaseInvariant, PTL DEF Spec
<1> QED BY <1>1, <1>2, PhaseStep, PTL DEF Spec, PhasesKept, Phases!Spec

=============================================================================
