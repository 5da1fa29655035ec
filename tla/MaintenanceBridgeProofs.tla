----------------------- MODULE MaintenanceBridgeProofs -----------------------
(* Theorems about MaintenanceBridge, for every set of threads and jobs and   *)
(* every number of deaths and boots.                                         *)
EXTENDS MaintenanceBridge, TLAPS

USE DEF Request, Kinds, Idle, Poll, Down

\* A thread that carries a request carries a well-formed one.
LEMMA ThreadCarries ==
  ASSUME TypeOK, NEW t \in Threads
  PROVE  /\ thread[t].at \in {"admitted", "written"} =>
              /\ thread[t].req \in Request
              /\ thread[t] = [at |-> thread[t].at, req |-> thread[t].req]
         /\ thread[t].at = "checked" => thread[t].action \in Kinds
         /\ thread[t].at = "checked" /\ thread[t].action = "reboot" =>
              thread[t].job \in Jobs
  BY DEF TypeOK, ThreadStates

\* So does the worker.
LEMMA WorkerCarries ==
  ASSUME TypeOK, worker.at \notin {"down", "poll"}
  PROVE  /\ worker.req \in Request
         /\ worker = [at |-> worker.at, req |-> worker.req]
  BY DEF TypeOK, WorkerStates

\* One step of any process keeps every variable in its type.
LEMMA TypeStep == TypeOK /\ [Next]_vars => TypeOK'
<1> SUFFICES ASSUME TypeOK, [Next]_vars PROVE TypeOK'
  OBVIOUS
<1>1. ASSUME NEW t \in Threads, Agent(t) PROVE TypeOK'
  <2>1. ASSUME NEW k \in Kinds, CheckMailbox(t, k) PROVE TypeOK'
    BY <2>1 DEF TypeOK, CheckMailbox, machineVars, ThreadStates
  <2>2. CASE Admit(t)
    BY <2>2 DEF TypeOK, Admit, machineVars, ThreadStates
  <2>3. CASE Refuse(t)
    BY <2>3 DEF TypeOK, Refuse, machineVars, historyVars, ThreadStates
  <2>4. CASE WriteScratch(t)
    BY <2>4, ThreadCarries
    DEF TypeOK, WriteScratch, machineVars, historyVars, ThreadStates
  <2>5. CASE Publish(t)
    BY <2>5, ThreadCarries DEF TypeOK, Publish, machineVars, ThreadStates
  <2>6. CASE PublishFails(t)
    BY <2>6 DEF TypeOK, PublishFails, machineVars, historyVars, ThreadStates
  <2> QED BY <1>1, <2>1, <2>2, <2>3, <2>4, <2>5, <2>6 DEF Agent
<1>2. CASE Worker
  <2> USE WorkerCarries DEF TypeOK, WorkerStates, agentVars, machineVars, historyVars, To
  <2>1. CASE ReadRequest BY <2>1 DEF ReadRequest
  <2>2. CASE Unlink BY <2>2 DEF Unlink
  <2>3. CASE BeginApply BY <2>3 DEF BeginApply, HostPhases, HostBusy
  <2>4. CASE RefreshCatalogue BY <2>4 DEF RefreshCatalogue, HostPhases, HostBusy
  <2>5. CASE Upgrade BY <2>5 DEF Upgrade, HostPhases, HostBusy
  <2>6. CASE BeginReboot
    <3>1. worker' \in WorkerStates
      BY <2>6 DEF BeginReboot
    <3>2. host' \in [phase : HostPhases, job : Jobs \cup {NoJob},
                    boot : Nat, reboot : BOOLEAN]
      <4>1. host' \in {[host EXCEPT !.phase = "rebooting", !.boot = boot],
                      [host EXCEPT !.phase = "failed"]}
        BY <2>6, Zenon DEF BeginReboot
      <4> QED BY <4>1 DEF HostPhases
    <3> QED BY <2>6, <3>1, <3>2 DEF BeginReboot
  <2>7. CASE RebootCommand
    <3>1. host' \in [phase : HostPhases, job : Jobs \cup {NoJob},
                    boot : Nat, reboot : BOOLEAN]
      <4>1. host' \in {host, [host EXCEPT !.phase = "failed"]}
        BY <2>7, Zenon DEF RebootCommand
      <4> QED BY <4>1 DEF HostPhases
    <3>2. goingDown' \in BOOLEAN
      BY <2>7, Zenon DEF RebootCommand
    <3>3. reboots' \in [Jobs -> Nat]
      BY <2>7 DEF RebootCommand
    <3> QED BY <2>7, <3>1, <3>2, <3>3 DEF RebootCommand
  <2>8. CASE BeginRelease BY <2>8 DEF BeginRelease, BotPhases, BotActive
  <2>9. CASE ReleaseProgress BY <2>9 DEF ReleaseProgress, BotPhases, BotActive, BotSettled
  <2>10. CASE RecreateContainers BY <2>10 DEF RecreateContainers, ThreadStates
  <2>11. CASE SettleRelease BY <2>11 DEF SettleRelease, BotPhases, BotSettled
  <2>12. CASE RefreshStatus BY <2>12 DEF RefreshStatus
  <2>13. CASE StartWorker
    BY <2>13 DEF StartWorker, HostPhases, BotPhases, BotSettled
  <2> QED BY <1>2, <2>1, <2>2, <2>3, <2>4, <2>5, <2>6, <2>7, <2>8, <2>9, <2>10,
             <2>11, <2>12, <2>13 DEF Worker
<1>3. CASE StopWorker
  BY <1>3, BoundAssumption DEF TypeOK, StopWorker, agentVars, historyVars, WorkerStates
<1>4. ASSUME Boot, failures' \in Nat PROVE TypeOK'
  <2>1. thread' \in [Threads -> ThreadStates] /\ worker' \in WorkerStates
    BY <1>4 DEF Boot, ThreadStates, WorkerStates
  <2>2. boot' \in Nat
    BY <1>4 DEF TypeOK, Boot
  <2>3. marker' \in BOOLEAN /\ goingDown' \in BOOLEAN
    BY <1>4, Zenon DEF Boot
  <2> QED BY <1>4, <2>1, <2>2, <2>3 DEF TypeOK, Boot, historyVars
<1>5. CASE RequestedBoot \/ Outage
  BY <1>4, <1>5 DEF TypeOK, RequestedBoot, Outage
<1>6. CASE UNCHANGED vars
  BY <1>6 DEF TypeOK, vars, agentVars, machineVars, historyVars
<1> QED BY <1>1, <1>2, <1>3, <1>4, <1>5, <1>6 DEF Next

\* Initially every variable has its type.
LEMMA TypeInit == Init => TypeOK
<1> SUFFICES ASSUME Init PROVE TypeOK
  OBVIOUS
<1>1. marker \in BOOLEAN /\ goingDown \in BOOLEAN
  BY Zenon DEF Init
<1>2. host \in [phase : HostPhases, job : Jobs \cup {NoJob}, boot : Nat, reboot : BOOLEAN]
  BY DEF Init, HostPhases
<1> QED BY <1>1, <1>2 DEF Init, TypeOK, ThreadStates, WorkerStates, BotPhases

\* Every file, thread and process of the bridge stays within its type: the
\* shapes of request.json, status.json and bot-release.json the code writes.
THEOREM TypeCorrect == Spec => []TypeOK
<1>1. Init => TypeOK
  BY TypeInit
<1>2. TypeOK /\ [Next]_vars => TypeOK'
  BY TypeStep
<1> QED BY <1>1, <1>2, PTL DEF Spec

-----------------------------------------------------------------------------

\* Actions that neither move a request that asks for a job nor begin one.
LEMMA CopiesUntouched ==
  ASSUME OneCopy, AtMostOnce,
         UNCHANGED <<scratch, mailbox, issued, runs>>,
         \A j \in Jobs : WorkerAsks(j)' => WorkerAsks(j),
         \A j \in Jobs : (worker.at = "dispatch" /\ WorkerAsks(j))' =>
                           worker.at = "dispatch" /\ WorkerAsks(j),
         \A t \in Threads, j \in Jobs : ThreadAsks(t, j)' => ThreadAsks(t, j)
  PROVE  OneCopy' /\ AtMostOnce'
  BY DEF OneCopy, AtMostOnce, Asks

\* Each step leaves at most one copy of a job that has not run.
LEMMA OneCopyStep ==
  ASSUME TypeOK, OneCopy, AtMostOnce, [Next]_vars
  PROVE  OneCopy' /\ AtMostOnce'
<1> USE DEF ThreadAsks, WorkerAsks
<1>1. ASSUME NEW t \in Threads, Agent(t) PROVE OneCopy' /\ AtMostOnce'
  <2>0. thread \in [Threads -> ThreadStates]
    BY DEF TypeOK
  <2>1. ASSUME NEW k \in Kinds, CheckMailbox(t, k) PROVE OneCopy' /\ AtMostOnce'
    BY <2>0, <2>1, CopiesUntouched DEF CheckMailbox
  <2>2. CASE Admit(t)
    <3>1. PICK req \in Request :
            /\ thread' = [thread EXCEPT ![t] = [at |-> "admitted", req |-> req]]
            /\ IF req.action = "reboot" THEN issued' = issued
               ELSE req.job \notin issued /\ issued' = issued \cup {req.job}
      BY <2>2 DEF Admit
    <3>2. UNCHANGED <<scratch, mailbox, worker, runs>>
      BY <2>2 DEF Admit
    <3>3. AtMostOnce'
      BY <3>2 DEF AtMostOnce
    <3>4. ASSUME NEW j \in Jobs, NEW u \in Threads, ThreadAsks(u, j)'
          PROVE  \/ ThreadAsks(u, j) /\ u # t
                 \/ u = t /\ j = req.job /\ j \notin issued
      BY <2>0, <3>1, <3>4 DEF Asks
    <3>5. issued \subseteq issued'
      BY <3>1
    <3>6. ASSUME NEW j \in Jobs, NEW u \in Threads, ThreadAsks(u, j)'
          PROVE  j \in issued'
      <4>1. CASE ThreadAsks(u, j)
        BY <3>5, <4>1 DEF OneCopy
      <4>2. CASE u = t /\ j = req.job
        BY <2>0, <3>1, <3>6, <4>2 DEF Asks
      <4> QED BY <3>4, <3>6, <4>1, <4>2
    <3>7. \A j \in Jobs : runs[j] > 0 \/ j \in issued \/ runs[j] = 0
      BY DEF TypeOK
    <3> HIDE DEF ThreadAsks
    <3> QED BY <3>1, <3>2, <3>3, <3>4, <3>5, <3>6, <3>7 DEF OneCopy, Asks, TypeOK
  <2>3. CASE Refuse(t)
    BY <2>0, <2>3, CopiesUntouched DEF Refuse, historyVars
  <2>4. CASE WriteScratch(t)
    <3>1. ThreadAsks(t, thread[t].req.job) \/ thread[t].req.action = "reboot"
      BY <2>4, ThreadCarries, RequestAssumption DEF WriteScratch, Asks
    <3> QED BY <2>0, <2>4, <3>1, ThreadCarries
            DEF WriteScratch, historyVars, OneCopy, AtMostOnce, Asks
  <2>5. CASE Publish(t)
    BY <2>0, <2>5 DEF Publish, OneCopy, AtMostOnce, Asks
  <2>6. CASE PublishFails(t)
    BY <2>0, <2>6, CopiesUntouched DEF PublishFails, historyVars
  <2> QED BY <1>1, <2>1, <2>2, <2>3, <2>4, <2>5, <2>6 DEF Agent
<1>2. CASE Worker
  <2> USE DEF agentVars, historyVars, To
  <2>1. CASE ReadRequest
    BY <2>1 DEF ReadRequest, OneCopy, AtMostOnce, Asks
  <2>2. CASE Unlink
    BY <2>2, WorkerCarries DEF Unlink, OneCopy, AtMostOnce, Asks
  <2>3. CASE BeginApply \/ BeginRelease
    <3>1. /\ worker.at = "dispatch" /\ worker.req.action # "reboot"
          /\ runs' = [runs EXCEPT ![worker.req.job] = @ + 1]
          /\ UNCHANGED <<mailbox, scratch, thread, issued>>
      BY <2>3 DEF BeginApply, BeginRelease
    <3>2. worker'.at \notin {"read", "dispatch"}
      BY <2>3, WorkerCarries DEF BeginApply, BeginRelease
    <3>3. worker.req \in Request
      BY <3>1, WorkerCarries
    <3>4. WorkerAsks(worker.req.job)
      BY <3>1, <3>3, RequestAssumption DEF Asks
    <3> QED BY <3>1, <3>2, <3>3, <3>4 DEF OneCopy, AtMostOnce, Asks, TypeOK
  <2>4. CASE RefreshCatalogue \/ Upgrade \/ RebootCommand \/ SettleRelease \/ StartWorker
    <3>1. worker'.at \notin {"read", "dispatch"}
      <4>1. CASE RefreshCatalogue BY <4>1, WorkerCarries DEF RefreshCatalogue
      <4>2. CASE ~RefreshCatalogue
        <5>1. worker' = Poll
          BY <2>4, <4>2 DEF Upgrade, RebootCommand, SettleRelease, StartWorker
        <5> QED BY <5>1
      <4> QED BY <4>1, <4>2
    <3>2. UNCHANGED <<scratch, mailbox, issued, runs, thread>>
      BY <2>4 DEF RefreshCatalogue, Upgrade, RebootCommand, SettleRelease, StartWorker
    <3> QED BY <3>1, <3>2, CopiesUntouched
  <2>5. CASE BeginReboot
    BY <2>5, CopiesUntouched, WorkerCarries DEF BeginReboot
  <2>6. CASE ReleaseProgress \/ RefreshStatus
    BY <2>6, CopiesUntouched DEF ReleaseProgress, RefreshStatus
  <2>7. CASE RecreateContainers
    BY <2>7, CopiesUntouched DEF RecreateContainers
  <2> QED BY <1>2, <2>1, <2>2, <2>3, <2>4, <2>5, <2>6, <2>7 DEF Worker
<1>3. CASE StopWorker
  BY <1>3, CopiesUntouched DEF StopWorker, agentVars, historyVars
<1>4. CASE RequestedBoot \/ Outage
  BY <1>4, CopiesUntouched DEF RequestedBoot, Outage, Boot, historyVars
<1>5. CASE UNCHANGED vars
  BY <1>5, CopiesUntouched DEF vars, agentVars, historyVars
<1> QED BY <1>1, <1>2, <1>3, <1>4, <1>5 DEF Next

-----------------------------------------------------------------------------

\* Restart requests are only copied along, never invented or renamed.
LEMMA RestartsConfirmedStep ==
  ASSUME TypeOK, RestartsConfirmed, [Next]_vars
  PROVE  RestartsConfirmed'
<1> USE DEF Confirmed
<1>0. thread \in [Threads -> ThreadStates]
  BY DEF TypeOK
<1>1. ASSUME NEW t \in Threads, Agent(t) PROVE RestartsConfirmed'
  <2>1. ASSUME NEW k \in Kinds, CheckMailbox(t, k) PROVE RestartsConfirmed'
    BY <1>0, <2>1 DEF CheckMailbox, RestartsConfirmed
  <2>2. CASE Admit(t)
    <3>1. PICK req \in Request :
            /\ thread' = [thread EXCEPT ![t] = [at |-> "admitted", req |-> req]]
            /\ req.action = thread[t].action
            /\ req.action = "reboot" => req.job = thread[t].job
      BY <2>2 DEF Admit
    <3>2. Confirmed(req)
      BY <2>2, <3>1 DEF Admit, RestartsConfirmed
    <3>3. UNCHANGED <<scratch, mailbox, worker, confirmed>>
      BY <2>2 DEF Admit
    <3> QED BY <1>0, <3>1, <3>2, <3>3 DEF RestartsConfirmed
  <2>3. CASE Refuse(t) \/ PublishFails(t)
    BY <1>0, <2>3 DEF Refuse, PublishFails, historyVars, RestartsConfirmed
  <2>4. CASE WriteScratch(t)
    BY <1>0, <2>4, ThreadCarries DEF WriteScratch, historyVars, RestartsConfirmed
  <2>5. CASE Publish(t)
    BY <1>0, <2>5 DEF Publish, RestartsConfirmed
  <2> QED BY <1>1, <2>1, <2>2, <2>3, <2>4, <2>5 DEF Agent
<1>2. CASE Worker
  <2> USE DEF agentVars, historyVars, To
  <2>1. CASE ReadRequest
    BY <2>1 DEF ReadRequest, RestartsConfirmed
  <2>2. CASE ~ReadRequest
    <3>1. \/ worker'.at \in {"down", "poll"}
          \/ worker.at \notin {"down", "poll"} /\ worker'.req = worker.req
      <4>1. CASE worker.at \in {"down", "poll"}
        <5>1. CASE StartWorker BY <5>1 DEF StartWorker
        <5>2. CASE RefreshStatus BY <4>1, <5>2 DEF RefreshStatus
        <5> QED BY <1>2, <2>2, <4>1, <5>1, <5>2
            DEF Worker, Unlink, BeginApply, RefreshCatalogue, Upgrade, BeginReboot,
                RebootCommand, BeginRelease, ReleaseProgress, RecreateContainers,
                SettleRelease
      <4>2. CASE worker.at \notin {"down", "poll"}
        <5>1. \/ worker' = Poll \/ worker' = worker
              \/ To("dispatch") \/ To("refreshing") \/ To("upgrading")
              \/ To("rebooting") \/ To("release")
          BY <1>2, <2>2
          DEF Worker, Unlink, BeginApply, RefreshCatalogue, Upgrade, BeginReboot,
              RebootCommand, BeginRelease, ReleaseProgress, RecreateContainers,
              SettleRelease, RefreshStatus, StartWorker
        <5> QED BY <4>2, <5>1, WorkerCarries
      <4> QED BY <4>1, <4>2
    <3>2. /\ scratch' = scratch /\ confirmed' = confirmed
          /\ mailbox' \in {mailbox, NoRequest}
          /\ thread' = thread \/ thread' = [t \in Threads |-> Idle]
      BY <1>2, <2>2
      DEF Worker, Unlink, BeginApply, RefreshCatalogue, Upgrade, BeginReboot,
          RebootCommand, BeginRelease, ReleaseProgress, RecreateContainers,
          SettleRelease, RefreshStatus, StartWorker
    <3> QED BY <3>1, <3>2 DEF RestartsConfirmed
  <2> QED BY <2>1, <2>2
<1>3. CASE StopWorker
  BY <1>3 DEF StopWorker, agentVars, historyVars, RestartsConfirmed
<1>4. CASE RequestedBoot \/ Outage
  BY <1>4 DEF RequestedBoot, Outage, Boot, historyVars, RestartsConfirmed
<1>5. CASE UNCHANGED vars
  BY <1>5 DEF vars, agentVars, historyVars, RestartsConfirmed
<1> QED BY <1>1, <1>2, <1>3, <1>4, <1>5 DEF Next

-----------------------------------------------------------------------------

\* A job that waits for its restart, or is on its way there, ran once and was
\* never the cause of a reboot; a reboot is counted for such a job only.
LEMMA RestartStep ==
  ASSUME TypeOK, OneCopy, AtMostOnce, RestartsConfirmed, RestartPending,
         RebootConfirmedOnce, [Next]_vars
  PROVE  RestartPending' /\ RebootConfirmedOnce'
<1> USE DEF RestartPending, RebootConfirmedOnce, HostBusy
<1>0. runs \in [Jobs -> Nat] /\ reboots \in [Jobs -> Nat]
  BY DEF TypeOK
<1>1. ASSUME NEW t \in Threads, Agent(t) PROVE RestartPending' /\ RebootConfirmedOnce'
  <2>1. UNCHANGED <<host, worker, runs, reboots>> /\ confirmed \subseteq confirmed'
    BY <1>1 DEF Agent, CheckMailbox, Admit, Refuse, WriteScratch, Publish,
                PublishFails, historyVars
  <2> QED BY <2>1
<1>2. CASE Worker
  <2> USE WorkerCarries DEF agentVars, historyVars, To
  <2>1. CASE ReadRequest
    BY <2>1 DEF ReadRequest
  <2>2. CASE Unlink
    BY <2>2 DEF Unlink
  <2>3. CASE BeginApply \/ BeginRelease
    <3> DEFINE j == worker.req.job
    <3>1. /\ j \in Jobs /\ runs[j] = 0
          /\ runs' = [runs EXCEPT ![j] = @ + 1] /\ UNCHANGED <<reboots, confirmed>>
      BY <2>3, RequestAssumption DEF BeginApply, BeginRelease, OneCopy, WorkerAsks, Asks
    <3>2. /\ \A k \in Jobs : runs[k] > 0 => runs'[k] = runs[k]
          /\ runs'[j] = 1 /\ reboots[j] = 0
      BY <1>0, <3>1
    <3>3. RebootConfirmedOnce'
      BY <1>0, <3>1, <3>2
    <3>4. CASE BeginApply
      <4>1. host'.phase \in {"checking", "failed"} /\ host'.job = j
        BY <3>4 DEF BeginApply
      <4>2. \/ worker'.at = "refreshing" /\ host'.phase = "checking"
            \/ worker'.at = "poll"
        BY <3>4 DEF BeginApply
      <4> QED BY <1>0, <3>1, <3>2, <3>3, <4>1, <4>2
    <3>5. CASE BeginRelease
      <4>1. host' = host /\ worker'.at = "release"
        BY <3>5 DEF BeginRelease
      <4> QED BY <1>0, <3>1, <3>2, <3>3, <4>1
    <3> QED BY <2>3, <3>4, <3>5
  <2>4. CASE RefreshCatalogue
    <3>1. /\ UNCHANGED <<runs, reboots, confirmed>>
          /\ host'.job = host.job /\ host.phase = "checking"
          /\ \/ host'.phase = "applying" /\ worker'.at = "upgrading"
             \/ host'.phase = "failed" /\ worker'.at = "poll"
      BY <2>4 DEF RefreshCatalogue, TypeOK
    <3> QED BY <3>1
  <2>5. CASE Upgrade
    <3>1. /\ UNCHANGED <<runs, reboots, confirmed>> /\ worker' = Poll
          /\ host.phase = "applying"
      BY <2>5 DEF Upgrade
    <3>2. host'.job = host.job /\ host'.phase \in {"ready_for_reboot", "complete", "failed"}
      BY <2>5 DEF Upgrade, TypeOK
    <3> QED BY <3>1, <3>2
  <2>6. CASE BeginReboot
    <3>1. UNCHANGED <<runs, reboots, confirmed>> /\ worker.req.action = "reboot"
      BY <2>6 DEF BeginReboot
    <3>2. \/ /\ RebootConfirmed /\ host' = [host EXCEPT !.phase = "rebooting", !.boot = boot]
             /\ To("rebooting")
          \/ host' = [host EXCEPT !.phase = "failed"] /\ worker' = Poll
      BY <2>6, Zenon DEF BeginReboot
    <3>3. CASE RebootConfirmed /\ host' = [host EXCEPT !.phase = "rebooting", !.boot = boot]
               /\ To("rebooting")
      <4>1. host.phase = "ready_for_reboot" /\ host.job = worker.req.job
        BY <3>3, Zenon DEF RebootConfirmed
      <4>2. /\ host'.phase = "rebooting" /\ host'.job = host.job
            /\ worker'.at = "rebooting" /\ worker'.req = worker.req
        <5> HIDE DEF RestartPending, RebootConfirmedOnce
        <5>1. worker' = [worker EXCEPT !.at = "rebooting"]
          BY <3>3, Zenon
        <5>2. worker = [at |-> worker.at, req |-> worker.req]
          BY <2>6 DEF BeginReboot
        <5>3. host' = [host EXCEPT !.phase = "rebooting", !.boot = boot]
          BY <3>3, Zenon
        <5> QED BY <5>1, <5>2, <5>3 DEF TypeOK
      <4> QED BY <3>1, <4>1, <4>2
    <3>4. CASE host' = [host EXCEPT !.phase = "failed"] /\ worker' = Poll
      <4>1. host'.phase = "failed" /\ worker'.at = "poll"
        BY <3>4 DEF TypeOK
      <4> QED BY <3>1, <4>1
    <3> QED BY <3>2, <3>3, <3>4
  <2>7. CASE RebootCommand
    <3>1. /\ worker.at = "rebooting" /\ worker' = Poll
          /\ UNCHANGED <<runs, confirmed>>
      BY <2>7 DEF RebootCommand
    <3>2. /\ worker.req.job = host.job /\ host.phase = "rebooting"
          /\ host.job \in Jobs /\ host.job \in confirmed
          /\ runs[host.job] = 1 /\ reboots[host.job] = 0
      BY <3>1, RequestAssumption DEF RestartsConfirmed, Confirmed
    <3>3. CASE host' = host /\ reboots' = [reboots EXCEPT ![worker.req.job] = @ + 1]
      BY <1>0, <3>1, <3>2, <3>3
    <3>4. CASE host' = [host EXCEPT !.phase = "failed"] /\ reboots' = reboots
      <4>1. host'.phase = "failed"
        BY <3>4 DEF TypeOK
      <4> QED BY <3>1, <3>4, <4>1
    <3> QED BY <2>7, <3>3, <3>4 DEF RebootCommand
  <2>8. CASE ReleaseProgress \/ RecreateContainers \/ SettleRelease
    BY <2>8 DEF ReleaseProgress, RecreateContainers, SettleRelease
  <2>9. CASE RefreshStatus
    <3>1. UNCHANGED <<runs, reboots, confirmed, worker>> /\ worker = Poll
      BY <2>9 DEF RefreshStatus
    <3>2. host'.phase = host.phase /\ host'.job = host.job
      BY <2>9 DEF RefreshStatus, TypeOK
    <3> QED BY <3>1, <3>2
  <2>10. CASE StartWorker
    <3>1. UNCHANGED <<runs, reboots, confirmed>> /\ worker' = Poll
      BY <2>10 DEF StartWorker
    <3>2. host'.job = host.job /\ host'.phase \in {host.phase, "online"}
      BY <2>10 DEF StartWorker, TypeOK
    <3> QED BY <3>1, <3>2
  <2> QED BY <1>2, <2>1, <2>2, <2>3, <2>4, <2>5, <2>6, <2>7, <2>8, <2>9, <2>10 DEF Worker
<1>3. CASE StopWorker
  BY <1>3 DEF StopWorker, historyVars
<1>4. CASE RequestedBoot \/ Outage
  BY <1>4 DEF RequestedBoot, Outage, Boot, historyVars
<1>5. CASE UNCHANGED vars
  BY <1>5 DEF vars, historyVars
<1> QED BY <1>1, <1>2, <1>3, <1>4, <1>5 DEF Next

\* Only the worker that executes a release job shows a release in progress.
LEMMA ReleaseStep ==
  ASSUME TypeOK, ReleaseNamesJob, NoOrphanedRelease, [Next]_vars
  PROVE  ReleaseNamesJob' /\ NoOrphanedRelease'
<1> USE DEF ReleaseNamesJob, NoOrphanedRelease
<1>1. ASSUME NEW t \in Threads, Agent(t) PROVE UNCHANGED <<bot, worker>>
  BY <1>1 DEF Agent, CheckMailbox, Admit, Refuse, WriteScratch, Publish, PublishFails
<1>2. CASE Worker
  <2> USE WorkerCarries DEF To, BotActive
  <2>1. CASE worker.at # "release" /\ ~BeginRelease /\ ~StartWorker
    <3>0. bot' = bot
      BY <1>2, <2>1
      DEF Worker, ReadRequest, Unlink, BeginApply, RefreshCatalogue, Upgrade, BeginReboot,
          RebootCommand, ReleaseProgress, RecreateContainers, SettleRelease, RefreshStatus
    <3>1. worker # Down
      <4>1. worker = Poll \/ worker.at \in {"read", "dispatch", "refreshing", "upgrading", "rebooting"}
        BY <1>2, <2>1
        DEF Worker, ReadRequest, Unlink, BeginApply, RefreshCatalogue, Upgrade, BeginReboot,
            RebootCommand, ReleaseProgress, RecreateContainers, SettleRelease, RefreshStatus
      <4> QED BY <4>1
    <3>2. \/ worker' = worker \/ worker' = Poll \/ worker' = [at |-> "read", req |-> mailbox]
          \/ /\ worker.at \in {"read", "dispatch", "refreshing"}
             /\ To("dispatch") \/ To("refreshing") \/ To("upgrading") \/ To("rebooting")
      BY <1>2, <2>1
      DEF Worker, ReadRequest, Unlink, BeginApply, RefreshCatalogue, Upgrade, BeginReboot,
          RebootCommand, ReleaseProgress, RecreateContainers, SettleRelease, RefreshStatus
    <3>3. worker'.at # "release"
      BY <2>1, <3>2
    <3> QED BY <2>1, <3>0, <3>1, <3>3
  <2>2. CASE BeginRelease
    BY <2>2 DEF BeginRelease
  <2>3. CASE StartWorker
    BY <2>3 DEF StartWorker, TypeOK
  <2>4. CASE worker.at = "release"
    <3>1. CASE ReleaseProgress BY <3>1, <2>4 DEF ReleaseProgress, TypeOK
    <3>2. CASE RecreateContainers BY <3>2, <2>4 DEF RecreateContainers
    <3>3. CASE SettleRelease BY <3>3, <2>4 DEF SettleRelease, TypeOK, BotSettled
    <3> QED BY <1>2, <2>4, <3>1, <3>2, <3>3
        DEF Worker, ReadRequest, Unlink, BeginApply, RefreshCatalogue, Upgrade, BeginReboot,
            RebootCommand, BeginRelease, RefreshStatus, StartWorker
  <2> QED BY <2>1, <2>2, <2>3, <2>4
<1>3. CASE StopWorker \/ RequestedBoot \/ Outage
  BY <1>3 DEF StopWorker, RequestedBoot, Outage, Boot
<1>4. CASE UNCHANGED vars
  BY <1>4 DEF vars
<1> QED BY <1>1, <1>2, <1>3, <1>4 DEF Next

\* Before the first request there is nothing to copy, confirm or finish.
LEMMA BridgeInit == Init => BridgeInv
  BY DEF Init, BridgeInv, OneCopy, AtMostOnce, RestartsConfirmed, RestartPending,
         RebootConfirmedOnce, ReleaseNamesJob, NoOrphanedRelease, Asks, ThreadAsks,
         WorkerAsks, Confirmed, HostBusy, BotActive

\* The strengthening holds in every reachable state.
THEOREM BridgeCorrect == Spec => [](TypeOK /\ BridgeInv)
<1>1. Init => TypeOK /\ BridgeInv
  BY TypeInit, BridgeInit
<1>2. TypeOK /\ BridgeInv /\ [Next]_vars => (TypeOK /\ BridgeInv)'
  BY TypeStep, OneCopyStep, RestartsConfirmedStep, RestartStep, ReleaseStep DEF BridgeInv
<1> QED BY <1>1, <1>2, PTL DEF Spec

\* No job is ever executed twice: neither threads racing on request.json.tmp nor
\* a worker restarted around the unlink can dispatch a request again.
THEOREM ExecutedAtMostOnce == Spec => []AtMostOnce
<1>1. TypeOK /\ BridgeInv => AtMostOnce
  BY DEF BridgeInv
<1> QED BY <1>1, BridgeCorrect, PTL

\* The host reboots at most once per maintenance job, and only for a job that
\* ran and whose restart an administrator confirmed.
THEOREM RebootsOnlyConfirmed == Spec => []RebootConfirmedOnce
<1>1. TypeOK /\ BridgeInv => RebootConfirmedOnce
  BY DEF BridgeInv
<1> QED BY <1>1, BridgeCorrect, PTL

\* bot-release.json never shows a release in progress that nobody works on
\* while the worker is up, so the agent's refusal of release actions ends.
THEOREM ReleaseNeverOrphaned == Spec => []NoOrphanedRelease
<1>1. TypeOK /\ BridgeInv => NoOrphanedRelease
  BY DEF BridgeInv
<1> QED BY <1>1, BridgeCorrect, PTL

-----------------------------------------------------------------------------

\* Actions of the worker past the dispatch leave the requests and the calls
\* alone, and with them what a call that met no other relies on.
LEMMA HandoverUntouched ==
  ASSUME HandedOver,
         UNCHANGED <<mailbox, scratch, thread, crowded, alone, runs, failures, boot>>,
         worker'.at \notin {"read", "dispatch"},
         worker.at \notin {"read", "dispatch"}
  PROVE  HandedOver'
BY DEF HandedOver, Asks

\* No step loses the request of a call that no other call overlapped.
LEMMA HandoverStep ==
  ASSUME TypeOK, HandedOver, [Next]_vars
  PROVE  HandedOver'
<1>0. /\ thread \in [Threads -> ThreadStates]
      /\ runs \in [Jobs -> Nat] /\ failures \in Nat /\ boot \in Nat
      /\ mailbox \in Request \cup {NoRequest} /\ alone \subseteq Jobs
  BY DEF TypeOK
<1>1. ASSUME NEW t \in Threads, Agent(t) PROVE HandedOver'
  <2>1. ASSUME NEW k \in Kinds, CheckMailbox(t, k)
        PROVE  HandedOver'
    <3>1. /\ mailbox = NoRequest /\ thread[t] = Idle /\ thread'[t].at = "checked"
          /\ \A u \in Threads : u # t => thread'[u] = thread[u]
          /\ crowded' = (\E u \in Threads : thread[u] # Idle)
          /\ UNCHANGED <<mailbox, scratch, worker, alone, runs, failures, boot>>
      BY <1>0, <2>1 DEF CheckMailbox, machineVars
    <3> QED BY <3>1 DEF HandedOver, Asks
  <2>2. ASSUME thread[t] # Idle,
               \A u \in Threads : u # t => thread'[u] = thread[u],
               thread'[t].at = "written" => scratch' = thread'[t].req,
               UNCHANGED <<mailbox, worker, crowded, alone, runs, failures, boot>>
        PROVE  HandedOver'
    BY <2>2 DEF HandedOver, Asks
  <2>3. CASE Admit(t)
    <3>1. /\ thread[t] # Idle /\ thread'[t].at = "admitted"
          /\ \A u \in Threads : u # t => thread'[u] = thread[u]
          /\ UNCHANGED <<mailbox, worker, crowded, alone, runs, failures, boot>>
      BY <1>0, <2>3 DEF Admit, machineVars
    <3> QED BY <2>2, <3>1
  <2>4. CASE Refuse(t) \/ PublishFails(t)
    <3>1. /\ thread[t] # Idle /\ thread'[t] = Idle
          /\ \A u \in Threads : u # t => thread'[u] = thread[u]
          /\ UNCHANGED <<mailbox, worker, crowded, alone, runs, failures, boot>>
      BY <1>0, <2>4 DEF Refuse, PublishFails, machineVars, historyVars
    <3> QED BY <2>2, <3>1 DEF Idle
  <2>5. CASE WriteScratch(t)
    <3>1. /\ thread[t] # Idle
          /\ thread'[t].req = thread[t].req /\ scratch' = thread[t].req
          /\ \A u \in Threads : u # t => thread'[u] = thread[u]
          /\ UNCHANGED <<mailbox, worker, crowded, alone, runs, failures, boot>>
      BY <1>0, <2>5, ThreadCarries DEF WriteScratch, machineVars, historyVars
    <3> QED BY <2>2, <3>1
  <2>6. CASE Publish(t)
    <3>1. /\ thread[t].at = "written" /\ thread[t] # Idle /\ thread'[t] = Idle
          /\ \A u \in Threads : u # t => thread'[u] = thread[u]
          /\ mailbox' = scratch /\ scratch # NoRequest
          /\ UNCHANGED <<worker, crowded, runs, failures, boot>>
      BY <1>0, <2>6 DEF Publish, machineVars
    <3>2. /\ crowded => alone' = alone
          /\ \A j \in alone' : j \in alone \/
               (j = thread[t].req.job /\ thread[t].req.action # "reboot")
      BY <2>6 DEF Publish
    \* The request an earlier call left is not overwritten: it has been unlinked.
    <3>3. ASSUME failures = 0, boot = 0, NEW j \in alone
          PROVE  runs[j] > 0 \/ (worker.at = "dispatch" /\ Asks(worker.req, j))
      BY <3>1, <3>3 DEF HandedOver
    <3>4. CASE crowded
      BY <3>1, <3>2, <3>3, <3>4 DEF HandedOver
    <3>5. CASE ~crowded
      <4>1. /\ mailbox = NoRequest /\ scratch = thread[t].req
            /\ \A u \in Threads : thread[u] # Idle => u = t
        BY <3>1, <3>5 DEF HandedOver
      <4>2. worker.at # "read"
        BY <4>1 DEF HandedOver
      <4>3. \A u \in Threads : thread'[u] = Idle
        BY <3>1, <4>1
      <4>4. \A j \in alone' \ alone : Asks(mailbox', j)
        BY <3>1, <3>2, <4>1 DEF Asks
      <4> QED BY <3>1, <3>3, <4>2, <4>3, <4>4 DEF HandedOver
    <3> QED BY <3>4, <3>5
  <2> QED BY <1>1, <2>1, <2>3, <2>4, <2>5, <2>6 DEF Agent
<1>2. CASE Worker
  <2> USE DEF agentVars, machineVars, historyVars, To
  <2>1. CASE ReadRequest
    <3>1. /\ worker = Poll /\ mailbox # NoRequest
          /\ worker' = [at |-> "read", req |-> mailbox]
          /\ UNCHANGED <<mailbox, scratch, thread, crowded, alone, runs, failures, boot>>
      BY <2>1 DEF ReadRequest
    <3> QED BY <3>1 DEF HandedOver, Asks, Poll
  <2>2. CASE Unlink
    <3>1. /\ worker.at = "read" /\ worker'.at = "dispatch" /\ worker'.req = worker.req
          /\ mailbox' = NoRequest
          /\ UNCHANGED <<scratch, thread, crowded, alone, runs, failures, boot>>
      BY <2>2, WorkerCarries DEF Unlink
    <3> QED BY <3>1 DEF HandedOver, Asks
  <2>3. CASE BeginApply \/ BeginRelease
    <3> DEFINE j == worker.req.job
    <3>1. /\ worker.at = "dispatch" /\ j \in Jobs
          /\ runs' = [runs EXCEPT ![j] = @ + 1]
          /\ UNCHANGED <<mailbox, scratch, thread, crowded, alone, failures, boot>>
      BY <2>3, WorkerCarries DEF BeginApply, BeginRelease
    <3>2. worker'.at \notin {"read", "dispatch"}
      BY <2>3, WorkerCarries DEF BeginApply, BeginRelease
    <3>3. runs'[j] > 0 /\ \A k \in Jobs : runs[k] > 0 => runs'[k] > 0
      BY <1>0, <3>1
    <3> QED BY <1>0, <3>1, <3>2, <3>3 DEF HandedOver, Asks
  <2>4. CASE BeginReboot
    <3>1. /\ worker.at = "dispatch" /\ worker.req.action = "reboot"
          /\ UNCHANGED <<mailbox, scratch, thread, crowded, alone, runs, failures, boot>>
      BY <2>4, WorkerCarries DEF BeginReboot
    <3>2. worker'.at \notin {"read", "dispatch"}
      BY <2>4, WorkerCarries DEF BeginReboot
    <3> QED BY <3>1, <3>2 DEF HandedOver, Asks
  <2>5. CASE RecreateContainers
    <3>1. /\ worker.at = "release" /\ thread' = [t \in Threads |-> Idle]
          /\ UNCHANGED <<mailbox, scratch, worker, crowded, alone, runs, failures, boot>>
      BY <2>5 DEF RecreateContainers
    <3> QED BY <3>1 DEF HandedOver, Asks
  <2>6. CASE \/ RefreshCatalogue \/ Upgrade \/ RebootCommand \/ ReleaseProgress
             \/ SettleRelease \/ RefreshStatus \/ StartWorker
    <3>1. UNCHANGED <<mailbox, scratch, thread, crowded, alone, runs, failures, boot>>
      BY <2>6 DEF RefreshCatalogue, Upgrade, RebootCommand, ReleaseProgress,
                  SettleRelease, RefreshStatus, StartWorker
    <3>2. worker.at \notin {"read", "dispatch"}
      <4>1. \/ worker.at \in {"refreshing", "upgrading", "rebooting", "release"}
            \/ worker = Poll \/ worker = Down
        BY <2>6 DEF RefreshCatalogue, Upgrade, RebootCommand, ReleaseProgress,
                    SettleRelease, RefreshStatus, StartWorker
      <4> QED BY <4>1 DEF Poll, Down
    <3>3. worker'.at \notin {"read", "dispatch"}
      <4>1. CASE RefreshCatalogue
        BY <4>1, WorkerCarries DEF RefreshCatalogue, Poll
      <4>2. CASE ~RefreshCatalogue
        <5>1. worker' = Poll \/ worker' = worker
          BY <2>6, <4>2 DEF Upgrade, RebootCommand, ReleaseProgress, SettleRelease,
                            RefreshStatus, StartWorker
        <5> QED BY <3>2, <5>1 DEF Poll
      <4> QED BY <4>1, <4>2
    <3> QED BY <3>1, <3>2, <3>3, HandoverUntouched
  <2> QED BY <1>2, <2>1, <2>2, <2>3, <2>4, <2>5, <2>6 DEF Worker
<1>3. CASE StopWorker
  <2>1. /\ worker' = Down /\ failures' # 0
        /\ UNCHANGED <<mailbox, scratch, thread, crowded>>
    BY <1>0, <1>3 DEF StopWorker, agentVars, historyVars
  <2> QED BY <2>1 DEF HandedOver, Down
<1>4. CASE RequestedBoot \/ Outage
  <2>1. /\ worker' = Down /\ boot' # 0 /\ thread' = [t \in Threads |-> Idle]
    BY <1>0, <1>4 DEF RequestedBoot, Outage, Boot, historyVars
  <2> QED BY <2>1 DEF HandedOver, Down
<1>5. CASE UNCHANGED vars
  <2>1. UNCHANGED <<mailbox, scratch, thread, worker, crowded, alone, runs, failures, boot>>
    BY <1>5 DEF vars, agentVars, machineVars, historyVars
  <2> QED BY <2>1 DEF HandedOver, Asks
<1> QED BY <1>1, <1>2, <1>3, <1>4, <1>5 DEF Next

\* As long as no process dies, the request of a call the agent answered
\* "accepted" and no other call overlapped is in request.json, in the worker's
\* hands, or was begun, for every number of threads and jobs and every sequence of
\* calls, crowded ones included.  Of calls that overlap it is not true: both write
\* through request.json.tmp, long after they looked.
THEOREM AcceptedNotLost == Spec => []AloneReachesWorker
<1>1. Init => HandedOver
  BY DEF Init, HandedOver, Poll
<1>2. TypeOK /\ HandedOver /\ [Next]_vars => HandedOver'
  BY HandoverStep
<1>3. HandedOver => AloneReachesWorker
  BY DEF HandedOver, AloneReachesWorker, ReachesWorker, Asks
<1> QED BY <1>1, <1>2, <1>3, TypeCorrect, PTL DEF Spec

-----------------------------------------------------------------------------
(* Readers of bot-release.json see the phases of a job                     *)

\* Nothing but a release job and the start of a worker touches bot-release.json,
\* and nobody else is at work on such a job.
LEMMA ElsewhereStep ==
  ASSUME TypeOK, [Next]_vars, worker.at # "release", ~BeginRelease, ~StartWorker
  PROVE  /\ bot' = bot
         /\ worker'.at # "release"
         /\ worker' = Down \/ (worker = Down <=> worker' = Down)
<1>1. ASSUME NEW t \in Threads, Agent(t) PROVE UNCHANGED <<bot, worker>>
  BY <1>1 DEF Agent, CheckMailbox, Admit, Refuse, WriteScratch, Publish, PublishFails
<1>2. CASE Worker
  <2> USE WorkerCarries DEF To
  <2>1. bot' = bot
    BY <1>2
    DEF Worker, ReadRequest, Unlink, BeginApply, RefreshCatalogue, Upgrade, BeginReboot,
        RebootCommand, ReleaseProgress, RecreateContainers, SettleRelease, RefreshStatus
  <2>2. worker # Down
    <3>1. worker = Poll \/ worker.at \in {"read", "dispatch", "refreshing", "upgrading", "rebooting"}
      BY <1>2
      DEF Worker, ReadRequest, Unlink, BeginApply, RefreshCatalogue, Upgrade, BeginReboot,
          RebootCommand, ReleaseProgress, RecreateContainers, SettleRelease, RefreshStatus
    <3> QED BY <3>1
  <2>3. \/ worker' = worker \/ worker' = Poll \/ worker' = [at |-> "read", req |-> mailbox]
        \/ /\ worker.at \in {"read", "dispatch", "refreshing"}
           /\ To("dispatch") \/ To("refreshing") \/ To("upgrading") \/ To("rebooting")
    BY <1>2
    DEF Worker, ReadRequest, Unlink, BeginApply, RefreshCatalogue, Upgrade, BeginReboot,
        RebootCommand, ReleaseProgress, RecreateContainers, SettleRelease, RefreshStatus
  <2>4. worker'.at # "release" /\ worker' # Down
    BY <2>2, <2>3
  <2> QED BY <2>1, <2>2, <2>4
<1>3. CASE StopWorker \/ RequestedBoot \/ Outage
  BY <1>3 DEF StopWorker, RequestedBoot, Outage, Boot
<1>4. CASE UNCHANGED vars
  BY <1>4 DEF vars
<1> QED BY <1>1, <1>2, <1>3, <1>4 DEF Next

\* A job at work publishes, settles or dies; recreating the agent's container
\* does not show in its file.
LEMMA AtWorkStep ==
  ASSUME TypeOK, [Next]_vars, worker.at = "release"
  PROVE  \/ UNCHANGED <<bot, worker>>
         \/ ReleaseProgress /\ UNCHANGED worker
         \/ SettleRelease
         \/ worker' = Down /\ UNCHANGED bot
<1>1. ASSUME NEW t \in Threads, Agent(t) PROVE UNCHANGED <<bot, worker>>
  BY <1>1 DEF Agent, CheckMailbox, Admit, Refuse, WriteScratch, Publish, PublishFails
<1>2. CASE Worker
  BY <1>2 DEF Worker, ReadRequest, Unlink, BeginApply, RefreshCatalogue, Upgrade, BeginReboot,
     RebootCommand, BeginRelease, ReleaseProgress, RecreateContainers, RefreshStatus, StartWorker
<1>3. CASE StopWorker \/ RequestedBoot \/ Outage
  BY <1>3 DEF StopWorker, RequestedBoot, Outage, Boot
<1>4. CASE UNCHANGED vars
  BY <1>4 DEF vars
<1> QED BY <1>1, <1>2, <1>3, <1>4 DEF Next

\* Each step of the bridge is one of ReleasePhases, or does not show.
LEMMA BridgePhaseStep ==
  TypeOK /\ [Next]_vars => [Phases!Next]_(Phases!pvars)
<1> SUFFICES ASSUME TypeOK, [Next]_vars PROVE [Phases!Next]_(Phases!pvars)
  OBVIOUS
<1> DEFINE shown(p) == IF p = "idle" THEN "none" ELSE IF p \in BotActive THEN "busy"
                       ELSE IF p = "failed" THEN "failed" ELSE "done"
           place(w) == IF w.at = "release" THEN "job" ELSE IF w = Down THEN "dead" ELSE "idle"
<1>1. CASE worker.at = "release"
  <2>1. CASE UNCHANGED <<bot, worker>>
    BY <2>1 DEF Phases!pvars
  <2>2. CASE ReleaseProgress /\ UNCHANGED worker
    <3>1. bot'.phase \in BotActive \cup {"failed"}
      BY <2>2 DEF ReleaseProgress, TypeOK
    <3>2. shown(bot'.phase) \in {"busy", "failed"}
      BY <3>1 DEF BotActive
    <3> QED BY <1>1, <2>2, <3>2 DEF Phases!Next, Phases!Progress
  <2>3. CASE SettleRelease
    <3>1. bot'.phase \in BotSettled /\ worker' = Poll
      BY <2>3 DEF SettleRelease, TypeOK
    <3>2. shown(bot'.phase) \in {"failed", "done"} /\ place(worker') = "idle"
      BY <3>1 DEF BotActive, BotSettled
    <3> QED BY <1>1, <3>2 DEF Phases!Next, Phases!Settle
  <2>4. CASE worker' = Down /\ UNCHANGED bot
    BY <1>1, <2>4 DEF Phases!Next, Phases!Die
  <2> QED BY <1>1, <2>1, <2>2, <2>3, <2>4, AtWorkStep
<1>2. CASE BeginRelease
  <2>1. /\ worker.at = "dispatch" /\ worker'.at = "release" /\ bot'.phase = "checking"
    BY <1>2, WorkerCarries DEF BeginRelease, To
  <2> QED BY <2>1 DEF Phases!Next, Phases!Begin, BotActive
<1>3. CASE StartWorker
  <2>1. /\ worker = Down /\ worker' = Poll
        /\ bot'.phase = IF bot.phase \in BotActive THEN "failed" ELSE bot.phase
    BY <1>3 DEF StartWorker, TypeOK
  <2>2. shown(bot'.phase) = IF shown(bot.phase) = "busy" THEN "failed" ELSE shown(bot.phase)
    BY <2>1 DEF BotActive
  <2> QED BY <2>1, <2>2 DEF Phases!Next, Phases!Start
<1>4. CASE worker.at # "release" /\ ~BeginRelease /\ ~StartWorker
  BY <1>4, ElsewhereStep DEF Phases!Next, Phases!Die, Phases!pvars
<1> QED BY <1>1, <1>2, <1>3, <1>4

\* Whatever requests, restarts and boots do around it, a reader of the file
\* sees a release job begin, show phases, settle once, or be reported as failed
\* by the next worker; ControlRelease says the same of the jobs themselves.
THEOREM BridgeKeepsPhases == Spec => PhasesKept
<1>1. Init => Phases!Init
  BY DEF Init, Phases!Init
<1> QED BY <1>1, BridgePhaseStep, TypeCorrect, PTL DEF Spec, PhasesKept, Phases!Spec

=============================================================================
