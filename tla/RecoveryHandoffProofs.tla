------------------------- MODULE RecoveryHandoffProofs -------------------------
(***************************************************************************)
(* What becomes of the message of a confirmed job, for any number of       *)
(* actions, restarts and announcements, if no other action of its kind was *)
(* confirmed while it was under way.  What other actions do to each other  *)
(* is not restricted.                                                      *)
(*                                                                         *)
(* The file of a kind belongs to such an action from its confirmation to   *)
(* its last panel (FileInv, LiveInv): an action it could have been mixed   *)
(* up with is over.  A job id that a watcher waits for is then the         *)
(* action's own (OfKind, JobInv).                                          *)
(***************************************************************************)
EXTENDS RecoveryHandoff, TLAPS

Live == {"staged", "refused", "sent", "recorded"}
Begun(a) == exec[a] \notin {"new", "staged"}

\* A job is in the queue, then in the status file of its stream, and ends once.
JobInv ==
  /\ queue # None => /\ Begun(queue) /\ outcome[queue] = "none"
                     /\ \A s \in Streams : status[s].job # queue
  /\ \A s \in Streams :
       /\ status[s].phase = "idle" <=> status[s].job = None
       /\ status[s].job # None => Begun(status[s].job) /\ Stream(kind[status[s].job]) = s
       /\ status[s].phase \in {"busy", "booted", "failing"} => outcome[status[s].job] = "none"
       /\ status[s].phase \in Ended => outcome[status[s].job] = status[s].phase
  /\ \A a \in Actions : outcome[a] # "none" => Begun(a)
  /\ \A a \in Actions : exec[a] # "new" => kind[a] \in Kinds

\* What a file or a watcher of a kind names is of that kind, and the message of
\* an uncrossed action never stands beside the job of another.
OfKind(x, k) ==
  /\ x.msg # None => kind[x.msg] = k /\ exec[x.msg] # "new"
  /\ x.job # None => kind[x.job] = k /\ exec[x.job] # "new"
  /\ IF x.msg \in Uncrossed THEN x.job \in {None, x.msg} ELSE x.job \notin Uncrossed

FileOfKind(k)  == file[k] # None => OfKind(file[k], k)
WatchOfKind(k) == watcher[k] # None => OfKind(watcher[k], k)

\* The file and the watcher of a kind agree on an uncrossed action.
FileInv(k) ==
  /\ FileOfKind(k) /\ WatchOfKind(k)
  /\ watcher[k] # None =>
       /\ watcher[k].msg \in Uncrossed =>
            file[k] # None /\ file[k].msg = watcher[k].msg /\ exec[watcher[k].msg] = "over"
       /\ file[k] # None /\ file[k].msg \in Uncrossed => watcher[k].msg = file[k].msg
       /\ watcher[k].at = "poll" <=> watcher[k].verdict = None
       /\ watcher[k].verdict = "complete" =>
            watcher[k].job # None /\ outcome[watcher[k].job] = "done"
       /\ watcher[k].at = "finish" => watcher[k].msg \in reported

\* An uncrossed action under way in execute has its file, unwatched; a crossed
\* one shares its kind with no uncrossed one.
LiveInv(a) ==
  exec[a] \in Live =>
    IF a \in crossed THEN file[kind[a]] # None => file[kind[a]].msg \notin Uncrossed
    ELSE /\ file[kind[a]] # None /\ file[kind[a]].msg = a
         /\ watcher[kind[a]] = None /\ kind[a] \notin unresumed

MessageInv(a) ==
  /\ a \in accepted => exec[a] \in {"recorded", "over"}
  /\ shown[a] = "error" => exec[a] = "over"
  /\ a \notin crossed =>
       /\ a \in accepted \ reported => file[kind[a]] # None /\ file[kind[a]].msg = a
       /\ shown[a] = "complete" => outcome[a] = "done"
       /\ shown[a] = "error" => \A k \in Kinds : file[k] # None => file[k].msg # a

Inv1 == /\ TypeOK /\ JobInv
        /\ \A k \in Kinds : FileInv(k)
        /\ \A a \in Actions : LiveInv(a) /\ MessageInv(a)

LEMMA InitInv1 == Init => Inv1
<1> SUFFICES ASSUME Init PROVE Inv1
  OBVIOUS
<1>1. TypeOK
  BY DEF Init, TypeOK, ExecPlace, Streams, Status, Jobs, NoTick
<1>2. JobInv
  BY DEF Init, JobInv, Ended
<1>3. \A k \in Kinds : FileInv(k)
  BY DEF Init, FileInv, FileOfKind, WatchOfKind
<1>4. \A a \in Actions : LiveInv(a) /\ MessageInv(a)
  BY DEF Init, LiveInv, MessageInv, Live
<1> QED BY <1>1, <1>2, <1>3, <1>4 DEF Inv1

\* What Inv1 says of the values in it.
LEMMA Shapes ==
  ASSUME Inv1
  PROVE  /\ kind \in [Actions -> Kinds \cup {None}] /\ exec \in [Actions -> ExecPlace]
         /\ file \in [Kinds -> Entry \cup {None}] /\ watcher \in [Kinds -> Watching \cup {None}]
         /\ \A k \in Kinds :
              /\ file[k] # None => /\ file[k] \in Entry /\ file[k].msg \in Jobs /\ file[k].job \in Jobs
                                   /\ OfKind(file[k], k)
              /\ watcher[k] # None => /\ watcher[k] \in Watching /\ watcher[k].msg \in Actions
                                      /\ watcher[k].job \in Jobs /\ OfKind(watcher[k], k)
         /\ \A a \in Actions : exec[a] # "new" => kind[a] \in Kinds
         /\ crossed \subseteq Actions /\ None \notin Uncrossed
<1>1. ASSUME NEW k \in Kinds, file[k] # None
      PROVE  file[k] \in Entry /\ file[k].msg \in Jobs /\ file[k].job \in Jobs /\ OfKind(file[k], k)
  BY <1>1 DEF Inv1, TypeOK, FileInv, FileOfKind, Entry, Jobs
<1>2. ASSUME NEW k \in Kinds, watcher[k] # None
      PROVE  /\ watcher[k] \in Watching /\ watcher[k].msg \in Actions
             /\ watcher[k].job \in Jobs /\ OfKind(watcher[k], k)
  BY <1>2 DEF Inv1, TypeOK, FileInv, WatchOfKind, Watching
<1>3. crossed \subseteq Actions /\ None \notin Uncrossed
  BY NoneAssumption DEF Inv1, TypeOK, Uncrossed
<1> QED BY <1>1, <1>2, <1>3 DEF Inv1, TypeOK, JobInv

-----------------------------------------------------------------------------
(* Controller.execute.                                                     *)

\* stage takes the file from whatever the kind had under way, which is crossed.
LEMMA ConfirmInv1 ==
  ASSUME Inv1, NEW a \in Actions, NEW k \in Kinds, Confirm(a, k)
  PROVE  Inv1'
<1>0. PICK e \in Entry : e = [msg |-> a, job |-> IF k = "host" THEN a ELSE None]
  <2>1. [msg |-> a, job |-> IF k = "host" THEN a ELSE None] \in Entry
    BY DEF Entry, Jobs
  <2> QED BY <2>1
<1>1. /\ exec[a] = "new" /\ kind' = [kind EXCEPT ![a] = k]
      /\ exec' = [exec EXCEPT ![a] = "staged"] /\ file' = [file EXCEPT ![k] = e]
      /\ crossed' = IF Busy(k) THEN crossed \cup {a} \cup Executing(k) \cup Owed(k) ELSE crossed
      /\ UNCHANGED <<watcher, unresumed, shown, late, queue, status, outcome, retried, tick, lastOnline,
                     restarts, accepted, reported, announced, torn>>
  BY <1>0 DEF Confirm, Stage, bridge, online
<1>2. e \in Entry /\ e # None /\ e.msg = a /\ e.job \in {None, a}
  BY <1>0, RecordAssumption DEF Entry, Jobs
<1>3. /\ kind'[a] = k /\ exec'[a] = "staged" /\ file'[k] = e
      /\ \A b \in Actions \ {a} : kind'[b] = kind[b] /\ exec'[b] = exec[b]
      /\ \A l \in Kinds \ {k} : file'[l] = file[l]
  BY <1>1, Shapes
\* What is crossed now, besides a, is of kind k, and nothing of kind k is not.
<1>4. /\ crossed \subseteq crossed' /\ crossed' \subseteq Actions
      /\ \A b \in Actions \ {a} : b \in crossed' => b \in crossed \/ (exec[b] # "new" /\ kind[b] = k)
  <2>1. \A b \in Executing(k) : b \in Actions /\ exec[b] # "new" /\ kind[b] = k
    BY DEF Executing
  <2>2. \A b \in Owed(k) : b \in Actions /\ exec[b] # "new" /\ kind[b] = k
    BY Shapes, NoneAssumption DEF Owed, OfKind
  <2> QED BY <1>1, <2>1, <2>2, Shapes
<1>5. a \notin crossed' => k \notin unresumed /\ file[k] = None /\ watcher[k] = None
                           /\ \A b \in Actions : kind[b] = k => exec[b] \notin Live
  BY <1>1 DEF Busy, Executing, Live
<1>6. /\ a \in crossed' => \A b \in Actions : kind[b] = k /\ exec[b] \in Live => b \in crossed'
      /\ a \in crossed' => \A b \in Actions : file[k] # None /\ file[k].msg = b => b \in crossed'
      /\ watcher[k] # None => a \in crossed' /\ watcher[k].msg \in crossed'
  BY <1>1, Shapes DEF Busy, Executing, Owed, Live, Inv1, LiveInv
<1>7. TypeOK'
  BY <1>1, <1>2, <1>4 DEF Inv1, TypeOK, ExecPlace
<1>8. JobInv'
  BY <1>1, <1>3 DEF Inv1, JobInv, Begun, TypeOK, Status, Jobs
<1>9. ASSUME NEW x, NEW l \in Kinds, x.msg \in Jobs, x.job \in Jobs, OfKind(x, l),
             l = k => x.msg \in crossed'
      PROVE  /\ x.msg # None => kind'[x.msg] = l /\ exec'[x.msg] # "new"
             /\ x.job # None => kind'[x.job] = l /\ exec'[x.job] # "new"
             /\ IF x.msg \in Uncrossed' THEN x.job \in {None, x.msg} ELSE x.job \notin Uncrossed'
  <2>1. (x.msg # None => kind'[x.msg] = l /\ exec'[x.msg] # "new")
        /\ (x.job # None => kind'[x.job] = l /\ exec'[x.job] # "new")
    BY <1>1, <1>3, <1>9 DEF OfKind, Jobs
  <2>2. \A b \in Actions : kind[b] = l /\ exec[b] # "new" /\ l # k => (b \in Uncrossed' <=> b \in Uncrossed)
    BY <1>1, <1>4 DEF Uncrossed
  <2>3. Uncrossed' \subseteq Uncrossed /\ None \notin Uncrossed
    BY <1>4, NoneAssumption DEF Uncrossed
  <2>4. IF x.msg \in Uncrossed' THEN x.job \in {None, x.msg} ELSE x.job \notin Uncrossed'
    BY <1>9, <2>2, <2>3 DEF OfKind, Jobs, Uncrossed
  <2> QED BY <2>1, <2>4
<1>10. ASSUME NEW l \in Kinds PROVE FileInv(l)'
  <2>1. FileInv(l) /\ watcher'[l] = watcher[l]
    BY <1>1 DEF Inv1
  <2>2. WatchOfKind(l)'
    <3>1. watcher[l] # None /\ l = k => watcher[l].msg \in crossed'
      BY <1>6
    <3>2. watcher[l] # None => /\ watcher[l].msg \in Jobs /\ watcher[l].job \in Jobs
                               /\ OfKind(watcher[l], l)
      BY Shapes DEF Jobs
    <3> QED BY <1>9, <2>1, <3>1, <3>2 DEF WatchOfKind, OfKind
  <2>3. CASE l = k
    <3>1. FileOfKind(k)'
      <4>1. /\ e.msg # None => kind'[e.msg] = k /\ exec'[e.msg] # "new"
            /\ e.job # None => kind'[e.job] = k /\ exec'[e.job] # "new"
        BY <1>2, <1>3
      <4>2. IF e.msg \in Uncrossed' THEN e.job \in {None, e.msg} ELSE e.job \notin Uncrossed'
        BY <1>2, NoneAssumption DEF Uncrossed
      <4> QED BY <1>3, <4>1, <4>2 DEF FileOfKind, OfKind
    <3>2. watcher[k] # None => watcher[k].msg \notin Uncrossed' /\ e.msg \notin Uncrossed'
      BY <1>2, <1>6 DEF Uncrossed
    <3> QED BY <1>1, <1>2, <1>3, <2>1, <2>2, <2>3, <3>1, <3>2 DEF FileInv
  <2>4. CASE l # k
    <3>1. file'[l] = file[l]
      BY <1>3, <2>4
    <3>2. FileOfKind(l)'
      BY <1>9, <2>4, <3>1, Shapes DEF FileOfKind, OfKind
    <3>3. Uncrossed' \subseteq Uncrossed
      BY <1>4 DEF Uncrossed
    <3>4. watcher[l] # None => watcher[l].msg \in Actions \ {a}
      BY <1>1, Shapes, NoneAssumption DEF OfKind
    <3>5. watcher[l] # None => exec'[watcher[l].msg] = exec[watcher[l].msg]
      BY <1>3, <3>4
    <3> QED BY <1>1, <2>1, <2>2, <3>1, <3>2, <3>3, <3>4, <3>5 DEF FileInv
  <2> QED BY <2>3, <2>4
<1>11. ASSUME NEW b \in Actions PROVE LiveInv(b)' /\ MessageInv(b)'
  <2>0. LiveInv(b) /\ MessageInv(b)
    BY DEF Inv1
  <2>1. CASE b = a
    <3>1. LiveInv(a)'
      BY <1>1, <1>2, <1>3, <1>5 DEF LiveInv, Uncrossed
    <3>2. MessageInv(a)'
      BY <1>1, <1>4, <2>0, <2>1 DEF MessageInv
    <3> QED BY <2>1, <3>1, <3>2
  <2>2. CASE b # a
    <3>1. kind'[b] = kind[b] /\ exec'[b] = exec[b] /\ (exec[b] # "new" => kind[b] \in Kinds)
      BY <1>3, <2>2, Shapes
    <3>2. LiveInv(b)'
      <4> SUFFICES ASSUME exec[b] \in Live PROVE LiveInv(b)'
        BY <3>1 DEF LiveInv
      <4>1. kind[b] \in Kinds /\ exec[b] # "new"
        BY <3>1 DEF Live
      <4>2. CASE kind[b] = k
        <5>1. a \in crossed' /\ b \in crossed'
          BY <1>5, <1>6, <4>2
        <5> QED BY <1>2, <1>3, <3>1, <4>2, <5>1 DEF LiveInv, Uncrossed
      <4>3. CASE kind[b] # k
        <5>1. b \in crossed' <=> b \in crossed
          BY <1>4, <2>2, <4>3
        <5>2. file'[kind[b]] = file[kind[b]] /\ Uncrossed' \subseteq Uncrossed
          BY <1>3, <1>4, <4>1, <4>3 DEF Uncrossed
        <5> QED BY <1>1, <2>0, <3>1, <5>1, <5>2 DEF LiveInv
      <4> QED BY <4>2, <4>3
    <3>3. b \notin crossed' /\ b \in accepted \ reported =>
            file'[kind[b]] # None /\ file'[kind[b]].msg = b
      <4> SUFFICES ASSUME b \notin crossed', b \in accepted \ reported
                   PROVE  file'[kind[b]] # None /\ file'[kind[b]].msg = b
        OBVIOUS
      <4>1. b \notin crossed /\ file[kind[b]] # None /\ file[kind[b]].msg = b /\ kind[b] \in Kinds
        BY <1>4, <2>0, <3>1 DEF MessageInv
      <4>2. kind[b] # k
        BY <1>5, <1>6, <4>1
      <4> QED BY <1>3, <4>1, <4>2
    <3>4. b \notin crossed' /\ shown[b] = "error" => \A l \in Kinds : file'[l] # None => file'[l].msg # b
      BY <1>2, <1>3, <1>4, <2>0, <2>2 DEF MessageInv
    <3> QED BY <1>1, <1>4, <2>0, <3>1, <3>2, <3>3, <3>4 DEF MessageInv
  <2> QED BY <2>1, <2>2
<1> QED BY <1>7, <1>8, <1>10, <1>11 DEF Inv1

\* Actions that execute is done with, and kinds that were looked at, only grow.
MovesOn ==
  /\ \A b \in Actions : exec'[b] = exec[b] \/ (exec[b] = "recorded" /\ exec'[b] = "over")
  /\ unresumed' \subseteq unresumed

LEMMA MovesOnJobs ==
  ASSUME Inv1, TypeOK', MovesOn, UNCHANGED <<kind, queue, status, outcome, retried>>
  PROVE  JobInv'
<1>1. \A b \in Actions : (Begun(b) => Begun(b)') /\ (exec'[b] # "new" => exec[b] # "new")
  BY DEF MovesOn, Begun
<1>2. queue \in Jobs /\ \A s \in Streams : status[s].job \in Jobs
  BY DEF Inv1, TypeOK, Status
<1> QED BY <1>1, <1>2 DEF Inv1, JobInv, Jobs

\* execute never takes an action back.
ExecKeeps(b) == (exec[b] # "new" => exec'[b] # "new") /\ (exec[b] = "over" => exec'[b] = "over")

\* The file of a kind keeps its message; one that appears has none.
FileMsgKept(k) ==
  /\ FileOfKind(k)'
  /\ file[k] # None => file'[k] # None /\ file'[k].msg = file[k].msg
  /\ file'[k] # None => (file[k] # None /\ file'[k].msg = file[k].msg) \/ file'[k].msg = None

LEMMA FileSame ==
  ASSUME Inv1, NEW k \in Kinds, file'[k] = file[k], \A b \in Actions : ExecKeeps(b),
         UNCHANGED <<kind, crossed>>
  PROVE  FileMsgKept(k)
<1>1. Uncrossed' = Uncrossed
  BY DEF Uncrossed
<1>2. FileOfKind(k)'
  BY <1>1, Shapes DEF FileOfKind, OfKind, Jobs, ExecKeeps
<1> QED BY <1>2 DEF FileMsgKept

LEMMA WatchSame ==
  ASSUME Inv1, NEW k \in Kinds, watcher'[k] = watcher[k], \A b \in Actions : ExecKeeps(b),
         UNCHANGED <<kind, crossed>>
  PROVE  WatchOfKind(k)'
<1>1. Uncrossed' = Uncrossed
  BY DEF Uncrossed
<1> QED BY <1>1, Shapes DEF WatchOfKind, OfKind, Jobs, ExecKeeps

LEMMA FileKeeps ==
  ASSUME Inv1, NEW k \in Kinds, FileMsgKept(k), watcher'[k] = watcher[k],
         \A b \in Actions : ExecKeeps(b), UNCHANGED <<kind, crossed, outcome>>,
         reported \subseteq reported'
  PROVE  FileInv(k)'
<1>1. FileInv(k) /\ Uncrossed' = Uncrossed /\ None \notin Uncrossed
  BY Shapes DEF Inv1, Uncrossed
<1>2. watcher[k] # None => watcher[k].msg \in Actions
  BY Shapes
<1>3. watcher[k] # None /\ exec[watcher[k].msg] = "over" => exec'[watcher[k].msg] = "over"
  BY <1>2 DEF ExecKeeps
<1> QED BY <1>1, <1>3, WatchSame DEF FileInv, FileMsgKept

\* Steps that change nothing else that Inv1 speaks of.
LEMMA QuietInv1 ==
  ASSUME Inv1, TypeOK', MovesOn,
         UNCHANGED <<kind, file, watcher, shown, queue, status, outcome, retried, accepted, reported,
                     crossed>>
  PROVE  Inv1'
<1>1. JobInv'
  BY MovesOnJobs
<1>2. \A b \in Actions : ExecKeeps(b)
  BY DEF MovesOn, ExecKeeps
<1>3. ASSUME NEW k \in Kinds PROVE FileInv(k)'
  BY <1>2, FileKeeps, FileSame
<1>4. ASSUME NEW b \in Actions PROVE LiveInv(b)' /\ MessageInv(b)'
  <2>1. LiveInv(b) /\ MessageInv(b)
    BY DEF Inv1
  <2>2. exec'[b] = exec[b] \/ (exec[b] = "recorded" /\ exec'[b] = "over")
    BY DEF MovesOn
  <2>3. LiveInv(b)'
    BY <2>1, <2>2 DEF LiveInv, Live, MovesOn, Uncrossed
  <2>4. MessageInv(b)'
    BY <2>1, <2>2 DEF MessageInv
  <2> QED BY <2>3, <2>4
<1> QED BY <1>1, <1>3, <1>4 DEF Inv1

\* An action moves on in execute with its file as it is.
LEMMA ExecInv1 ==
  ASSUME Inv1, NEW a \in Actions, exec[a] \in {"staged", "sent"},
         NEW x \in {"refused", "sent"}, exec' = [exec EXCEPT ![a] = x],
         UNCHANGED <<kind, file, watcher, unresumed, shown, late, queue, status, outcome, retried, tick,
                     lastOnline, restarts, accepted, reported, announced, torn, crossed>>
  PROVE  Inv1'
<1>1. exec'[a] = x /\ \A b \in Actions \ {a} : exec'[b] = exec[b]
  BY Shapes
<1>2. TypeOK'
  BY DEF Inv1, TypeOK, ExecPlace
<1>3. JobInv'
  BY <1>1 DEF Inv1, JobInv, Begun, TypeOK, Status, Jobs
<1>4. \A b \in Actions : ExecKeeps(b)
  BY <1>1 DEF ExecKeeps
<1>5. ASSUME NEW k \in Kinds PROVE FileInv(k)'
  BY <1>4, FileKeeps, FileSame
<1>6. ASSUME NEW b \in Actions PROVE LiveInv(b)' /\ MessageInv(b)'
  <2>1. LiveInv(b) /\ MessageInv(b)
    BY DEF Inv1
  <2>2. LiveInv(b)'
    BY <1>1, <2>1 DEF LiveInv, Live, Uncrossed
  <2>3. MessageInv(b)'
    BY <1>1, <2>1 DEF MessageInv
  <2> QED BY <2>2, <2>3
<1> QED BY <1>2, <1>3, <1>5, <1>6 DEF Inv1

LEMMA RefuseInv1 ==
  ASSUME Inv1, NEW a \in Actions, Refuse(a) \/ LoseAnswer(a)
  PROVE  Inv1'
  BY ExecInv1 DEF Refuse, LoseAnswer, bridge, online, history

LEMMA AcceptInv1 ==
  ASSUME Inv1, NEW a \in Actions, Accept(a)
  PROVE  Inv1'
<1>1. /\ exec[a] = "staged" /\ queue = None /\ queue' = a /\ exec' = [exec EXCEPT ![a] = "sent"]
      /\ UNCHANGED <<kind, file, watcher, unresumed, shown, late, status, outcome, retried, tick,
                     lastOnline, restarts, accepted, reported, announced, torn, crossed>>
  BY DEF Accept, online, history
<1>2. exec'[a] = "sent" /\ \A b \in Actions \ {a} : exec'[b] = exec[b]
  BY <1>1, Shapes
<1>3. TypeOK'
  BY <1>1 DEF Inv1, TypeOK, ExecPlace, Jobs
<1>4. JobInv'
  <2>1. outcome[a] = "none" /\ \A s \in Streams : status[s].job # a
    BY <1>1, NoneAssumption DEF Inv1, JobInv, Begun, TypeOK
  <2>2. \A b \in Actions : Begun(b) => Begun(b)'
    BY <1>2 DEF Begun
  <2>3. \A s \in Streams : status[s].job # None => status[s].job \in Actions
    BY DEF Inv1, TypeOK, Status, Jobs
  <2> QED BY <1>1, <1>2, <2>1, <2>2, <2>3 DEF Inv1, JobInv, Begun
<1>5. \A b \in Actions : ExecKeeps(b)
  BY <1>1, <1>2 DEF ExecKeeps
<1>6. ASSUME NEW k \in Kinds PROVE FileInv(k)'
  BY <1>1, <1>5, FileKeeps, FileSame
<1>7. ASSUME NEW b \in Actions PROVE LiveInv(b)' /\ MessageInv(b)'
  <2>1. LiveInv(b) /\ MessageInv(b)
    BY DEF Inv1
  <2>2. LiveInv(b)'
    BY <1>1, <1>2, <2>1 DEF LiveInv, Live, Uncrossed
  <2>3. MessageInv(b)'
    BY <1>1, <1>2, <2>1 DEF MessageInv
  <2> QED BY <2>2, <2>3
<1> QED BY <1>3, <1>4, <1>6, <1>7 DEF Inv1

\* The handler of a refused action clears the file of its kind: its own, which
\* nobody watches, or one that no uncrossed action needs.
LEMMA FailInv1 ==
  ASSUME Inv1, NEW a \in Actions, Fail(a)
  PROVE  Inv1'
<1>0. PICK k \in Kinds : kind[a] = k /\ exec[a] = "refused"
  BY Shapes DEF Fail
<1>1. /\ exec[a] = "refused" /\ exec' = [exec EXCEPT ![a] = "over"]
      /\ file' = [file EXCEPT ![k] = None] /\ shown' = [shown EXCEPT ![a] = "error"]
      /\ UNCHANGED <<kind, watcher, unresumed, late, queue, status, outcome, retried, tick, lastOnline,
                     restarts, accepted, reported, announced, torn, crossed>>
  BY <1>0 DEF Fail, Clear, bridge, online, history
<1>2. /\ file[k] # None => file[k].msg \in {a} \/ file[k].msg \notin Uncrossed
      /\ watcher[k] # None => watcher[k].msg \notin Uncrossed
  <2>1. FileInv(k) /\ LiveInv(a)
    BY DEF Inv1
  <2>2. CASE a \in crossed
    BY <1>0, <2>1, <2>2 DEF LiveInv, Live, FileInv
  <2>3. CASE a \notin crossed
    BY <1>0, <2>1, <2>3 DEF LiveInv, Live
  <2> QED BY <2>2, <2>3
<1>3. /\ exec'[a] = "over" /\ shown'[a] = "error" /\ file'[k] = None
      /\ \A b \in Actions \ {a} : exec'[b] = exec[b] /\ shown'[b] = shown[b]
      /\ \A l \in Kinds \ {k} : file'[l] = file[l]
  BY <1>1, <1>2, Shapes DEF Inv1, TypeOK
<1>4. TypeOK'
  BY <1>1, <1>2 DEF Inv1, TypeOK, ExecPlace
<1>5. JobInv'
  BY <1>1, <1>3 DEF Inv1, JobInv, Begun, TypeOK, Status, Jobs
<1>6. \A b \in Actions : ExecKeeps(b)
  BY <1>1, <1>3 DEF ExecKeeps
<1>7. ASSUME NEW l \in Kinds PROVE FileInv(l)'
  <2>1. CASE l = k
    <3>1. WatchOfKind(k)' /\ FileOfKind(k)'
      BY <1>1, <1>2, <1>3, <1>6, WatchSame DEF FileOfKind
    <3>2. Uncrossed' = Uncrossed /\ FileInv(k)
      BY <1>1, <1>2 DEF Uncrossed, Inv1
    <3> QED BY <1>1, <1>2, <1>3, <2>1, <3>1, <3>2 DEF FileInv
  <2>2. CASE l # k
    BY <1>1, <1>3, <1>6, <2>2, FileKeeps, FileSame
  <2> QED BY <2>1, <2>2
<1>8. ASSUME NEW b \in Actions PROVE LiveInv(b)' /\ MessageInv(b)'
  <2>1. LiveInv(b) /\ MessageInv(b)
    BY DEF Inv1
  <2>2. CASE b = a
    <3>1. \A l \in Kinds : file'[l] # None => file'[l].msg # a
      BY <1>0, <1>3, Shapes, NoneAssumption DEF OfKind
    <3>2. a \notin accepted
      BY <1>1, <2>1, <2>2 DEF MessageInv
    <3> QED BY <1>1, <1>3, <2>2, <3>1, <3>2 DEF LiveInv, MessageInv, Live
  <2>3. CASE b # a
    <3>1. b \notin crossed /\ file[kind[b]] # None /\ file[kind[b]].msg = b => kind[b] # k
      BY <1>2, <2>3 DEF Uncrossed
    <3>2. LiveInv(b)'
      <4>1. exec[b] \in Live => kind[b] \in Kinds
        BY Shapes DEF Live
      <4>2. CASE b \in crossed
        BY <1>1, <1>3, <2>1, <2>3, <4>1, <4>2 DEF LiveInv, Uncrossed
      <4>3. CASE b \notin crossed
        BY <1>1, <1>3, <2>1, <2>3, <3>1, <4>1, <4>3 DEF LiveInv
      <4> QED BY <4>2, <4>3
    <3>3. MessageInv(b)'
      <4>1. b \in accepted \ reported => kind[b] \in Kinds
        BY <2>1, Shapes DEF MessageInv
      <4>2. \A l \in Kinds : file'[l] # None => file'[l] = file[l]
        BY <1>3
      <4> QED BY <1>1, <1>3, <2>1, <2>3, <3>1, <4>1, <4>2 DEF MessageInv
    <3> QED BY <3>2, <3>3
  <2> QED BY <2>2, <2>3
<1> QED BY <1>4, <1>5, <1>7, <1>8 DEF Inv1

\* The job id that execute writes into the file is that of the file's message, or
\* both are of crossed actions.
LEMMA RecordInv1 ==
  ASSUME Inv1, NEW a \in Actions, Record(a)
  PROVE  Inv1'
<1>a. PICK k \in Kinds : kind[a] = k /\ exec[a] = "sent"
  BY Shapes DEF Record
<1>1. /\ exec[a] = "sent" /\ exec' = [exec EXCEPT ![a] = "recorded"]
      /\ file' \in {Accepted(k, a), file} /\ accepted' = accepted \cup {a}
      /\ UNCHANGED <<kind, watcher, unresumed, shown, late, queue, status, outcome, retried, tick,
                     lastOnline, restarts, reported, announced, torn, crossed>>
  BY <1>a DEF Record, bridge, online
<1>2. LiveInv(a) /\ (file[k] # None => file[k] \in Entry)
  BY <1>1, Shapes DEF Inv1
<1>0. PICK e \in Entry : e = [msg |-> IF file[k] = None THEN None ELSE file[k].msg, job |-> a]
  BY <1>2, Shapes DEF Entry, Jobs
<1>3. file' = file \/ file' = [file EXCEPT ![k] = e]
  <2>1. CASE file[k] = None
    BY <1>0, <1>1, <1>2, <2>1, Shapes DEF Accepted
  <2>2. CASE file[k] # None
    <3>1. [file[k] EXCEPT !.job = a] = e
      BY <1>0, <1>2, <2>2 DEF Entry
    <3>2. file' = file \/ file' = [file EXCEPT ![k] = [file[k] EXCEPT !.job = a]]
      BY <1>1, <1>2, <2>2, Shapes DEF Accepted
    <3> QED BY <3>1, <3>2
  <2> QED BY <2>1, <2>2
<1>4. /\ e \in Entry /\ e # None /\ e.job = a
      /\ file[k] = None => e.msg = None
      /\ file[k] # None => e.msg = file[k].msg
      /\ a \notin crossed => file[k] # None /\ file[k].msg = a
      /\ a \in crossed => e.msg \notin Uncrossed
  <2>1. /\ e # None /\ e.job = a
        /\ file[k] = None => e.msg = None
        /\ file[k] # None => e.msg = file[k].msg
    BY <1>0, RecordAssumption
  <2>2. a \notin crossed => file[k] # None /\ file[k].msg = a
    BY <1>a, <1>2 DEF LiveInv, Live
  <2>3. a \in crossed => e.msg \notin Uncrossed
    BY <1>a, <1>2, <2>1, Shapes DEF LiveInv, Live
  <2> QED BY <2>1, <2>2, <2>3
<1>5. /\ file' \in [Kinds -> Entry \cup {None}]
      /\ \A l \in Kinds : file'[l] = file[l] \/ (l = k /\ file'[k] = e)
  BY <1>2, <1>3, <1>4, Shapes
<1>6. /\ exec'[a] = "recorded" /\ \A b \in Actions \ {a} : exec'[b] = exec[b]
  BY <1>1, Shapes
<1>7. TypeOK'
  BY <1>1, <1>5 DEF Inv1, TypeOK, ExecPlace
<1>8. JobInv'
  BY <1>1, <1>6 DEF Inv1, JobInv, Begun, TypeOK, Status, Jobs
<1>9. /\ e.msg # None => kind'[e.msg] = k /\ exec'[e.msg] # "new"
      /\ kind'[e.job] = k /\ exec'[e.job] # "new"
      /\ IF e.msg \in Uncrossed' THEN e.job \in {None, e.msg} ELSE e.job \notin Uncrossed'
  <2>1. e.msg # None => kind[e.msg] = k /\ exec[e.msg] # "new" /\ e.msg \in Actions
    BY <1>4, Shapes DEF OfKind, Jobs, Uncrossed
  <2>2. (e.msg # None => kind'[e.msg] = k /\ exec'[e.msg] # "new") /\ kind'[e.job] = k /\ exec'[e.job] # "new"
    BY <1>a, <1>1, <1>4, <1>6, <2>1
  <2>3. IF e.msg \in Uncrossed' THEN e.job \in {None, e.msg} ELSE e.job \notin Uncrossed'
    BY <1>1, <1>4 DEF Uncrossed
  <2> QED BY <2>2, <2>3
<1>10. ASSUME NEW l \in Kinds
       PROVE  /\ file[l] # None => file'[l] # None /\ file'[l].msg = file[l].msg
              /\ file'[l] # None => (file[l] # None /\ file'[l].msg = file[l].msg) \/ file'[l].msg = None
  BY <1>4, <1>5
<1>11. \A b \in Actions : ExecKeeps(b)
  BY <1>1, <1>6 DEF ExecKeeps
<1>12. ASSUME NEW l \in Kinds PROVE FileInv(l)'
  <2>1. FileOfKind(l)'
    <3>1. CASE file'[l] = file[l]
      BY <1>1, <1>11, <3>1, FileSame DEF FileMsgKept
    <3>2. CASE l = k /\ file'[k] = e
      BY <1>9, <3>2 DEF FileOfKind, OfKind
    <3> QED BY <1>5, <3>1, <3>2
  <2> QED BY <1>1, <1>10, <1>11, <2>1, FileKeeps DEF FileMsgKept
<1>13. ASSUME NEW b \in Actions PROVE LiveInv(b)' /\ MessageInv(b)'
  <2>1. LiveInv(b) /\ MessageInv(b) /\ (exec[b] # "new" => kind[b] \in Kinds) /\ None \notin Uncrossed
    BY Shapes DEF Inv1
  <2>2. Uncrossed' = Uncrossed
    BY <1>1 DEF Uncrossed
  <2>3. LiveInv(b)'
    BY <1>1, <1>6, <1>10, <2>1, <2>2 DEF LiveInv, Live
  <2>4. b \in accepted' => exec'[b] \in {"recorded", "over"}
    BY <1>1, <1>6, <2>1 DEF MessageInv
  <2>5. b \notin crossed /\ b \in accepted' \ reported => file'[kind[b]] # None /\ file'[kind[b]].msg = b
    <3>1. CASE b = a
      BY <1>a, <1>4, <1>10, <3>1
    <3>2. CASE b \in accepted \ reported
      <4>1. kind[b] \in Kinds
        BY <2>1, <3>2 DEF MessageInv
      <4> QED BY <1>10, <2>1, <3>2, <4>1 DEF MessageInv
    <3> QED BY <1>1, <3>1, <3>2
  <2>6. shown[b] = "error" => exec'[b] = "over"
    BY <1>1, <1>6, <2>1 DEF MessageInv
  <2>7. b \notin crossed /\ shown[b] = "error" => \A l \in Kinds : file'[l] # None => file'[l].msg # b
    BY <1>10, <2>1, NoneAssumption DEF MessageInv
  <2> QED BY <1>1, <2>1, <2>3, <2>4, <2>5, <2>6, <2>7 DEF MessageInv
<1> QED BY <1>7, <1>8, <1>12, <1>13 DEF Inv1

-----------------------------------------------------------------------------
(* The watcher.                                                            *)

\* resume starts a watcher for the message in the file, removes a file without
\* one, or does nothing.
LEMMA ResumeEffect ==
  ASSUME Inv1, NEW k \in Kinds, Resume(k)
  PROVE  \/ file' = file /\ watcher' = watcher
         \/ /\ file[k] # None /\ file[k].msg = None /\ watcher[k] = None
            /\ file' = [file EXCEPT ![k] = None] /\ watcher' = watcher
         \/ /\ file' = file
            /\ \E w \in Watching :
                 /\ w # None /\ w.at = "poll" /\ w.verdict = None
                 /\ w.msg = file[k].msg /\ w.job = file[k].job
                 /\ watcher[k] = None /\ file[k] # None /\ watcher' = [watcher EXCEPT ![k] = w]
<1>1. CASE watcher[k] # None \/ file[k] = None
  BY <1>1 DEF Resume
<1>2. CASE watcher[k] = None /\ file[k] # None /\ file[k].msg = None
  BY <1>2 DEF Resume, Clear
<1>3. CASE watcher[k] = None /\ file[k] # None /\ file[k].msg # None
  <2> DEFINE w == [at |-> "poll", msg |-> file[k].msg, job |-> file[k].job, verdict |-> None]
  <2>1. file[k].msg \in Actions /\ file[k].job \in Jobs
    BY <1>3, Shapes DEF Jobs
  <2>2. w \in Watching /\ w # None
    BY <2>1, RecordAssumption DEF Watching
  <2>3. file' = file /\ watcher' = [watcher EXCEPT ![k] = w]
    BY <1>3 DEF Resume
  <2> QED BY <1>3, <2>2, <2>3
<1> QED BY <1>1, <1>2, <1>3

\* A watcher of kind k starts or moves on.
LEMMA WatcherInv1 ==
  ASSUME Inv1, NEW k \in Kinds, NEW w \in Watching,
         watcher' = [watcher EXCEPT ![k] = w], OfKind(w, k),
         w.msg \in Uncrossed => file[k] # None /\ file[k].msg = w.msg /\ exec'[w.msg] = "over",
         file[k] # None /\ file[k].msg \in Uncrossed => w.msg = file[k].msg,
         w.at = "poll" <=> w.verdict = None,
         w.verdict = "complete" => w.job # None /\ outcome[w.job] = "done",
         w.at = "finish" => w.msg \in reported',
         \/ UNCHANGED <<shown, reported>>
         \/ /\ reported' = reported \cup {w.msg}
            /\ \/ shown' = shown
               \/ w.verdict # "error" /\ shown' = [shown EXCEPT ![w.msg] = w.verdict],
         MovesOn, UNCHANGED <<kind, file, queue, status, outcome, retried, accepted, crossed>>,
         TypeOK'
  PROVE  Inv1'
<1>1. /\ w # None /\ watcher'[k] = w /\ w.msg \in Actions /\ w.job \in Jobs
      /\ \A l \in Kinds \ {k} : watcher'[l] = watcher[l]
  BY Shapes, RecordAssumption DEF Watching
<1>2. JobInv' /\ Uncrossed' = Uncrossed
  BY MovesOnJobs DEF Uncrossed
<1>3. reported \subseteq reported' /\ \A b \in Actions : ExecKeeps(b)
  BY DEF MovesOn, ExecKeeps
<1>4. ASSUME NEW l \in Kinds PROVE FileInv(l)'
  <2>1. CASE l = k
    <3>1. FileOfKind(k)'
      BY <1>3, FileSame DEF FileMsgKept
    <3>2. WatchOfKind(k)'
      BY <1>1, <1>2, <1>3 DEF WatchOfKind, OfKind, Jobs, ExecKeeps
    <3> QED BY <1>1, <1>2, <2>1, <3>1, <3>2 DEF FileInv
  <2>2. CASE l # k
    BY <1>1, <1>3, <2>2, FileSame, FileKeeps
  <2> QED BY <2>1, <2>2
<1>5. ASSUME NEW b \in Actions PROVE LiveInv(b)' /\ MessageInv(b)'
  <2>1. LiveInv(b) /\ MessageInv(b) /\ (exec[b] # "new" => kind[b] \in Kinds)
    BY Shapes DEF Inv1
  <2>2. exec'[b] = exec[b] \/ (exec[b] = "recorded" /\ exec'[b] = "over")
    BY DEF MovesOn
  <2>3. LiveInv(b)'
    <3>1. CASE b \in crossed
      BY <1>2, <2>1, <2>2, <3>1 DEF LiveInv, Live
    <3>2. CASE b \notin crossed
      <4> SUFFICES ASSUME exec'[b] \in Live PROVE watcher'[kind[b]] = None /\ exec[b] \in Live
        BY <2>1, <3>2 DEF LiveInv, MovesOn
      <4>1. exec[b] \in Live /\ exec'[b] # "over"
        BY <2>2 DEF Live
      <4>2. kind[b] \in Kinds /\ file[kind[b]] # None /\ file[kind[b]].msg = b /\ watcher[kind[b]] = None
        BY <2>1, <3>2, <4>1 DEF LiveInv, Live
      <4>3. kind[b] # k
        BY <3>2, <4>1, <4>2 DEF Uncrossed
      <4> QED BY <1>1, <4>1, <4>2, <4>3
    <3> QED BY <3>1, <3>2
  <2>4. shown'[b] = shown[b] \/ (b = w.msg /\ shown'[b] = w.verdict /\ w.verdict # "error")
    BY <1>1 DEF Inv1, TypeOK
  <2>5. b \notin crossed /\ b = w.msg /\ w.verdict = "complete" => outcome[b] = "done"
    BY DEF OfKind, Uncrossed
  <2>6. MessageInv(b)'
    BY <1>1, <1>3, <2>1, <2>2, <2>4, <2>5 DEF MessageInv
  <2> QED BY <2>3, <2>6
<1> QED BY <1>2, <1>4, <1>5 DEF Inv1

\* resume, whoever calls it, for an action that is not under way in execute.
LEMMA ResumeInv1 ==
  ASSUME Inv1, NEW k \in Kinds, Resume(k), MovesOn, TypeOK',
         file[k] # None /\ file[k].msg \in Uncrossed => exec'[file[k].msg] = "over",
         UNCHANGED <<kind, shown, reported, queue, status, outcome, retried, accepted, crossed>>
  PROVE  Inv1'
<1>1. CASE file' = file /\ watcher' = watcher
  BY <1>1, QuietInv1
<1>2. CASE /\ file[k] # None /\ file[k].msg = None /\ watcher[k] = None
           /\ file' = [file EXCEPT ![k] = None] /\ watcher' = watcher
  <2>1. /\ JobInv' /\ Uncrossed' = Uncrossed /\ None \notin Uncrossed
        /\ \A b \in Actions : ExecKeeps(b)
    BY MovesOnJobs, Shapes DEF MovesOn, ExecKeeps, Uncrossed
  <2>2. file'[k] = None /\ \A l \in Kinds \ {k} : file'[l] = file[l]
    BY <1>2, Shapes
  <2>3. ASSUME NEW l \in Kinds PROVE FileInv(l)'
    <3>1. CASE l = k
      BY <1>2, <2>2, <3>1 DEF FileInv, FileOfKind, WatchOfKind
    <3>2. CASE l # k
      BY <1>2, <2>1, <2>2, <3>2, FileSame, FileKeeps
    <3> QED BY <3>1, <3>2
  <2>4. ASSUME NEW b \in Actions PROVE LiveInv(b)' /\ MessageInv(b)'
    <3>1. LiveInv(b) /\ MessageInv(b) /\ (exec[b] # "new" => kind[b] \in Kinds)
      BY Shapes DEF Inv1
    <3>2. exec'[b] = exec[b] \/ (exec[b] = "recorded" /\ exec'[b] = "over")
      BY DEF MovesOn
    <3>3. \A l \in Kinds : /\ file'[l] # None => file'[l] = file[l]
                           /\ file[l] # None /\ file[l].msg # None => file'[l] = file[l]
      BY <1>2, <2>2
    <3>4. LiveInv(b)'
      BY <1>2, <2>1, <3>1, <3>2, <3>3, NoneAssumption DEF LiveInv, Live, MovesOn
    <3>5. b \in accepted \ reported => kind[b] \in Kinds
      BY <3>1 DEF MessageInv
    <3>6. MessageInv(b)'
      BY <3>1, <3>2, <3>3, <3>5, NoneAssumption DEF MessageInv
    <3> QED BY <3>4, <3>6
  <2> QED BY <2>1, <2>3, <2>4 DEF Inv1
<1>3. CASE /\ file' = file
           /\ \E w \in Watching :
                /\ w # None /\ w.at = "poll" /\ w.verdict = None
                /\ w.msg = file[k].msg /\ w.job = file[k].job
                /\ watcher[k] = None /\ file[k] # None /\ watcher' = [watcher EXCEPT ![k] = w]
  <2>1. PICK w \in Watching :
             /\ w # None /\ w.at = "poll" /\ w.verdict = None
             /\ w.msg = file[k].msg /\ w.job = file[k].job
             /\ watcher[k] = None /\ file[k] # None /\ watcher' = [watcher EXCEPT ![k] = w]
    BY <1>3
  <2>2. OfKind(w, k)
    BY <2>1, Shapes DEF OfKind
  <2>3. w.verdict # "complete" /\ w.at # "finish"
    BY <2>1, RecordAssumption DEF Verdicts
  <2>4. w.msg \in Uncrossed => exec'[w.msg] = "over"
    BY <2>1
  <2> QED BY <1>3, <2>1, <2>2, <2>3, <2>4, WatcherInv1
<1> QED BY <1>1, <1>2, <1>3, ResumeEffect

LEMMA ResumeTypes ==
  ASSUME Inv1, NEW k \in Kinds, Resume(k)
  PROVE  file' \in [Kinds -> Entry \cup {None}] /\ watcher' \in [Kinds -> Watching \cup {None}]
<1>1. file \in [Kinds -> Entry \cup {None}] /\ watcher \in [Kinds -> Watching \cup {None}]
  BY Shapes
<1> QED BY <1>1, ResumeEffect

\* When execute lets go of an uncrossed action, the file names one that is over.
LEMMA FollowInv1 ==
  ASSUME Inv1, NEW a \in Actions, Follow(a)
  PROVE  Inv1'
<1>0. PICK k \in Kinds : kind[a] = k /\ exec[a] = "recorded"
  BY Shapes DEF Follow
<1>1. /\ exec' = [exec EXCEPT ![a] = "over"] /\ Resume(k)
      /\ UNCHANGED <<kind, unresumed, shown, late, queue, status, outcome, retried, tick, lastOnline,
                     restarts, accepted, reported, announced, torn, crossed>>
  BY <1>0 DEF Follow, bridge, online, history
<1>2. exec'[a] = "over" /\ \A b \in Actions \ {a} : exec'[b] = exec[b]
  BY <1>1, Shapes
<1>3. file[k] # None /\ file[k].msg \in Uncrossed => exec'[file[k].msg] = "over"
  <2>1. LiveInv(a)
    BY DEF Inv1
  <2>2. a \in crossed /\ file[k] # None => file[k].msg \notin Uncrossed
    BY <1>0, <2>1 DEF LiveInv, Live
  <2>3. a \notin crossed => file[k].msg = a
    BY <1>0, <2>1 DEF LiveInv, Live
  <2> QED BY <1>2, <2>2, <2>3
<1>4. MovesOn
  BY <1>0, <1>1, <1>2 DEF MovesOn
<1>5. TypeOK'
  BY <1>1, ResumeTypes DEF Inv1, TypeOK, ExecPlace
<1> QED BY <1>1, <1>3, <1>4, <1>5, ResumeInv1

\* A kind that is still to be resumed has no uncrossed action under way in execute.
LEMMA StartupResumeInv1 ==
  ASSUME Inv1, NEW k \in Kinds, StartupResume(k)
  PROVE  Inv1'
<1>1. /\ k \in unresumed /\ unresumed' = unresumed \ {k} /\ Resume(k)
      /\ UNCHANGED <<kind, exec, shown, late, queue, status, outcome, retried, tick, lastOnline,
                     restarts, accepted, reported, announced, torn, crossed>>
  BY DEF StartupResume, bridge, online, history
<1>2. MovesOn
  BY <1>1 DEF MovesOn
<1>3. TypeOK'
  BY <1>1, ResumeTypes DEF Inv1, TypeOK
<1>4. file[k] # None /\ file[k].msg \in Uncrossed => exec[file[k].msg] = "over"
  <2> SUFFICES ASSUME file[k] # None, file[k].msg \in Uncrossed PROVE exec[file[k].msg] = "over"
    OBVIOUS
  <2>1. /\ file[k].msg \in Actions /\ file[k].msg \notin crossed
        /\ kind[file[k].msg] = k /\ exec[file[k].msg] # "new"
    BY Shapes DEF OfKind, Uncrossed
  <2>2. exec[file[k].msg] \notin Live
    BY <1>1, <2>1 DEF Inv1, LiveInv
  <2>3. exec[file[k].msg] \in ExecPlace
    BY <2>1, Shapes
  <2> QED BY <2>1, <2>2, <2>3 DEF Live, ExecPlace
<1> QED BY <1>1, <1>2, <1>3, <1>4, ResumeInv1

\* same_job: the status a watcher believes is that of the job it waits for.
LEMMA PollInv1 ==
  ASSUME Inv1, NEW k \in Kinds, Poll(k)
  PROVE  Inv1'
<1> DEFINE v == watcher[k]
           s == Stream(k)
<1>1. /\ v # None /\ v.at = "poll" /\ SameJob(v, status[s]) /\ status[s].phase \in Settled
      /\ watcher' = [watcher EXCEPT ![k] = [v EXCEPT !.at = "report", !.verdict = Verdict(status[s])]]
      /\ UNCHANGED <<kind, exec, file, unresumed, shown, late, queue, status, outcome, retried, tick,
                     lastOnline, restarts, accepted, reported, announced, torn, crossed>>
  BY DEF Poll, bridge, online, history
<1>2. v \in Watching /\ OfKind(v, k) /\ s \in Streams
  BY <1>1, Shapes DEF Stream, Streams
<1>3. v.job # None /\ (status[s].phase = "done" => outcome[v.job] = "done")
  BY <1>1, <1>2 DEF SameJob, Inv1, JobInv, Ended
<1>4. PICK w \in Watching : /\ w = [v EXCEPT !.at = "report", !.verdict = Verdict(status[s])]
                            /\ watcher' = [watcher EXCEPT ![k] = w]
  <2>1. [v EXCEPT !.at = "report", !.verdict = Verdict(status[s])] \in Watching
    BY <1>2 DEF Watching, Verdict, Verdicts
  <2> QED BY <1>1, <2>1
<1>5. w.at = "report" /\ w.msg = v.msg /\ w.job = v.job /\ w.verdict = Verdict(status[s])
  BY <1>2, <1>4 DEF Watching
<1>6. w.verdict = "complete" => w.job # None /\ outcome[w.job] = "done"
  BY <1>3, <1>5 DEF Verdict
<1>7. w.verdict # None /\ OfKind(w, k)
  BY <1>2, <1>5, RecordAssumption DEF Verdict, Verdicts, OfKind
<1>8. TypeOK'
  BY <1>1, <1>4 DEF Inv1, TypeOK
<1>9. MovesOn
  BY <1>1 DEF MovesOn
<1>10. /\ w.msg \in Uncrossed => file[k] # None /\ file[k].msg = w.msg /\ exec'[w.msg] = "over"
       /\ file[k] # None /\ file[k].msg \in Uncrossed => w.msg = file[k].msg
  BY <1>1, <1>5 DEF Inv1, FileInv
<1> HIDE DEF v, s
<1> QED BY <1>1, <1>4, <1>5, <1>6, <1>7, <1>8, <1>9, <1>10, WatcherInv1

LEMMA GiveUpInv1 ==
  ASSUME Inv1, NEW k \in Kinds, GiveUp(k)
  PROVE  Inv1'
<1> DEFINE v == watcher[k]
<1>1. /\ v # None /\ v.at = "poll"
      /\ watcher' = [watcher EXCEPT ![k] = [v EXCEPT !.at = "report", !.verdict = "expired"]]
      /\ UNCHANGED <<kind, exec, file, unresumed, shown, late, queue, status, outcome, retried, tick,
                     lastOnline, restarts, accepted, reported, announced, torn, crossed>>
  BY DEF GiveUp, bridge, online, history
<1>2. v \in Watching /\ OfKind(v, k)
  BY <1>1, Shapes
<1>3. PICK w \in Watching : /\ w = [v EXCEPT !.at = "report", !.verdict = "expired"]
                            /\ watcher' = [watcher EXCEPT ![k] = w]
  <2>1. [v EXCEPT !.at = "report", !.verdict = "expired"] \in Watching
    BY <1>2 DEF Watching, Verdicts
  <2> QED BY <1>1, <2>1
<1>4. w.at = "report" /\ w.msg = v.msg /\ w.job = v.job /\ w.verdict = "expired"
      /\ w.verdict # None
  BY <1>2, <1>3, RecordAssumption DEF Watching, Verdicts
<1>5. TypeOK'
  BY <1>1, <1>3 DEF Inv1, TypeOK
<1>6. MovesOn
  BY <1>1 DEF MovesOn
<1>7. /\ OfKind(w, k)
      /\ w.msg \in Uncrossed => file[k] # None /\ file[k].msg = w.msg /\ exec'[w.msg] = "over"
      /\ file[k] # None /\ file[k].msg \in Uncrossed => w.msg = file[k].msg
  BY <1>1, <1>2, <1>4 DEF Inv1, FileInv, OfKind
<1> HIDE DEF v
<1> QED BY <1>1, <1>3, <1>4, <1>5, <1>6, <1>7, WatcherInv1

\* The announcement counts stay numbers.
LEMMA ToldType ==
  ASSUME Inv1, NEW k \in Kinds, watcher[k] # None
  PROVE  Told(watcher[k], k) \in [Actions -> Nat]
<1>1. announced \in [Actions -> Nat]
  BY DEF Inv1, TypeOK
<1>2. watcher[k].verdict = "complete" => watcher[k].job \in Actions
  BY Shapes DEF Inv1, FileInv, Jobs
<1> QED BY <1>1, <1>2 DEF Told

LEMMA ReportInv1 ==
  ASSUME Inv1, NEW k \in Kinds, EditMessage(k) \/ PostInstead(k)
  PROVE  Inv1'
<1> DEFINE v == watcher[k]
<1>1. /\ v # None /\ v.at = "report"
      /\ watcher' = [watcher EXCEPT ![k].at = "finish"]
      /\ reported' = reported \cup {v.msg}
      /\ shown' = shown \/ shown' = [shown EXCEPT ![v.msg] = v.verdict]
      /\ announced' \in {Told(v, k), announced}
      /\ UNCHANGED <<kind, exec, file, unresumed, late, queue, status, outcome, retried, tick,
                     lastOnline, restarts, accepted, torn, crossed>>
  BY DEF EditMessage, PostInstead, bridge, online
<1>2. /\ v \in Watching /\ OfKind(v, k) /\ v.msg \in Actions
      /\ v.verdict = "complete" => v.job # None /\ outcome[v.job] = "done"
      /\ v.verdict \in Verdicts
  BY <1>1, Shapes DEF Inv1, FileInv, Watching
<1>3. PICK w \in Watching : /\ w = [v EXCEPT !.at = "finish"]
                            /\ watcher' = [watcher EXCEPT ![k] = w]
  <2>1. [v EXCEPT !.at = "finish"] \in Watching
    BY <1>2 DEF Watching
  <2> QED BY <1>1, <2>1
<1>4. w.at = "finish" /\ w.msg = v.msg /\ w.job = v.job /\ w.verdict = v.verdict
      /\ w.verdict # None /\ w.verdict # "error"
  BY <1>2, <1>3, RecordAssumption DEF Watching, Verdicts
<1>5. TypeOK'
  <2>1. shown' \in [Actions -> Verdicts \cup {"none", "error"}] /\ announced' \in [Actions -> Nat]
    BY <1>1, <1>2, ToldType DEF Inv1, TypeOK
  <2>2. watcher' \in [Kinds -> Watching \cup {None}] /\ reported' \in SUBSET Actions
    BY <1>1, <1>2, <1>3 DEF Inv1, TypeOK
  <2> QED BY <1>1, <2>1, <2>2 DEF Inv1, TypeOK
<1>6. MovesOn
  BY <1>1 DEF MovesOn
<1>7. /\ OfKind(w, k)
      /\ w.msg \in Uncrossed => file[k] # None /\ file[k].msg = w.msg /\ exec'[w.msg] = "over"
      /\ file[k] # None /\ file[k].msg \in Uncrossed => w.msg = file[k].msg
  BY <1>1, <1>2, <1>4 DEF Inv1, FileInv, OfKind
<1> HIDE DEF v
<1>8. /\ w.at = "poll" <=> w.verdict = None
      /\ w.verdict = "complete" => w.job # None /\ outcome[w.job] = "done"
      /\ reported' = reported \cup {w.msg} /\ w.msg \in reported'
      /\ shown' = shown \/ (w.verdict # "error" /\ shown' = [shown EXCEPT ![w.msg] = w.verdict])
  BY <1>1, <1>2, <1>4
<1> QED BY <1>1, <1>3, <1>5, <1>6, <1>7, <1>8, WatcherInv1

\* The file goes when its message has the final panel.
LEMMA FinishInv1 ==
  ASSUME Inv1, NEW k \in Kinds, Finish(k)
  PROVE  Inv1'
<1>1. /\ watcher[k] # None /\ watcher[k].at = "finish"
      /\ lastOnline' = IF k = "host" /\ watcher[k].verdict = "complete"
                       THEN [lastOnline EXCEPT !.handoff = watcher[k].job] ELSE lastOnline
      /\ file' = [file EXCEPT ![k] = None] /\ watcher' = [watcher EXCEPT ![k] = None]
      /\ UNCHANGED <<kind, exec, unresumed, shown, late, queue, status, outcome, retried, tick,
                     restarts, accepted, reported, announced, torn, crossed>>
  BY DEF Finish, Clear, bridge, history
<1>2. /\ watcher[k].job \in Jobs
      /\ file[k] # None /\ file[k].msg \in Uncrossed =>
           file[k].msg \in reported /\ exec[file[k].msg] = "over"
  BY <1>1, Shapes DEF Inv1, FileInv
<1>3. /\ file'[k] = None /\ watcher'[k] = None
      /\ \A l \in Kinds \ {k} : file'[l] = file[l] /\ watcher'[l] = watcher[l]
  BY <1>1, Shapes
<1>4. TypeOK'
  BY <1>1, <1>2 DEF Inv1, TypeOK
<1>5. MovesOn /\ \A b \in Actions : ExecKeeps(b)
  BY <1>1 DEF MovesOn, ExecKeeps
<1>6. JobInv'
  BY <1>1, <1>4, <1>5, MovesOnJobs
<1>7. ASSUME NEW l \in Kinds PROVE FileInv(l)'
  <2>1. CASE l = k
    BY <1>3, <2>1 DEF FileInv, FileOfKind, WatchOfKind
  <2>2. CASE l # k
    BY <1>1, <1>3, <1>5, <2>2, FileSame, FileKeeps
  <2> QED BY <2>1, <2>2
<1>8. ASSUME NEW b \in Actions PROVE LiveInv(b)' /\ MessageInv(b)'
  <2>1. LiveInv(b) /\ MessageInv(b) /\ (exec[b] # "new" => kind[b] \in Kinds) /\ Uncrossed' = Uncrossed
    BY <1>1, Shapes DEF Inv1, Uncrossed
  <2>2. b \notin crossed /\ exec[b] \in Live => kind[b] # k /\ exec[b] # "new"
    BY <1>1, <2>1 DEF LiveInv, Live
  <2>3. b \notin crossed /\ b \in accepted \ reported => kind[b] # k /\ exec[b] # "new"
    BY <1>2, <2>1 DEF MessageInv, Uncrossed
  <2>4. LiveInv(b)'
    <3>1. CASE b \in crossed
      BY <1>1, <1>3, <2>1, <3>1 DEF LiveInv, Live
    <3>2. CASE b \notin crossed
      BY <1>1, <1>3, <2>1, <2>2, <3>2 DEF LiveInv
    <3> QED BY <3>1, <3>2
  <2>5. \A l \in Kinds : file'[l] # None => file'[l] = file[l]
    BY <1>3
  <2>6. MessageInv(b)'
    BY <1>1, <1>3, <2>1, <2>3, <2>5 DEF MessageInv
  <2> QED BY <2>4, <2>6
<1> QED BY <1>4, <1>6, <1>7, <1>8 DEF Inv1

-----------------------------------------------------------------------------
(* The scheduler, the process, the clock and the worker.                   *)

LEMMA AnnounceInv1 ==
  ASSUME Inv1, AnnounceStep \/ \E a \in Actions : Expire(a)
  PROVE  Inv1'
<1>1. UNCHANGED <<kind, exec, file, watcher, unresumed, shown, queue, status, outcome, retried, accepted,
                  reported, crossed>>
  BY DEF AnnounceStep, ReadHost, DecideHost, PostHost, RecordHost, Expire, handoff, bridge, online, history
<1>2. MovesOn
  BY <1>1 DEF MovesOn
<1>3. TypeOK'
  <2>1. TypeOK
    BY DEF Inv1
  <2>2. ReadHost => TypeOK'
    BY <2>1 DEF TypeOK, ReadHost, handoff, bridge, history, Status, Streams
  <2>3. DecideHost => TypeOK'
    BY <2>1 DEF TypeOK, DecideHost, handoff, bridge, history, NoTick, Jobs
  <2>4. PostHost => TypeOK'
    BY <2>1 DEF TypeOK, PostHost, handoff, bridge, NoTick, Jobs
  <2>5. RecordHost => TypeOK'
    BY <2>1 DEF TypeOK, RecordHost, handoff, bridge, history, NoTick, Jobs
  <2>6. ASSUME NEW a \in Actions, Expire(a) PROVE TypeOK'
    BY <2>1, <2>6 DEF TypeOK, Expire, bridge, online, history
  <2> QED BY <2>2, <2>3, <2>4, <2>5, <2>6 DEF AnnounceStep
<1> QED BY <1>1, <1>2, <1>3, QuietInv1

\* A restart forgets the tasks; the host's own restart is written to its status.
LEMMA RestartInv1 ==
  ASSUME Inv1, Restart \/ RestartHost
  PROVE  Inv1'
<1>1. /\ exec' = [a \in Actions |-> IF exec[a] = "new" THEN "new" ELSE "over"]
      /\ watcher' = [k \in Kinds |-> None] /\ unresumed' = Kinds /\ tick' = NoTick
      /\ restarts' \in {restarts, restarts + 1}
      /\ torn' = torn \cup {a \in Actions :
           \/ \E k \in Kinds : watcher[k] # None /\ watcher[k].at = "finish" /\ watcher[k].msg = a
           \/ tick.at = "record" /\ tick.job = a}
      /\ UNCHANGED <<kind, file, shown, late, queue, outcome, retried, lastOnline, accepted,
                     reported, announced, crossed>>
  BY DEF Restart, RestartHost, BotRestarts
<1>2. \/ status' = status
      \/ status["host"].phase = "busy" /\ status' = [status EXCEPT !["host"].phase = "booted"]
  BY DEF Restart, RestartHost
<1>3. /\ status' \in [Streams -> Status]
      /\ \A s \in Streams : /\ status'[s].job = status[s].job
                            /\ status'[s].phase # status[s].phase =>
                                 status[s].phase = "busy" /\ status'[s].phase = "booted"
  BY <1>2 DEF Inv1, TypeOK, Status, Streams
<1>4. TypeOK'
  <2>1. TypeOK
    BY DEF Inv1
  <2>2. exec' \in [Actions -> ExecPlace] /\ watcher' \in [Kinds -> Watching \cup {None}] /\ torn' \in SUBSET Actions
    BY <1>1, <2>1 DEF TypeOK, ExecPlace
  <2>3. tick' \in [at : {"idle", "decide", "post", "record"}, job : Jobs] /\ restarts' \in Nat
    BY <1>1, <2>1 DEF TypeOK, NoTick, Jobs
  <2> QED BY <1>1, <1>3, <2>1, <2>2, <2>3 DEF TypeOK
<1>5. \A b \in Actions : exec'[b] = IF exec[b] = "new" THEN "new" ELSE "over"
  BY <1>1
<1>6. JobInv'
  <2>1. \A b \in Actions : (Begun(b) => Begun(b)') /\ (exec'[b] # "new" => exec[b] # "new")
    BY <1>5 DEF Begun
  <2>2. queue \in Jobs /\ \A s \in Streams : status[s].job \in Jobs
    BY DEF Inv1, TypeOK, Status
  <2>3. \A s \in Streams :
          /\ status'[s].phase = "idle" <=> status[s].phase = "idle"
          /\ status'[s].phase \in {"busy", "booted", "failing"} <=> status[s].phase \in {"busy", "booted", "failing"}
          /\ status'[s].phase \in Ended <=> status[s].phase \in Ended
          /\ status[s].phase \in Ended => status'[s].phase = status[s].phase
    BY <1>3 DEF Ended
  <2> QED BY <1>1, <1>3, <2>1, <2>2, <2>3 DEF Inv1, JobInv, Jobs
<1>7. ASSUME NEW k \in Kinds PROVE FileInv(k)'
  <2>1. \A b \in Actions : ExecKeeps(b)
    BY <1>5 DEF ExecKeeps
  <2>2. FileOfKind(k)'
    BY <1>1, <2>1, FileSame DEF FileMsgKept
  <2> QED BY <1>1, <2>2 DEF FileInv, WatchOfKind
<1>8. ASSUME NEW b \in Actions PROVE LiveInv(b)' /\ MessageInv(b)'
  <2>1. MessageInv(b)
    BY DEF Inv1
  <2>2. LiveInv(b)'
    BY <1>5 DEF LiveInv, Live
  <2>3. MessageInv(b)'
    BY <1>1, <1>5, <2>1 DEF MessageInv
  <2> QED BY <2>2, <2>3
<1> QED BY <1>4, <1>6, <1>7, <1>8 DEF Inv1

\* Steps of the worker.
LEMMA WorkerInv1 ==
  ASSUME Inv1, TypeOK', JobInv', \A a \in Actions : outcome[a] = "done" => outcome'[a] = "done",
         UNCHANGED <<kind, exec, file, watcher, unresumed, shown, accepted, reported, crossed>>
  PROVE  Inv1'
<1>1. \A b \in Actions : ExecKeeps(b)
  BY DEF ExecKeeps
<1>2. ASSUME NEW k \in Kinds PROVE FileInv(k)'
  <2>1. FileInv(k) /\ FileOfKind(k)' /\ WatchOfKind(k)' /\ Uncrossed' = Uncrossed
    BY <1>1, FileSame, WatchSame DEF FileMsgKept, Inv1, Uncrossed
  <2>2. watcher[k] # None => watcher[k].job \in Jobs
    BY Shapes
  <2> QED BY <2>1, <2>2 DEF FileInv, Jobs
<1>3. \A b \in Actions : LiveInv(b)' /\ MessageInv(b)'
  BY DEF Inv1, LiveInv, MessageInv, Uncrossed
<1> QED BY <1>2, <1>3 DEF Inv1

LEMMA BeginJobInv1 ==
  ASSUME Inv1, BeginJob
  PROVE  Inv1'
<1> DEFINE s == Stream(kind[queue])
<1>1. /\ queue # None /\ queue' = None
      /\ status' = [status EXCEPT ![s] = [job |-> queue, phase |-> "busy"]]
      /\ UNCHANGED <<outcome, retried, kind, exec, file, watcher, unresumed, shown, late, tick, lastOnline,
                     restarts, accepted, reported, announced, torn, crossed>>
  BY DEF BeginJob, handoff, online, history
<1>2. queue \in Actions /\ s \in Streams /\ Begun(queue) /\ outcome[queue] = "none"
  BY <1>1 DEF Inv1, TypeOK, JobInv, Jobs, Stream, Streams
<1>3. [job |-> queue, phase |-> "busy"] \in Status
  BY <1>2 DEF Status, Jobs
<1>4. status'[s] = [job |-> queue, phase |-> "busy"] /\ \A r \in Streams \ {s} : status'[r] = status[r]
  BY <1>1, <1>2 DEF Inv1, TypeOK
<1>5. TypeOK'
  BY <1>1, <1>2, <1>3 DEF Inv1, TypeOK, Jobs
<1>6. \A b \in Actions : Begun(b)' <=> Begun(b)
  BY <1>1 DEF Begun
<1>7. JobInv'
  <2>1. ASSUME NEW r \in Streams
        PROVE  /\ status'[r].phase = "idle" <=> status'[r].job = None
               /\ status'[r].job # None => exec'[status'[r].job] \notin {"new", "staged"} /\ Stream(kind[status'[r].job]) = r
               /\ status'[r].phase \in {"busy", "booted", "failing"} => outcome[status'[r].job] = "none"
               /\ status'[r].phase \in Ended => outcome[status'[r].job] = status'[r].phase
    <3>1. CASE r = s
      BY <1>1, <1>2, <1>4, <3>1, NoneAssumption DEF Ended, Begun
    <3>2. CASE r # s
      <4> HIDE DEF s
      <4> QED BY <1>1, <1>4, <3>2 DEF Inv1, JobInv, Begun
    <3> QED BY <3>1, <3>2
  <2>2. \A b \in Actions : outcome'[b] # "none" => exec'[b] \notin {"new", "staged"}
    BY <1>1 DEF Inv1, JobInv, Begun
  <2>3. \A b \in Actions : exec'[b] # "new" => kind'[b] \in Kinds
    BY <1>1 DEF Inv1, JobInv
  <2> QED BY <1>1, <2>1, <2>2, <2>3 DEF JobInv, Begun
<1> QED BY <1>1, <1>5, <1>7, WorkerInv1

LEMMA LoseJobInv1 ==
  ASSUME Inv1, LoseJob
  PROVE  Inv1'
<1>1. /\ queue' = None
      /\ UNCHANGED <<status, outcome, retried, kind, exec, file, watcher, unresumed, shown, late, tick,
                     lastOnline, restarts, accepted, reported, announced, torn, crossed>>
  BY DEF LoseJob, handoff, online, history
<1>2. TypeOK'
  BY <1>1 DEF Inv1, TypeOK, Jobs
<1>3. JobInv'
  BY <1>1 DEF Inv1, JobInv, Begun
<1> QED BY <1>1, <1>2, <1>3, WorkerInv1

LEMMA EndJobInv1 ==
  ASSUME Inv1, NEW s \in Streams, EndJob(s)
  PROVE  Inv1'
<1> DEFINE a == status[s].job
<1>1. PICK o \in Ends(s) : /\ status' = [status EXCEPT ![s].phase = o]
                           /\ outcome' = [outcome EXCEPT ![a] = o]
  BY DEF EndJob
<1>2. /\ status[s].phase \in {"busy", "booted", "failing"} /\ o \in Ended
      /\ UNCHANGED <<queue, retried, kind, exec, file, watcher, unresumed, shown, late, tick, lastOnline,
                     restarts, accepted, reported, announced, torn, crossed>>
  BY <1>1 DEF EndJob, Ends, Ended, handoff, online, history
<1>3. a \in Actions /\ outcome[a] = "none" /\ Begun(a) /\ Stream(kind[a]) = s /\ queue # a
  BY <1>2 DEF Inv1, TypeOK, JobInv, Status, Jobs
<1>4. /\ status'[s].phase = o /\ status'[s].job = a /\ status' \in [Streams -> Status]
      /\ \A r \in Streams \ {s} : status'[r] = status[r]
  <2>1. status \in [Streams -> Status]
    BY DEF Inv1, TypeOK
  <2>2. [status[s] EXCEPT !.phase = o] \in Status
    BY <1>2, <2>1 DEF Status, Settled
  <2>3. [status[s] EXCEPT !.phase = o].phase = o /\ [status[s] EXCEPT !.phase = o].job = a
    BY <2>1 DEF Status
  <2> QED BY <1>1, <2>1, <2>2, <2>3
<1>5. /\ outcome'[a] = o /\ outcome' \in [Actions -> Ended \cup {"none"}]
      /\ \A b \in Actions \ {a} : outcome'[b] = outcome[b]
  BY <1>1, <1>2, <1>3 DEF Inv1, TypeOK
<1>6. TypeOK'
  BY <1>2, <1>4, <1>5 DEF Inv1, TypeOK
<1>7. \A b \in Actions : Begun(b)' <=> Begun(b)
  BY <1>2 DEF Begun
<1>8. JobInv'
  <2>1. ASSUME NEW r \in Streams
        PROVE  /\ status'[r].job = status[r].job
               /\ status'[r].phase = "idle" <=> status'[r].job = None
               /\ status'[r].job # None => exec'[status'[r].job] \notin {"new", "staged"} /\ Stream(kind[status'[r].job]) = r
               /\ status'[r].phase \in {"busy", "booted", "failing"} => outcome'[status'[r].job] = "none"
               /\ status'[r].phase \in Ended => outcome'[status'[r].job] = status'[r].phase
    <3>1. CASE r = s
      BY <1>2, <1>3, <1>4, <1>5, <3>1, NoneAssumption DEF Ended, Begun
    <3>2. CASE r # s
      <4>1. status[r].job # None => status[r].job \in Actions /\ status[r].job # a
        BY <1>3, <3>2 DEF Inv1, TypeOK, Status, Jobs, JobInv
      <4>2. status[r].phase \in Ended \cup {"busy", "booted", "failing"} => status[r].job # None
        BY DEF Inv1, JobInv, Ended
      <4> HIDE DEF a
      <4>3. /\ status[r].phase = "idle" <=> status[r].job = None
            /\ status[r].job # None => Begun(status[r].job) /\ Stream(kind[status[r].job]) = r
            /\ status[r].phase \in {"busy", "booted", "failing"} => outcome[status[r].job] = "none"
            /\ status[r].phase \in Ended => outcome[status[r].job] = status[r].phase
        BY DEF Inv1, JobInv
      <4>4. status'[r] = status[r] /\ (status[r].job # None => outcome'[status[r].job] = outcome[status[r].job])
        BY <1>4, <1>5, <3>2, <4>1
      <4> HIDE DEF a
      <4> QED BY <1>2, <4>2, <4>3, <4>4 DEF Begun
    <3> QED BY <3>1, <3>2
  <2>2. queue # None => Begun(queue) /\ outcome'[queue] = "none" /\ \A r \in Streams : status'[r].job # queue
    <3>1. \A r \in Streams : status'[r].job = status[r].job
      BY <2>1
    <3>2. queue # None => queue \in Actions
      BY DEF Inv1, TypeOK, Jobs
    <3> QED BY <1>3, <1>5, <3>1, <3>2 DEF Inv1, JobInv
  <2>3. \A b \in Actions : outcome'[b] # "none" => exec'[b] \notin {"new", "staged"}
    BY <1>2, <1>3, <1>5 DEF Inv1, JobInv, Begun
  <2>4. \A b \in Actions : exec'[b] # "new" => kind'[b] \in Kinds
    BY <1>2 DEF Inv1, JobInv
  <2> QED BY <1>2, <2>1, <2>2, <2>3, <2>4 DEF JobInv, Begun
<1>9. \A b \in Actions : outcome[b] = "done" => outcome'[b] = "done"
  BY <1>3, <1>5
<1> QED BY <1>2, <1>6, <1>8, <1>9, WorkerInv1

\* A release job shows "failed" and goes on: it has not ended.
LEMMA ShowInv1 ==
  ASSUME Inv1, Stumble \/ Retry
  PROVE  Inv1'
<1> DEFINE b == status["bot"]
<1>1. /\ b.phase \in {"busy", "failing"} /\ b.job \in Actions
      /\ "bot" \in Streams /\ b \in Status
  BY DEF Stumble, Retry, Inv1, TypeOK, JobInv, Status, Streams, Jobs
<1>2. PICK p \in {"busy", "failing"} : status' = [status EXCEPT !["bot"].phase = p]
  BY DEF Stumble, Retry
<1>3. /\ retried' \subseteq Actions
      /\ UNCHANGED <<queue, outcome, kind, exec, file, watcher, unresumed, shown, late, tick,
                     lastOnline, restarts, accepted, reported, announced, torn, crossed>>
  BY <1>1 DEF Stumble, Retry, handoff, online, history, Inv1, TypeOK
<1>4. /\ status' \in [Streams -> Status]
      /\ status'["bot"].phase = p /\ status'["bot"].job = b.job
      /\ \A s \in Streams \ {"bot"} : status'[s] = status[s]
  <2>1. status \in [Streams -> Status]
    BY DEF Inv1, TypeOK
  <2>2. [b EXCEPT !.phase = p] \in Status
    BY <1>1, <1>2 DEF Status, Settled
  <2>3. [b EXCEPT !.phase = p].phase = p /\ [b EXCEPT !.phase = p].job = b.job
    BY <1>1 DEF Status
  <2> QED BY <1>1, <1>2, <2>1, <2>2, <2>3
<1>5. TypeOK'
  BY <1>3, <1>4 DEF Inv1, TypeOK
<1>6. JobInv'
  <2>1. \A s \in Streams : status'[s].job = status[s].job
    BY <1>4
  <2>2. ASSUME NEW s \in Streams
        PROVE  /\ status'[s].phase = "idle" <=> status[s].phase = "idle"
               /\ status'[s].phase \in {"busy", "booted", "failing"} <=> status[s].phase \in {"busy", "booted", "failing"}
               /\ status'[s].phase \in Ended <=> status[s].phase \in Ended
               /\ status[s].phase \in Ended => status'[s].phase = status[s].phase
    BY <1>1, <1>4 DEF Ended
  <2> HIDE DEF b
  <2> QED BY <1>3, <2>1, <2>2 DEF Inv1, JobInv, Begun
<1> QED BY <1>3, <1>5, <1>6, WorkerInv1

LEMMA NextInv1 ==
  ASSUME Inv1, [Next]_vars
  PROVE  Inv1'
<1>1. ASSUME NEW a \in Actions, ActionStep(a) PROVE Inv1'
  BY <1>1, ConfirmInv1, AcceptInv1, RefuseInv1, FailInv1, RecordInv1, FollowInv1, AnnounceInv1 DEF ActionStep
<1>2. ASSUME NEW k \in Kinds, WatchStep(k) \/ StartupResume(k) PROVE Inv1'
  BY <1>2, PollInv1, GiveUpInv1, ReportInv1, FinishInv1, StartupResumeInv1 DEF WatchStep
<1>3. CASE AnnounceStep
  BY <1>3, AnnounceInv1
<1>4. CASE Restart \/ RestartHost
  BY <1>4, RestartInv1
<1>5. CASE BeginJob \/ LoseJob \/ Stumble \/ Retry \/ \E s \in Streams : EndJob(s)
  BY <1>5, BeginJobInv1, LoseJobInv1, ShowInv1, EndJobInv1
<1>6. CASE UNCHANGED vars
  <2>1. MovesOn /\ TypeOK'
    BY <1>6 DEF vars, handoff, bridge, online, history, MovesOn, Inv1, TypeOK
  <2> QED BY <1>6, <2>1, QuietInv1 DEF vars, handoff, bridge, history
<1> QED BY <1>1, <1>2, <1>3, <1>4, <1>5, <1>6 DEF Next

LEMMA Invariant1 == Spec => []Inv1
BY InitInv1, NextInv1, PTL DEF Spec

\* Every variable keeps its type.
THEOREM HandoffTypes == Spec => []TypeOK
<1>1. Inv1 => TypeOK
  BY DEF Inv1
<1> QED BY <1>1, Invariant1, PTL

-----------------------------------------------------------------------------
(* Verdicts of failure.  The watcher may take one from a job that is still   *)
(* at work, so it is a statement about how that job will end.                *)

\* The job of a cannot end well any more, or is a rollback that tried again.
Doomed(a) == \/ a \in retried
             \/ outcome[a] \in {"failed", "mismatch"}
             \/ \E s \in Streams : status[s].phase = "failing" /\ status[s].job = a

\* A kind's watcher has given up only on a doomed job.
LostInv(k) ==
  watcher[k] # None /\ watcher[k].verdict = "failed" => watcher[k].job # None /\ Doomed(watcher[k].job)

Inv3 == /\ status["host"].phase # "failing"
        /\ \A k \in Kinds : LostInv(k)
        /\ \A a \in Uncrossed : shown[a] = "failed" => Doomed(a)

LEMMA InitInv3 == Init => Inv3
  BY DEF Init, Inv3, LostInv, Streams, Uncrossed

\* What the worker does next to a doomed job does not save it.
LEMMA DoomStays ==
  ASSUME Inv1, Inv3, NEW a \in Actions, Doomed(a),
         BeginJob \/ LoseJob \/ Stumble \/ Retry \/ RestartHost \/ \E s \in Streams : EndJob(s)
  PROVE  Doomed(a)'
<1> USE DEF Doomed
<1>1. /\ status \in [Streams -> Status] /\ Streams = {"bot", "host"}
      /\ outcome \in [Actions -> Ended \cup {"none"}]
  BY DEF Inv1, TypeOK, Streams
<1>2. CASE BeginJob
  <2>1. /\ status["bot"].phase # "failing" /\ status["host"].phase # "failing"
        /\ UNCHANGED <<outcome, retried>>
    BY <1>2 DEF BeginJob, Inv3
  <2> QED BY <1>1, <2>1
<1>3. CASE LoseJob
  BY <1>3 DEF LoseJob
<1>4. CASE Stumble
  <2>1. status["bot"].phase = "busy" /\ status["host"].phase # "failing" /\ UNCHANGED <<outcome, retried>>
    BY <1>4 DEF Stumble, Inv3
  <2> QED BY <1>1, <2>1
<1>5. CASE Retry
  <2>1. /\ status["host"].phase # "failing" /\ UNCHANGED outcome
        /\ retried' = retried \cup {status["bot"].job}
    BY <1>5 DEF Retry, Inv3
  <2> QED BY <1>1, <2>1
<1>6. CASE RestartHost
  <2>1. /\ status["host"].phase = "busy" /\ UNCHANGED <<outcome, retried>>
        /\ status' = [status EXCEPT !["host"].phase = "booted"]
    BY <1>6 DEF RestartHost, BotRestarts
  <2>2. status'["bot"] = status["bot"]
    BY <1>1, <2>1
  <2> QED BY <1>1, <2>1, <2>2
<1>7. CASE \E s \in Streams : EndJob(s)
  <2>1. PICK s \in Streams : EndJob(s)
    BY <1>7
  <2> DEFINE j == status[s].job
  <2>2. PICK o \in Ends(s) : /\ status' = [status EXCEPT ![s].phase = o]
                             /\ outcome' = [outcome EXCEPT ![j] = o]
    BY <2>1 DEF EndJob
  <2>3. UNCHANGED retried /\ status[s].phase \in {"busy", "booted", "failing"}
    BY <2>1 DEF EndJob
  <2>4. j \in Actions /\ outcome[j] = "none"
    BY <1>1, <2>3 DEF Inv1, TypeOK, JobInv, Status, Jobs
  <2>5. status[s].phase = "failing" => o = "failed"
    BY <2>2 DEF Ends, Inv3
  <2>6. CASE a = j /\ status[s].phase = "failing"
    BY <1>1, <2>2, <2>4, <2>5, <2>6
  <2>7. CASE outcome[a] \in {"failed", "mismatch"}
    BY <1>1, <2>2, <2>4, <2>7
  <2>8. CASE \E r \in Streams \ {s} : status[r].phase = "failing" /\ status[r].job = a
    <3>1. \A r \in Streams \ {s} : status'[r] = status[r]
      BY <1>1, <2>2
    <3> QED BY <2>8, <3>1
  <2> QED BY <2>3, <2>6, <2>7, <2>8
<1> QED BY <1>2, <1>3, <1>4, <1>5, <1>6, <1>7

\* Steps that leave the jobs alone, and what watchers and messages say of failures.
LEMMA QuietInv3 ==
  ASSUME Inv3, UNCHANGED <<status, outcome, retried>>, crossed \subseteq crossed',
         \A k \in Kinds : LostInv(k) => LostInv(k)',
         \A a \in Uncrossed : shown'[a] = "failed" => shown[a] = "failed" \/ Doomed(a)
  PROVE  Inv3'
<1>1. Uncrossed' \subseteq Uncrossed
  BY DEF Uncrossed
<1> QED BY <1>1 DEF Inv3, Doomed

\* A watcher that starts has no verdict.
LEMMA ResumeInv3 ==
  ASSUME Inv1, Inv3, NEW k \in Kinds, Resume(k), UNCHANGED <<status, outcome, retried, shown, crossed>>
  PROVE  Inv3'
<1>1. ASSUME NEW l \in Kinds, LostInv(l) PROVE LostInv(l)'
  <2>1. CASE watcher' = watcher
    BY <1>1, <2>1 DEF LostInv, Doomed
  <2>2. CASE watcher' # watcher
    <3>1. PICK w \in Watching : w.verdict = None /\ watcher' = [watcher EXCEPT ![k] = w]
      BY <2>2, ResumeEffect
    <3>2. CASE l = k
      BY <3>1, <3>2, Shapes, RecordAssumption DEF LostInv, Verdicts
    <3>3. CASE l # k
      BY <1>1, <3>1, <3>3, Shapes DEF LostInv, Doomed
    <3> QED BY <3>2, <3>3
  <2> QED BY <2>1, <2>2
<1> QED BY <1>1, QuietInv3

\* The watcher takes a failure from the status of its own job only.
LEMMA WatchInv3 ==
  ASSUME Inv1, Inv3, NEW k \in Kinds, WatchStep(k)
  PROVE  Inv3'
<1>1. UNCHANGED <<status, outcome, retried, crossed>> /\ watcher[k] # None
  BY DEF WatchStep, Poll, GiveUp, EditMessage, PostInstead, Finish, bridge, history
<1>2. PICK w \in Watching \cup {None} : watcher' = [watcher EXCEPT ![k] = w]
  BY Shapes DEF WatchStep, Poll, GiveUp, EditMessage, PostInstead, Finish, Watching, Verdict, Verdicts
<1>3. watcher'[k] = w /\ \A l \in Kinds \ {k} : watcher'[l] = watcher[l]
  BY <1>2, Shapes
<1>4. LostInv(k)
  BY DEF Inv3
<1>5. w # None /\ w.verdict = "failed" => w.job # None /\ Doomed(w.job)
  <2> DEFINE v == watcher[k]
  <2>1. v \in Watching
    BY <1>1, Shapes
  <2>2. CASE Poll(k)
    <3> DEFINE t == status[Stream(k)]
    <3>1. /\ watcher' = [watcher EXCEPT ![k] = [v EXCEPT !.at = "report", !.verdict = Verdict(t)]]
          /\ t.phase \in Settled /\ v.job # None /\ t.job = v.job
      BY <2>2 DEF Poll, SameJob
    <3>2. w.job = v.job /\ w.verdict = Verdict(t)
      BY <1>3, <2>1, <3>1, Shapes DEF Watching
    <3>3. Stream(k) \in Streams
      BY DEF Stream, Streams
    <3>4. t.phase \in Ended => outcome[t.job] = t.phase
      BY <3>3 DEF Inv1, JobInv
    <3>5. Verdict(t) = "failed" => t.phase \in {"failed", "mismatch", "failing"}
      BY <3>1 DEF Verdict, Settled, Ended
    <3> QED BY <3>1, <3>2, <3>3, <3>4, <3>5 DEF Doomed, Ended
  <2>3. CASE GiveUp(k)
    <3>1. watcher' = [watcher EXCEPT ![k] = [v EXCEPT !.at = "report", !.verdict = "expired"]]
      BY <2>3 DEF GiveUp
    <3> QED BY <1>3, <2>1, <3>1, Shapes DEF Watching
  <2>4. CASE EditMessage(k) \/ PostInstead(k)
    <3>1. watcher' = [watcher EXCEPT ![k].at = "finish"]
      BY <2>4 DEF EditMessage, PostInstead
    <3>2. w.job = v.job /\ w.verdict = v.verdict
      BY <1>3, <2>1, <3>1, Shapes DEF Watching
    <3> QED BY <1>1, <1>4, <3>2 DEF LostInv
  <2>5. CASE Finish(k)
    BY <1>3, <2>5, Shapes DEF Finish
  <2> QED BY <2>2, <2>3, <2>4, <2>5 DEF WatchStep
<1>6. ASSUME NEW l \in Kinds, LostInv(l) PROVE LostInv(l)'
  <2>1. \A a \in Actions : Doomed(a)' <=> Doomed(a)
    BY <1>1 DEF Doomed
  <2>2. w # None => w.job \in Jobs
    BY DEF Watching
  <2> QED BY <1>3, <1>5, <1>6, <2>1, <2>2, Shapes DEF LostInv, Jobs
<1>7. ASSUME NEW a \in Uncrossed, shown'[a] = "failed", shown[a] # "failed" PROVE Doomed(a)
  <2>1. EditMessage(k) /\ a = watcher[k].msg /\ watcher[k].verdict = "failed"
    <3>1. shown \in [Actions -> Verdicts \cup {"none", "error"}] /\ watcher[k].msg \in Actions
      BY <1>1, Shapes DEF Inv1, TypeOK
    <3> QED BY <1>7, <3>1 DEF Uncrossed, WatchStep, Poll, GiveUp, EditMessage, PostInstead, Finish
  <2>2. watcher[k].job \in {None, a}
    BY <1>1, <2>1, Shapes DEF OfKind
  <2> QED BY <1>1, <1>4, <2>1, <2>2 DEF LostInv
<1> QED BY <1>1, <1>6, <1>7, QuietInv3

LEMMA NextInv3 ==
  ASSUME Inv1, Inv3, [Next]_vars
  PROVE  Inv3'
<1>1. ASSUME NEW a \in Actions, ActionStep(a) PROVE Inv3'
  <2>1. UNCHANGED <<status, outcome, retried>> /\ crossed \subseteq crossed'
    BY <1>1 DEF ActionStep, Confirm, Accept, Refuse, LoseAnswer, Fail, Record, Follow, Expire, bridge, history
  <2>2. CASE Follow(a)
    <3>1. Resume(kind[a]) /\ UNCHANGED <<shown, crossed>> /\ exec[a] = "recorded"
      BY <2>2 DEF Follow, history
    <3> QED BY <2>1, <3>1, Shapes, ResumeInv3
  <2>3. CASE ~Follow(a)
    <3>1. UNCHANGED watcher /\ (shown' = shown \/ shown' = [shown EXCEPT ![a] = "error"])
      BY <1>1, <2>3 DEF ActionStep, Confirm, Accept, Refuse, LoseAnswer, Fail, Record, Expire
    <3>2. \A b \in Uncrossed : shown'[b] = "failed" => shown[b] = "failed"
      BY <3>1 DEF Inv1, TypeOK, Uncrossed
    <3> QED BY <2>1, <3>1, <3>2, QuietInv3 DEF LostInv, Doomed
  <2> QED BY <2>2, <2>3
<1>2. ASSUME NEW k \in Kinds, WatchStep(k) \/ StartupResume(k) PROVE Inv3'
  <2>1. CASE StartupResume(k)
    BY <2>1, ResumeInv3 DEF StartupResume, bridge, history
  <2> QED BY <1>2, <2>1, WatchInv3
<1>3. CASE AnnounceStep \/ Restart \/ UNCHANGED vars
  <2>1. UNCHANGED <<status, outcome, retried, shown, crossed>> /\ (watcher' = watcher \/ watcher' = [k \in Kinds |-> None])
    BY <1>3 DEF AnnounceStep, ReadHost, DecideHost, PostHost, RecordHost, Restart, BotRestarts,
                vars, handoff, bridge, history
  <2> QED BY <2>1, QuietInv3 DEF LostInv, Doomed
<1>4. CASE BeginJob \/ LoseJob \/ Stumble \/ Retry \/ RestartHost \/ \E s \in Streams : EndJob(s)
  <2>1. /\ shown' = shown /\ Uncrossed' = Uncrossed
        /\ watcher' = watcher \/ watcher' = [k \in Kinds |-> None]
    BY <1>4 DEF BeginJob, LoseJob, Stumble, Retry, RestartHost, BotRestarts, EndJob, handoff, history, Uncrossed
  <2>2. \A a \in Actions : Doomed(a) => Doomed(a)'
    BY <1>4, DoomStays
  <2>3. status'["host"].phase # "failing"
    <3>1. status \in [Streams -> Status] /\ Streams = {"bot", "host"} /\ status["host"].phase # "failing"
      BY DEF Inv1, Inv3, TypeOK, Streams
    <3>2. CASE BeginJob
      BY <3>1, <3>2 DEF BeginJob
    <3>3. CASE \E s \in Streams : EndJob(s)
      <4>1. PICK s \in Streams, o \in Ended : status' = [status EXCEPT ![s].phase = o]
        BY <3>3 DEF EndJob, Ends, Ended
      <4> QED BY <3>1, <4>1 DEF Ended
    <3>4. CASE LoseJob
      BY <3>1, <3>4 DEF LoseJob
    <3>5. CASE Stumble \/ Retry
      <4>1. PICK p : status' = [status EXCEPT !["bot"].phase = p]
        BY <3>5 DEF Stumble, Retry
      <4> QED BY <3>1, <4>1
    <3>6. CASE RestartHost
      <4>1. status' = [status EXCEPT !["host"].phase = "booted"] /\ status["host"].phase = "busy"
        BY <3>6 DEF RestartHost
      <4>2. status'["host"] = [status["host"] EXCEPT !.phase = "booted"] /\ status["host"] \in Status
        BY <3>1, <4>1
      <4> QED BY <4>2 DEF Status
    <3> QED BY <1>4, <3>2, <3>3, <3>4, <3>5, <3>6
  <2>4. \A k \in Kinds : LostInv(k)'
    BY <2>1, <2>2, Shapes DEF Inv3, LostInv, Jobs
  <2>5. \A a \in Uncrossed' : shown'[a] = "failed" => Doomed(a)'
    BY <2>1, <2>2 DEF Inv3, Uncrossed
  <2> QED BY <2>3, <2>4, <2>5 DEF Inv3
<1> QED BY <1>1, <1>2, <1>3, <1>4 DEF Next

\* The message of an action that met no other of its kind says complete only for
\* the job of its own action that ended well (same_job), and failed only for one
\* that does not, or for a rollback that showed a failure of its retained images
\* before it went on to GitHub.
THEOREM OwnVerdictHeld == Spec => []OwnVerdict
<1>1. Inv1 /\ Inv3 => OwnVerdict
  <2> SUFFICES ASSUME Inv1, Inv3, NEW a \in Uncrossed, shown[a] = "failed", a \notin retried
               PROVE  outcome[a] # "done"
    BY DEF Inv1, MessageInv, OwnVerdict, Uncrossed
  <2>1. Doomed(a)
    BY DEF Inv3
  <2>2. \A s \in Streams : status[s].phase = "failing" => outcome[status[s].job] = "none"
    BY DEF Inv1, JobInv
  <2> QED BY <2>1, <2>2 DEF Doomed
<1>2. Spec => [](Inv1 /\ Inv3)
  BY InitInv1, InitInv3, NextInv1, NextInv3, PTL DEF Spec
<1> QED BY <1>1, <1>2, PTL

\* From the acceptance to the final panel the file, a watcher or execute has every
\* accepted action that met no other of its kind.
THEOREM AcceptedCarried == Spec => []AcceptedIsCarried
<1>1. Inv1 => AcceptedIsCarried
  <2> SUFFICES ASSUME Inv1, NEW a \in (accepted \ reported) \ crossed PROVE Carried(a)
    BY DEF AcceptedIsCarried
  <2>1. a \in Actions
    BY DEF Inv1, TypeOK
  <2>2. file[kind[a]] # None /\ file[kind[a]].msg = a /\ exec[a] # "new"
    BY <2>1 DEF Inv1, MessageInv
  <2> QED BY <2>1, <2>2, Shapes DEF Carried, Owed
<1> QED BY <1>1, Invariant1, PTL

\* No file and no watcher holds the message of a refused action that met no other of its kind.
THEOREM RefusedDropped == Spec => []RefusedIsDropped
<1>1. Inv1 => RefusedIsDropped
  <2> SUFFICES ASSUME Inv1, NEW a \in Uncrossed, shown[a] = "error" PROVE ~Carried(a)
    BY DEF RefusedIsDropped
  <2>1. exec[a] = "over" /\ \A k \in Kinds : file[k] # None => file[k].msg # a
    BY DEF Inv1, MessageInv, Uncrossed
  <2>2. \A k \in Kinds : watcher[k] # None => watcher[k].msg # a
    BY <2>1 DEF Inv1, FileInv
  <2> QED BY <2>1, <2>2 DEF Carried, Owed
<1> QED BY <1>1, Invariant1, PTL

-----------------------------------------------------------------------------
(* The return of the host.  A job that was told stays noted until the next   *)
(* host job takes its place in the status file, and who could tell it again  *)
(* looks at the note or at the status: the watcher has its file from before  *)
(* (FreshInv), the scheduler posts only without a file (TickInv), and the    *)
(* one note each of them has is overwritten only for a newer job.            *)

W == watcher["host"]
HostJob == status["host"].job

HostDone(a) == outcome[a] = "done" /\ kind[a] = "host"

Noted(a) ==
  \/ W # None /\ W.at = "finish" /\ W.verdict = "complete" /\ W.job = a
  \/ tick.at = "record" /\ tick.job = a
  \/ a \in {lastOnline.saved, lastOnline.handoff}

Superseded(a) == HostJob # a /\ tick.job # a

ToldInv(a) ==
  announced[a] # 0 => /\ HostDone(a)
                      /\ a \in Uncrossed \ torn => announced[a] = 1 /\ (Noted(a) \/ Superseded(a))

TickInv ==
  /\ tick.at = "idle" => tick.job = None
  /\ tick.at # "idle" => /\ tick.job \in Actions /\ HostDone(tick.job)
                         /\ status["host"].phase # "booted"
                         /\ status["host"].phase = "done" => HostJob = tick.job
  /\ tick.at \in {"post", "record"} /\ tick.job \in Uncrossed =>
       \A k \in Kinds : file[k] # None => file[k].msg # tick.job
  /\ tick.at = "post" /\ tick.job \in Uncrossed \ torn => announced[tick.job] = 0

CompleteInv ==
  W # None /\ W.verdict = "complete" =>
    /\ status["host"].phase # "booted"
    /\ \A a \in Actions \ {W.job} : HostDone(a) => Superseded(a)

FreshInv ==
  file["host"] # None /\ (W = None \/ W.at # "finish") /\ file["host"].msg \in Uncrossed =>
    file["host"].msg \in torn \/ announced[file["host"].msg] = 0

Inv2 == TickInv /\ CompleteInv /\ FreshInv /\ \A a \in Actions : ToldInv(a)

LEMMA InitInv2 == Init => Inv2
<1> SUFFICES ASSUME Init PROVE Inv2
  OBVIOUS
<1>1. "host" \in Kinds
  BY KindsAssumption
<1> QED BY <1>1 DEF Init, Inv2, TickInv, CompleteInv, FreshInv, ToldInv, W, NoTick

\* What the first invariant says of the host's file, watcher and status.
LEMMA HostFacts ==
  ASSUME Inv1
  PROVE  /\ "host" \in Kinds /\ "host" \in Streams
         /\ W # None => /\ W \in Watching /\ W.msg \in Actions /\ W.job \in Jobs
                        /\ W.verdict = "complete" => W.job \in Actions /\ HostDone(W.job)
                        /\ W.job \in Uncrossed => W.msg = W.job
                        /\ W.msg \in Uncrossed => file["host"] # None /\ file["host"].msg = W.msg
                        /\ file["host"] # None /\ file["host"].msg \in Uncrossed =>
                             W.msg = file["host"].msg
         /\ \A k \in Kinds : file[k] # None /\ file[k].msg # None =>
              file[k].msg \in Actions /\ kind[file[k].msg] = k
         /\ \A a \in Actions : outcome[a] = "done" => exec[a] \notin {"new", "staged"}
         /\ HostJob \in Jobs /\ tick.job \in Jobs
         /\ announced \in [Actions -> Nat]
         /\ None \notin Uncrossed /\ Uncrossed \subseteq Actions
<1>1. "host" \in Kinds /\ "host" \in Streams
  BY KindsAssumption DEF Streams
<1>2. FileInv("host") /\ TypeOK /\ JobInv
  BY <1>1 DEF Inv1
<1>3. \A k \in Kinds : file[k] # None /\ file[k].msg # None =>
        file[k].msg \in Actions /\ kind[file[k].msg] = k
  BY Shapes DEF OfKind, Jobs
<1>4. \A a \in Actions : outcome[a] = "done" => exec[a] \notin {"new", "staged"}
  BY <1>2 DEF JobInv, Begun
<1>5. HostJob \in Jobs /\ tick.job \in Jobs /\ announced \in [Actions -> Nat]
  BY <1>1, <1>2 DEF TypeOK, HostJob, Status
<1>6. None \notin Uncrossed /\ Uncrossed \subseteq Actions
  BY Shapes DEF Uncrossed
<1>7. W # None => W \in Watching /\ W.msg \in Actions /\ W.job \in Jobs /\ OfKind(W, "host")
  BY <1>1, Shapes DEF W
<1>8. W # None => /\ W.verdict = "complete" => W.job \in Actions /\ HostDone(W.job)
                  /\ W.job \in Uncrossed => W.msg = W.job
  BY <1>2, <1>6, <1>7 DEF W, FileInv, HostDone, OfKind, Jobs
<1>9. W # None => /\ W.msg \in Uncrossed => file["host"] # None /\ file["host"].msg = W.msg
                  /\ file["host"] # None /\ file["host"].msg \in Uncrossed =>
                       W.msg = file["host"].msg
  BY <1>2 DEF W, FileInv
<1> QED BY <1>1, <1>3, <1>4, <1>5, <1>6, <1>7, <1>8, <1>9

\* Steps that tell nobody and leave the scheduler and the status alone.
LEMMA QuietInv2 ==
  ASSUME Inv1, Inv2, crossed \subseteq crossed',
         UNCHANGED <<outcome, announced, torn, tick, status, lastOnline>>,
         \A a \in Actions : exec[a] # "new" => kind'[a] = kind[a],
         \A k \in Kinds : file'[k] # None =>
           \/ file[k] # None /\ file'[k].msg = file[k].msg
           \/ file'[k].msg \in Actions /\ exec[file'[k].msg] = "new"
           \/ file'[k].msg = None,
         \/ W' = W
         \/ W = None /\ W' # None /\ W'.at = "poll" /\ W'.verdict = None
         \/ /\ W # None /\ W' # None /\ W.at = "poll" /\ W'.at = "report" /\ W'.job = W.job
            /\ W'.verdict = "complete" => status["host"].phase = "done" /\ HostJob = W.job
         \/ /\ W # None /\ W' # None /\ W'.at = "finish" /\ W'.job = W.job
            /\ W'.verdict = W.verdict
  PROVE  Inv2'
<1>1. /\ HostJob' = HostJob /\ \A a \in Actions : HostDone(a)' <=> HostDone(a)
      /\ Uncrossed' \subseteq Uncrossed
  BY HostFacts DEF HostJob, HostDone, Uncrossed
<1>2. TickInv'
  <2>1. tick.at # "idle" => tick.job \in Actions /\ exec[tick.job] # "new"
    BY HostFacts DEF Inv2, TickInv, HostDone
  <2>2. tick.at \in {"post", "record"} /\ tick.job \in Uncrossed =>
          \A k \in Kinds : file'[k] # None => file'[k].msg # tick.job
    BY <2>1, HostFacts DEF Inv2, TickInv
  <2> QED BY <1>1, <2>1, <2>2 DEF Inv2, TickInv
<1>3. CompleteInv'
  <2>1. CASE W' # None /\ W'.verdict = "complete" /\ W # None /\ W.at = "poll" /\ W'.job = W.job
             /\ status["host"].phase = "done" /\ HostJob = W.job
    <3>1. tick.job \in {None, W.job}
      BY <2>1 DEF Inv2, TickInv
    <3> QED BY <1>1, <2>1, <3>1, NoneAssumption DEF CompleteInv, Superseded
  <2>2. CASE W # None /\ W.verdict = "complete" /\ W'.job = W.job
    BY <1>1, <2>2 DEF Inv2, CompleteInv, Superseded
  <2>3. CASE W' # None => W'.verdict # "complete"
    BY <2>3 DEF CompleteInv
  <2> QED BY <2>1, <2>2, <2>3, RecordAssumption DEF Verdicts
<1>4. FreshInv'
  <2> SUFFICES ASSUME file'["host"] # None, W' = None \/ W'.at # "finish", file'["host"].msg \in Uncrossed
               PROVE  file'["host"].msg \in torn \/ announced[file'["host"].msg] = 0
    BY <1>1 DEF FreshInv
  <2>1. W = None \/ W.at # "finish"
    OBVIOUS
  <2>2. CASE file["host"] # None /\ file'["host"].msg = file["host"].msg
    BY <2>1, <2>2 DEF Inv2, FreshInv
  <2>3. CASE file'["host"].msg \in Actions /\ exec[file'["host"].msg] = "new"
    BY <2>3, HostFacts DEF Inv2, ToldInv, HostDone
  <2> QED BY <2>2, <2>3, HostFacts
<1>5. ASSUME NEW a \in Actions PROVE ToldInv(a)'
  <2>1. Noted(a) => Noted(a)'
    BY DEF Noted
  <2>2. Superseded(a) => Superseded(a)'
    BY <1>1 DEF Superseded
  <2> QED BY <1>1, <2>1, <2>2 DEF Inv2, ToldInv
<1> QED BY <1>2, <1>3, <1>4, <1>5 DEF Inv2

\* A watcher that starts has no verdict yet.
LEMMA ResumeInv2 ==
  ASSUME Inv1, Inv2, NEW k \in Kinds, Resume(k),
         UNCHANGED <<kind, outcome, announced, torn, tick, status, lastOnline, crossed>>
  PROVE  Inv2'
<1>1. \A l \in Kinds : file'[l] # None => file'[l] = file[l]
  BY ResumeEffect, Shapes
<1>2. W' = W \/ (W = None /\ W' # None /\ W'.at = "poll" /\ W'.verdict = None)
  <2>1. CASE watcher' = watcher
    BY <2>1 DEF W
  <2>2. CASE watcher' # watcher
    <3>1. PICK w \in Watching : /\ w # None /\ w.at = "poll" /\ w.verdict = None
                                /\ watcher[k] = None /\ watcher' = [watcher EXCEPT ![k] = w]
      BY <2>2, ResumeEffect
    <3>2. CASE k = "host"
      BY <3>1, <3>2, Shapes DEF W
    <3>3. CASE k # "host"
      BY <3>1, <3>3, HostFacts, Shapes DEF W
    <3> QED BY <3>2, <3>3
  <2> QED BY <2>1, <2>2
<1> QED BY <1>1, <1>2, QuietInv2

\* Controller.execute tells nobody.
LEMMA ExecInv2 ==
  ASSUME Inv1, Inv2, NEW a \in Actions, ActionStep(a)
  PROVE  Inv2'
<1>1. UNCHANGED <<outcome, announced, torn, tick, status, lastOnline>> /\ crossed \subseteq crossed'
  BY DEF ActionStep, Confirm, Accept, Refuse, LoseAnswer, Fail, Record, Follow, Expire,
         bridge, online, history
<1>2. CASE \E k \in Kinds : Confirm(a, k)
  <2>1. PICK k \in Kinds : Confirm(a, k)
    BY <1>2
  <2>2. /\ exec[a] = "new" /\ kind' = [kind EXCEPT ![a] = k] /\ watcher' = watcher
        /\ file' = [file EXCEPT ![k] = [msg |-> a, job |-> IF k = "host" THEN a ELSE None]]
    BY <2>1 DEF Confirm, Stage
  <2>3. \A b \in Actions : exec[b] # "new" => kind'[b] = kind[b]
    BY <2>2, Shapes
  <2>4. \A l \in Kinds : file'[l] # None =>
           \/ file[l] # None /\ file'[l].msg = file[l].msg
           \/ file'[l].msg \in Actions /\ exec[file'[l].msg] = "new"
    BY <2>2, Shapes
  <2>5. W' = W
    BY <2>2 DEF W
  <2> QED BY <1>1, <2>3, <2>4, <2>5, QuietInv2
<1>3. CASE Accept(a) \/ Refuse(a) \/ LoseAnswer(a) \/ Expire(a)
  <2>1. UNCHANGED <<kind, file, watcher>>
    BY <1>3 DEF Accept, Refuse, LoseAnswer, Expire
  <2> QED BY <1>1, <2>1, QuietInv2 DEF W
<1>4. CASE Fail(a)
  <2>1. UNCHANGED <<kind, watcher>> /\ file' = [file EXCEPT ![kind[a]] = None]
    BY <1>4 DEF Fail, Clear
  <2>2. \A l \in Kinds : file'[l] # None => file'[l] = file[l]
    BY <2>1, Shapes
  <2> QED BY <1>1, <2>1, <2>2, QuietInv2 DEF W
<1>5. CASE Record(a)
  <2>1. UNCHANGED <<kind, watcher>> /\ file' \in {Accepted(kind[a], a), file} /\ exec[a] = "sent"
    BY <1>5 DEF Record
  <2>2. kind[a] \in Kinds /\ file \in [Kinds -> Entry \cup {None}]
    BY <2>1, Shapes
  <2>3. \A l \in Kinds : file'[l] # None =>
          (file[l] # None /\ file'[l].msg = file[l].msg) \/ file'[l].msg = None
    BY <2>1, <2>2, Shapes DEF Accepted, Entry
  <2> QED BY <1>1, <2>1, <2>3, QuietInv2 DEF W
<1>6. CASE Follow(a)
  <2>1. UNCHANGED <<kind, crossed>> /\ Resume(kind[a]) /\ exec[a] = "recorded"
    BY <1>6 DEF Follow, history
  <2>2. kind[a] \in Kinds
    BY <2>1, Shapes
  <2> QED BY <1>1, <2>1, <2>2, ResumeInv2
<1> QED BY <1>2, <1>3, <1>4, <1>5, <1>6 DEF ActionStep

\* Another kind's watcher, and the steps of the host's that tell nothing.
LEMMA WatchInv2 ==
  ASSUME Inv1, Inv2, NEW k \in Kinds, Poll(k) \/ GiveUp(k) \/ StartupResume(k)
  PROVE  Inv2'
<1>1. UNCHANGED <<kind, outcome, announced, torn, tick, status, lastOnline, crossed>>
  BY DEF Poll, GiveUp, StartupResume, bridge, online, history
<1>2. CASE StartupResume(k)
  BY <1>1, <1>2, ResumeInv2 DEF StartupResume
<1>3. CASE Poll(k) \/ GiveUp(k)
  <2> DEFINE s == status[Stream(k)]
             v == IF Poll(k) THEN Verdict(s) ELSE "expired"
  <2>1. /\ watcher[k] # None /\ watcher[k].at = "poll" /\ file' = file
        /\ watcher' = [watcher EXCEPT ![k] = [watcher[k] EXCEPT !.at = "report", !.verdict = v]]
    BY <1>3 DEF Poll, GiveUp
  <2>2. v = "complete" => s.phase = "done" /\ s.job = watcher[k].job /\ s.job # None
    BY <1>3 DEF Poll, SameJob, Verdict
  <2> HIDE DEF v
  <2>3. CASE k # "host"
    <3>1. W' = W
      BY <2>1, <2>3, HostFacts, Shapes DEF W
    <3> QED BY <1>1, <2>1, <3>1, QuietInv2
  <2>4. CASE k = "host"
    <3>1. W' = [W EXCEPT !.at = "report", !.verdict = v] /\ W # None /\ W.at = "poll" /\ W \in Watching
      BY <2>1, <2>4, HostFacts, Shapes DEF W
    <3>2. W'.at = "report" /\ W'.job = W.job /\ W'.verdict = v /\ W' # None
      <4>1. W' \in [at : {"report"}, msg : Actions, job : Jobs, verdict : {v}]
        BY <3>1 DEF Watching
      <4>2. W' \in Watching
        <5>1. v \in Verdicts
          BY DEF v, Verdict, Verdicts
        <5> QED BY <4>1, <5>1 DEF Watching
      <4> QED BY <3>1, <4>2, RecordAssumption DEF Watching
    <3>3. v = "complete" => status["host"].phase = "done" /\ HostJob = W.job
      BY <2>2, <2>4 DEF W, HostJob, Stream
    <3> QED BY <1>1, <2>1, <3>1, <3>2, <3>3, QuietInv2
  <2> QED BY <2>3, <2>4
<1> QED BY <1>2, <1>3

\* The final panel: the host's is told for a job that nobody told before.
LEMMA ReportInv2 ==
  ASSUME Inv1, Inv2, NEW k \in Kinds, EditMessage(k) \/ PostInstead(k)
  PROVE  Inv2'
<1>1. /\ watcher[k] # None /\ watcher[k].at = "report"
      /\ watcher' = [watcher EXCEPT ![k].at = "finish"]
      /\ announced' \in {Told(watcher[k], k), announced}
      /\ UNCHANGED <<kind, file, outcome, torn, tick, status, lastOnline, crossed>>
  BY DEF EditMessage, PostInstead, bridge, online
<1>2. k # "host" => W' = W
  BY <1>1, HostFacts, Shapes DEF W
<1>3. k = "host" => /\ W # None /\ W.at = "report" /\ W' # None /\ W'.at = "finish"
                    /\ W'.job = W.job /\ W'.verdict = W.verdict
  <2> SUFFICES ASSUME k = "host"
               PROVE  /\ W # None /\ W.at = "report" /\ W' # None /\ W'.at = "finish"
                      /\ W'.job = W.job /\ W'.verdict = W.verdict
    OBVIOUS
  <2>1. W # None /\ W.at = "report" /\ W \in Watching /\ W' = [W EXCEPT !.at = "finish"]
    BY <1>1, HostFacts, Shapes DEF W
  <2>2. W' \in Watching
    BY <2>1 DEF Watching
  <2> QED BY <2>1, <2>2, RecordAssumption DEF Watching
<1>4. CASE announced' = announced
  BY <1>1, <1>2, <1>3, <1>4, QuietInv2
<1>5. CASE announced' # announced
  <2>1. k = "host" /\ W.verdict = "complete" /\ announced' = [announced EXCEPT ![W.job] = @ + 1]
    BY <1>1, <1>5 DEF Told, W
  <2>2. /\ W # None /\ W.at = "report" /\ W' # None /\ W'.at = "finish"
        /\ W'.job = W.job /\ W'.verdict = "complete"
        /\ W.job \in Actions /\ HostDone(W.job)
        /\ W.job \in Uncrossed => file["host"] # None /\ file["host"].msg = W.job
    BY <1>3, <2>1, HostFacts
  <2>3. W.job \in Uncrossed => W.job \in torn \/ announced[W.job] = 0
    BY <2>2 DEF Inv2, FreshInv
  <2>4. /\ announced'[W.job] = announced[W.job] + 1 /\ announced[W.job] \in Nat
        /\ \A a \in Actions \ {W.job} : announced'[a] = announced[a]
        /\ Uncrossed' = Uncrossed
    BY <1>1, <2>1, <2>2, HostFacts DEF Uncrossed
  <2>5. TickInv'
    <3>1. tick.at \in {"post", "record"} /\ tick.job \in Uncrossed => tick.job # W.job
      BY <2>2, HostFacts DEF Inv2, TickInv
    <3> QED BY <1>1, <2>4, <3>1 DEF Inv2, TickInv, HostDone, HostJob
  <2>6. CompleteInv'
    BY <1>1, <2>1, <2>2 DEF Inv2, CompleteInv, HostDone, Superseded, HostJob
  <2>7. FreshInv'
    BY <2>2 DEF FreshInv
  <2>8. ASSUME NEW a \in Actions PROVE ToldInv(a)'
    <3>1. CASE a = W.job
      BY <1>1, <2>2, <2>3, <2>4, <3>1 DEF ToldInv, HostDone, Noted
    <3>2. CASE a # W.job
      BY <1>1, <2>2, <2>4, <3>2 DEF Inv2, ToldInv, HostDone, HostJob, Noted, Superseded
    <3> QED BY <3>1, <3>2
  <2> QED BY <2>5, <2>6, <2>7, <2>8 DEF Inv2
<1> QED BY <1>4, <1>5

\* host-reboot-last-online.json takes the job; the one it held is superseded.
LEMMA FinishInv2 ==
  ASSUME Inv1, Inv2, NEW k \in Kinds, Finish(k)
  PROVE  Inv2'
<1>1. /\ watcher[k] # None /\ watcher[k].at = "finish"
      /\ lastOnline' = IF k = "host" /\ watcher[k].verdict = "complete"
                       THEN [lastOnline EXCEPT !.handoff = watcher[k].job] ELSE lastOnline
      /\ file' = [file EXCEPT ![k] = None] /\ watcher' = [watcher EXCEPT ![k] = None]
      /\ UNCHANGED <<kind, outcome, announced, torn, tick, status, crossed>>
  BY DEF Finish, Clear, bridge, history
<1>2. \A l \in Kinds : file'[l] # None => file'[l] = file[l]
  BY <1>1, Shapes
<1>3. CASE k # "host"
  <2>1. W' = W /\ lastOnline' = lastOnline
    BY <1>1, <1>3, HostFacts, Shapes DEF W
  <2> QED BY <1>1, <1>2, <2>1, QuietInv2
<1>4. CASE k = "host"
  <2>1. W # None /\ W.at = "finish" /\ W' = None /\ file'["host"] = None
    BY <1>1, <1>4, HostFacts, Shapes DEF W
  <2>2. TickInv' /\ CompleteInv' /\ FreshInv'
    BY <1>1, <1>2, <2>1 DEF Inv2, TickInv, CompleteInv, FreshInv, HostDone, HostJob, Uncrossed
  <2>3. ASSUME NEW a \in Actions PROVE ToldInv(a)'
    <3>1. CASE W.verdict # "complete"
      BY <1>1, <1>4, <2>1, <3>1 DEF Inv2, ToldInv, HostDone, HostJob, Noted, Superseded, Uncrossed, W
    <3>2. CASE W.verdict = "complete"
      <4>1. /\ lastOnline'.handoff = W.job /\ lastOnline'.saved = lastOnline.saved
        BY <1>1, <1>4, <2>1, <3>2, HostFacts DEF Inv1, TypeOK, W
      <4>2. a # W.job /\ HostDone(a) => Superseded(a)
        BY <2>1, <3>2 DEF Inv2, CompleteInv
      <4> QED BY <1>1, <2>1, <4>1, <4>2 DEF Inv2, ToldInv, HostDone, HostJob, Noted, Superseded, Uncrossed
    <3> QED BY <3>1, <3>2
  <2> QED BY <2>2, <2>3 DEF Inv2
<1> QED BY <1>3, <1>4

-----------------------------------------------------------------------------
(* The scheduler.                                                          *)

LEMMA AnnounceInv2 ==
  ASSUME Inv1, Inv2, AnnounceStep
  PROVE  Inv2'
<1>1. UNCHANGED <<kind, file, watcher, outcome, torn, status, crossed>> /\ Uncrossed' = Uncrossed
  BY DEF Uncrossed, AnnounceStep, ReadHost, DecideHost, PostHost, RecordHost, handoff, bridge, history
<1>2. tick \in [at : {"idle", "decide", "post", "record"}, job : Jobs] /\ TickInv
  BY DEF Inv1, TypeOK, Inv2
<1>3. CASE ReadHost
  <2>1. /\ tick.at = "idle" /\ status["host"].phase = "done"
        /\ tick'.at = "decide" /\ tick'.job = HostJob
        /\ UNCHANGED <<announced, lastOnline>>
    BY <1>3 DEF ReadHost, history, HostJob
  <2>2. HostJob \in Actions /\ HostDone(HostJob)
    <3>1. JobInv /\ "host" \in Streams /\ status["host"] \in Status
      BY HostFacts DEF Inv1, TypeOK
    <3>2. HostJob # None /\ outcome[HostJob] = "done" /\ Stream(kind[HostJob]) = "host"
      BY <2>1, <3>1 DEF JobInv, Ended, HostJob
    <3> QED BY <3>2, HostFacts DEF Jobs, HostDone, Stream
  <2>3. TickInv'
    BY <1>1, <2>1, <2>2 DEF TickInv, HostDone, HostJob
  <2>4. CompleteInv' /\ FreshInv'
    BY <1>1, <2>1 DEF Inv2, CompleteInv, FreshInv, HostDone, HostJob, Superseded, W
  <2>5. \A a \in Actions : ToldInv(a)'
    BY <1>1, <2>1 DEF Inv2, ToldInv, HostDone, HostJob, Noted, Superseded, W
  <2> QED BY <2>3, <2>4, <2>5 DEF Inv2
<1>4. CASE DecideHost
  <2>1. /\ tick.at = "decide" /\ tick.job \in Actions /\ HostDone(tick.job)
        /\ UNCHANGED <<announced, lastOnline>>
        /\ \/ tick' = NoTick
           \/ /\ file["host"] = None /\ tick.job \notin {lastOnline.saved, lastOnline.handoff}
              /\ tick'.at = "post" /\ tick'.job = tick.job
    BY <1>2, <1>4 DEF DecideHost, history, TickInv
  <2>2. TickInv'
    <3>1. CASE tick' = NoTick
      BY <3>1 DEF TickInv, NoTick
    <3>2. CASE tick' # NoTick
      <4>1. \A l \in Kinds : file[l] # None => file[l].msg # tick.job
        BY <2>1, <3>2, HostFacts, NoneAssumption DEF HostDone
      <4>2. tick.job \in Uncrossed => W = None \/ W.job # tick.job
        BY <2>1, <3>2, HostFacts
      <4>3. tick.job \in Uncrossed \ torn => announced[tick.job] = 0
        BY <2>1, <3>2, <4>2 DEF Inv2, ToldInv, Noted, Superseded
      <4> QED BY <1>1, <1>2, <2>1, <3>2, <4>1, <4>3 DEF TickInv, HostDone, HostJob
    <3> QED BY <3>1, <3>2
  <2>3. CompleteInv' /\ FreshInv'
    BY <1>1, <2>1, NoneAssumption DEF Inv2, CompleteInv, FreshInv, HostDone, HostJob, Superseded, W, NoTick
  <2>4. \A a \in Actions : ToldInv(a)'
    BY <1>1, <2>1, NoneAssumption DEF Inv2, ToldInv, HostDone, HostJob, Noted, Superseded, W, NoTick
  <2> QED BY <2>2, <2>3, <2>4 DEF Inv2
<1>5. CASE PostHost
  <2>1. /\ tick.at = "post" /\ tick.job \in Actions /\ HostDone(tick.job) /\ UNCHANGED lastOnline
        /\ \/ tick' = NoTick /\ announced' = announced
           \/ /\ tick'.at = "record" /\ tick'.job = tick.job
              /\ announced' = [announced EXCEPT ![tick.job] = @ + 1]
    BY <1>2, <1>5 DEF PostHost, TickInv
  <2>2. CASE tick' = NoTick /\ announced' = announced
    <3>1. TickInv' /\ CompleteInv' /\ FreshInv'
      BY <1>1, <2>2, NoneAssumption DEF Inv2, TickInv, CompleteInv, FreshInv, HostDone, HostJob, Superseded, W, NoTick
    <3>2. \A a \in Actions : ToldInv(a)'
      BY <1>1, <2>1, <2>2, NoneAssumption DEF Inv2, ToldInv, HostDone, HostJob, Noted, Superseded, W, NoTick
    <3> QED BY <3>1, <3>2 DEF Inv2
  <2>3. CASE tick'.at = "record" /\ tick'.job = tick.job /\ announced' = [announced EXCEPT ![tick.job] = @ + 1]
    <3>1. /\ announced'[tick.job] = announced[tick.job] + 1 /\ announced[tick.job] \in Nat
          /\ \A a \in Actions \ {tick.job} : announced'[a] = announced[a]
      BY <2>1, <2>3, HostFacts
    <3>2. TickInv' /\ CompleteInv'
      BY <1>1, <1>2, <2>1, <2>3 DEF Inv2, TickInv, CompleteInv, HostDone, HostJob, Superseded, W
    <3>3. FreshInv'
      BY <1>1, <1>2, <2>1, <3>1, HostFacts, KindsAssumption DEF Inv2, TickInv, FreshInv, W
    <3>4. ASSUME NEW a \in Actions PROVE ToldInv(a)'
      <4>1. CASE a = tick.job
        BY <1>1, <1>2, <2>1, <2>3, <3>1, <4>1 DEF TickInv, ToldInv, HostDone, Noted
      <4>2. CASE a # tick.job
        BY <1>1, <2>1, <2>3, <3>1, <4>2 DEF Inv2, ToldInv, HostDone, HostJob, Noted, Superseded, W
      <4> QED BY <4>1, <4>2
    <3> QED BY <3>2, <3>3, <3>4 DEF Inv2
  <2> QED BY <2>1, <2>2, <2>3
<1>6. CASE RecordHost
  <2>1. /\ tick.at = "record" /\ tick.job \in Actions /\ tick' = NoTick /\ announced' = announced
        /\ lastOnline' = [lastOnline EXCEPT !.saved = tick.job]
    BY <1>2, <1>6 DEF RecordHost, history, TickInv
  <2>2. lastOnline'.saved = tick.job /\ lastOnline'.handoff = lastOnline.handoff
    BY <2>1 DEF Inv1, TypeOK
  <2>3. TickInv' /\ CompleteInv' /\ FreshInv'
    BY <1>1, <2>1, NoneAssumption DEF Inv2, TickInv, CompleteInv, FreshInv, HostDone, HostJob, Superseded, W, NoTick
  <2>4. ASSUME NEW a \in Actions, HostDone(a), a # tick.job PROVE HostJob # a
    <3>1. JobInv /\ "host" \in Streams /\ status["host"] \in Status
      BY HostFacts DEF Inv1, TypeOK
    <3>2. status["host"].phase # "booted" /\ (status["host"].phase = "done" => HostJob = tick.job)
      BY <1>2, <2>1 DEF TickInv
    <3> QED BY <2>4, <3>1, <3>2, NoneAssumption DEF JobInv, Status, Ended, Settled, HostJob, HostDone
  <2>5. ASSUME NEW a \in Actions PROVE ToldInv(a)'
    BY <1>1, <2>1, <2>2, <2>4, NoneAssumption DEF Inv2, ToldInv, HostDone, HostJob, Noted, Superseded, W, NoTick
  <2> QED BY <2>3, <2>5 DEF Inv2
<1> QED BY <1>3, <1>4, <1>5, <1>6 DEF AnnounceStep

-----------------------------------------------------------------------------
(* The process and the worker.                                             *)

\* What was told and not yet written down is torn.
LEMMA RestartInv2 ==
  ASSUME Inv1, Inv2, Restart \/ RestartHost
  PROVE  Inv2'
<1>1. /\ watcher' = [k \in Kinds |-> None] /\ tick' = NoTick
      /\ torn' = torn \cup {a \in Actions :
           \/ \E k \in Kinds : watcher[k] # None /\ watcher[k].at = "finish" /\ watcher[k].msg = a
           \/ tick.at = "record" /\ tick.job = a}
      /\ UNCHANGED <<kind, file, outcome, lastOnline, announced, crossed>> /\ Uncrossed' = Uncrossed
  BY DEF Uncrossed, Restart, RestartHost, BotRestarts
<1>2. HostJob' = HostJob
  BY DEF Restart, RestartHost, HostJob, Inv1, TypeOK, Status, Streams
<1>3. W' = None /\ "host" \in Kinds
  BY <1>1, HostFacts DEF W
<1>4. TickInv' /\ CompleteInv'
  BY <1>1, <1>3 DEF TickInv, CompleteInv, NoTick
<1>5. FreshInv'
  <2> SUFFICES ASSUME file["host"] # None, file["host"].msg \in Uncrossed
               PROVE  file["host"].msg \in torn' \/ announced[file["host"].msg] = 0
    BY <1>1 DEF FreshInv
  <2>1. CASE W = None \/ W.at # "finish"
    BY <1>1, <2>1 DEF Inv2, FreshInv
  <2>2. CASE W # None /\ W.at = "finish"
    BY <1>1, <1>3, <2>2, HostFacts DEF W
  <2> QED BY <2>1, <2>2
<1>6. ASSUME NEW a \in Actions PROVE ToldInv(a)'
  <2>1. HostDone(a)' <=> HostDone(a)
    BY <1>1 DEF HostDone
  <2>2. Superseded(a) => Superseded(a)'
    BY <1>1, <1>2, NoneAssumption DEF Superseded, NoTick
  <2>3. Noted(a) /\ a \in Uncrossed => Noted(a)' \/ a \in torn'
    BY <1>1, <1>3, HostFacts DEF Noted, W
  <2> QED BY <1>1, <2>1, <2>2, <2>3 DEF Inv2, ToldInv
<1> QED BY <1>4, <1>5, <1>6 DEF Inv2

\* A host job that begins supersedes the one before; one that ends well saw the
\* host restart, and with it every task of the bot end.
LEMMA WorkerInv2 ==
  ASSUME Inv1, Inv2, BeginJob \/ LoseJob \/ Stumble \/ Retry \/ \E s \in Streams : EndJob(s)
  PROVE  Inv2'
<1>1. UNCHANGED <<kind, file, watcher, tick, lastOnline, announced, torn, crossed>> /\ Uncrossed' = Uncrossed
  BY DEF Uncrossed, BeginJob, LoseJob, Stumble, Retry, EndJob, handoff, online, history
<1>2. W' = W
  BY <1>1 DEF W
<1>3. CASE LoseJob
  BY <1>1, <1>2, <1>3, QuietInv2 DEF LoseJob
<1>4. CASE BeginJob
  <2>1. /\ queue \in Actions /\ outcome[queue] = "none" /\ outcome' = outcome
        /\ status' = [status EXCEPT ![Stream(kind[queue])] = [job |-> queue, phase |-> "busy"]]
    BY <1>4 DEF BeginJob, Inv1, TypeOK, JobInv, Jobs
  <2>2. \/ status'["host"] = status["host"]
        \/ status'["host"] = [job |-> queue, phase |-> "busy"]
    BY <2>1, HostFacts DEF Inv1, TypeOK
  <2>3. \A a \in Actions : HostDone(a) => (HostJob # a => HostJob' # a)
    BY <2>1, <2>2 DEF HostDone, HostJob
  <2>4. status'["host"].phase # "booted" \/ status'["host"] = status["host"]
    BY <2>2
  <2>5. status'["host"].phase = "done" => status'["host"] = status["host"]
    BY <2>2
  <2>6. TickInv'
    BY <1>1, <2>1, <2>4, <2>5 DEF Inv2, TickInv, HostDone, HostJob
  <2>7. CompleteInv'
    BY <1>1, <1>2, <2>1, <2>3, <2>4 DEF Inv2, CompleteInv, HostDone, Superseded
  <2>8. FreshInv'
    BY <1>1, <1>2 DEF Inv2, FreshInv
  <2>9. ASSUME NEW a \in Actions PROVE ToldInv(a)'
    BY <1>1, <1>2, <2>1, <2>3 DEF Inv2, ToldInv, HostDone, Noted, Superseded
  <2> QED BY <2>6, <2>7, <2>8, <2>9 DEF Inv2
<1>5. CASE \E s \in Streams : EndJob(s)
  <2>1. PICK s \in Streams : EndJob(s)
    BY <1>5
  <2> DEFINE j == status[s].job
  <2>2. PICK o \in Ends(s) : /\ status' = [status EXCEPT ![s].phase = o]
                             /\ outcome' = [outcome EXCEPT ![j] = o]
    BY <2>1 DEF EndJob
  <2>3. /\ status[s].phase \in {"busy", "booted", "failing"} /\ j \in Actions /\ outcome[j] = "none"
        /\ Stream(kind[j]) = s
    BY <2>1 DEF EndJob, Inv1, TypeOK, JobInv, Status, Jobs
  <2>4. o = "done" => s # "host" \/ status["host"].phase = "booted"
    BY <2>3 DEF Ends
  <2>5. /\ \A a \in Actions \ {j} : outcome'[a] = outcome[a]
        /\ outcome'[j] = o
    BY <2>2, <2>3 DEF Inv1, TypeOK
  <2>6. /\ status'["host"].job = status["host"].job
        /\ s # "host" => status'["host"] = status["host"]
        /\ s = "host" => status'["host"].phase = o
    BY <2>2, <2>3, HostFacts DEF Inv1, TypeOK, Status
  <2>7. o # "booted" /\ (s = "host" => kind[j] = "host") /\ (s # "host" => kind[j] # "host")
    BY <2>3 DEF Ends, Ended, Stream
  <2> HIDE DEF j
  <2>8. \A a \in Actions : /\ HostDone(a) => HostDone(a)'
                           /\ HostDone(a)' /\ status["host"].phase # "booted" => HostDone(a)
    BY <1>1, <2>3, <2>4, <2>5, <2>7 DEF HostDone
  <2>9. TickInv'
    BY <1>1, <2>4, <2>6, <2>7, <2>8 DEF Inv2, TickInv, HostJob
  <2>10. CompleteInv'
    BY <1>1, <1>2, <2>6, <2>7, <2>8 DEF Inv2, CompleteInv, Superseded, HostJob
  <2>11. FreshInv'
    BY <1>1, <1>2 DEF Inv2, FreshInv
  <2>12. ASSUME NEW a \in Actions PROVE ToldInv(a)'
    BY <1>1, <1>2, <2>6, <2>8 DEF Inv2, ToldInv, Noted, Superseded, HostJob
  <2> QED BY <2>9, <2>10, <2>11, <2>12 DEF Inv2
<1>6. CASE Stumble \/ Retry
  <2>1. outcome' = outcome /\ status'["host"] = status["host"]
    BY <1>6 DEF Stumble, Retry, Inv1, TypeOK, Streams
  <2>2. TickInv' /\ CompleteInv' /\ FreshInv'
    BY <1>1, <1>2, <2>1 DEF Inv2, TickInv, CompleteInv, FreshInv, HostDone, HostJob, Superseded
  <2>3. \A a \in Actions : ToldInv(a)'
    BY <1>1, <1>2, <2>1 DEF Inv2, ToldInv, HostDone, HostJob, Noted, Superseded
  <2> QED BY <2>2, <2>3 DEF Inv2
<1> QED BY <1>3, <1>4, <1>5, <1>6

LEMMA NextInv2 ==
  ASSUME Inv1, Inv2, [Next]_vars
  PROVE  Inv2'
<1>1. ASSUME NEW a \in Actions, ActionStep(a) PROVE Inv2'
  BY <1>1, ExecInv2
<1>2. ASSUME NEW k \in Kinds, WatchStep(k) \/ StartupResume(k) PROVE Inv2'
  BY <1>2, WatchInv2, ReportInv2, FinishInv2 DEF WatchStep
<1>3. CASE UNCHANGED vars
  BY <1>3, QuietInv2 DEF vars, handoff, bridge, online, history, W
<1> QED BY <1>1, <1>2, <1>3, AnnounceInv2, RestartInv2, WorkerInv2 DEF Next

\* The return of the host is told once for the job of an action that met no other
\* of its kind, by its message or by the scheduler, except where a restart came between telling and writing that down.
THEOREM HostToldOnceHeld == Spec => []HostToldOnce
<1>1. Inv2 => HostToldOnce
  BY DEF Inv2, ToldInv, HostToldOnce, Uncrossed
<1>2. Spec => [](Inv1 /\ Inv2)
  BY InitInv1, InitInv2, NextInv1, NextInv2, PTL DEF Spec
<1> QED BY <1>1, <1>2, PTL

===============================================================================
