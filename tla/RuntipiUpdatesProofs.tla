------------------------- MODULE RuntipiUpdatesProofs -------------------------
(***************************************************************************)
(* What the agent says of an update and what Runtipi does with it, for any *)
(* number of apps, versions, operations and faults.                        *)
(*                                                                         *)
(* Only the holder of the lock is under way (Sound), so no other thread    *)
(* moves between its steps; what its rows promise is still to come unless  *)
(* its own job has brought it, a job it lost sight of may have, or the     *)
(* store withdrew it.                                                      *)
(***************************************************************************)
EXTENDS RuntipiUpdates, TLAPS

Places  == {"idle", "check", "rows", "wait", "probe"}
Results == {"none", "updated", "failed", "skipped"}

HandlerType == [at : Places, what : Apps \cup {All, None}, todo : SUBSET RowType,
                row : RowType \cup {None}, seen : Nat, behind : BOOLEAN,
                done : [Apps -> Results]]

Shape ==
  /\ version \in [Apps -> Versions] /\ latest \in [Apps -> Versions]
  /\ box \in [Apps -> {"running", "stopped", "missing"}]
  /\ work \in [Apps -> Nat]
  /\ lock \in Handlers \cup {None}
  /\ handler \in [Handlers -> HandlerType]
  /\ cache = None \/ cache \subseteq RowType
  /\ given \subseteq Apps

\* Every row is for an app of its own, at most the newest version, and still to come.
RowsSound(h) ==
  /\ \A r, s \in h.todo : r.app = s.app => r = s
  /\ \A r \in h.todo : r.app \in withdrawn \/ r.target <= latest[r.app]
  /\ \A r \in h.todo : \/ r.app \in given \cup withdrawn
                       \/ version[r.app] < r.target
                       \/ h.at \in {"wait", "probe"} /\ h.row = r /\ work[r.app] = 0

\* What a poll has read stays true of the version.
PollSound(h) ==
  /\ h.seen <= version[h.row.app]
  /\ h.behind \/ h.row.app \in withdrawn \/ version[h.row.app] >= h.row.target

Sound(t) ==
  LET h == handler[t] IN
  /\ h.at # "idle" => lock = t
  /\ h.at \in {"wait", "probe"} => h.row \in h.todo
  /\ h.at \in {"rows", "wait", "probe"} => RowsSound(h)
  /\ h.at = "probe" => PollSound(h)

IInv == Shape /\ WorkIsWatched /\ \A t \in Handlers : Sound(t)

LEMMA RowsType ==
  ASSUME Shape
  PROVE  /\ Rows \subseteq RowType
         /\ \A r \in Rows : r.app \in Apps /\ r.target = latest[r.app] /\ version[r.app] < r.target
         /\ \A r, s \in Rows : r.app = s.app => r = s
  BY DEF Shape, Rows, RowType, Behind, Versions

LEMMA IdleType == IdleHandler \in HandlerType
  BY DEF IdleHandler, HandlerType, Places, Results

LEMMA InitInv == Init => IInv
<1> SUFFICES ASSUME Init PROVE IInv
  OBVIOUS
<1>1. 1 \in Versions /\ 2 \in Versions
  BY VersionAssumption DEF Versions
<1>2. Shape
  BY <1>1, IdleType DEF Init, Shape
<1>3. WorkIsWatched
  BY <1>2 DEF Init, Shape, WorkIsWatched
<1>4. \A t \in Handlers : Sound(t)
  BY DEF Init, Sound, IdleHandler
<1> QED BY <1>2, <1>3, <1>4 DEF IInv

\* A step of the holder leaves the other threads as they are: idle.
LEMMA OthersSound ==
  ASSUME IInv, NEW t \in Handlers, handler[t].at # "idle",
         NEW h, handler' = [handler EXCEPT ![t] = h]
  PROVE  lock = t /\ \A u \in Handlers \ {t} : Sound(u)'
<1>1. lock = t
  BY DEF IInv, Sound
<1>2. ASSUME NEW u \in Handlers \ {t} PROVE Sound(u)'
  <2>1. handler[u].at = "idle" /\ handler'[u] = handler[u]
    BY <1>1 DEF IInv, Sound, Shape
  <2> QED BY <2>1 DEF Sound
<1> QED BY <1>1, <1>2

\* Begin takes a free lock.
LEMMA BeginInv ==
  ASSUME IInv, NEW t \in Handlers, NEW what \in Apps \cup {All}, Begin(t, what)
  PROVE  IInv'
<1>1. Shape'
  BY IdleType DEF IInv, Shape, Begin, runtipi, HandlerType, Places, Results, IdleHandler
<1>2. WorkIsWatched'
  BY DEF IInv, WorkIsWatched, Begin, runtipi, Shape
<1>3. ASSUME NEW u \in Handlers PROVE Sound(u)'
  <2>1. CASE u = t
    BY <2>1 DEF IInv, Shape, Sound, Begin, IdleHandler
  <2>2. CASE u # t
    <3>1. handler[u].at = "idle" /\ handler'[u] = handler[u]
      BY <2>2, AppsAssumption DEF IInv, Sound, Shape, Begin
    <3> QED BY <3>1 DEF Sound
  <2> QED BY <2>1, <2>2
<1> QED BY <1>1, <1>2, <1>3 DEF IInv

LEMMA CheckInv ==
  ASSUME IInv, NEW t \in Handlers, Check(t)
  PROVE  IInv'
<1>1. PICK h \in HandlerType :
        /\ h = [handler[t] EXCEPT !.at = "rows", !.todo = Wanted(t, Rows)]
        /\ handler' = [handler EXCEPT ![t] = h]
  <2> DEFINE k == [handler[t] EXCEPT !.at = "rows", !.todo = Wanted(t, Rows)]
  <2>1. handler' = [handler EXCEPT ![t] = k] /\ k \in HandlerType
    BY RowsType DEF Check, Wanted, IInv, Shape, HandlerType, Places
  <2> QED BY <2>1
<1>2. lock = t /\ (\A u \in Handlers \ {t} : Sound(u)') /\ handler[t].at = "check"
  BY <1>1, OthersSound DEF Check
<1>3. Shape'
  BY <1>1, RowsType DEF IInv, Shape, Check, runtipi
<1>4. WorkIsWatched'
  BY <1>1, <1>2 DEF IInv, Shape, WorkIsWatched, Check, runtipi
<1>5. /\ handler'[t] = h /\ h.at = "rows" /\ h.todo \subseteq Rows
      /\ lock' = t /\ version' = version /\ latest' = latest
  BY <1>1, <1>2 DEF IInv, Shape, Check, Wanted, runtipi, HandlerType
<1>6. RowsSound(h)'
  <2>1. \A r \in h.todo : r.app \in Apps /\ r.target <= latest[r.app] /\ version[r.app] < r.target
    BY <1>5, RowsType DEF IInv, Shape, Versions
  <2>2. \A r, s \in h.todo : r.app = s.app => r = s
    BY <1>5, RowsType DEF IInv
  <2> QED BY <1>5, <2>1, <2>2 DEF RowsSound
<1>7. Sound(t)'
  BY <1>5, <1>6 DEF Sound
<1> QED BY <1>2, <1>3, <1>4, <1>7 DEF IInv

LEMMA CheckFailsInv ==
  ASSUME IInv, NEW t \in Handlers, CheckFails(t)
  PROVE  IInv'
<1>1. lock = t /\ (\A u \in Handlers \ {t} : Sound(u)') /\ handler[t].at = "check"
  BY OthersSound DEF CheckFails
<1>2. Shape'
  BY IdleType DEF IInv, Shape, CheckFails, runtipi
<1>3. WorkIsWatched'
  BY <1>1 DEF IInv, Shape, WorkIsWatched, CheckFails, runtipi
<1>4. Sound(t)'
  BY DEF IInv, Shape, CheckFails, Sound, IdleHandler
<1> QED BY <1>1, <1>2, <1>3, <1>4 DEF IInv

\* Settling a row: the others stay sound, and no job of Runtipi stays unwatched
\* if the row's own job is over or given up.
LEMMA SettleInv ==
  ASSUME IInv, NEW t \in Handlers, handler[t].at \in {"rows", "wait", "probe"},
         NEW r \in handler[t].todo, NEW status \in Results, Settle(t, r, status),
         handler[t].at \in {"wait", "probe"} => r = handler[t].row,
         version' = version, latest' = latest, box' = box, withdrawn' = withdrawn,
         lock' = lock, cache' = cache, work' \in [Apps -> Nat],
         given \subseteq given', given' \subseteq Apps,
         \A a \in Apps : work'[a] > 0 =>
            \/ a \in given' \cup withdrawn
            \/ work'[a] = work[a] /\ handler[t].at = "rows"
  PROVE  IInv'
<1>0. handler[t] \in HandlerType /\ handler[t].todo \subseteq RowType
  BY DEF IInv, Shape, HandlerType
<1>1. PICK h \in HandlerType :
        /\ h = [handler[t] EXCEPT !.at = "rows", !.todo = @ \ {r}, !.row = None, !.done[r.app] = status]
        /\ handler' = [handler EXCEPT ![t] = h]
  <2>1. r.app \in Apps
    BY <1>0 DEF RowType
  <2> DEFINE k == [handler[t] EXCEPT !.at = "rows", !.todo = @ \ {r}, !.row = None, !.done[r.app] = status]
  <2>2. k \in HandlerType
    BY <1>0, <2>1 DEF HandlerType, Places
  <2>3. handler' = [handler EXCEPT ![t] = k]
    BY <1>0 DEF Settle, HandlerType, IInv, Shape
  <2> QED BY <2>2, <2>3
<1>2. lock = t /\ \A u \in Handlers \ {t} : Sound(u)'
  BY <1>1, OthersSound
<1>3. Shape'
  BY <1>1 DEF IInv, Shape
<1>4. /\ handler'[t] = h /\ h.at = "rows" /\ h.todo = handler[t].todo \ {r}
  BY <1>0, <1>1 DEF IInv, Shape, HandlerType
<1>5. WorkIsWatched'
  BY <1>2 DEF IInv, WorkIsWatched
<1>6. RowsSound(h)'
  <2>1. RowsSound(handler[t])
    BY DEF IInv, Sound
  <2>2. \A s \in h.todo : \/ s.app \in given' \cup withdrawn'
                         \/ version'[s.app] < s.target
    <3> SUFFICES ASSUME NEW s \in h.todo PROVE s.app \in given' \cup withdrawn' \/ version'[s.app] < s.target
      OBVIOUS
    <3>1. s \in handler[t].todo /\ s # r
      BY <1>4
    <3> QED BY <2>1, <3>1 DEF RowsSound
  <2> QED BY <1>4, <2>1, <2>2 DEF RowsSound
<1>7. Sound(t)'
  BY <1>2, <1>4, <1>6 DEF Sound
<1> QED BY <1>2, <1>3, <1>5, <1>7 DEF IInv

LEMMA SkipInv ==
  ASSUME IInv, NEW t \in Handlers, Skip(t)
  PROVE  IInv'
<1>1. PICK r \in handler[t].todo : Settle(t, r, "skipped")
  BY DEF Skip
<1>2. handler[t].at = "rows" /\ "skipped" \in Results
  BY DEF Skip, Results
<1>3. version' = version /\ latest' = latest /\ box' = box /\ withdrawn' = withdrawn
      /\ lock' = lock /\ cache' = cache /\ work' = work /\ given' = given
  BY DEF Skip, runtipi
<1> QED BY <1>1, <1>2, <1>3, SettleInv DEF IInv, Shape

LEMMA RequestFailsInv ==
  ASSUME IInv, NEW t \in Handlers, RequestFails(t)
  PROVE  IInv'
<1>1. PICK r \in handler[t].todo :
        /\ Settle(t, r, "failed")
        /\ \/ work' = [work EXCEPT ![r.app] = @ + 1] /\ given' = given \cup {r.app}
           \/ UNCHANGED <<work, given>>
  BY DEF RequestFails
<1>2. handler[t].at = "rows" /\ "failed" \in Results
  BY DEF RequestFails, Results
<1>3. version' = version /\ latest' = latest /\ box' = box /\ withdrawn' = withdrawn
      /\ lock' = lock /\ cache' = cache
  BY DEF RequestFails
<1>4. work \in [Apps -> Nat] /\ given \subseteq Apps /\ r.app \in Apps
  BY DEF IInv, Shape, HandlerType, RowType
<1>5. /\ work' \in [Apps -> Nat] /\ given \subseteq given' /\ given' \subseteq Apps
      /\ \A a \in Apps : work'[a] = work[a] \/ a \in given'
  BY <1>1, <1>4
<1> QED BY <1>1, <1>2, <1>3, <1>5, SettleInv

LEMMA GiveUpInv ==
  ASSUME IInv, NEW t \in Handlers, GiveUp(t)
  PROVE  IInv'
<1> DEFINE r == handler[t].row
<1>1. /\ handler[t].at = "wait" /\ Settle(t, r, "failed") /\ "failed" \in Results
      /\ version' = version /\ latest' = latest /\ box' = box /\ withdrawn' = withdrawn
      /\ lock' = lock /\ cache' = cache /\ work' = work
      /\ given' = IF work[r.app] > 0 THEN given \cup {r.app} ELSE given
  BY DEF GiveUp, runtipi, Results
<1>2. r \in handler[t].todo /\ lock = t
  BY <1>1 DEF IInv, Sound
<1>3. work \in [Apps -> Nat] /\ given \subseteq Apps /\ r.app \in Apps
  BY <1>2 DEF IInv, Shape, HandlerType, RowType
<1>4. \A a \in Apps : work'[a] > 0 => a \in given' \cup withdrawn
  BY <1>1, <1>2, <1>3 DEF IInv, WorkIsWatched
<1>5. given \subseteq given' /\ given' \subseteq Apps
  BY <1>1, <1>3
<1> HIDE DEF r
<1> QED BY <1>1, <1>2, <1>3, <1>4, <1>5, SettleInv DEF r

\* A converged row has no job under way that nobody gave up or withdrew: such a
\* job would still owe the version the poll has seen.
LEMMA PollProbeInv ==
  ASSUME IInv, NEW t \in Handlers, PollProbe(t)
  PROVE  IInv'
<1> DEFINE h == handler[t]
<1>1. /\ h.at = "probe" /\ UNCHANGED <<version, latest, box, work, withdrawn, lock, cache, given>>
  BY DEF PollProbe, runtipi, counters
<1>2. lock = t /\ h.row \in h.todo /\ RowsSound(h) /\ PollSound(h) /\ h \in HandlerType
  BY <1>1 DEF IInv, Sound, Shape
<1>3. h.row.app \in Apps /\ h.row.target \in Nat /\ h.seen \in Nat /\ version[h.row.app] \in Nat
      /\ work \in [Apps -> Nat] /\ given \subseteq Apps
  BY <1>2 DEF HandlerType, RowType, Versions, IInv, Shape
<1>4. CASE Converged(h) /\ Settle(t, h.row, "updated")
  <2>1. h.row.app \in withdrawn \/ version[h.row.app] >= h.row.target
    BY <1>2, <1>3, <1>4 DEF Converged, PollSound
  <2>2. \A a \in Apps : work[a] > 0 => a \in given \cup withdrawn
    <3> SUFFICES ASSUME NEW a \in Apps, work[a] > 0, a \notin given \cup withdrawn
                 PROVE  FALSE
      OBVIOUS
    <3>1. h.row.app = a
      BY <1>2 DEF IInv, WorkIsWatched
    <3>2. version[a] < h.row.target
      BY <1>2, <1>3, <3>1 DEF RowsSound
    <3> QED BY <1>3, <2>1, <3>1, <3>2
  <2>3. "updated" \in Results
    BY DEF Results
  <2> HIDE DEF h
  <2>4. h.row \in handler[t].todo /\ handler[t].at = "probe" /\ h.row = handler[t].row
    BY <1>1, <1>2 DEF h
  <2> QED BY <1>1, <1>3, <1>4, <2>2, <2>3, <2>4, SettleInv
<1>5. CASE handler' = [handler EXCEPT ![t].at = "wait"]
  <2>1. PICK k \in HandlerType : k = [h EXCEPT !.at = "wait"] /\ handler' = [handler EXCEPT ![t] = k]
    BY <1>2, <1>5 DEF HandlerType, Places
  <2>2. \A u \in Handlers \ {t} : Sound(u)'
    BY <1>1, <2>1, OthersSound
  <2>3. Shape'
    BY <1>1, <2>1 DEF IInv, Shape
  <2>4. /\ handler'[t] = k /\ k.at = "wait" /\ k.todo = h.todo /\ k.row = h.row
    BY <1>2, <2>1 DEF IInv, Shape, HandlerType
  <2>5. WorkIsWatched'
    BY <1>1, <1>2, <2>4 DEF IInv, WorkIsWatched
  <2>6. Sound(t)'
    <3>1. RowsSound(k)'
      BY <1>1, <1>2, <2>4 DEF RowsSound
    <3> QED BY <1>1, <1>2, <2>4, <3>1 DEF Sound
  <2> QED BY <2>2, <2>3, <2>5, <2>6 DEF IInv
<1> QED BY <1>4, <1>5 DEF PollProbe

\* Only a request adds a job, and its row is the one then watched.
LEMMA RequestInv ==
  ASSUME IInv, NEW t \in Handlers, Request(t)
  PROVE  IInv'
<1>1. PICK r \in handler[t].todo :
        /\ work' = [work EXCEPT ![r.app] = @ + 1]
        /\ handler' = [handler EXCEPT ![t].at = "wait", ![t].row = r]
  BY DEF Request
<1>2. /\ handler[t].at = "rows"
      /\ UNCHANGED <<version, latest, box, withdrawn, lock, cache, given>>
  BY DEF Request
<1>3. handler[t] \in HandlerType /\ r \in RowType /\ r.app \in Apps
  BY DEF IInv, Shape, HandlerType, RowType
<1>4. PICK h \in HandlerType :
        h = [handler[t] EXCEPT !.at = "wait", !.row = r] /\ handler' = [handler EXCEPT ![t] = h]
  <2> DEFINE k == [handler[t] EXCEPT !.at = "wait", !.row = r]
  <2>1. handler' = [handler EXCEPT ![t] = k] /\ k \in HandlerType
    BY <1>1, <1>3 DEF HandlerType, Places, IInv, Shape
  <2> QED BY <2>1
<1>5. lock = t /\ \A u \in Handlers \ {t} : Sound(u)'
  BY <1>2, <1>4, OthersSound
<1>6. Shape'
  BY <1>1, <1>2, <1>3, <1>4 DEF IInv, Shape
<1>7. handler'[t] = h /\ h.at = "wait" /\ h.row = r /\ h.todo = handler[t].todo
  BY <1>3, <1>4 DEF IInv, Shape, HandlerType
<1>8. \A a \in Apps : work[a] > 0 => a \in given \cup withdrawn
  BY <1>2, <1>5 DEF IInv, WorkIsWatched
<1>9. WorkIsWatched'
  <2> SUFFICES ASSUME NEW a \in Apps, work'[a] > 0, a \notin given \cup withdrawn
               PROVE  work'[a] = 1 /\ a = r.app
    BY <1>2, <1>5, <1>7, AppsAssumption DEF WorkIsWatched
  <2> QED BY <1>1, <1>3, <1>8 DEF IInv, Shape
<1>10. RowsSound(h)'
  <2>1. RowsSound(handler[t])
    BY <1>2 DEF IInv, Sound
  <2>2. \A s \in handler[t].todo : s.app \in given \cup withdrawn \/ version[s.app] < s.target
    BY <1>2, <2>1 DEF RowsSound
  <2> QED BY <1>2, <1>7, <2>1, <2>2 DEF RowsSound
<1>11. Sound(t)'
  BY <1>2, <1>5, <1>7, <1>10 DEF Sound
<1> QED BY <1>5, <1>6, <1>9, <1>11 DEF IInv

LEMMA PollVersionInv ==
  ASSUME IInv, NEW t \in Handlers, PollVersion(t)
  PROVE  IInv'
<1> DEFINE g == handler[t]
           a == g.row.app
<1>1. /\ g.at = "wait"
      /\ handler' = [handler EXCEPT ![t].at = "probe", ![t].seen = version[a], ![t].behind = Behind(a)]
      /\ UNCHANGED <<version, latest, box, work, withdrawn, lock, cache, given>>
  BY DEF PollVersion, runtipi, counters
<1>2. g.row \in g.todo /\ RowsSound(g) /\ g \in HandlerType
  BY <1>1 DEF IInv, Sound, Shape
<1>3. a \in Apps /\ version[a] \in Nat /\ latest[a] \in Nat /\ Behind(a) \in BOOLEAN /\ g.row.target \in Nat
  BY <1>2 DEF HandlerType, RowType, Versions, IInv, Shape, Behind
<1>4. PICK h \in HandlerType :
        /\ h = [g EXCEPT !.at = "probe", !.seen = version[a], !.behind = Behind(a)]
        /\ handler' = [handler EXCEPT ![t] = h]
  <2> DEFINE k == [g EXCEPT !.at = "probe", !.seen = version[a], !.behind = Behind(a)]
  <2>1. k \in HandlerType
    BY <1>2, <1>3 DEF HandlerType, Places
  <2>2. handler' = [handler EXCEPT ![t] = k]
    BY <1>1, <1>2 DEF HandlerType, IInv, Shape
  <2> QED BY <2>1, <2>2
<1>5. lock = t /\ \A u \in Handlers \ {t} : Sound(u)'
  BY <1>1, <1>4, OthersSound
<1>6. Shape'
  BY <1>1, <1>4 DEF IInv, Shape
<1>7. /\ handler'[t] = h /\ h.at = "probe" /\ h.row = g.row /\ h.todo = g.todo
      /\ h.seen = version[a] /\ h.behind = Behind(a)
  BY <1>2, <1>4 DEF IInv, Shape, HandlerType
<1>8. WorkIsWatched'
  BY <1>1, <1>5, <1>7 DEF IInv, WorkIsWatched
<1>9. RowsSound(h)'
  BY <1>1, <1>2, <1>7 DEF RowsSound
<1>10. PollSound(h)'
  <2>1. g.row.app \in withdrawn \/ g.row.target <= latest[a]
    BY <1>2 DEF RowsSound
  <2>2. Behind(a) \/ latest[a] <= version[a]
    BY <1>3 DEF Behind
  <2>3. version'[a] = version[a] /\ h.row.app = a /\ h.row.target = g.row.target /\ withdrawn' = withdrawn
    BY <1>1, <1>7
  <2> HIDE DEF a, g
  <2>4. h.behind \/ h.row.app \in withdrawn' \/ version'[h.row.app] >= h.row.target
    BY <1>3, <1>7, <2>1, <2>2, <2>3 DEF a, g
  <2>5. h.seen <= version'[h.row.app]
    BY <1>3, <1>7, <2>3
  <2> QED BY <2>4, <2>5 DEF PollSound
<1>11. Sound(t)'
  BY <1>1, <1>2, <1>5, <1>7, <1>9, <1>10 DEF Sound
<1> QED BY <1>5, <1>6, <1>8, <1>11 DEF IInv

LEMMA FinishInv ==
  ASSUME IInv, NEW t \in Handlers, Finish(t)
  PROVE  IInv'
<1>1. lock = t /\ (\A u \in Handlers \ {t} : Sound(u)') /\ handler[t].at = "rows"
  BY OthersSound DEF Finish
<1>2. Shape'
  BY IdleType DEF IInv, Shape, Finish, runtipi
<1>3. WorkIsWatched'
  BY <1>1 DEF IInv, Shape, WorkIsWatched, Finish, runtipi
<1>4. Sound(t)'
  BY DEF IInv, Shape, Finish, Sound, IdleHandler
<1> QED BY <1>1, <1>2, <1>3, <1>4 DEF IInv

-----------------------------------------------------------------------------
(* Steps that no handler takes.                                            *)

LEMMA CacheInv ==
  ASSUME IInv, List \/ Expire
  PROVE  IInv'
<1>1. UNCHANGED <<version, latest, box, work, withdrawn, lock, handler, given>>
  BY DEF List, Expire, runtipi, counters
<1>2. cache' = Rows \/ cache' = None
  BY DEF List, Expire
<1>3. Shape'
  BY <1>1, <1>2, RowsType DEF IInv, Shape
<1>4. WorkIsWatched' /\ \A t \in Handlers : Sound(t)'
  BY <1>1 DEF IInv, WorkIsWatched, Sound, RowsSound, PollSound
<1> QED BY <1>3, <1>4 DEF IInv

LEMMA WorkStopsInv ==
  ASSUME IInv, NEW a \in Apps, WorkStops(a)
  PROVE  IInv'
<1>1. /\ UNCHANGED <<version, latest, work, withdrawn, lock, handler, cache, given>>
      /\ box' = [box EXCEPT ![a] = "stopped"]
  BY DEF WorkStops, counters
<1>2. Shape'
  BY <1>1 DEF IInv, Shape
<1>3. WorkIsWatched' /\ \A t \in Handlers : Sound(t)'
  BY <1>1 DEF IInv, WorkIsWatched, Sound, RowsSound, PollSound
<1> QED BY <1>2, <1>3 DEF IInv

\* The job that ends is the one the holder watches, or one that was given up or
\* withdrawn: no other row of the holder is for its app.
LEMMA WorkEndsInv ==
  ASSUME IInv, NEW a \in Apps, WorkEnds(a)
  PROVE  IInv'
<1>1. PICK v \in {version[a], latest[a]}, b \in {"running", "stopped"} :
        /\ version' = [version EXCEPT ![a] = IF v > @ THEN v ELSE @]
        /\ box' = [box EXCEPT ![a] = b]
  BY DEF WorkEnds
<1>2. /\ work[a] > 0 /\ work' = [work EXCEPT ![a] = @ - 1]
      /\ UNCHANGED <<latest, withdrawn, lock, handler, cache, given>>
  BY DEF WorkEnds, counters
<1>3. /\ version \in [Apps -> Versions] /\ latest \in [Apps -> Versions]
      /\ box \in [Apps -> {"running", "stopped", "missing"}] /\ work \in [Apps -> Nat]
      /\ handler \in [Handlers -> HandlerType]
  BY DEF IInv, Shape
<1>4. version' \in [Apps -> Versions] /\ \A x \in Apps : version'[x] >= version[x] /\ (x # a => version'[x] = version[x])
  BY <1>1, <1>3 DEF Versions
<1>5. Shape'
  BY <1>1, <1>2, <1>3, <1>4 DEF IInv, Shape
<1>6. work' \in [Apps -> Nat] /\ \A x \in Apps : work'[x] <= work[x] /\ (x # a => work'[x] = work[x]) /\ (x = a => work'[x] = work[x] - 1)
  BY <1>2, <1>3
<1>7. WorkIsWatched'
  <2> SUFFICES ASSUME NEW x \in Apps, work'[x] > 0, x \notin given \cup withdrawn
               PROVE  /\ work'[x] = 1 /\ lock # None
                      /\ handler[lock].at \in {"wait", "probe"} /\ handler[lock].row.app = x
    BY <1>2 DEF WorkIsWatched
  <2>1. work[x] > 0 /\ work[x] \in Nat /\ work'[x] \in Nat
    BY <1>3, <1>6
  <2>2. /\ work[x] = 1 /\ lock # None
        /\ handler[lock].at \in {"wait", "probe"} /\ handler[lock].row.app = x
    BY <2>1 DEF IInv, WorkIsWatched
  <2> QED BY <1>6, <2>1, <2>2
<1>8. ASSUME NEW t \in Handlers PROVE Sound(t)'
  <2> DEFINE h == handler[t]
  <2>1. Sound(t) /\ h \in HandlerType /\ handler'[t] = h /\ lock' = lock
    BY <1>2, <1>3 DEF IInv
  <2>2. \A r \in h.todo : r.app \in Apps /\ r.target \in Nat /\ version[r.app] \in Nat /\ version'[r.app] \in Nat
    BY <1>3, <1>4, <2>1 DEF HandlerType, RowType, Versions
  <2>3. ASSUME h.at \in {"rows", "wait", "probe"}, NEW r \in h.todo
        PROVE  \/ r.app \in given \cup withdrawn
               \/ version'[r.app] < r.target
               \/ h.at \in {"wait", "probe"} /\ h.row = r /\ work'[r.app] = 0
    <3>1. RowsSound(h)
      BY <2>1, <2>3 DEF Sound
    <3>2. CASE r.app # a
      BY <1>4, <1>6, <2>2, <3>1, <3>2 DEF RowsSound
    <3>3. CASE r.app = a /\ a \notin given \cup withdrawn
      <4>1. work[a] = 1 /\ lock # None /\ handler[lock].at \in {"wait", "probe"} /\ handler[lock].row.app = a
        BY <1>2, <3>3 DEF IInv, WorkIsWatched
      <4>2. lock = t
        BY <2>1, <2>3 DEF Sound
      <4>3. h.row \in h.todo
        BY <2>1, <4>1, <4>2 DEF Sound
      <4>4. h.row = r
        BY <3>1, <3>3, <4>1, <4>2, <4>3 DEF RowsSound
      <4> QED BY <1>6, <3>3, <4>1, <4>2, <4>4
    <3> QED BY <3>2, <3>3
  <2>4. h.at \in {"rows", "wait", "probe"} => RowsSound(h)
    BY <2>1 DEF Sound
  <2>5. h.at = "probe" => h.row \in h.todo /\ PollSound(h) /\ h.seen \in Nat
    BY <2>1 DEF Sound, HandlerType
  <2>6. h.at = "probe" => /\ h.seen <= version'[h.row.app]
                          /\ h.behind \/ h.row.app \in withdrawn \/ version'[h.row.app] >= h.row.target
    BY <1>4, <2>2, <2>5 DEF PollSound
  <2>7. /\ h.at # "idle" => lock = t
        /\ h.at \in {"wait", "probe"} => h.row \in h.todo
    BY <2>1 DEF Sound
  <2> QED BY <1>2, <2>1, <2>3, <2>4, <2>6, <2>7 DEF Sound, RowsSound, PollSound
<1> QED BY <1>5, <1>7, <1>8 DEF IInv

LEMMA StoreChangesInv ==
  ASSUME IInv, NEW a \in Apps, StoreChanges(a)
  PROVE  IInv'
<1>1. PICK v \in Versions \ {latest[a]} :
        /\ latest' = [latest EXCEPT ![a] = v]
        /\ withdrawn' = IF v < latest[a] THEN withdrawn \cup {a} ELSE withdrawn
  BY DEF StoreChanges
<1>2. UNCHANGED <<version, box, work, lock, handler, cache, given>>
  BY DEF StoreChanges
<1>3. Shape'
  BY <1>1, <1>2 DEF IInv, Shape
<1>4. withdrawn \subseteq withdrawn' /\ \A x \in Apps : x \in withdrawn' \/ latest'[x] >= latest[x]
  BY <1>1 DEF IInv, Shape, Versions
<1>5. WorkIsWatched'
  BY <1>2, <1>4 DEF IInv, WorkIsWatched
<1>6. ASSUME NEW t \in Handlers PROVE Sound(t)'
  <2> DEFINE h == handler[t]
  <2>1. Sound(t) /\ h \in HandlerType
    BY DEF IInv, Shape
  <2>2. \A r \in h.todo : r.app \in Apps /\ r.target \in Nat /\ latest[r.app] \in Nat /\ latest'[r.app] \in Nat
    BY <1>3, <2>1 DEF HandlerType, RowType, Versions, IInv, Shape
  <2>3. ASSUME RowsSound(h) PROVE \A r \in h.todo : r.app \in withdrawn' \/ r.target <= latest'[r.app]
    BY <1>4, <2>2, <2>3 DEF RowsSound
  <2> QED BY <1>2, <1>4, <2>1, <2>3 DEF Sound, RowsSound, PollSound
<1> QED BY <1>3, <1>5, <1>6 DEF IInv

LEMMA AgentRestartInv ==
  ASSUME IInv, AgentRestart
  PROVE  IInv'
<1>1. Shape'
  BY IdleType DEF IInv, Shape, AgentRestart, runtipi
<1>2. WorkIsWatched'
  BY DEF IInv, WorkIsWatched, AgentRestart, runtipi
<1>3. \A t \in Handlers : Sound(t)'
  BY DEF AgentRestart, Sound, IdleHandler
<1> QED BY <1>1, <1>2, <1>3 DEF IInv

LEMMA NextInv ==
  ASSUME IInv, [Next]_vars
  PROVE  IInv'
<1>1. CASE \E t \in Handlers : HandlerStep(t)
  BY <1>1, CheckInv, CheckFailsInv, SkipInv, RequestInv, RequestFailsInv, PollVersionInv,
     PollProbeInv, GiveUpInv, FinishInv DEF HandlerStep
<1>2. CASE \E t \in Handlers : \E what \in Apps \cup {All} : Begin(t, what)
  BY <1>2, BeginInv
<1>3. CASE List \/ Expire
  BY <1>3, CacheInv
<1>4. CASE \E a \in Apps : WorkStops(a) \/ WorkEnds(a) \/ StoreChanges(a)
  BY <1>4, WorkStopsInv, WorkEndsInv, StoreChangesInv
<1>5. CASE AgentRestart
  BY <1>5, AgentRestartInv
<1>6. CASE UNCHANGED vars
  BY <1>6 DEF vars, IInv, Shape, WorkIsWatched, Sound, RowsSound, PollSound
<1> QED BY <1>1, <1>2, <1>3, <1>4, <1>5, <1>6 DEF Next

LEMMA Invariant == Spec => []IInv
<1> QED BY InitInv, NextInv, PTL DEF Spec

\* The state of update_app, update_all and the list of updates stays well formed.
THEOREM RuntipiTypes == Spec => []TypeOK
<1>1. IInv => TypeOK
  BY DEF IInv, Shape, TypeOK, HandlerType, Places, Results, Sound
<1> QED BY <1>1, Invariant, PTL

\* Whatever Runtipi does to an app is the work of the one operation that holds
\* _runtipi_update_lock, unless a timeout, a lost answer, the agent's death or
\* the store made the agent lose sight of it.
THEOREM RuntipiWorkWatched == Spec => []WorkIsWatched
<1> QED BY Invariant, PTL DEF IInv

\* _wait_for_updated_app reports no update that did not happen, although the
\* version is read before the container is, and Runtipi works on in between.
THEOREM RuntipiUpdatedIsTrue == Spec => UpdatedIsTrue
<1> DEFINE Honest ==
      \A t \in Handlers : \A a \in Apps :
        (handler'[t].done[a] = "updated" /\ handler[t].done[a] # "updated")
          => version[a] >= handler[t].row.target \/ a \in withdrawn
<1>1. ASSUME IInv, [Next]_vars PROVE Honest
  <2> SUFFICES ASSUME NEW t \in Handlers, NEW a \in Apps,
                      handler'[t].done[a] = "updated", handler[t].done[a] # "updated"
               PROVE  version[a] >= handler[t].row.target \/ a \in withdrawn
    OBVIOUS
  <2>1. handler \in [Handlers -> HandlerType]
    BY <1>1 DEF IInv, Shape
  <2>2. handler'[t].done # handler[t].done /\ handler'[t].done[a] # handler[t].done[a]
    OBVIOUS
  <2>3. handler'[t] # IdleHandler
    BY DEF IdleHandler
  <2>4. ASSUME NEW u \in Handlers, NEW r \in handler[u].todo, NEW status \in {"skipped", "failed"},
               Settle(u, r, status)
        PROVE  FALSE
    <3>1. CASE u = t
      <4>1. handler[t] \in HandlerType /\ r.app \in Apps
        BY <2>1, <2>4, <3>1 DEF HandlerType, RowType
      <4>2. handler'[t].done = [handler[t].done EXCEPT ![r.app] = status]
        BY <2>1, <2>4, <3>1, <4>1 DEF Settle, HandlerType
      <4> QED BY <2>2, <4>1, <4>2 DEF HandlerType
    <3>2. CASE u # t
      BY <2>1, <2>2, <2>4, <3>2 DEF Settle
    <3> QED BY <3>1, <3>2
  <2>5. CASE \E u \in Handlers : Skip(u) \/ RequestFails(u)
    BY <2>4, <2>5 DEF Skip, RequestFails
  <2>6. CASE \E u \in Handlers : GiveUp(u)
    <3>1. PICK u \in Handlers : GiveUp(u)
      BY <2>6
    <3>2. handler[u].row \in handler[u].todo
      BY <1>1, <3>1 DEF GiveUp, IInv, Sound
    <3> QED BY <2>4, <3>1, <3>2 DEF GiveUp
  <2>7. CASE \E u \in Handlers : \/ CheckFails(u) \/ Finish(u)
                                \/ \E what \in Apps \cup {All} : Begin(u, what)
    <3>1. PICK u \in Handlers, h \in HandlerType : handler' = [handler EXCEPT ![u] = h] /\ h.done[a] = "none"
      <4>1. IdleHandler.done[a] = "none"
        BY DEF IdleHandler
      <4>2. \A what \in Apps \cup {All} :
              /\ [IdleHandler EXCEPT !.at = "check", !.what = what] \in HandlerType
              /\ [IdleHandler EXCEPT !.at = "check", !.what = what].done[a] = "none"
        BY IdleType DEF IdleHandler, HandlerType, Places
      <4> QED BY <2>7, <4>1, <4>2, IdleType DEF CheckFails, Finish, Begin
    <3> QED BY <2>1, <2>2, <3>1
  <2>8. CASE \E u \in Handlers : Check(u) \/ Request(u) \/ PollVersion(u)
    BY <2>1, <2>2, <2>8 DEF Check, Request, PollVersion, HandlerType
  <2>9. CASE AgentRestart
    BY <2>3, <2>9 DEF AgentRestart
  <2>10. CASE \/ List \/ Expire \/ UNCHANGED vars
              \/ \E b \in Apps : WorkStops(b) \/ WorkEnds(b) \/ StoreChanges(b)
    BY <2>2, <2>10 DEF List, Expire, WorkStops, WorkEnds, StoreChanges, vars
  <2>11. CASE \E u \in Handlers : PollProbe(u)
    <3>1. PICK u \in Handlers : PollProbe(u)
      BY <2>11
    <3> DEFINE h == handler[u]
    <3>2. h.at = "probe" /\ h.row \in h.todo /\ PollSound(h) /\ h \in HandlerType
      BY <1>1, <3>1 DEF PollProbe, IInv, Sound, Shape
    <3>3. h.row.app \in Apps /\ h.row.target \in Nat /\ h.seen \in Nat /\ version[h.row.app] \in Nat
      BY <1>1, <3>2 DEF HandlerType, RowType, Versions, IInv, Shape
    <3>4. CASE handler' = [handler EXCEPT ![u].at = "wait"]
      BY <2>1, <2>2, <3>4 DEF HandlerType
    <3>5. CASE Converged(h) /\ Settle(u, h.row, "updated")
      <4>1. t = u
        BY <2>1, <2>2, <3>5 DEF Settle
      <4>2. handler'[t].done = [h.done EXCEPT ![h.row.app] = "updated"]
        BY <2>1, <3>2, <3>5, <4>1 DEF Settle, HandlerType
      <4>3. a = h.row.app
        BY <2>2, <3>2, <3>3, <4>1, <4>2 DEF HandlerType
      <4> QED BY <3>2, <3>3, <3>5, <4>1, <4>3 DEF PollSound, Converged
    <3> QED BY <3>1, <3>4, <3>5 DEF PollProbe
  <2> QED BY <1>1, <2>5, <2>6, <2>7, <2>8, <2>9, <2>10, <2>11 DEF Next, HandlerStep
<1> QED BY <1>1, Invariant, PTL DEF Spec, UpdatedIsTrue

===============================================================================
