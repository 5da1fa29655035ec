------------------------------- MODULE Panels -------------------------------
(***************************************************************************)
(* What the bot draws on its messages: page clicks (Controller.show),      *)
(* clicks that open a detail or the live task list (dispatch), and the     *)
(* loops that redraw a live list for a minute (live_tasks).                *)
(*                                                                         *)
(* All of them are tasks of one event loop: what lies between two awaits   *)
(* is one step.  Edits of a message are assumed to land in the order in    *)
(* which they are sent.                                                    *)
(***************************************************************************)
EXTENDS Naturals, Sequences, SequencesExt

CONSTANTS
  Messages,
  None,
  MaxRevisions,            \* 2048 in show
  MaxClicks, MaxRounds     \* bounds; a minute is MaxRounds rounds of a loop

ASSUME PanelAssumption == {MaxRevisions, MaxClicks, MaxRounds} \subseteq Nat
ASSUME NoneAssumption == None \notin Messages /\ None \notin 1..MaxClicks

Clicks == 1..MaxClicks
Kinds == {"page", "detail", "live"}

VARIABLES
  used,      \* clicks made so far; they are numbered as they are made
  click,     \* click[i]: its message, kind, revision, and where its task is
  revision,  \* Controller.revisions, 0 for an absent key
  keys,      \* the keys of that dictionary, oldest first
  live,      \* Controller.live: the loop registered for a message, or None
  loop,      \* loop[i]: the loop click i has spawned, and its rounds
  shown,     \* shown[m]: who drew m last, and whether it still loads
  trimmed,   \* history: messages whose revision was forgotten
  strays     \* history: strays[i] drawings of loop i while not registered

vars == <<used, click, revision, keys, live, loop, shown, trimmed, strays>>
dictionary == <<revision, keys, trimmed>>

NoClick == [at |-> "none", msg |-> None, kind |-> "page", rev |-> 0]
NoLoop == [at |-> "none", rounds |-> 0]

Init ==
  /\ used = 0 /\ click = [i \in Clicks |-> NoClick]
  /\ revision = [m \in Messages |-> 0] /\ keys = <<>>
  /\ live = [m \in Messages |-> None]
  /\ loop = [i \in Clicks |-> NoLoop]
  /\ shown = [m \in Messages |-> [by |-> None, loads |-> FALSE]]
  /\ trimmed = {} /\ strays = [i \in Clicks |-> 0]

TypeOK ==
  /\ used \in 0..MaxClicks
  /\ click \in [Clicks -> [at : {"none", "defer", "wait", "register", "done"},
                           msg : Messages \cup {None}, kind : Kinds, rev : Nat]]
  /\ revision \in [Messages -> Nat]
  /\ IsInjective(keys) /\ ToSet(keys) = {m \in Messages : revision[m] > 0}
  /\ Len(keys) <= MaxRevisions + 1
  /\ live \in [Messages -> Clicks \cup {None}]
  /\ loop \in [Clicks -> [at : {"none", "sleep", "sample", "over"}, rounds : 0..MaxRounds]]
  /\ shown \in [Messages -> [by : Clicks \cup {None}, loads : BOOLEAN]]

Draw(m, i, loads) == shown' = [shown EXCEPT ![m] = [by |-> i, loads |-> loads]]

\* stop_live: the registered loop is cancelled where it waits.
StopLive(m) ==
  /\ live' = [live EXCEPT ![m] = None]
  /\ loop' = IF live[m] = None THEN loop ELSE [loop EXCEPT ![live[m]].at = "over"]

-----------------------------------------------------------------------------
(* show: a page.                                                           *)

\* The oldest entry of a full dictionary is dropped before a new one is made.
Forgotten == IF Len(keys) > MaxRevisions THEN {Head(keys)} ELSE {}

\* The loop is stopped and the revision counted before anything is awaited.
ClickPage(m) ==
  LET i == used + 1
      kept == [n \in Messages |-> IF n \in Forgotten THEN 0 ELSE revision[n]]
      order == IF Forgotten = {} THEN keys ELSE Tail(keys) IN
  /\ used < MaxClicks
  /\ used' = i
  /\ StopLive(m)
  /\ revision' = [kept EXCEPT ![m] = @ + 1]
  /\ keys' = IF kept[m] = 0 THEN Append(order, m) ELSE order
  /\ trimmed' = trimmed \cup Forgotten
  /\ click' = [click EXCEPT ![i] = [at |-> "wait", msg |-> m, kind |-> "page", rev |-> kept[m] + 1]]
  /\ UNCHANGED <<shown, strays>>

\* Wrong on purpose: every answer is drawn.
CurrentAlways(i) == TRUE
Current(i) == revision[click[i].msg] = click[i].rev

\* with_loading: the previous panel with a loading footer.
PageLoads(i) ==
  /\ click[i].at = "wait" /\ click[i].kind = "page" /\ Current(i)
  /\ Draw(click[i].msg, i, TRUE)
  /\ UNCHANGED <<used, click, dictionary, live, loop, strays>>

\* The payload, or the error, is drawn unless another page was asked for.
PageShows(i) ==
  /\ click[i].at = "wait" /\ click[i].kind = "page"
  /\ IF Current(i) THEN Draw(click[i].msg, i, FALSE) ELSE UNCHANGED shown
  /\ click' = [click EXCEPT ![i].at = "done"]
  /\ UNCHANGED <<used, dictionary, live, loop, strays>>

-----------------------------------------------------------------------------
(* dispatch: details and the live list.                                    *)

ClickOther(m, kind) ==
  /\ used < MaxClicks
  /\ used' = used + 1
  /\ click' = [click EXCEPT ![used + 1] = [at |-> "defer", msg |-> m, kind |-> kind, rev |-> 0]]
  /\ UNCHANGED <<dictionary, live, loop, shown, strays>>

\* Discord has acknowledged the click; the loop is stopped, the data asked for.
Deferred(i) ==
  /\ click[i].at = "defer"
  /\ StopLive(click[i].msg)
  /\ click' = [click EXCEPT ![i].at = "wait"]
  /\ UNCHANGED <<used, dictionary, shown, strays>>

\* The panel or the error is drawn, whatever was asked for meanwhile.  A live
\* list waits for Discord's answer to the edit before its loop starts.
OtherShows(i) ==
  /\ click[i].at = "wait" /\ click[i].kind # "page"
  /\ Draw(click[i].msg, i, FALSE)
  /\ click' = [click EXCEPT ![i].at = IF click[i].kind = "live" THEN "register" ELSE "done"]
  /\ UNCHANGED <<used, dictionary, live, loop, strays>>

\* The data or the edit failed: the error is drawn and no loop starts.
LiveFails(i) ==
  /\ click[i].at \in {"wait", "register"} /\ click[i].kind = "live"
  /\ Draw(click[i].msg, i, FALSE)
  /\ click' = [click EXCEPT ![i].at = "done"]
  /\ UNCHANGED <<used, dictionary, live, loop, strays>>

\* A loop registered meanwhile is displaced, not stopped.
Register(i) ==
  /\ click[i].at = "register"
  /\ live' = [live EXCEPT ![click[i].msg] = i]
  /\ loop' = [loop EXCEPT ![i].at = "sleep"]
  /\ click' = [click EXCEPT ![i].at = "done"]
  /\ UNCHANGED <<used, dictionary, shown, strays>>

-----------------------------------------------------------------------------
(* live_tasks.                                                             *)

Mine(i) == live[click[i].msg] = i

LoopDraws(i, loads) ==
  /\ Draw(click[i].msg, i, loads)
  /\ strays' = [strays EXCEPT ![i] = IF Mine(i) THEN @ ELSE @ + 1]

LoopEnds(i) ==
  /\ loop' = [loop EXCEPT ![i].at = "over"]
  /\ live' = IF Mine(i) THEN [live EXCEPT ![click[i].msg] = None] ELSE live

\* Wrong on purpose: the minute starts anew with every round.
WakesForever(i) ==
  /\ loop[i].at = "sleep"
  /\ LoopDraws(i, TRUE)
  /\ loop' = [loop EXCEPT ![i].at = "sample"]
  /\ UNCHANGED <<used, click, dictionary, live>>

\* A round: the footer shows that a sample is on its way.
Wakes(i) ==
  /\ loop[i].at = "sleep" /\ loop[i].rounds < MaxRounds
  /\ LoopDraws(i, TRUE)
  /\ loop' = [loop EXCEPT ![i].at = "sample", ![i].rounds = @ + 1]
  /\ UNCHANGED <<used, click, dictionary, live>>

\* Wrong on purpose: a displaced loop goes on.
SampledByAll(i) ==
  /\ loop[i].at = "sample"
  /\ LoopDraws(i, FALSE) /\ loop' = [loop EXCEPT ![i].at = "sleep"] /\ UNCHANGED live
  /\ UNCHANGED <<used, click, dictionary>>

\* The sample arrived; a loop that is not registered any more ends here.
Sampled(i) ==
  /\ loop[i].at = "sample"
  /\ \/ Mine(i) /\ LoopDraws(i, FALSE) /\ loop' = [loop EXCEPT ![i].at = "sleep"] /\ UNCHANGED live
     \/ ~Mine(i) /\ LoopEnds(i) /\ UNCHANGED <<shown, strays>>
  /\ UNCHANGED <<used, click, dictionary>>

\* The minute is over, or a sample or an edit failed: the last list is drawn.
Closes(i) ==
  /\ loop[i].at \in {"sleep", "sample"}
  /\ LoopDraws(i, FALSE) /\ LoopEnds(i)
  /\ UNCHANGED <<used, click, dictionary>>

TaskStep(i) ==
  \/ PageShows(i) \/ Deferred(i) \/ OtherShows(i) \/ LiveFails(i) \/ Register(i)
  \/ Wakes(i) \/ Sampled(i) \/ Closes(i)

Next ==
  \/ \E m \in Messages : ClickPage(m) \/ \E kind \in {"detail", "live"} : ClickOther(m, kind)
  \/ \E i \in Clicks : PageLoads(i) \/ TaskStep(i)

Spec == Init /\ [][Next]_vars

\* Awaits end, in an answer or in an error, and sleeping loops wake up.
FairSpec == Spec /\ \A i \in Clicks : WF_vars(TaskStep(i))

-----------------------------------------------------------------------------
(* Properties.                                                             *)

\* Pages appear in the order of the clicks: a click that was overtaken by a
\* later page click on its message does not draw any more, neither its page
\* nor its footer, unless the message's revision was forgotten meanwhile.
PagesInOrder ==
  [][\A m \in Messages \ trimmed :
       shown'[m] # shown[m] =>
         LET i == shown'[m].by IN
         click[i].kind = "page" =>
           ~\E j \in Clicks : j > i /\ click[j].msg = m /\ click[j].kind = "page"]_vars

\* A loop that lost its registration, to a second click on "Live" that was
\* answered while the first was, draws at most its next footer and one end.
StraysAreBrief == \A i \in Clicks : strays[i] <= 2

\* Whatever becomes of its owner or its samples, a loop ends.
LoopsEnd == \A i \in Clicks : (loop[i].at = "sleep") ~> (loop[i].at = "over")

=============================================================================
