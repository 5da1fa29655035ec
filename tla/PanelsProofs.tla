----------------------------- MODULE PanelsProofs -----------------------------
(***************************************************************************)
(* The order of the pages on a message and the loops that redraw a live    *)
(* list, for any number of messages, clicks and remembered revisions.      *)
(*                                                                         *)
(* A click is numbered as its revision is counted (Ordered), so only the   *)
(* last page click on a message can be current; a loop that is displaced   *)
(* never comes back (Brief).                                               *)
(***************************************************************************)
EXTENDS Panels, SequenceTheorems, TLAPS

ClickType == [at : {"none", "defer", "wait", "register", "done"},
              msg : Messages \cup {None}, kind : Kinds, rev : Nat]
LoopType  == [at : {"none", "sleep", "sample", "over"}, rounds : 0..MaxRounds]
ShownType == [by : Clicks \cup {None}, loads : BOOLEAN]

Shape ==
  /\ used \in 0..MaxClicks
  /\ click \in [Clicks -> ClickType]
  /\ revision \in [Messages -> Nat]
  /\ live \in [Messages -> Clicks \cup {None}]
  /\ loop \in [Clicks -> LoopType]
  /\ shown \in [Messages -> ShownType]
  /\ strays \in [Clicks -> Nat]

\* The keys of the dictionary, each once, and no more than one over the limit.
KeysSound ==
  /\ keys \in Seq(Messages)
  /\ \A a, b \in 1..Len(keys) : keys[a] = keys[b] => a = b
  /\ \A m \in Messages : revision[m] > 0 <=> \E a \in 1..Len(keys) : keys[a] = m
  /\ Len(keys) <= MaxRevisions + 1

\* A loop belongs to a click on "Live" that is over; a loop that drew
\* unregistered is on its way out.
LoopSound(i) ==
  /\ i > used => click[i].at = "none"
  /\ click[i].at = "none" => click[i] = NoClick
  /\ click[i].at # "none" => click[i].msg \in Messages
  /\ click[i].at = "register" => click[i].kind = "live"
  /\ loop[i].at # "none" => click[i].at = "done" /\ click[i].kind = "live"
  /\ loop[i].at \in {"none", "sleep"} => strays[i] = 0
  /\ loop[i].at = "sample" => strays[i] <= 1
  /\ strays[i] <= 2
  /\ strays[i] > 0 => live[click[i].msg] # i

Registered == \A m \in Messages : live[m] # None => loop[live[m]].at # "none" /\ click[live[m]].msg = m

\* Page clicks on a message carry revisions in their order, none above the counter.
PageOn(m, i) == click[i].kind = "page" /\ click[i].msg = m
Ordered ==
  \A m \in Messages \ trimmed : \A i \in Clicks :
    PageOn(m, i) => /\ click[i].rev <= revision[m]
                    /\ \A j \in Clicks : j > i /\ PageOn(m, j) => click[i].rev < click[j].rev

IInv == Shape /\ KeysSound /\ (\A i \in Clicks : LoopSound(i)) /\ Registered /\ Ordered

LEMMA InitInv == Init => IInv
<1> SUFFICES ASSUME Init PROVE IInv
  OBVIOUS
<1>1. Shape
  BY PanelAssumption DEF Init, Shape, ClickType, LoopType, ShownType, NoClick, NoLoop, Kinds
<1>2. KeysSound
  BY PanelAssumption DEF Init, KeysSound
<1>3. \A i \in Clicks : LoopSound(i)
  BY DEF Init, LoopSound, NoClick, NoLoop
<1>4. Registered
  BY DEF Init, Registered
<1>5. Ordered
  BY NoneAssumption DEF Init, Ordered, PageOn, NoClick
<1> QED BY <1>1, <1>2, <1>3, <1>4, <1>5 DEF IInv

-----------------------------------------------------------------------------
(* New clicks.                                                             *)

\* stop_live keeps the loops sound: what it stops was registered.
LEMMA StopLiveShape ==
  ASSUME IInv, NEW m \in Messages, StopLive(m)
  PROVE  /\ live' \in [Messages -> Clicks \cup {None}] /\ loop' \in [Clicks -> LoopType]
         /\ \A n \in Messages : live'[n] = live[n] \/ live'[n] = None
         /\ \A i \in Clicks : loop'[i] = loop[i] \/ (loop[i].at # "none" /\ loop'[i].at = "over")
<1>1. live' = [live EXCEPT ![m] = None]
  BY DEF StopLive
<1>2. CASE live[m] = None
  BY <1>1, <1>2 DEF StopLive, IInv, Shape
<1>3. CASE live[m] # None
  <2>1. live[m] \in Clicks /\ loop[live[m]].at # "none" /\ loop \in [Clicks -> LoopType]
    BY <1>3 DEF IInv, Shape, Registered
  <2>2. loop' = [loop EXCEPT ![live[m]].at = "over"]
    BY <1>3 DEF StopLive
  <2> QED BY <1>1, <2>1, <2>2 DEF LoopType, IInv, Shape
<1> QED BY <1>2, <1>3

\* The dictionary before a page is counted: full ones have lost their oldest entry.
Kept == [n \in Messages |-> IF n \in Forgotten THEN 0 ELSE revision[n]]
Order == IF Forgotten = {} THEN keys ELSE Tail(keys)

\* The dictionary's keys after a full one has lost its oldest entry.
KeysPruned(kept, order) ==
         /\ kept \in [Messages -> Nat] /\ order \in Seq(Messages)
         /\ \A a, b \in 1..Len(order) : order[a] = order[b] => a = b
         /\ \A n \in Messages : kept[n] > 0 <=> \E a \in 1..Len(order) : order[a] = n
         /\ Len(order) <= MaxRevisions
         /\ \A n \in Messages \ Forgotten : kept[n] = revision[n]

LEMMA PruneKeys ==
  ASSUME IInv
  PROVE  KeysPruned(Kept, Order)
<1>0. PICK kept, order : kept = Kept /\ order = Order
  OBVIOUS
<1>1. /\ keys \in Seq(Messages) /\ Len(keys) \in Nat /\ MaxRevisions \in Nat
      /\ revision \in [Messages -> Nat] /\ Len(keys) <= MaxRevisions + 1
      /\ \A a, b \in 1..Len(keys) : keys[a] = keys[b] => a = b
  BY PanelAssumption DEF IInv, KeysSound, Shape
<1>2. kept \in [Messages -> Nat] /\ \A n \in Messages \ Forgotten : kept[n] = revision[n]
  BY <1>0, <1>1 DEF Kept
<1>3. CASE Len(keys) <= MaxRevisions
  <2>1. Forgotten = {} /\ order = keys /\ \A n \in Messages : kept[n] = revision[n]
    BY <1>0, <1>1, <1>3 DEF Forgotten, Kept, Order
  <2> QED BY <1>0, <1>1, <1>2, <1>3, <2>1 DEF IInv, KeysSound, KeysPruned
<1>4. CASE Len(keys) > MaxRevisions
  <2>1. Forgotten = {keys[1]} /\ order = Tail(keys) /\ Len(keys) >= 1
    BY <1>0, <1>1, <1>4 DEF Forgotten, Order
  <2>2. /\ order \in Seq(Messages) /\ Len(order) = Len(keys) - 1
        /\ \A a \in 1..Len(order) : order[a] = keys[a + 1] /\ a + 1 \in 1..Len(keys)
    <3>1. keys # <<>>
      BY <2>1
    <3>2. /\ order \in Seq(Messages) /\ Len(order) = Len(keys) - 1
          /\ \A a \in 1..Len(order) : order[a] = keys[a + 1]
      BY <1>1, <2>1, <3>1, HeadTailProperties
    <3> QED BY <1>1, <3>2
  <2>3. \A a, b \in 1..Len(order) : order[a] = order[b] => a = b
    <3> SUFFICES ASSUME NEW a \in 1..Len(order), NEW b \in 1..Len(order), order[a] = order[b] PROVE a = b
      OBVIOUS
    <3>1. keys[a + 1] = keys[b + 1] /\ a + 1 \in 1..Len(keys) /\ b + 1 \in 1..Len(keys)
      BY <2>2
    <3> QED BY <1>1, <3>1
  <2>4. ASSUME NEW n \in Messages PROVE kept[n] > 0 <=> \E a \in 1..Len(order) : order[a] = n
    <3>1. CASE n = keys[1]
      <4>1. kept[n] = 0
        BY <1>0, <2>1, <3>1 DEF Kept
      <4>2. ASSUME NEW a \in 1..Len(order), order[a] = n PROVE FALSE
        <5>1. keys[a + 1] = keys[1] /\ a + 1 \in 1..Len(keys) /\ 1 \in 1..Len(keys)
          BY <1>1, <2>1, <2>2, <3>1, <4>2
        <5> QED BY <1>1, <5>1
      <4> QED BY <4>1, <4>2
    <3>2. CASE n # keys[1]
      <4>1. kept[n] = revision[n]
        BY <1>0, <2>1, <3>2 DEF Kept
      <4>2. ASSUME NEW a \in 1..Len(keys), keys[a] = n PROVE \E b \in 1..Len(order) : order[b] = n
        <5>1. a - 1 \in 1..Len(order) /\ (a - 1) + 1 = a
          BY <1>1, <2>2, <3>2, <4>2
        <5> QED BY <2>2, <4>2, <5>1
      <4>3. (\E a \in 1..Len(order) : order[a] = n) => \E a \in 1..Len(keys) : keys[a] = n
        BY <2>2
      <4> QED BY <4>1, <4>2, <4>3 DEF IInv, KeysSound
    <3> QED BY <3>1, <3>2
  <2>5. Len(order) <= MaxRevisions
    BY <1>1, <2>2
  <2> QED BY <1>0, <1>2, <2>2, <2>3, <2>4, <2>5 DEF KeysPruned
<1> QED BY <1>1, <1>3, <1>4

LEMMA ClickPageInv ==
  ASSUME IInv, NEW m \in Messages, ClickPage(m)
  PROVE  IInv'
<1>1. PICK i, kept, order :
        /\ i = used + 1 /\ used < MaxClicks
        /\ kept = Kept /\ order = Order
        /\ used' = i /\ StopLive(m)
        /\ revision' = [kept EXCEPT ![m] = @ + 1]
        /\ keys' = IF kept[m] = 0 THEN Append(order, m) ELSE order
        /\ trimmed' = trimmed \cup Forgotten
        /\ click' = [click EXCEPT ![i] = [at |-> "wait", msg |-> m, kind |-> "page", rev |-> kept[m] + 1]]
        /\ shown' = shown /\ strays' = strays
  BY DEF ClickPage, Kept, Order
<1>2. i \in Clicks /\ used \in Nat /\ used + 1 \in 0..MaxClicks
  BY <1>1, PanelAssumption DEF IInv, Shape, Clicks
<1>3. /\ kept \in [Messages -> Nat] /\ order \in Seq(Messages)
      /\ \A a, b \in 1..Len(order) : order[a] = order[b] => a = b
      /\ \A n \in Messages : kept[n] > 0 <=> \E a \in 1..Len(order) : order[a] = n
      /\ Len(order) <= MaxRevisions
      /\ \A n \in Messages \ Forgotten : kept[n] = revision[n]
  BY <1>1, PruneKeys DEF KeysPruned
<1>4. /\ live' \in [Messages -> Clicks \cup {None}] /\ loop' \in [Clicks -> LoopType]
      /\ \A n \in Messages : live'[n] = live[n] \/ live'[n] = None
      /\ \A j \in Clicks : loop'[j] = loop[j] \/ (loop[j].at # "none" /\ loop'[j].at = "over")
  BY <1>1, StopLiveShape
<1>5. [at |-> "wait", msg |-> m, kind |-> "page", rev |-> kept[m] + 1] \in ClickType
  BY <1>3 DEF ClickType, Kinds
<1>6. Shape'
  <2>1. click' \in [Clicks -> ClickType]
    BY <1>1, <1>2, <1>5 DEF IInv, Shape
  <2>2. revision' \in [Messages -> Nat]
    BY <1>1, <1>3
  <2> QED BY <1>1, <1>2, <1>4, <2>1, <2>2 DEF IInv, Shape
<1>7. KeysSound'
  <2>1. CASE kept[m] = 0
    <3>1. /\ keys' \in Seq(Messages) /\ Len(keys') = Len(order) + 1
          /\ keys'[Len(order) + 1] = m /\ \A a \in 1..Len(order) : keys'[a] = order[a]
      BY <1>1, <1>3, <2>1
    <3>2. \A a \in 1..Len(order) : order[a] # m
      BY <1>3, <2>1
    <3>3. Len(order) \in Nat /\ MaxRevisions \in Nat
      BY <1>3, PanelAssumption
    <3>4. \A a, b \in 1..Len(keys') : keys'[a] = keys'[b] => a = b
      <4> SUFFICES ASSUME NEW a \in 1..Len(keys'), NEW b \in 1..Len(keys'), keys'[a] = keys'[b] PROVE a = b
        OBVIOUS
      <4>1. a \in 1..Len(order) \/ a = Len(order) + 1
        BY <3>1, <3>3
      <4>2. b \in 1..Len(order) \/ b = Len(order) + 1
        BY <3>1, <3>3
      <4>3. CASE a = Len(order) + 1
        BY <3>1, <3>2, <4>2, <4>3
      <4>4. CASE b = Len(order) + 1
        BY <3>1, <3>2, <4>1, <4>4
      <4>5. CASE a \in 1..Len(order) /\ b \in 1..Len(order)
        BY <1>3, <3>1, <4>5
      <4> QED BY <4>1, <4>2, <4>3, <4>4, <4>5
    <3>5. ASSUME NEW n \in Messages PROVE revision'[n] > 0 <=> \E a \in 1..Len(keys') : keys'[a] = n
      <4>1. CASE n = m
        <5>1. Len(order) + 1 \in 1..Len(keys') /\ revision'[m] = 1
          BY <1>1, <1>3, <2>1, <3>1, <3>3
        <5> QED BY <3>1, <4>1, <5>1
      <4>2. CASE n # m
        <5>1. revision'[n] = kept[n]
          BY <1>1, <1>3, <4>2
        <5>2. (\E a \in 1..Len(keys') : keys'[a] = n) <=> \E a \in 1..Len(order) : order[a] = n
          <6>1. \A a \in 1..Len(order) : a \in 1..Len(keys')
            BY <3>1, <3>3
          <6>2. \A a \in 1..Len(keys') : a \in 1..Len(order) \/ a = Len(order) + 1
            BY <3>1, <3>3
          <6> QED BY <3>1, <4>2, <6>1, <6>2
        <5> QED BY <1>3, <5>1, <5>2
      <4> QED BY <4>1, <4>2
    <3>6. Len(keys') <= MaxRevisions + 1
      BY <1>3, <3>1, <3>3
    <3> QED BY <3>1, <3>4, <3>5, <3>6 DEF KeysSound
  <2>2. CASE kept[m] # 0
    <3>1. keys' = order /\ kept[m] > 0 /\ revision'[m] > 0
      BY <1>1, <1>3, <2>2
    <3>2. \A n \in Messages : revision'[n] > 0 <=> kept[n] > 0
      BY <1>1, <1>3, <3>1
    <3>3. Len(order) <= MaxRevisions + 1
      BY <1>3, PanelAssumption
    <3> QED BY <1>3, <3>1, <3>2, <3>3 DEF KeysSound
  <2> QED BY <2>1, <2>2
<1>8. ASSUME NEW j \in Clicks PROVE LoopSound(j)'
  <2>1. CASE j = i
    <3>1. click[i].at = "none" /\ loop[i].at = "none"
      BY <1>1, <1>2 DEF IInv, LoopSound
    <3>2. click'[i] = [at |-> "wait", msg |-> m, kind |-> "page", rev |-> kept[m] + 1]
      BY <1>1, <1>2 DEF IInv, Shape
    <3>3. loop'[i].at = "none" /\ strays'[i] = 0
      BY <1>1, <1>2, <1>4, <3>1 DEF IInv, LoopSound
    <3> QED BY <1>1, <1>2, <2>1, <3>2, <3>3 DEF LoopSound
  <2>2. CASE j # i
    <3>1. click'[j] = click[j] /\ LoopSound(j) /\ strays'[j] = strays[j] /\ (j > used' => j > used)
      BY <1>1, <1>2, <2>2 DEF IInv, Shape, Clicks
    <3>2. click[j].msg \in Messages => live'[click[j].msg] = live[click[j].msg] \/ live'[click[j].msg] # j
      BY <1>4, NoneAssumption DEF Clicks
    <3>3. strays[j] > 0 => loop[j].at # "none" /\ click[j].msg \in Messages
      BY <3>1 DEF LoopSound, IInv, Shape, LoopType
    <3> QED BY <1>4, <3>1, <3>2, <3>3 DEF LoopSound
  <2> QED BY <2>1, <2>2
<1>9. Registered'
  <2> SUFFICES ASSUME NEW n \in Messages, live'[n] # None
               PROVE  loop'[live'[n]].at # "none" /\ click'[live'[n]].msg = n
    BY DEF Registered
  <2>1. live'[n] = live[n] /\ live[n] \in Clicks /\ loop[live[n]].at # "none" /\ click[live[n]].msg = n
    BY <1>4 DEF IInv, Registered, Shape
  <2>2. live[n] # i
    BY <1>1, <1>2, <2>1 DEF IInv, LoopSound
  <2> QED BY <1>1, <1>4, <2>1, <2>2 DEF IInv, Shape
<1>10. Ordered'
  <2> SUFFICES ASSUME NEW n \in Messages \ trimmed', NEW a \in Clicks, PageOn(n, a)'
               PROVE  /\ click'[a].rev <= revision'[n]
                      /\ \A b \in Clicks : b > a /\ PageOn(n, b)' => click'[a].rev < click'[b].rev
    BY DEF Ordered
  <2>1. n \notin trimmed /\ kept[n] = revision[n]
    BY <1>1, <1>3
  <2>2. \A b \in Clicks : b # i => click'[b] = click[b]
    BY <1>1, <1>2 DEF IInv, Shape
  <2>3. click'[i] = [at |-> "wait", msg |-> m, kind |-> "page", rev |-> kept[m] + 1]
    BY <1>1, <1>2 DEF IInv, Shape
  <2>4. \A b \in Clicks : b > i => ~PageOn(n, b)'
    <3> SUFFICES ASSUME NEW b \in Clicks, b > i PROVE ~PageOn(n, b)'
      OBVIOUS
    <3>1. b > used /\ b # i
      BY <1>1, <1>2 DEF Clicks
    <3>2. click'[b] = NoClick
      BY <2>2, <3>1 DEF IInv, LoopSound
    <3> QED BY <3>2, NoneAssumption DEF PageOn, NoClick
  <2>5. revision'[n] = IF n = m THEN revision[n] + 1 ELSE revision[n]
    BY <1>1, <1>3, <2>1
  <2>6. revision[n] \in Nat /\ \A b \in Clicks : click[b].rev \in Nat
    BY DEF IInv, Shape, ClickType
  <2>7. CASE a = i
    <3>1. n = m
      BY <2>3, <2>7 DEF PageOn
    <3> QED BY <2>1, <2>3, <2>4, <2>5, <2>6, <2>7, <3>1
  <2>8. CASE a # i
    <3>1. PageOn(n, a) /\ click'[a] = click[a]
      BY <2>2, <2>8 DEF PageOn
    <3>2. /\ click[a].rev <= revision[n]
          /\ \A b \in Clicks : b > a /\ PageOn(n, b) => click[a].rev < click[b].rev
      BY <2>1, <3>1 DEF IInv, Ordered
    <3>3. ASSUME NEW b \in Clicks, b > a, PageOn(n, b)' PROVE click'[a].rev < click'[b].rev
      <4>1. CASE b = i
        <5>1. n = m
          BY <2>3, <3>3, <4>1 DEF PageOn
        <5> QED BY <2>1, <2>3, <2>6, <3>1, <3>2, <4>1, <5>1
      <4>2. CASE b # i
        BY <2>2, <3>1, <3>2, <3>3, <4>2 DEF PageOn
      <4> QED BY <4>1, <4>2
    <3> QED BY <2>5, <2>6, <3>1, <3>2, <3>3
  <2> QED BY <2>7, <2>8
<1> QED BY <1>6, <1>7, <1>8, <1>9, <1>10 DEF IInv

LEMMA ClickOtherInv ==
  ASSUME IInv, NEW m \in Messages, NEW kind \in {"detail", "live"}, ClickOther(m, kind)
  PROVE  IInv'
<1>1. PICK i, c :
        /\ i = used + 1 /\ used < MaxClicks /\ used' = i
        /\ c = [at |-> "defer", msg |-> m, kind |-> kind, rev |-> 0]
        /\ click' = [click EXCEPT ![i] = c]
        /\ UNCHANGED <<revision, keys, trimmed, live, loop, shown, strays>>
  BY DEF ClickOther, dictionary
<1>2. i \in Clicks /\ used \in Nat /\ used + 1 \in 0..MaxClicks
  BY <1>1, PanelAssumption DEF IInv, Shape, Clicks
<1>3. c \in ClickType
  BY <1>1 DEF ClickType, Kinds
<1>4. Shape'
  BY <1>1, <1>2, <1>3 DEF IInv, Shape
<1>5. KeysSound'
  BY <1>1 DEF IInv, KeysSound
<1>6. click[i].at = "none" /\ loop[i].at = "none" /\ strays[i] = 0
  BY <1>1, <1>2 DEF IInv, LoopSound
<1>7. click'[i] = c /\ \A j \in Clicks \ {i} : click'[j] = click[j]
  BY <1>1, <1>2 DEF IInv, Shape
<1>8. ASSUME NEW j \in Clicks PROVE LoopSound(j)'
  <2>1. CASE j = i
    BY <1>1, <1>2, <1>6, <1>7, <2>1 DEF LoopSound
  <2>2. CASE j # i
    <3>1. j > used' => j > used
      BY <1>1, <1>2 DEF Clicks
    <3> QED BY <1>1, <1>7, <2>2, <3>1 DEF LoopSound, IInv
  <2> QED BY <2>1, <2>2
<1>9. Registered'
  <2> SUFFICES ASSUME NEW n \in Messages, live[n] # None
               PROVE  loop[live[n]].at # "none" /\ click'[live[n]].msg = n
    BY <1>1 DEF Registered
  <2> QED BY <1>6, <1>7 DEF IInv, Registered, Shape
<1>10. Ordered'
  <2> SUFFICES ASSUME NEW n \in Messages \ trimmed, NEW a \in Clicks, PageOn(n, a)'
               PROVE  /\ click'[a].rev <= revision[n]
                      /\ \A b \in Clicks : b > a /\ PageOn(n, b)' => click'[a].rev < click'[b].rev
    BY <1>1 DEF Ordered
  <2>1. \A b \in Clicks : PageOn(n, b)' => PageOn(n, b) /\ click'[b] = click[b]
    BY <1>1, <1>7 DEF PageOn
  <2> QED BY <2>1 DEF IInv, Ordered
<1> QED BY <1>4, <1>5, <1>8, <1>9, <1>10 DEF IInv

-----------------------------------------------------------------------------
(* Steps of the tasks.                                                     *)

\* A task that moves on keeps its click's message, kind and revision.
LEMMA TaskInv ==
  ASSUME IInv, NEW i \in Clicks,
         UNCHANGED <<used, revision, keys, trimmed>>,
         Shape', LoopSound(i)', Registered',
         click'[i].msg = click[i].msg, click'[i].kind = click[i].kind, click'[i].rev = click[i].rev,
         \A j \in Clicks \ {i} : click'[j] = click[j] /\ strays'[j] = strays[j],
         \A j \in Clicks \ {i} :
           loop'[j] = loop[j] \/ (loop[j].at # "none" /\ loop'[j].at = "over"),
         \A n \in Messages : live'[n] \in {live[n], i, None}
  PROVE  IInv'
<1>1. KeysSound'
  BY DEF IInv, KeysSound
<1>2. \A n \in Messages, j \in Clicks : (PageOn(n, j)' <=> PageOn(n, j)) /\ click'[j].rev = click[j].rev
  <2> SUFFICES ASSUME NEW n \in Messages, NEW j \in Clicks
               PROVE  (PageOn(n, j)' <=> PageOn(n, j)) /\ click'[j].rev = click[j].rev
    OBVIOUS
  <2>1. click'[j].kind = click[j].kind /\ click'[j].msg = click[j].msg /\ click'[j].rev = click[j].rev
    <3>1. j = i \/ j \in Clicks \ {i}
      OBVIOUS
    <3> QED BY <3>1
  <2> QED BY <2>1 DEF PageOn
<1>3. Ordered'
  BY <1>2 DEF IInv, Ordered
<1>4. ASSUME NEW j \in Clicks \ {i} PROVE LoopSound(j)'
  <2>1. LoopSound(j)
    BY DEF IInv
  <2>2. strays[j] > 0 => click[j].msg \in Messages /\ live'[click[j].msg] # j
    <3> SUFFICES ASSUME strays[j] > 0 PROVE click[j].msg \in Messages /\ live'[click[j].msg] # j
      OBVIOUS
    <3>1. loop[j].at # "none" /\ live[click[j].msg] # j
      BY <2>1 DEF LoopSound
    <3>2. click[j].msg \in Messages
      BY <2>1, <3>1 DEF LoopSound
    <3>3. live'[click[j].msg] \in {live[click[j].msg], i, None}
      BY <3>2
    <3> QED BY <3>1, <3>2, <3>3, NoneAssumption DEF Clicks
  <2>3. click'[j] = click[j] /\ strays'[j] = strays[j] /\ used' = used
    OBVIOUS
  <2>4. loop'[j] = loop[j] \/ (loop[j].at # "none" /\ loop'[j].at = "over")
    OBVIOUS
  <2> QED BY <2>1, <2>2, <2>3, <2>4 DEF LoopSound
<1> QED BY <1>1, <1>3, <1>4 DEF IInv

LEMMA DrawShape ==
  ASSUME IInv, NEW m \in Messages, NEW i \in Clicks, NEW loads \in BOOLEAN, Draw(m, i, loads)
  PROVE  shown' \in [Messages -> ShownType]
  BY DEF Draw, IInv, Shape, ShownType

\* Steps that only draw and move the click on.
LEMMA ShowInv ==
  ASSUME IInv, NEW i \in Clicks, click[i].at # "none", loop[i].at = "none",
         UNCHANGED <<used, revision, keys, trimmed, live, loop, strays>>,
         shown' \in [Messages -> ShownType],
         NEW at \in {"wait", "register", "done"}, at = "register" => click[i].kind = "live",
         click' = [click EXCEPT ![i].at = at]
  PROVE  IInv'
<1>1. click[i] \in ClickType /\ click \in [Clicks -> ClickType]
  BY DEF IInv, Shape
<1>2. /\ click'[i] = [click[i] EXCEPT !.at = at] /\ click'[i] \in ClickType
      /\ \A j \in Clicks \ {i} : click'[j] = click[j]
  BY <1>1 DEF ClickType
<1>3. click'[i].at = at /\ click'[i].msg = click[i].msg /\ click'[i].kind = click[i].kind /\ click'[i].rev = click[i].rev
  BY <1>1, <1>2 DEF ClickType
<1>4. Shape'
  BY <1>1, <1>2 DEF IInv, Shape
<1>5. LoopSound(i)'
  BY <1>3 DEF IInv, LoopSound
<1>6. Registered'
  BY <1>2, <1>3 DEF IInv, Registered, Shape
<1> QED BY <1>2, <1>3, <1>4, <1>5, <1>6, TaskInv DEF IInv, Shape

LEMMA PageLoadsInv ==
  ASSUME IInv, NEW i \in Clicks, PageLoads(i)
  PROVE  IInv'
<1>1. click[i].msg \in Messages
  BY DEF IInv, LoopSound, PageLoads
<1>2. shown' \in [Messages -> ShownType]
  BY <1>1, DrawShape DEF PageLoads
<1>3. UNCHANGED <<used, click, revision, keys, trimmed, live, loop, strays>>
  BY DEF PageLoads, dictionary
<1>4. Shape' /\ LoopSound(i)' /\ Registered'
  BY <1>2, <1>3 DEF IInv, Shape, LoopSound, Registered
<1> QED BY <1>3, <1>4, TaskInv

LEMMA ShowsInv ==
  ASSUME IInv, NEW i \in Clicks, PageShows(i) \/ OtherShows(i) \/ LiveFails(i)
  PROVE  IInv'
<1>1. click[i].at \in {"wait", "register"} /\ click[i].msg \in Messages /\ loop[i].at = "none"
      /\ click[i].kind \in Kinds
  BY DEF IInv, Shape, ClickType, LoopSound, PageShows, OtherShows, LiveFails
<1>2. shown' \in [Messages -> ShownType]
  <2>1. shown \in [Messages -> ShownType]
    BY DEF IInv, Shape
  <2> QED BY <1>1, <2>1, DrawShape DEF PageShows, OtherShows, LiveFails
<1>3. UNCHANGED <<used, revision, keys, trimmed, live, loop, strays>>
  BY DEF PageShows, OtherShows, LiveFails, dictionary
<1>4. PICK at \in {"register", "done"} :
        /\ at = "register" => click[i].kind = "live"
        /\ click' = [click EXCEPT ![i].at = at]
  BY DEF PageShows, OtherShows, LiveFails
<1> QED BY <1>1, <1>2, <1>3, <1>4, ShowInv

LEMMA DeferredInv ==
  ASSUME IInv, NEW i \in Clicks, Deferred(i)
  PROVE  IInv'
<1>1. click[i].at = "defer" /\ click[i].msg \in Messages /\ loop[i].at = "none"
  BY DEF IInv, LoopSound, Deferred
<1>2. /\ StopLive(click[i].msg) /\ click' = [click EXCEPT ![i].at = "wait"]
      /\ UNCHANGED <<used, revision, keys, trimmed, shown, strays>>
  BY DEF Deferred, dictionary
<1>3. /\ live' \in [Messages -> Clicks \cup {None}] /\ loop' \in [Clicks -> LoopType]
      /\ \A n \in Messages : live'[n] = live[n] \/ live'[n] = None
      /\ \A j \in Clicks : loop'[j] = loop[j] \/ (loop[j].at # "none" /\ loop'[j].at = "over")
  BY <1>1, <1>2, StopLiveShape
<1>4. click[i] \in ClickType /\ click \in [Clicks -> ClickType]
  BY DEF IInv, Shape
<1>5. /\ click'[i] = [click[i] EXCEPT !.at = "wait"] /\ click'[i] \in ClickType
      /\ \A j \in Clicks \ {i} : click'[j] = click[j]
  BY <1>2, <1>4 DEF ClickType
<1>6. click'[i].at = "wait" /\ click'[i].msg = click[i].msg /\ click'[i].kind = click[i].kind /\ click'[i].rev = click[i].rev
  BY <1>4, <1>5 DEF ClickType
<1>7. Shape'
  BY <1>2, <1>3, <1>4, <1>5 DEF IInv, Shape
<1>8. LoopSound(i)'
  BY <1>1, <1>2, <1>3, <1>6 DEF IInv, LoopSound
<1>9. Registered'
  <2> SUFFICES ASSUME NEW n \in Messages, live'[n] # None
               PROVE  loop'[live'[n]].at # "none" /\ click'[live'[n]].msg = n
    BY DEF Registered
  <2>1. live'[n] = live[n] /\ live[n] \in Clicks /\ loop[live[n]].at # "none" /\ click[live[n]].msg = n
    BY <1>3 DEF IInv, Registered, Shape
  <2>2. loop'[live[n]].at # "none"
    BY <1>3, <2>1
  <2>3. click'[live[n]].msg = click[live[n]].msg
    BY <1>5, <1>6, <2>1
  <2> QED BY <2>1, <2>2, <2>3
<1> QED BY <1>2, <1>3, <1>5, <1>6, <1>7, <1>8, <1>9, TaskInv

LEMMA RegisterInv ==
  ASSUME IInv, NEW i \in Clicks, Register(i)
  PROVE  IInv'
<1> DEFINE m == click[i].msg
<1>1. /\ click[i].at = "register" /\ click[i].kind = "live" /\ m \in Messages /\ loop[i].at = "none"
      /\ strays[i] = 0 /\ loop[i] \in LoopType /\ click[i] \in ClickType
  BY DEF IInv, LoopSound, Register, Shape
<1>2. /\ live' = [live EXCEPT ![m] = i] /\ loop' = [loop EXCEPT ![i].at = "sleep"]
      /\ click' = [click EXCEPT ![i].at = "done"]
      /\ UNCHANGED <<used, revision, keys, trimmed, shown, strays>>
  BY DEF Register, dictionary
<1>3. /\ click'[i] = [click[i] EXCEPT !.at = "done"] /\ click'[i] \in ClickType
      /\ \A j \in Clicks \ {i} : click'[j] = click[j]
  BY <1>1, <1>2 DEF ClickType, IInv, Shape
<1>4. /\ loop'[i] = [loop[i] EXCEPT !.at = "sleep"] /\ loop'[i] \in LoopType
      /\ \A j \in Clicks \ {i} : loop'[j] = loop[j]
  BY <1>1, <1>2 DEF LoopType, IInv, Shape
<1>5. click'[i].at = "done" /\ click'[i].msg = m /\ click'[i].kind = "live" /\ click'[i].rev = click[i].rev
  BY <1>1, <1>3 DEF ClickType
<1>6. loop'[i].at = "sleep"
  BY <1>1, <1>4 DEF LoopType
<1>7. live' \in [Messages -> Clicks \cup {None}] /\ live'[m] = i /\ \A n \in Messages \ {m} : live'[n] = live[n]
  BY <1>1, <1>2 DEF IInv, Shape
<1>8. Shape'
  BY <1>2, <1>3, <1>4, <1>7 DEF IInv, Shape
<1>9. LoopSound(i)'
  BY <1>1, <1>2, <1>5, <1>6 DEF IInv, LoopSound
<1>10. Registered'
  <2> SUFFICES ASSUME NEW n \in Messages, live'[n] # None
               PROVE  loop'[live'[n]].at # "none" /\ click'[live'[n]].msg = n
    BY DEF Registered
  <2>1. CASE n = m
    BY <1>5, <1>6, <1>7, <2>1
  <2>2. CASE n # m
    <3>1. live'[n] = live[n] /\ live[n] \in Clicks /\ loop[live[n]].at # "none" /\ click[live[n]].msg = n
      BY <1>7, <2>2 DEF IInv, Registered, Shape
    <3>2. live[n] # i
      BY <1>1, <3>1
    <3> QED BY <1>3, <1>4, <3>1, <3>2
  <2> QED BY <2>1, <2>2
<1>11. \A n \in Messages : live'[n] \in {live[n], i, None}
  BY <1>7
<1> HIDE DEF m
<1> QED BY <1>1, <1>2, <1>3, <1>4, <1>5, <1>8, <1>9, <1>10, <1>11, TaskInv DEF m

\* A step of a loop: it draws at most once, and registers nothing.
LEMMA LoopInv ==
  ASSUME IInv, NEW i \in Clicks, NEW l \in LoopType, loop' = [loop EXCEPT ![i] = l],
         l.at # "none", loop[i].at # "none",
         UNCHANGED <<used, click, revision, keys, trimmed>>,
         shown' \in [Messages -> ShownType],
         NEW d \in {0, 1}, strays' = [strays EXCEPT ![i] = @ + d], d = 1 => ~Mine(i),
         \/ live' = live
         \/ Mine(i) /\ live' = [live EXCEPT ![click[i].msg] = None],
         l.at = "sleep" => strays[i] + d = 0,
         l.at = "sample" => strays[i] + d <= 1,
         strays[i] + d <= 2
  PROVE  IInv'
<1>1. loop'[i] = l /\ strays'[i] = strays[i] + d /\ click[i].msg \in Messages /\ strays[i] \in Nat
      /\ \A j \in Clicks \ {i} : loop'[j] = loop[j] /\ strays'[j] = strays[j]
  BY DEF IInv, Shape, LoopSound
<1>2. live' \in [Messages -> Clicks \cup {None}] /\ \A n \in Messages : live'[n] \in {live[n], None}
  BY <1>1 DEF IInv, Shape
<1>3. Shape'
  BY <1>1, <1>2 DEF IInv, Shape
<1>4. LoopSound(i)'
  <2>1. strays'[i] > 0 => live[click[i].msg] # i
    BY <1>1 DEF IInv, LoopSound, Mine
  <2>2. strays'[i] > 0 => live'[click[i].msg] # i
    BY <1>1, <1>2, <2>1, NoneAssumption DEF Clicks
  <2>3. LoopSound(i)
    BY DEF IInv
  <2> QED BY <1>1, <2>2, <2>3 DEF LoopSound
<1>5. Registered'
  <2> SUFFICES ASSUME NEW n \in Messages, live'[n] # None
               PROVE  loop'[live'[n]].at # "none" /\ click[live'[n]].msg = n
    BY DEF Registered
  <2>1. live'[n] = live[n] /\ live[n] \in Clicks /\ loop[live[n]].at # "none" /\ click[live[n]].msg = n
    BY <1>2 DEF IInv, Registered, Shape
  <2> QED BY <1>1, <2>1
<1>6. \A n \in Messages : live'[n] \in {live[n], i, None}
  BY <1>2
<1> QED BY <1>1, <1>3, <1>4, <1>5, <1>6, TaskInv

\* What LoopDraws does: a drawing, and a stray if the loop is not registered.
LEMMA LoopDrawsShape ==
  ASSUME IInv, NEW i \in Clicks, NEW loads \in BOOLEAN, loop[i].at # "none", LoopDraws(i, loads)
  PROVE  /\ shown' \in [Messages -> ShownType]
         /\ \E d \in {0, 1} : strays' = [strays EXCEPT ![i] = @ + d] /\ d = IF Mine(i) THEN 0 ELSE 1
         /\ Mine(i) => strays[i] = 0
         /\ strays[i] \in Nat
<1>1. click[i].msg \in Messages /\ strays \in [Clicks -> Nat]
  BY DEF IInv, Shape, LoopSound
<1>2. shown' \in [Messages -> ShownType]
  BY <1>1, DrawShape DEF LoopDraws
<1>3. \E d \in {0, 1} : strays' = [strays EXCEPT ![i] = @ + d] /\ d = IF Mine(i) THEN 0 ELSE 1
  <2>1. CASE Mine(i)
    <3>1. strays[i] + 0 = strays[i] /\ 0 \in {0, 1}
      BY <1>1
    <3>2. strays' = [strays EXCEPT ![i] = strays[i]]
      BY <2>1 DEF LoopDraws
    <3>3. strays' = [strays EXCEPT ![i] = @ + 0]
      BY <3>1, <3>2
    <3> QED BY <2>1, <3>1, <3>3
  <2>2. CASE ~Mine(i)
    BY <1>1, <2>2 DEF LoopDraws
  <2> QED BY <2>1, <2>2
<1>4. Mine(i) => strays[i] = 0
  BY <1>1 DEF IInv, LoopSound, Mine
<1> QED BY <1>1, <1>2, <1>3, <1>4

LEMMA WakesInv ==
  ASSUME IInv, NEW i \in Clicks, Wakes(i)
  PROVE  IInv'
<1>1. /\ loop[i].at = "sleep" /\ loop[i].rounds < MaxRounds /\ loop[i] \in LoopType /\ strays[i] = 0
      /\ LoopDraws(i, TRUE) /\ UNCHANGED <<used, click, revision, keys, trimmed, live>>
  BY DEF Wakes, dictionary, IInv, Shape, LoopSound
<1>2. PICK l \in LoopType : l.at = "sample" /\ loop' = [loop EXCEPT ![i] = l]
  <2> DEFINE l == [loop[i] EXCEPT !.at = "sample", !.rounds = @ + 1]
  <2>1. l \in LoopType /\ l.at = "sample"
    <3>1. MaxRounds \in Nat
      BY PanelAssumption
    <3>2. loop[i].rounds \in 0..MaxRounds
      BY <1>1 DEF LoopType
    <3>3. loop[i].rounds + 1 \in 0..MaxRounds
      BY <1>1, <3>1, <3>2
    <3> QED BY <1>1, <3>3 DEF LoopType
  <2>2. loop' = [loop EXCEPT ![i] = l]
    BY <1>1 DEF Wakes, LoopType, IInv, Shape
  <2> QED BY <2>1, <2>2
<1>3. PICK d \in {0, 1} : strays' = [strays EXCEPT ![i] = @ + d] /\ d = IF Mine(i) THEN 0 ELSE 1
  BY <1>1, LoopDrawsShape
<1>4. shown' \in [Messages -> ShownType]
  BY <1>1, LoopDrawsShape
<1>5. strays[i] + d <= 1 /\ strays[i] + d <= 2 /\ (d = 1 => ~Mine(i))
  BY <1>1, <1>3
<1>6. l.at # "none" /\ l.at # "sleep" /\ loop[i].at # "none"
  BY <1>1, <1>2
<1> QED BY <1>1, <1>2, <1>3, <1>4, <1>5, <1>6, LoopInv

LEMMA SampledInv ==
  ASSUME IInv, NEW i \in Clicks, Sampled(i)
  PROVE  IInv'
<1>1. /\ loop[i].at = "sample" /\ loop[i] \in LoopType /\ strays[i] \in Nat /\ strays[i] <= 1
      /\ UNCHANGED <<used, click, revision, keys, trimmed>>
  BY DEF Sampled, dictionary, IInv, Shape, LoopSound
<1>2. CASE Mine(i) /\ LoopDraws(i, FALSE) /\ loop' = [loop EXCEPT ![i].at = "sleep"] /\ live' = live
  <2>1. PICK l \in LoopType : l.at = "sleep" /\ loop' = [loop EXCEPT ![i] = l]
    BY <1>1, <1>2 DEF LoopType, IInv, Shape
  <2>2. PICK d \in {0, 1} : strays' = [strays EXCEPT ![i] = @ + d] /\ d = IF Mine(i) THEN 0 ELSE 1
    BY <1>1, <1>2, LoopDrawsShape
  <2>3. shown' \in [Messages -> ShownType] /\ strays[i] = 0
    BY <1>1, <1>2, LoopDrawsShape
  <2>4. strays[i] + d = 0 /\ strays[i] + d <= 2 /\ ~(d = 1)
    BY <1>2, <2>2, <2>3
  <2>5. l.at # "none" /\ l.at # "sample" /\ loop[i].at # "none"
    BY <1>1, <2>1
  <2> QED BY <1>1, <1>2, <2>1, <2>2, <2>3, <2>4, <2>5, LoopInv
<1>3. CASE ~Mine(i) /\ LoopEnds(i) /\ UNCHANGED <<shown, strays>>
  <2>1. PICK l \in LoopType : l.at = "over" /\ loop' = [loop EXCEPT ![i] = l]
    BY <1>1, <1>3 DEF LoopEnds, LoopType, IInv, Shape
  <2>2. strays' = [strays EXCEPT ![i] = @ + 0] /\ shown' \in [Messages -> ShownType] /\ live' = live
    BY <1>3 DEF LoopEnds, IInv, Shape
  <2>3. strays[i] + 0 <= 2 /\ 0 \in {0, 1}
    BY <1>1
  <2> QED BY <1>1, <1>3, <2>1, <2>2, <2>3, LoopInv
<1> QED BY <1>2, <1>3 DEF Sampled

LEMMA ClosesInv ==
  ASSUME IInv, NEW i \in Clicks, Closes(i)
  PROVE  IInv'
<1>1. /\ loop[i].at # "none" /\ loop[i] \in LoopType /\ strays[i] \in Nat /\ strays[i] <= 1
      /\ LoopDraws(i, FALSE) /\ LoopEnds(i) /\ UNCHANGED <<used, click, revision, keys, trimmed>>
  <2>1. LoopSound(i) /\ loop[i].at \in {"sleep", "sample"} /\ strays[i] \in Nat /\ loop[i] \in LoopType
    BY DEF Closes, IInv, Shape
  <2>2. strays[i] <= 1
    BY <2>1 DEF LoopSound
  <2> QED BY <2>1, <2>2 DEF Closes, dictionary
<1>2. PICK l \in LoopType : l.at = "over" /\ loop' = [loop EXCEPT ![i] = l]
  BY <1>1 DEF LoopEnds, LoopType, IInv, Shape
<1>3. PICK d \in {0, 1} : strays' = [strays EXCEPT ![i] = @ + d] /\ d = IF Mine(i) THEN 0 ELSE 1
  BY <1>1, LoopDrawsShape
<1>4. shown' \in [Messages -> ShownType]
  BY <1>1, LoopDrawsShape
<1>5. live' = live \/ (Mine(i) /\ live' = [live EXCEPT ![click[i].msg] = None])
  BY <1>1 DEF LoopEnds
<1>6. strays[i] + d <= 2 /\ (d = 1 => ~Mine(i))
  BY <1>1, <1>3
<1>7. l.at # "none" /\ l.at # "sample" /\ l.at # "sleep"
  BY <1>2
<1> QED BY <1>1, <1>2, <1>3, <1>4, <1>5, <1>6, <1>7, LoopInv

LEMMA NextInv ==
  ASSUME IInv, [Next]_vars
  PROVE  IInv'
<1>1. CASE \E m \in Messages : ClickPage(m) \/ \E kind \in {"detail", "live"} : ClickOther(m, kind)
  BY <1>1, ClickPageInv, ClickOtherInv
<1>2. CASE \E i \in Clicks : PageLoads(i) \/ TaskStep(i)
  BY <1>2, PageLoadsInv, ShowsInv, DeferredInv, RegisterInv, WakesInv, SampledInv, ClosesInv DEF TaskStep
<1>3. CASE UNCHANGED vars
  BY <1>3 DEF vars, dictionary, IInv, Shape, KeysSound, LoopSound, Registered, Ordered, PageOn
<1> QED BY <1>1, <1>2, <1>3 DEF Next

LEMMA Invariant == Spec => []IInv
<1> QED BY InitInv, NextInv, PTL DEF Spec

-----------------------------------------------------------------------------
\* The dictionary of revisions has its keys once each and is bounded, although
\* an entry is dropped before the new one is made, and never after.
THEOREM PanelTypes == Spec => []TypeOK
<1>1. IInv => TypeOK
  <2> SUFFICES ASSUME IInv PROVE TypeOK
    OBVIOUS
  <2>1. keys \in Seq(Messages) /\ DOMAIN keys = 1..Len(keys)
    BY DEF IInv, KeysSound
  <2>2. IsInjective(keys)
    BY <2>1 DEF IsInjective, IInv, KeysSound
  <2>3. ToSet(keys) = {m \in Messages : revision[m] > 0}
    BY <2>1 DEF ToSet, IInv, KeysSound
  <2> QED BY <2>2, <2>3 DEF IInv, Shape, KeysSound, TypeOK, ClickType, LoopType, ShownType
<1> QED BY <1>1, Invariant, PTL

\* A displaced live loop of live_tasks draws at most twice more.
THEOREM StraysBrief == Spec => []StraysAreBrief
<1>1. IInv => StraysAreBrief
  BY DEF IInv, LoopSound, StraysAreBrief
<1> QED BY <1>1, Invariant, PTL

\* show draws the pages of a message in the order of the clicks, however their
\* answers overtake each other, as long as the message is remembered.
THEOREM PagesKeepOrder == Spec => PagesInOrder
<1> DEFINE Order2 ==
      \A m \in Messages \ trimmed :
       shown'[m] # shown[m] =>
         LET i == shown'[m].by IN
         click[i].kind = "page" =>
           ~\E j \in Clicks : j > i /\ click[j].msg = m /\ click[j].kind = "page"
<1>1. ASSUME IInv, [Next]_vars PROVE Order2
  <2> SUFFICES ASSUME NEW m \in Messages \ trimmed, shown'[m] # shown[m],
                      click[shown'[m].by].kind = "page",
                      NEW j \in Clicks, j > shown'[m].by, click[j].msg = m, click[j].kind = "page"
               PROVE  FALSE
    OBVIOUS
  <2>1. shown \in [Messages -> ShownType]
    BY <1>1 DEF IInv, Shape
  <2>2. \A n \in Messages, i \in Clicks, loads \in BOOLEAN :
          Draw(n, i, loads) => n = m /\ shown'[m].by = i
    BY <2>1 DEF Draw
  <2>3. ASSUME NEW i \in Clicks, click[i].msg \in Messages, Draw(click[i].msg, i, TRUE) \/ Draw(click[i].msg, i, FALSE)
        PROVE  click[i].msg = m /\ shown'[m].by = i /\ click[i].kind = "page"
    BY <2>2, <2>3
  <2>4. ASSUME NEW i \in Clicks, PageLoads(i) \/ PageShows(i) PROVE FALSE
    <3>1. click[i].msg \in Messages /\ click[i].kind = "page"
      BY <1>1, <2>4 DEF PageLoads, PageShows, IInv, LoopSound
    <3>2. Current(i) /\ (Draw(click[i].msg, i, TRUE) \/ Draw(click[i].msg, i, FALSE))
      BY <2>4 DEF PageLoads, PageShows
    <3>3. click[i].msg = m /\ shown'[m].by = i
      BY <2>3, <3>1, <3>2
    <3>4. PageOn(m, i) /\ PageOn(m, j) /\ j > i /\ revision[m] = click[i].rev
      BY <3>1, <3>2, <3>3 DEF PageOn, Current
    <3>5. click[i].rev < click[j].rev /\ click[j].rev <= revision[m]
      BY <1>1, <3>4 DEF IInv, Ordered
    <3>6. click[i].rev \in Nat /\ click[j].rev \in Nat /\ revision[m] \in Nat
      BY <1>1 DEF IInv, Shape, ClickType
    <3> QED BY <3>4, <3>5, <3>6
  <2>5. ASSUME NEW i \in Clicks, OtherShows(i) \/ LiveFails(i) PROVE FALSE
    <3>1. click[i].msg \in Messages /\ click[i].kind # "page"
      BY <1>1, <2>5 DEF OtherShows, LiveFails, IInv, LoopSound
    <3> QED BY <2>3, <2>5, <3>1 DEF OtherShows, LiveFails
  <2>6. ASSUME NEW i \in Clicks, Wakes(i) \/ Sampled(i) \/ Closes(i) PROVE FALSE
    <3>1. click[i].msg \in Messages /\ click[i].kind # "page"
      BY <1>1, <2>6 DEF Wakes, Sampled, Closes, IInv, LoopSound
    <3> QED BY <2>3, <2>6, <3>1 DEF Wakes, Sampled, Closes, LoopDraws
  <2>7. CASE \E i \in Clicks : Deferred(i) \/ Register(i)
    BY <2>7 DEF Deferred, Register
  <2>8. CASE \E n \in Messages : ClickPage(n) \/ \E kind \in {"detail", "live"} : ClickOther(n, kind)
    BY <2>8 DEF ClickPage, ClickOther
  <2>9. CASE UNCHANGED vars
    BY <2>9 DEF vars
  <2> QED BY <1>1, <2>4, <2>5, <2>6, <2>7, <2>8, <2>9 DEF Next, TaskStep
<1> QED BY <1>1, Invariant, PTL DEF Spec, PagesInOrder

===============================================================================
