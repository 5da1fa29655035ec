-------------------------- MODULE ReleaseChoiceProofs --------------------------
(***************************************************************************)
(* The keys of the agent and of the bot put versions in the order they are *)
(* meant to have, and what is offered, asked for and installed follows it, *)
(* for every finite list of releases and every change of that list.        *)
(***************************************************************************)
EXTENDS ReleaseChoice, SequenceTheorems, FiniteSetTheorems, WellFoundedInduction, TLAPS

Pairs == Int \X Int

\* An element before a sequence.
LEMMA Before ==
  ASSUME NEW p \in Pairs, NEW s \in Seq(Pairs)
  PROVE  /\ <<p>> \o s \in Seq(Pairs)
         /\ Len(<<p>> \o s) = Len(s) + 1
         /\ (<<p>> \o s)[1] = p
         /\ \A i \in 1..Len(s) : (<<p>> \o s)[i + 1] = s[i]
OBVIOUS

\* An equal first element decides nothing.
LEMMA SameHead ==
  ASSUME NEW p \in Pairs, NEW s \in Seq(Pairs), NEW t \in Seq(Pairs)
  PROVE  KeyLess(<<p>> \o s, <<p>> \o t) <=> KeyLess(s, t)
<1> DEFINE u == <<p>> \o s
           v == <<p>> \o t
<1>1. /\ Len(u) = Len(s) + 1 /\ u[1] = p /\ \A i \in 1..Len(s) : u[i + 1] = s[i]
      /\ Len(v) = Len(t) + 1 /\ v[1] = p /\ \A i \in 1..Len(t) : v[i + 1] = t[i]
      /\ Len(s) \in Nat /\ Len(t) \in Nat
  BY Before
<1> HIDE DEF u, v
<1>2. ~PairLess(p, p)
  BY DEF PairLess, Pairs
<1>3. ASSUME KeyLess(u, v) PROVE KeyLess(s, t)
  <2>1. PICK i \in 1..Len(v) : /\ i <= Len(u) + 1
                               /\ \A j \in 1..(i - 1) : u[j] = v[j]
                               /\ i <= Len(u) => PairLess(u[i], v[i])
    BY <1>3 DEF KeyLess
  <2>2. i # 1
    BY <1>1, <1>2, <2>1
  <2>3. i - 1 \in 1..Len(t) /\ i - 1 <= Len(s) + 1
    BY <1>1, <2>1, <2>2
  <2>4. ASSUME NEW j \in 1..((i - 1) - 1) PROVE s[j] = t[j]
    <3>1. j + 1 \in 1..(i - 1) /\ j \in 1..Len(s) /\ j \in 1..Len(t)
      BY <1>1, <2>1, <2>3
    <3>2. u[j + 1] = v[j + 1]
      BY <2>1, <3>1
    <3> QED BY <1>1, <3>1, <3>2
  <2>5. ASSUME i - 1 <= Len(s) PROVE PairLess(s[i - 1], t[i - 1])
    <3>1. i <= Len(u) /\ i - 1 \in 1..Len(s) /\ (i - 1) + 1 = i
      BY <1>1, <2>1, <2>3, <2>5
    <3>2. u[i] = s[i - 1] /\ v[i] = t[i - 1]
      BY <1>1, <2>3, <3>1
    <3> QED BY <2>1, <3>1, <3>2
  <2> QED BY <2>3, <2>4, <2>5 DEF KeyLess
<1>4. ASSUME KeyLess(s, t) PROVE KeyLess(u, v)
  <2>1. PICK i \in 1..Len(t) : /\ i <= Len(s) + 1
                               /\ \A j \in 1..(i - 1) : s[j] = t[j]
                               /\ i <= Len(s) => PairLess(s[i], t[i])
    BY <1>4 DEF KeyLess
  <2>2. i + 1 \in 1..Len(v) /\ i + 1 <= Len(u) + 1
    BY <1>1, <2>1
  <2>3. ASSUME NEW j \in 1..((i + 1) - 1) PROVE u[j] = v[j]
    <3>1. CASE j = 1
      BY <1>1, <3>1
    <3>2. CASE j # 1
      <4>1. j - 1 \in 1..(i - 1) /\ j - 1 \in 1..Len(s) /\ j - 1 \in 1..Len(t) /\ (j - 1) + 1 = j
        BY <1>1, <2>1, <3>2
      <4> QED BY <1>1, <2>1, <4>1
    <3> QED BY <3>1, <3>2
  <2>4. ASSUME i + 1 <= Len(u) PROVE PairLess(u[i + 1], v[i + 1])
    BY <1>1, <2>1, <2>4
  <2> QED BY <2>2, <2>3, <2>4 DEF KeyLess
<1> QED BY <1>3, <1>4 DEF u, v

\* Different first elements decide everything.
LEMMA OtherHead ==
  ASSUME NEW p \in Pairs, NEW q \in Pairs, NEW s \in Seq(Pairs), NEW t \in Seq(Pairs), p # q
  PROVE  KeyLess(<<p>> \o s, <<q>> \o t) <=> PairLess(p, q)
<1> DEFINE u == <<p>> \o s
           v == <<q>> \o t
<1>1. /\ Len(u) >= 1 /\ u[1] = p /\ Len(v) >= 1 /\ v[1] = q
      /\ Len(u) \in Nat /\ Len(v) \in Nat
  BY Before
<1> HIDE DEF u, v
<1>2. ASSUME KeyLess(u, v) PROVE PairLess(p, q)
  <2>1. PICK i \in 1..Len(v) : /\ \A j \in 1..(i - 1) : u[j] = v[j]
                               /\ i <= Len(u) => PairLess(u[i], v[i])
    BY <1>2 DEF KeyLess
  <2>2. i = 1
    BY <1>1, <2>1
  <2> QED BY <1>1, <2>1, <2>2
<1>3. ASSUME PairLess(p, q) PROVE KeyLess(u, v)
  BY <1>1, <1>3 DEF KeyLess
<1> QED BY <1>2, <1>3 DEF u, v

\* Tails that compare alike where the heads are equal may replace each other.
LEMMA SameTails ==
  ASSUME NEW p \in Pairs, NEW q \in Pairs,
         NEW s \in Seq(Pairs), NEW t \in Seq(Pairs), NEW s2 \in Seq(Pairs), NEW t2 \in Seq(Pairs),
         p = q => (KeyLess(s, t) <=> KeyLess(s2, t2))
  PROVE  KeyLess(<<p>> \o s, <<q>> \o t) <=> KeyLess(<<p>> \o s2, <<q>> \o t2)
<1>1. CASE p = q
  <2>1. KeyLess(<<p>> \o s, <<p>> \o t) <=> KeyLess(s, t)
    BY SameHead
  <2>2. KeyLess(<<p>> \o s2, <<p>> \o t2) <=> KeyLess(s2, t2)
    BY SameHead
  <2> QED BY <1>1, <2>1, <2>2
<1>2. CASE p # q
  <2>1. KeyLess(<<p>> \o s, <<q>> \o t) <=> PairLess(p, q)
    BY <1>2, OtherHead
  <2>2. KeyLess(<<p>> \o s2, <<q>> \o t2) <=> PairLess(p, q)
    BY <1>2, OtherHead
  <2> QED BY <2>1, <2>2
<1> QED BY <1>1, <1>2

LEMMA TwoHeads ==
  ASSUME NEW p \in Pairs, NEW q \in Pairs, NEW s \in Seq(Pairs)
  PROVE  <<p, q>> \o s = <<p>> \o (<<q>> \o s)
<1>1. <<p>> \in Seq(Pairs) /\ <<q>> \in Seq(Pairs) /\ <<p, q>> \in Seq(Pairs)
  OBVIOUS
<1> DEFINE l == <<p>> \o <<q>>
           m == <<p, q>>
<1>2. /\ l \in Seq(Pairs) /\ m \in Seq(Pairs) /\ Len(l) = 2 /\ Len(m) = 2
      /\ l[1] = p /\ l[2] = q /\ m[1] = p /\ m[2] = q
  OBVIOUS
<1> HIDE DEF l, m
<1>3. Len(l) = Len(m) /\ \A i \in 1..Len(l) : l[i] = m[i]
  BY <1>2
<1>4. l = m
  BY <1>2, <1>3, SeqEqual
<1>5. <<p, q>> = <<p>> \o <<q>>
  BY <1>4 DEF l, m
<1>6. (<<p>> \o <<q>>) \o s = <<p>> \o (<<q>> \o s)
  BY <1>1, ConcatAssociative
<1> QED BY <1>5, <1>6

LEMMA ThreeHeads ==
  ASSUME NEW p \in Pairs, NEW q \in Pairs, NEW r \in Pairs, NEW s \in Seq(Pairs)
  PROVE  <<p, q, r>> \o s = <<p>> \o (<<q>> \o (<<r>> \o s))
<1>1. /\ <<p>> \in Seq(Pairs) /\ <<q>> \in Seq(Pairs) /\ <<r>> \in Seq(Pairs)
      /\ <<q, r>> \in Seq(Pairs) /\ <<p, q, r>> \in Seq(Pairs)
  OBVIOUS
<1> DEFINE l == <<p>> \o <<q, r>>
           m == <<p, q, r>>
<1>2. /\ l \in Seq(Pairs) /\ m \in Seq(Pairs) /\ Len(l) = 3 /\ Len(m) = 3
      /\ l[1] = p /\ l[2] = q /\ l[3] = r /\ m[1] = p /\ m[2] = q /\ m[3] = r
  OBVIOUS
<1> HIDE DEF l, m
<1>3. Len(l) = Len(m) /\ \A i \in 1..Len(l) : l[i] = m[i]
  BY <1>2
<1>4. l = m
  BY <1>2, <1>3, SeqEqual
<1>5. <<p, q, r>> = <<p>> \o <<q, r>>
  BY <1>4 DEF l, m
<1>6. (<<p>> \o <<q, r>>) \o s = <<p>> \o (<<q, r>> \o s)
  BY <1>1, ConcatAssociative
<1>7. <<q, r>> \o s = <<q>> \o (<<r>> \o s)
  BY TwoHeads
<1> QED BY <1>5, <1>6, <1>7

\* Versions in the parts the keys are made of.
LEMMA VersionParts ==
  ASSUME NEW v \in Version
  PROVE  /\ v.core \in Nat /\ v.letter \in Nat /\ v.pre \in Seq(Pairs)
         /\ v.letter = 0 \/ v.pre = <<>>
         /\ Rank(v) \in {0, 1, 2}
         /\ Rank(v) = 2 <=> v.letter > 0
         /\ Rank(v) = 0 <=> v.pre # <<>>
<1>1. v.core \in Nat /\ v.letter \in Nat /\ v.pre \in Seq(Token) /\ (v.letter = 0 \/ v.pre = <<>>)
  BY DEF Version
<1>2. \A i \in 1..Len(v.pre) : v.pre[i] \in Pairs
  BY <1>1 DEF Token, Pairs
<1>3. v.pre \in Seq(Pairs)
  BY <1>1, <1>2
<1> QED BY <1>1, <1>3 DEF Rank

\* The agent's key and the bot's, one element at a time.
LEMMA AgentKeyHeads ==
  ASSUME NEW v \in Version
  PROVE  AgentKey(v) = <<  <<v.core, 0>> >> \o (<< <<Rank(v), 0>> >> \o
                         (IF v.letter > 0 THEN << <<1, v.letter>> >> ELSE v.pre))
<1>1. <<v.core, 0>> \in Pairs /\ <<Rank(v), 0>> \in Pairs
  BY VersionParts DEF Pairs
<1>2. (IF v.letter > 0 THEN << <<1, v.letter>> >> ELSE v.pre) \in Seq(Pairs)
  <2>1. << <<1, v.letter>> >> \in Seq(Pairs)
    BY VersionParts DEF Pairs
  <2> QED BY <2>1, VersionParts
<1> QED BY <1>1, <1>2, TwoHeads DEF AgentKey

LEMMA BotKeyHeads ==
  ASSUME NEW v \in Version
  PROVE  BotKey(v) = << <<v.core, 0>> >> \o (<< <<Rank(v), 0>> >> \o (<< <<0, v.letter>> >> \o v.pre))
<1>1. <<v.core, 0>> \in Pairs /\ <<Rank(v), 0>> \in Pairs /\ <<0, v.letter>> \in Pairs
  BY VersionParts DEF Pairs
<1>2. v.pre \in Seq(Pairs)
  BY VersionParts
<1> QED BY <1>1, <1>2, ThreeHeads DEF BotKey

\* What follows the rank in the agent's key, and in the bot's.
AgentTail(v) == IF v.letter > 0 THEN << <<1, v.letter>> >> ELSE v.pre
BotTail(v) == << <<0, v.letter>> >> \o v.pre

LEMMA TailsType ==
  ASSUME NEW v \in Version
  PROVE  AgentTail(v) \in Seq(Pairs) /\ BotTail(v) \in Seq(Pairs)
<1>1. <<0, v.letter>> \in Pairs /\ <<1, v.letter>> \in Pairs
  BY VersionParts DEF Pairs
<1>2. v.pre \in Seq(Pairs)
  BY VersionParts
<1>3. BotTail(v) \in Seq(Pairs)
  BY <1>1, <1>2, Before DEF BotTail
<1>4. << <<1, v.letter>> >> \in Seq(Pairs)
  BY <1>1
<1>5. AgentTail(v) \in Seq(Pairs)
  BY <1>2, <1>4 DEF AgentTail
<1> QED BY <1>3, <1>5

\* Versions of one rank: both have a letter and no pre-release, or neither has one.
LEMMA TailsAgree ==
  ASSUME NEW v \in Version, NEW w \in Version, Rank(v) = Rank(w)
  PROVE  KeyLess(AgentTail(v), AgentTail(w)) <=> KeyLess(BotTail(v), BotTail(w))
<1>1. /\ v.letter \in Nat /\ w.letter \in Nat
      /\ v.letter > 0 <=> w.letter > 0
      /\ v.letter > 0 => v.pre = <<>> /\ w.pre = <<>>
  BY VersionParts
<1>2. v.pre \in Seq(Pairs) /\ w.pre \in Seq(Pairs)
  BY VersionParts
<1>3. CASE v.letter > 0
  <2> DEFINE x == <<1, v.letter>>
             y == <<1, w.letter>>
             z == <<0, v.letter>>
             u == <<0, w.letter>>
             e == <<>>
  <2>1. /\ x \in Pairs /\ y \in Pairs /\ z \in Pairs /\ u \in Pairs /\ e \in Seq(Pairs)
        /\ x = y <=> z = u
        /\ PairLess(x, y) <=> PairLess(z, u)
    BY <1>1 DEF Pairs, PairLess
  <2>2. AgentTail(v) = <<x>> \o e /\ AgentTail(w) = <<y>> \o e
    BY <1>1, <1>3, <2>1 DEF AgentTail
  <2>3. BotTail(v) = <<z>> \o e /\ BotTail(w) = <<u>> \o e
    BY <1>1, <1>3 DEF BotTail
  <2> HIDE DEF x, y, z, u, e
  <2>4. CASE x = y
    <3>1. KeyLess(<<x>> \o e, <<x>> \o e) <=> KeyLess(e, e)
      BY <2>1, SameHead
    <3>2. KeyLess(<<z>> \o e, <<z>> \o e) <=> KeyLess(e, e)
      BY <2>1, SameHead
    <3> QED BY <2>1, <2>2, <2>3, <2>4, <3>1, <3>2
  <2>5. CASE x # y
    <3>1. KeyLess(<<x>> \o e, <<y>> \o e) <=> PairLess(x, y)
      BY <2>1, <2>5, OtherHead
    <3>2. KeyLess(<<z>> \o e, <<u>> \o e) <=> PairLess(z, u)
      BY <2>1, <2>5, OtherHead
    <3> QED BY <2>1, <2>2, <2>3, <3>1, <3>2
  <2> QED BY <2>4, <2>5
<1>4. CASE ~(v.letter > 0)
  <2> DEFINE z == <<0, v.letter>>
             s == v.pre
             t == w.pre
  <2>1. z \in Pairs /\ s \in Seq(Pairs) /\ t \in Seq(Pairs)
    BY <1>1, <1>2 DEF Pairs
  <2>2. /\ AgentTail(v) = s /\ AgentTail(w) = t
        /\ BotTail(v) = <<z>> \o s /\ BotTail(w) = <<z>> \o t
    BY <1>1, <1>4 DEF AgentTail, BotTail
  <2> HIDE DEF z, s, t
  <2>3. KeyLess(<<z>> \o s, <<z>> \o t) <=> KeyLess(s, t)
    BY <2>1, SameHead
  <2> QED BY <2>2, <2>3
<1> QED BY <1>3, <1>4

\* The bot's version_key and the agent's _release_version_key order any two
\* versions alike, though only one of them has the letter between the rank and
\* the pre-release: what the agent offers as an update the bot's schedule takes
\* for one, and a rollback is older for both.
THEOREM OrdersAgree == \A v, w \in Version : AgentLess(v, w) <=> BotLess(v, w)
<1> SUFFICES ASSUME NEW v \in Version, NEW w \in Version
             PROVE  AgentLess(v, w) <=> BotLess(v, w)
  OBVIOUS
<1> DEFINE c == <<v.core, 0>>
           d == <<w.core, 0>>
           p == <<Rank(v), 0>>
           q == <<Rank(w), 0>>
           s == AgentTail(v)
           t == AgentTail(w)
           s2 == BotTail(v)
           t2 == BotTail(w)
<1>1. /\ c \in Pairs /\ d \in Pairs /\ p \in Pairs /\ q \in Pairs
      /\ p = q => Rank(v) = Rank(w)
  BY VersionParts DEF Pairs
<1>2. s \in Seq(Pairs) /\ t \in Seq(Pairs) /\ s2 \in Seq(Pairs) /\ t2 \in Seq(Pairs)
  BY TailsType
<1>3. p = q => (KeyLess(s, t) <=> KeyLess(s2, t2))
  BY <1>1, TailsAgree
<1>4. /\ AgentKey(v) = <<c>> \o (<<p>> \o s) /\ AgentKey(w) = <<d>> \o (<<q>> \o t)
      /\ BotKey(v) = <<c>> \o (<<p>> \o s2) /\ BotKey(w) = <<d>> \o (<<q>> \o t2)
  BY AgentKeyHeads, BotKeyHeads DEF AgentTail, BotTail
<1> HIDE DEF c, d, p, q, s, t, s2, t2
<1>5. KeyLess(<<p>> \o s, <<q>> \o t) <=> KeyLess(<<p>> \o s2, <<q>> \o t2)
  BY <1>1, <1>2, <1>3, SameTails
<1>6. /\ <<p>> \o s \in Seq(Pairs) /\ <<q>> \o t \in Seq(Pairs)
      /\ <<p>> \o s2 \in Seq(Pairs) /\ <<q>> \o t2 \in Seq(Pairs)
  BY <1>1, <1>2, Before
<1>7. KeyLess(AgentKey(v), AgentKey(w)) <=> KeyLess(BotKey(v), BotKey(w))
  <2> DEFINE m == <<p>> \o s
             n == <<q>> \o t
             m2 == <<p>> \o s2
             n2 == <<q>> \o t2
  <2>1. /\ m \in Seq(Pairs) /\ n \in Seq(Pairs) /\ m2 \in Seq(Pairs) /\ n2 \in Seq(Pairs)
        /\ c = d => (KeyLess(m, n) <=> KeyLess(m2, n2))
    BY <1>5, <1>6
  <2>2. /\ AgentKey(v) = <<c>> \o m /\ AgentKey(w) = <<d>> \o n
        /\ BotKey(v) = <<c>> \o m2 /\ BotKey(w) = <<d>> \o n2
    BY <1>4
  <2> HIDE DEF m, n, m2, n2
  <2>3. KeyLess(<<c>> \o m, <<d>> \o n) <=> KeyLess(<<c>> \o m2, <<d>> \o n2)
    BY <1>1, <2>1, SameTails
  <2> QED BY <2>2, <2>3
<1> QED BY <1>7 DEF AgentLess, BotLess

-----------------------------------------------------------------------------
(* KeyLess is a strict total order, and so is the agent's order of versions. *)

\* A non-empty set of numbers has a least one.
LEMMA LeastNat ==
  ASSUME NEW N, N \subseteq Nat, N # {}
  PROVE  \E m \in N : \A k \in N : m <= k
<1> DEFINE R == OpToRel(<, Nat)
<1>1. \E m \in N : \A k \in N : ~(<<k, m>> \in R)
  BY NatLessThanWellFounded, WFMin
<1>2. \A k, m \in Nat : <<k, m>> \in R <=> k < m
  BY DEF OpToRel
<1> HIDE DEF R
<1>3. PICK m \in N : \A k \in N : ~(<<k, m>> \in R)
  BY <1>1
<1>4. ASSUME NEW k \in N PROVE ~(k < m)
  BY <1>2, <1>3, Zenon
<1>5. \A k \in N : m <= k
  BY <1>4
<1> QED BY <1>5

LEMMA PairOrder ==
  ASSUME NEW p \in Pairs, NEW q \in Pairs, NEW r \in Pairs
  PROVE  /\ ~PairLess(p, p)
         /\ PairLess(p, q) /\ PairLess(q, r) => PairLess(p, r)
         /\ p # q => PairLess(p, q) \/ PairLess(q, p)
  BY DEF PairLess, Pairs

LEMMA KeyIrreflexive ==
  ASSUME NEW s \in Seq(Pairs)
  PROVE  ~KeyLess(s, s)
<1> SUFFICES ASSUME KeyLess(s, s) PROVE FALSE
  OBVIOUS
<1>1. PICK i \in 1..Len(s) : i <= Len(s) => PairLess(s[i], s[i])
  BY DEF KeyLess
<1> QED BY <1>1, PairOrder

LEMMA KeyTransitive ==
  ASSUME NEW s \in Seq(Pairs), NEW t \in Seq(Pairs), NEW u \in Seq(Pairs),
         KeyLess(s, t), KeyLess(t, u)
  PROVE  KeyLess(s, u)
<1>1. PICK i \in 1..Len(t) : /\ i <= Len(s) + 1
                             /\ \A j \in 1..(i - 1) : s[j] = t[j]
                             /\ i <= Len(s) => PairLess(s[i], t[i])
  BY DEF KeyLess
<1>2. PICK k \in 1..Len(u) : /\ k <= Len(t) + 1
                             /\ \A j \in 1..(k - 1) : t[j] = u[j]
                             /\ k <= Len(t) => PairLess(t[k], u[k])
  BY DEF KeyLess
<1>3. Len(s) \in Nat /\ Len(t) \in Nat /\ Len(u) \in Nat
  OBVIOUS
<1>4. CASE i < k
  <2>1. i \in 1..Len(u) /\ t[i] = u[i]
    BY <1>1, <1>2, <1>3, <1>4
  <2>2. \A j \in 1..(i - 1) : s[j] = u[j]
    BY <1>1, <1>2, <1>3, <1>4
  <2> QED BY <1>1, <2>1, <2>2 DEF KeyLess
<1>5. CASE k <= i
  <2>1. k <= Len(s) + 1 /\ k <= Len(t)
    BY <1>1, <1>2, <1>3, <1>5
  <2>2. \A j \in 1..(k - 1) : s[j] = u[j]
    BY <1>1, <1>2, <1>3, <1>5
  <2>3. ASSUME k <= Len(s) PROVE PairLess(s[k], u[k])
    <3>1. s[k] \in Pairs /\ t[k] \in Pairs /\ u[k] \in Pairs
      BY <1>1, <1>2, <1>3, <2>1, <2>3
    <3>2. PairLess(t[k], u[k])
      BY <1>2, <2>1
    <3>3. s[k] = t[k] \/ PairLess(s[k], t[k])
      BY <1>1, <1>2, <1>3, <1>5, <2>3
    <3> QED BY <3>1, <3>2, <3>3, PairOrder
  <2> QED BY <1>2, <2>1, <2>2, <2>3 DEF KeyLess
<1> QED BY <1>1, <1>2, <1>4, <1>5

LEMMA KeyTotal ==
  ASSUME NEW s \in Seq(Pairs), NEW t \in Seq(Pairs), s # t
  PROVE  KeyLess(s, t) \/ KeyLess(t, s)
<1> DEFINE D == {i \in 1..Len(s) : i <= Len(t) /\ s[i] # t[i]}
<1>1. Len(s) \in Nat /\ Len(t) \in Nat
  OBVIOUS
<1>2. CASE D = {}
  <2>1. \A i \in 1..Len(s) : i <= Len(t) => s[i] = t[i]
    BY <1>2
  <2>2. Len(s) # Len(t)
    BY <1>1, <2>1, SeqEqual
  <2>3. CASE Len(s) < Len(t)
    <3>1. Len(s) + 1 \in 1..Len(t) /\ ~(Len(s) + 1 <= Len(s))
      BY <1>1, <2>3
    <3>2. \A j \in 1..((Len(s) + 1) - 1) : s[j] = t[j]
      BY <1>1, <2>1, <2>3
    <3> QED BY <1>1, <3>1, <3>2 DEF KeyLess
  <2>4. CASE Len(t) < Len(s)
    <3>1. Len(t) + 1 \in 1..Len(s) /\ ~(Len(t) + 1 <= Len(t))
      BY <1>1, <2>4
    <3>2. \A j \in 1..((Len(t) + 1) - 1) : t[j] = s[j]
      BY <1>1, <2>1, <2>4
    <3> QED BY <1>1, <3>1, <3>2 DEF KeyLess
  <2> QED BY <1>1, <2>2, <2>3, <2>4
<1>3. CASE D # {}
  <2>0. D \subseteq Nat
    BY <1>1
  <2>1. PICK i \in D : \A k \in D : i <= k
    <3> HIDE DEF D
    <3> QED BY <1>3, <2>0, LeastNat
  <2>2. /\ i \in 1..Len(s) /\ i \in 1..Len(t) /\ s[i] # t[i]
        /\ s[i] \in Pairs /\ t[i] \in Pairs
    BY <1>1, <2>1
  <2>3. \A j \in 1..(i - 1) : s[j] = t[j]
    BY <1>1, <2>1, <2>2
  <2>4. PairLess(s[i], t[i]) \/ PairLess(t[i], s[i])
    BY <2>2, PairOrder
  <2>5. i <= Len(s) + 1 /\ i <= Len(t) + 1
    BY <1>1, <2>2
  <2> HIDE DEF D
  <2> QED BY <2>2, <2>3, <2>4, <2>5 DEF KeyLess
<1> QED BY <1>2, <1>3

LEMMA AgentKeyType ==
  ASSUME NEW v \in Version
  PROVE  AgentKey(v) \in Seq(Pairs)
<1>1. <<v.core, 0>> \in Pairs /\ <<Rank(v), 0>> \in Pairs
  BY VersionParts DEF Pairs
<1>2. << <<Rank(v), 0>> >> \o AgentTail(v) \in Seq(Pairs)
  BY <1>1, TailsType, Before
<1> QED BY <1>1, <1>2, AgentKeyHeads, Before DEF AgentTail

\* A tail orders what the core and the rank leave open: the letter of a hotfix,
\* or the tokens of a pre-release.
LEMMA TailsMeant ==
  ASSUME NEW v \in Version, NEW w \in Version, Rank(v) = Rank(w)
  PROVE  KeyLess(AgentTail(v), AgentTail(w)) <=>
           \/ v.pre = <<>> /\ w.pre = <<>> /\ v.letter < w.letter
           \/ v.pre # <<>> /\ w.pre # <<>> /\ KeyLess(v.pre, w.pre)
<1>1. /\ v.letter \in Nat /\ w.letter \in Nat
      /\ v.letter > 0 <=> w.letter > 0
      /\ v.letter > 0 => v.pre = <<>> /\ w.pre = <<>>
      /\ v.pre = <<>> <=> w.pre = <<>>
      /\ v.pre \in Seq(Pairs) /\ w.pre \in Seq(Pairs)
  BY VersionParts
<1>2. CASE v.letter > 0
  <2> DEFINE x == <<1, v.letter>>
             y == <<1, w.letter>>
             e == <<>>
  <2>1. /\ x \in Pairs /\ y \in Pairs /\ e \in Seq(Pairs)
        /\ PairLess(x, y) <=> v.letter < w.letter
        /\ AgentTail(v) = <<x>> \o e /\ AgentTail(w) = <<y>> \o e
    BY <1>1, <1>2 DEF Pairs, PairLess, AgentTail
  <2> HIDE DEF x, y, e
  <2>2. CASE x = y
    <3>1. KeyLess(<<x>> \o e, <<x>> \o e) <=> KeyLess(e, e)
      BY <2>1, SameHead
    <3>2. ~KeyLess(e, e) /\ ~PairLess(x, x)
      BY <2>1, KeyIrreflexive, PairOrder
    <3> QED BY <1>1, <1>2, <2>1, <2>2, <3>1, <3>2
  <2>3. CASE x # y
    <3>1. KeyLess(<<x>> \o e, <<y>> \o e) <=> PairLess(x, y)
      BY <2>1, <2>3, OtherHead
    <3> QED BY <1>1, <1>2, <2>1, <3>1
  <2> QED BY <2>2, <2>3
<1>3. CASE ~(v.letter > 0)
  <2>1. AgentTail(v) = v.pre /\ AgentTail(w) = w.pre /\ ~(v.letter < w.letter)
    BY <1>1, <1>3 DEF AgentTail
  <2>2. ~KeyLess(v.pre, v.pre)
    BY <1>1, KeyIrreflexive
  <2> QED BY <1>1, <2>1, <2>2
<1> QED BY <1>2, <1>3

\* The agent's key gives versions the order its comments describe: hotfix letters
\* after their release, pre-releases before it and by their numbers, not by text.
\* The worker has the same key, and the bot's orders alike (OrdersAgree).
THEOREM OrderMeant == \A v, w \in Version : AgentLess(v, w) <=> Precedes(v, w)
<1> SUFFICES ASSUME NEW v \in Version, NEW w \in Version
             PROVE  AgentLess(v, w) <=> Precedes(v, w)
  OBVIOUS
<1> DEFINE c == <<v.core, 0>>
           d == <<w.core, 0>>
           p == <<Rank(v), 0>>
           q == <<Rank(w), 0>>
           s == AgentTail(v)
           t == AgentTail(w)
<1>1. /\ c \in Pairs /\ d \in Pairs /\ p \in Pairs /\ q \in Pairs
      /\ s \in Seq(Pairs) /\ t \in Seq(Pairs)
  BY VersionParts, TailsType DEF Pairs
<1>2. /\ c = d <=> v.core = w.core
      /\ PairLess(c, d) <=> v.core < w.core
      /\ p = q <=> Rank(v) = Rank(w)
      /\ PairLess(p, q) <=> Rank(v) < Rank(w)
  <2>1. v.core \in Nat /\ w.core \in Nat /\ Rank(v) \in Nat /\ Rank(w) \in Nat
    BY VersionParts
  <2> QED BY <2>1 DEF PairLess
<1>3. /\ v.core \in Nat /\ w.core \in Nat /\ v.letter \in Nat /\ w.letter \in Nat
      /\ v.letter > 0 => v.pre = <<>>
      /\ w.letter > 0 => w.pre = <<>>
      /\ Rank(v) \in {0, 1, 2} /\ Rank(w) \in {0, 1, 2}
      /\ Rank(v) = 2 <=> v.letter > 0
      /\ Rank(w) = 2 <=> w.letter > 0
      /\ Rank(v) = 0 <=> v.pre # <<>>
      /\ Rank(w) = 0 <=> w.pre # <<>>
  BY VersionParts
<1>4. AgentLess(v, w) <=> KeyLess(<<c>> \o (<<p>> \o s), <<d>> \o (<<q>> \o t))
  BY AgentKeyHeads DEF AgentLess, AgentTail
<1> DEFINE lower == \/ v.pre # <<>> /\ w.pre = <<>>
                    \/ v.pre = <<>> /\ w.pre = <<>> /\ v.letter < w.letter
                    \/ v.pre # <<>> /\ w.pre # <<>> /\ KeyLess(v.pre, w.pre)
<1>5. Rank(v) = Rank(w) => (KeyLess(s, t) <=> lower)
  BY <1>3, TailsMeant
<1>6. Rank(v) # Rank(w) => (Rank(v) < Rank(w) <=> lower)
  <2>1. CASE Rank(v) = 0
    BY <1>3, <2>1
  <2>2. CASE Rank(v) = 1
    BY <1>3, <2>2
  <2>3. CASE Rank(v) = 2
    BY <1>3, <2>3
  <2> QED BY <1>3, <2>1, <2>2, <2>3
<1>7. Precedes(v, w) <=> v.core < w.core \/ (v.core = w.core /\ lower)
  BY DEF Precedes
<1> HIDE DEF c, d, p, q, s, t, lower
<1>8. /\ p = q => (KeyLess(<<p>> \o s, <<q>> \o t) <=> KeyLess(s, t))
      /\ p # q => (KeyLess(<<p>> \o s, <<q>> \o t) <=> PairLess(p, q))
  BY <1>1, SameHead, OtherHead
<1>9. KeyLess(<<p>> \o s, <<q>> \o t) <=> lower
  BY <1>2, <1>5, <1>6, <1>8
<1>10. <<p>> \o s \in Seq(Pairs) /\ <<q>> \o t \in Seq(Pairs)
  BY <1>1, Before
<1> DEFINE m == <<p>> \o s
           n == <<q>> \o t
<1>11. m \in Seq(Pairs) /\ n \in Seq(Pairs) /\ (KeyLess(m, n) <=> lower)
       /\ (AgentLess(v, w) <=> KeyLess(<<c>> \o m, <<d>> \o n))
  BY <1>4, <1>9, <1>10
<1> HIDE DEF m, n
<1>12. /\ c = d => (KeyLess(<<c>> \o m, <<d>> \o n) <=> KeyLess(m, n))
       /\ c # d => (KeyLess(<<c>> \o m, <<d>> \o n) <=> PairLess(c, d))
  BY <1>1, <1>11, SameHead, OtherHead
<1> QED BY <1>2, <1>3, <1>7, <1>11, <1>12

\* The order is strict and total: of any two different versions exactly one is
\* newer, so "the newest release" names one version whatever GitHub lists.
THEOREM VersionsOrdered ==
  /\ \A v \in Version : ~AgentLess(v, v)
  /\ \A u, v, w \in Version : AgentLess(u, v) /\ AgentLess(v, w) => AgentLess(u, w)
  /\ \A v, w \in Version : v # w => AgentLess(v, w) \/ AgentLess(w, v)
<1>1. ASSUME NEW v \in Version PROVE ~AgentLess(v, v)
  BY AgentKeyType, KeyIrreflexive DEF AgentLess
<1>2. ASSUME NEW u \in Version, NEW v \in Version, NEW w \in Version,
             AgentLess(u, v), AgentLess(v, w)
      PROVE  AgentLess(u, w)
  BY <1>2, AgentKeyType, KeyTransitive DEF AgentLess
<1>3. ASSUME NEW v \in Version, NEW w \in Version, v # w
      PROVE  AgentLess(v, w) \/ AgentLess(w, v)
  <2>1. SUFFICES Precedes(v, w) \/ Precedes(w, v)
    BY OrderMeant
  <2>2. /\ v.core \in Nat /\ w.core \in Nat /\ v.letter \in Nat /\ w.letter \in Nat
        /\ v.pre \in Seq(Pairs) /\ w.pre \in Seq(Pairs)
        /\ v.letter = 0 \/ v.pre = <<>>
        /\ w.letter = 0 \/ w.pre = <<>>
    BY VersionParts
  <2>3. v.core # w.core \/ v.letter # w.letter \/ v.pre # w.pre
    BY <1>3 DEF Version
  <2>4. v.pre # w.pre => KeyLess(v.pre, w.pre) \/ KeyLess(w.pre, v.pre)
    BY <2>2, KeyTotal
  <2> QED BY <2>2, <2>3, <2>4 DEF Precedes
<1> QED BY <1>1, <1>2, <1>3

-----------------------------------------------------------------------------
(* What the agent chooses from a list exists and is a published release.   *)

\* A non-empty set of releases has a newest one: one with the fewest newer ones.
LEMMA NewestExists ==
  ASSUME NEW S, S \subseteq Releases, S # {}
  PROVE  \E r \in S : \A s \in S : ~AgentLess(r.version, s.version)
<1> DEFINE Newer(r) == {s \in S : AgentLess(r.version, s.version)}
           N == {Cardinality(Newer(r)) : r \in S}
<1>1. IsFiniteSet(S)
  BY ReleasesAssumption, FS_Subset
<1>2. \A r \in S : r.version \in Version
  BY ReleasesAssumption DEF Release
<1>3. \A r \in S : IsFiniteSet(Newer(r)) /\ Cardinality(Newer(r)) \in Nat
  <2> SUFFICES ASSUME NEW r \in S
               PROVE  IsFiniteSet(Newer(r)) /\ Cardinality(Newer(r)) \in Nat
    OBVIOUS
  <2>1. Newer(r) \in SUBSET S
    OBVIOUS
  <2> QED BY <1>1, <2>1, FS_Subset, FS_CardinalityType
<1>4. PICK r \in S : \A s \in S : Cardinality(Newer(r)) <= Cardinality(Newer(s))
  <2>1. N \subseteq Nat /\ N # {}
    BY <1>3
  <2>2. PICK m \in N : \A k \in N : m <= k
    <3> HIDE DEF N
    <3> QED BY <2>1, LeastNat
  <2> QED BY <2>2
<1>5. ASSUME NEW s \in S, AgentLess(r.version, s.version) PROVE FALSE
  <2>1. s \in Newer(r) /\ s \notin Newer(s)
    BY <1>2, <1>5, VersionsOrdered
  <2>2. \A u \in Newer(s) : AgentLess(r.version, u.version)
    BY <1>2, <1>5, VersionsOrdered
  <2>3. Newer(s) \in SUBSET (Newer(r) \ {s})
    BY <2>1, <2>2
  <2>4. IsFiniteSet(Newer(r)) /\ IsFiniteSet(Newer(s))
        /\ Cardinality(Newer(r)) \in Nat /\ Cardinality(Newer(s)) \in Nat
    BY <1>3
  <2> HIDE DEF Newer
  <2>5. /\ IsFiniteSet(Newer(r) \ {s})
        /\ Cardinality(Newer(r) \ {s}) = Cardinality(Newer(r)) - 1
    BY <2>1, <2>4, FS_RemoveElement
  <2>6. Cardinality(Newer(s)) <= Cardinality(Newer(r) \ {s})
    BY <2>3, <2>5, FS_Subset
  <2> QED BY <1>4, <2>4, <2>5, <2>6
<1> QED BY <1>5

LEMMA Listed ==
  ASSUME TypeOK
  PROVE  /\ Candidates \subseteq Releases /\ Earlier \subseteq Candidates
         /\ Options \subseteq Kept /\ Kept \subseteq Earlier
         /\ running \in Version
         /\ \A r \in Releases : r.version \in Version /\ r.version \in Published
         /\ Published \subseteq Version /\ None \notin Published
<1>1. /\ Candidates \subseteq Releases /\ Earlier \subseteq Candidates
      /\ Options \subseteq Kept /\ Kept \subseteq Earlier
  BY DEF TypeOK, Candidates, Earlier, Kept, Options
<1>2. /\ \A r \in Releases : r.version \in Version /\ r.version \in Published
      /\ Published \subseteq Version /\ None \notin Published
  BY ReleasesAssumption, NoneAssumption DEF Release, Published
<1>3. running \in Version
  BY <1>2, StartsAssumption DEF TypeOK, All
<1> QED BY <1>1, <1>2, <1>3

LEMMA LatestChosen ==
  ASSUME TypeOK, Candidates # {}
  PROVE  Latest \in Candidates /\ \A s \in Candidates : ~AgentLess(Latest.version, s.version)
<1>1. \E r \in Candidates : \A s \in Candidates : ~AgentLess(r.version, s.version)
  BY Listed, NewestExists
<1> QED BY <1>1 DEF Latest

LEMMA PreviousChosen ==
  ASSUME TypeOK, Options # {}
  PROVE  Previous \in Options
<1>1. \E r \in Options : \A s \in Options : ~AgentLess(r.version, s.version)
  BY Listed, NewestExists
<1> QED BY <1>1 DEF Previous

LEMMA AvailableIsNewer ==
  ASSUME TypeOK, Available
  PROVE  Latest \in Releases /\ AgentLess(running, Latest.version)
  BY LatestChosen, Listed DEF Available

-----------------------------------------------------------------------------
(* The lists.                                                              *)

\* What the agent calls an update the bot's schedule does not take for an older
\* version, whatever GitHub lists.
LEMMA OffersAgreeLemma == TypeOK => OffersAgree
<1> SUFFICES ASSUME TypeOK, Available PROVE BotLess(running, Latest.version)
  BY DEF OffersAgree
<1>1. AgentLess(running, Latest.version) /\ running \in Version /\ Latest.version \in Version
  BY AvailableIsNewer, Listed
<1> QED BY <1>1, OrdersAgree

\* A line has a release on the list before it is cut, as new as any that was left
\* out, and what is kept for its own sake is on it.
LEMMA LineKept ==
  ASSUME TypeOK, NEW r \in Earlier
  PROVE  /\ SameLine(r.version, running) \/ ApprovedTarget(r.version) => r \in Kept
         /\ \E s \in Kept : SameLine(s.version, r.version) /\ ~AgentLess(s.version, r.version)
<1> DEFINE grouped == {s \in Earlier : ~SameLine(s.version, running) /\ ~ApprovedTarget(s.version)}
           Line == {s \in grouped : SameLine(s.version, r.version)}
<1>1. Kept = {s \in Earlier : s \in grouped => \A u \in grouped :
                SameLine(u.version, s.version) => ~AgentLess(s.version, u.version)}
  BY DEF Kept
<1>2. CASE r \notin grouped
  <2>1. r \in Kept
    BY <1>1, <1>2
  <2>2. SameLine(r.version, r.version) /\ ~AgentLess(r.version, r.version)
    BY Listed, VersionsOrdered DEF SameLine
  <2> QED BY <2>1, <2>2
<1>3. CASE r \in grouped
  <2>1. Line \subseteq Releases /\ r \in Line
    BY <1>3, Listed DEF SameLine
  <2>2. PICK m \in Line : \A s \in Line : ~AgentLess(m.version, s.version)
    <3> HIDE DEF Line
    <3> QED BY <2>1, NewestExists
  <2>3. \A u \in grouped : SameLine(u.version, m.version) => u \in Line
    BY <2>2 DEF SameLine
  <2>4. m \in Kept /\ SameLine(m.version, r.version) /\ ~AgentLess(m.version, r.version)
    BY <1>1, <2>1, <2>2, <2>3
  <2> QED BY <1>3, <2>4
<1> QED BY <1>2, <1>3

\* Of a finite set of versions, those with fewer than k above them are at most k,
\* and a version that is not among them has k of them above it.
LEMMA NewestFew ==
  ASSUME NEW V, V \subseteq Version, IsFiniteSet(V), NEW k \in Nat, k > 0,
         NEW T, T = {v \in V : Cardinality(Above(v, V)) < k}
  PROVE  /\ Cardinality(T) <= k
         /\ \A v \in V \ T : Cardinality(T) = k /\ \A t \in T : AgentLess(v, t)
<1> DEFINE count(v) == Cardinality(Above(v, V))
<1>1. \A v \in V : Above(v, V) \subseteq V /\ IsFiniteSet(Above(v, V)) /\ count(v) \in Nat
  <2> SUFFICES ASSUME NEW v \in V
               PROVE  Above(v, V) \subseteq V /\ IsFiniteSet(Above(v, V)) /\ count(v) \in Nat
    OBVIOUS
  <2>1. Above(v, V) \in SUBSET V
    BY DEF Above
  <2> QED BY <2>1, FS_Subset, FS_CardinalityType
<1>2. ASSUME NEW v \in V, NEW w \in V, AgentLess(v, w) PROVE count(w) < count(v)
  <2>1. w \in Above(v, V)
    BY <1>2 DEF Above
  <2>2. Above(w, V) \in SUBSET (Above(v, V) \ {w})
    BY <1>2, VersionsOrdered DEF Above
  <2>3. /\ IsFiniteSet(Above(v, V) \ {w})
        /\ Cardinality(Above(v, V) \ {w}) = count(v) - 1
    BY <1>1, <2>1, FS_RemoveElement
  <2>4. count(w) <= Cardinality(Above(v, V) \ {w})
    BY <2>2, <2>3, FS_Subset
  <2> QED BY <1>1, <2>3, <2>4
<1>3. T \in SUBSET V /\ \A v \in V : v \in T <=> count(v) < k
  OBVIOUS
<1>4. IsFiniteSet(T) /\ Cardinality(T) \in Nat
  BY <1>3, FS_Subset, FS_CardinalityType
<1> HIDE DEF count
<1>5. Cardinality(T) <= k
  <2>1. CASE T = {}
    BY <2>1, FS_EmptySet
  <2>2. CASE T # {}
    <3> DEFINE N == {k - count(t) : t \in T}
    <3>1. N \subseteq Nat /\ N # {}
      BY <1>1, <1>3, <2>2
    <3>2. PICK n \in N : \A m \in N : n <= m
      <4> HIDE DEF N
      <4> QED BY <3>1, LeastNat
    <3>3. PICK x \in T : \A t \in T : k - count(x) <= k - count(t)
      BY <3>2
    <3>4. ASSUME NEW t \in T, t # x PROVE t \in Above(x, V)
      <4>1. ~AgentLess(t, x)
        BY <1>1, <1>2, <1>3, <3>3
      <4>2. AgentLess(x, t)
        BY <1>3, <3>4, <4>1, VersionsOrdered
      <4> QED BY <1>3, <4>2 DEF Above
    <3>5. (T \ {x}) \in SUBSET Above(x, V)
      BY <3>4
    <3>6. Cardinality(T \ {x}) = Cardinality(T) - 1
      BY <1>4, FS_RemoveElement
    <3>7. Cardinality(T \ {x}) <= count(x)
      BY <1>1, <1>3, <3>5, FS_Subset DEF count
    <3> QED BY <1>1, <1>3, <1>4, <3>6, <3>7
  <2> QED BY <2>1, <2>2
<1>6. ASSUME NEW v \in V \ T, NEW t \in T PROVE AgentLess(v, t)
  <2>1. ~AgentLess(t, v)
    BY <1>1, <1>2, <1>3
  <2> QED BY <1>3, <2>1, VersionsOrdered
<1>7. ASSUME V \ T # {} PROVE k <= Cardinality(T)
  <2> DEFINE N == {count(v) : v \in V \ T}
  <2>1. N \subseteq Nat /\ N # {}
    BY <1>1, <1>7
  <2>2. PICK n \in N : \A m \in N : n <= m
    <3> HIDE DEF N
    <3> QED BY <2>1, LeastNat
  <2>3. PICK y \in V \ T : \A v \in V \ T : count(y) <= count(v)
    BY <2>2
  <2>4. ASSUME NEW w \in Above(y, V) PROVE w \in T
    <3>1. w \in V /\ AgentLess(y, w)
      BY DEF Above
    <3> QED BY <1>1, <1>2, <2>3, <3>1
  <2>5. Above(y, V) \in SUBSET T
    BY <2>4
  <2>6. count(y) <= Cardinality(T)
    BY <1>4, <2>5, FS_Subset DEF count
  <2> QED BY <1>1, <1>3, <1>4, <2>3, <2>6
<1>8. ASSUME NEW v \in V \ T PROVE Cardinality(T) = k
  BY <1>4, <1>5, <1>7
<1> QED BY <1>5, <1>6, <1>8

\* The list holds at most MaxOptions versions, and what is cut off is older than
\* all of a full list.
LEMMA CutOff ==
  ASSUME TypeOK
  PROVE  /\ Cardinality(Versions(Options)) <= MaxOptions
         /\ \A r \in Kept \ Options :
              /\ Cardinality(Versions(Options)) = MaxOptions
              /\ \A s \in Options : AgentLess(r.version, s.version)
<1> DEFINE V == Versions(Kept)
           T == {v \in V : Cardinality(Above(v, V)) < MaxOptions}
<1>1. Kept \subseteq Releases /\ IsFiniteSet(Kept)
  BY Listed, ReleasesAssumption, FS_Subset
<1>2. V \subseteq Version
  BY <1>1, Listed DEF Versions
<1>3. IsFiniteSet(V)
  <2> DEFINE f == [r \in Kept |-> r.version]
  <2>1. f \in Surjection(Kept, V)
    BY DEF Surjection, Versions
  <2> HIDE DEF f, V
  <2> QED BY <1>1, <2>1, FS_Surjection
<1>4. \A r \in Kept : r.version \in V /\ (r \in Options <=> r.version \in T)
  BY DEF Options, Versions
<1>5. Versions(Options) = T
  BY <1>4, Listed DEF Versions
<1>6. MaxOptions \in Nat /\ MaxOptions > 0
  BY BoundAssumption
<1>7. /\ Cardinality(T) <= MaxOptions
      /\ \A v \in V \ T : Cardinality(T) = MaxOptions /\ \A t \in T : AgentLess(v, t)
  <2> HIDE DEF V
  <2> QED BY <1>2, <1>3, <1>6, NewestFew
<1> HIDE DEF V, T
<1> QED BY <1>4, <1>5, <1>7, Listed

LEMMA OptionsReachBackLemma == TypeOK => OptionsReachBack
<1> SUFFICES ASSUME TypeOK PROVE OptionsReachBack
  OBVIOUS
<1> DEFINE full == Cardinality(Versions(Options)) = MaxOptions
<1>1. \A r \in Candidates : r.version \in Version /\
        (AgentLess(r.version, running) <=> Precedes(r.version, running))
  BY Listed, OrderMeant
<1>2. ASSUME NEW r \in Options PROVE Precedes(r.version, running) /\ r.verified
  <2>1. r \in Earlier /\ r \in Candidates
    BY Listed
  <2> QED BY <1>1, <2>1, Zenon DEF Earlier
<1>3. ASSUME NEW r \in Candidates, r.verified, Precedes(r.version, running),
             ~(full /\ \A s \in Options : Precedes(r.version, s.version))
      PROVE  /\ SameLine(r.version, running) \/ ApprovedTarget(r.version) => r \in Options
             /\ \E s \in Options : SameLine(s.version, r.version)
  <2>1. r \in Earlier
    BY <1>1, <1>3, Zenon DEF Earlier
  <2>2. PICK s \in Kept : SameLine(s.version, r.version) /\ ~AgentLess(s.version, r.version)
    BY <2>1, LineKept
  <2>3. ~(full /\ \A t \in Options : AgentLess(r.version, t.version))
    <3>1. \A t \in Options : t.version \in Version
      BY Listed
    <3> QED BY <1>1, <1>3, <3>1, OrderMeant
  <2>4. SameLine(r.version, running) \/ ApprovedTarget(r.version) => r \in Options
    BY <2>1, <2>3, LineKept, CutOff
  <2>5. s \in Options
    <3> SUFFICES ASSUME s \notin Options PROVE FALSE
      OBVIOUS
    <3>1. full /\ \A t \in Options : AgentLess(s.version, t.version)
      BY CutOff
    <3>2. r.version = s.version \/ AgentLess(r.version, s.version)
      BY <1>1, <2>2, Listed, VersionsOrdered
    <3>3. \A t \in Options : AgentLess(r.version, t.version)
      BY <1>1, <3>1, <3>2, Listed, VersionsOrdered
    <3> QED BY <2>3, <3>1, <3>3
  <2> QED BY <2>2, <2>4, <2>5
<1>4. Cardinality(Versions(Options)) <= MaxOptions
  BY CutOff
<1> QED BY <1>2, <1>3, <1>4, Zenon DEF OptionsReachBack

-----------------------------------------------------------------------------
(* One request from the look at the list to its end.                       *)

LEMMA AskStep ==
  ASSUME TypeOK, ChoiceInv, NEW kind \in Kinds, NEW v \in All, Ask(kind, v)
  PROVE  TypeOK' /\ ChoiceInv'
<1>1. /\ intent' = [at |-> "asked", kind |-> kind, seen |-> v]
      /\ UNCHANGED <<listing, changes, running, retained, settings, job>>
  BY DEF Ask, world
<1>2. intent'.seen \in All
  BY <1>1
<1>3. TypeOK'
  BY <1>1 DEF TypeOK
<1> QED BY <1>1, <1>2, <1>3 DEF ChoiceInv, ChoiceSeen, JobAsAsked

LEMMA QueueStep ==
  ASSUME TypeOK, ChoiceInv, NEW kind \in Kinds, NEW v \in Published \cup {None}, Queue(kind, v),
         kind \in {"auto", "update"} => v # None /\ AgentLess(running, v),
         v = None => retained # None,
         kind = "select" /\ v = None => retained = intent.seen
  PROVE  TypeOK' /\ ChoiceInv'
<1>1. /\ job' = [kind |-> kind, version |-> v, seen |-> intent.seen]
      /\ intent' = NoIntent
      /\ UNCHANGED <<listing, changes, running, retained, settings>>
  BY DEF Queue, world
<1>2. job' \in [kind : Kinds, version : Published \cup {None}, seen : All \cup {None}]
  BY <1>1 DEF TypeOK
<1>3. TypeOK'
  BY <1>1, <1>2 DEF TypeOK, NoIntent
<1>4. JobAsAsked'
  <2>1. /\ job'.kind = kind /\ job'.version = v
        /\ job'.seen = intent.seen /\ running' = running /\ retained' = retained
    BY <1>1
  <2> QED BY <2>1, Zenon DEF JobAsAsked
<1>5. ChoiceSeen'
  BY <1>1 DEF ChoiceSeen, NoIntent
<1> QED BY <1>3, <1>4, <1>5 DEF ChoiceInv

LEMMA InstallStep ==
  ASSUME TypeOK, ChoiceInv, NEW v \in All, Install(v)
  PROVE  TypeOK' /\ ChoiceInv'
<1>1. /\ running' = v /\ retained' = running /\ job' = None
      /\ UNCHANGED <<listing, changes, settings, intent>>
  BY DEF Install, world
<1>2. TypeOK'
  BY <1>1 DEF TypeOK
<1> QED BY <1>1, <1>2 DEF ChoiceInv, ChoiceSeen, JobAsAsked

\* Every step keeps the types and what a queued request promises.
LEMMA ChoiceStep == TypeOK /\ ChoiceInv /\ [Next]_vars => TypeOK' /\ ChoiceInv'
<1> SUFFICES ASSUME TypeOK, ChoiceInv, [Next]_vars PROVE TypeOK' /\ ChoiceInv'
  OBVIOUS
<1> USE DEF Kinds
<1>0. /\ Candidates \subseteq Releases /\ Options \subseteq Releases
      /\ \A r \in Releases : r.version \in Published /\ r.version \in All
      /\ None \notin Published /\ Published \subseteq All
  BY Listed DEF All
<1>1. CASE AutoAsks \/ UpdateAsked
  <2>1. Latest.version \in All
    BY <1>0, <1>1, AvailableIsNewer DEF AutoAsks, UpdateAsked
  <2> QED BY <1>1, <2>1, AskStep DEF AutoAsks, UpdateAsked
<1>2. CASE SelectAsked
  <2>1. PICK r \in Options : Ask("select", r.version)
    BY <1>2 DEF SelectAsked
  <2> QED BY <1>0, <2>1, AskStep
<1>3. CASE RetainedAsked
  <2>1. retained \in All
    BY <1>3 DEF RetainedAsked, TypeOK
  <2> QED BY <1>3, <2>1, AskStep DEF RetainedAsked
<1>4. CASE Send
  <2>1. /\ intent' \in {[intent EXCEPT !.at = "sent"], NoIntent}
        /\ UNCHANGED <<listing, changes, running, retained, settings, job>>
    BY <1>4, Zenon DEF Send, world
  <2>2. TypeOK'
    BY <2>1 DEF TypeOK, NoIntent
  <2>3. ChoiceSeen'
    BY <2>1 DEF TypeOK, ChoiceInv, ChoiceSeen, NoIntent
  <2> QED BY <2>1, <2>2, <2>3 DEF ChoiceInv, JobAsAsked
<1>5. CASE QueueUpdate
  <2>1. /\ Available /\ intent.kind \in {"auto", "update"}
        /\ Queue(intent.kind, Latest.version)
    BY <1>5 DEF QueueUpdate
  <2>2. Latest.version \in Published /\ AgentLess(running, Latest.version)
    BY <1>0, <2>1, AvailableIsNewer
  <2> QED BY <1>0, <2>1, <2>2, QueueStep
<1>6. CASE QueueSelect
  <2>1. Queue("select", Selection.version) /\ \E r \in Options : r.version = intent.seen
    BY <1>6 DEF QueueSelect
  <2>2. Selection \in Options
    BY <2>1 DEF Selection
  <2> QED BY <1>0, <2>1, <2>2, QueueStep
<1>7. SpareArchive \in Published \cup {None}
  BY <1>0, PreviousChosen DEF SpareArchive
<1>8. CASE QueueGone \/ QueueRetained
  <2>1. CASE QueueGone
    <3>1. intent.kind = "select" /\ retained = intent.seen /\ Queue("select", SpareArchive)
      BY <2>1 DEF QueueGone
    <3>2. intent.seen \in All
      BY <3>1 DEF ChoiceInv, ChoiceSeen
    <3>3. retained # None
      BY <3>1, <3>2, Listed, StartsAssumption, NoneAssumption DEF All
    <3> QED BY <1>7, <3>1, <3>3, QueueStep
  <2>2. CASE QueueRetained
    BY <1>7, <2>2, QueueStep DEF QueueRetained
  <2> QED BY <1>8, <2>1, <2>2
<1>9. CASE Refuse
  <2>1. /\ intent' = NoIntent
        /\ UNCHANGED <<listing, changes, running, retained, settings, job>>
    BY <1>9 DEF Refuse, world
  <2>2. TypeOK'
    BY <2>1 DEF TypeOK, NoIntent
  <2> QED BY <2>1, <2>2 DEF ChoiceInv, ChoiceSeen, JobAsAsked, NoIntent
<1>10. CASE RunUpdate
  <2>1. job.version \in All /\ Install(job.version)
    BY <1>0, <1>10 DEF RunUpdate, TypeOK, ChoiceInv, JobAsAsked
  <2> QED BY <2>1, InstallStep
<1>11. CASE RunLocal
  <2>1. retained \in All /\ Install(retained)
    BY <1>11 DEF RunLocal, UsesRetained, TypeOK
  <2> QED BY <2>1, InstallStep
<1>12. CASE RunFetched
  <2>1. job.version \in All /\ Install(job.version)
    BY <1>0, <1>12 DEF RunFetched, TypeOK
  <2> QED BY <2>1, InstallStep
<1>13. CASE RunFails
  <2>1. /\ job' = None
        /\ UNCHANGED <<listing, changes, running, retained, settings, intent>>
    BY <1>13 DEF RunFails, world
  <2>2. TypeOK'
    BY <2>1 DEF TypeOK
  <2> QED BY <2>1, <2>2 DEF ChoiceInv, ChoiceSeen, JobAsAsked
<1>14. CASE ListChanges
  <2>1. /\ listing' \subseteq Releases /\ changes < MaxChanges /\ changes' = changes + 1
        /\ UNCHANGED <<running, retained, settings, intent, job>>
    BY <1>14 DEF ListChanges, TypeOK
  <2>2. changes' \in 0..MaxChanges
    BY <2>1, BoundAssumption DEF TypeOK
  <2>3. TypeOK'
    BY <2>1, <2>2 DEF TypeOK
  <2> QED BY <2>1, <2>3 DEF ChoiceInv, ChoiceSeen, JobAsAsked
<1>15. CASE UNCHANGED vars
  BY <1>15 DEF vars, TypeOK, ChoiceInv, ChoiceSeen, JobAsAsked
<1> QED BY <1>1, <1>2, <1>3, <1>4, <1>5, <1>6, <1>8, <1>9, <1>10, <1>11, <1>12,
           <1>13, <1>14, <1>15 DEF Next

LEMMA ChoiceInit == Init => TypeOK /\ ChoiceInv
<1> SUFFICES ASSUME Init PROVE TypeOK /\ ChoiceInv
  OBVIOUS
<1>1. /\ listing \subseteq Releases /\ running \in Starts /\ retained = None
      /\ settings \in Settings /\ intent = NoIntent /\ job = None /\ changes = 0
  BY DEF Init
<1>2. TypeOK
  BY <1>1, BoundAssumption DEF TypeOK, All, NoIntent
<1> QED BY <1>1, <1>2 DEF ChoiceInv, ChoiceSeen, JobAsAsked, NoIntent

\* The list, the versions of the images, the settings and the request stay in
\* their types; a queued update is newer than what runs, and a queued choice that
\* names no archive is the retained pair.
THEOREM ChoiceCorrect == Spec => [](TypeOK /\ ChoiceInv)
<1>1. Init => TypeOK /\ ChoiceInv
  BY ChoiceInit
<1>2. TypeOK /\ ChoiceInv /\ [Next]_vars => (TypeOK /\ ChoiceInv)'
  BY ChoiceStep
<1> QED BY <1>1, <1>2, PTL DEF Spec

\* What the agent offers as an update is one for the bot's schedule too,
\* whatever GitHub lists and whatever runs.
THEOREM OffersHeld == Spec => []OffersAgree
<1>1. TypeOK /\ ChoiceInv => OffersAgree
  BY OffersAgreeLemma
<1> QED BY <1>1, ChoiceCorrect, PTL

\* The rollback list never holds more than MaxOptions versions, and no line of
\* earlier verified releases, no release of the running line and no approved one
\* is missing from it unless it is full of newer ones: for every page of GitHub's
\* list, every policy and every limit.
THEOREM RollbackListHeld == Spec => []OptionsReachBack
<1>1. TypeOK /\ ChoiceInv => OptionsReachBack
  BY OptionsReachBackLemma
<1> QED BY <1>1, ChoiceCorrect, PTL

\* An update never installs an older version or the running one again, although
\* the list may change between the offer, the request and the installation.
THEOREM UpdatesHeld == Spec => UpdatesGoForward
<1>1. TypeOK /\ ChoiceInv => [RunUpdate => Precedes(running, running')]_vars
  <2> SUFFICES ASSUME TypeOK, ChoiceInv, RunUpdate PROVE Precedes(running, running')
    OBVIOUS
  <2>1. /\ running' = job.version /\ job # None /\ job.kind \in {"auto", "update"}
    BY DEF RunUpdate, Install
  <2>2. AgentLess(running, job.version) /\ job.version \in Published
    BY <2>1 DEF ChoiceInv, JobAsAsked, TypeOK
  <2> QED BY <2>1, <2>2, Listed, OrderMeant
<1> QED BY <1>1, ChoiceCorrect, PTL DEF UpdatesGoForward

\* A rollback to a chosen release installs that release or nothing, whatever the
\* list has become since it was shown and whatever pair is retained: the worker
\* compares the archive with the choice, and the agent leaves the archive out only
\* of a choice that is retained.
THEOREM ChosenHeld == Spec => ChosenIsInstalled
<1>1. TypeOK /\ ChoiceInv =>
        [(RunFetched \/ RunLocal) /\ job.kind = "select" => running' = job.seen]_vars
  <2> SUFFICES ASSUME TypeOK, ChoiceInv, RunFetched \/ RunLocal, job.kind = "select"
               PROVE  running' = job.seen
    OBVIOUS
  <2>1. CASE RunFetched
    BY <2>1 DEF RunFetched, Install
  <2>2. CASE RunLocal
    <3>1. job # None /\ job.version = None /\ running' = retained
      BY <2>2 DEF RunLocal, UsesRetained, Install
    <3> QED BY <3>1 DEF ChoiceInv, JobAsAsked
  <2> QED BY <2>1, <2>2
<1> QED BY <1>1, ChoiceCorrect, PTL DEF ChosenIsInstalled

=============================================================================
