----------------------------- MODULE VersionOrder -----------------------------
(***************************************************************************)
(* Release versions and the keys the agent, the worker and the bot compare *)
(* them with.  0.4.0, 0.4.0a and 0.4.0-beta.2 are                          *)
(*   [core |-> .., letter |-> 0, pre |-> <<>>],                            *)
(*   [core |-> .., letter |-> 1, pre |-> <<>>] and                         *)
(*   [core |-> .., letter |-> 0, pre |-> << <<1, beta>>, <<0, 2>> >>]      *)
(* with the three numbers of the core as one.  Spellings (a leading v,     *)
(* capitals, build metadata) are left out.  A key is a sequence of pairs,  *)
(* compared as Python compares tuples.                                     *)
(***************************************************************************)
EXTENDS Integers, Sequences

\* A token is <<0, number>> or <<1, rank of the text>>; a version has a letter
\* or tokens, not both.
Token == {0, 1} \X Nat
Version == {v \in [core : Nat, letter : Nat, pre : Seq(Token)] :
              v.letter = 0 \/ v.pre = <<>>}

PairLess(p, q) == p[1] < q[1] \/ (p[1] = q[1] /\ p[2] < q[2])

\* The first difference decides; a proper prefix is less.
KeyLess(s, t) ==
  \E i \in 1..Len(t) :
    /\ i <= Len(s) + 1
    /\ \A j \in 1..(i - 1) : s[j] = t[j]
    /\ i <= Len(s) => PairLess(s[i], t[i])

\* Wrong on purpose: a pre-release counts as newer than its release.
RankFlat(v) == IF v.letter > 0 THEN 2 ELSE 1

\* Pre-releases, then the release, then its letter hotfixes.
Rank(v) == IF v.letter > 0 THEN 2 ELSE IF v.pre # <<>> THEN 0 ELSE 1

\* _release_version_key of the agent, and word for word of the worker.
AgentKey(v) ==
  << <<v.core, 0>>, <<Rank(v), 0>> >> \o (IF v.letter > 0 THEN << <<1, v.letter>> >> ELSE v.pre)

\* Wrong on purpose: the numbers of a pre-release are compared as text.
BotKeyText(v) ==
  << <<v.core, 0>>, <<Rank(v), 0>>, <<0, v.letter>> >>
    \o [j \in DOMAIN v.pre |-> <<v.pre[j][1], IF v.pre[j][2] >= 10 THEN v.pre[j][2] \div 10 ELSE v.pre[j][2]>>]

\* version_key of the bot.
BotKey(v) == << <<v.core, 0>>, <<Rank(v), 0>>, <<0, v.letter>> >> \o v.pre

AgentLess(v, w) == KeyLess(AgentKey(v), AgentKey(w))
BotLess(v, w) == KeyLess(BotKey(v), BotKey(w))

\* The order the comments in _release_version_key describe, without a key: the
\* core decides first; within one core pre-releases come before the release and
\* its hotfixes, hotfixes in the order of their letters, and pre-releases as
\* SemVer has them: token by token, numbers before words, a prefix first.
Precedes(v, w) ==
  \/ v.core < w.core
  \/ /\ v.core = w.core
     /\ \/ v.pre # <<>> /\ w.pre = <<>>
        \/ v.pre = <<>> /\ w.pre = <<>> /\ v.letter < w.letter
        \/ v.pre # <<>> /\ w.pre # <<>> /\ KeyLess(v.pre, w.pre)
=============================================================================
