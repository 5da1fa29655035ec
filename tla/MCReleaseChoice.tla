--------------------------- MODULE MCReleaseChoice ---------------------------
(***************************************************************************)
(* A small history of releases, in the order in which the worker's tests   *)
(* (test_maintenance_worker.py:17-28) and the agent's put such versions.   *)
(***************************************************************************)
EXTENDS ReleaseChoice

Final(core) == [core |-> core, letter |-> 0, pre |-> <<>>]
Hot(core, letter) == [core |-> core, letter |-> letter, pre |-> <<>>]
Beta(core, n) == [core |-> core, letter |-> 0, pre |-> << <<1, 1>>, <<0, n>> >>]

Order == << Final(39), Hot(39, 1), Hot(39, 2), Beta(40, 2), Beta(40, 10), Final(40),
            Final(50) >>

MCReleases ==
  {[version |-> Order[i], flagged |-> Order[i].pre # <<>>, verified |-> i # 7] : i \in 1..7}
MCStarts == {Final(39), Beta(40, 2)}

\* The golden version is an LTS version too and loses the first of the roles.
MCGolden == Hot(39, 1)
MCLts == Hot(39, 1)
MCLastMajor == Final(39)

\* The order of the specification is the order of this list.
ASSUME OrderAssumption ==
  \A i, j \in 1..Len(Order) : Precedes(Order[i], Order[j]) <=> i < j
=============================================================================
