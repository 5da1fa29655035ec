--------------------------- MODULE MCControlRelease ---------------------------
(* Small instances of ControlRelease. *)
EXTENDS ControlRelease

CONSTANTS c1, c2

OneVersion    == {1}
TwoVersions   == 1..2
OneSetting    == {c1}
TwoSettings   == {c1, c2}
=============================================================================
