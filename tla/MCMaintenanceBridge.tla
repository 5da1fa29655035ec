------------------------- MODULE MCMaintenanceBridge -------------------------
(* Small instances of MaintenanceBridge. *)
EXTENDS MaintenanceBridge

CONSTANTS t1, t2, j1, j2

TwoThreads == {t1, t2}
TwoJobs    == {j1, j2}
=============================================================================
