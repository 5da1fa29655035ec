--------------------------- MODULE ReleaseContract ---------------------------
(***************************************************************************)
(* What an administrator may rely on when a job has changed the control    *)
(* containers, whatever happens inside it: a success names a pair the job  *)
(* was asked for, a reported restoration or refusal means the pair of      *)
(* before, and anything else is reported as neither.                       *)
(***************************************************************************)
CONSTANT Pairs  \* what the two services may run, missing containers included

VARIABLES
  pair,   \* what they run
  base,   \* what they ran when the latest job began
  goals,  \* the pairs that job may announce as its success
  report  \* what the administrator is told

cvars == <<pair, base, goals, report>>

Reports == {"working", "done", "kept", "unsure"}

Init ==
  /\ pair \in Pairs /\ base = pair
  /\ goals = {} /\ report = "kept"

Begin ==
  /\ report # "working" /\ report' = "working"
  /\ base' = pair /\ goals' \in SUBSET Pairs
  /\ UNCHANGED pair

Change == report = "working" /\ pair' \in Pairs /\ UNCHANGED <<base, goals, report>>

Done   == report = "working" /\ pair \in goals /\ report' = "done" /\ UNCHANGED <<pair, base, goals>>
Keep   == report = "working" /\ pair = base /\ report' = "kept" /\ UNCHANGED <<pair, base, goals>>
Unsure == report = "working" /\ report' = "unsure" /\ UNCHANGED <<pair, base, goals>>

Next == Begin \/ Change \/ Done \/ Keep \/ Unsure

\* Every job ends in a report.
Spec == Init /\ [][Next]_cvars /\ WF_cvars(Done \/ Keep \/ Unsure)
=============================================================================
