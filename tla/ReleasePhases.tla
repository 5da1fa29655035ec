---------------------------- MODULE ReleasePhases ----------------------------
(***************************************************************************)
(* What a release or recovery job is to those who read bot-release.json:   *)
(* the agent that admits requests by its phase, and the bot.  A worker at  *)
(* work may publish "failed" and go on, but no outcome; it settles on its  *)
(* last step only; and what a dead worker left is reported by the next.    *)
(* MaintenanceBridge takes this of a job whose steps it leaves open, and   *)
(* the steps of ControlRelease keep it.                                    *)
(***************************************************************************)
VARIABLES
  phase,  \* what the file says: nothing yet, busy, failed, or done
  worker  \* idle, at work on a job, or dead

pvars == <<phase, worker>>

Init == phase = "none" /\ worker = "idle"

Begin    == worker = "idle" /\ worker' = "job" /\ phase' = "busy"
Progress == worker = "job" /\ phase' \in {"busy", "failed"} /\ UNCHANGED worker
Settle   == worker = "job" /\ worker' = "idle" /\ phase' \in {"failed", "done"}
Die      == worker # "dead" /\ worker' = "dead" /\ UNCHANGED phase

Start ==
  /\ worker = "dead" /\ worker' = "idle"
  /\ phase' = IF phase = "busy" THEN "failed" ELSE phase

Next == Begin \/ Progress \/ Settle \/ Die \/ Start

Spec == Init /\ [][Next]_pvars
=============================================================================
