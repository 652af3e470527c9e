--------------------------- MODULE RecorderContract ---------------------------
(***************************************************************************)
(* What the audio recording service relies on: a recorder that has failed  *)
(* can neither be paused, nor resumed, nor brought back to idle.           *)
(* AudioRecordingService keeps this one value of the recorder.             *)
(***************************************************************************)
VARIABLE recorder   \* idle, running, paused or failed

Init == recorder = "idle"

Start == recorder = "idle" /\ recorder' = "running"
Pause == recorder = "running" /\ recorder' = "paused"
Resume == recorder = "paused" /\ recorder' = "running"
Stop == recorder \in {"running", "paused"} /\ recorder' = "idle"
Fail == recorder \in {"running", "paused"} /\ recorder' = "failed"

Next == Start \/ Pause \/ Resume \/ Stop \/ Fail

Spec == Init /\ [][Next]_recorder
===============================================================================
