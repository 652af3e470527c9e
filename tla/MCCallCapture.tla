----------------------------- MODULE MCCallCapture -----------------------------
(* Instances of CallCapture: with every fault, and also with only those after
   which the services undo all they did. *)
EXTENDS CallCapture

AnyFault == {AllFaults}
AnyOrUndone == {AllFaults, UndoneFaults}
===============================================================================
