---------------------------- MODULE MCCallRecorder ----------------------------
(* Instances of CallRecorder: with any fault, and with a disk that does not
   fail. *)
EXTENDS CallRecorder
===============================================================================
