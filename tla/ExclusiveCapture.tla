--------------------------- MODULE ExclusiveCapture ---------------------------
(***************************************************************************)
(* What the capture lock of Minutes promises, without saying how: a lease  *)
(* is granted only when nobody holds the lock, a holder that has started   *)
(* to close keeps the lock until its closing is over, and a lease that was *)
(* given back is never the holder again.                                   *)
(***************************************************************************)
CONSTANTS
    Leases,
    NoLease   \* not a lease

VARIABLES
    holder,   \* the lease that owns the microphone and screen taps, or NoLease
    closing,  \* has the holder started to close its recording?
    ended     \* the leases that have been given back

vars == <<holder, closing, ended>>

Init ==
    /\ holder = NoLease
    /\ closing = FALSE
    /\ ended = {}

Grant(l) ==
    /\ holder = NoLease
    /\ l \notin ended
    /\ holder' = l
    /\ UNCHANGED <<closing, ended>>

\* An open lease may be dropped at once: a capture that failed to start.
Drop ==
    /\ holder # NoLease
    /\ ~closing
    /\ holder' = NoLease
    /\ ended' = ended \cup {holder}
    /\ UNCHANGED closing

BeginClose ==
    /\ holder # NoLease
    /\ ~closing
    /\ closing' = TRUE
    /\ UNCHANGED <<holder, ended>>

EndClose ==
    /\ closing
    /\ holder' = NoLease
    /\ closing' = FALSE
    /\ ended' = ended \cup {holder}

Next ==
    \/ \E l \in Leases : Grant(l)
    \/ Drop
    \/ BeginClose
    \/ EndClose

Spec == Init /\ [][Next]_vars
===============================================================================
