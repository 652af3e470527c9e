---------------------------- MODULE SerialExecutor -----------------------------
(***************************************************************************)
(* What a serialized runner promises, without saying how: one task at a    *)
(* time, in the order in which they were handed in.  Closing it lets all   *)
(* earlier tasks run, then the cleanup, and nothing after that.            *)
(***************************************************************************)
EXTENDS Sequences

CONSTANTS
    Tasks,
    Cleanup,  \* the last task of all
    NoTask    \* nothing runs; not a task

VARIABLES
    waiting,  \* tasks handed in, the oldest first
    active,   \* the task that runs, or NoTask
    closed

vars == <<waiting, active, closed>>

Init ==
    /\ waiting = <<>>
    /\ active = NoTask
    /\ closed = FALSE

Submit(t) ==
    /\ ~closed
    /\ waiting' = Append(waiting, t)
    /\ UNCHANGED <<active, closed>>

Close ==
    /\ ~closed
    /\ waiting' = Append(waiting, Cleanup)
    /\ closed' = TRUE
    /\ UNCHANGED active

Begin ==
    /\ active = NoTask
    /\ waiting # <<>>
    /\ active' = Head(waiting)
    /\ waiting' = Tail(waiting)
    /\ UNCHANGED closed

End ==
    /\ active # NoTask
    /\ active' = NoTask
    /\ UNCHANGED <<waiting, closed>>

Next ==
    \/ \E t \in Tasks : Submit(t)
    \/ Close
    \/ Begin
    \/ End

Spec == Init /\ [][Next]_vars
===============================================================================
