-------------------------- MODULE CaptureCoordinator --------------------------
(***************************************************************************)
(* MinutesCaptureCoordinator (ts/minutes/captureCoordinator.std.ts): the   *)
(* one lock that the audio and the video recorder share.  acquire() hands  *)
(* out a lease object; its four methods may be called at any time, also    *)
(* long after the capture is over, and must then have no effect.           *)
(*                                                                         *)
(* A lease stands for the Symbol of acquire() and for the ActiveCapture    *)
(* object that carries it.                                                 *)
(***************************************************************************)
CONSTANTS
    Leases,   \* the symbols acquire() can create, one per capture
    NoLease   \* undefined

ASSUME LeaseAssumption == NoLease \notin Leases

Modes == {"audio", "video"}

Recording(m) == IF m = "audio" THEN "audio-recording" ELSE "video-recording"
Paused(m) == IF m = "audio" THEN "audio-paused" ELSE "video-paused"

CaptureStates ==
    {"idle", "finalizing"} \cup {Recording(m) : m \in Modes}
                           \cup {Paused(m) : m \in Modes}

Promises == {"none", "pending", "resolved", "rejected"}

VARIABLES
    state,            \* #state
    activeCapture,    \* #activeCapture, or NoLease when undefined
    leaseMode,        \* lease -> the mode it was acquired for, or "unused"
    finalizePromise   \* lease -> what became of ActiveCapture.finalizePromise

coordinatorVars == <<state, activeCapture, leaseMode, finalizePromise>>

CoordinatorTypeOK ==
    /\ state \in CaptureStates
    /\ activeCapture \in Leases \cup {NoLease}
    /\ leaseMode \in [Leases -> Modes \cup {"unused"}]
    /\ finalizePromise \in [Leases -> Promises]

CoordinatorInit ==
    /\ state = "idle"
    /\ activeCapture = NoLease
    /\ leaseMode = [l \in Leases |-> "unused"]
    /\ finalizePromise = [l \in Leases |-> "none"]

-------------------------------------------------------------------------------
(* What a call would answer; the services branch on it. *)

\* Seeded fault: only a capture that is being finalized blocks acquire().
CanAcquireUnlessFinalizing == state # "finalizing"

\* acquire() throws in every other state.
CanAcquire == state = "idle"

CanPause(l) == activeCapture = l /\ state = Recording(leaseMode[l])
CanResume(l) == activeCapture = l /\ state = Paused(leaseMode[l])

\* finalize() on a lease that is not active, or already finalizing, starts
\* nothing: it answers with a resolved or with the existing promise.
StartsFinalization(l) == activeCapture = l /\ finalizePromise[l] = "none"

(* The operations, when they change something. *)

Acquire(m, l) ==
    /\ CanAcquire
    /\ leaseMode[l] = "unused"
    /\ leaseMode' = [leaseMode EXCEPT ![l] = m]
    /\ activeCapture' = l
    /\ state' = Recording(m)
    /\ UNCHANGED finalizePromise

Pause(l) ==
    /\ CanPause(l)
    /\ state' = Paused(leaseMode[l])
    /\ UNCHANGED <<activeCapture, leaseMode, finalizePromise>>

Resume(l) ==
    /\ CanResume(l)
    /\ state' = Recording(leaseMode[l])
    /\ UNCHANGED <<activeCapture, leaseMode, finalizePromise>>

Finalize(l) ==
    /\ StartsFinalization(l)
    /\ state' = "finalizing"
    /\ finalizePromise' = [finalizePromise EXCEPT ![l] = "pending"]
    /\ UNCHANGED <<activeCapture, leaseMode>>

ClearActiveCapture(l) ==
    IF activeCapture = l
    THEN activeCapture' = NoLease /\ state' = "idle"
    ELSE UNCHANGED <<activeCapture, state>>

\* release() is also called on leases that are no longer active.
Release(l) ==
    /\ state # "finalizing"
    /\ leaseMode[l] # "unused"
    /\ ClearActiveCapture(l)
    /\ UNCHANGED <<leaseMode, finalizePromise>>

\* Seeded fault: only a finalization that succeeds clears the capture.
CompleteFinalizationIfResolved(l, outcome) ==
    /\ finalizePromise[l] = "pending"
    /\ finalizePromise' = [finalizePromise EXCEPT ![l] = outcome]
    /\ IF outcome = "resolved" THEN ClearActiveCapture(l)
                               ELSE UNCHANGED <<activeCapture, state>>
    /\ UNCHANGED leaseMode

\* finalizeCapture() settled: the capture is cleared whatever the outcome.
CompleteFinalization(l, outcome) ==
    /\ finalizePromise[l] = "pending"
    /\ finalizePromise' = [finalizePromise EXCEPT ![l] = outcome]
    /\ ClearActiveCapture(l)
    /\ UNCHANGED leaseMode

CoordinatorNext ==
    \/ \E m \in Modes, l \in Leases : Acquire(m, l)
    \/ \E l \in Leases : Pause(l)
    \/ \E l \in Leases : Resume(l)
    \/ \E l \in Leases : Finalize(l)
    \/ \E l \in Leases : Release(l)
    \/ \E l \in Leases, outcome \in {"resolved", "rejected"} :
           CompleteFinalization(l, outcome)

CoordinatorSpec == CoordinatorInit /\ [][CoordinatorNext]_coordinatorVars

-------------------------------------------------------------------------------

(* The state name, the active capture and its promise always tell the same
   story: no capture exactly when idle, "finalizing" exactly while the
   active capture's promise is pending, and otherwise a state of the mode
   the lease was acquired for (captureCoordinator.std.ts:44-153 updates the
   three separately). *)
StateMatchesCapture ==
    /\ state = "idle" <=> activeCapture = NoLease
    /\ activeCapture # NoLease =>
          /\ leaseMode[activeCapture] \in Modes
          /\ state = "finalizing" <=> finalizePromise[activeCapture] = "pending"
          /\ state # "finalizing" =>
                state \in {Recording(leaseMode[activeCapture]),
                           Paused(leaseMode[activeCapture])}

(* A recording that is still being finalized holds the lock: neither a
   release() of its own lease nor one of another lease may free it early,
   or a second recorder would start on top of the files being written
   (captureCoordinator.std.ts:126-131). *)
FinalizingHoldsLock ==
    \A l \in Leases : finalizePromise[l] = "pending" => activeCapture = l

(* A lease that nobody has acquired has no promise, and a settled one is
   no longer the active capture. *)
PromisesFollowLeases ==
    \A l \in Leases :
        /\ leaseMode[l] = "unused" =>
              finalizePromise[l] = "none" /\ activeCapture # l
        /\ finalizePromise[l] \in {"resolved", "rejected"} => activeCapture # l

(* The fields stay consistent, whatever is called on live and stale leases.
   This is the inductive invariant: FinalizingHoldsLock is not inductive alone.
   That completing a finalization frees the lock of the right capture needs the
   agreement of state, capture and promise, and that a fresh lease carries no
   promise needs PromisesFollowLeases (captureCoordinator.std.ts:32-153). *)
CoordinatorInv ==
    /\ CoordinatorTypeOK
    /\ StateMatchesCapture
    /\ FinalizingHoldsLock
    /\ PromisesFollowLeases

(* The abstract lock, seen through the coordinator's fields. *)
Lock == INSTANCE ExclusiveCapture
            WITH holder <- activeCapture,
                 closing <- (state = "finalizing"),
                 ended <- {l \in Leases :
                              leaseMode[l] # "unused" /\ activeCapture # l}

(* The coordinator implements the abstract lock: leases are granted one at
   a time, closing is never cut short, and a stale lease never comes back
   (captureCoordinator.std.ts:32-153). *)
ImplementsLock == Lock!Spec
===============================================================================
