----------------------------- MODULE CallRecorder -----------------------------
(***************************************************************************)
(* CallRecorder (ts/minutes/callRecorder.dom.ts): the queue between the    *)
(* MP3 worklet and the recording file of the main process.                 *)
(*                                                                         *)
(* start(), pause() and resume() each replace #state by a copy of the      *)
(* object they found.  The copies share the array of queued writes but     *)
(* not queuedBytes and drainPromise, and a drain that is running keeps the *)
(* object it was started with.  State objects are therefore numbered here; *)
(* object n is the copy made by the n-th pause() or resume().              *)
(***************************************************************************)
EXTENDS Integers, FiniteSets

CONSTANTS
    MaxQueued,   \* writes that fit under MAX_QUEUED_BYTES
    MaxBlocks,   \* bound: writes the worklet produces in one recording
    MaxCopies,   \* bound: calls of pause() and resume() in one recording
    DiskFails    \* may an append fail?

ASSUME RecorderAssumption ==
    /\ MaxQueued \in Nat \ {0}
    /\ MaxBlocks \in Nat
    /\ MaxCopies \in Nat
    /\ DiskFails \in BOOLEAN

Objects == 0..MaxCopies
\* Array 0 is the one start() created, n + 1 the one that replaced the array
\* of object n when its drain failed.
Arrays == 0..(MaxCopies + 1)
\* Drains are numbered from 1 on: every write starts at most one.
Drains == 1..(MaxBlocks + 1)

VARIABLES
    type,          \* #state.type
    current,       \* the object #state refers to
    objects,       \* their mutable fields
    arrays,        \* the number of writes waiting in each array
    drains,        \* the drains: which object each serves, and its promise
    stopPromise,   \* pending, resolved or rejected
    stopping,      \* is stop() awaiting stopPromise?
    completion,    \* where the handler of "complete" awaits
    accepted,      \* writes that were queued
    written        \* writes the main process has acknowledged

recorderVars ==
    <<type, current, objects, arrays, drains, stopPromise, stopping, completion,
      accepted, written>>
queueVars == <<objects, arrays, drains, accepted>>

NoDrain == 0
NewObject == [queued |-> 0, drain |-> NoDrain, array |-> 0]
NoCompletion == [step |-> "none", object |-> 0, awaits |-> NoDrain]

RecorderTypeOK ==
    /\ type \in {"idle", "running", "paused"}
    /\ current \in Objects
    \* An object that has been copied may count below zero: its drain also
    \* writes what is queued on the copy.
    /\ objects \in [Objects -> [queued : -MaxBlocks..MaxQueued,
                                drain : Drains \cup {NoDrain},
                                array : Arrays]]
    /\ arrays \in [Arrays -> 0..MaxQueued]
    /\ drains \in [Drains -> [object : Objects,
                              promise : {"unused", "pending", "settled"}]]
    /\ stopPromise \in {"pending", "resolved", "rejected"}
    /\ stopping \in BOOLEAN
    /\ completion \in [step : {"none", "drain", "flushed", "done"},
                       object : Objects, awaits : Drains \cup {NoDrain}]
    /\ accepted \in 0..(MaxBlocks + 1)
    /\ written \in 0..(MaxBlocks + 1)

FreshObjects == [o \in Objects |-> NewObject]
FreshArrays == [a \in Arrays |-> 0]
FreshDrains == [d \in Drains |-> [object |-> 0, promise |-> "unused"]]

RecorderInit ==
    /\ type = "idle"
    /\ current = 0
    /\ objects = FreshObjects /\ arrays = FreshArrays /\ drains = FreshDrains
    /\ stopPromise = "pending" /\ stopping = FALSE
    /\ completion = NoCompletion
    /\ accepted = 0 /\ written = 0

-------------------------------------------------------------------------------
(* start(), pause() and resume().  A start() of a recorder that is not idle
   throws and changes nothing. *)

Start ==
    /\ type = "idle"
    /\ type' = "running"
    /\ current' = 0
    /\ objects' = FreshObjects /\ arrays' = FreshArrays /\ drains' = FreshDrains
    /\ stopPromise' = "pending" /\ stopping' = FALSE
    /\ completion' = NoCompletion
    /\ accepted' = 0 /\ written' = 0

\* The service pauses only a recording that is not being stopped and has not
\* failed: the lease refuses otherwise.
CopyState(from, to) ==
    /\ type = from
    /\ ~stopping /\ stopPromise = "pending"
    /\ current < MaxCopies
    /\ type' = to
    /\ current' = current + 1
    /\ objects' = [objects EXCEPT ![current + 1] = objects[current]]
    /\ UNCHANGED <<arrays, drains, stopPromise, stopping, completion,
                   accepted, written>>

Pause == CopyState("running", "paused")
Resume == CopyState("paused", "running")

-------------------------------------------------------------------------------
(* The queue. *)

\* The second call of a promise's resolve or reject has no effect.
Settle(outcome) ==
    stopPromise' = IF stopPromise = "pending" THEN outcome ELSE stopPromise

NextDrain ==
    CHOOSE d \in Drains :
        /\ drains[d].promise = "unused"
        /\ \A e \in Drains : drains[e].promise = "unused" => d <= e

QueueFull(o) == objects[o].queued = MaxQueued

DrainAlwaysStarts(o) == TRUE   \* seeded fault
DrainStarts(o) == objects[o].drain = NoDrain

\* #enqueueWrite() on object o.  A new drain takes the write off the array
\* before it awaits.
EnqueueWrite(o) ==
    IF QueueFull(o)
    THEN /\ Settle("rejected")
         /\ UNCHANGED queueVars
    ELSE /\ accepted' = accepted + 1
         /\ IF DrainStarts(o)
            THEN /\ objects' = [objects EXCEPT ![o].queued = @ + 1,
                                               ![o].drain = NextDrain]
                 /\ drains' = [drains EXCEPT ![NextDrain] =
                                 [object |-> o, promise |-> "pending"]]
                 /\ UNCHANGED arrays
            ELSE /\ objects' = [objects EXCEPT ![o].queued = @ + 1]
                 /\ arrays' = [arrays EXCEPT ![objects[o].array] = @ + 1]
                 /\ UNCHANGED drains
         /\ UNCHANGED stopPromise

\* The worklet posts a chunk of MP3 or a block of PCM.  What it posted before
\* a pause() may arrive after it.
Produce ==
    /\ type # "idle"
    /\ completion.step = "none"
    /\ accepted < MaxBlocks
    /\ EnqueueWrite(current)
    /\ UNCHANGED <<type, current, stopping, completion, written>>

\* An append of drain d is acknowledged; the drain goes on or ends.
AppendDone(d) ==
    LET o == drains[d].object
    IN  /\ drains[d].promise = "pending"
        /\ written' = written + 1
        /\ IF arrays[objects[o].array] > 0
           THEN /\ arrays' = [arrays EXCEPT ![objects[o].array] = @ - 1]
                /\ objects' = [objects EXCEPT ![o].queued = @ - 1]
                /\ UNCHANGED drains
           ELSE /\ objects' = [objects EXCEPT ![o].queued = @ - 1,
                                              ![o].drain = NoDrain]
                /\ drains' = [drains EXCEPT ![d].promise = "settled"]
                /\ UNCHANGED arrays
        /\ UNCHANGED <<type, current, stopPromise, stopping, completion,
                       accepted>>

\* The catch block: the object gets a new array, the stop() will throw.
AppendFails(d) ==
    LET o == drains[d].object
    IN  /\ DiskFails
        /\ drains[d].promise = "pending"
        /\ objects' = [objects EXCEPT ![o] = [NewObject EXCEPT !.array = o + 1]]
        /\ arrays' = [arrays EXCEPT ![o + 1] = 0]
        /\ drains' = [drains EXCEPT ![d].promise = "settled"]
        /\ Settle("rejected")
        /\ UNCHANGED <<type, current, stopping, completion, accepted, written>>

-------------------------------------------------------------------------------
(* stop() and the handler of "complete". *)

Stop ==
    /\ type # "idle"
    /\ stopping' = TRUE
    /\ UNCHANGED <<type, current, queueVars, stopPromise, completion, written>>

Awaiting(step, o, drain) == [step |-> step, object |-> o, awaits |-> drain]

\* The worklet answers a stop once.
WorkletCompletes ==
    /\ stopping
    /\ completion.step = "none"
    /\ completion' = Awaiting("drain", current, objects[current].drain)
    /\ UNCHANGED <<type, current, queueVars, stopPromise, stopping, written>>

\* #waitForPendingWrites() returns when the drain it has seen is over and
\* the object names no newer one.  It never has to wait again: only the flush of
\* the chunker is queued after "complete", and the wait that follows sees its
\* drain.
Awaited ==
    completion.awaits \notin {d \in Drains : drains[d].promise = "pending"}
\* Seeded fault: the handler waits for as long as the object names a drain.
AnyDrain == objects[completion.object].drain # NoDrain

NewerDrain ==
    /\ objects[completion.object].drain # NoDrain
    /\ objects[completion.object].drain # completion.awaits

\* The chunker may hold a rest of the PCM.
CompletionFlushes ==
    /\ completion.step = "drain"
    /\ Awaited /\ ~NewerDrain
    /\ \/ EnqueueWrite(completion.object)
       \/ UNCHANGED <<queueVars, stopPromise>>
    /\ completion' = Awaiting("flushed", completion.object,
                              objects'[completion.object].drain)
    /\ UNCHANGED <<type, current, stopping, written>>

\* Seeded fault: the recording is returned without the second wait.
CompletionResolvesEarly ==
    /\ completion.step = "flushed"
    /\ Settle("resolved")
    /\ completion' = Awaiting("done", completion.object, NoDrain)
    /\ UNCHANGED <<type, current, queueVars, stopping, written>>

CompletionResolves ==
    /\ completion.step = "flushed"
    /\ Awaited /\ ~NewerDrain
    /\ Settle("resolved")
    /\ completion' = Awaiting("done", completion.object, NoDrain)
    /\ UNCHANGED <<type, current, queueVars, stopping, written>>

\* Seeded fault: stop() ends in the idle state also when it throws.
StopReturnsIdle ==
    /\ stopping
    /\ stopPromise # "pending"
    /\ stopping' = FALSE
    /\ type' = "idle"
    /\ UNCHANGED <<current, queueVars, stopPromise, completion, written>>

\* A rejected stopPromise leaves the recorder as it is.
StopReturns ==
    /\ stopping
    /\ stopPromise # "pending"
    /\ stopping' = FALSE
    /\ type' = IF stopPromise = "resolved" THEN "idle" ELSE type
    /\ UNCHANGED <<current, queueVars, stopPromise, completion, written>>

-------------------------------------------------------------------------------

RecorderProceeds ==
    \/ WorkletCompletes
    \/ CompletionFlushes \/ CompletionResolves
    \/ StopReturns

RecorderNext ==
    \/ Start \/ Pause \/ Resume \/ Produce \/ Stop
    \/ \E d \in Drains : AppendDone(d)
    \/ \E d \in Drains : AppendFails(d)
    \/ RecorderProceeds

\* Appends are answered by the main process, a stop by the worklet.
Fairness ==
    /\ WF_recorderVars(RecorderProceeds)
    /\ WF_recorderVars(\E d \in Drains : AppendDone(d) \/ AppendFails(d))

RecorderSpec == RecorderInit /\ [][RecorderNext]_recorderVars /\ Fairness

-------------------------------------------------------------------------------

InFlight == {d \in Drains : drains[d].promise = "pending"}

(* At most one append is under way, so the MP3 frames reach the file in the
   order the encoder made them, although a drain outlives the state object
   it was started for (callRecorder.dom.ts:133, 136-168). *)
OneAppendAtATime == Cardinality(InFlight) <= 1

(* No more is buffered than the memory limit, whichever of the copies of
   queuedBytes is consulted (callRecorder.dom.ts:121-134). *)
QueueBounded ==
    arrays[objects[current].array] + Cardinality(InFlight) <= MaxQueued

(* When stop() has returned a recording, no append of it is under way: the
   service finalizes the file next (callRecorder.dom.ts:253-271). *)
NoAppendAfterStop == stopPromise = "resolved" => InFlight = {}

(* stop() is answered, with a recording or with the error of a failed or
   refused write (callRecorder.dom.ts:325-343). *)
StopAnswered == stopping ~> ~stopping

(* A recording that stop() returns is complete: everything that was queued
   has been written (callRecorder.dom.ts:253-271). *)
NothingLeftBehind == stopPromise = "resolved" => written = accepted

(* So is in any case one that was never paused. *)
UnpausedIsComplete ==
    current = 0 /\ stopPromise = "resolved" => written = accepted

(* Whichever copies of the state are alive, the queue is bounded and written by
   one drain, and stop() ends after it, with everything that was queued unless
   the recording was paused (callRecorder.dom.ts:121-168, 253-271). *)
RecorderInv ==
    /\ RecorderTypeOK
    /\ OneAppendAtATime
    /\ QueueBounded
    /\ NoAppendAfterStop
    /\ UnpausedIsComplete

\* The recorder as the audio recording service sees it.
ServiceView ==
    IF type = "idle" THEN "idle"
    ELSE IF stopPromise = "rejected" THEN "failed" ELSE type

Contract == INSTANCE RecorderContract WITH recorder <- ServiceView

(* The recorder keeps to the contract AudioRecordingService is modelled
   with; in particular a failed one never becomes idle again. *)
ImplementsContract == Contract!Spec
===============================================================================
