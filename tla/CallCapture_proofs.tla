-------------------------- MODULE CallCapture_proofs ---------------------------
(***************************************************************************)
(* Proofs, for every set of leases, conversations and failures and every   *)
(* bound of the write queues, of the safety of the pair of recording       *)
(* services: the recorders never use the tap at the same time, the lock is *)
(* never left behind, services and coordinator agree on what is paused, a  *)
(* file is published from an open session after its last write and handed  *)
(* to the transcription queue, no session is left open by a failure that   *)
(* the services undo, and the pair implements the coordinator and the      *)
(* abstract lock.                                                          *)
(*                                                                         *)
(* The argument is one of ownership.  A lease is acquired for one mode, so *)
(* a busy audio service and a busy video service would both have to be the *)
(* active capture: a step of one finds the other at rest or leaves the     *)
(* lock, the state and the sessions of the other alone (LockOf, FilesOf).  *)
(***************************************************************************)
EXTENDS CallCapture, TLAPS

-------------------------------------------------------------------------------
(* The coordinator by itself (captureCoordinator.std.ts): its invariant is
   inductive as it stands. *)

(* The four state names of the two modes are distinct from one another and
   from "idle" and "finalizing". *)
LEMMA StateNames ==
    /\ \A m \in Modes :
         /\ Recording(m) \in CaptureStates \ {"idle", "finalizing"}
         /\ Paused(m) \in CaptureStates \ {"idle", "finalizing"}
    /\ "unused" \notin Modes
  BY DEF Modes, Recording, Paused, CaptureStates

(* A new coordinator satisfies the invariant. *)
LEMMA InitEstablishesInv ==
  CoordinatorInit => CoordinatorInv
  BY LeaseAssumption
  DEF CoordinatorInit, CoordinatorInv, CoordinatorTypeOK, StateMatchesCapture,
      FinalizingHoldsLock, PromisesFollowLeases, CaptureStates, Promises, Modes

(* acquire() is allowed on an idle coordinator only, so no older promise is
   pending when the new lease becomes the active capture. *)
LEMMA AcquirePreservesInv ==
  ASSUME NEW m \in Modes, NEW l \in Leases, CoordinatorInv, Acquire(m, l)
  PROVE  CoordinatorInv'
  <1> USE LeaseAssumption, StateNames DEF CoordinatorInv, Acquire
  <1>1. CoordinatorTypeOK'
    BY DEF CoordinatorTypeOK
  <1>2. activeCapture = NoLease
    BY DEF CanAcquire, StateMatchesCapture
  <1>3. finalizePromise[l] = "none"
    BY DEF PromisesFollowLeases
  <1>4. leaseMode'[l] = m
    BY DEF CoordinatorTypeOK
  <1>5. StateMatchesCapture'
    BY <1>3, <1>4 DEF StateMatchesCapture
  <1>6. FinalizingHoldsLock'
    BY <1>2, <1>3 DEF FinalizingHoldsLock
  <1>7. PromisesFollowLeases'
    BY <1>3, <1>4 DEF PromisesFollowLeases, CoordinatorTypeOK
  <1> QED BY <1>1, <1>5, <1>6, <1>7

(* pause() and resume() only rename the state within the lease's mode. *)
LEMMA PauseResumePreserveInv ==
  ASSUME NEW l \in Leases, CoordinatorInv, Pause(l) \/ Resume(l)
  PROVE  CoordinatorInv'
  <1> USE LeaseAssumption, StateNames DEF CoordinatorInv
  <1>1. /\ activeCapture = l
        /\ state \notin {"idle", "finalizing"} \/ leaseMode[l] \notin Modes
        /\ state' \in {Recording(leaseMode[l]), Paused(leaseMode[l])}
        /\ UNCHANGED <<activeCapture, leaseMode, finalizePromise>>
    BY DEF Pause, Resume, CanPause, CanResume
  <1>2. leaseMode[l] \in Modes
    BY <1>1 DEF StateMatchesCapture
  <1>3. state' \in CaptureStates \ {"idle", "finalizing"}
    BY <1>1, <1>2
  <1>4. CoordinatorTypeOK'
    BY <1>1, <1>3 DEF CoordinatorTypeOK
  <1>5. StateMatchesCapture'
    BY <1>1, <1>2, <1>3 DEF StateMatchesCapture
  <1>6. FinalizingHoldsLock' /\ PromisesFollowLeases'
    BY <1>1 DEF FinalizingHoldsLock, PromisesFollowLeases
  <1> QED BY <1>4, <1>5, <1>6

(* finalize() makes the promise of the active capture pending, and only
   that one. *)
LEMMA FinalizePreservesInv ==
  ASSUME NEW l \in Leases, CoordinatorInv, Finalize(l)
  PROVE  CoordinatorInv'
  <1> USE LeaseAssumption DEF CoordinatorInv, Finalize, StartsFinalization
  <1>1. CoordinatorTypeOK'
    BY DEF CoordinatorTypeOK, CaptureStates, Promises
  <1>2. finalizePromise'[l] = "pending"
    BY DEF CoordinatorTypeOK
  <1>3. StateMatchesCapture'
    BY <1>2 DEF StateMatchesCapture
  <1>4. FinalizingHoldsLock'
    BY DEF FinalizingHoldsLock, CoordinatorTypeOK
  <1>5. PromisesFollowLeases'
    BY DEF PromisesFollowLeases, StateMatchesCapture, CoordinatorTypeOK, Modes
  <1> QED BY <1>1, <1>3, <1>4, <1>5

(* release() is refused while finalizing, so the capture it clears has no
   pending promise; a stale lease clears nothing. *)
LEMMA ReleasePreservesInv ==
  ASSUME NEW l \in Leases, CoordinatorInv, Release(l)
  PROVE  CoordinatorInv'
  <1> USE LeaseAssumption DEF CoordinatorInv, Release, ClearActiveCapture
  <1>1. CASE activeCapture # l
    BY <1>1 DEF CoordinatorTypeOK, StateMatchesCapture, FinalizingHoldsLock,
                PromisesFollowLeases
  <1>2. CASE activeCapture = l
    <2>1. finalizePromise[l] # "pending"
      BY <1>2 DEF StateMatchesCapture
    <2>2. CoordinatorTypeOK' /\ StateMatchesCapture'
      BY <1>2 DEF CoordinatorTypeOK, StateMatchesCapture, CaptureStates
    <2>3. FinalizingHoldsLock'
      BY <1>2, <2>1 DEF FinalizingHoldsLock
    <2>4. PromisesFollowLeases'
      BY <1>2 DEF PromisesFollowLeases
    <2> QED BY <2>2, <2>3, <2>4
  <1> QED BY <1>1, <1>2

(* A finalization that settles belongs to the active capture: the lock that
   is freed is its own. *)
LEMMA CompletePreservesInv ==
  ASSUME NEW l \in Leases, NEW outcome \in {"resolved", "rejected"},
         CoordinatorInv, CompleteFinalization(l, outcome)
  PROVE  CoordinatorInv'
  <1> USE LeaseAssumption
      DEF CoordinatorInv, CompleteFinalization, ClearActiveCapture
  <1>1. activeCapture = l
    BY DEF FinalizingHoldsLock
  <1>2. activeCapture' = NoLease /\ state' = "idle"
    BY <1>1
  <1>3. \A k \in Leases : finalizePromise'[k] = "pending" =>
                             k # l /\ finalizePromise[k] = "pending"
    BY DEF CoordinatorTypeOK
  <1>4. CoordinatorTypeOK' /\ StateMatchesCapture'
    BY <1>2 DEF CoordinatorTypeOK, StateMatchesCapture, CaptureStates, Promises
  <1>5. FinalizingHoldsLock'
    BY <1>1, <1>3 DEF FinalizingHoldsLock
  <1>6. leaseMode[l] # "unused"
    BY DEF PromisesFollowLeases
  <1>7. PromisesFollowLeases'
    BY <1>2, <1>6 DEF PromisesFollowLeases, CoordinatorTypeOK
  <1> QED BY <1>4, <1>5, <1>7

(* Every step of the coordinator preserves the invariant. *)
LEMMA NextPreservesInv ==
  CoordinatorInv /\ [CoordinatorNext]_coordinatorVars => CoordinatorInv'
  <1> SUFFICES ASSUME CoordinatorInv, [CoordinatorNext]_coordinatorVars
               PROVE  CoordinatorInv'
    OBVIOUS
  <1>1. ASSUME NEW m \in Modes, NEW l \in Leases, Acquire(m, l)
        PROVE  CoordinatorInv'
    BY <1>1, AcquirePreservesInv
  <1>2. ASSUME NEW l \in Leases, Pause(l) \/ Resume(l)
        PROVE  CoordinatorInv'
    BY <1>2, PauseResumePreserveInv
  <1>3. ASSUME NEW l \in Leases, Finalize(l)
        PROVE  CoordinatorInv'
    BY <1>3, FinalizePreservesInv
  <1>4. ASSUME NEW l \in Leases, Release(l)
        PROVE  CoordinatorInv'
    BY <1>4, ReleasePreservesInv
  <1>5. ASSUME NEW l \in Leases, NEW outcome \in {"resolved", "rejected"},
               CompleteFinalization(l, outcome)
        PROVE  CoordinatorInv'
    BY <1>5, CompletePreservesInv
  <1>6. CASE UNCHANGED coordinatorVars
    BY <1>6 DEF coordinatorVars, CoordinatorInv, CoordinatorTypeOK,
                StateMatchesCapture, FinalizingHoldsLock, PromisesFollowLeases
  <1> QED
    BY <1>1, <1>2, <1>3, <1>4, <1>5, <1>6 DEF CoordinatorNext

(* The invariant holds in every behaviour of the coordinator. *)
THEOREM CoordinatorInvariant ==
  CoordinatorSpec => []CoordinatorInv
  BY InitEstablishesInv, NextPreservesInv, PTL DEF CoordinatorSpec

(* The fields always have their types (captureCoordinator.std.ts:32-34). *)
THEOREM TypeCorrect ==
  CoordinatorSpec => []CoordinatorTypeOK
  <1>1. CoordinatorInv => CoordinatorTypeOK
    BY DEF CoordinatorInv
  <1> QED BY <1>1, CoordinatorInvariant, PTL

(* State name, active capture and promise agree in every reachable state. *)
THEOREM StateAlwaysMatches ==
  CoordinatorSpec => []StateMatchesCapture
  <1>1. CoordinatorInv => StateMatchesCapture
    BY DEF CoordinatorInv
  <1> QED BY <1>1, CoordinatorInvariant, PTL

(* Nothing frees the lock of a recording whose files are being finalized. *)
THEOREM FinalizingAlwaysHoldsLock ==
  CoordinatorSpec => []FinalizingHoldsLock
  <1>1. CoordinatorInv => FinalizingHoldsLock
    BY DEF CoordinatorInv
  <1> QED BY <1>1, CoordinatorInvariant, PTL

-------------------------------------------------------------------------------

(* A fresh coordinator is a free lock. *)
LEMMA InitRefines ==
  CoordinatorInit => Lock!Init
  BY LeaseAssumption DEF CoordinatorInit, Lock!Init

(* Every step of the coordinator is a step of the lock or leaves the lock
   alone. *)
LEMMA StepRefines ==
  CoordinatorInv /\ [CoordinatorNext]_coordinatorVars => [Lock!Next]_Lock!vars
  <1> SUFFICES ASSUME CoordinatorInv, [CoordinatorNext]_coordinatorVars
               PROVE  [Lock!Next]_Lock!vars
    OBVIOUS
  <1> USE LeaseAssumption, StateNames DEF CoordinatorInv
  <1>1. ASSUME NEW m \in Modes, NEW l \in Leases, Acquire(m, l)
        PROVE  Lock!Grant(l)
    <2>1. activeCapture = NoLease /\ activeCapture' = l
      BY <1>1 DEF Acquire, CanAcquire, StateMatchesCapture
    <2>2. state # "finalizing" /\ state' # "finalizing"
      BY <1>1 DEF Acquire, CanAcquire
    <2>3. \A k \in Leases :
             leaseMode'[k] # "unused" <=> leaseMode[k] # "unused" \/ k = l
      BY <1>1 DEF Acquire, CoordinatorTypeOK
    <2> QED
      BY <1>1, <2>1, <2>2, <2>3 DEF Lock!Grant, Acquire
  <1>2. ASSUME NEW l \in Leases, Pause(l) \/ Resume(l)
        PROVE  UNCHANGED Lock!vars
    <2>1. leaseMode[l] \in Modes
      BY <1>2 DEF Pause, Resume, CanPause, CanResume, StateMatchesCapture
    <2> QED
      BY <1>2, <2>1 DEF Lock!vars, Pause, Resume, CanPause, CanResume
  <1>3. ASSUME NEW l \in Leases, Finalize(l)
        PROVE  Lock!BeginClose
    <2>1. activeCapture = l /\ state # "finalizing"
      BY <1>3 DEF Finalize, StartsFinalization, StateMatchesCapture
    <2> QED
      BY <1>3, <2>1 DEF Lock!BeginClose, Finalize
  <1>4. ASSUME NEW l \in Leases, Release(l)
        PROVE  Lock!Drop \/ UNCHANGED Lock!vars
    <2>1. CASE activeCapture # l
      BY <1>4, <2>1 DEF Release, ClearActiveCapture, Lock!vars
    <2>2. CASE activeCapture = l
      BY <1>4, <2>2 DEF Release, ClearActiveCapture, Lock!Drop
    <2> QED BY <2>1, <2>2
  <1>5. ASSUME NEW l \in Leases, NEW outcome \in {"resolved", "rejected"},
               CompleteFinalization(l, outcome)
        PROVE  Lock!EndClose
    <2>1. activeCapture = l /\ state = "finalizing"
      BY <1>5 DEF CompleteFinalization, FinalizingHoldsLock,
                  StateMatchesCapture
    <2>2. leaseMode[l] # "unused"
      BY <2>1 DEF StateMatchesCapture
    <2>3. activeCapture' = NoLease /\ state' = "idle" /\ leaseMode' = leaseMode
      BY <1>5, <2>1 DEF CompleteFinalization, ClearActiveCapture
    <2> QED
      BY <2>1, <2>2, <2>3 DEF Lock!EndClose
  <1>6. CASE UNCHANGED coordinatorVars
    BY <1>6 DEF coordinatorVars, Lock!vars
  <1> QED
    BY <1>1, <1>2, <1>3, <1>4, <1>5, <1>6 DEF CoordinatorNext, Lock!Next

(* The coordinator implements the abstract lock. *)
THEOREM CoordinatorImplementsLock ==
  CoordinatorSpec => ImplementsLock
  BY InitRefines, StepRefines, CoordinatorInvariant, PTL
  DEF CoordinatorSpec, ImplementsLock, Lock!Spec

-------------------------------------------------------------------------------
(* The inductive invariant.  A service is busy from its acquire() to the end
   of its finalization or of its failed start; while it is busy the capture
   lock is its own. *)

UsedBy(l, m) == l \in Leases /\ leaseMode[l] = m

AudioBusy ==
    audio.start.step # "none" \/ audio.status # "idle" \/ audio.stop.step # "none"

AudioLive == audio.status # "idle" /\ audio.stop.step = "none"

(* The audio service and the lock: a busy service holds it under its own
   lease, and the coordinator knows what the service is doing. *)
AudioHolds ==
    /\ AudioBusy => activeCapture = audio.lease /\ UsedBy(audio.lease, "audio")
    /\ audio.start.step # "none" =>
          /\ audio.status = "idle" /\ audio.stop.step = "none"
          /\ audio.start.lease = audio.lease
          /\ audio.finalization = "none"
          /\ state = "audio-recording"
    /\ AudioLive =>
          /\ audio.finalization = "none"
          /\ \/ audio.status = "paused" /\ audio.recorder = "paused"
                                        /\ state = "audio-paused"
             \/ audio.status = "recording" /\ audio.recorder = "running"
                                           /\ state = "audio-recording"
    /\ audio.stop.step # "none" =>
          /\ audio.finalization # "none"
          /\ state = "finalizing"
          /\ audio.status = "idle" <=> audio.stop.step = "settled"
    /\ audio.status = "idle" => audio.conversation = NoConversation

(* The tap and the recorder run only where the code still stops them. *)
AudioRuns ==
    /\ audio.track =>
          \/ audio.start.step \in {"createFile", "startRecorder",
                                   "refusedAbort", "unwindRecorder"}
          \/ AudioLive
          \/ audio.stop.step = "stopRecorder"
    /\ audio.recorder \in {"running", "paused"} =>
          \/ audio.start.step = "unwindRecorder"
          \/ AudioLive
          \/ audio.stop.step = "stopRecorder"
    /\ audio.stop.step = "stopTrack" =>
          audio.stop.outcome \in {"save", "discard", "rejected"}
    /\ audio.stop.step = "settled" =>
          audio.stop.outcome \in {"resolved", "rejected"}

(* The session of the recording is open until it is finalized, unless the
   recorder failed. *)
AudioWrites ==
    /\ audio.session # NoLease => UsedBy(audio.session, "audio")
    /\ audio.start.step = "startRecorder" \/ AudioLive =>
          audio.session = audio.lease /\ audio.session \in openSessions
    /\ audio.stop.step = "stopRecorder" =>
          /\ audio.session = audio.lease
          /\ audio.recorder # "failed" => audio.session \in openSessions
    /\ audio.stop.step = "stopTrack" =>
          /\ audio.session = audio.lease
          /\ audio.stop.outcome # "rejected" => audio.session \in openSessions
    /\ audio.stop.step \in {"finalizeFile", "abortFile"} =>
          audio.session = NoLease /\ audio.stop.session = audio.lease
    /\ audio.stop.step = "finalizeFile" => audio.stop.session \in openSessions

AudioOwns(s) ==
    \/ /\ s = audio.session
       /\ \/ audio.start.step \in {"startRecorder", "refusedAbort",
                                   "unwindRecorder", "unwindTrack",
                                   "unwindAbort"}
          \/ AudioLive
          \/ audio.stop.step = "stopRecorder" /\ audio.recorder # "failed"
          \/ audio.stop.step = "stopTrack" /\ audio.stop.outcome # "rejected"
    \/ /\ s = audio.stop.session
       /\ audio.stop.step \in {"finalizeFile", "abortFile"}

(* Without the failures that make the code give up, an open session is one
   that the service will still close. *)
AudioCloses ==
    faults \subseteq UndoneFaults =>
        \A s \in openSessions : leaseMode[s] = "audio" => AudioOwns(s)

AudioIInv == AudioHolds /\ AudioRuns /\ AudioWrites /\ AudioCloses

VideoStarting == video.status = "starting"
VideoLive == video.status \in {"recording", "paused"}
VideoBusy == video.status \notin {"idle", "error"} \/ video.stop.step # "none"

\* The steps of #terminate() at which the file is not published yet.
VideoEnding ==
    video.stop.step \in {"stopRecorder", "stopTrack", "drain", "finalizeFile",
                         "abortFile"}

VideoHolds ==
    /\ VideoBusy => UsedBy(activeCapture, "video")
    /\ video.status \notin {"idle", "error"} => activeCapture = video.lease
    /\ video.stop.step # "none" =>
          activeCapture = video.stop.lease /\ state = "finalizing"
    /\ VideoStarting <=>
          video.start.step \in {"createFile", "createTrack", "unwindRecorder",
                                "unwindTrack", "unwindAbort"}
    /\ VideoStarting =>
          /\ video.start.lease = video.lease
          /\ video.stop.step = "none"
          /\ state = "video-recording"
    /\ VideoLive =>
          /\ video.stop.step = "none"
          /\ \/ video.status = "paused" /\ state = "video-paused"
             \/ video.status = "recording" /\ state = "video-recording"
    /\ video.status = "finalizing" <=> VideoEnding \/ video.stop.step = "cleanup"

VideoRuns ==
    /\ video.track =>
          \/ video.start.step = "unwindRecorder"
          \/ VideoLive
          \/ video.stop.step \in {"stopRecorder", "abortFile"}
    /\ video.recorderStarted =>
          \/ video.start.step = "unwindRecorder"
          \/ VideoLive
          \/ video.stop.step = "stopRecorder"
    /\ video.stop.step = "finalizeFile" => video.pending = EmptyQueues

VideoWrites ==
    /\ video.session # NoLease => UsedBy(video.session, "video")
    /\ (\/ video.start.step = "createTrack"
        \/ VideoLive
        \/ video.status = "finalizing")
          => video.session = video.lease
    /\ (\/ video.start.step = "createTrack"
        \/ VideoLive
        \/ video.stop.step \in {"stopRecorder", "stopTrack", "drain"}) =>
          video.session \in openSessions \/ video.writeError
    /\ video.stop.step = "finalizeFile" => video.session \in openSessions

VideoOwns(s) ==
    /\ s = video.session
    /\ \/ video.start.step \in {"createTrack", "unwindRecorder", "unwindTrack",
                                "unwindAbort"}
       \/ VideoLive
       \/ VideoEnding

VideoCloses ==
    faults \subseteq UndoneFaults =>
        \A s \in openSessions : leaseMode[s] = "video" => VideoOwns(s)

VideoSaves ==
    /\ VideoStarting \/ VideoLive \/ VideoEnding => video.lease \notin savedFiles
    /\ video.stop.step = "cleanup" /\ video.session \in savedFiles =>
          video.stop.result
    /\ FinishedVideoIsTranscribed

VideoIInv ==
    VideoHolds /\ VideoRuns /\ VideoWrites /\ VideoCloses /\ VideoSaves

\* A recording that is starting, going on or being finalized is the recording
\* of a call.
VideoNames ==
    /\ video.start.step # "none" => video.start.conversation # NoConversation
    /\ VideoLive => video.conversation # NoConversation
    /\ video.stop.step # "none" => video.stop.conversation # NoConversation

SessionsAreUsed ==
    \A l \in openSessions \cup savedFiles : leaseMode[l] # "unused"

LockIsUsed == activeCapture # NoLease => AudioBusy \/ VideoBusy

IInv ==
    /\ CoordinatorInv /\ TypeOK
    /\ AudioIInv /\ VideoIInv /\ VideoNames
    /\ SessionsAreUsed /\ LockIsUsed

-------------------------------------------------------------------------------
(* What a step of the service of mode m may do to what the other relies on. *)

\* The lock changes hands only from and to leases of mode m.
LockOf(m) ==
    \/ UNCHANGED coordinatorVars
    \/ UsedBy(activeCapture, m) /\ UNCHANGED leaseMode
    \/ /\ activeCapture = NoLease
       /\ \E l \in Leases : /\ leaseMode[l] = "unused"
                            /\ leaseMode' = [leaseMode EXCEPT ![l] = m]

\* Only sessions of mode m are opened, closed or published.
FilesOf(m) ==
    /\ \A s \in Leases : leaseMode[s] # m =>
          /\ s \in openSessions' <=> s \in openSessions
          /\ s \in savedFiles' <=> s \in savedFiles
    /\ transcriptions \subseteq transcriptions'

\* What PublishesOpenSession asks of a step.
PublishesOpen ==
    \A l \in savedFiles' \ savedFiles : l \in openSessions /\ activeCapture = l

Shared(m) ==
    /\ EnvironmentTypeOK'
    /\ [CoordinatorNext]_coordinatorVars
    /\ LockOf(m) /\ FilesOf(m)
    /\ PublishesOpen

AudioStep == AudioTypeOK' /\ AudioIInv' /\ Shared("audio") /\ LockIsUsed'
VideoStep == VideoTypeOK' /\ VideoIInv' /\ Shared("video") /\ LockIsUsed'

\* The fields of the video service that the invariant speaks of: all but
\* conversation and endedDuringStart.
VideoSame ==
    /\ video'.status = video.status /\ video'.lease = video.lease
    /\ video'.session = video.session /\ video'.track = video.track
    /\ video'.recorderStarted = video.recorderStarted
    /\ video'.pending = video.pending /\ video'.writeError = video.writeError
    /\ video'.start = video.start /\ video'.stop = video.stop

(* A busy service holds the lock under a lease of its own mode. *)
LEMMA BusyHoldsLock ==
  ASSUME IInv
  PROVE  /\ AudioBusy => UsedBy(activeCapture, "audio")
         /\ VideoBusy => UsedBy(activeCapture, "video")
  BY DEF IInv, AudioIInv, VideoIInv, AudioHolds, VideoHolds, UsedBy

(* The services are never busy at the same time. *)
LEMMA NeverBothBusy ==
  ASSUME IInv
  PROVE  ~(AudioBusy /\ VideoBusy)
  BY BusyHoldsLock DEF UsedBy

(* The coordinator lets a recording that is going on be finalized: a test of
   the service's own fields is enough to know it (AudioStopStarts). *)
LEMMA LiveAudioStops ==
  ASSUME IInv
  PROVE  AudioStopStarts <=> AudioLive
  <1> USE DEF IInv, AudioIInv, AudioHolds, AudioLive, AudioStopStarts
  <1>1. AudioLive => AudioStopStarts
    BY LeaseAssumption
    DEF AudioBusy, UsedBy, StartsFinalization, CoordinatorInv,
        CoordinatorTypeOK, StateMatchesCapture, PromisesFollowLeases, Promises,
        TypeOK, AudioTypeOK
  <1> QED BY <1>1

(* The same of a video recording. *)
LEMMA LiveVideoStops ==
  ASSUME IInv
  PROVE  VideoStopStarts <=> VideoLive
  <1> USE DEF IInv, VideoIInv, VideoHolds, VideoLive, VideoStopStarts
  <1>1. VideoLive => VideoStopStarts
    BY LeaseAssumption
    DEF VideoBusy, UsedBy, StartsFinalization, CoordinatorInv,
        CoordinatorTypeOK, StateMatchesCapture, PromisesFollowLeases, Promises
  <1> QED BY <1>1

(* A step of one service keeps the mode of every lease in use, and gives no
   lease the mode of the other service. *)
LEMMA ModesStay ==
  ASSUME IInv, NEW m \in Modes, LockOf(m)
  PROVE  \A l \in Leases :
            /\ leaseMode[l] # "unused" => leaseMode'[l] = leaseMode[l]
            /\ leaseMode'[l] # m => leaseMode'[l] = leaseMode[l]
  <1>1. CASE UNCHANGED coordinatorVars
    BY <1>1 DEF coordinatorVars
  <1>2. CASE UNCHANGED leaseMode
    BY <1>2
  <1>3. ASSUME NEW k \in Leases, leaseMode[k] = "unused",
               leaseMode' = [leaseMode EXCEPT ![k] = m]
        PROVE  \A l \in Leases :
                  /\ leaseMode[l] # "unused" => leaseMode'[l] = leaseMode[l]
                  /\ leaseMode'[l] # m => leaseMode'[l] = leaseMode[l]
    BY <1>3 DEF IInv, CoordinatorInv, CoordinatorTypeOK
  <1> QED BY <1>1, <1>2, <1>3 DEF LockOf

(* What a step of one service leaves to the other: if that one is busy, the
   lock and the coordinator's state. *)
LEMMA LockStays ==
  ASSUME IInv, NEW m \in Modes, LockOf(m)
  PROVE  /\ m = "audio" /\ VideoBusy =>
               UNCHANGED <<activeCapture, state, leaseMode>>
         /\ m = "video" /\ AudioBusy =>
               UNCHANGED <<activeCapture, state, leaseMode>>
  <1>1. /\ m = "audio" /\ VideoBusy => UNCHANGED coordinatorVars
        /\ m = "video" /\ AudioBusy => UNCHANGED coordinatorVars
    BY BusyHoldsLock, LeaseAssumption DEF LockOf, UsedBy
  <1> QED BY <1>1 DEF coordinatorVars

(* A step of the audio service preserves the invariant of the video service. *)
LEMMA VideoKept ==
  ASSUME IInv, VideoSame, LockOf("audio"), FilesOf("audio"),
         EnvironmentTypeOK', UNCHANGED faults
  PROVE  VideoIInv'
  <1> "audio" \in Modes
    BY DEF Modes
  <1> USE DEF IInv, VideoIInv, VideoSame, VideoLive, VideoStarting, VideoEnding,
              VideoBusy
  <1>1. \A s \in Leases : leaseMode'[s] = "video" => leaseMode[s] = "video"
    BY ModesStay
  <1>2. \A s \in Leases : leaseMode[s] = "video" =>
           /\ leaseMode'[s] = "video"
           /\ s \in openSessions' <=> s \in openSessions
           /\ s \in savedFiles' <=> s \in savedFiles
    BY ModesStay DEF FilesOf
  <1>3. VideoHolds'
    BY <1>2, LockStays DEF VideoHolds, UsedBy
  <1>4. VideoRuns'
    BY DEF VideoRuns
  <1>5. VideoWrites'
    <2>1. UsedBy(video.session, "video") => UsedBy(video.session, "video")'
      BY <1>2 DEF UsedBy
    <2>2. video.start.step = "createTrack" \/ VideoLive \/ VideoEnding =>
             UsedBy(video.session, "video")
      BY DEF VideoWrites, VideoHolds, UsedBy
    <2> QED BY <1>2, <2>1, <2>2 DEF VideoWrites, UsedBy
  <1>6. VideoCloses'
    BY <1>1, <1>2 DEF VideoCloses, VideoOwns, EnvironmentTypeOK
  <1>7. VideoSaves'
    <2>1. VideoStarting \/ VideoLive \/ VideoEnding =>
             UsedBy(video.lease, "video")
      BY DEF VideoHolds, UsedBy
    <2>2. video.session \in savedFiles \/ video.session \in savedFiles' =>
             video.session \in Leases /\ leaseMode[video.session] = "video"
      BY LeaseAssumption DEF VideoWrites, UsedBy, TypeOK, EnvironmentTypeOK
    <2>3. VideoStarting \/ VideoLive \/ VideoEnding =>
             video.lease \notin savedFiles'
      BY <1>2, <2>1 DEF VideoSaves, UsedBy
    <2>4. video.session \in savedFiles' => video.session \in savedFiles
      BY <1>2, <2>2
    <2> QED
      BY <2>3, <2>4 DEF VideoSaves, FinishedVideoIsTranscribed, FilesOf
  <1> QED BY <1>3, <1>4, <1>5, <1>6, <1>7

(* A step of the video service preserves the invariant of the audio service. *)
LEMMA AudioKept ==
  ASSUME IInv, UNCHANGED <<audio, faults>>, LockOf("video"), FilesOf("video"),
         EnvironmentTypeOK'
  PROVE  AudioIInv'
  <1> "video" \in Modes
    BY DEF Modes
  <1> USE DEF IInv, AudioIInv, AudioLive, AudioBusy
  <1>1. \A s \in Leases : leaseMode'[s] = "audio" => leaseMode[s] = "audio"
    BY ModesStay
  <1>2. \A s \in Leases : leaseMode[s] = "audio" =>
           leaseMode'[s] = "audio" /\ (s \in openSessions' <=> s \in openSessions)
    BY ModesStay DEF FilesOf
  <1>3. AudioHolds'
    BY <1>2, LockStays DEF AudioHolds, UsedBy
  <1>4. AudioRuns'
    BY DEF AudioRuns
  <1>5. AudioWrites'
    <2>1. UsedBy(audio.session, "audio") => UsedBy(audio.session, "audio")'
      BY <1>2 DEF UsedBy
    <2>2. AudioBusy => UsedBy(audio.lease, "audio")
      BY DEF AudioHolds
    <2> QED BY <1>2, <2>1, <2>2 DEF AudioWrites, UsedBy
  <1>6. AudioCloses'
    BY <1>1, <1>2 DEF AudioCloses, AudioOwns, EnvironmentTypeOK
  <1> QED BY <1>3, <1>4, <1>5, <1>6

(* Every session was opened under a lease that somebody acquired. *)
LEMMA SessionsStayUsed ==
  ASSUME IInv, NEW m \in Modes, LockOf(m), FilesOf(m), EnvironmentTypeOK'
  PROVE  SessionsAreUsed'
  <1> SUFFICES ASSUME NEW l \in (openSessions \cup savedFiles)'
               PROVE  leaseMode'[l] # "unused"
    BY DEF SessionsAreUsed
  <1>1. l \in Leases
    BY DEF EnvironmentTypeOK
  <1>2. leaseMode[l] # "unused"
    BY <1>1, StateNames DEF FilesOf, IInv, SessionsAreUsed
  <1> QED BY <1>1, <1>2, ModesStay

-------------------------------------------------------------------------------
(* The steps of the audio service. *)

\* The fields of the service after a step, as far as the invariant speaks of
\* them.
AudioBecomes(status, conversation, lease, session, track, finalization,
             recorder, startStep, startLease, stopStep, stopSession, outcome) ==
    /\ audio'.status = status /\ audio'.conversation = conversation
    /\ audio'.lease = lease /\ audio'.session = session
    /\ audio'.track = track /\ audio'.finalization = finalization
    /\ audio'.recorder = recorder
    /\ audio'.start.step = startStep /\ audio'.start.lease = startLease
    /\ audio'.stop.step = stopStep /\ audio'.stop.session = stopSession
    /\ audio'.stop.outcome = outcome

(* A start finds the lock free, hence both services at rest, and its lease has
   never been used: no old session is its own. *)
LEMMA AudioStarts ==
  ASSUME IInv, NEW c \in Conversations, NEW l \in Leases,
         AudioStartRecording(c, l), UNCHANGED <<video, faults>>
  PROVE  AudioStep
  <1> USE DEF IInv, TypeOK, AudioTypeOK, AudioIInv,
              AudioStartRecording, NoAudioStart, environmentVars, Acquire,
              CanAcquire, Recording, CoordinatorInv, CoordinatorTypeOK,
              StateMatchesCapture
  <1>1. AudioTypeOK'
    BY LeaseAssumption
  <1>2. AudioHolds'
    BY LeaseAssumption DEF AudioHolds, AudioBusy, AudioLive, UsedBy
  <1>3. AudioRuns'
    BY LeaseAssumption DEF AudioRuns, AudioHolds, AudioBusy, AudioLive, UsedBy
  <1>4. AudioWrites'
    BY LeaseAssumption
    DEF AudioWrites, AudioRuns, AudioHolds, AudioBusy, AudioLive, UsedBy
  <1>5. AudioCloses'
    BY LeaseAssumption
    DEF AudioCloses, AudioOwns, AudioWrites, AudioRuns, AudioHolds, AudioBusy,
        AudioLive, UsedBy,
        SessionsAreUsed, UndoneFaults, EnvironmentTypeOK
  <1>6. EnvironmentTypeOK' /\ FilesOf("audio") /\ PublishesOpen
    BY LeaseAssumption
    DEF EnvironmentTypeOK, FilesOf, PublishesOpen, AudioWrites,
        AudioHolds, AudioBusy, AudioLive, UsedBy
  <1>7. LockOf("audio") /\ LockIsUsed'
    BY LeaseAssumption
    DEF LockOf, LockIsUsed, VideoBusy, AudioHolds, AudioBusy, AudioLive, UsedBy
  <1>8. [CoordinatorNext]_coordinatorVars
    BY DEF CoordinatorNext, Modes
  <1> QED
    BY <1>1, <1>2, <1>3, <1>4, <1>5, <1>6, <1>7, <1>8 DEF AudioStep, Shared

(* A pause reaches the recorder and the coordinator in one step. *)
LEMMA AudioPauses ==
  ASSUME IInv, AudioPause, UNCHANGED <<video, faults>>
  PROVE  AudioStep
  <1> USE DEF IInv, TypeOK, AudioTypeOK, AudioIInv, AudioPause,
              Pause, CanPause, Paused, Recording, environmentVars
  <1>1. AudioTypeOK'
    BY LeaseAssumption
  <1>2. AudioHolds'
    BY LeaseAssumption DEF AudioHolds, AudioBusy, AudioLive, UsedBy
  <1>3. AudioRuns'
    BY LeaseAssumption DEF AudioRuns, AudioHolds, AudioBusy, AudioLive, UsedBy
  <1>4. AudioWrites'
    BY LeaseAssumption
    DEF AudioWrites, AudioRuns, AudioHolds, AudioBusy, AudioLive, UsedBy
  <1>5. AudioCloses'
    BY LeaseAssumption
    DEF AudioCloses, AudioOwns, AudioWrites, AudioRuns, AudioHolds, AudioBusy,
        AudioLive, UsedBy,
        SessionsAreUsed, UndoneFaults, EnvironmentTypeOK
  <1>6. EnvironmentTypeOK' /\ FilesOf("audio") /\ PublishesOpen
    BY LeaseAssumption
    DEF EnvironmentTypeOK, FilesOf, PublishesOpen, AudioWrites,
        AudioHolds, AudioBusy, AudioLive, UsedBy
  <1>7. LockOf("audio") /\ LockIsUsed'
    BY LeaseAssumption
    DEF LockOf, LockIsUsed, VideoBusy, AudioHolds, AudioBusy, AudioLive, UsedBy
  <1>8. [CoordinatorNext]_coordinatorVars
    BY DEF CoordinatorNext, CoordinatorInv, CoordinatorTypeOK, AudioHolds,
           AudioBusy, UsedBy
  <1> QED
    BY <1>1, <1>2, <1>3, <1>4, <1>5, <1>6, <1>7, <1>8 DEF AudioStep, Shared

(* So does the end of the pause. *)
LEMMA AudioResumes ==
  ASSUME IInv, AudioResume, UNCHANGED <<video, faults>>
  PROVE  AudioStep
  <1> USE DEF IInv, TypeOK, AudioTypeOK, AudioIInv, AudioResume,
              Resume, CanResume, Paused, Recording, environmentVars
  <1>1. AudioTypeOK'
    BY LeaseAssumption
  <1>2. AudioHolds'
    BY LeaseAssumption DEF AudioHolds, AudioBusy, AudioLive, UsedBy
  <1>3. AudioRuns'
    BY LeaseAssumption DEF AudioRuns, AudioHolds, AudioBusy, AudioLive, UsedBy
  <1>4. AudioWrites'
    BY LeaseAssumption
    DEF AudioWrites, AudioRuns, AudioHolds, AudioBusy, AudioLive, UsedBy
  <1>5. AudioCloses'
    BY LeaseAssumption
    DEF AudioCloses, AudioOwns, AudioWrites, AudioRuns, AudioHolds, AudioBusy,
        AudioLive, UsedBy,
        SessionsAreUsed, UndoneFaults, EnvironmentTypeOK
  <1>6. EnvironmentTypeOK' /\ FilesOf("audio") /\ PublishesOpen
    BY LeaseAssumption
    DEF EnvironmentTypeOK, FilesOf, PublishesOpen, AudioWrites,
        AudioHolds, AudioBusy, AudioLive, UsedBy
  <1>7. LockOf("audio") /\ LockIsUsed'
    BY LeaseAssumption
    DEF LockOf, LockIsUsed, VideoBusy, AudioHolds, AudioBusy, AudioLive, UsedBy
  <1>8. [CoordinatorNext]_coordinatorVars
    BY DEF CoordinatorNext, AudioHolds, AudioBusy, UsedBy
  <1> QED
    BY <1>1, <1>2, <1>3, <1>4, <1>5, <1>6, <1>7, <1>8 DEF AudioStep, Shared

(* A recorder left over from an earlier recording is stopped before the tap
   is started. *)
LEMMA AudioRecovers ==
  ASSUME IInv, AudioRecover, UNCHANGED <<video, faults>>
  PROVE  AudioStep
  <1> USE DEF IInv, TypeOK, AudioTypeOK, AudioIInv, AudioRecover,
              AudioAt, AudioGoto, StopOf, outsideVars, environmentVars,
              fileVars, coordinatorVars
  <1>1. AudioTypeOK'
    BY LeaseAssumption, ZenonT(60)
  <1>2. AudioHolds'
    BY LeaseAssumption DEF AudioHolds, AudioBusy, AudioLive, UsedBy
  <1>3. AudioRuns'
    BY LeaseAssumption DEF AudioRuns, AudioHolds, AudioBusy, AudioLive, UsedBy
  <1>4. AudioWrites'
    BY LeaseAssumption
    DEF AudioWrites, AudioRuns, AudioHolds, AudioBusy, AudioLive, UsedBy
  <1>5. AudioCloses'
    BY LeaseAssumption
    DEF AudioCloses, AudioOwns, AudioWrites, AudioRuns, AudioHolds, AudioBusy,
        AudioLive, UsedBy,
        SessionsAreUsed, UndoneFaults, EnvironmentTypeOK
  <1>6. EnvironmentTypeOK' /\ FilesOf("audio") /\ PublishesOpen
    BY LeaseAssumption
    DEF EnvironmentTypeOK, FilesOf, PublishesOpen, AudioWrites,
        AudioHolds, AudioBusy, AudioLive, UsedBy
  <1>7. LockOf("audio") /\ LockIsUsed'
    BY LeaseAssumption
    DEF LockOf, LockIsUsed, VideoBusy, AudioHolds, AudioBusy, AudioLive, UsedBy
  <1>8. [CoordinatorNext]_coordinatorVars
    BY DEF CoordinatorNext
  <1> QED
    BY <1>1, <1>2, <1>3, <1>4, <1>5, <1>6, <1>7, <1>8 DEF AudioStep, Shared

(* The unwinding of a start stops the recorder, and the tap with it. *)
LEMMA AudioUnwindsRecorder ==
  ASSUME IInv, AudioUnwindRecorder, UNCHANGED <<video, faults>>
  PROVE  AudioStep
  <1> USE DEF IInv, TypeOK, AudioTypeOK, AudioIInv,
              AudioUnwindRecorder, AudioAt, AudioGoto, StopOf, outsideVars,
              environmentVars, fileVars, coordinatorVars
  <1>1. AudioTypeOK'
    BY LeaseAssumption
  <1>2. AudioHolds'
    BY LeaseAssumption DEF AudioHolds, AudioBusy, AudioLive, UsedBy
  <1>3. AudioRuns'
    BY LeaseAssumption DEF AudioRuns, AudioHolds, AudioBusy, AudioLive, UsedBy
  <1>4. AudioWrites'
    BY LeaseAssumption
    DEF AudioWrites, AudioRuns, AudioHolds, AudioBusy, AudioLive, UsedBy
  <1>5. AudioCloses'
    BY LeaseAssumption
    DEF AudioCloses, AudioOwns, AudioWrites, AudioRuns, AudioHolds, AudioBusy,
        AudioLive, UsedBy,
        SessionsAreUsed, UndoneFaults, EnvironmentTypeOK
  <1>6. EnvironmentTypeOK' /\ FilesOf("audio") /\ PublishesOpen
    BY LeaseAssumption
    DEF EnvironmentTypeOK, FilesOf, PublishesOpen, AudioWrites,
        AudioHolds, AudioBusy, AudioLive, UsedBy
  <1>7. LockOf("audio") /\ LockIsUsed'
    BY LeaseAssumption
    DEF LockOf, LockIsUsed, VideoBusy, AudioHolds, AudioBusy, AudioLive, UsedBy
  <1>8. [CoordinatorNext]_coordinatorVars
    BY DEF CoordinatorNext
  <1> QED
    BY <1>1, <1>2, <1>3, <1>4, <1>5, <1>6, <1>7, <1>8 DEF AudioStep, Shared

(* A start that fails before its recorder has answered is undone, whatever had
   been set up: r is the state of the recorder by then. *)
LEMMA AudioFailsToStart ==
  ASSUME IInv, audio.start.step \in {"createTrack", "createFile",
  "startRecorder",
                               "refusedAbort"},
         NEW t \in BOOLEAN, NEW r \in {audio.recorder, "running"},
         r = audio.recorder \/ audio.start.step = "startRecorder",
         audio' = AudioStartFailed([audio EXCEPT !.track = t, !.recorder = r]),
         UNCHANGED outsideVars, UNCHANGED <<video, faults>>
  PROVE  AudioStep
  <1>1. /\ AudioTypeOK'
        /\ AudioBecomes(audio.status, audio.conversation, audio.lease,
                        audio.session, IF r = "idle" THEN FALSE ELSE t,
                      audio.finalization, r,
                      IF r = "idle" THEN "unwindTrack"
         ELSE "unwindRecorder",
                      audio.start.lease, audio.stop.step, audio.stop.session,
                      audio.stop.outcome)
    <2>1. CASE r = "idle"
      BY <2>1, LeaseAssumption
      DEF IInv, TypeOK, AudioTypeOK, AudioBecomes,
           AudioStartFailed
    <2>2. CASE ~(r = "idle")
      <3> DEFINE start == [audio.start EXCEPT !.step = "unwindRecorder"]
      <3>1. audio' = [audio EXCEPT !.track = t, !.recorder = r,
                                   !.start.step = "unwindRecorder"]
        BY <2>2 DEF IInv, TypeOK, AudioTypeOK, AudioStartFailed
      <3>2. audio' = [audio EXCEPT !.track = t, !.recorder = r,
                                   !.start = start]
        BY <3>1 DEF IInv, TypeOK, AudioTypeOK
      <3>3. /\ start \in [step : {"none", "recover", "createTrack",
                                  "createFile", "startRecorder", "refusedAbort",
                                  "refusedTrack", "unwindRecorder",
                                  "unwindTrack", "unwindAbort"},
                         lease : Leases \cup {NoLease},
                         conversation : Conversations \cup {NoConversation}]
            /\ start.step = "unwindRecorder" /\ start.lease = audio.start.lease
        BY DEF IInv, TypeOK, AudioTypeOK
      <3>4. r \in {"idle", "running", "paused", "failed"}
        BY DEF IInv, TypeOK, AudioTypeOK
      <3> HIDE DEF start
      <3>6. AudioTypeOK'
        BY <3>2, <3>3, <3>4, ZenonT(60) DEF IInv, TypeOK, AudioTypeOK
      <3>7. /\ audio'.status = audio.status
            /\ audio'.conversation = audio.conversation
            /\ audio'.lease = audio.lease /\ audio'.session = audio.session
            /\ audio'.track = t /\ audio'.recorder = r
            /\ audio'.finalization = audio.finalization
            /\ audio'.start = start /\ audio'.stop = audio.stop
        BY <3>2 DEF IInv, TypeOK, AudioTypeOK
      <3> QED BY <2>2, <3>3, <3>6, <3>7, Zenon DEF AudioBecomes
    <2> QED BY <2>1, <2>2
  <1> USE <1>1 DEF IInv, TypeOK, AudioTypeOK, AudioIInv,
              AudioBecomes, outsideVars, environmentVars, fileVars,
              coordinatorVars
  <1>2. AudioHolds'
    BY LeaseAssumption DEF AudioHolds, AudioBusy, AudioLive, UsedBy
  <1>3. AudioRuns'
    BY LeaseAssumption DEF AudioRuns, AudioHolds, AudioBusy, AudioLive, UsedBy
  <1>4. AudioWrites'
    BY LeaseAssumption
    DEF AudioWrites, AudioRuns, AudioHolds, AudioBusy, AudioLive, UsedBy
  <1>5. AudioCloses'
    BY LeaseAssumption
    DEF AudioCloses, AudioOwns, AudioWrites, AudioRuns, AudioHolds, AudioBusy,
        AudioLive, UsedBy,
        SessionsAreUsed, UndoneFaults, EnvironmentTypeOK
  <1>6. EnvironmentTypeOK' /\ FilesOf("audio") /\ PublishesOpen
    BY LeaseAssumption
    DEF EnvironmentTypeOK, FilesOf, PublishesOpen, AudioWrites,
        AudioHolds, AudioBusy, AudioLive, UsedBy
  <1>7. LockOf("audio") /\ LockIsUsed'
    BY LeaseAssumption
    DEF LockOf, LockIsUsed, VideoBusy, AudioHolds, AudioBusy, AudioLive, UsedBy
  <1>8. [CoordinatorNext]_coordinatorVars
    BY DEF CoordinatorNext
  <1> QED
    BY <1>1, <1>2, <1>3, <1>4, <1>5, <1>6, <1>7, <1>8 DEF AudioStep, Shared

(* The tap runs for the service that holds the lock. *)
LEMMA AudioHasTrack ==
  ASSUME IInv, AudioAt("createTrack"),
         audio' = [AudioGoto("createFile") EXCEPT !.track = TRUE],
         UNCHANGED outsideVars, UNCHANGED <<video, faults>>
  PROVE  AudioStep
  <1>1. /\ AudioTypeOK'
        /\ AudioBecomes(audio.status, audio.conversation, audio.lease,
                        audio.session, TRUE, audio.finalization, audio.recorder,
                      "createFile", audio.start.lease, audio.stop.step,
                      audio.stop.session, audio.stop.outcome)
    BY LeaseAssumption DEF IInv, TypeOK, AudioTypeOK, AudioBecomes,
           AudioGoto
  <1> USE <1>1 DEF IInv, TypeOK, AudioTypeOK, AudioIInv,
              AudioBecomes, AudioAt, outsideVars, environmentVars, fileVars,
              coordinatorVars
  <1>2. AudioHolds'
    BY LeaseAssumption DEF AudioHolds, AudioBusy, AudioLive, UsedBy
  <1>3. AudioRuns'
    BY LeaseAssumption DEF AudioRuns, AudioHolds, AudioBusy, AudioLive, UsedBy
  <1>4. AudioWrites'
    BY LeaseAssumption
    DEF AudioWrites, AudioRuns, AudioHolds, AudioBusy, AudioLive, UsedBy
  <1>5. AudioCloses'
    BY LeaseAssumption
    DEF AudioCloses, AudioOwns, AudioWrites, AudioRuns, AudioHolds, AudioBusy,
        AudioLive, UsedBy,
        SessionsAreUsed, UndoneFaults, EnvironmentTypeOK
  <1>6. EnvironmentTypeOK' /\ FilesOf("audio") /\ PublishesOpen
    BY LeaseAssumption
    DEF EnvironmentTypeOK, FilesOf, PublishesOpen, AudioWrites,
        AudioHolds, AudioBusy, AudioLive, UsedBy
  <1>7. LockOf("audio") /\ LockIsUsed'
    BY LeaseAssumption
    DEF LockOf, LockIsUsed, VideoBusy, AudioHolds, AudioBusy, AudioLive, UsedBy
  <1>8. [CoordinatorNext]_coordinatorVars
    BY DEF CoordinatorNext
  <1> QED
    BY <1>1, <1>2, <1>3, <1>4, <1>5, <1>6, <1>7, <1>8 DEF AudioStep, Shared

(* The session is opened under the lease of the capture. *)
LEMMA AudioHasFile ==
  ASSUME IInv, AudioAt("createFile"),
         OpenSession(audio.start.lease),
         audio' = [AudioGoto("startRecorder") EXCEPT
                      !.session = audio.start.lease],
         UNCHANGED <<coordinatorVars, endedCalls>>,
         UNCHANGED <<video, faults>>
  PROVE  AudioStep
  <1>1. /\ AudioTypeOK'
        /\ AudioBecomes(audio.status, audio.conversation, audio.lease,
                        audio.start.lease, audio.track, audio.finalization,
                      audio.recorder, "startRecorder", audio.start.lease,
                      audio.stop.step, audio.stop.session, audio.stop.outcome)
    BY LeaseAssumption DEF IInv, TypeOK, AudioTypeOK, AudioBecomes,
           AudioGoto
  <1> USE <1>1 DEF IInv, TypeOK, AudioTypeOK, AudioIInv,
              AudioBecomes, AudioAt, OpenSession, coordinatorVars
  <1>2. AudioHolds'
    BY LeaseAssumption DEF AudioHolds, AudioBusy, AudioLive, UsedBy
  <1>3. AudioRuns'
    BY LeaseAssumption DEF AudioRuns, AudioHolds, AudioBusy, AudioLive, UsedBy
  <1>4. AudioWrites'
    BY LeaseAssumption
    DEF AudioWrites, AudioRuns, AudioHolds, AudioBusy, AudioLive, UsedBy
  <1>5. AudioCloses'
    BY LeaseAssumption
    DEF AudioCloses, AudioOwns, AudioWrites, AudioRuns, AudioHolds, AudioBusy,
        AudioLive, UsedBy,
        SessionsAreUsed, UndoneFaults, EnvironmentTypeOK
  <1>6. EnvironmentTypeOK' /\ FilesOf("audio") /\ PublishesOpen
    BY LeaseAssumption
    DEF EnvironmentTypeOK, FilesOf, PublishesOpen, AudioWrites,
        AudioHolds, AudioBusy, AudioLive, UsedBy
  <1>7. LockOf("audio") /\ LockIsUsed'
    BY LeaseAssumption
    DEF LockOf, LockIsUsed, VideoBusy, AudioHolds, AudioBusy, AudioLive, UsedBy
  <1>8. [CoordinatorNext]_coordinatorVars
    BY DEF CoordinatorNext
  <1> QED
    BY <1>1, <1>2, <1>3, <1>4, <1>5, <1>6, <1>7, <1>8 DEF AudioStep, Shared

(* The recording begins with an open session of its own lease. *)
LEMMA AudioHasRecorder ==
  ASSUME IInv, AudioAt("startRecorder"),
         audio' = AudioRecordingStarted,
         UNCHANGED outsideVars, UNCHANGED <<video, faults>>
  PROVE  AudioStep
  <1>1. /\ AudioTypeOK'
        /\ AudioBecomes("recording", audio.start.conversation, audio.lease,
                        audio.session, audio.track, audio.finalization,
                      "running", "none", NoLease, audio.stop.step,
                      audio.stop.session, audio.stop.outcome)
    BY LeaseAssumption DEF IInv, TypeOK, AudioTypeOK, AudioBecomes,
           AudioRecordingStarted, NoAudioStart
  <1> USE <1>1 DEF IInv, TypeOK, AudioTypeOK, AudioIInv,
              AudioBecomes, AudioAt, outsideVars, environmentVars, fileVars,
              coordinatorVars
  <1>2. AudioHolds'
    BY LeaseAssumption DEF AudioHolds, AudioBusy, AudioLive, UsedBy
  <1>3. AudioRuns'
    BY LeaseAssumption DEF AudioRuns, AudioHolds, AudioBusy, AudioLive, UsedBy
  <1>4. AudioWrites'
    BY LeaseAssumption
    DEF AudioWrites, AudioRuns, AudioHolds, AudioBusy, AudioLive, UsedBy
  <1>5. AudioCloses'
    BY LeaseAssumption
    DEF AudioCloses, AudioOwns, AudioWrites, AudioRuns, AudioHolds, AudioBusy,
        AudioLive, UsedBy,
        SessionsAreUsed, UndoneFaults, EnvironmentTypeOK
  <1>6. EnvironmentTypeOK' /\ FilesOf("audio") /\ PublishesOpen
    BY LeaseAssumption
    DEF EnvironmentTypeOK, FilesOf, PublishesOpen, AudioWrites,
        AudioHolds, AudioBusy, AudioLive, UsedBy
  <1>7. LockOf("audio") /\ LockIsUsed'
    BY LeaseAssumption
    DEF LockOf, LockIsUsed, VideoBusy, AudioHolds, AudioBusy, AudioLive, UsedBy
  <1>8. [CoordinatorNext]_coordinatorVars
    BY DEF CoordinatorNext
  <1> QED
    BY <1>1, <1>2, <1>3, <1>4, <1>5, <1>6, <1>7, <1>8 DEF AudioStep, Shared

(* A recorder that refuses its streams is not running. *)
LEMMA AudioRefused ==
  ASSUME IInv, AudioAt("startRecorder"),
         audio' = AudioGoto("refusedAbort"),
         UNCHANGED outsideVars, UNCHANGED <<video, faults>>
  PROVE  AudioStep
  <1>1. /\ AudioTypeOK'
        /\ AudioBecomes(audio.status, audio.conversation, audio.lease,
                        audio.session, audio.track, audio.finalization,
                      audio.recorder, "refusedAbort", audio.start.lease,
                      audio.stop.step, audio.stop.session, audio.stop.outcome)
    BY LeaseAssumption DEF IInv, TypeOK, AudioTypeOK, AudioBecomes,
           AudioGoto
  <1> USE <1>1 DEF IInv, TypeOK, AudioTypeOK, AudioIInv,
              AudioBecomes, AudioAt, outsideVars, environmentVars, fileVars,
              coordinatorVars
  <1>2. AudioHolds'
    BY LeaseAssumption DEF AudioHolds, AudioBusy, AudioLive, UsedBy
  <1>3. AudioRuns'
    BY LeaseAssumption DEF AudioRuns, AudioHolds, AudioBusy, AudioLive, UsedBy
  <1>4. AudioWrites'
    BY LeaseAssumption
    DEF AudioWrites, AudioRuns, AudioHolds, AudioBusy, AudioLive, UsedBy
  <1>5. AudioCloses'
    BY LeaseAssumption
    DEF AudioCloses, AudioOwns, AudioWrites, AudioRuns, AudioHolds, AudioBusy,
        AudioLive, UsedBy,
        SessionsAreUsed, UndoneFaults, EnvironmentTypeOK
  <1>6. EnvironmentTypeOK' /\ FilesOf("audio") /\ PublishesOpen
    BY LeaseAssumption
    DEF EnvironmentTypeOK, FilesOf, PublishesOpen, AudioWrites,
        AudioHolds, AudioBusy, AudioLive, UsedBy
  <1>7. LockOf("audio") /\ LockIsUsed'
    BY LeaseAssumption
    DEF LockOf, LockIsUsed, VideoBusy, AudioHolds, AudioBusy, AudioLive, UsedBy
  <1>8. [CoordinatorNext]_coordinatorVars
    BY DEF CoordinatorNext
  <1> QED
    BY <1>1, <1>2, <1>3, <1>4, <1>5, <1>6, <1>7, <1>8 DEF AudioStep, Shared

(* Its session is closed and forgotten. *)
LEMMA AudioRefusedIsAborted ==
  ASSUME IInv, AudioAt("refusedAbort"),
         CloseSession(audio.session),
         audio' = [AudioGoto("refusedTrack") EXCEPT !.session = NoLease,
                                                  !.track = FALSE],
         UNCHANGED <<coordinatorVars, endedCalls>>,
         UNCHANGED <<video, faults>>
  PROVE  AudioStep
  <1>1. /\ AudioTypeOK'
        /\ AudioBecomes(audio.status, audio.conversation, audio.lease, NoLease,
                        FALSE, audio.finalization, audio.recorder,
                      "refusedTrack", audio.start.lease, audio.stop.step,
                      audio.stop.session, audio.stop.outcome)
    BY LeaseAssumption DEF IInv, TypeOK, AudioTypeOK, AudioBecomes,
           AudioGoto
  <1> USE <1>1 DEF IInv, TypeOK, AudioTypeOK, AudioIInv,
              AudioBecomes, AudioAt, CloseSession, coordinatorVars
  <1>2. AudioHolds'
    BY LeaseAssumption DEF AudioHolds, AudioBusy, AudioLive, UsedBy
  <1>3. AudioRuns'
    BY LeaseAssumption DEF AudioRuns, AudioHolds, AudioBusy, AudioLive, UsedBy
  <1>4. AudioWrites'
    BY LeaseAssumption
    DEF AudioWrites, AudioRuns, AudioHolds, AudioBusy, AudioLive, UsedBy
  <1>5. AudioCloses'
    BY LeaseAssumption
    DEF AudioCloses, AudioOwns, AudioWrites, AudioRuns, AudioHolds, AudioBusy,
        AudioLive, UsedBy,
        SessionsAreUsed, UndoneFaults, EnvironmentTypeOK
  <1>6. EnvironmentTypeOK' /\ FilesOf("audio") /\ PublishesOpen
    BY LeaseAssumption
    DEF EnvironmentTypeOK, FilesOf, PublishesOpen, AudioWrites,
        AudioHolds, AudioBusy, AudioLive, UsedBy
  <1>7. LockOf("audio") /\ LockIsUsed'
    BY LeaseAssumption
    DEF LockOf, LockIsUsed, VideoBusy, AudioHolds, AudioBusy, AudioLive, UsedBy
  <1>8. [CoordinatorNext]_coordinatorVars
    BY DEF CoordinatorNext
  <1> QED
    BY <1>1, <1>2, <1>3, <1>4, <1>5, <1>6, <1>7, <1>8 DEF AudioStep, Shared

(* A failed start that opened a session goes on to abort it. *)
LEMMA AudioAbortsStart ==
  ASSUME IInv, AudioAt("unwindTrack"),
         audio' = AudioGoto("unwindAbort"),
         UNCHANGED <<coordinatorVars, environmentVars>>,
         UNCHANGED <<video, faults>>
  PROVE  AudioStep
  <1>1. /\ AudioTypeOK'
        /\ AudioBecomes(audio.status, audio.conversation, audio.lease,
                        audio.session, audio.track, audio.finalization,
                      audio.recorder, "unwindAbort", audio.start.lease,
                      audio.stop.step, audio.stop.session, audio.stop.outcome)
    BY LeaseAssumption DEF IInv, TypeOK, AudioTypeOK, AudioBecomes,
           AudioGoto
  <1> USE <1>1 DEF IInv, TypeOK, AudioTypeOK, AudioIInv,
              AudioBecomes, AudioAt, environmentVars, coordinatorVars
  <1>2. AudioHolds'
    BY LeaseAssumption DEF AudioHolds, AudioBusy, AudioLive, UsedBy
  <1>3. AudioRuns'
    BY LeaseAssumption DEF AudioRuns, AudioHolds, AudioBusy, AudioLive, UsedBy
  <1>4. AudioWrites'
    BY LeaseAssumption
    DEF AudioWrites, AudioRuns, AudioHolds, AudioBusy, AudioLive, UsedBy
  <1>5. AudioCloses'
    BY LeaseAssumption
    DEF AudioCloses, AudioOwns, AudioWrites, AudioRuns, AudioHolds, AudioBusy,
        AudioLive, UsedBy,
        SessionsAreUsed, UndoneFaults, EnvironmentTypeOK
  <1>6. EnvironmentTypeOK' /\ FilesOf("audio") /\ PublishesOpen
    BY LeaseAssumption
    DEF EnvironmentTypeOK, FilesOf, PublishesOpen, AudioWrites,
        AudioHolds, AudioBusy, AudioLive, UsedBy
  <1>7. LockOf("audio") /\ LockIsUsed'
    BY LeaseAssumption
    DEF LockOf, LockIsUsed, VideoBusy, AudioHolds, AudioBusy, AudioLive, UsedBy
  <1>8. [CoordinatorNext]_coordinatorVars
    BY DEF CoordinatorNext
  <1> QED
    BY <1>1, <1>2, <1>3, <1>4, <1>5, <1>6, <1>7, <1>8 DEF AudioStep, Shared

(* A failed start frees the lock it holds.  Without the failures that make
   the code give up, it has closed its session by then. *)
LEMMA AudioReleases ==
  ASSUME IInv, audio.start.step \in {"refusedTrack", "unwindTrack",
  "unwindAbort"},
         NEW s \in {audio.session, NoLease},
         ReleaseAudioStart([audio EXCEPT !.session = s]),
         \/ UNCHANGED fileVars /\ (\/ audio.start.step = "refusedTrack"
                                  \/ audio.session = NoLease
                                  \/ faults \cap {"stopTrack",
                                                  "abortFile"} # {})
         \/ CloseSession(audio.session),
         UNCHANGED endedCalls,
         UNCHANGED <<video, faults>>
  PROVE  AudioStep
  <1>1. /\ AudioTypeOK'
        /\ AudioBecomes(audio.status, audio.conversation, NoLease, s,
                        audio.track, audio.finalization, audio.recorder, "none",
                      NoLease, audio.stop.step, audio.stop.session,
                      audio.stop.outcome)
    BY LeaseAssumption DEF IInv, TypeOK, AudioTypeOK, AudioBecomes,
           ReleaseAudioStart, NoAudioStart, AudioIInv, AudioHolds
  <1> USE <1>1 DEF IInv, TypeOK, AudioTypeOK, AudioIInv,
              AudioBecomes, ReleaseAudioStart, Release, ClearActiveCapture,
              CloseSession, fileVars
  <1>2. AudioHolds'
    BY LeaseAssumption DEF AudioHolds, AudioBusy, AudioLive, UsedBy
  <1>3. AudioRuns'
    BY LeaseAssumption DEF AudioRuns, AudioHolds, AudioBusy, AudioLive, UsedBy
  <1>4. AudioWrites'
    BY LeaseAssumption
    DEF AudioWrites, AudioRuns, AudioHolds, AudioBusy, AudioLive, UsedBy
  <1>5. AudioCloses'
    BY LeaseAssumption
    DEF AudioCloses, AudioOwns, AudioWrites, AudioRuns, AudioHolds, AudioBusy,
        AudioLive, UsedBy,
        SessionsAreUsed, UndoneFaults, EnvironmentTypeOK
  <1>6. EnvironmentTypeOK' /\ FilesOf("audio") /\ PublishesOpen
    BY LeaseAssumption
    DEF EnvironmentTypeOK, FilesOf, PublishesOpen, AudioWrites,
        AudioHolds, AudioBusy, AudioLive, UsedBy
  <1>7. LockOf("audio") /\ LockIsUsed'
    BY LeaseAssumption
    DEF LockOf, LockIsUsed, VideoBusy, AudioHolds, AudioBusy, AudioLive, UsedBy
  <1>8. [CoordinatorNext]_coordinatorVars
    BY DEF CoordinatorNext, AudioHolds, AudioBusy, UsedBy
  <1> QED
    BY <1>1, <1>2, <1>3, <1>4, <1>5, <1>6, <1>7, <1>8 DEF AudioStep, Shared

(* A recorder that failed gives no take: a session that may be closed is not
   finalized. *)
LEMMA AudioRecorderAnswers ==
  ASSUME IInv, AudioStopAt("stopRecorder"),
         NEW take \in {"save", "discard", "rejected"},
         audio.recorder = "failed" <=> take = "rejected",
         audio' = [audio EXCEPT !.recorder = StopOf(@), !.track = FALSE,
                                !.stop.step = "stopTrack",
                                !.stop.outcome = take],
         UNCHANGED outsideVars, UNCHANGED <<video, faults>>
  PROVE  AudioStep
  <1>1. /\ AudioTypeOK'
        /\ AudioBecomes(audio.status, audio.conversation, audio.lease,
                        audio.session, FALSE, audio.finalization,
                      StopOf(audio.recorder), audio.start.step,
                      audio.start.lease, "stopTrack", audio.stop.session, take)
    <2>1. AudioTypeOK'
      BY LeaseAssumption, ZenonT(60) DEF IInv, TypeOK, AudioTypeOK, StopOf
    <2> QED
      BY LeaseAssumption, ZenonT(60)
      DEF IInv, TypeOK, AudioTypeOK, AudioBecomes, StopOf
  <1> USE <1>1 DEF IInv, TypeOK, AudioTypeOK, AudioIInv,
              AudioBecomes, AudioStopAt, StopOf, outsideVars, environmentVars,
              fileVars, coordinatorVars
  <1>2. AudioHolds'
    BY LeaseAssumption DEF AudioHolds, AudioBusy, AudioLive, UsedBy
  <1>3. AudioRuns'
    BY LeaseAssumption DEF AudioRuns, AudioHolds, AudioBusy, AudioLive, UsedBy
  <1>4. AudioWrites'
    BY LeaseAssumption
    DEF AudioWrites, AudioRuns, AudioHolds, AudioBusy, AudioLive, UsedBy
  <1>5. AudioCloses'
    BY LeaseAssumption
    DEF AudioCloses, AudioOwns, AudioWrites, AudioRuns, AudioHolds, AudioBusy,
        AudioLive, UsedBy,
        SessionsAreUsed, UndoneFaults, EnvironmentTypeOK
  <1>6. EnvironmentTypeOK' /\ FilesOf("audio") /\ PublishesOpen
    BY LeaseAssumption
    DEF EnvironmentTypeOK, FilesOf, PublishesOpen, AudioWrites,
        AudioHolds, AudioBusy, AudioLive, UsedBy
  <1>7. LockOf("audio") /\ LockIsUsed'
    BY LeaseAssumption
    DEF LockOf, LockIsUsed, VideoBusy, AudioHolds, AudioBusy, AudioLive, UsedBy
  <1>8. [CoordinatorNext]_coordinatorVars
    BY DEF CoordinatorNext
  <1> QED
    BY <1>1, <1>2, <1>3, <1>4, <1>5, <1>6, <1>7, <1>8 DEF AudioStep, Shared

(* The session passes from the service to its finalization. *)
LEMMA AudioHandsOverSession ==
  ASSUME IInv, AudioStopAt("stopTrack"),
         audio.stop.outcome # "rejected",
         NEW next \in {"finalizeFile", "abortFile"},
         audio' = [audio EXCEPT !.session = NoLease,
                                !.stop.session = audio.session,
                                !.stop.step = next],
         UNCHANGED outsideVars, UNCHANGED <<video, faults>>
  PROVE  AudioStep
  <1>1. /\ AudioTypeOK'
        /\ AudioBecomes(audio.status, audio.conversation, audio.lease, NoLease,
                        audio.track, audio.finalization, audio.recorder,
                      audio.start.step, audio.start.lease, next, audio.session,
                      audio.stop.outcome)
    BY LeaseAssumption DEF IInv, TypeOK, AudioTypeOK, AudioBecomes,
           AudioStopAt
  <1> USE <1>1 DEF IInv, TypeOK, AudioTypeOK, AudioIInv,
              AudioBecomes, AudioStopAt, outsideVars, environmentVars,
              fileVars, coordinatorVars
  <1>2. AudioHolds'
    BY LeaseAssumption DEF AudioHolds, AudioBusy, AudioLive, UsedBy
  <1>3. AudioRuns'
    BY LeaseAssumption DEF AudioRuns, AudioHolds, AudioBusy, AudioLive, UsedBy
  <1>4. AudioWrites'
    BY LeaseAssumption
    DEF AudioWrites, AudioRuns, AudioHolds, AudioBusy, AudioLive, UsedBy
  <1>5. AudioCloses'
    BY LeaseAssumption
    DEF AudioCloses, AudioOwns, AudioWrites, AudioRuns, AudioHolds, AudioBusy,
        AudioLive, UsedBy,
        SessionsAreUsed, UndoneFaults, EnvironmentTypeOK
  <1>6. EnvironmentTypeOK' /\ FilesOf("audio") /\ PublishesOpen
    BY LeaseAssumption
    DEF EnvironmentTypeOK, FilesOf, PublishesOpen, AudioWrites,
        AudioHolds, AudioBusy, AudioLive, UsedBy
  <1>7. LockOf("audio") /\ LockIsUsed'
    BY LeaseAssumption
    DEF LockOf, LockIsUsed, VideoBusy, AudioHolds, AudioBusy, AudioLive, UsedBy
  <1>8. [CoordinatorNext]_coordinatorVars
    BY DEF CoordinatorNext
  <1> QED
    BY <1>1, <1>2, <1>3, <1>4, <1>5, <1>6, <1>7, <1>8 DEF AudioStep, Shared

(* #finalizeRecording() returns or throws.  Without the failures that make the
   code give up, the session is closed or published by then. *)
LEMMA AudioSettles ==
  ASSUME IInv, audio.stop.step \in {"stopTrack", "finalizeFile", "abortFile"},
         NEW outcome \in {"resolved", "rejected"},
         audio' = AudioSettled(outcome),
         \/ /\ audio.stop.step = "finalizeFile"
            /\ PublishSession(audio.stop.session)
            /\ Transcribe(audio.stop.session)
         \/ /\ audio.stop.step = "abortFile"
            /\ CloseSession(audio.stop.session)
         \/ /\ UNCHANGED fileVars
            /\ \/ audio.stop.step = "stopTrack"
                  /\ audio.stop.outcome = "rejected"
               \/ faults \cap {"stopTrack", "abortFile"} # {},
         UNCHANGED <<coordinatorVars, endedCalls>>,
         UNCHANGED <<video, faults>>
  PROVE  AudioStep
  <1>1. /\ AudioTypeOK'
        /\ AudioBecomes("idle", NoConversation, audio.lease, audio.session,
                        audio.track, "settled", audio.recorder, audio.start.step,
                      audio.start.lease, "settled", NoLease, outcome)
    BY LeaseAssumption DEF IInv, TypeOK, AudioTypeOK, AudioBecomes,
           AudioSettled
  <1> USE <1>1 DEF IInv, TypeOK, AudioTypeOK, AudioIInv,
              AudioBecomes, PublishSession, CloseSession, Transcribe,
              fileVars, coordinatorVars
  <1>2. AudioHolds'
    BY LeaseAssumption DEF AudioHolds, AudioBusy, AudioLive, UsedBy
  <1>3. AudioRuns'
    BY LeaseAssumption DEF AudioRuns, AudioHolds, AudioBusy, AudioLive, UsedBy
  <1>4. AudioWrites'
    BY LeaseAssumption
    DEF AudioWrites, AudioRuns, AudioHolds, AudioBusy, AudioLive, UsedBy
  <1>5. AudioCloses'
    BY LeaseAssumption
    DEF AudioCloses, AudioOwns, AudioWrites, AudioRuns, AudioHolds, AudioBusy,
        AudioLive, UsedBy,
        SessionsAreUsed, UndoneFaults, EnvironmentTypeOK
  <1>6. EnvironmentTypeOK' /\ FilesOf("audio") /\ PublishesOpen
    BY LeaseAssumption
    DEF EnvironmentTypeOK, FilesOf, PublishesOpen, AudioWrites,
        AudioHolds, AudioBusy, AudioLive, UsedBy
  <1>7. LockOf("audio") /\ LockIsUsed'
    BY LeaseAssumption
    DEF LockOf, LockIsUsed, VideoBusy, AudioHolds, AudioBusy, AudioLive, UsedBy
  <1>8. [CoordinatorNext]_coordinatorVars
    BY DEF CoordinatorNext
  <1> QED
    BY <1>1, <1>2, <1>3, <1>4, <1>5, <1>6, <1>7, <1>8 DEF AudioStep, Shared

(* A finalize that failed has closed the session. *)
LEMMA AudioFailsToFinalize ==
  ASSUME IInv, AudioStopAt("finalizeFile"),
         CloseSession(audio.stop.session),
         audio' = [audio EXCEPT !.stop.step = "abortFile"],
         UNCHANGED <<coordinatorVars, endedCalls>>,
         UNCHANGED <<video, faults>>
  PROVE  AudioStep
  <1>1. /\ AudioTypeOK'
        /\ AudioBecomes(audio.status, audio.conversation, audio.lease,
                        audio.session, audio.track, audio.finalization,
                      audio.recorder, audio.start.step, audio.start.lease,
                      "abortFile", audio.stop.session, audio.stop.outcome)
    BY LeaseAssumption DEF IInv, TypeOK, AudioTypeOK, AudioBecomes,
           AudioStopAt
  <1> USE <1>1 DEF IInv, TypeOK, AudioTypeOK, AudioIInv,
              AudioBecomes, AudioStopAt, CloseSession, coordinatorVars
  <1>2. AudioHolds'
    BY LeaseAssumption DEF AudioHolds, AudioBusy, AudioLive, UsedBy
  <1>3. AudioRuns'
    BY LeaseAssumption DEF AudioRuns, AudioHolds, AudioBusy, AudioLive, UsedBy
  <1>4. AudioWrites'
    BY LeaseAssumption
    DEF AudioWrites, AudioRuns, AudioHolds, AudioBusy, AudioLive, UsedBy
  <1>5. AudioCloses'
    BY LeaseAssumption
    DEF AudioCloses, AudioOwns, AudioWrites, AudioRuns, AudioHolds, AudioBusy,
        AudioLive, UsedBy,
        SessionsAreUsed, UndoneFaults, EnvironmentTypeOK
  <1>6. EnvironmentTypeOK' /\ FilesOf("audio") /\ PublishesOpen
    BY LeaseAssumption
    DEF EnvironmentTypeOK, FilesOf, PublishesOpen, AudioWrites,
        AudioHolds, AudioBusy, AudioLive, UsedBy
  <1>7. LockOf("audio") /\ LockIsUsed'
    BY LeaseAssumption
    DEF LockOf, LockIsUsed, VideoBusy, AudioHolds, AudioBusy, AudioLive, UsedBy
  <1>8. [CoordinatorNext]_coordinatorVars
    BY DEF CoordinatorNext
  <1> QED
    BY <1>1, <1>2, <1>3, <1>4, <1>5, <1>6, <1>7, <1>8 DEF AudioStep, Shared

(* The promise that settles is that of the active capture: the lock that is
   freed is its own. *)
LEMMA AudioCompletes ==
  ASSUME IInv, AudioFinalizationDone, UNCHANGED <<video, faults>>
  PROVE  AudioStep
  <1> USE DEF IInv, TypeOK, AudioTypeOK, AudioIInv,
              AudioFinalizationDone, CompleteFinalization, ClearActiveCapture,
              AudioStopAt, NoAudioStop, environmentVars
  <1>1. AudioTypeOK'
    BY LeaseAssumption
  <1>2. AudioHolds'
    BY LeaseAssumption DEF AudioHolds, AudioBusy, AudioLive, UsedBy
  <1>3. AudioRuns'
    BY LeaseAssumption DEF AudioRuns, AudioHolds, AudioBusy, AudioLive, UsedBy
  <1>4. AudioWrites'
    BY LeaseAssumption
    DEF AudioWrites, AudioRuns, AudioHolds, AudioBusy, AudioLive, UsedBy
  <1>5. AudioCloses'
    BY LeaseAssumption
    DEF AudioCloses, AudioOwns, AudioWrites, AudioRuns, AudioHolds, AudioBusy,
        AudioLive, UsedBy,
        SessionsAreUsed, UndoneFaults, EnvironmentTypeOK
  <1>6. EnvironmentTypeOK' /\ FilesOf("audio") /\ PublishesOpen
    BY LeaseAssumption
    DEF EnvironmentTypeOK, FilesOf, PublishesOpen, AudioWrites,
        AudioHolds, AudioBusy, AudioLive, UsedBy
  <1>7. LockOf("audio") /\ LockIsUsed'
    BY LeaseAssumption
    DEF LockOf, LockIsUsed, VideoBusy, AudioHolds, AudioBusy, AudioLive, UsedBy
  <1>8. [CoordinatorNext]_coordinatorVars
    BY DEF CoordinatorNext, AudioHolds, AudioBusy, AudioRuns, UsedBy
  <1> QED
    BY <1>1, <1>2, <1>3, <1>4, <1>5, <1>6, <1>7, <1>8 DEF AudioStep, Shared

(* A finalization begins, whoever asked for it; r is the state of the recorder,
   which may have failed just now and lost its session. *)
LEMMA AudioTerminates ==
  ASSUME IInv, AudioLive,
         Finalize(audio.lease),
         NEW r \in {audio.recorder, "failed"},
         \/ /\ UNCHANGED fileVars
            /\ r = audio.recorder \/ "queueOverflow" \in faults
         \/ /\ CloseSession(audio.session)
            /\ r = "failed" /\ audio.recorder \in {"running", "paused"},
         endedCalls' \subseteq Conversations,
         UNCHANGED faults,
         AudioTypeOK',
         AudioBecomes(audio.status, audio.conversation, audio.lease,
                      audio.session, audio.track, "pending", r,
                      audio.start.step, audio.start.lease, "stopRecorder",
                      audio.stop.session, audio.stop.outcome)
  PROVE  AudioStep
  <1> USE DEF IInv, TypeOK, AudioTypeOK, AudioIInv, AudioBecomes,
              Finalize, CloseSession, fileVars
  <1>1. AudioTypeOK'
    OBVIOUS
  <1>2. AudioHolds'
    BY LeaseAssumption DEF AudioHolds, AudioBusy, AudioLive, UsedBy
  <1>3. AudioRuns'
    BY LeaseAssumption DEF AudioRuns, AudioHolds, AudioBusy, AudioLive, UsedBy
  <1>4. AudioWrites'
    BY LeaseAssumption
    DEF AudioWrites, AudioRuns, AudioHolds, AudioBusy, AudioLive, UsedBy
  <1>5. AudioCloses'
    BY LeaseAssumption
    DEF AudioCloses, AudioOwns, AudioWrites, AudioRuns, AudioHolds, AudioBusy,
        AudioLive, UsedBy,
        SessionsAreUsed, UndoneFaults, EnvironmentTypeOK
  <1>6. EnvironmentTypeOK' /\ FilesOf("audio") /\ PublishesOpen
    BY LeaseAssumption
    DEF EnvironmentTypeOK, FilesOf, PublishesOpen, AudioWrites,
        AudioHolds, AudioBusy, AudioLive, UsedBy
  <1>7. LockOf("audio") /\ LockIsUsed'
    BY LeaseAssumption
    DEF LockOf, LockIsUsed, VideoBusy, AudioHolds, AudioBusy, AudioLive, UsedBy
  <1>8. [CoordinatorNext]_coordinatorVars
    BY DEF CoordinatorNext, AudioHolds, AudioBusy, AudioLive, UsedBy
  <1> QED
    BY <1>1, <1>2, <1>3, <1>4, <1>5, <1>6, <1>7, <1>8 DEF AudioStep, Shared

(* An error that stops nothing is only remembered; a recorder that fails while
   it is being stopped can no longer give a take. *)
LEMMA AudioRemembersError ==
  ASSUME IInv, ~AudioLive,
         NEW r \in {audio.recorder, "failed"},
         r = audio.recorder \/ audio.recorder \in {"running", "paused"},
         \/ /\ UNCHANGED fileVars
            /\ r = audio.recorder \/ "queueOverflow" \in faults
         \/ /\ CloseSession(audio.session)
            /\ r = "failed" /\ audio.recorder \in {"running", "paused"},
         UNCHANGED <<coordinatorVars, endedCalls>>,
         UNCHANGED <<video, faults>>,
         AudioTypeOK',
         AudioBecomes(audio.status, audio.conversation, audio.lease,
                      audio.session, audio.track, audio.finalization, r,
                      audio.start.step, audio.start.lease, audio.stop.step,
                      audio.stop.session, audio.stop.outcome)
  PROVE  AudioStep
  <1> USE DEF IInv, TypeOK, AudioTypeOK, AudioIInv, AudioBecomes,
              CloseSession, fileVars, coordinatorVars
  <1>1. AudioTypeOK'
    OBVIOUS
  <1>2. AudioHolds'
    BY LeaseAssumption DEF AudioHolds, AudioBusy, AudioLive, UsedBy
  <1>3. AudioRuns'
    BY LeaseAssumption DEF AudioRuns, AudioHolds, AudioBusy, AudioLive, UsedBy
  <1>4. AudioWrites'
    BY LeaseAssumption
    DEF AudioWrites, AudioRuns, AudioHolds, AudioBusy, AudioLive, UsedBy
  <1>5. AudioCloses'
    BY LeaseAssumption
    DEF AudioCloses, AudioOwns, AudioWrites, AudioRuns, AudioHolds, AudioBusy,
        AudioLive, UsedBy,
        SessionsAreUsed, UndoneFaults, EnvironmentTypeOK
  <1>6. EnvironmentTypeOK' /\ FilesOf("audio") /\ PublishesOpen
    BY LeaseAssumption
    DEF EnvironmentTypeOK, FilesOf, PublishesOpen, AudioWrites,
        AudioHolds, AudioBusy, AudioLive, UsedBy
  <1>7. LockOf("audio") /\ LockIsUsed'
    BY LeaseAssumption
    DEF LockOf, LockIsUsed, VideoBusy, AudioHolds, AudioBusy, AudioLive, UsedBy
  <1>8. [CoordinatorNext]_coordinatorVars
    BY DEF CoordinatorNext
  <1> QED
    BY <1>1, <1>2, <1>3, <1>4, <1>5, <1>6, <1>7, <1>8 DEF AudioStep, Shared

(* The user stops a recording that is going on. *)
LEMMA AudioStopsForUser ==
  ASSUME IInv, AudioUserStops, UNCHANGED <<video, faults>>
  PROVE  AudioStep
  <1> USE DEF AudioUserStops, environmentVars, fileVars
  <1>1. AudioLive /\ Finalize(audio.lease)
    BY LiveAudioStops
  <1>2. /\ AudioTypeOK'
        /\ AudioBecomes(audio.status, audio.conversation, audio.lease,
                        audio.session, audio.track, "pending", audio.recorder,
                      audio.start.step, audio.start.lease, "stopRecorder",
                      audio.stop.session, audio.stop.outcome)
    <2>1. AudioTypeOK'
      BY ZenonT(60) DEF AudioFinalizing, IInv, TypeOK, AudioTypeOK
    <2> QED
      BY ZenonT(60) DEF AudioFinalizing, IInv, TypeOK, AudioTypeOK, AudioBecomes
  <1>3. endedCalls' \subseteq Conversations
    BY DEF IInv, TypeOK, EnvironmentTypeOK
  <1> QED BY <1>1, <1>2, <1>3, AudioTerminates

(* A fatal error of the tap or of the recorder stops the recording or is
   remembered. *)
LEMMA AudioHandlesError ==
  ASSUME IInv, NEW r \in {audio.recorder, "failed"},
         \/ r = audio.recorder /\ HandleAudioError(audio)
         \/ r = "failed" /\ HandleAudioError([audio EXCEPT !.recorder = "failed"]),
         r = audio.recorder \/ audio.recorder \in {"running", "paused"},
         \/ /\ UNCHANGED fileVars
            /\ r = audio.recorder \/ "queueOverflow" \in faults
         \/ /\ CloseSession(audio.session)
            /\ r = "failed" /\ audio.recorder \in {"running", "paused"},
         UNCHANGED <<endedCalls, video, faults>>
  PROVE  AudioStep
  <1>1. endedCalls' \subseteq Conversations
    BY DEF IInv, TypeOK, EnvironmentTypeOK
  <1>2. CASE AudioStopStarts
    <2>1. AudioLive /\ Finalize(audio.lease)
      BY <1>2, LiveAudioStops DEF HandleAudioError
    <2>2. /\ AudioTypeOK'
          /\ AudioBecomes(audio.status, audio.conversation, audio.lease,
                          audio.session, audio.track, "pending", r,
                        audio.start.step, audio.start.lease, "stopRecorder",
                        audio.stop.session, audio.stop.outcome)
      <3>1. \/ r = audio.recorder /\ audio' = AudioFinalizing(audio)
            \/ /\ r = "failed"
               /\ audio' = AudioFinalizing([audio EXCEPT !.recorder = "failed"])
        BY <1>2 DEF HandleAudioError
      <3>2. CASE audio' = AudioFinalizing(audio) /\ r = audio.recorder
        <4>1. AudioTypeOK'
          BY <3>2, ZenonT(60) DEF AudioFinalizing, IInv, TypeOK, AudioTypeOK
        <4> QED
          BY <3>2, <4>1
          DEF AudioFinalizing, IInv, TypeOK, AudioTypeOK, AudioBecomes
      <3>3. CASE /\ r = "failed"
                 /\ audio' = AudioFinalizing([audio EXCEPT !.recorder = "failed"])
        <4> DEFINE stop == [audio.stop EXCEPT !.step = "stopRecorder"]
        <4>1. /\ stop \in [step : {"stopRecorder"},
                           session : Leases \cup {NoLease},
                           outcome : {"none", "save", "discard",
                                      "resolved", "rejected"}]
              /\ stop.session = audio.stop.session
              /\ stop.outcome = audio.stop.outcome
          BY DEF IInv, TypeOK, AudioTypeOK
        <4>2. audio' = [audio EXCEPT !.recorder = "failed",
                                     !.finalization = "pending", !.stop = stop]
          BY <3>3 DEF AudioFinalizing, IInv, TypeOK, AudioTypeOK
        <4> HIDE DEF stop
        <4>3. AudioTypeOK'
          BY <4>1, <4>2 DEF IInv, TypeOK, AudioTypeOK
        <4>4. stop.step = "stopRecorder"
          BY <4>1
        <4>5. /\ audio'.status = audio.status
              /\ audio'.conversation = audio.conversation
              /\ audio'.lease = audio.lease /\ audio'.session = audio.session
              /\ audio'.track = audio.track /\ audio'.start = audio.start
              /\ audio'.finalization = "pending"
              /\ audio'.recorder = "failed" /\ audio'.stop = stop
          BY <4>2 DEF IInv, TypeOK, AudioTypeOK
        <4> QED BY <3>3, <4>1, <4>3, <4>4, <4>5, Zenon DEF AudioBecomes
      <3> QED BY <3>1, <3>2, <3>3
    <2> QED BY <1>1, <2>1, <2>2, AudioTerminates
  <1>3. CASE ~AudioStopStarts
    <2>1. ~AudioLive /\ UNCHANGED coordinatorVars
      BY <1>3, LiveAudioStops DEF HandleAudioError
    <2>2. /\ AudioTypeOK'
          /\ AudioBecomes(audio.status, audio.conversation, audio.lease,
                          audio.session, audio.track, audio.finalization, r,
                        audio.start.step, audio.start.lease, audio.stop.step,
                        audio.stop.session, audio.stop.outcome)
      <3> DEFINE known == audio.pendingError \/ audio.status = "idle"
      <3>1. known \in BOOLEAN
        OBVIOUS
      <3>2. \/ r = audio.recorder /\ audio' = [audio EXCEPT !.pendingError = known]
            \/ r = "failed" /\ audio' = [audio EXCEPT !.recorder = "failed",
                                                     !.pendingError = known]
        <4>1. CASE r = audio.recorder /\ HandleAudioError(audio)
          BY <1>3, <4>1 DEF HandleAudioError
        <4>2. CASE /\ r = "failed"
                   /\ HandleAudioError([audio EXCEPT !.recorder = "failed"])
          <5>1. [audio EXCEPT !.recorder = "failed"].pendingError
                   = audio.pendingError
            BY DEF IInv, TypeOK, AudioTypeOK
          <5> QED BY <1>3, <4>2, <5>1 DEF HandleAudioError
        <4> QED BY <4>1, <4>2
      <3> HIDE DEF known
      <3>3. CASE r = audio.recorder /\ audio' = [audio EXCEPT !.pendingError = known]
        BY <3>1, <3>3 DEF IInv, TypeOK, AudioTypeOK, AudioBecomes
      <3>4. CASE r = "failed" /\ audio' = [audio EXCEPT !.recorder = "failed",
                                                     !.pendingError = known]
        BY <3>1, <3>4 DEF IInv, TypeOK, AudioTypeOK, AudioBecomes
      <3> QED BY <3>2, <3>3, <3>4
    <2> QED BY <2>1, <2>2, AudioRemembersError
  <1> QED BY <1>2, <1>3

(* Every step of the audio service keeps its part of the invariant and leaves
   the other service what it relies on. *)
LEMMA AudioStepsSafely ==
  ASSUME IInv, AudioNext, UNCHANGED <<video, faults>>
  PROVE  AudioStep
  <1>0. /\ audio = [audio EXCEPT !.track = audio.track,
                                 !.recorder = audio.recorder]
        /\ \A t \in BOOLEAN : [audio EXCEPT !.track = t]
              = [audio EXCEPT !.track = t, !.recorder = audio.recorder]
        /\ \A r \in {"running"} : [audio EXCEPT !.recorder = r]
              = [audio EXCEPT !.track = audio.track, !.recorder = r]
        /\ audio = [audio EXCEPT !.session = audio.session]
        /\ audio.track \in BOOLEAN
    BY DEF IInv, TypeOK, AudioTypeOK
  <1>1. CASE \E c \in Conversations, l \in Leases : AudioStartRecording(c, l)
    BY <1>1, AudioStarts
  <1>2. CASE AudioUserStops
    BY <1>2, AudioStopsForUser
  <1>3. CASE AudioPause \/ AudioResume
    BY <1>3, AudioPauses, AudioResumes
  <1>4. CASE AudioTrackFails
    BY <1>4, AudioHandlesError DEF AudioTrackFails, environmentVars, fileVars
  <1>5. CASE RecorderFails
    BY <1>5, AudioHandlesError DEF RecorderFails
  <1>6. CASE AudioRecover
    BY <1>6, AudioRecovers
  <1>7. CASE AudioTrackCreated
    <2> USE <1>7 DEF AudioTrackCreated, AudioAt
    <2>1. CASE audio' = [AudioGoto("createFile") EXCEPT !.track = TRUE]
      BY <2>1, AudioHasTrack
    <2>2. CASE audio' = AudioStartFailed([audio EXCEPT !.track = TRUE])
      BY <1>0, <2>2, AudioFailsToStart
    <2>3. CASE audio' = AudioStartFailed(audio)
      BY <1>0, <2>3, AudioFailsToStart
    <2> QED BY <2>1, <2>2, <2>3
  <1>8. CASE AudioFileCreated
    <2> USE <1>8 DEF AudioFileCreated, AudioAt
    <2>1. CASE audio' = AudioStartFailed(audio) /\ UNCHANGED fileVars
      BY <1>0, <2>1, AudioFailsToStart
      DEF outsideVars, environmentVars, fileVars
    <2> QED BY <2>1, AudioHasFile
  <1>9. CASE AudioRecorderStarted
    <2> USE <1>9 DEF AudioRecorderStarted, AudioAt
    <2>1. CASE audio' = AudioStartFailed([audio EXCEPT !.recorder = "running"])
      BY <1>0, <2>1, AudioFailsToStart
    <2>2. CASE audio' = AudioStartFailed(audio)
      BY <1>0, <2>2, AudioFailsToStart
    <2>3. CASE audio' = AudioRecordingStarted
      BY <2>3, AudioHasRecorder
    <2>4. CASE audio' = AudioGoto("refusedAbort")
      BY <2>4, AudioRefused
    <2> QED BY <2>1, <2>2, <2>3, <2>4
  <1>10. CASE AudioRefusedAbort
    <2> USE <1>10 DEF AudioRefusedAbort, AudioAt
    <2>1. CASE audio' = AudioStartFailed(audio) /\ UNCHANGED fileVars
      BY <1>0, <2>1, AudioFailsToStart
      DEF outsideVars, environmentVars, fileVars
    <2> QED BY <2>1, AudioRefusedIsAborted
  <1>11. CASE AudioRefusedTrack
    BY <1>0, <1>11, AudioReleases
    DEF AudioRefusedTrack, AudioAt, environmentVars, fileVars
  <1>12. CASE AudioUnwindRecorder
    BY <1>12, AudioUnwindsRecorder
  <1>13. CASE AudioUnwindTrack
    <2> USE <1>13 DEF AudioUnwindTrack
    <2>1. CASE audio' = AudioGoto("unwindAbort") /\ UNCHANGED coordinatorVars
      BY <2>1, AudioAbortsStart
    <2>2. CASE /\ audio.session = NoLease \/ "stopTrack" \in faults
               /\ ReleaseAudioStart(audio)
      BY <1>0, <2>2, AudioReleases DEF AudioAt, environmentVars, fileVars
    <2> QED BY <2>1, <2>2
  <1>14. CASE AudioUnwindAbort
    <2> USE <1>14 DEF AudioUnwindAbort
    <2>1. CASE /\ CloseSession(audio.session)
               /\ ReleaseAudioStart([audio EXCEPT !.session = NoLease])
      BY <2>1, AudioReleases DEF AudioAt
    <2>2. CASE "abortFile" \in faults /\ ReleaseAudioStart(audio)
                                      /\ UNCHANGED fileVars
      BY <1>0, <2>2, AudioReleases DEF AudioAt
    <2> QED BY <2>1, <2>2
  <1>15. CASE AudioRecorderStopped
    <2> USE <1>15 DEF AudioRecorderStopped
    <2>1. PICK take \in IF audio.recorder = "failed" THEN {"rejected"}
                                                     ELSE {"save", "discard"} :
             audio' = [audio EXCEPT !.recorder = StopOf(@), !.track = FALSE,
                                    !.stop.step = "stopTrack",
                                    !.stop.outcome = take]
      OBVIOUS
    <2> QED BY <2>1, AudioRecorderAnswers
  <1>16. CASE AudioTrackStopped
    <2> USE <1>16 DEF AudioTrackStopped
    <2>1. CASE audio' = AudioSettled("rejected")
               /\ (audio.stop.outcome = "rejected" \/ "stopTrack" \in faults)
      BY <2>1, AudioSettles
      DEF AudioStopAt, outsideVars, environmentVars, fileVars
    <2>2. CASE audio.stop.outcome = "save" /\ audio' = [audio EXCEPT
                 !.session = NoLease, !.stop.session = audio.session,
                 !.stop.step = "finalizeFile"]
      BY <2>2, AudioHandsOverSession
    <2>3. CASE /\ audio.stop.outcome \notin {"rejected", "save"}
               /\ audio' = [audio EXCEPT
                    !.session = NoLease, !.stop.session = audio.session,
                    !.stop.step = "abortFile"]
      BY <2>3, AudioHandsOverSession
    <2> QED BY <2>1, <2>2, <2>3
  <1>17. CASE AudioFileFinalized
    <2> USE <1>17 DEF AudioFileFinalized
    <2>1. CASE /\ PublishSession(audio.stop.session)
               /\ Transcribe(audio.stop.session)
               /\ audio' = AudioSettled("resolved")
      BY <2>1, AudioSettles DEF AudioStopAt
    <2> QED BY <2>1, AudioFailsToFinalize
  <1>18. CASE AudioFileAborted
    <2> USE <1>18 DEF AudioFileAborted
    <2>1. CASE /\ CloseSession(audio.stop.session)
               /\ audio' = AudioSettled("resolved")
      BY <2>1, AudioSettles DEF AudioStopAt
    <2>2. CASE /\ "abortFile" \in faults
               /\ audio' = AudioSettled("rejected")
               /\ UNCHANGED fileVars
      BY <2>2, AudioSettles DEF AudioStopAt
    <2> QED BY <2>1, <2>2
  <1>19. CASE AudioFinalizationDone
    BY <1>19, AudioCompletes
  <1> QED
    BY <1>1, <1>2, <1>3, <1>4, <1>5, <1>6, <1>7, <1>8, <1>9, <1>10, <1>11,
       <1>12, <1>13, <1>14, <1>15, <1>16, <1>17, <1>18, <1>19
    DEF AudioNext, AudioProceeds

-------------------------------------------------------------------------------
(* The steps of the video service. *)

\* The fields of the service after a step, as far as the invariant speaks of
\* them.
VideoBecomes(status, lease, session, track, recorderStarted, pending,
             writeError, startStep, startLease, stopStep, stopLease, result) ==
    /\ video'.status = status /\ video'.lease = lease
    /\ video'.session = session /\ video'.track = track
    /\ video'.recorderStarted = recorderStarted
    /\ video'.pending = pending /\ video'.writeError = writeError
    /\ video'.start.step = startStep /\ video'.start.lease = startLease
    /\ video'.stop.step = stopStep /\ video'.stop.lease = stopLease
    /\ video'.stop.result = result

(* A start finds the lock free and forgets what an earlier recording left. *)
LEMMA VideoStarts ==
  ASSUME IInv, NEW c \in Conversations, NEW l \in Leases,
         VideoStartRecording(c, l), UNCHANGED <<audio, faults>>
  PROVE  VideoStep
  <1>1. /\ VideoTypeOK'
        /\ VideoBecomes("starting", l, NoLease, FALSE, FALSE, EmptyQueues,
                        FALSE, "createFile", l, "none", NoLease, FALSE)
    <2>1. EmptyQueues \in [Queues -> 0..MaxQueued]
      BY MaxQueuedAssumption DEF EmptyQueues
    <2>2. video' = [FreshVideo("starting", l) EXCEPT
                      !.start = [step |-> "createFile", lease |-> l,
                                 conversation |-> c]]
      BY DEF VideoStartRecording
    <2>3. video' = [status |-> "starting", conversation |-> NoConversation,
                    lease |-> l, session |-> NoLease, track |-> FALSE,
                    compositor |-> FALSE, recorderStarted |-> FALSE,
                    pending |-> EmptyQueues, writeError |-> FALSE,
                    fatalError |-> FALSE, terminationKind |-> "none",
                    start |-> [step |-> "createFile", lease |-> l,
                               conversation |-> c],
                    endedDuringStart |-> FALSE,
                    stop |-> [step |-> "none", lease |-> NoLease,
                              conversation |-> NoConversation,
                              result |-> FALSE]]
      BY <2>2 DEF FreshVideo, NoVideoStart, NoVideoStop
    <2> QED BY <2>1, <2>3 DEF VideoTypeOK, VideoBecomes
  <1> USE <1>1 DEF IInv, TypeOK, VideoTypeOK, VideoIInv,
              VideoBecomes, VideoStartRecording, environmentVars, Acquire,
              CanAcquire, Recording, CoordinatorInv, CoordinatorTypeOK,
              StateMatchesCapture
  <1>2. VideoHolds'
    BY LeaseAssumption
    DEF VideoHolds, VideoBusy, VideoLive, VideoStarting, VideoEnding, UsedBy
  <1>3. VideoRuns'
    BY LeaseAssumption
    DEF VideoRuns, VideoHolds, VideoBusy, VideoLive, VideoStarting,
        VideoEnding, UsedBy
  <1>4. VideoWrites'
    BY LeaseAssumption
    DEF VideoWrites, VideoRuns,
        VideoHolds, VideoBusy, VideoLive, VideoStarting, VideoEnding, UsedBy
  <1>5. VideoCloses'
    BY LeaseAssumption
    DEF VideoCloses, VideoOwns, VideoWrites, SessionsAreUsed, UndoneFaults,
        EnvironmentTypeOK, VideoHolds, VideoBusy, VideoLive, VideoStarting,
        VideoEnding, UsedBy
  <1>6. VideoSaves'
    BY LeaseAssumption
    DEF VideoSaves, FinishedVideoIsTranscribed, VideoWrites, SessionsAreUsed,
        EnvironmentTypeOK, VideoHolds, VideoBusy, VideoLive, VideoStarting,
        VideoEnding, UsedBy
  <1>7. EnvironmentTypeOK' /\ FilesOf("video") /\ PublishesOpen
    BY LeaseAssumption
    DEF EnvironmentTypeOK, FilesOf, PublishesOpen, VideoWrites,
        VideoHolds, VideoBusy, VideoLive, VideoStarting, VideoEnding, UsedBy
  <1>8. LockOf("video") /\ LockIsUsed'
    BY LeaseAssumption
    DEF LockOf, LockIsUsed, AudioBusy,
        VideoHolds, VideoBusy, VideoLive, VideoStarting, VideoEnding, UsedBy
  <1>9. [CoordinatorNext]_coordinatorVars
    BY DEF CoordinatorNext, Modes
  <1> QED
    BY <1>1, <1>2, <1>3, <1>4, <1>5, <1>6, <1>7, <1>8, <1>9
    DEF VideoStep, Shared

(* A finalization begins, whoever asked for it; an append that failed has closed
   the session and is remembered. *)
LEMMA VideoTerminates ==
  ASSUME IInv, VideoLive,
         Finalize(video.lease),
         NEW p, NEW w \in BOOLEAN, video.writeError => w,
         NEW start \in {video.start, NoVideoStart},
         \/ UNCHANGED fileVars
         \/ w /\ CloseSession(video.session),
         endedCalls' \subseteq Conversations,
         UNCHANGED faults,
         VideoTypeOK',
         VideoBecomes("finalizing", video.lease, video.session, video.track,
                      video.recorderStarted, p, w, start.step, start.lease,
                      "stopRecorder", video.lease, FALSE)
  PROVE  VideoStep
  <1> USE DEF IInv, TypeOK, VideoTypeOK, VideoIInv, VideoBecomes,
              Finalize, CloseSession, fileVars, NoVideoStart
  <1>1. VideoTypeOK'
    OBVIOUS
  <1>2. VideoHolds'
    BY LeaseAssumption
    DEF VideoHolds, VideoBusy, VideoLive, VideoStarting, VideoEnding, UsedBy
  <1>3. VideoRuns'
    BY LeaseAssumption
    DEF VideoRuns, VideoHolds, VideoBusy, VideoLive, VideoStarting,
        VideoEnding, UsedBy
  <1>4. VideoWrites'
    BY LeaseAssumption
    DEF VideoWrites, VideoRuns,
        VideoHolds, VideoBusy, VideoLive, VideoStarting, VideoEnding, UsedBy
  <1>5. VideoCloses'
    BY LeaseAssumption
    DEF VideoCloses, VideoOwns, VideoWrites, SessionsAreUsed, UndoneFaults,
        EnvironmentTypeOK, VideoHolds, VideoBusy, VideoLive, VideoStarting,
        VideoEnding, UsedBy
  <1>6. VideoSaves'
    BY LeaseAssumption
    DEF VideoSaves, FinishedVideoIsTranscribed, VideoWrites, SessionsAreUsed,
        EnvironmentTypeOK, VideoHolds, VideoBusy, VideoLive, VideoStarting,
        VideoEnding, UsedBy
  <1>7. EnvironmentTypeOK' /\ FilesOf("video") /\ PublishesOpen
    BY LeaseAssumption
    DEF EnvironmentTypeOK, FilesOf, PublishesOpen, VideoWrites,
        VideoHolds, VideoBusy, VideoLive, VideoStarting, VideoEnding, UsedBy
  <1>8. LockOf("video") /\ LockIsUsed'
    BY LeaseAssumption
    DEF LockOf, LockIsUsed, AudioBusy,
        VideoHolds, VideoBusy, VideoLive, VideoStarting, VideoEnding, UsedBy
  <1>9. [CoordinatorNext]_coordinatorVars
    BY DEF CoordinatorNext, VideoHolds, VideoBusy, VideoLive, VideoStarting,
           UsedBy
  <1> QED
    BY <1>1, <1>2, <1>3, <1>4, <1>5, <1>6, <1>7, <1>8, <1>9
    DEF VideoStep, Shared

(* The queues move and errors are remembered.  While the file is being finalized
   the queues are empty, so that nothing closes its session. *)
LEMMA VideoGoesOn ==
  ASSUME IInv, NEW p, NEW w \in BOOLEAN, video.writeError => w,
         \/ UNCHANGED fileVars
         \/ w /\ CloseSession(video.session),
         video.stop.step = "finalizeFile" => p = video.pending /\ UNCHANGED fileVars,
         UNCHANGED <<coordinatorVars, endedCalls>>,
         UNCHANGED <<audio, faults>>,
         VideoTypeOK',
         VideoBecomes(video.status, video.lease, video.session, video.track,
                      video.recorderStarted, p, w, video.start.step,
                      video.start.lease, video.stop.step, video.stop.lease,
                      video.stop.result)
  PROVE  VideoStep
  <1> USE DEF IInv, TypeOK, VideoTypeOK, VideoIInv, VideoBecomes,
              CloseSession, fileVars, coordinatorVars
  <1>1. VideoTypeOK'
    OBVIOUS
  <1>2. VideoHolds'
    BY LeaseAssumption
    DEF VideoHolds, VideoBusy, VideoLive, VideoStarting, VideoEnding, UsedBy
  <1>3. VideoRuns'
    BY LeaseAssumption
    DEF VideoRuns, VideoHolds, VideoBusy, VideoLive, VideoStarting,
        VideoEnding, UsedBy
  <1>4. VideoWrites'
    BY LeaseAssumption
    DEF VideoWrites, VideoRuns,
        VideoHolds, VideoBusy, VideoLive, VideoStarting, VideoEnding, UsedBy
  <1>5. VideoCloses'
    BY LeaseAssumption
    DEF VideoCloses, VideoOwns, VideoWrites, SessionsAreUsed, UndoneFaults,
        EnvironmentTypeOK, VideoHolds, VideoBusy, VideoLive, VideoStarting,
        VideoEnding, UsedBy
  <1>6. VideoSaves'
    BY LeaseAssumption
    DEF VideoSaves, FinishedVideoIsTranscribed, VideoWrites, SessionsAreUsed,
        EnvironmentTypeOK, VideoHolds, VideoBusy, VideoLive, VideoStarting,
        VideoEnding, UsedBy
  <1>7. EnvironmentTypeOK' /\ FilesOf("video") /\ PublishesOpen
    BY LeaseAssumption
    DEF EnvironmentTypeOK, FilesOf, PublishesOpen, VideoWrites,
        VideoHolds, VideoBusy, VideoLive, VideoStarting, VideoEnding, UsedBy
  <1>8. LockOf("video") /\ LockIsUsed'
    BY LeaseAssumption
    DEF LockOf, LockIsUsed, AudioBusy,
        VideoHolds, VideoBusy, VideoLive, VideoStarting, VideoEnding, UsedBy
  <1>9. [CoordinatorNext]_coordinatorVars
    BY DEF CoordinatorNext
  <1> QED
    BY <1>1, <1>2, <1>3, <1>4, <1>5, <1>6, <1>7, <1>8, <1>9
    DEF VideoStep, Shared

(* A pause reaches the coordinator in the same step. *)
LEMMA VideoPauses ==
  ASSUME IInv, VideoPause, UNCHANGED <<audio, faults>>
  PROVE  VideoStep
  <1>1. /\ VideoTypeOK'
        /\ VideoBecomes("paused", video.lease, video.session, video.track,
                        video.recorderStarted, video.pending, video.writeError,
                      video.start.step, video.start.lease, video.stop.step,
                      video.stop.lease, video.stop.result)
    BY LeaseAssumption, MaxQueuedAssumption DEF IInv, TypeOK,
           VideoTypeOK, VideoBecomes, VideoPause
  <1> USE <1>1 DEF IInv, TypeOK, VideoTypeOK, VideoIInv,
              VideoBecomes, VideoPause, Pause, CanPause, Paused, Recording,
              environmentVars
  <1>2. VideoHolds'
    BY LeaseAssumption
    DEF VideoHolds, VideoBusy, VideoLive, VideoStarting, VideoEnding, UsedBy
  <1>3. VideoRuns'
    BY LeaseAssumption
    DEF VideoRuns, VideoHolds, VideoBusy, VideoLive, VideoStarting,
        VideoEnding, UsedBy
  <1>4. VideoWrites'
    BY LeaseAssumption
    DEF VideoWrites, VideoRuns,
        VideoHolds, VideoBusy, VideoLive, VideoStarting, VideoEnding, UsedBy
  <1>5. VideoCloses'
    BY LeaseAssumption
    DEF VideoCloses, VideoOwns, VideoWrites, SessionsAreUsed, UndoneFaults,
        EnvironmentTypeOK, VideoHolds, VideoBusy, VideoLive, VideoStarting,
        VideoEnding, UsedBy
  <1>6. VideoSaves'
    BY LeaseAssumption
    DEF VideoSaves, FinishedVideoIsTranscribed, VideoWrites, SessionsAreUsed,
        EnvironmentTypeOK, VideoHolds, VideoBusy, VideoLive, VideoStarting,
        VideoEnding, UsedBy
  <1>7. EnvironmentTypeOK' /\ FilesOf("video") /\ PublishesOpen
    BY LeaseAssumption
    DEF EnvironmentTypeOK, FilesOf, PublishesOpen, VideoWrites,
        VideoHolds, VideoBusy, VideoLive, VideoStarting, VideoEnding, UsedBy
  <1>8. LockOf("video") /\ LockIsUsed'
    BY LeaseAssumption
    DEF LockOf, LockIsUsed, AudioBusy,
        VideoHolds, VideoBusy, VideoLive, VideoStarting, VideoEnding, UsedBy
  <1>9. [CoordinatorNext]_coordinatorVars
    BY DEF CoordinatorNext, CoordinatorInv, CoordinatorTypeOK, VideoHolds,
           VideoBusy,
           UsedBy
  <1> QED
    BY <1>1, <1>2, <1>3, <1>4, <1>5, <1>6, <1>7, <1>8, <1>9
    DEF VideoStep, Shared

(* So does its end. *)
LEMMA VideoResumes ==
  ASSUME IInv, VideoResume, UNCHANGED <<audio, faults>>
  PROVE  VideoStep
  <1>1. /\ VideoTypeOK'
        /\ VideoBecomes("recording", video.lease, video.session, video.track,
                        video.recorderStarted, video.pending, video.writeError,
                      video.start.step, video.start.lease, video.stop.step,
                      video.stop.lease, video.stop.result)
    BY LeaseAssumption, MaxQueuedAssumption DEF IInv, TypeOK,
           VideoTypeOK, VideoBecomes, VideoResume
  <1> USE <1>1 DEF IInv, TypeOK, VideoTypeOK, VideoIInv,
              VideoBecomes, VideoResume, Resume, CanResume, Paused, Recording,
              environmentVars
  <1>2. VideoHolds'
    BY LeaseAssumption
    DEF VideoHolds, VideoBusy, VideoLive, VideoStarting, VideoEnding, UsedBy
  <1>3. VideoRuns'
    BY LeaseAssumption
    DEF VideoRuns, VideoHolds, VideoBusy, VideoLive, VideoStarting,
        VideoEnding, UsedBy
  <1>4. VideoWrites'
    BY LeaseAssumption
    DEF VideoWrites, VideoRuns,
        VideoHolds, VideoBusy, VideoLive, VideoStarting, VideoEnding, UsedBy
  <1>5. VideoCloses'
    BY LeaseAssumption
    DEF VideoCloses, VideoOwns, VideoWrites, SessionsAreUsed, UndoneFaults,
        EnvironmentTypeOK, VideoHolds, VideoBusy, VideoLive, VideoStarting,
        VideoEnding, UsedBy
  <1>6. VideoSaves'
    BY LeaseAssumption
    DEF VideoSaves, FinishedVideoIsTranscribed, VideoWrites, SessionsAreUsed,
        EnvironmentTypeOK, VideoHolds, VideoBusy, VideoLive, VideoStarting,
        VideoEnding, UsedBy
  <1>7. EnvironmentTypeOK' /\ FilesOf("video") /\ PublishesOpen
    BY LeaseAssumption
    DEF EnvironmentTypeOK, FilesOf, PublishesOpen, VideoWrites,
        VideoHolds, VideoBusy, VideoLive, VideoStarting, VideoEnding, UsedBy
  <1>8. LockOf("video") /\ LockIsUsed'
    BY LeaseAssumption
    DEF LockOf, LockIsUsed, AudioBusy,
        VideoHolds, VideoBusy, VideoLive, VideoStarting, VideoEnding, UsedBy
  <1>9. [CoordinatorNext]_coordinatorVars
    BY DEF CoordinatorNext, CoordinatorInv, CoordinatorTypeOK, VideoHolds,
           VideoBusy,
           UsedBy
  <1> QED
    BY <1>1, <1>2, <1>3, <1>4, <1>5, <1>6, <1>7, <1>8, <1>9
    DEF VideoStep, Shared

(* A start that fails is undone, whatever had been set up. *)
LEMMA VideoFailsToStart ==
  ASSUME IInv, video.start.step \in {"createFile", "createTrack",
  "unwindRecorder"},
         NEW t \in BOOLEAN, NEW r \in BOOLEAN,
         UNCHANGED <<coordinatorVars, environmentVars>>, UNCHANGED <<audio,
         faults>>,
         VideoTypeOK',
         VideoBecomes(video.status, video.lease, video.session,
                      IF r THEN t ELSE FALSE, r, video.pending,
                      video.writeError,
                      IF r THEN "unwindRecorder"
         ELSE "unwindTrack",
                      video.start.lease, video.stop.step, video.stop.lease,
                      video.stop.result)
  PROVE  VideoStep
  <1> USE DEF IInv, TypeOK, VideoTypeOK, VideoIInv, VideoBecomes,
              environmentVars, coordinatorVars
  <1>1. VideoTypeOK'
    OBVIOUS
  <1>2. VideoHolds'
    BY LeaseAssumption
    DEF VideoHolds, VideoBusy, VideoLive, VideoStarting, VideoEnding, UsedBy
  <1>3. VideoRuns'
    BY LeaseAssumption
    DEF VideoRuns, VideoHolds, VideoBusy, VideoLive, VideoStarting,
        VideoEnding, UsedBy
  <1>4. VideoWrites'
    BY LeaseAssumption
    DEF VideoWrites, VideoRuns,
        VideoHolds, VideoBusy, VideoLive, VideoStarting, VideoEnding, UsedBy
  <1>5. VideoCloses'
    BY LeaseAssumption
    DEF VideoCloses, VideoOwns, VideoWrites, SessionsAreUsed, UndoneFaults,
        EnvironmentTypeOK, VideoHolds, VideoBusy, VideoLive, VideoStarting,
        VideoEnding, UsedBy
  <1>6. VideoSaves'
    BY LeaseAssumption
    DEF VideoSaves, FinishedVideoIsTranscribed, VideoWrites, SessionsAreUsed,
        EnvironmentTypeOK, VideoHolds, VideoBusy, VideoLive, VideoStarting,
        VideoEnding, UsedBy
  <1>7. EnvironmentTypeOK' /\ FilesOf("video") /\ PublishesOpen
    BY LeaseAssumption
    DEF EnvironmentTypeOK, FilesOf, PublishesOpen, VideoWrites,
        VideoHolds, VideoBusy, VideoLive, VideoStarting, VideoEnding, UsedBy
  <1>8. LockOf("video") /\ LockIsUsed'
    BY LeaseAssumption
    DEF LockOf, LockIsUsed, AudioBusy,
        VideoHolds, VideoBusy, VideoLive, VideoStarting, VideoEnding, UsedBy
  <1>9. [CoordinatorNext]_coordinatorVars
    BY DEF CoordinatorNext
  <1> QED
    BY <1>1, <1>2, <1>3, <1>4, <1>5, <1>6, <1>7, <1>8, <1>9
    DEF VideoStep, Shared

(* The session is opened under the lease of the capture. *)
LEMMA VideoHasFile ==
  ASSUME IInv, VideoAt("createFile"), OpenSession(video.start.lease),
         video' = [video EXCEPT !.session = video.start.lease,
                                !.start.step = "createTrack"],
         UNCHANGED <<coordinatorVars, endedCalls>>, UNCHANGED <<audio, faults>>
  PROVE  VideoStep
  <1>1. /\ VideoTypeOK'
        /\ VideoBecomes(video.status, video.lease, video.start.lease,
                        video.track, video.recorderStarted, video.pending,
                      video.writeError, "createTrack", video.start.lease,
                      video.stop.step, video.stop.lease, video.stop.result)
    <2>1. VideoTypeOK'
      BY LeaseAssumption, MaxQueuedAssumption DEF IInv, TypeOK, VideoTypeOK, VideoAt
    <2> QED
      BY LeaseAssumption, MaxQueuedAssumption DEF IInv, TypeOK, VideoTypeOK, VideoBecomes, VideoAt
  <1> USE <1>1 DEF IInv, TypeOK, VideoTypeOK, VideoIInv,
              VideoBecomes, VideoAt, OpenSession, coordinatorVars
  <1>2. VideoHolds'
    BY LeaseAssumption
    DEF VideoHolds, VideoBusy, VideoLive, VideoStarting, VideoEnding, UsedBy
  <1>3. VideoRuns'
    BY LeaseAssumption
    DEF VideoRuns, VideoHolds, VideoBusy, VideoLive, VideoStarting,
        VideoEnding, UsedBy
  <1>4. VideoWrites'
    BY LeaseAssumption
    DEF VideoWrites, VideoRuns,
        VideoHolds, VideoBusy, VideoLive, VideoStarting, VideoEnding, UsedBy
  <1>5. VideoCloses'
    BY LeaseAssumption
    DEF VideoCloses, VideoOwns, VideoWrites, SessionsAreUsed, UndoneFaults,
        EnvironmentTypeOK, VideoHolds, VideoBusy, VideoLive, VideoStarting,
        VideoEnding, UsedBy
  <1>6. VideoSaves'
    BY LeaseAssumption
    DEF VideoSaves, FinishedVideoIsTranscribed, VideoWrites, SessionsAreUsed,
        EnvironmentTypeOK, VideoHolds, VideoBusy, VideoLive, VideoStarting,
        VideoEnding, UsedBy
  <1>7. EnvironmentTypeOK' /\ FilesOf("video") /\ PublishesOpen
    BY LeaseAssumption
    DEF EnvironmentTypeOK, FilesOf, PublishesOpen, VideoWrites,
        VideoHolds, VideoBusy, VideoLive, VideoStarting, VideoEnding, UsedBy
  <1>8. LockOf("video") /\ LockIsUsed'
    BY LeaseAssumption
    DEF LockOf, LockIsUsed, AudioBusy,
        VideoHolds, VideoBusy, VideoLive, VideoStarting, VideoEnding, UsedBy
  <1>9. [CoordinatorNext]_coordinatorVars
    BY DEF CoordinatorNext
  <1> QED
    BY <1>1, <1>2, <1>3, <1>4, <1>5, <1>6, <1>7, <1>8, <1>9
    DEF VideoStep, Shared

(* The recording begins with an open session of its own lease, unless an append
   has already failed. *)
LEMMA VideoHasRecorder ==
  ASSUME IInv, VideoAt("createTrack"), NEW next \in {"none", "endedStop"},
         video' = VideoRecordingStarted,
         next = IF video.endedDuringStart THEN "endedStop" ELSE "none",
         UNCHANGED videoOutside, UNCHANGED <<audio, faults>>
  PROVE  VideoStep
  <1>1. /\ VideoTypeOK'
        /\ VideoBecomes("recording", video.lease, video.session, TRUE, TRUE,
                        video.pending, video.writeError, next,
                        IF video.endedDuringStart THEN video.start.lease ELSE NoLease,
                        video.stop.step, video.stop.lease, video.stop.result)
    <2>1. VideoTypeOK'
      BY LeaseAssumption, MaxQueuedAssumption, ZenonT(60)
      DEF IInv, TypeOK, VideoTypeOK, VideoAt, VideoRecordingStarted,
          NoVideoStart
    <2> QED
      BY LeaseAssumption, MaxQueuedAssumption, ZenonT(60)
      DEF IInv, TypeOK, VideoTypeOK, VideoBecomes, VideoAt,
          VideoRecordingStarted, NoVideoStart
  <1> USE <1>1 DEF IInv, TypeOK, VideoTypeOK, VideoIInv,
              VideoBecomes, VideoAt, videoOutside, environmentVars,
              coordinatorVars
  <1>2. VideoHolds'
    BY LeaseAssumption
    DEF VideoHolds, VideoBusy, VideoLive, VideoStarting, VideoEnding, UsedBy
  <1>3. VideoRuns'
    BY LeaseAssumption
    DEF VideoRuns, VideoHolds, VideoBusy, VideoLive, VideoStarting,
        VideoEnding, UsedBy
  <1>4. VideoWrites'
    BY LeaseAssumption
    DEF VideoWrites, VideoRuns,
        VideoHolds, VideoBusy, VideoLive, VideoStarting, VideoEnding, UsedBy
  <1>5. VideoCloses'
    BY LeaseAssumption
    DEF VideoCloses, VideoOwns, VideoWrites, SessionsAreUsed, UndoneFaults,
        EnvironmentTypeOK, VideoHolds, VideoBusy, VideoLive, VideoStarting,
        VideoEnding, UsedBy
  <1>6. VideoSaves'
    BY LeaseAssumption
    DEF VideoSaves, FinishedVideoIsTranscribed, VideoWrites, SessionsAreUsed,
        EnvironmentTypeOK, VideoHolds, VideoBusy, VideoLive, VideoStarting,
        VideoEnding, UsedBy
  <1>7. EnvironmentTypeOK' /\ FilesOf("video") /\ PublishesOpen
    BY LeaseAssumption
    DEF EnvironmentTypeOK, FilesOf, PublishesOpen, VideoWrites,
        VideoHolds, VideoBusy, VideoLive, VideoStarting, VideoEnding, UsedBy
  <1>8. LockOf("video") /\ LockIsUsed'
    BY LeaseAssumption
    DEF LockOf, LockIsUsed, AudioBusy,
        VideoHolds, VideoBusy, VideoLive, VideoStarting, VideoEnding, UsedBy
  <1>9. [CoordinatorNext]_coordinatorVars
    BY DEF CoordinatorNext
  <1> QED
    BY <1>1, <1>2, <1>3, <1>4, <1>5, <1>6, <1>7, <1>8, <1>9
    DEF VideoStep, Shared

(* A recording whose call ended during its start, and which has stopped for
   another reason meanwhile, is left alone. *)
LEMMA VideoForgetsStart ==
  ASSUME IInv, VideoAt("endedStop"),
         UNCHANGED <<coordinatorVars, environmentVars>>, UNCHANGED <<audio,
         faults>>,
         VideoTypeOK',
         VideoBecomes(video.status, video.lease, video.session, video.track,
                      video.recorderStarted, video.pending, video.writeError,
                      "none", NoLease, video.stop.step, video.stop.lease,
                      video.stop.result)
  PROVE  VideoStep
  <1> USE DEF IInv, TypeOK, VideoTypeOK, VideoIInv, VideoBecomes,
              VideoAt, environmentVars, coordinatorVars
  <1>1. VideoTypeOK'
    OBVIOUS
  <1>2. VideoHolds'
    BY LeaseAssumption
    DEF VideoHolds, VideoBusy, VideoLive, VideoStarting, VideoEnding, UsedBy
  <1>3. VideoRuns'
    BY LeaseAssumption
    DEF VideoRuns, VideoHolds, VideoBusy, VideoLive, VideoStarting,
        VideoEnding, UsedBy
  <1>4. VideoWrites'
    BY LeaseAssumption
    DEF VideoWrites, VideoRuns,
        VideoHolds, VideoBusy, VideoLive, VideoStarting, VideoEnding, UsedBy
  <1>5. VideoCloses'
    BY LeaseAssumption
    DEF VideoCloses, VideoOwns, VideoWrites, SessionsAreUsed, UndoneFaults,
        EnvironmentTypeOK, VideoHolds, VideoBusy, VideoLive, VideoStarting,
        VideoEnding, UsedBy
  <1>6. VideoSaves'
    BY LeaseAssumption
    DEF VideoSaves, FinishedVideoIsTranscribed, VideoWrites, SessionsAreUsed,
        EnvironmentTypeOK, VideoHolds, VideoBusy, VideoLive, VideoStarting,
        VideoEnding, UsedBy
  <1>7. EnvironmentTypeOK' /\ FilesOf("video") /\ PublishesOpen
    BY LeaseAssumption
    DEF EnvironmentTypeOK, FilesOf, PublishesOpen, VideoWrites,
        VideoHolds, VideoBusy, VideoLive, VideoStarting, VideoEnding, UsedBy
  <1>8. LockOf("video") /\ LockIsUsed'
    BY LeaseAssumption
    DEF LockOf, LockIsUsed, AudioBusy,
        VideoHolds, VideoBusy, VideoLive, VideoStarting, VideoEnding, UsedBy
  <1>9. [CoordinatorNext]_coordinatorVars
    BY DEF CoordinatorNext
  <1> QED
    BY <1>1, <1>2, <1>3, <1>4, <1>5, <1>6, <1>7, <1>8, <1>9
    DEF VideoStep, Shared

(* A failed start that opened a session goes on to abort it. *)
LEMMA VideoAbortsStart ==
  ASSUME IInv, VideoAt("unwindTrack"),
         video' = [video EXCEPT !.start.step = "unwindAbort"],
         UNCHANGED <<coordinatorVars, environmentVars>>, UNCHANGED <<audio,
         faults>>
  PROVE  VideoStep
  <1>1. /\ VideoTypeOK'
        /\ VideoBecomes(video.status, video.lease, video.session, video.track,
                        video.recorderStarted, video.pending, video.writeError,
                      "unwindAbort", video.start.lease, video.stop.step,
                      video.stop.lease, video.stop.result)
    BY LeaseAssumption, MaxQueuedAssumption DEF IInv, TypeOK,
           VideoTypeOK, VideoBecomes, VideoAt
  <1> USE <1>1 DEF IInv, TypeOK, VideoTypeOK, VideoIInv,
              VideoBecomes, VideoAt, environmentVars, coordinatorVars
  <1>2. VideoHolds'
    BY LeaseAssumption
    DEF VideoHolds, VideoBusy, VideoLive, VideoStarting, VideoEnding, UsedBy
  <1>3. VideoRuns'
    BY LeaseAssumption
    DEF VideoRuns, VideoHolds, VideoBusy, VideoLive, VideoStarting,
        VideoEnding, UsedBy
  <1>4. VideoWrites'
    BY LeaseAssumption
    DEF VideoWrites, VideoRuns,
        VideoHolds, VideoBusy, VideoLive, VideoStarting, VideoEnding, UsedBy
  <1>5. VideoCloses'
    BY LeaseAssumption
    DEF VideoCloses, VideoOwns, VideoWrites, SessionsAreUsed, UndoneFaults,
        EnvironmentTypeOK, VideoHolds, VideoBusy, VideoLive, VideoStarting,
        VideoEnding, UsedBy
  <1>6. VideoSaves'
    BY LeaseAssumption
    DEF VideoSaves, FinishedVideoIsTranscribed, VideoWrites, SessionsAreUsed,
        EnvironmentTypeOK, VideoHolds, VideoBusy, VideoLive, VideoStarting,
        VideoEnding, UsedBy
  <1>7. EnvironmentTypeOK' /\ FilesOf("video") /\ PublishesOpen
    BY LeaseAssumption
    DEF EnvironmentTypeOK, FilesOf, PublishesOpen, VideoWrites,
        VideoHolds, VideoBusy, VideoLive, VideoStarting, VideoEnding, UsedBy
  <1>8. LockOf("video") /\ LockIsUsed'
    BY LeaseAssumption
    DEF LockOf, LockIsUsed, AudioBusy,
        VideoHolds, VideoBusy, VideoLive, VideoStarting, VideoEnding, UsedBy
  <1>9. [CoordinatorNext]_coordinatorVars
    BY DEF CoordinatorNext
  <1> QED
    BY <1>1, <1>2, <1>3, <1>4, <1>5, <1>6, <1>7, <1>8, <1>9
    DEF VideoStep, Shared

(* A failed start frees the lock it holds.  Without the failures that make the
   code give up, it has closed its session by then. *)
LEMMA VideoReleases ==
  ASSUME IInv, video.start.step \in {"unwindTrack", "unwindAbort"},
         VideoStartError(video),
         \/ UNCHANGED fileVars /\ (video.session = NoLease \/ "abortFile" \in faults)
         \/ CloseSession(video.session),
         UNCHANGED endedCalls, UNCHANGED <<audio, faults>>
  PROVE  VideoStep
  <1>1. /\ VideoTypeOK'
        /\ VideoBecomes("error", NoLease, video.session, video.track,
                        video.recorderStarted, video.pending, video.writeError,
                      "none", NoLease, video.stop.step, video.stop.lease,
                      video.stop.result)
    BY LeaseAssumption, MaxQueuedAssumption DEF IInv, TypeOK,
           VideoTypeOK, VideoBecomes, VideoStartError, NoVideoStart,
           VideoIInv, VideoHolds, VideoStarting
  <1> USE <1>1 DEF IInv, TypeOK, VideoTypeOK, VideoIInv,
              VideoBecomes, VideoStartError, Release, ClearActiveCapture,
              CloseSession, fileVars
  <1>2. VideoHolds'
    BY LeaseAssumption
    DEF VideoHolds, VideoBusy, VideoLive, VideoStarting, VideoEnding, UsedBy
  <1>3. VideoRuns'
    BY LeaseAssumption
    DEF VideoRuns, VideoHolds, VideoBusy, VideoLive, VideoStarting,
        VideoEnding, UsedBy
  <1>4. VideoWrites'
    BY LeaseAssumption
    DEF VideoWrites, VideoRuns,
        VideoHolds, VideoBusy, VideoLive, VideoStarting, VideoEnding, UsedBy
  <1>5. VideoCloses'
    BY LeaseAssumption
    DEF VideoCloses, VideoOwns, VideoWrites, SessionsAreUsed, UndoneFaults,
        EnvironmentTypeOK, VideoHolds, VideoBusy, VideoLive, VideoStarting,
        VideoEnding, UsedBy
  <1>6. VideoSaves'
    BY LeaseAssumption
    DEF VideoSaves, FinishedVideoIsTranscribed, VideoWrites, SessionsAreUsed,
        EnvironmentTypeOK, VideoHolds, VideoBusy, VideoLive, VideoStarting,
        VideoEnding, UsedBy
  <1>7. EnvironmentTypeOK' /\ FilesOf("video") /\ PublishesOpen
    BY LeaseAssumption
    DEF EnvironmentTypeOK, FilesOf, PublishesOpen, VideoWrites,
        VideoHolds, VideoBusy, VideoLive, VideoStarting, VideoEnding, UsedBy
  <1>8. LockOf("video") /\ LockIsUsed'
    BY LeaseAssumption
    DEF LockOf, LockIsUsed, AudioBusy,
        VideoHolds, VideoBusy, VideoLive, VideoStarting, VideoEnding, UsedBy
  <1>9. [CoordinatorNext]_coordinatorVars
    BY DEF CoordinatorNext, VideoHolds, VideoBusy, VideoLive, VideoStarting,
           UsedBy
  <1> QED
    BY <1>1, <1>2, <1>3, <1>4, <1>5, <1>6, <1>7, <1>8, <1>9
    DEF VideoStep, Shared

(* #terminate() goes on from one await to the next: it finalizes only when the
   queues are empty and every append has succeeded. *)
LEMMA VideoStops ==
  ASSUME IInv, VideoEnding,
         NEW step, NEW t \in BOOLEAN, NEW r \in BOOLEAN,
         \/ step = "stopTrack" /\ video.stop.step = "stopRecorder" /\ ~t /\ ~r
         \/ step = "drain" /\ video.stop.step = "stopTrack" /\ ~t /\ ~r
         \/ /\ step = "finalizeFile" /\ video.stop.step = "drain" /\ ~t /\ ~r
            /\ video.pending = EmptyQueues /\ ~video.writeError
         \/ step = "abortFile" /\ ~r,
         \/ UNCHANGED fileVars
         \/ step = "abortFile" /\ CloseSession(video.session),
         UNCHANGED <<coordinatorVars, endedCalls>>,
         UNCHANGED <<audio, faults>>,
         VideoTypeOK',
         VideoBecomes(video.status, video.lease, video.session, t, r,
                      video.pending, video.writeError, video.start.step,
                      video.start.lease, step, video.stop.lease,
                      video.stop.result)
  PROVE  VideoStep
  <1> USE DEF IInv, TypeOK, VideoTypeOK, VideoIInv, VideoBecomes,
              CloseSession, fileVars, coordinatorVars
  <1>1. VideoTypeOK'
    OBVIOUS
  <1>2. VideoHolds'
    BY LeaseAssumption
    DEF VideoHolds, VideoBusy, VideoLive, VideoStarting, VideoEnding, UsedBy
  <1>3. VideoRuns'
    BY LeaseAssumption
    DEF VideoRuns, VideoHolds, VideoBusy, VideoLive, VideoStarting,
        VideoEnding, UsedBy
  <1>4. VideoWrites'
    BY LeaseAssumption
    DEF VideoWrites, VideoRuns,
        VideoHolds, VideoBusy, VideoLive, VideoStarting, VideoEnding, UsedBy
  <1>5. VideoCloses'
    BY LeaseAssumption
    DEF VideoCloses, VideoOwns, VideoWrites, SessionsAreUsed, UndoneFaults,
        EnvironmentTypeOK, VideoHolds, VideoBusy, VideoLive, VideoStarting,
        VideoEnding, UsedBy
  <1>6. VideoSaves'
    BY LeaseAssumption
    DEF VideoSaves, FinishedVideoIsTranscribed, VideoWrites, SessionsAreUsed,
        EnvironmentTypeOK, VideoHolds, VideoBusy, VideoLive, VideoStarting,
        VideoEnding, UsedBy
  <1>7. EnvironmentTypeOK' /\ FilesOf("video") /\ PublishesOpen
    BY LeaseAssumption
    DEF EnvironmentTypeOK, FilesOf, PublishesOpen, VideoWrites,
        VideoHolds, VideoBusy, VideoLive, VideoStarting, VideoEnding, UsedBy
  <1>8. LockOf("video") /\ LockIsUsed'
    BY LeaseAssumption
    DEF LockOf, LockIsUsed, AudioBusy,
        VideoHolds, VideoBusy, VideoLive, VideoStarting, VideoEnding, UsedBy
  <1>9. [CoordinatorNext]_coordinatorVars
    BY DEF CoordinatorNext
  <1> QED
    BY <1>1, <1>2, <1>3, <1>4, <1>5, <1>6, <1>7, <1>8, <1>9
    DEF VideoStep, Shared

(* The file is published, or aborted: from here on the service owns no open
   session, and a published one has a result. *)
LEMMA VideoCleansUp ==
  ASSUME IInv, NEW result \in BOOLEAN,
         \/ /\ video.stop.step = "finalizeFile" /\ PublishSession(video.session)
            /\ UNCHANGED transcriptions /\ result
         \/ video.stop.step = "abortFile" /\ CloseSession(video.session)
         \/ /\ video.stop.step = "abortFile" /\ UNCHANGED fileVars
            /\ "abortFile" \in faults,
         UNCHANGED <<coordinatorVars, endedCalls>>,
         UNCHANGED <<audio, faults>>,
         VideoTypeOK',
         VideoBecomes(video.status, video.lease, video.session, FALSE,
                      video.recorderStarted, video.pending, video.writeError,
                      video.start.step, video.start.lease, "cleanup",
                      video.stop.lease, result)
  PROVE  VideoStep
  <1> USE DEF IInv, TypeOK, VideoTypeOK, VideoIInv, VideoBecomes,
              PublishSession, CloseSession, fileVars, coordinatorVars
  <1>1. VideoTypeOK'
    OBVIOUS
  <1>2. VideoHolds'
    BY LeaseAssumption
    DEF VideoHolds, VideoBusy, VideoLive, VideoStarting, VideoEnding, UsedBy
  <1>3. VideoRuns'
    BY LeaseAssumption
    DEF VideoRuns, VideoHolds, VideoBusy, VideoLive, VideoStarting,
        VideoEnding, UsedBy
  <1>4. VideoWrites'
    BY LeaseAssumption
    DEF VideoWrites, VideoRuns,
        VideoHolds, VideoBusy, VideoLive, VideoStarting, VideoEnding, UsedBy
  <1>5. VideoCloses'
    BY LeaseAssumption
    DEF VideoCloses, VideoOwns, VideoWrites, SessionsAreUsed, UndoneFaults,
        EnvironmentTypeOK, VideoHolds, VideoBusy, VideoLive, VideoStarting,
        VideoEnding, UsedBy
  <1>6. VideoSaves'
    BY LeaseAssumption
    DEF VideoSaves, FinishedVideoIsTranscribed, VideoWrites, SessionsAreUsed,
        EnvironmentTypeOK, VideoHolds, VideoBusy, VideoLive, VideoStarting,
        VideoEnding, UsedBy
  <1>7. EnvironmentTypeOK' /\ FilesOf("video") /\ PublishesOpen
    BY LeaseAssumption
    DEF EnvironmentTypeOK, FilesOf, PublishesOpen, VideoWrites,
        VideoHolds, VideoBusy, VideoLive, VideoStarting, VideoEnding, UsedBy
  <1>8. LockOf("video") /\ LockIsUsed'
    BY LeaseAssumption
    DEF LockOf, LockIsUsed, AudioBusy,
        VideoHolds, VideoBusy, VideoLive, VideoStarting, VideoEnding, UsedBy
  <1>9. [CoordinatorNext]_coordinatorVars
    BY DEF CoordinatorNext
  <1> QED
    BY <1>1, <1>2, <1>3, <1>4, <1>5, <1>6, <1>7, <1>8, <1>9
    DEF VideoStep, Shared

(* A recording that ended well is handed to the transcription queue in the step
   that forgets it. *)
LEMMA VideoSettles ==
  ASSUME IInv, video.stop.step = "cleanup",
         NEW status \in {"idle", "error"},
         \/ Transcribe(video.session)
         \/ UNCHANGED transcriptions /\ (~video.stop.result \/ status = "error"),
         UNCHANGED <<openSessions, savedFiles>>,
         UNCHANGED <<coordinatorVars, endedCalls>>,
         UNCHANGED <<audio, faults>>,
         VideoTypeOK',
         VideoBecomes(status, NoLease, video.session, video.track,
                      video.recorderStarted, video.pending, video.writeError,
                      video.start.step, video.start.lease, "settled",
                      video.stop.lease, video.stop.result)
  PROVE  VideoStep
  <1> USE DEF IInv, TypeOK, VideoTypeOK, VideoIInv, VideoBecomes,
              Transcribe, coordinatorVars
  <1>1. VideoTypeOK'
    OBVIOUS
  <1>2. VideoHolds'
    BY LeaseAssumption
    DEF VideoHolds, VideoBusy, VideoLive, VideoStarting, VideoEnding, UsedBy
  <1>3. VideoRuns'
    BY LeaseAssumption
    DEF VideoRuns, VideoHolds, VideoBusy, VideoLive, VideoStarting,
        VideoEnding, UsedBy
  <1>4. VideoWrites'
    BY LeaseAssumption
    DEF VideoWrites, VideoRuns,
        VideoHolds, VideoBusy, VideoLive, VideoStarting, VideoEnding, UsedBy
  <1>5. VideoCloses'
    BY LeaseAssumption
    DEF VideoCloses, VideoOwns, VideoWrites, SessionsAreUsed, UndoneFaults,
        EnvironmentTypeOK, VideoHolds, VideoBusy, VideoLive, VideoStarting,
        VideoEnding, UsedBy
  <1>6. VideoSaves'
    BY LeaseAssumption
    DEF VideoSaves, FinishedVideoIsTranscribed, VideoWrites, SessionsAreUsed,
        EnvironmentTypeOK, VideoHolds, VideoBusy, VideoLive, VideoStarting,
        VideoEnding, UsedBy
  <1>7. EnvironmentTypeOK' /\ FilesOf("video") /\ PublishesOpen
    BY LeaseAssumption
    DEF EnvironmentTypeOK, FilesOf, PublishesOpen, VideoWrites,
        VideoHolds, VideoBusy, VideoLive, VideoStarting, VideoEnding, UsedBy
  <1>8. LockOf("video") /\ LockIsUsed'
    BY LeaseAssumption
    DEF LockOf, LockIsUsed, AudioBusy,
        VideoHolds, VideoBusy, VideoLive, VideoStarting, VideoEnding, UsedBy
  <1>9. [CoordinatorNext]_coordinatorVars
    BY DEF CoordinatorNext
  <1> QED
    BY <1>1, <1>2, <1>3, <1>4, <1>5, <1>6, <1>7, <1>8, <1>9
    DEF VideoStep, Shared

(* The promise that settles is that of the active capture: the lock that is
   freed is its own. *)
LEMMA VideoCompletes ==
  ASSUME IInv, VideoFinalizationDone, UNCHANGED <<audio, faults>>
  PROVE  VideoStep
  <1>1. /\ VideoTypeOK'
        /\ VideoBecomes(video.status, video.lease, video.session, video.track,
                        video.recorderStarted, video.pending, video.writeError,
                      video.start.step, video.start.lease, "none", NoLease,
                      FALSE)
    BY LeaseAssumption, MaxQueuedAssumption DEF IInv, TypeOK,
           VideoTypeOK, VideoBecomes, VideoFinalizationDone, NoVideoStop
  <1> USE <1>1 DEF IInv, TypeOK, VideoTypeOK, VideoIInv,
              VideoBecomes, VideoFinalizationDone, VideoStopAt,
              CompleteFinalization, ClearActiveCapture, environmentVars
  <1>2. VideoHolds'
    BY LeaseAssumption
    DEF VideoHolds, VideoBusy, VideoLive, VideoStarting, VideoEnding, UsedBy
  <1>3. VideoRuns'
    BY LeaseAssumption
    DEF VideoRuns, VideoHolds, VideoBusy, VideoLive, VideoStarting,
        VideoEnding, UsedBy
  <1>4. VideoWrites'
    BY LeaseAssumption
    DEF VideoWrites, VideoRuns,
        VideoHolds, VideoBusy, VideoLive, VideoStarting, VideoEnding, UsedBy
  <1>5. VideoCloses'
    BY LeaseAssumption
    DEF VideoCloses, VideoOwns, VideoWrites, SessionsAreUsed, UndoneFaults,
        EnvironmentTypeOK, VideoHolds, VideoBusy, VideoLive, VideoStarting,
        VideoEnding, UsedBy
  <1>6. VideoSaves'
    BY LeaseAssumption
    DEF VideoSaves, FinishedVideoIsTranscribed, VideoWrites, SessionsAreUsed,
        EnvironmentTypeOK, VideoHolds, VideoBusy, VideoLive, VideoStarting,
        VideoEnding, UsedBy
  <1>7. EnvironmentTypeOK' /\ FilesOf("video") /\ PublishesOpen
    BY LeaseAssumption
    DEF EnvironmentTypeOK, FilesOf, PublishesOpen, VideoWrites,
        VideoHolds, VideoBusy, VideoLive, VideoStarting, VideoEnding, UsedBy
  <1>8. LockOf("video") /\ LockIsUsed'
    BY LeaseAssumption
    DEF LockOf, LockIsUsed, AudioBusy,
        VideoHolds, VideoBusy, VideoLive, VideoStarting, VideoEnding, UsedBy
  <1>9. [CoordinatorNext]_coordinatorVars
    <2>1. CompleteFinalization(video.stop.lease, "resolved")
      BY DEF VideoFinalizationDone
    <2>2. video.stop.lease \in Leases
      BY DEF VideoFinalizationDone, VideoStopAt, VideoHolds, VideoBusy, UsedBy
    <2> QED BY ONLY <2>1, <2>2 DEF CoordinatorNext
  <1> QED
    BY <1>1, <1>2, <1>3, <1>4, <1>5, <1>6, <1>7, <1>8, <1>9
    DEF VideoStep, Shared

\* The records of VideoTypeOK.
VideoRecords ==
      [status : {"idle", "starting", "recording", "paused", "finalizing",
                 "error"},
       conversation : Conversations \cup {NoConversation},
       lease : Leases \cup {NoLease},
       session : Leases \cup {NoLease},
       track : BOOLEAN,
       compositor : BOOLEAN,
       recorderStarted : BOOLEAN,
       pending : [Queues -> 0..MaxQueued],
       writeError : BOOLEAN,
       fatalError : BOOLEAN,
       terminationKind : {"none", "finalize", "abort"},
       start : [step : {"none", "createFile", "createTrack", "endedStop",
                        "unwindRecorder", "unwindTrack", "unwindAbort"},
                lease : Leases \cup {NoLease},
                conversation : Conversations \cup {NoConversation}],
       endedDuringStart : BOOLEAN,
       stop : [step : {"none", "stopRecorder", "stopTrack", "drain",
                       "finalizeFile", "abortFile", "cleanup", "settled"},
               lease : Leases \cup {NoLease},
               conversation : Conversations \cup {NoConversation},
               result : BOOLEAN]]

(* What #terminate() does to the fields before its first await: it takes the
   recording from the state that it overwrites. *)
LEMMA TerminatingFields ==
  ASSUME NEW v \in VideoRecords, NEW t, t = Terminating(v)
  PROVE  /\ t \in VideoRecords
         /\ t.status = "finalizing" /\ t.lease = v.lease
         /\ t.session = v.session /\ t.track = v.track
         /\ t.recorderStarted = v.recorderStarted
         /\ t.pending = v.pending /\ t.writeError = v.writeError
         /\ t.start = v.start
         /\ t.stop.step = "stopRecorder" /\ t.stop.lease = v.lease
         /\ t.stop.result = FALSE
         /\ v.status \in {"recording", "paused"} =>
               t.stop.conversation = v.conversation
  <1> DEFINE kind == IF v.terminationKind = "none" THEN "finalize"
                                                   ELSE v.terminationKind
             named == IF v.status \in {"recording", "paused"}
                      THEN v.conversation ELSE NoConversation
             stop == [step |-> "stopRecorder", lease |-> v.lease,
                      conversation |-> named, result |-> FALSE]
  <1>1. t = [v EXCEPT !.status = "finalizing", !.conversation = NoConversation,
                      !.terminationKind = kind, !.stop = stop]
    BY DEF Terminating
  <1>2. /\ kind \in {"none", "finalize", "abort"}
        /\ named \in Conversations \cup {NoConversation}
        /\ v.status \in {"recording", "paused"} => named = v.conversation
    BY DEF VideoRecords
  <1> HIDE DEF kind, named
  <1>3. /\ stop \in [step : {"stopRecorder"}, lease : Leases \cup {NoLease},
                     conversation : Conversations \cup {NoConversation},
                     result : BOOLEAN]
        /\ stop.step = "stopRecorder" /\ stop.lease = v.lease
        /\ stop.result = FALSE /\ stop.conversation = named
    BY <1>2 DEF VideoRecords
  <1> HIDE DEF stop
  <1>4. t \in VideoRecords
    BY <1>1, <1>2, <1>3, ZenonT(60) DEF VideoRecords
  <1>5. /\ t.status = "finalizing" /\ t.lease = v.lease
        /\ t.session = v.session /\ t.track = v.track
        /\ t.recorderStarted = v.recorderStarted
        /\ t.pending = v.pending /\ t.writeError = v.writeError
        /\ t.start = v.start /\ t.stop = stop
    BY <1>1 DEF VideoRecords
  <1> QED BY <1>2, <1>3, <1>4, <1>5

(* A fatal error stops a recording that is going on and is remembered by any
   other. *)
LEMMA VideoSignalsError ==
  ASSUME IInv, NEW p \in [Queues -> 0..MaxQueued], NEW w \in BOOLEAN,
         video.writeError => w,
         \/ p = video.pending /\ w = video.writeError /\ SignalFatalError(video)
         \/ SignalFatalError([video EXCEPT !.pending = p, !.writeError = w]),
         \/ UNCHANGED fileVars
         \/ w /\ CloseSession(video.session),
         video.stop.step = "finalizeFile" =>
            p = video.pending /\ UNCHANGED fileVars,
         UNCHANGED <<endedCalls, audio, faults>>
  PROVE  VideoStep
  <1> DEFINE v == [video EXCEPT !.pending = p, !.writeError = w]
             failed == [v EXCEPT !.fatalError = TRUE,
                                 !.terminationKind = "abort"]
  <1>1. endedCalls' \subseteq Conversations
    BY DEF IInv, TypeOK, EnvironmentTypeOK
  <1>2. p = video.pending /\ w = video.writeError => v = video
    BY DEF IInv, TypeOK, VideoTypeOK
  <1>3. SignalFatalError(v)
    BY <1>2
  <1>4. failed = [video EXCEPT !.pending = p, !.writeError = w,
                               !.fatalError = TRUE, !.terminationKind = "abort"]
    BY DEF IInv, TypeOK, VideoTypeOK
  <1>5. CASE VideoStopStarts
    <2>1. VideoLive /\ Finalize(video.lease)
      BY <1>3, <1>5, LiveVideoStops DEF SignalFatalError
    <2>2. video' = Terminating(failed)
      BY <1>3, <1>5 DEF SignalFatalError
    <2>3. /\ VideoTypeOK'
          /\ VideoBecomes("finalizing", video.lease, video.session, video.track,
                          video.recorderStarted, p, w, video.start.step,
                        video.start.lease, "stopRecorder", video.lease, FALSE)
      <3>1. /\ failed \in VideoRecords
            /\ failed.lease = video.lease /\ failed.session = video.session
            /\ failed.track = video.track /\ failed.start = video.start
            /\ failed.recorderStarted = video.recorderStarted
            /\ failed.pending = p /\ failed.writeError = w
        BY <1>4 DEF IInv, TypeOK, VideoTypeOK, VideoRecords
      <3> HIDE DEF failed
      <3>2. video' \in VideoRecords
        BY <2>2, <3>1, TerminatingFields
      <3>3. VideoTypeOK'
        BY <3>2 DEF VideoTypeOK, VideoRecords
      <3>4. PICK t : t = video'
        OBVIOUS
      <3>5. /\ t.status = "finalizing" /\ t.lease = failed.lease
            /\ t.session = failed.session /\ t.track = failed.track
            /\ t.recorderStarted = failed.recorderStarted
            /\ t.pending = failed.pending /\ t.writeError = failed.writeError
            /\ t.start = failed.start
            /\ t.stop.step = "stopRecorder" /\ t.stop.lease = failed.lease
            /\ t.stop.result = FALSE
        BY <2>2, <3>1, <3>4, TerminatingFields
      <3> QED BY ONLY <3>1, <3>3, <3>4, <3>5 DEF VideoBecomes
    <2>4. video.start \in {video.start, NoVideoStart}
      OBVIOUS
    <2> QED BY <1>1, <2>1, <2>3, <2>4, VideoTerminates
  <1>6. CASE ~VideoStopStarts
    <2>1. UNCHANGED coordinatorVars /\ video' = failed
      BY <1>3, <1>6 DEF SignalFatalError
    <2>2. /\ VideoTypeOK'
          /\ VideoBecomes(video.status, video.lease, video.session, video.track,
                          video.recorderStarted, p, w, video.start.step,
                        video.start.lease, video.stop.step, video.stop.lease,
                        video.stop.result)
      BY <1>4, <2>1 DEF IInv, TypeOK, VideoTypeOK, VideoBecomes
    <2> QED BY <2>1, <2>2, VideoGoesOn
  <1> QED BY <1>5, <1>6

(* While the file is being finalized nothing is queued any more: what produces
   data has been stopped. *)
LEMMA NothingIsProducedLate ==
  ASSUME IInv, NEW q \in Queues
  PROVE  /\ VideoProduces(q) => video.stop.step # "finalizeFile"
         /\ video.pending[q] > 0 => video.stop.step # "finalizeFile"
  BY DEF IInv, VideoIInv, VideoRuns, VideoHolds, VideoLive, VideoStarting,
         VideoEnding, VideoBusy, VideoProduces, EmptyQueues, Queues

(* A chunk or block is queued, or finds its queue full. *)
LEMMA VideoQueues ==
  ASSUME IInv, NEW q \in Queues, VideoEnqueue(q), UNCHANGED <<audio, faults>>
  PROVE  VideoStep
  <1> USE DEF VideoEnqueue, environmentVars, fileVars
  <1>1. video.stop.step # "finalizeFile"
    BY NothingIsProducedLate
  <1>2. video.pending \in [Queues -> 0..MaxQueued] /\ video.writeError \in BOOLEAN
    BY DEF IInv, TypeOK, VideoTypeOK
  <1>3. CASE video.pending[q] = MaxQueued
    BY <1>1, <1>2, <1>3, VideoSignalsError
  <1>4. CASE video.pending[q] # MaxQueued
    <2> DEFINE p == [video.pending EXCEPT ![q] = @ + 1]
    <2>1. p \in [Queues -> 0..MaxQueued]
      BY <1>2, <1>4, MaxQueuedAssumption
    <2>2. video' = [video EXCEPT !.pending = p]
      BY <1>4
    <2> HIDE DEF p
    <2>3. /\ VideoTypeOK'
          /\ VideoBecomes(video.status, video.lease, video.session, video.track,
                          video.recorderStarted, p, video.writeError,
                        video.start.step, video.start.lease, video.stop.step,
                        video.stop.lease, video.stop.result)
      BY <2>1, <2>2 DEF IInv, TypeOK, VideoTypeOK, VideoBecomes
    <2> QED BY <1>1, <1>2, <1>4, <2>3, VideoGoesOn
  <1> QED BY <1>3, <1>4

(* An append is answered. *)
LEMMA VideoAppends ==
  ASSUME IInv, NEW q \in Queues, VideoAppended(q), UNCHANGED <<audio, faults>>
  PROVE  VideoStep
  <1> USE DEF VideoAppended
  <1>1. video.stop.step # "finalizeFile"
    BY NothingIsProducedLate
  <1>2. video.pending \in [Queues -> 0..MaxQueued] /\ video.writeError \in BOOLEAN
    BY DEF IInv, TypeOK, VideoTypeOK
  <1>3. CASE /\ video' = [video EXCEPT !.pending[q] = @ - 1]
             /\ UNCHANGED <<coordinatorVars, fileVars>>
    <2> DEFINE p == [video.pending EXCEPT ![q] = @ - 1]
    <2>1. p \in [Queues -> 0..MaxQueued]
      BY <1>2, MaxQueuedAssumption
    <2>2. video' = [video EXCEPT !.pending = p]
      BY <1>3
    <2> HIDE DEF p
    <2>3. /\ VideoTypeOK'
          /\ VideoBecomes(video.status, video.lease, video.session, video.track,
                          video.recorderStarted, p, video.writeError,
                        video.start.step, video.start.lease, video.stop.step,
                        video.stop.lease, video.stop.result)
      BY <2>1, <2>2 DEF IInv, TypeOK, VideoTypeOK, VideoBecomes
    <2> QED BY <1>1, <1>2, <1>3, <2>3, VideoGoesOn
  <1>4. CASE SignalFatalError(VideoAppendFailed(q)) /\ CloseSession(video.session)
    <2> DEFINE p == [video.pending EXCEPT ![q] = 0]
    <2>1. p \in [Queues -> 0..MaxQueued]
      BY <1>2, MaxQueuedAssumption
    <2>2. VideoAppendFailed(q) = [video EXCEPT !.pending = p,
                                  !.writeError = TRUE]
      BY DEF VideoAppendFailed, IInv, TypeOK, VideoTypeOK
    <2> HIDE DEF p
    <2> QED BY <1>1, <1>4, <2>1, <2>2, VideoSignalsError
  <1> QED BY <1>3, <1>4

(* The user, or the wrapper when the call ended during the start, stops a
   recording that is going on; start is what the wrapper keeps of its start. *)
LEMMA VideoStopsWithoutError ==
  ASSUME IInv, VideoStopStarts, Finalize(video.lease),
         NEW e \in BOOLEAN, NEW start \in {video.start, NoVideoStart},
         \/ video' = Terminating(video) /\ start = video.start
         \/ video' = [Terminating(video) EXCEPT !.start = start]
         \/ /\ start = video.start
            /\ video' = Terminating([video EXCEPT !.endedDuringStart = e]),
         UNCHANGED fileVars, endedCalls' \subseteq Conversations,
         UNCHANGED faults
  PROVE  VideoStep
  <1>1. VideoLive
    BY LiveVideoStops
  <1>2. video \in VideoRecords
    BY DEF IInv, TypeOK, VideoTypeOK, VideoRecords
  <1>3. start \in [step : {"none", "createFile", "createTrack", "endedStop",
                           "unwindRecorder", "unwindTrack", "unwindAbort"},
                   lease : Leases \cup {NoLease},
                   conversation : Conversations \cup {NoConversation}]
    BY DEF IInv, TypeOK, VideoTypeOK, NoVideoStart
  <1>4. /\ VideoTypeOK'
        /\ VideoBecomes("finalizing", video.lease, video.session, video.track,
                        video.recorderStarted, video.pending, video.writeError,
                      start.step, start.lease, "stopRecorder", video.lease,
                      FALSE)
    <2>1. CASE video' = Terminating(video) /\ start = video.start
      <3>1. video' \in VideoRecords
        BY <1>2, <2>1, TerminatingFields
      <3>2. VideoTypeOK'
        BY <3>1 DEF VideoTypeOK, VideoRecords
      <3>3. PICK t : t = video'
        OBVIOUS
      <3>4. /\ t.status = "finalizing" /\ t.lease = video.lease
            /\ t.session = video.session /\ t.track = video.track
            /\ t.recorderStarted = video.recorderStarted
            /\ t.pending = video.pending /\ t.writeError = video.writeError
            /\ t.start = video.start
            /\ t.stop.step = "stopRecorder" /\ t.stop.lease = video.lease
            /\ t.stop.result = FALSE
        BY <1>2, <2>1, <3>3, TerminatingFields
      <3> QED BY ONLY <2>1, <3>2, <3>3, <3>4 DEF VideoBecomes
    <2>2. CASE video' = [Terminating(video) EXCEPT !.start = start]
      <3>1. PICK t : t = Terminating(video)
        OBVIOUS
      <3>2. t \in VideoRecords /\ video' = [t EXCEPT !.start = start]
        BY <1>2, <2>2, <3>1, TerminatingFields
      <3>3. /\ video'.status = t.status /\ video'.lease = t.lease
            /\ video'.session = t.session /\ video'.track = t.track
            /\ video'.recorderStarted = t.recorderStarted
            /\ video'.pending = t.pending /\ video'.writeError = t.writeError
            /\ video'.start = start /\ video'.stop = t.stop
        BY <3>2 DEF VideoRecords
      <3>4. VideoTypeOK'
        BY <1>3, <3>2 DEF VideoTypeOK, VideoRecords
      <3>5. /\ t.status = "finalizing" /\ t.lease = video.lease
            /\ t.session = video.session /\ t.track = video.track
            /\ t.recorderStarted = video.recorderStarted
            /\ t.pending = video.pending /\ t.writeError = video.writeError
            /\ t.stop.step = "stopRecorder" /\ t.stop.lease = video.lease
            /\ t.stop.result = FALSE
        BY <1>2, <3>1, TerminatingFields
      <3> QED BY ONLY <3>3, <3>4, <3>5 DEF VideoBecomes
    <2>3. CASE /\ start = video.start
               /\ video' = Terminating([video EXCEPT !.endedDuringStart = e])
      <3> DEFINE v == [video EXCEPT !.endedDuringStart = e]
      <3>1. /\ v \in VideoRecords
            /\ v.lease = video.lease /\ v.session = video.session
            /\ v.track = video.track /\ v.pending = video.pending
            /\ v.recorderStarted = video.recorderStarted
            /\ v.writeError = video.writeError /\ v.start = video.start
        BY <1>2 DEF VideoRecords
      <3> HIDE DEF v
      <3>2. video' \in VideoRecords
        BY <2>3, <3>1, TerminatingFields DEF v
      <3>3. VideoTypeOK'
        BY <3>2 DEF VideoTypeOK, VideoRecords
      <3>4. PICK t : t = video'
        OBVIOUS
      <3>5. /\ t.status = "finalizing" /\ t.lease = v.lease
            /\ t.session = v.session /\ t.track = v.track
            /\ t.recorderStarted = v.recorderStarted
            /\ t.pending = v.pending /\ t.writeError = v.writeError
            /\ t.start = v.start
            /\ t.stop.step = "stopRecorder" /\ t.stop.lease = v.lease
            /\ t.stop.result = FALSE
        BY <2>3, <3>1, <3>4, TerminatingFields DEF v
      <3> QED BY ONLY <2>3, <3>1, <3>3, <3>4, <3>5 DEF VideoBecomes
    <2> QED BY <2>1, <2>2, <2>3
  <1>5. video.writeError \in BOOLEAN
    BY DEF IInv, TypeOK, VideoTypeOK
  <1> QED BY <1>1, <1>4, <1>5, VideoTerminates

(* The fields of a start that fails, before the first await of its undoing; v
   holds them at the failure. *)
LEMMA VideoStartIsUndone ==
  ASSUME IInv, NEW v \in VideoRecords,
         v.status = video.status, v.lease = video.lease,
         v.session = video.session, v.pending = video.pending,
         v.writeError = video.writeError, v.start = video.start,
         v.stop = video.stop, video' = VideoStartFailed(v)
  PROVE  /\ VideoTypeOK'
         /\ VideoBecomes(video.status, video.lease, video.session,
                         IF v.recorderStarted THEN v.track ELSE FALSE,
                      v.recorderStarted, video.pending, video.writeError,
                      IF v.recorderStarted THEN "unwindRecorder"
                         ELSE "unwindTrack",
                      video.start.lease, video.stop.step, video.stop.lease,
                      video.stop.result)
  <1>1. CASE v.recorderStarted
    <2>1. video' = [v EXCEPT !.start.step = "unwindRecorder"]
      BY <1>1 DEF VideoStartFailed
    <2>2. VideoTypeOK'
      BY <2>1 DEF VideoTypeOK, VideoRecords
    <2>3. /\ video'.status = v.status /\ video'.lease = v.lease
          /\ video'.session = v.session /\ video'.pending = v.pending
          /\ video'.stop = v.stop /\ video'.start.lease = v.start.lease
          /\ video'.start.step = "unwindRecorder"
      BY <2>1 DEF VideoRecords
    <2>4. /\ video'.track = v.track
          /\ video'.recorderStarted = v.recorderStarted
          /\ video'.writeError = v.writeError
      BY <2>1 DEF VideoRecords
    <2> QED BY <1>1, <2>2, <2>3, <2>4, Zenon DEF VideoBecomes
  <1>2. CASE ~v.recorderStarted
    <2>1. video' = [v EXCEPT !.start.step = "unwindTrack", !.track = FALSE,
                             !.compositor = FALSE]
      BY <1>2 DEF VideoStartFailed
    <2>2. VideoTypeOK'
      <3> DEFINE start == [v.start EXCEPT !.step = "unwindTrack"]
      <3>1. start \in [step : {"unwindTrack"}, lease : Leases \cup {NoLease},
                       conversation : Conversations \cup {NoConversation}]
        BY DEF VideoRecords
      <3>2. video' = [v EXCEPT !.start = start, !.track = FALSE,
                               !.compositor = FALSE]
        BY <2>1 DEF VideoRecords
      <3> HIDE DEF start
      <3> QED BY <3>1, <3>2 DEF VideoTypeOK, VideoRecords
    <2>3. /\ video'.status = v.status /\ video'.lease = v.lease
          /\ video'.session = v.session /\ video'.pending = v.pending
          /\ video'.stop = v.stop /\ video'.start.lease = v.start.lease
          /\ video'.start.step = "unwindTrack"
      BY <2>1 DEF VideoRecords
    <2>4. /\ video'.track = FALSE
          /\ video'.recorderStarted = v.recorderStarted
          /\ video'.writeError = v.writeError
      BY <2>1 DEF VideoRecords
    <2> QED BY <1>2, <2>2, <2>3, <2>4, Zenon DEF VideoBecomes
  <1> QED BY <1>1, <1>2

(* The start fails while the file is created, while the track is set up or in
   the middle of its undoing. *)
LEMMA VideoFails ==
  ASSUME IInv, NEW v \in VideoRecords,
         video.start.step \in {"createFile", "createTrack", "unwindRecorder"},
         v.status = video.status, v.lease = video.lease,
         v.session = video.session, v.pending = video.pending,
         v.writeError = video.writeError, v.start = video.start,
         v.stop = video.stop, video' = VideoStartFailed(v),
         UNCHANGED <<coordinatorVars, environmentVars>>,
         UNCHANGED <<audio, faults>>
  PROVE  VideoStep
  <1>1. v.track \in BOOLEAN /\ v.recorderStarted \in BOOLEAN
    BY DEF VideoRecords
  <1> QED BY <1>1, VideoStartIsUndone, VideoFailsToStart

(* Every step of the video service keeps its part of the invariant and leaves
   the other service what it relies on. *)
LEMMA VideoStepsSafely ==
  ASSUME IInv, VideoNext, UNCHANGED <<audio, faults>>
  PROVE  VideoStep
  <1>0. video \in VideoRecords
    BY DEF IInv, TypeOK, VideoTypeOK, VideoRecords
  <1>1. CASE \E c \in Conversations, l \in Leases : VideoStartRecording(c, l)
    BY <1>1, VideoStarts
  <1>2. CASE VideoUserStops
    <2>1. endedCalls' \subseteq Conversations /\ UNCHANGED fileVars
      BY <1>2 DEF IInv, TypeOK, EnvironmentTypeOK, VideoUserStops,
                  environmentVars, fileVars
    <2> QED
      BY <1>2, <2>1, VideoStopsWithoutError DEF VideoUserStops
  <1>3. CASE VideoPause \/ VideoResume
    BY <1>3, VideoPauses, VideoResumes
  <1>4. CASE VideoSourceFails
    <2>1. video.pending \in [Queues -> 0..MaxQueued] /\ video.writeError \in BOOLEAN
      BY DEF IInv, TypeOK, VideoTypeOK
    <2>2. SignalFatalError(video) /\ UNCHANGED fileVars /\ UNCHANGED endedCalls
      BY <1>4 DEF VideoSourceFails, environmentVars, fileVars
    <2> QED BY <2>1, <2>2, VideoSignalsError
  <1>5. CASE \E q \in Queues : VideoEnqueue(q) \/ VideoAppended(q)
    BY <1>5, VideoQueues, VideoAppends
  <1>6. CASE VideoFileCreated
    <2> USE <1>6 DEF VideoFileCreated, VideoAt
    <2>1. CASE video' = VideoStartFailed(video) /\ UNCHANGED fileVars
      BY <1>0, <2>1, VideoFails DEF environmentVars, fileVars
    <2> QED BY <2>1, VideoHasFile
  <1>7. CASE VideoTrackCreated
    <2> USE <1>7 DEF VideoTrackCreated
    <2>0. UNCHANGED <<coordinatorVars, environmentVars>>
          /\ video.start.step = "createTrack"
      BY DEF videoOutside, VideoAt
    <2>1. CASE video' = VideoRecordingStarted
      BY <2>1, VideoHasRecorder
    <2>2. CASE video' = VideoStartFailed(video)
      BY <1>0, <2>0, <2>2, VideoFails
    <2>3. ASSUME NEW v \in {[video EXCEPT !.track = TRUE],
                            [video EXCEPT !.track = TRUE, !.compositor = TRUE],
                            [video EXCEPT !.track = TRUE, !.compositor = TRUE,
                                          !.recorderStarted = TRUE,
                                          !.fatalError = TRUE]},
                 video' = VideoStartFailed(v)
          PROVE  VideoStep
      <3>1. /\ v \in VideoRecords
            /\ v.status = video.status /\ v.lease = video.lease
            /\ v.session = video.session /\ v.pending = video.pending
            /\ v.writeError = video.writeError /\ v.start = video.start
            /\ v.stop = video.stop
        <4>1. CASE v = [video EXCEPT !.track = TRUE]
          BY <1>0, <4>1 DEF VideoRecords
        <4>2. CASE v = [video EXCEPT !.track = TRUE, !.compositor = TRUE]
          BY <1>0, <4>2 DEF VideoRecords
        <4>3. CASE v = [video EXCEPT !.track = TRUE, !.compositor = TRUE,
                                     !.recorderStarted = TRUE,
                                     !.fatalError = TRUE]
          BY <1>0, <4>3 DEF VideoRecords
        <4> QED BY <4>1, <4>2, <4>3
      <3> QED BY <2>0, <2>3, <3>1, VideoFails
    <2> QED BY <2>1, <2>2, <2>3
  <1>8. CASE VideoEndedDuringStart
    <2> USE <1>8 DEF VideoEndedDuringStart
    <2>1. endedCalls' \subseteq Conversations /\ UNCHANGED fileVars
      BY DEF IInv, TypeOK, EnvironmentTypeOK, environmentVars, fileVars
    <2>2. CASE VideoStopStarts
      BY <2>1, <2>2, VideoStopsWithoutError
    <2>3. CASE ~VideoStopStarts
      <3>1. video' = [video EXCEPT !.start = NoVideoStart]
            /\ UNCHANGED <<coordinatorVars, environmentVars>>
        BY <2>3
      <3>2. /\ VideoTypeOK'
            /\ VideoBecomes(video.status, video.lease, video.session,
                            video.track, video.recorderStarted, video.pending,
                            video.writeError, "none", NoLease, video.stop.step,
                            video.stop.lease, video.stop.result)
        BY <3>1 DEF IInv, TypeOK, VideoTypeOK, VideoBecomes, NoVideoStart
      <3> QED BY <3>1, <3>2, VideoForgetsStart
    <2> QED BY <2>2, <2>3
  <1>9. CASE VideoUnwindRecorder
    <2> DEFINE v == [video EXCEPT !.recorderStarted = FALSE]
    <2>1. /\ v \in VideoRecords
          /\ v.status = video.status /\ v.lease = video.lease
          /\ v.session = video.session /\ v.pending = video.pending
          /\ v.writeError = video.writeError /\ v.start = video.start
          /\ v.stop = video.stop
      BY <1>0 DEF VideoRecords
    <2>2. /\ video' = VideoStartFailed(v) /\ video.start.step = "unwindRecorder"
          /\ UNCHANGED <<coordinatorVars, environmentVars>>
      BY <1>9 DEF VideoUnwindRecorder, VideoAt, videoOutside
    <2> HIDE DEF v
    <2> QED BY <2>1, <2>2, VideoFails
  <1>10. CASE VideoUnwindTrack
    <2> USE <1>10 DEF VideoUnwindTrack
    <2>1. CASE video.session = NoLease
      BY <2>1, VideoReleases DEF VideoAt, environmentVars, fileVars
    <2>2. CASE video.session # NoLease
      BY <2>2, VideoAbortsStart
    <2> QED BY <2>1, <2>2
  <1>11. CASE VideoUnwindAbort
    BY <1>11, VideoReleases DEF VideoUnwindAbort, VideoAt
  <1>12. CASE VideoRecorderStopped \/ VideoTrackStopped \/ VideoDrained
    <2>1. video.stop.step \in {"stopRecorder", "stopTrack", "drain"}
      BY <1>12 DEF VideoRecorderStopped, VideoTrackStopped, VideoDrained,
                   VideoStopAt
    <2>2. video.track \in BOOLEAN /\ video.recorderStarted \in BOOLEAN
      BY <1>0 DEF VideoRecords
    <2>3. /\ video.stop.step # "stopRecorder" => ~video.track /\ ~video.recorderStarted
          /\ VideoEnding
      BY <2>1 DEF IInv, VideoIInv, VideoRuns, VideoHolds, VideoLive,
                  VideoStarting, VideoEnding
    <2>4. UNCHANGED fileVars /\ UNCHANGED <<coordinatorVars, endedCalls>>
      BY <1>12 DEF VideoRecorderStopped, VideoTrackStopped, VideoDrained,
                   videoOutside, environmentVars, fileVars
    <2>5. CASE VideoRecorderStopped
      <3> USE <2>5 DEF VideoRecorderStopped
      <3>1. CASE video' = [[video EXCEPT !.recorderStarted = FALSE] EXCEPT
                             !.track = FALSE, !.stop.step = "stopTrack"]
        <4>1. /\ VideoTypeOK'
              /\ VideoBecomes(video.status, video.lease, video.session, FALSE,
                              FALSE, video.pending, video.writeError,
                              video.start.step, video.start.lease, "stopTrack",
                              video.stop.lease, video.stop.result)
          <5> DEFINE stop == [video.stop EXCEPT !.step = "stopTrack"]
          <5>1. /\ stop \in [step : {"stopTrack"},
                             lease : Leases \cup {NoLease},
                             conversation : Conversations \cup {NoConversation},
                             result : BOOLEAN]
                /\ stop.lease = video.stop.lease
                /\ stop.result = video.stop.result
            BY <1>0 DEF VideoRecords
          <5>2. video' = [video EXCEPT !.recorderStarted = FALSE,
                                       !.track = FALSE, !.stop = stop]
            BY <1>0, <3>1 DEF VideoRecords
          <5> HIDE DEF stop
          <5>3. VideoTypeOK'
            BY <1>0, <5>1, <5>2 DEF VideoTypeOK, VideoRecords
          <5> QED BY <1>0, <5>1, <5>2, <5>3 DEF VideoRecords, VideoBecomes
        <4>2. video.stop.step = "stopRecorder"
          BY DEF VideoStopAt
        <4> QED BY <2>3, <2>4, <4>1, <4>2, VideoStops
      <3>2. CASE video' = TerminateFailed([video EXCEPT !.recorderStarted = FALSE])
        <4>1. video' = [video EXCEPT !.recorderStarted = FALSE,
                                     !.fatalError = TRUE,
                                     !.stop.step = "abortFile"]
          BY <3>2 DEF TerminateFailed, IInv, TypeOK, VideoTypeOK
        <4>2. /\ VideoTypeOK'
              /\ VideoBecomes(video.status, video.lease, video.session,
                              video.track, FALSE, video.pending,
                              video.writeError, video.start.step,
                              video.start.lease, "abortFile", video.stop.lease,
                              video.stop.result)
          <5> DEFINE stop == [video.stop EXCEPT !.step = "abortFile"]
          <5>1. /\ stop \in [step : {"abortFile"},
                             lease : Leases \cup {NoLease},
                             conversation : Conversations \cup {NoConversation},
                             result : BOOLEAN]
                /\ stop.lease = video.stop.lease
                /\ stop.result = video.stop.result
            BY <1>0 DEF VideoRecords
          <5>2. video' = [video EXCEPT !.recorderStarted = FALSE,
                                       !.fatalError = TRUE, !.stop = stop]
            BY <1>0, <4>1 DEF VideoRecords
          <5> HIDE DEF stop
          <5>3. VideoTypeOK'
            BY <1>0, <5>1, <5>2 DEF VideoTypeOK, VideoRecords
          <5> QED BY <1>0, <5>1, <5>2, <5>3 DEF VideoRecords, VideoBecomes
        <4> QED BY <2>2, <2>3, <2>4, <4>2, VideoStops
      <3> QED BY <3>1, <3>2
    <2>6. CASE video' = TerminateFailed(video) /\ video.stop.step # "stopRecorder"
      <3>1. /\ VideoTypeOK'
            /\ VideoBecomes(video.status, video.lease, video.session,
                            video.track, video.recorderStarted, video.pending,
                            video.writeError, video.start.step,
                            video.start.lease, "abortFile", video.stop.lease,
                            video.stop.result)
        <4> DEFINE stop == [video.stop EXCEPT !.step = "abortFile"]
        <4>1. /\ stop \in [step : {"abortFile"},
                           lease : Leases \cup {NoLease},
                           conversation : Conversations \cup {NoConversation},
                           result : BOOLEAN]
              /\ stop.lease = video.stop.lease
              /\ stop.result = video.stop.result
          BY <1>0 DEF VideoRecords
        <4>2. video' = [video EXCEPT !.fatalError = TRUE, !.stop = stop]
          BY <1>0, <2>6 DEF TerminateFailed, VideoRecords
        <4> HIDE DEF stop
        <4>3. VideoTypeOK'
          BY <1>0, <4>1, <4>2 DEF VideoTypeOK, VideoRecords
        <4> QED BY <1>0, <4>1, <4>2, <4>3 DEF VideoRecords, VideoBecomes
      <3> QED BY <2>2, <2>3, <2>4, <2>6, <3>1, VideoStops
    <2>7. CASE VideoTrackStopped
      <3> USE <2>7 DEF VideoTrackStopped, VideoStopAt
      <3>1. CASE video' = [video EXCEPT !.stop.step = "drain"]
        <4>1. /\ VideoTypeOK'
              /\ VideoBecomes(video.status, video.lease, video.session,
                              video.track, video.recorderStarted, video.pending,
                              video.writeError, video.start.step,
                              video.start.lease, "drain", video.stop.lease,
                              video.stop.result)
          BY <3>1 DEF IInv, TypeOK, VideoTypeOK, VideoBecomes
        <4> QED BY <2>2, <2>3, <2>4, <4>1, VideoStops
      <3> QED BY <2>6, <3>1
    <2>8. CASE VideoDrained
      <3> USE <2>8 DEF VideoDrained, VideoStopAt
      <3>1. CASE VideoWillFinalize /\ video' = [video EXCEPT !.stop.step = "finalizeFile"]
        <4>1. /\ VideoTypeOK'
              /\ VideoBecomes(video.status, video.lease, video.session,
                              video.track, video.recorderStarted, video.pending,
                              video.writeError, video.start.step,
                              video.start.lease, "finalizeFile",
                              video.stop.lease, video.stop.result)
          BY <3>1 DEF IInv, TypeOK, VideoTypeOK, VideoBecomes
        <4> QED BY <2>2, <2>3, <2>4, <3>1, <4>1, VideoStops
                DEF VideoWillFinalize
      <3>2. CASE video' = [video EXCEPT !.stop.step = "abortFile"]
        <4>1. /\ VideoTypeOK'
              /\ VideoBecomes(video.status, video.lease, video.session,
                              video.track, video.recorderStarted, video.pending,
                              video.writeError, video.start.step,
                              video.start.lease, "abortFile", video.stop.lease,
                              video.stop.result)
          BY <3>2 DEF IInv, TypeOK, VideoTypeOK, VideoBecomes
        <4> QED BY <2>2, <2>3, <2>4, <4>1, VideoStops
      <3> QED BY <2>6, <3>1, <3>2
    <2> QED BY <1>12, <2>5, <2>7, <2>8
  <1>13. CASE VideoFileFinalized
    <2> USE <1>13 DEF VideoFileFinalized, VideoStopAt
    <2>1. CASE /\ PublishSession(video.session) /\ UNCHANGED transcriptions
               /\ video' = VideoCleanup([video EXCEPT !.stop.result = TRUE])
      <3>1. /\ VideoTypeOK'
            /\ VideoBecomes(video.status, video.lease, video.session, FALSE,
                            video.recorderStarted, video.pending,
                            video.writeError, video.start.step,
                            video.start.lease, "cleanup", video.stop.lease,
                            TRUE)
        <4>1. VideoTypeOK'
          BY <2>1, ZenonT(60) DEF VideoCleanup, IInv, TypeOK, VideoTypeOK
        <4> QED
          BY <2>1, ZenonT(60)
          DEF VideoCleanup, IInv, TypeOK, VideoTypeOK, VideoBecomes
      <3> QED BY <2>1, <3>1, VideoCleansUp
    <2>2. CASE CloseSession(video.session) /\ video' = TerminateFailed(video)
      <3>1. /\ VideoTypeOK'
            /\ VideoBecomes(video.status, video.lease, video.session,
                            video.track, video.recorderStarted, video.pending,
                            video.writeError, video.start.step,
                            video.start.lease, "abortFile", video.stop.lease,
                            video.stop.result)
        <4>1. VideoTypeOK'
          BY <2>2, ZenonT(60) DEF TerminateFailed, IInv, TypeOK, VideoTypeOK
        <4> QED
          BY <2>2, ZenonT(60)
          DEF TerminateFailed, IInv, TypeOK, VideoTypeOK, VideoBecomes
      <3>2. /\ VideoEnding
            /\ video.track \in BOOLEAN /\ video.recorderStarted \in BOOLEAN
            /\ ~video.recorderStarted
        BY <1>0 DEF VideoRecords, VideoEnding, IInv, VideoIInv, VideoRuns,
                    VideoHolds, VideoLive, VideoStarting
      <3> QED BY <2>2, <3>1, <3>2, VideoStops
    <2> QED BY <2>1, <2>2
  <1>14. CASE VideoFileAborted
    <2> USE <1>14 DEF VideoFileAborted, VideoStopAt
    <2>0. video.stop.result \in BOOLEAN
      BY <1>0 DEF VideoRecords
    <2>1. CASE CloseSession(video.session) /\ video' = VideoCleanup(video)
      <3>1. /\ VideoTypeOK'
            /\ VideoBecomes(video.status, video.lease, video.session, FALSE,
                            video.recorderStarted, video.pending,
                            video.writeError, video.start.step,
                            video.start.lease, "cleanup", video.stop.lease,
                            video.stop.result)
        <4>1. VideoTypeOK'
          BY <2>1 DEF VideoCleanup, IInv, TypeOK, VideoTypeOK
        <4> QED
          BY <2>1, ZenonT(60)
          DEF VideoCleanup, IInv, TypeOK, VideoTypeOK, VideoBecomes
      <3> QED BY <2>0, <2>1, <3>1, VideoCleansUp
    <2>2. CASE /\ "abortFile" \in faults /\ UNCHANGED fileVars
               /\ video' = VideoCleanup([video EXCEPT !.fatalError = TRUE])
      <3>1. /\ VideoTypeOK'
            /\ VideoBecomes(video.status, video.lease, video.session, FALSE,
                            video.recorderStarted, video.pending,
                            video.writeError, video.start.step,
                            video.start.lease, "cleanup", video.stop.lease,
                            video.stop.result)
        <4>1. VideoTypeOK'
          BY <2>2 DEF VideoCleanup, IInv, TypeOK, VideoTypeOK
        <4> QED
          BY <2>2, ZenonT(60)
          DEF VideoCleanup, IInv, TypeOK, VideoTypeOK, VideoBecomes
      <3> QED BY <2>0, <2>2, <3>1, VideoCleansUp
    <2> QED BY <2>1, <2>2
  <1>15. CASE VideoCleanedUp
    <2> USE <1>15 DEF VideoCleanedUp, VideoStopAt
    <2> DEFINE status == IF video.fatalError THEN "error" ELSE "idle"
    <2>1. status \in {"idle", "error"}
      OBVIOUS
    <2>2. video' = [video EXCEPT !.lease = NoLease, !.status = status,
                                 !.stop.step = "settled"]
      OBVIOUS
    <2>3. \/ Transcribe(video.session)
          \/ UNCHANGED transcriptions /\ (~video.stop.result \/ status = "error")
      BY DEF IInv, VideoNames
    <2> HIDE DEF status
    <2>4. /\ VideoTypeOK'
          /\ VideoBecomes(status, NoLease, video.session, video.track,
                          video.recorderStarted, video.pending, video.writeError,
                        video.start.step, video.start.lease, "settled",
                        video.stop.lease, video.stop.result)
      <3> DEFINE stop == [video.stop EXCEPT !.step = "settled"]
      <3>1. /\ stop \in [step : {"settled"}, lease : Leases \cup {NoLease},
                         conversation : Conversations \cup {NoConversation},
                         result : BOOLEAN]
            /\ stop.lease = video.stop.lease
            /\ stop.result = video.stop.result
        BY <1>0 DEF VideoRecords
      <3>2. video' = [video EXCEPT !.lease = NoLease, !.status = status,
                                   !.stop = stop]
        BY <1>0, <2>2 DEF VideoRecords
      <3> HIDE DEF stop
      <3>3. VideoTypeOK'
        BY <1>0, <2>1, <3>1, <3>2, ZenonT(60) DEF VideoTypeOK, VideoRecords
      <3> QED BY <1>0, <3>1, <3>2, <3>3 DEF VideoRecords, VideoBecomes
    <2> QED BY <2>1, <2>3, <2>4, VideoSettles
  <1>16. CASE VideoFinalizationDone
    BY <1>16, VideoCompletes
  <1> QED
    BY <1>1, <1>2, <1>3, <1>4, <1>5, <1>6, <1>7, <1>8, <1>9, <1>10, <1>11,
       <1>12, <1>13, <1>14, <1>15, <1>16
    DEF VideoNext, VideoProceeds

-------------------------------------------------------------------------------
(* The call that a video recording belongs to. *)

(* A recording that ends keeps its call, under the name that #terminate() took
   from the state. *)
LEMMA TerminatingKeepsName ==
  ASSUME NEW v \in VideoRecords, v.status \in {"recording", "paused"},
         v.conversation # NoConversation
  PROVE  /\ Terminating(v).status = "finalizing"
         /\ Terminating(v).start = v.start
         /\ Terminating(v).stop.conversation # NoConversation
         /\ [Terminating(v) EXCEPT !.start = NoVideoStart].status = "finalizing"
         /\ [Terminating(v) EXCEPT !.start = NoVideoStart].start = NoVideoStart
         /\ [Terminating(v) EXCEPT !.start = NoVideoStart].stop
              = Terminating(v).stop
  <1>1. PICK t : t = Terminating(v)
    OBVIOUS
  <1>2. /\ t \in VideoRecords /\ t.status = "finalizing" /\ t.start = v.start
        /\ t.stop.conversation = v.conversation
    BY <1>1, TerminatingFields
  <1>3. /\ [t EXCEPT !.start = NoVideoStart].status = t.status
        /\ [t EXCEPT !.start = NoVideoStart].start = NoVideoStart
        /\ [t EXCEPT !.start = NoVideoStart].stop = t.stop
    BY <1>2 DEF VideoRecords
  <1> QED BY <1>1, <1>2, <1>3

(* A fatal error ends the recording of the same call, or is remembered. *)
LEMMA SignalKeepsName ==
  ASSUME VideoNames, NEW v \in VideoRecords, SignalFatalError(v),
         v.status = video.status, v.conversation = video.conversation,
         v.start = video.start, v.stop = video.stop
  PROVE  VideoNames'
  <1> DEFINE failed == [v EXCEPT !.fatalError = TRUE, !.terminationKind = "abort"]
  <1>1. /\ failed \in VideoRecords
        /\ failed.status = video.status /\ failed.start = video.start
        /\ failed.conversation = video.conversation /\ failed.stop = video.stop
    BY DEF VideoRecords
  <1>2. \/ VideoStopStarts /\ video' = Terminating(failed)
        \/ video' = failed
    BY DEF SignalFatalError
  <1> HIDE DEF failed
  <1>3. CASE VideoStopStarts /\ video' = Terminating(failed)
    BY <1>1, <1>3, TerminatingKeepsName
    DEF VideoStopStarts, VideoNames, VideoLive
  <1>4. CASE video' = failed
    BY <1>1, <1>4 DEF VideoNames, VideoLive
  <1> QED BY <1>2, <1>3, <1>4

(* A start that is being undone is still the start of a call. *)
LEMMA FailedStartKeepsName ==
  ASSUME VideoNames, video.start.step # "none", NEW v \in VideoRecords,
         v.status = video.status, v.conversation = video.conversation,
         v.start = video.start, v.stop = video.stop,
         video' = VideoStartFailed(v)
  PROVE  VideoNames'
  <1>1. /\ video'.status = v.status /\ video'.conversation = v.conversation
        /\ video'.start.conversation = v.start.conversation
        /\ video'.stop = v.stop
    BY DEF VideoStartFailed, VideoRecords
  <1> QED BY <1>1 DEF VideoNames, VideoLive

(* The steps of a start. *)
LEMMA StartKeepsName ==
  ASSUME VideoNames, video \in VideoRecords, VideoHolds,
         \/ \E c \in Conversations, l \in Leases : VideoStartRecording(c, l)
         \/ VideoFileCreated \/ VideoTrackCreated \/ VideoEndedDuringStart
         \/ VideoUnwindRecorder \/ VideoUnwindTrack \/ VideoUnwindAbort
  PROVE  VideoNames'
  <1>1. ASSUME NEW c \in Conversations, NEW l \in Leases,
               VideoStartRecording(c, l)
        PROVE  VideoNames'
    <2>1. /\ video'.start.conversation = c /\ video'.status = "starting"
          /\ video'.stop.step = "none"
      BY <1>1 DEF VideoStartRecording, FreshVideo, NoVideoStop, NoVideoStart
    <2> QED BY <2>1, EnvironmentAssumption DEF VideoNames, VideoLive
  <1>2. CASE video.start.step # "none" /\ video' = VideoStartFailed(video)
    BY <1>2, FailedStartKeepsName
  <1>3. CASE VideoFileCreated
    <2> USE <1>3 DEF VideoFileCreated, VideoAt
    <2>1. CASE video' = [video EXCEPT !.session = video.start.lease,
                                      !.start.step = "createTrack"]
      <3>1. /\ video'.status = video.status /\ video'.stop = video.stop
            /\ video'.conversation = video.conversation
            /\ video'.start.conversation = video.start.conversation
        BY <2>1 DEF VideoRecords
      <3> QED BY <3>1 DEF VideoNames, VideoLive
    <2> QED BY <1>2, <2>1
  <1>4. CASE VideoTrackCreated
    <2> USE <1>4 DEF VideoTrackCreated, VideoAt
    <2>1. CASE video' = VideoRecordingStarted
      <3>1. /\ video'.status = "recording" /\ video'.stop = video.stop
            /\ video'.conversation = video.start.conversation
            /\ \/ video'.start.conversation = video.start.conversation
               \/ video'.start.step = "none"
        BY <2>1 DEF VideoRecordingStarted, VideoRecords, NoVideoStart
      <3> QED BY <3>1 DEF VideoNames, VideoLive
    <2>2. ASSUME NEW v \in {[video EXCEPT !.track = TRUE],
                            [video EXCEPT !.track = TRUE, !.compositor = TRUE],
                            [video EXCEPT !.track = TRUE, !.compositor = TRUE,
                                          !.recorderStarted = TRUE,
                                          !.fatalError = TRUE]},
                 video' = VideoStartFailed(v)
          PROVE  VideoNames'
      <3>1. CASE v = [video EXCEPT !.track = TRUE]
        BY <2>2, <3>1, FailedStartKeepsName DEF VideoRecords
      <3>2. CASE v = [video EXCEPT !.track = TRUE, !.compositor = TRUE]
        BY <2>2, <3>2, FailedStartKeepsName DEF VideoRecords
      <3>3. CASE v = [video EXCEPT !.track = TRUE, !.compositor = TRUE,
                                   !.recorderStarted = TRUE, !.fatalError = TRUE]
        BY <2>2, <3>3, FailedStartKeepsName DEF VideoRecords
      <3> QED BY <2>2, <3>1, <3>2, <3>3
    <2> QED BY <1>2, <2>1, <2>2
  <1>5. CASE VideoEndedDuringStart
    <2> USE <1>5 DEF VideoEndedDuringStart
    <2>1. CASE VideoStopStarts
      <3>1. /\ video'.status = "finalizing" /\ video'.start = NoVideoStart
            /\ video'.stop.conversation # NoConversation
        BY <2>1, TerminatingKeepsName DEF VideoStopStarts, VideoNames, VideoLive
      <3> QED BY <3>1 DEF VideoNames, VideoLive, NoVideoStart
    <2>2. CASE ~VideoStopStarts
      <3>1. /\ video'.status = video.status /\ video'.stop = video.stop
            /\ video'.conversation = video.conversation
            /\ video'.start = NoVideoStart
        BY <2>2 DEF VideoRecords
      <3> QED BY <3>1 DEF VideoNames, VideoLive, NoVideoStart
    <2> QED BY <2>1, <2>2
  <1>6. CASE VideoUnwindRecorder
    <2> DEFINE v == [video EXCEPT !.recorderStarted = FALSE]
    <2>1. /\ v \in VideoRecords
          /\ v.status = video.status /\ v.conversation = video.conversation
          /\ v.start = video.start /\ v.stop = video.stop
      BY DEF VideoRecords
    <2>2. video' = VideoStartFailed(v) /\ video.start.step # "none"
      BY <1>6 DEF VideoUnwindRecorder, VideoAt
    <2> HIDE DEF v
    <2> QED BY <2>1, <2>2, FailedStartKeepsName
  <1>7. CASE VideoStartError(video)
    <2>1. /\ video'.status = "error" /\ video'.stop = video.stop
          /\ video'.start = NoVideoStart
      BY <1>7 DEF VideoStartError, VideoRecords
    <2> QED BY <2>1 DEF VideoNames, VideoLive, NoVideoStart
  <1>8. CASE VideoUnwindTrack
    <2> USE <1>8 DEF VideoUnwindTrack, VideoAt
    <2>1. CASE video' = [video EXCEPT !.start.step = "unwindAbort"]
      <3>1. /\ video'.status = video.status /\ video'.stop = video.stop
            /\ video'.conversation = video.conversation
            /\ video'.start.conversation = video.start.conversation
        BY <2>1 DEF VideoRecords
      <3> QED BY <3>1 DEF VideoNames, VideoLive
    <2> QED BY <1>7, <2>1
  <1>9. CASE VideoUnwindAbort
    BY <1>7, <1>9 DEF VideoUnwindAbort
  <1> QED BY <1>1, <1>3, <1>4, <1>5, <1>6, <1>8, <1>9

(* The steps of #terminate(). *)
LEMMA StopKeepsName ==
  ASSUME VideoNames, video \in VideoRecords,
         \/ VideoRecorderStopped \/ VideoTrackStopped \/ VideoDrained
         \/ VideoFileFinalized \/ VideoFileAborted
         \/ VideoCleanedUp \/ VideoFinalizationDone
  PROVE  VideoNames'
  <1>1. ASSUME NEW v \in VideoRecords, NEW step,
               v.status = video.status, v.conversation = video.conversation,
               v.start = video.start,
               v.stop.conversation = video.stop.conversation,
               video.stop.step # "none",
               video' = [v EXCEPT !.stop.step = step]
        PROVE  VideoNames'
    <2>1. /\ video'.status = v.status /\ video'.conversation = v.conversation
          /\ video'.start = v.start
          /\ video'.stop.conversation = v.stop.conversation
      BY <1>1 DEF VideoRecords
    <2> QED BY <1>1, <2>1 DEF VideoNames, VideoLive
  <1>2. ASSUME NEW v \in VideoRecords,
               v.status = video.status, v.conversation = video.conversation,
               v.start = video.start,
               v.stop.conversation = video.stop.conversation,
               video.stop.step # "none",
               video' = TerminateFailed(v) \/ video' = VideoCleanup(v)
        PROVE  VideoNames'
    <2>1. /\ video'.status = v.status /\ video'.conversation = v.conversation
          /\ video'.start = v.start
          /\ video'.stop.conversation = v.stop.conversation
      <3>1. CASE video' = TerminateFailed(v)
        BY <1>2, <3>1 DEF TerminateFailed, VideoRecords
      <3>2. CASE video' = VideoCleanup(v)
        BY <1>2, <3>2 DEF VideoCleanup, VideoRecords
      <3> QED BY <1>2, <3>1, <3>2
    <2> QED BY <1>2, <2>1 DEF VideoNames, VideoLive
  <1> USE DEF VideoStopAt
  <1>3. CASE VideoRecorderStopped
    <2> DEFINE v == [video EXCEPT !.recorderStarted = FALSE]
               w == [video EXCEPT !.recorderStarted = FALSE, !.track = FALSE]
    <2>1. /\ v \in VideoRecords
          /\ v.status = video.status /\ v.conversation = video.conversation
          /\ v.start = video.start /\ v.stop = video.stop
      BY DEF VideoRecords
    <2>2. /\ w \in VideoRecords
          /\ w.status = video.status /\ w.conversation = video.conversation
          /\ w.start = video.start /\ w.stop = video.stop
      BY DEF VideoRecords
    <2>3. \/ video' = [w EXCEPT !.stop.step = "stopTrack"]
          \/ video' = TerminateFailed(v)
      BY <1>3 DEF VideoRecorderStopped, VideoRecords
    <2>4. video.stop.step # "none"
      BY <1>3 DEF VideoRecorderStopped
    <2> HIDE DEF v, w
    <2> QED BY <1>1, <1>2, <2>1, <2>2, <2>3, <2>4
  <1>4. CASE VideoTrackStopped
    BY <1>1, <1>2, <1>4 DEF VideoTrackStopped
  <1>5. CASE VideoDrained
    BY <1>1, <1>2, <1>5 DEF VideoDrained
  <1>6. ASSUME NEW v \in {[video EXCEPT !.stop.result = TRUE],
                          [video EXCEPT !.fatalError = TRUE]},
               video.stop.step # "none", video' = VideoCleanup(v)
        PROVE  VideoNames'
    <2>1. /\ v \in VideoRecords
          /\ v.status = video.status /\ v.conversation = video.conversation
          /\ v.start = video.start
          /\ v.stop.conversation = video.stop.conversation
      <3>1. CASE v = [video EXCEPT !.stop.result = TRUE]
        BY <3>1 DEF VideoRecords
      <3>2. CASE v = [video EXCEPT !.fatalError = TRUE]
        BY <3>2 DEF VideoRecords
      <3> QED BY <1>6, <3>1, <3>2
    <2> QED BY <1>2, <1>6, <2>1
  <1>7. CASE VideoFileFinalized
    BY <1>2, <1>6, <1>7 DEF VideoFileFinalized
  <1>8. CASE VideoFileAborted
    BY <1>2, <1>6, <1>8 DEF VideoFileAborted
  <1>9. CASE VideoCleanedUp
    <2>1. /\ video'.status \in {"idle", "error"}
          /\ video'.start = video.start
          /\ video'.stop.conversation = video.stop.conversation
      BY <1>9 DEF VideoCleanedUp, VideoRecords
    <2>2. video.stop.step # "none"
      BY <1>9 DEF VideoCleanedUp
    <2> QED BY <2>1, <2>2 DEF VideoNames, VideoLive
  <1>10. CASE VideoFinalizationDone
    <2>1. /\ video'.status = video.status /\ video'.start = video.start
          /\ video'.conversation = video.conversation
          /\ video'.stop.step = "none"
      BY <1>10 DEF VideoFinalizationDone, VideoRecords, NoVideoStop
    <2> QED BY <2>1 DEF VideoNames, VideoLive
  <1> QED BY <1>3, <1>4, <1>5, <1>7, <1>8, <1>9, <1>10

(* No step of the video service loses the call of its recording. *)
LEMMA VideoKeepsNames ==
  ASSUME IInv, VideoNext
  PROVE  VideoNames'
  <1>1. VideoNames /\ video \in VideoRecords /\ VideoHolds
    BY DEF IInv, TypeOK, VideoTypeOK, VideoRecords, VideoIInv
  <1>2. ASSUME NEW v \in VideoRecords, SignalFatalError(v),
               v.status = video.status, v.conversation = video.conversation,
               v.start = video.start, v.stop = video.stop
        PROVE  VideoNames'
    BY <1>1, <1>2, SignalKeepsName
  <1>3. CASE VideoUserStops
    BY <1>1, <1>3, TerminatingKeepsName
    DEF VideoUserStops, VideoStopStarts, VideoNames, VideoLive
  <1>4. CASE VideoPause \/ VideoResume
    <2>1. /\ video.status \in {"recording", "paused"}
          /\ video'.conversation = video.conversation
          /\ video'.start = video.start /\ video'.stop = video.stop
      BY <1>1, <1>4 DEF VideoPause, VideoResume, VideoRecords
    <2> QED BY <1>1, <2>1 DEF VideoNames, VideoLive
  <1>5. CASE VideoSourceFails
    BY <1>1, <1>2, <1>5 DEF VideoSourceFails
  <1>6. ASSUME NEW q \in Queues, VideoEnqueue(q) \/ VideoAppended(q)
        PROVE  VideoNames'
    <2>1. \/ SignalFatalError(video)
          \/ \E n : video' = [video EXCEPT !.pending[q] = n]
          \/ SignalFatalError(VideoAppendFailed(q))
      BY <1>6 DEF VideoEnqueue, VideoAppended
    <2>2. CASE \E n : video' = [video EXCEPT !.pending[q] = n]
      <3>1. /\ video'.status = video.status /\ video'.stop = video.stop
            /\ video'.conversation = video.conversation
            /\ video'.start = video.start
        BY <1>1, <2>2 DEF VideoRecords
      <3> QED BY <1>1, <3>1 DEF VideoNames, VideoLive
    <2>3. CASE SignalFatalError(VideoAppendFailed(q))
      <3> DEFINE p == [video.pending EXCEPT ![q] = 0]
                 v == [video EXCEPT !.pending = p, !.writeError = TRUE]
      <3>1. p \in [Queues -> 0..MaxQueued]
        BY <1>1, MaxQueuedAssumption DEF VideoRecords
      <3>2. VideoAppendFailed(q) = v
        BY <1>1 DEF VideoAppendFailed, VideoRecords
      <3> HIDE DEF p
      <3>3. /\ v \in VideoRecords
            /\ v.status = video.status /\ v.conversation = video.conversation
            /\ v.start = video.start /\ v.stop = video.stop
        BY <1>1, <3>1 DEF VideoRecords
      <3> QED BY <1>2, <2>3, <3>2, <3>3
    <2> QED BY <1>1, <1>2, <2>1, <2>2, <2>3
  <1> QED BY <1>1, <1>3, <1>4, <1>5, <1>6, StartKeepsName, StopKeepsName
          DEF VideoNext, VideoProceeds

-------------------------------------------------------------------------------
(* A call ends.  Both services are told in one turn. *)

(* The wrapper of the video service only notes an ended call. *)
LEMMA VideoNotes ==
  ASSUME IInv, NEW c, video' = VideoNotesEndedCall(c, video)
  PROVE  VideoTypeOK' /\ VideoSame
  <1> DEFINE e == video.endedDuringStart \/ (/\ video.start.step # "none"
                                             /\ video.start.conversation = c)
  <1>1. e \in BOOLEAN
    OBVIOUS
  <1>2. video' = [video EXCEPT !.endedDuringStart = e]
    BY DEF VideoNotesEndedCall
  <1> HIDE DEF e
  <1> QED BY <1>1, <1>2 DEF IInv, TypeOK, VideoTypeOK, VideoSame

(* The call of a recording stays known when it ends. *)
LEMMA NotingKeepsNames ==
  ASSUME IInv, NEW c,
         \/ video' = VideoNotesEndedCall(c, video)
         \/ /\ VideoStopStarts
            /\ video' = Terminating(VideoNotesEndedCall(c, video))
  PROVE  VideoNames'
  <1> DEFINE v == VideoNotesEndedCall(c, video)
  <1>1. /\ v \in VideoRecords /\ v.status = video.status
        /\ v.conversation = video.conversation
        /\ v.start = video.start /\ v.stop = video.stop
    BY DEF VideoNotesEndedCall, VideoRecords, IInv, TypeOK, VideoTypeOK
  <1>2. VideoNames
    BY DEF IInv
  <1> HIDE DEF v
  <1>3. CASE video' = v
    BY <1>1, <1>2, <1>3 DEF VideoNames, VideoLive
  <1>4. CASE VideoStopStarts /\ video' = Terminating(v)
    BY <1>1, <1>2, <1>4, TerminatingKeepsName
    DEF VideoNames, VideoLive, VideoStopStarts
  <1> QED BY <1>3, <1>4 DEF v

(* The audio service finalizes the recording of the call that ended. *)
LEMMA CallEndsAudio ==
  ASSUME IInv, NEW c \in Conversations,
         AudioEndsWithCall(c), Finalize(audio.lease),
         audio' = AudioFinalizing(audio),
         video' = VideoNotesEndedCall(c, video),
         endedCalls' = endedCalls \cup {c},
         UNCHANGED fileVars, UNCHANGED faults
  PROVE  AudioStep /\ VideoTypeOK' /\ VideoIInv'
  <1>1. AudioLive
    BY LiveAudioStops DEF AudioEndsWithCall
  <1>2. /\ AudioTypeOK'
        /\ AudioBecomes(audio.status, audio.conversation, audio.lease,
                        audio.session, audio.track, "pending", audio.recorder,
                      audio.start.step, audio.start.lease, "stopRecorder",
                      audio.stop.session, audio.stop.outcome)
    <2>1. AudioTypeOK'
      BY ZenonT(60) DEF AudioFinalizing, IInv, TypeOK, AudioTypeOK
    <2> QED
      BY ZenonT(60) DEF AudioFinalizing, IInv, TypeOK, AudioTypeOK, AudioBecomes
  <1>3. endedCalls' \subseteq Conversations
    BY DEF IInv, TypeOK, EnvironmentTypeOK
  <1>4. AudioStep
    BY <1>1, <1>2, <1>3, AudioTerminates
  <1>5. VideoTypeOK' /\ VideoSame
    BY VideoNotes
  <1> QED BY <1>4, <1>5, VideoKept DEF AudioStep, Shared

(* The video service finalizes the recording of the call that ended. *)
LEMMA CallEndsVideo ==
  ASSUME IInv, NEW c \in Conversations,
         VideoEndsWithCall(c), Finalize(video.lease),
         video' = Terminating(VideoNotesEndedCall(c, video)),
         endedCalls' = endedCalls \cup {c},
         UNCHANGED audio, UNCHANGED fileVars, UNCHANGED faults
  PROVE  VideoStep /\ AudioTypeOK' /\ AudioIInv'
  <1> DEFINE e == video.endedDuringStart \/ (/\ video.start.step # "none"
                                             /\ video.start.conversation = c)
  <1>1. e \in BOOLEAN
    OBVIOUS
  <1>2. video' = Terminating([video EXCEPT !.endedDuringStart = e])
    BY DEF VideoNotesEndedCall
  <1>3. endedCalls' \subseteq Conversations
    BY DEF IInv, TypeOK, EnvironmentTypeOK
  <1>4. VideoStopStarts
    BY DEF VideoEndsWithCall
  <1> HIDE DEF e
  <1>5. VideoStep
    BY <1>1, <1>2, <1>3, <1>4, VideoStopsWithoutError
  <1>6. AudioTypeOK'
    BY DEF IInv, TypeOK, AudioTypeOK
  <1> QED BY <1>5, <1>6, AudioKept DEF VideoStep, Shared

(* Nothing is being recorded for the call, or it is still starting. *)
LEMMA CallEndsUnrecorded ==
  ASSUME IInv, NEW c \in Conversations,
         video' = VideoNotesEndedCall(c, video),
         UNCHANGED <<coordinatorVars, audio>>,
         endedCalls' = endedCalls \cup {c},
         UNCHANGED fileVars, UNCHANGED faults
  PROVE  AudioStep /\ VideoTypeOK' /\ VideoIInv'
  <1>1. VideoTypeOK' /\ VideoSame
    BY VideoNotes
  <1>2. EnvironmentTypeOK' /\ PublishesOpen
    BY DEF IInv, TypeOK, EnvironmentTypeOK, PublishesOpen, fileVars
  <1>3. \A m \in Modes : LockOf(m) /\ FilesOf(m)
    BY DEF LockOf, FilesOf, fileVars
  <1>4. "audio" \in Modes /\ "video" \in Modes
    BY DEF Modes
  <1>5. VideoIInv'
    BY <1>1, <1>2, <1>3, <1>4, VideoKept
  <1>6. AudioIInv'
    BY <1>2, <1>3, <1>4, AudioKept
  <1>7. AudioTypeOK'
    BY DEF IInv, TypeOK, AudioTypeOK
  <1>8. LockIsUsed'
    BY <1>1 DEF IInv, LockIsUsed, AudioBusy, VideoBusy, VideoSame,
                coordinatorVars
  <1> QED BY <1>1, <1>2, <1>3, <1>4, <1>5, <1>6, <1>7, <1>8
          DEF AudioStep, Shared

-------------------------------------------------------------------------------
(* Every step of the pair. *)

\* What a step of the pair keeps, and what it is for the coordinator.
PairStep == IInv' /\ [CoordinatorNext]_coordinatorVars /\ PublishesOpen

(* A step in which one service acts and the other finds its part kept. *)
LEMMA PairSteps ==
  ASSUME IInv, NEW m \in Modes, Shared(m), LockIsUsed',
         AudioTypeOK', VideoTypeOK', AudioIInv', VideoIInv', VideoNames'
  PROVE  PairStep
  <1>1. CoordinatorInv'
    BY NextPreservesInv DEF Shared, IInv
  <1>2. SessionsAreUsed'
    BY SessionsStayUsed DEF Shared
  <1>3. TypeOK'
    BY <1>1 DEF TypeOK, CoordinatorInv, Shared
  <1> QED BY <1>1, <1>2, <1>3 DEF PairStep, IInv, Shared

(* The invariant is inductive; every step is one of the coordinator or leaves
   the coordinator alone. *)
LEMMA PairNext ==
  ASSUME IInv, [Next]_vars
  PROVE  PairStep
  <1> "audio" \in Modes /\ "video" \in Modes
    BY DEF Modes
  <1>1. ASSUME AudioNext, UNCHANGED <<video, faults>>
        PROVE  PairStep
    <2>1. AudioStep
      BY <1>1, AudioStepsSafely
    <2>2. VideoSame /\ VideoTypeOK'
      BY <1>1 DEF VideoSame, IInv, TypeOK, VideoTypeOK
    <2>3. VideoIInv'
      BY <1>1, <2>1, <2>2, VideoKept DEF AudioStep, Shared
    <2>4. VideoNames'
      BY <1>1 DEF IInv, VideoNames, VideoLive
    <2> QED BY <2>1, <2>2, <2>3, <2>4, PairSteps DEF AudioStep
  <1>2. ASSUME VideoNext, UNCHANGED <<audio, faults>>
        PROVE  PairStep
    <2>1. VideoStep
      BY <1>2, VideoStepsSafely
    <2>2. AudioTypeOK'
      BY <1>2 DEF IInv, TypeOK, AudioTypeOK
    <2>3. AudioIInv'
      BY <1>2, <2>1, AudioKept DEF VideoStep, Shared
    <2>4. VideoNames'
      BY <1>2, VideoKeepsNames
    <2> QED BY <2>1, <2>2, <2>3, <2>4, PairSteps DEF VideoStep
  <1>3. ASSUME NEW c \in Conversations, CallEnds(c), UNCHANGED faults
        PROVE  PairStep
    <2>1. CASE /\ AudioEndsWithCall(c) /\ Finalize(audio.lease)
               /\ audio' = AudioFinalizing(audio)
               /\ video' = VideoNotesEndedCall(c, video)
      <3>1. AudioStep /\ VideoTypeOK' /\ VideoIInv'
        BY <1>3, <2>1, CallEndsAudio DEF CallEnds
      <3> QED BY <2>1, <3>1, NotingKeepsNames, PairSteps DEF AudioStep
    <2>2. CASE /\ VideoEndsWithCall(c) /\ Finalize(video.lease)
               /\ video' = Terminating(VideoNotesEndedCall(c, video))
               /\ UNCHANGED audio
      <3>1. VideoStep /\ AudioTypeOK' /\ AudioIInv'
        BY <1>3, <2>2, CallEndsVideo DEF CallEnds
      <3>2. VideoNames'
        BY <2>2, NotingKeepsNames DEF VideoEndsWithCall
      <3> QED BY <3>1, <3>2, PairSteps DEF VideoStep
    <2>3. CASE /\ video' = VideoNotesEndedCall(c, video)
               /\ UNCHANGED <<coordinatorVars, audio>>
      <3>1. AudioStep /\ VideoTypeOK' /\ VideoIInv'
        BY <1>3, <2>3, CallEndsUnrecorded DEF CallEnds
      <3> QED BY <2>3, <3>1, NotingKeepsNames, PairSteps DEF AudioStep
    <2> QED BY <1>3, <2>1, <2>2, <2>3 DEF CallEnds
  <1>4. CASE UNCHANGED vars
    <2>1. UNCHANGED <<video, audio, faults, coordinatorVars, environmentVars>>
      BY <1>4 DEF vars
    <2>2. EnvironmentTypeOK' /\ PublishesOpen /\ AudioTypeOK' /\ VideoTypeOK'
      BY <2>1 DEF IInv, TypeOK, EnvironmentTypeOK, AudioTypeOK, VideoTypeOK,
                  PublishesOpen, environmentVars
    <2>3. \A m \in Modes : LockOf(m) /\ FilesOf(m)
      BY <2>1 DEF LockOf, FilesOf, environmentVars
    <2>4. VideoSame
      BY <2>1 DEF VideoSame
    <2>5. VideoIInv' /\ AudioIInv'
      BY <2>1, <2>2, <2>3, <2>4, VideoKept, AudioKept
    <2>6. LockIsUsed'
      BY <2>1 DEF IInv, LockIsUsed, AudioBusy, VideoBusy, coordinatorVars
    <2>7. Shared("audio")
      BY <2>1, <2>2, <2>3 DEF Shared
    <2>8. VideoNames'
      BY <2>1 DEF IInv, VideoNames, VideoLive
    <2> QED BY <2>2, <2>5, <2>6, <2>7, <2>8, PairSteps
  <1> QED BY <1>1, <1>2, <1>3, <1>4 DEF Next, Rest

(* The services start idle. *)
LEMMA PairInit ==
  Init => IInv
  <1> SUFFICES ASSUME Init PROVE IInv
    OBVIOUS
  <1> USE LeaseAssumption, MaxQueuedAssumption
      DEF Init, CoordinatorInit, EnvironmentInit, AudioInit, VideoInit,
          FreshVideo, NoAudioStart, NoAudioStop, NoVideoStart, NoVideoStop
  <1>1. CoordinatorInv
    BY InitEstablishesInv
  <1>2. EnvironmentTypeOK /\ AudioTypeOK
    BY DEF EnvironmentTypeOK, AudioTypeOK
  <1>3. VideoTypeOK
    BY DEF VideoTypeOK, EmptyQueues
  <1>4. AudioIInv
    BY DEF AudioIInv, AudioHolds, AudioRuns, AudioWrites, AudioCloses,
           AudioBusy, AudioLive
  <1>5. VideoIInv
    BY DEF VideoIInv, VideoHolds, VideoRuns, VideoWrites, VideoCloses,
           VideoSaves, FinishedVideoIsTranscribed, VideoBusy, VideoLive,
           VideoStarting, VideoEnding
  <1>6. SessionsAreUsed /\ LockIsUsed /\ VideoNames
    BY DEF SessionsAreUsed, LockIsUsed, VideoNames, VideoLive
  <1> QED BY <1>1, <1>2, <1>3, <1>4, <1>5, <1>6
          DEF IInv, TypeOK, CoordinatorInv

(* The invariant holds in every reachable state. *)
LEMMA PairInvariant ==
  Spec => []IInv
  <1>1. IInv /\ [Next]_vars => IInv'
    BY PairNext DEF PairStep
  <1> QED BY <1>1, PairInit, PTL DEF Spec

-------------------------------------------------------------------------------
(* What the invariant says of every recording. *)

(* Services and queues are well formed, and service, recorder and coordinator
   agree on what is paused (callRecordingServiceCore.std.ts:279-329). *)
THEOREM CaptureInvariant ==
  Spec => []CaptureInv
  <1>1. ASSUME IInv PROVE PausesAgree
    <2> USE <1>1 DEF IInv, PausesAgree, AudioIInv, VideoIInv
    <2>1. AudioLive => /\ activeCapture = audio.lease
                       /\ audio.status = "paused" <=> state = "audio-paused"
                       /\ audio.status = "paused" <=> audio.recorder = "paused"
      BY DEF AudioLive, AudioBusy, AudioHolds
    <2>2. VideoLive => /\ activeCapture = video.lease
                       /\ video.status = "paused" <=> state = "video-paused"
      BY DEF VideoLive, VideoBusy, VideoHolds
    <2> QED BY <2>1, <2>2 DEF AudioLive, VideoLive
  <1>2. IInv => CaptureInv
    BY <1>1 DEF CaptureInv, IInv
  <1> QED BY <1>2, PairInvariant, PTL

(* The recorders never use the tap at the same time, and the lock is never left
   without an owner (callRecordingServiceCore.std.ts:152-185, 269-276 and
   videoRecordingServiceCore.std.ts:180-227, 266-273). *)
THEOREM LockIsAlwaysKept ==
  Spec => []LockIsKept
  <1>1. ASSUME IInv PROVE OneTapUser
    <2>1. AudioUsesTap => AudioBusy
      BY <1>1 DEF AudioUsesTap, AudioBusy, IInv, AudioIInv, AudioRuns, AudioLive
    <2>2. VideoUsesTap => VideoBusy
      BY <1>1 DEF VideoUsesTap, VideoBusy, IInv, VideoIInv, VideoRuns,
                  VideoHolds, VideoLive, VideoStarting
    <2> QED BY <1>1, <2>1, <2>2, NeverBothBusy DEF OneTapUser
  <1>2. ASSUME IInv PROVE LockHasOwner
    <2> SUFFICES ASSUME activeCapture # NoLease
                 PROVE  LockHasOwner
      BY DEF LockHasOwner
    <2> USE <1>2 DEF IInv, LockHasOwner
    <2>1. CASE AudioBusy
      BY <2>1 DEF AudioBusy, AudioIInv, AudioHolds
    <2>2. CASE VideoBusy
      BY <2>2 DEF VideoBusy, VideoIInv, VideoHolds
    <2> QED BY <2>1, <2>2 DEF LockIsUsed
  <1>3. IInv => LockIsKept
    BY <1>1, <1>2 DEF LockIsKept
  <1> QED BY <1>3, PairInvariant, PTL

(* When a video file is finalized, no append of it is under way or queued and
   nothing produces one (videoRecordingServiceCore.std.ts:492-510, 566-595). *)
THEOREM AlwaysFinalizedAfterLastWrite ==
  Spec => []FinalizedAfterLastWrite
  <1>1. ASSUME IInv, video.stop.step = "finalizeFile"
        PROVE  /\ video.pending = EmptyQueues
               /\ ~video.recorderStarted /\ ~video.track
               /\ video.session = video.stop.lease
    <2> USE <1>1 DEF IInv, VideoIInv, VideoHolds, VideoLive, VideoStarting,
                     VideoEnding
    <2>1. video.start.step # "unwindRecorder" /\ ~VideoLive
      OBVIOUS
    <2>2. video.pending = EmptyQueues /\ ~video.recorderStarted /\ ~video.track
      BY <2>1 DEF VideoRuns
    <2>3. video.session = video.stop.lease
      BY DEF VideoWrites
    <2> QED BY <2>2, <2>3
  <1>2. IInv => FinalizedAfterLastWrite
    BY <1>1 DEF FinalizedAfterLastWrite, VideoStopAt
  <1> QED BY <1>2, PairInvariant, PTL

(* At rest no session is open, unless one of the failures at which the code
   gives up may have happened (callRecordingServiceCore.std.ts:407-412). *)
THEOREM NoSessionIsLeft ==
  Spec => []NoSessionLeft
  <1>1. ASSUME IInv, Quiescent, faults \subseteq UndoneFaults
        PROVE  openSessions = {}
    <2> SUFFICES ASSUME NEW s \in openSessions PROVE FALSE
      OBVIOUS
    <2>1. s \in Leases /\ leaseMode[s] \in {"audio", "video"}
      BY <1>1 DEF IInv, TypeOK, EnvironmentTypeOK, SessionsAreUsed,
                  CoordinatorTypeOK, Modes
    <2>2. ~AudioOwns(s)
      BY <1>1 DEF Quiescent, AudioOwns, AudioLive
    <2>3. ~VideoOwns(s)
      BY <1>1 DEF Quiescent, VideoOwns, VideoLive, VideoEnding
    <2> QED BY <1>1, <2>1, <2>2, <2>3
            DEF IInv, AudioIInv, VideoIInv, AudioCloses, VideoCloses
  <1>2. IInv => NoSessionLeft
    BY <1>1 DEF NoSessionLeft
  <1> QED BY <1>2, PairInvariant, PTL

(* A video that ended well is in the transcription queue
   (videoRecordingServiceCore.std.ts:551-557, 596-606, 640-642). *)
THEOREM FinishedVideoIsAlwaysTranscribed ==
  Spec => []FinishedVideoIsTranscribed
  <1>1. IInv => FinishedVideoIsTranscribed
    BY DEF IInv, VideoIInv, VideoSaves
  <1> QED BY <1>1, PairInvariant, PTL

(* A file is published only from an open session and under the lock of its own
   capture (callRecordingServiceCore.std.ts:443-457,
            videoRecordingServiceCore.std.ts:566-610). *)
THEOREM AlwaysPublishesOpenSession ==
  Spec => PublishesOpenSession
  <1>1. IInv /\ [Next]_vars =>
           [\A l \in savedFiles' \ savedFiles :
               l \in openSessions /\ activeCapture = l]_vars
    BY PairNext DEF PairStep, PublishesOpen
  <1> QED BY <1>1, PairInvariant, PTL DEF Spec, PublishesOpenSession

(* Only the end of a call ends a call: a recorder cannot. *)
LEMMA EndOfCallIsTold ==
  ASSUME [Next]_vars, endedCalls' # endedCalls
  PROVE  \E c \in Conversations : CallEnds(c)
  <1>1. AudioNext => UNCHANGED endedCalls
    <2> USE DEF outsideVars, environmentVars, fileVars
    <2>1. AudioProceeds => UNCHANGED endedCalls
      BY DEF AudioProceeds, AudioRecover, AudioTrackCreated, AudioFileCreated,
             AudioRecorderStarted, AudioRefusedAbort, AudioRefusedTrack,
             AudioUnwindRecorder, AudioUnwindTrack, AudioUnwindAbort,
             AudioRecorderStopped, AudioTrackStopped, AudioFileFinalized,
             AudioFileAborted, AudioFinalizationDone
    <2> QED
      BY <2>1 DEF AudioNext, AudioStartRecording, AudioUserStops, AudioPause,
                  AudioResume, AudioTrackFails, RecorderFails
  <1>2. VideoNext => UNCHANGED endedCalls
    <2> USE DEF videoOutside, environmentVars, fileVars
    <2>1. VideoProceeds => UNCHANGED endedCalls
      BY DEF VideoProceeds, VideoFileCreated, VideoTrackCreated,
             VideoEndedDuringStart, VideoUnwindRecorder, VideoUnwindTrack,
             VideoUnwindAbort, VideoRecorderStopped, VideoTrackStopped,
             VideoDrained, VideoFileFinalized, VideoFileAborted,
             VideoCleanedUp, VideoFinalizationDone
    <2> QED
      BY <2>1 DEF VideoNext, VideoStartRecording, VideoUserStops, VideoPause,
                  VideoResume, VideoSourceFails, VideoEnqueue, VideoAppended
  <1>3. UNCHANGED vars => UNCHANGED endedCalls
    BY DEF vars, environmentVars
  <1> QED BY <1>1, <1>2, <1>3 DEF Next, Rest

(* An audio recording that has started hears the end of its call, whether it is
   paused or not (callRecordingServiceCore.std.ts:355-364). *)
THEOREM AudioAlwaysHearsEndOfCall ==
  Spec => AudioHearsEndOfCall
  <1>1. ASSUME IInv, [Next]_vars, NEW d \in endedCalls' \ endedCalls,
               audio.conversation = d
        PROVE  audio'.finalization # "none"
    <2>1. d \in Conversations
      BY <1>1, PairNext DEF PairStep, IInv, TypeOK, EnvironmentTypeOK
    <2>2. audio.status # "idle"
      BY <1>1, <2>1, EnvironmentAssumption DEF IInv, AudioIInv, AudioHolds
    <2>3. PICK c \in Conversations : CallEnds(c)
      BY <1>1, EndOfCallIsTold
    <2>4. d = c
      BY <1>1, <2>3 DEF CallEnds
    <2>5. audio.finalization \in {"none", "pending", "settled"}
      BY <1>1 DEF IInv, TypeOK, AudioTypeOK
    <2>6. CASE AudioLive
      <3>1. AudioEndsWithCall(c)
        BY <1>1, <2>4, <2>6, LiveAudioStops DEF AudioEndsWithCall
      <3>2. audio' = AudioFinalizing(audio)
        BY <1>1, <2>3, <2>6, <3>1, LiveVideoStops, NeverBothBusy
        DEF CallEnds, VideoEndsWithCall, AudioBusy, AudioLive, VideoBusy,
            VideoLive
      <3> QED BY <1>1, <3>2 DEF AudioFinalizing, IInv, TypeOK, AudioTypeOK
    <2>7. CASE audio.stop.step # "none"
      <3>1. audio.finalization # "none" /\ ~AudioLive
        BY <1>1, <2>7 DEF IInv, AudioIInv, AudioHolds, AudioLive
      <3>2. UNCHANGED audio
        BY <1>1, <2>3, <3>1, LiveAudioStops DEF CallEnds, AudioEndsWithCall
      <3> QED BY <3>1, <3>2
    <2> QED BY <2>2, <2>6, <2>7 DEF AudioLive
  <1>2. IInv /\ [Next]_vars =>
           [\A c \in endedCalls' \ endedCalls :
               audio.conversation = c => audio'.finalization # "none"]_vars
    BY <1>1
  <1> QED BY <1>2, PairInvariant, PTL DEF Spec, AudioHearsEndOfCall

(* The pair uses the coordinator through its operations only. *)
LEMMA CaptureImplementsCoordinator ==
  Spec => CoordinatorSpec
  <1>1. Init => CoordinatorInit
    BY DEF Init
  <1>2. IInv /\ [Next]_vars => [CoordinatorNext]_coordinatorVars
    BY PairNext DEF PairStep
  <1> QED BY <1>1, <1>2, PairInvariant, PTL
          DEF Spec, CoordinatorSpec

(* So the pair implements the abstract lock, too. *)
THEOREM CaptureImplementsLock ==
  Spec => ImplementsLock
  BY CaptureImplementsCoordinator, CoordinatorImplementsLock, PTL
===============================================================================
