------------------------------ MODULE CallCapture ------------------------------
(***************************************************************************)
(* The audio and the video recording service of one window together: they  *)
(* share the capture coordinator, the RingRTC tap and the notification     *)
(* that a call has ended (ts/minutes/callCaptureService.std.ts).           *)
(***************************************************************************)
EXTENDS AudioRecordingService, VideoRecordingService

vars == <<coordinatorVars, environmentVars, faults, audio, video>>

Init == CoordinatorInit /\ EnvironmentInit /\ AudioInit /\ VideoInit

\* callCaptureService.onCallEnded() tells both services in one turn.  Only
\* one of them can be recording (OneTapUser), so at most one finalizes.
CallEnds(c) ==
    /\ c \notin endedCalls
    /\ endedCalls' = endedCalls \cup {c}
    /\ \/ /\ AudioEndsWithCall(c)
          /\ Finalize(audio.lease)
          /\ audio' = AudioFinalizing(audio)
          /\ video' = VideoNotesEndedCall(c, video)
       \/ /\ VideoEndsWithCall(c)
          /\ Finalize(video.lease)
          /\ video' = Terminating(VideoNotesEndedCall(c, video))
          /\ UNCHANGED audio
       \/ /\ ~AudioEndsWithCall(c) /\ ~VideoEndsWithCall(c)
          /\ video' = VideoNotesEndedCall(c, video)
          /\ UNCHANGED <<coordinatorVars, audio>>
    /\ UNCHANGED fileVars

Quiescent ==
    /\ audio.status = "idle" /\ audio.start.step = "none"
    /\ audio.stop.step = "none"
    /\ video.status \in {"idle", "error"} /\ video.start.step = "none"
    /\ video.stop.step = "none"

\* Nobody has to start another recording.
Rest == Quiescent /\ UNCHANGED vars

Next ==
    \/ AudioNext /\ UNCHANGED <<video, faults>>
    \/ VideoNext /\ UNCHANGED <<audio, faults>>
    \/ \E c \in Conversations : CallEnds(c) /\ UNCHANGED faults
    \/ Rest

\* Every call into the tap, the recorders and the main process is answered.
Fairness ==
    /\ WF_vars(AudioProceeds /\ UNCHANGED <<video, faults>>)
    /\ WF_vars(VideoProceeds /\ UNCHANGED <<audio, faults>>)
    /\ \A q \in Queues : WF_vars(VideoAppended(q) /\ UNCHANGED <<audio, faults>>)

Spec == Init /\ [][Next]_vars /\ Fairness

-------------------------------------------------------------------------------

TypeOK == CoordinatorTypeOK /\ EnvironmentTypeOK /\ AudioTypeOK /\ VideoTypeOK

AudioUsesTap == audio.track \/ audio.start.step = "createTrack"
VideoUsesTap == video.track \/ video.start.step = "createTrack"

(* RingRTC has one audio tap; a service that stops its track stops the tap
   of the other one too.  The services never use it at the same time
   (callRecordingServiceCore.std.ts:152-185, 409-412 and
   videoRecordingServiceCore.std.ts:180-227, 564-565). *)
OneTapUser == ~(AudioUsesTap /\ VideoUsesTap)

(* The lock is held only on behalf of a start that is still running, of a
   recording or of its finalization: no sequence of failures leaves both
   recorders locked out (callRecordingServiceCore.std.ts:269-276,
   videoRecordingServiceCore.std.ts:266-273). *)
LockHasOwner ==
    activeCapture # NoLease =>
        \/ activeCapture = audio.start.lease
        \/ activeCapture = audio.lease /\ audio.status # "idle"
        \/ activeCapture = audio.lease /\ audio.stop.step = "settled"
        \/ activeCapture = video.start.lease
        \/ activeCapture = video.lease
        \/ activeCapture = video.stop.lease

(* One recorder at a time has the tap, and the lock that keeps the other out is
   never left behind. *)
LockIsKept == OneTapUser /\ LockHasOwner

(* Pause is all or nothing: until the finalization begins, service,
   recorder and coordinator agree on whether the recording is paused
   (callRecordingServiceCore.std.ts:279-329). *)
PausesAgree ==
    /\ audio.status # "idle" /\ audio.stop.step = "none" =>
         /\ activeCapture = audio.lease
         /\ audio.status = "paused" <=> state = "audio-paused"
         /\ audio.status = "paused" <=> audio.recorder = "paused"
    /\ video.status \in {"recording", "paused"} =>
         /\ activeCapture = video.lease
         /\ video.status = "paused" <=> state = "video-paused"

(* The two services are well formed, with bounded write queues, and agree with
   the coordinator on what is paused. *)
CaptureInv == TypeOK /\ PausesAgree

(* A recording writes to the session opened for it, and when its file is
   finalized no append of it is under way or still queued
   (videoRecordingServiceCore.std.ts:492-510, 566-595). *)
FinalizedAfterLastWrite ==
    VideoStopAt("finalizeFile") =>
        /\ video.pending = EmptyQueues
        /\ ~video.recorderStarted /\ ~video.track
        /\ video.session = video.stop.lease

\* Failures after which the services undo everything: all but a recorder
\* queue that overflows, a tap that cannot be stopped and a failed abort.
UndoneFaults == AllFaults \ {"queueOverflow", "stopTrack", "abortFile"}

(* When a service is at rest, a session is still open only where the code
   gave up on it: an abort that failed, or an audio recording whose recorder
   or track threw while it was being stopped
   (callRecordingServiceCore.std.ts:407-412). *)
NoSessionLeft ==
    Quiescent /\ faults \subseteq UndoneFaults => openSessions = {}

(* A file is published only from a session that the main process still
   holds open, under the lock of its own capture: after a failed append,
   which closes the session, neither service asks for a finalize
   (callRecordingServiceCore.std.ts:443-457,
   videoRecordingServiceCore.std.ts:566-610). *)
PublishesOpenSession ==
    [][ \A l \in savedFiles' \ savedFiles :
            l \in openSessions /\ activeCapture = l ]_vars

(* A video that ended well is in the transcription queue: its metadata is
   collected before the state that holds it is overwritten
   (videoRecordingServiceCore.std.ts:551-557, 596-606, 640-642). *)
FinishedVideoIsTranscribed ==
    video.status = "idle" /\ video.session \in savedFiles =>
        video.session \in transcriptions

(* A finalization that has begun comes to its end and frees the lock. *)
FinalizationEnds == (state = "finalizing") ~> (state = "idle")

\* A video recording of the call is starting, running or being finalized.
VideoIsOf(c) ==
    c \in {video.start.conversation, video.conversation,
           video.stop.conversation}

(* A video recording does not outlive its call, even when the call ends
   while the recording is starting (videoRecordingService.preload.ts:117-122
   and 143-161). *)
VideoStopsWithCall ==
    \A c \in Conversations :
        (c \in endedCalls /\ VideoIsOf(c)) ~> ~VideoIsOf(c)

(* When its call ends, an audio recording that has started is being finalized
   from then on, whether it is paused or not.  Only one that is still starting
   misses the end of its call (callRecordingServiceCore.std.ts:355-364). *)
AudioHearsEndOfCall ==
    [][ \A c \in endedCalls' \ endedCalls :
            audio.conversation = c => audio'.finalization # "none" ]_vars

(* Every recording that has begun comes to its end: with its call, and then
   through a finalization that frees the lock. *)
RecordingsEnd ==
    /\ FinalizationEnds
    /\ VideoStopsWithCall
    /\ AudioHearsEndOfCall

===============================================================================
