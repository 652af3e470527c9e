------------------------- MODULE AudioRecordingService -------------------------
(***************************************************************************)
(* CallRecordingServiceCore (ts/minutes/callRecordingServiceCore.std.ts):  *)
(* the audio recorder of a call.  Each await of startRecording() and of    *)
(* the finalization is a step boundary at which the user, a call that      *)
(* ends, a failing tap or the other service may act.                       *)
(*                                                                         *)
(* The recorder (CallRecorder) is seen through its interface: it is        *)
(* active until stop() has returned, and once its stopPromise is rejected  *)
(* ("failed") every stop() throws before it can become idle.               *)
(***************************************************************************)
EXTENDS CaptureEnvironment

VARIABLE audio
(* The fields of the service:
     status        #state.status                 conversation  of #state
     lease         #captureLease                 session       #writerSessionId
     track         is #audioTrack set, that is: is the tap running?
     pendingError  #pendingAudioError
     finalization  #finalizationPromise: none, pending or settled
     recorder      CallRecorder: idle, running, paused or failed
     start         where startRecording() awaits, and its locals
     stop          where #finalizeRecording() awaits, and its locals       *)

NoAudioStart ==
    [step |-> "none", lease |-> NoLease, conversation |-> NoConversation]
NoAudioStop == [step |-> "none", session |-> NoLease, outcome |-> "none"]

AudioTypeOK ==
    audio \in
      [status : {"idle", "recording", "paused"},
       conversation : Conversations \cup {NoConversation},
       lease : Leases \cup {NoLease},
       session : Leases \cup {NoLease},
       track : BOOLEAN,
       pendingError : BOOLEAN,
       finalization : {"none", "pending", "settled"},
       recorder : {"idle", "running", "paused", "failed"},
       start : [step : {"none", "recover", "createTrack", "createFile",
                        "startRecorder", "refusedAbort", "refusedTrack",
                        "unwindRecorder", "unwindTrack", "unwindAbort"},
                lease : Leases \cup {NoLease},
                conversation : Conversations \cup {NoConversation}],
       stop : [step : {"none", "stopRecorder", "stopTrack", "finalizeFile",
                       "abortFile", "settled"},
               session : Leases \cup {NoLease},
               outcome : {"none", "save", "discard",
                          "resolved", "rejected"}]]

AudioInit ==
    audio =
      [status |-> "idle", conversation |-> NoConversation, lease |-> NoLease,
       session |-> NoLease, track |-> FALSE, pendingError |-> FALSE,
       finalization |-> "none", recorder |-> "idle",
       start |-> NoAudioStart, stop |-> NoAudioStop]

outsideVars == <<coordinatorVars, environmentVars>>

-------------------------------------------------------------------------------
(* Stopping: the user, a call that ended or a fatal error. *)

\* stopRecording() and the coordinator start the finalization once.
AudioStopStarts ==
    /\ audio.status \in {"recording", "paused"}
    /\ audio.finalization = "none"
    /\ audio.lease # NoLease
    /\ StartsFinalization(audio.lease)

AudioFinalizing(a) ==
    [a EXCEPT !.finalization = "pending", !.stop.step = "stopRecorder"]

AudioUserStops ==
    /\ AudioStopStarts
    /\ Finalize(audio.lease)
    /\ audio' = AudioFinalizing(audio)
    /\ UNCHANGED environmentVars

\* Seeded fault: a paused recording is not stopped with its call.
AudioEndsUnlessPaused(c) ==
    audio.conversation = c /\ AudioStopStarts /\ audio.status = "recording"

\* onCallEnded() of a recording of another conversation, or of a recording
\* that has not started yet, does nothing.
AudioEndsWithCall(c) == audio.conversation = c /\ AudioStopStarts

\* #handleAudioError() on the fields a: before the recording has started the
\* error is kept for startRecording() to find, afterwards it stops it.
HandleAudioError(a) ==
    IF AudioStopStarts
    THEN Finalize(audio.lease) /\ audio' = AudioFinalizing(a)
    ELSE /\ audio' = [a EXCEPT !.pendingError = @ \/ audio.status = "idle"]
         /\ UNCHANGED coordinatorVars

\* The RingRTC tap reports a fatal error; a stopped track reports nothing.
AudioTrackFails ==
    /\ "trackError" \in faults
    /\ audio.track \/ audio.start.step = "createTrack"
    /\ HandleAudioError(audio)
    /\ UNCHANGED environmentVars

\* CallRecorder.#signalFatal(): a chunk could not be appended, in which case
\* the main process has closed the session, or the renderer's queue is full.
RecorderFails ==
    /\ audio.recorder \in {"running", "paused"}
    /\ HandleAudioError([audio EXCEPT !.recorder = "failed"])
    /\ \/ /\ "appendFile" \in faults
          /\ CloseSession(audio.session)
       \/ /\ "queueOverflow" \in faults
          /\ UNCHANGED fileVars
    /\ UNCHANGED endedCalls

-------------------------------------------------------------------------------
(* startRecording() *)

AudioStartRecording(c, l) ==
    /\ audio.status = "idle"
    /\ c \notin endedCalls
    /\ Acquire("audio", l)
    /\ audio' =
         [audio EXCEPT
            !.lease = l, !.finalization = "none", !.pendingError = FALSE,
            !.start = [step |-> IF audio.recorder = "idle" THEN "createTrack"
                                                           ELSE "recover",
                       lease |-> l, conversation |-> c]]
    /\ UNCHANGED environmentVars

AudioAt(step) == audio.start.step = step
AudioGoto(step) == [audio EXCEPT !.start.step = step]

\* The catch block, up to its first await.
AudioStartFailed(a) ==
    IF a.recorder = "idle"
    THEN [a EXCEPT !.start.step = "unwindTrack", !.track = FALSE]
    ELSE [a EXCEPT !.start.step = "unwindRecorder"]

\* Seeded fault: the lease is forgotten but not released.
ForgetAudioStart(a) ==
    /\ audio' = [a EXCEPT !.start = NoAudioStart,
                          !.lease = IF @ = audio.start.lease THEN NoLease
                                                             ELSE @]
    /\ UNCHANGED coordinatorVars

\* The finally block of a start that did not succeed.
ReleaseAudioStart(a) ==
    /\ Release(audio.start.lease)
    /\ audio' = [a EXCEPT !.start = NoAudioStart,
                          !.lease = IF @ = audio.start.lease THEN NoLease
                                                             ELSE @]

StopOf(rec) == IF rec = "failed" THEN "failed" ELSE "idle"

\* A recorder left over from an earlier recording is stopped first; an error
\* of its stop() is ignored.  There is no track left to stop.
AudioRecover ==
    /\ AudioAt("recover")
    /\ audio' = [AudioGoto("createTrack") EXCEPT !.recorder = StopOf(@)]
    /\ UNCHANGED outsideVars

AudioTrackCreated ==
    /\ AudioAt("createTrack")
    /\ \/ audio' = IF audio.pendingError
                   THEN AudioStartFailed([audio EXCEPT !.track = TRUE])
                   ELSE [AudioGoto("createFile") EXCEPT !.track = TRUE]
       \/ /\ "createTrack" \in faults
          /\ audio' = AudioStartFailed(audio)
    /\ UNCHANGED outsideVars

AudioFileCreated ==
    /\ AudioAt("createFile")
    /\ \/ /\ OpenSession(audio.start.lease)
          /\ audio' = [AudioGoto("startRecorder") EXCEPT
                          !.session = audio.start.lease]
       \/ /\ "createFile" \in faults
          /\ audio' = AudioStartFailed(audio)
          /\ UNCHANGED fileVars
    /\ UNCHANGED <<coordinatorVars, endedCalls>>

AudioRecordingStarted ==
    [audio EXCEPT !.recorder = "running", !.status = "recording",
                  !.conversation = audio.start.conversation,
                  !.start = NoAudioStart]

\* recorder.start() throws when the recorder is still active and answers
\* false when the stream has no audio track.
AudioRecorderStarted ==
    /\ AudioAt("startRecorder")
    /\ \/ /\ audio.recorder = "idle"
          /\ audio' = IF audio.pendingError
                      THEN AudioStartFailed([audio EXCEPT
                                                !.recorder = "running"])
                      ELSE AudioRecordingStarted
       \/ /\ audio.recorder # "idle"
          /\ audio' = AudioStartFailed(audio)
       \/ /\ audio.recorder = "idle"
          /\ "refuseStreams" \in faults
          /\ audio' = AudioGoto("refusedAbort")
    /\ UNCHANGED outsideVars

AudioRefusedAbort ==
    /\ AudioAt("refusedAbort")
    /\ \/ /\ CloseSession(audio.session)
          /\ audio' = [AudioGoto("refusedTrack") EXCEPT !.session = NoLease,
                                                        !.track = FALSE]
       \/ /\ "abortFile" \in faults
          /\ audio' = AudioStartFailed(audio)
          /\ UNCHANGED fileVars
    /\ UNCHANGED <<coordinatorVars, endedCalls>>

\* When stopping the track throws, the catch block finds nothing to undo.
AudioRefusedTrack ==
    /\ AudioAt("refusedTrack")
    /\ ReleaseAudioStart(audio)
    /\ UNCHANGED environmentVars

AudioUnwindRecorder ==
    /\ AudioAt("unwindRecorder")
    /\ audio' = [AudioGoto("unwindTrack") EXCEPT !.recorder = StopOf(@),
                                                 !.track = FALSE]
    /\ UNCHANGED outsideVars

AudioUnwindTrack ==
    /\ AudioAt("unwindTrack")
    /\ \/ /\ audio.session # NoLease
          /\ audio' = AudioGoto("unwindAbort")
          /\ UNCHANGED coordinatorVars
       \/ /\ audio.session = NoLease \/ "stopTrack" \in faults
          /\ ReleaseAudioStart(audio)
    /\ UNCHANGED environmentVars

AudioUnwindAbort ==
    /\ AudioAt("unwindAbort")
    /\ \/ /\ CloseSession(audio.session)
          /\ ReleaseAudioStart([audio EXCEPT !.session = NoLease])
       \/ /\ "abortFile" \in faults
          /\ ReleaseAudioStart(audio)
          /\ UNCHANGED fileVars
    /\ UNCHANGED endedCalls

-------------------------------------------------------------------------------
(* pauseRecording() and resumeRecording() run to their end in one step.  A
   lease that cannot be paused makes the call fail; a recorder that cannot
   be paused makes it take the lease's pause back, which changes nothing. *)

AudioPause ==
    /\ audio.status = "recording"
    /\ audio.recorder = "running"
    /\ Pause(audio.lease)
    /\ audio' = [audio EXCEPT !.status = "paused", !.recorder = "paused"]
    /\ UNCHANGED environmentVars

\* Seeded fault: the recording resumes without its lease.
AudioResumeAlone ==
    /\ audio.status = "paused"
    /\ audio.recorder = "paused"
    /\ audio' = [audio EXCEPT !.status = "recording", !.recorder = "running"]
    /\ UNCHANGED <<coordinatorVars, environmentVars>>

AudioResume ==
    /\ audio.status = "paused"
    /\ audio.recorder = "paused"
    /\ Resume(audio.lease)
    /\ audio' = [audio EXCEPT !.status = "recording", !.recorder = "running"]
    /\ UNCHANGED environmentVars

-------------------------------------------------------------------------------
(* #finalizeRecording() *)

AudioStopAt(step) == audio.stop.step = step

\* The finally block of #finalizeRecording(), whether it returns or throws.
AudioSettled(outcome) ==
    [audio EXCEPT
       !.status = "idle", !.conversation = NoConversation,
       !.finalization = "settled",
       !.stop = [step |-> "settled", session |-> NoLease, outcome |-> outcome]]

\* Seeded fault: stop() of a failed recorder is never answered.
AudioRecorderNeverFails ==
    /\ AudioStopAt("stopRecorder")
    /\ audio.recorder # "failed"
    /\ audio' = [audio EXCEPT !.recorder = "idle", !.track = FALSE,
                              !.stop.step = "stopTrack", !.stop.outcome = "save"]
    /\ UNCHANGED outsideVars

\* The recorder has answered: with a take, with an empty one, or by throwing.
AudioRecorderStopped ==
    /\ AudioStopAt("stopRecorder")
    /\ \E take \in IF audio.recorder = "failed" THEN {"rejected"}
                                                ELSE {"save", "discard"} :
          audio' = [audio EXCEPT !.recorder = StopOf(@), !.track = FALSE,
                                 !.stop.step = "stopTrack",
                                 !.stop.outcome = take]
    /\ UNCHANGED outsideVars

\* An error of the recorder or of the track leaves the session open.
AudioTrackStopped ==
    /\ AudioStopAt("stopTrack")
    /\ \/ /\ audio.stop.outcome # "rejected"
          /\ audio' = [audio EXCEPT
                         !.session = NoLease,
                         !.stop.session = audio.session,
                         !.stop.step = IF audio.stop.outcome = "save"
                                       THEN "finalizeFile" ELSE "abortFile"]
       \/ /\ audio.stop.outcome = "rejected" \/ "stopTrack" \in faults
          /\ audio' = AudioSettled("rejected")
    /\ UNCHANGED outsideVars

\* A failed finalize leaves the session closed by the main process; the
\* service aborts it again.
AudioFileFinalized ==
    /\ AudioStopAt("finalizeFile")
    /\ \/ /\ PublishSession(audio.stop.session)
          /\ Transcribe(audio.stop.session)
          /\ audio' = AudioSettled("resolved")
       \/ /\ "finalizeFile" \in faults
          /\ CloseSession(audio.stop.session)
          /\ audio' = [audio EXCEPT !.stop.step = "abortFile"]
    /\ UNCHANGED <<coordinatorVars, endedCalls>>

AudioFileAborted ==
    /\ AudioStopAt("abortFile")
    /\ \/ /\ CloseSession(audio.stop.session)
          /\ audio' = AudioSettled("resolved")
       \/ /\ "abortFile" \in faults
          /\ audio' = AudioSettled("rejected")
          /\ UNCHANGED fileVars
    /\ UNCHANGED <<coordinatorVars, endedCalls>>

\* #finalizeFromCoordinator() and the coordinator resume after the promise.
AudioFinalizationDone ==
    /\ AudioStopAt("settled")
    /\ CompleteFinalization(audio.lease, audio.stop.outcome)
    /\ audio' = [audio EXCEPT !.lease = NoLease, !.stop = NoAudioStop]
    /\ UNCHANGED environmentVars

-------------------------------------------------------------------------------

\* Answers of the tap, the recorder and the main process.
AudioProceeds ==
    \/ AudioRecover \/ AudioTrackCreated \/ AudioFileCreated
    \/ AudioRecorderStarted \/ AudioRefusedAbort \/ AudioRefusedTrack
    \/ AudioUnwindRecorder \/ AudioUnwindTrack \/ AudioUnwindAbort
    \/ AudioRecorderStopped \/ AudioTrackStopped
    \/ AudioFileFinalized \/ AudioFileAborted \/ AudioFinalizationDone

AudioNext ==
    \/ \E c \in Conversations, l \in Leases : AudioStartRecording(c, l)
    \/ AudioUserStops \/ AudioPause \/ AudioResume
    \/ AudioTrackFails \/ RecorderFails
    \/ AudioProceeds
===============================================================================
