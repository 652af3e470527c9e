------------------------- MODULE VideoRecordingService -------------------------
(***************************************************************************)
(* VideoRecordingServiceCore (ts/minutes/videoRecordingServiceCore.std.ts) *)
(* and its wrapper (videoRecordingService.preload.ts): the recorder of the *)
(* shared screen.  Unlike the audio service it queues its own data, waits  *)
(* for the queues when it stops, and remembers a call that ends while a    *)
(* recording is starting.                                                  *)
(***************************************************************************)
EXTENDS CaptureEnvironment, Naturals

CONSTANT MaxQueued   \* chunks a queue holds before it exceeds its memory limit

ASSUME MaxQueuedAssumption == MaxQueued \in Nat \ {0}

VARIABLE video
(* The fields of the service:
     status        #state.status                 conversation  of #state
     lease         #captureLease                 session       #writerSession
     track, compositor  are they set and running?
     recorderStarted    #recorderStarted: the MediaRecorder runs
     pending       chunks and PCM blocks queued or being written; the drain
                   of a queue runs exactly while the queue is not empty
     writeError, fatalError    are they set?
     terminationKind  #terminationKind            finalized  #terminationPromise
     start         where startRecording() awaits; its step is "none" exactly
                   when the wrapper's #pendingStart is undefined
     endedDuringStart  of the wrapper
     stop          where #terminate() awaits, and its locals; conversation
                   is that of activeRecording, if it is set                 *)

NoVideoStart ==
    [step |-> "none", lease |-> NoLease, conversation |-> NoConversation]
NoVideoStop ==
    [step |-> "none", lease |-> NoLease, conversation |-> NoConversation,
     result |-> FALSE]

Queues == {"chunk", "pcm"}
EmptyQueues == [q \in Queues |-> 0]

VideoTypeOK ==
    video \in
      [status : {"idle", "starting", "recording", "paused", "finalizing",
                 "error"},
       conversation : Conversations \cup {NoConversation},
       lease : Leases \cup {NoLease},
       session : Leases \cup {NoLease},
       track : BOOLEAN,
       compositor : BOOLEAN,
       recorderStarted : BOOLEAN,
       pending : [Queues -> 0..MaxQueued],
       writeError : BOOLEAN,
       fatalError : BOOLEAN,
       terminationKind : {"none", "finalize", "abort"},
       start : [step : {"none", "createFile", "createTrack", "endedStop",
                        "unwindRecorder", "unwindTrack", "unwindAbort"},
                lease : Leases \cup {NoLease},
                conversation : Conversations \cup {NoConversation}],
       endedDuringStart : BOOLEAN,
       stop : [step : {"none", "stopRecorder", "stopTrack", "drain",
                       "finalizeFile", "abortFile", "cleanup", "settled"},
               lease : Leases \cup {NoLease},
               conversation : Conversations \cup {NoConversation},
               result : BOOLEAN]]

\* #resetForStart(); it is also the state of a new service.
FreshVideo(status, l) ==
    [status |-> status, conversation |-> NoConversation, lease |-> l,
     session |-> NoLease, track |-> FALSE, compositor |-> FALSE,
     recorderStarted |-> FALSE, pending |-> EmptyQueues,
     writeError |-> FALSE, fatalError |-> FALSE, terminationKind |-> "none",
     start |-> NoVideoStart, endedDuringStart |-> FALSE,
     stop |-> NoVideoStop]

VideoInit == video = FreshVideo("idle", NoLease)

videoOutside == <<coordinatorVars, environmentVars>>

-------------------------------------------------------------------------------
(* Termination: the user, a call that ended or a fatal error. *)

VideoStopStarts ==
    /\ video.status \in {"recording", "paused"}
    /\ video.lease # NoLease
    /\ StartsFinalization(video.lease)

\* Seeded fault: the recording is looked up in the state "finalizing", which
\* names none.
TerminatingOverwritten(v) ==
    [v EXCEPT !.status = "finalizing", !.conversation = NoConversation,
              !.terminationKind = IF @ = "none" THEN "finalize" ELSE @,
              !.stop = [step |-> "stopRecorder", lease |-> v.lease,
                        conversation |-> NoConversation, result |-> FALSE]]

\* #terminate() up to its first await; v holds the fields at its call.  The
\* recording is taken from the state before the state is overwritten.
Terminating(v) ==
    [v EXCEPT !.status = "finalizing", !.conversation = NoConversation,
              !.terminationKind = IF @ = "none" THEN "finalize" ELSE @,
              !.stop = [step |-> "stopRecorder", lease |-> v.lease,
                        conversation |->
                            IF v.status \in {"recording", "paused"}
                            THEN v.conversation ELSE NoConversation,
                        result |-> FALSE]]

VideoUserStops ==
    /\ VideoStopStarts
    /\ Finalize(video.lease)
    /\ video' = Terminating(video)
    /\ UNCHANGED environmentVars

\* #signalFatalError() on the fields v: while starting, and after the
\* recording is over, the error is only remembered.
SignalFatalError(v) ==
    LET failed == [v EXCEPT !.fatalError = TRUE, !.terminationKind = "abort"]
    IN  IF VideoStopStarts
        THEN Finalize(video.lease) /\ video' = Terminating(failed)
        ELSE video' = failed /\ UNCHANGED coordinatorVars

\* The tap, the compositor and the MediaRecorder report errors until they
\* are stopped or detached.
VideoSourceFails ==
    /\ \/ /\ "trackError" \in faults
          /\ video.track \/ video.start.step = "createTrack"
       \/ /\ "compositorError" \in faults
          /\ video.compositor
       \/ /\ "recorderError" \in faults
          /\ video.recorderStarted
    /\ SignalFatalError(video)
    /\ UNCHANGED environmentVars

\* onCallEnded() of the wrapper.
VideoEndsWithCall(c) == video.conversation = c /\ VideoStopStarts
\* Seeded fault: the wrapper does not remember the call.
VideoForgetsEndedCall(c, v) == v

VideoNotesEndedCall(c, v) ==
    [v EXCEPT !.endedDuringStart =
        @ \/ (v.start.step # "none" /\ v.start.conversation = c)]

-------------------------------------------------------------------------------
(* The write queues. *)

\* A MediaRecorder that is stopped hands over what it has before its events
\* are detached, also when a failed start is undone.
VideoProduces(q) ==
    \/ /\ q = "chunk"
       /\ video.recorderStarted
       /\ \/ video.status = "recording"
          \/ video.stop.step = "stopRecorder"
          \/ video.start.step = "unwindRecorder"
    \/ /\ q = "pcm"
       /\ video.track
       /\ video.status \in {"recording", "finalizing"}

\* #enqueueChunk() and #enqueuePcm()
VideoEnqueue(q) ==
    /\ VideoProduces(q)
    /\ video.session # NoLease
    /\ IF video.pending[q] = MaxQueued
       THEN SignalFatalError(video)
       ELSE /\ video' = [video EXCEPT !.pending[q] = @ + 1]
            /\ UNCHANGED coordinatorVars
    /\ UNCHANGED environmentVars

VideoAppendFailed(q) ==
    [video EXCEPT !.pending[q] = 0, !.writeError = TRUE]

\* Seeded fault: a failed append is swallowed.
VideoAppendedSilently(q) ==
    /\ video.pending[q] > 0
    /\ video' = [video EXCEPT !.pending[q] = @ - 1]
    /\ \/ video.session \in openSessions /\ UNCHANGED fileVars
       \/ CloseSession(video.session)
    /\ UNCHANGED <<coordinatorVars, endedCalls>>

\* One append of #drainChunks() or #drainPcm() is answered.  It fails when
\* the disk does, and when the session was closed before.
VideoAppended(q) ==
    /\ video.pending[q] > 0
    /\ \/ /\ video.session \in openSessions
          /\ video' = [video EXCEPT !.pending[q] = @ - 1]
          /\ UNCHANGED <<coordinatorVars, fileVars>>
       \/ /\ "appendFile" \in faults \/ video.session \notin openSessions
          /\ SignalFatalError(VideoAppendFailed(q))
          /\ CloseSession(video.session)
    /\ UNCHANGED endedCalls

-------------------------------------------------------------------------------
(* startRecording() *)

VideoStartRecording(c, l) ==
    /\ video.start.step = "none"
    /\ video.status \in {"idle", "error"}
    /\ c \notin endedCalls
    /\ Acquire("video", l)
    /\ video' = [FreshVideo("starting", l) EXCEPT
                   !.start = [step |-> "createFile", lease |-> l,
                              conversation |-> c]]
    /\ UNCHANGED environmentVars

VideoAt(step) == video.start.step = step

\* #unwindFailedStart() up to its first await.
VideoStartFailed(v) ==
    IF v.recorderStarted
    THEN [v EXCEPT !.start.step = "unwindRecorder"]
    ELSE [v EXCEPT !.start.step = "unwindTrack", !.track = FALSE,
                   !.compositor = FALSE]

\* The catch and finally blocks after #unwindFailedStart().
VideoStartError(v) ==
    /\ Release(video.start.lease)
    /\ video' = [v EXCEPT !.status = "error", !.start = NoVideoStart,
                          !.lease = IF @ = video.start.lease THEN NoLease
                                                             ELSE @]

VideoFileCreated ==
    /\ VideoAt("createFile")
    /\ \/ /\ OpenSession(video.start.lease)
          /\ video' = [video EXCEPT !.session = video.start.lease,
                                    !.start.step = "createTrack"]
       \/ /\ "createFile" \in faults
          /\ video' = VideoStartFailed(video)
          /\ UNCHANGED fileVars
    /\ UNCHANGED <<coordinatorVars, endedCalls>>

\* The wrapper returns to its caller at once, unless the call has ended
\* while the recording was starting.
VideoRecordingStarted ==
    [video EXCEPT !.track = TRUE, !.compositor = TRUE, !.recorderStarted = TRUE,
                  !.status = "recording",
                  !.conversation = video.start.conversation,
                  !.start = IF video.endedDuringStart
                            THEN [@ EXCEPT !.step = "endedStop"]
                            ELSE NoVideoStart]

\* From the track to the started MediaRecorder there is no await.
VideoTrackCreated ==
    /\ VideoAt("createTrack")
    /\ \/ video' = IF video.fatalError
                   THEN VideoStartFailed([video EXCEPT !.track = TRUE])
                   ELSE VideoRecordingStarted
       \/ /\ "createTrack" \in faults
          /\ video' = VideoStartFailed(video)
       \/ /\ "recorderError" \in faults
          /\ video' = VideoStartFailed([video EXCEPT !.track = TRUE,
                                                     !.compositor = TRUE])
       \/ /\ "compositorError" \in faults
          /\ video' = VideoStartFailed(
                        [video EXCEPT !.track = TRUE, !.compositor = TRUE,
                                      !.recorderStarted = TRUE,
                                      !.fatalError = TRUE])
    /\ UNCHANGED videoOutside

\* The wrapper stops a recording whose call ended during its start.
VideoEndedDuringStart ==
    /\ VideoAt("endedStop")
    /\ IF VideoStopStarts
       THEN /\ Finalize(video.lease)
            /\ video' = [Terminating(video) EXCEPT !.start = NoVideoStart]
       ELSE /\ video' = [video EXCEPT !.start = NoVideoStart]
            /\ UNCHANGED coordinatorVars
    /\ UNCHANGED environmentVars

VideoUnwindRecorder ==
    /\ VideoAt("unwindRecorder")
    /\ video' = VideoStartFailed([video EXCEPT !.recorderStarted = FALSE])
    /\ UNCHANGED videoOutside

\* Seeded fault: a failed start leaves its file open.
VideoUnwindWithoutAbort ==
    /\ VideoAt("unwindTrack")
    /\ VideoStartError(video)
    /\ UNCHANGED environmentVars

\* An error while stopping the track is ignored.
VideoUnwindTrack ==
    /\ VideoAt("unwindTrack")
    /\ IF video.session = NoLease
       THEN VideoStartError(video)
       ELSE /\ video' = [video EXCEPT !.start.step = "unwindAbort"]
            /\ UNCHANGED coordinatorVars
    /\ UNCHANGED environmentVars

VideoUnwindAbort ==
    /\ VideoAt("unwindAbort")
    /\ \/ CloseSession(video.session)
       \/ "abortFile" \in faults /\ UNCHANGED fileVars
    /\ VideoStartError(video)
    /\ UNCHANGED endedCalls

-------------------------------------------------------------------------------
(* pauseRecording() and resumeRecording(): an adapter that throws is fatal. *)

VideoPause ==
    /\ video.status = "recording"
    /\ Pause(video.lease)
    /\ video' = [video EXCEPT !.status = "paused"]
    /\ UNCHANGED environmentVars

VideoResume ==
    /\ video.status = "paused"
    /\ Resume(video.lease)
    /\ video' = [video EXCEPT !.status = "recording"]
    /\ UNCHANGED environmentVars

-------------------------------------------------------------------------------
(* #terminate() *)

VideoStopAt(step) == video.stop.step = step

\* The catch block: the error is remembered and the writer aborted.
TerminateFailed(v) ==
    [v EXCEPT !.fatalError = TRUE, !.stop.step = "abortFile"]

\* requestData() may have thrown; the MediaRecorder is stopped nevertheless.
VideoRecorderStopped ==
    /\ VideoStopAt("stopRecorder")
    /\ LET stopped == [video EXCEPT !.recorderStarted = FALSE]
       IN  \/ video' = [stopped EXCEPT !.track = FALSE,
                                       !.stop.step = "stopTrack"]
           \/ /\ "recorderError" \in faults
              /\ video' = TerminateFailed(stopped)
    /\ UNCHANGED videoOutside

VideoTrackStopped ==
    /\ VideoStopAt("stopTrack")
    /\ \/ video' = [video EXCEPT !.stop.step = "drain"]
       \/ /\ "stopTrack" \in faults
          /\ video' = TerminateFailed(video)
    /\ UNCHANGED videoOutside

VideoWillFinalize ==
    /\ video.terminationKind = "finalize"
    /\ ~video.fatalError
    /\ ~video.writeError

\* Seeded fault: the file is finalized over the queued writes.
VideoNotDrained ==
    /\ VideoStopAt("drain")
    /\ video' = [video EXCEPT !.stop.step = IF VideoWillFinalize
                                            THEN "finalizeFile"
                                            ELSE "abortFile"]
    /\ UNCHANGED videoOutside

\* #waitForPendingWrites(), then the choice between finalize and abort.
VideoDrained ==
    /\ VideoStopAt("drain")
    /\ video.pending = EmptyQueues
    /\ \/ video' = [video EXCEPT !.stop.step = IF VideoWillFinalize
                                               THEN "finalizeFile"
                                               ELSE "abortFile"]
       \/ /\ "speakerLog" \in faults
          /\ VideoWillFinalize
          /\ video' = TerminateFailed(video)
    /\ UNCHANGED videoOutside

\* The finally block up to its await: everything still running is stopped.
VideoCleanup(v) ==
    [v EXCEPT !.compositor = FALSE, !.track = FALSE, !.stop.step = "cleanup"]

VideoFileFinalized ==
    /\ VideoStopAt("finalizeFile")
    /\ \/ /\ PublishSession(video.session)
          /\ video' = VideoCleanup([video EXCEPT !.stop.result = TRUE])
       \/ /\ "finalizeFile" \in faults
          /\ CloseSession(video.session)
          /\ video' = TerminateFailed(video)
          /\ UNCHANGED savedFiles
    /\ UNCHANGED <<coordinatorVars, endedCalls, transcriptions>>

VideoFileAborted ==
    /\ VideoStopAt("abortFile")
    /\ \/ /\ CloseSession(video.session)
          /\ video' = VideoCleanup(video)
       \/ /\ "abortFile" \in faults
          /\ video' = VideoCleanup([video EXCEPT !.fatalError = TRUE])
          /\ UNCHANGED fileVars
    /\ UNCHANGED <<coordinatorVars, endedCalls>>

\* The rest of #terminate(): only a result without any error is announced, and
\* only with its metadata, which it has if the recording was found.
VideoCleanedUp ==
    /\ VideoStopAt("cleanup")
    /\ video' = [video EXCEPT !.lease = NoLease,
                              !.status = IF video.fatalError THEN "error"
                                                             ELSE "idle",
                              !.stop.step = "settled"]
    /\ IF /\ video.stop.result /\ ~video.fatalError
          /\ video.stop.conversation # NoConversation
       THEN Transcribe(video.session)
       ELSE UNCHANGED transcriptions
    /\ UNCHANGED <<coordinatorVars, endedCalls, openSessions, savedFiles>>

\* #terminateFromCoordinator() and the coordinator resume.
VideoFinalizationDone ==
    /\ VideoStopAt("settled")
    /\ CompleteFinalization(video.stop.lease, "resolved")
    /\ video' = [video EXCEPT !.stop = NoVideoStop]
    /\ UNCHANGED environmentVars

-------------------------------------------------------------------------------

\* Answers of the tap, the MediaRecorder and the main process.
VideoProceeds ==
    \/ VideoFileCreated \/ VideoTrackCreated \/ VideoEndedDuringStart
    \/ VideoUnwindRecorder \/ VideoUnwindTrack \/ VideoUnwindAbort
    \/ VideoRecorderStopped \/ VideoTrackStopped \/ VideoDrained
    \/ VideoFileFinalized \/ VideoFileAborted
    \/ VideoCleanedUp \/ VideoFinalizationDone

VideoNext ==
    \/ \E c \in Conversations, l \in Leases : VideoStartRecording(c, l)
    \/ VideoUserStops \/ VideoPause \/ VideoResume
    \/ VideoSourceFails
    \/ \E q \in Queues : VideoEnqueue(q)
    \/ \E q \in Queues : VideoAppended(q)
    \/ VideoProceeds
===============================================================================
