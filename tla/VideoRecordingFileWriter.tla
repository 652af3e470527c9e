------------------------ MODULE VideoRecordingFileWriter ------------------------
(***************************************************************************)
(* VideoRecordingFileWriter and its IPC channel                            *)
(* (app/minutes_video_recording_channel.main.ts).  A video is a WebM, a    *)
(* PCM, a metadata and a speaker activity file.  Nothing recovers a video  *)
(* that a crash has interrupted; what keeps it usable is the order of the  *)
(* renames and their rollback.                                             *)
(***************************************************************************)
EXTENDS RecordingFilesEnvironment

MAX_REMEMBERED_ABORTS == 32

\* Bound: the main process never has to forget an aborted session.
ASSUME VideosAssumption ==
    IsFiniteSet(Videos) /\ Cardinality(Videos) <= MAX_REMEMBERED_ABORTS

VARIABLES
    videoSessions,   \* #sessions
    video            \* the calls in progress on each video

videoVars == <<videoSessions, video>>
videoLife == <<lifeVars, reapable>>

(* The calls on one video:
     create    where create() awaits, or how it ended
     finalize  where finalize() awaits     answer     of its IPC handler
     abort     where abort() awaits        remembered in #abortedSessions?
     told      the answer to an abort the renderer asked for
     open      are the handles open?       owned      is its window alive?
     pending   appends not yet written     failed     has one of them failed?
     renamed   files finalize() has renamed                                *)
NoVideoCalls ==
    [create |-> "none", finalize |-> "none", answer |-> "none",
     abort |-> "none", remembered |-> FALSE, told |-> "none", open |-> FALSE,
     owned |-> TRUE, pending |-> 0, failed |-> FALSE, renamed |-> {}]

VideoTypeOK ==
    /\ videoSessions \subseteq Videos
    /\ video \in [Videos ->
         [create : {"none", "webm", "pcm", "done", "failed", "lost"},
          finalize : {"none", "drain", "sync", "metadata", "log", "close",
                      "publish", "announce", "undoPcm", "undoFinal",
                      "undoPartial", "done"},
          answer : {"none", "ok", "error", "rejected"},
          abort : {"none", "drain", "done"}, remembered : BOOLEAN,
          told : {"none", "path", "unknown"}, open : BOOLEAN, owned : BOOLEAN,
          pending : 0..MaxPending, failed : BOOLEAN, renamed : SUBSET Kinds]]

VideoInit ==
    /\ videoSessions = {}
    /\ video = [v \in Videos |-> NoVideoCalls]

SetVideo(v, calls) == video' = [video EXCEPT ![v] = calls]

-------------------------------------------------------------------------------
(* create() *)

VideoCreate(v) ==
    /\ window /\ running
    /\ v \in scenario.recordings
    /\ video[v].create = "none"
    /\ SetVideo(v, [video[v] EXCEPT !.create = "webm"])
    /\ UNCHANGED <<files, videoSessions, videoLife>>

VideoCreateWebm(v) ==
    /\ video[v].create = "webm"
    /\ \/ /\ AddFile(v, Partial("webm"))
          /\ SetVideo(v, [video[v] EXCEPT !.create = "pcm"])
       \/ /\ "disk" \in scenario.faults
          /\ SetVideo(v, [video[v] EXCEPT !.create = "failed"])
          /\ UNCHANGED files
    /\ UNCHANGED <<videoSessions, videoLife>>

\* A failure closes the WebM and leaves its empty partial file to the reaper.
VideoCreatePcm(v) ==
    /\ video[v].create = "pcm"
    /\ \/ /\ AddFile(v, Partial("pcm"))
          /\ videoSessions' = videoSessions \cup {v}
          /\ SetVideo(v, [video[v] EXCEPT !.create = "done", !.open = TRUE])
       \/ /\ "disk" \in scenario.faults
          /\ SetVideo(v, [video[v] EXCEPT !.create = "failed"])
          /\ UNCHANGED <<files, videoSessions>>
    /\ UNCHANGED videoLife

-------------------------------------------------------------------------------
(* append(), appendPcm() and abort() *)

\* Seeded fault: an aborted session is not remembered.
StartVideoAbortForgetful(v, calls) ==
    /\ videoSessions' = videoSessions \ {v}
    /\ SetVideo(v, IF v \in videoSessions THEN [calls EXCEPT !.abort = "drain"]
                                          ELSE calls)

\* abort() up to its first await; calls holds the calls on the video.
StartVideoAbort(v, calls) ==
    /\ videoSessions' = videoSessions \ {v}
    /\ SetVideo(v, IF v \in videoSessions
                   THEN [calls EXCEPT !.abort = "drain", !.remembered = TRUE]
                   ELSE calls)

\* The window still asks for something in the session of its video.
Recording(v) == v \in videoSessions /\ video[v].owned /\ video[v].finalize = "none"

\* Chunks and PCM are written one after the other in one queue.
VideoAppend(v) ==
    /\ Recording(v) /\ ~video[v].failed
    /\ IF video[v].pending = MaxPending
       THEN StartVideoAbort(v, video[v])
       ELSE /\ SetVideo(v, [video[v] EXCEPT !.pending = @ + 1])
            /\ UNCHANGED videoSessions
    /\ UNCHANGED <<files, videoLife>>

VideoWriteDone(v) ==
    /\ video[v].pending > 0
    /\ SetVideo(v, [video[v] EXCEPT !.pending = @ - 1])
    /\ UNCHANGED <<files, videoSessions, videoLife>>

\* All writes behind a failed one fail with it; their handlers abort.
VideoWriteFails(v) ==
    /\ "disk" \in scenario.faults
    /\ video[v].pending > 0
    /\ StartVideoAbort(v, [video[v] EXCEPT !.pending = 0, !.failed = TRUE])
    /\ UNCHANGED <<files, videoLife>>

\* The renderer gives up, before it has asked for the finalization or after
\* an answer that is not ok; the handlers may have aborted before.
VideoAbort(v) ==
    /\ video[v].create = "done" /\ video[v].owned /\ video[v].told = "none"
    /\ video[v].finalize = "none" \/ video[v].answer \in {"error", "rejected"}
    /\ StartVideoAbort(v,
         [video[v] EXCEPT !.told = IF v \in videoSessions \/ video[v].remembered
                                   THEN "path" ELSE "unknown"])
    /\ UNCHANGED <<files, videoLife>>

VideoAbortCloses(v) ==
    /\ video[v].abort = "drain"
    /\ video[v].pending = 0
    /\ SetVideo(v, [video[v] EXCEPT !.abort = "done", !.open = FALSE])
    /\ UNCHANGED <<files, videoSessions, videoLife>>

-------------------------------------------------------------------------------
(* finalize() *)

VideoAt(v, step) == video[v].finalize = step
VideoGoes(v, step) == SetVideo(v, [video[v] EXCEPT !.finalize = step])
VideoThrows(v) ==
    SetVideo(v, [video[v] EXCEPT !.finalize = "undoPcm", !.open = FALSE])

\* An invalid speaker log is refused and aborts the session.
VideoFinalize(v, validLog) ==
    /\ Recording(v)
    /\ IF validLog
       THEN VideoGoes(v, "drain") /\ UNCHANGED videoSessions
       ELSE StartVideoAbort(v, [video[v] EXCEPT !.finalize = "done",
                                                !.answer = "error"])
    /\ UNCHANGED <<files, videoLife>>

VideoDrained(v) ==
    /\ VideoAt(v, "drain")
    /\ video[v].pending = 0
    /\ IF video[v].failed THEN VideoThrows(v) ELSE VideoGoes(v, "sync")
    /\ UNCHANGED <<files, videoSessions, videoLife>>

\* An abort may have closed the handles in the meantime.
VideoSynced(v) ==
    /\ VideoAt(v, "sync")
    /\ \/ video[v].open /\ VideoGoes(v, "metadata")
       \/ ("disk" \in scenario.faults \/ ~video[v].open) /\ VideoThrows(v)
    /\ UNCHANGED <<files, videoSessions, videoLife>>

VideoWrites(v, step, k, next) ==
    /\ VideoAt(v, step)
    /\ \/ AddFile(v, Partial(k)) /\ VideoGoes(v, next)
       \/ "disk" \in scenario.faults /\ VideoThrows(v) /\ UNCHANGED files
    /\ UNCHANGED <<videoSessions, videoLife>>

VideoWritesMetadata(v) == VideoWrites(v, "metadata", "json", "log")
VideoWritesLog(v) == VideoWrites(v, "log", "log", "close")

\* close() of a handle that an abort has closed succeeds.
VideoCloses(v) ==
    /\ VideoAt(v, "close")
    /\ \/ SetVideo(v, [video[v] EXCEPT !.finalize = "publish", !.open = FALSE])
       \/ "disk" \in scenario.faults /\ VideoThrows(v)
    /\ UNCHANGED <<files, videoSessions, videoLife>>

\* Seeded fault: the WebM is renamed before the metadata.
VideoPublishOrderWebmEarly == <<"pcm", "log", "webm", "json">>

\* The order of the renames: the WebM comes last.
VideoPublishOrder == <<"pcm", "log", "json", "webm">>

\* The next rename succeeds or throws; the WebM ends the session.
VideoPublishes(v) ==
    LET k == VideoPublishOrder[Cardinality(video[v].renamed) + 1]
        last == video[v].renamed \cup {k} = {"webm", "pcm", "json", "log"}
    IN  /\ VideoAt(v, "publish")
        /\ \/ /\ Has(v, Partial(k))
              /\ Rename(v, k)
              /\ SetVideo(v, [video[v] EXCEPT
                     !.renamed = @ \cup {k},
                     !.finalize = IF last THEN "announce" ELSE "publish"])
              /\ videoSessions' = videoSessions \ (IF last THEN {v} ELSE {})
           \/ /\ "disk" \in scenario.faults \/ ~Has(v, Partial(k))
              /\ VideoThrows(v)
              /\ UNCHANGED <<files, videoSessions>>
        /\ UNCHANGED videoLife

\* onFinalized(): unlike in the audio channel its error is the answer.
VideoAnnounced(v) ==
    /\ VideoAt(v, "announce")
    /\ \E answer \in {"ok", "rejected"} :
          /\ answer = "rejected" => "announce" \in scenario.faults
          /\ SetVideo(v, [video[v] EXCEPT !.finalize = "done",
                                          !.answer = answer])
    /\ UNCHANGED <<files, videoSessions, videoLife>>

-------------------------------------------------------------------------------
(* The rollback of finalize(), whose own failures are ignored *)

\* Seeded fault: the PCM keeps its final name.
VideoUndoPcmForgotten(v) ==
    /\ VideoAt(v, "undoPcm")
    /\ VideoGoes(v, "undoFinal")
    /\ UNCHANGED <<files, videoSessions, videoLife>>

VideoUndoPcm(v) ==
    /\ VideoAt(v, "undoPcm")
    /\ VideoGoes(v, "undoFinal")
    /\ IF "pcm" \in video[v].renamed
       THEN RenameBack(v, "pcm") \/ (May({"undo"}) /\ UNCHANGED files)
       ELSE UNCHANGED files
    /\ UNCHANGED <<videoSessions, videoLife>>

\* Each of the removals may fail on its own.
VideoRemoves(v, names) ==
    \E removed \in SUBSET names :
        /\ removed # names => May({"undo"})
        /\ RemoveFiles(v, removed)

VideoUndoFinal(v) ==
    /\ VideoAt(v, "undoFinal")
    /\ VideoGoes(v, "undoPartial")
    /\ VideoRemoves(v, {Final(k) : k \in video[v].renamed \cap {"json", "log"}})
    /\ UNCHANGED <<videoSessions, videoLife>>

\* The IPC handler aborts the session and answers with the error.
VideoUndoPartial(v) ==
    /\ VideoAt(v, "undoPartial")
    /\ StartVideoAbort(v, [video[v] EXCEPT !.finalize = "done",
                                           !.answer = "error"])
    /\ VideoRemoves(v, {Partial("json"), Partial("log")})
    /\ UNCHANGED videoLife

-------------------------------------------------------------------------------
(* What the life of the window and of the process means to the videos *)

VideoOwnerDestroyed ==
    /\ video' = [v \in Videos |->
         LET calls == [video[v] EXCEPT !.owned = video[v].create = "none"]
         IN  IF v \in videoSessions
             THEN [calls EXCEPT !.abort = "drain", !.remembered = TRUE]
             ELSE calls]
    /\ videoSessions' = {}

VideoKilled ==
    /\ video' = [v \in Videos |->
         [NoVideoCalls EXCEPT !.create =
             CASE video[v].create \in {"webm", "pcm"} -> "failed"
               [] video[v].create = "done" -> "lost"
               [] OTHER -> video[v].create]]
    /\ videoSessions' = {}

VideoStep ==
    \E v \in Videos :
        \/ VideoCreate(v) \/ VideoAppend(v) \/ VideoAbort(v)
        \/ \E validLog \in BOOLEAN : VideoFinalize(v, validLog)
        \/ VideoCreateWebm(v) \/ VideoCreatePcm(v)
        \/ VideoWriteDone(v) \/ VideoWriteFails(v) \/ VideoAbortCloses(v)
        \/ VideoDrained(v) \/ VideoSynced(v)
        \/ VideoWritesMetadata(v) \/ VideoWritesLog(v)
        \/ VideoCloses(v) \/ VideoPublishes(v) \/ VideoAnnounced(v)
        \/ VideoUndoPcm(v) \/ VideoUndoFinal(v) \/ VideoUndoPartial(v)

\* No call on a video is in progress.
VideosAtRest ==
    \A v \in Videos :
        /\ video[v].create \in {"none", "done", "failed", "lost"}
        /\ video[v].finalize \in {"none", "done"}
        /\ video[v].abort \in {"none", "done"}
        /\ video[v].pending = 0

-------------------------------------------------------------------------------

(* A WebM under its final name always has its PCM, metadata and speaker log,
   whatever fails, whichever window is destroyed and whenever the process is
   killed: it is renamed last and never renamed back
   (minutes_video_recording_channel.main.ts:285-292). *)
VideoPublishedIsComplete ==
    \A v \in Videos :
        Has(v, Final("webm")) =>
            \A k \in {"pcm", "json", "log"} : Has(v, Final(k))

(* Once create() has answered, picture and sound of the video are on disk
   under one of their two names at any time; only the reaper deletes
   (minutes_video_recording_channel.main.ts:293-322). *)
VideoIsKept ==
    ~May({"old"}) =>
        \A v \in Videos, k \in {"webm", "pcm"} :
            video[v].create \in {"done", "lost"} =>
                Has(v, Partial(k)) \/ Has(v, Final(k))

(* finalize() is all or nothing: it answers ok or fails to announce the video
   when every file has its final name, and an error only after WebM and PCM
   are back under their partial names and nothing else is left, also when an
   abort of the destroyed window works on the same session
   (minutes_video_recording_channel.main.ts:249-330). *)
VideoFinalizeIsAtomic ==
    \A v \in Videos :
        /\ video[v].answer \in {"ok", "rejected"} =>
             files[v] = {Final(k) : k \in {"webm", "pcm", "json", "log"}}
        /\ video[v].answer = "error" /\ ~May({"undo", "old"}) =>
             files[v] = {Partial("webm"), Partial("pcm")}

(* Every video with open handles has somebody who will close them, and an
   abort the renderer asks for after the handlers have aborted is still
   answered with the path of the partial file, unless the video is published
   (minutes_video_recording_channel.main.ts:333-361, 375-390). *)
VideoWriterInv ==
    /\ VideoTypeOK
    /\ \A v \in Videos :
         /\ video[v].open =>
              \/ v \in videoSessions
              \/ video[v].abort = "drain"
              \/ video[v].finalize \notin {"none", "done"}
         /\ video[v].told = "unknown" => Has(v, Final("webm"))
===============================================================================
