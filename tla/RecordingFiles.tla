----------------------------- MODULE RecordingFiles -----------------------------
(***************************************************************************)
(* The audio and the video recording channel in one main process           *)
(* (app/minutes_channel.main.ts:167-210): one window records through both, *)
(* one reaper deletes the old partial files of both, and one crash stops   *)
(* both.                                                                   *)
(***************************************************************************)
EXTENDS RecordingFileWriter, VideoRecordingFileWriter

vars == <<files, lifeVars, reapable, scenario, audioVars, videoVars>>

Init == FilesInit /\ AudioInit /\ VideoInit

\* A new window asks for the recovery before it can record.
OpenWindow ==
    /\ running /\ ~window
    /\ window' = TRUE
    /\ StartPass
    /\ UNCHANGED <<files, running, crashes, reapable, videoVars>>

StartApp ==
    /\ ~running
    /\ running' = TRUE /\ window' = TRUE
    /\ StartPass
    /\ ReaperStarts
    /\ UNCHANGED <<files, crashes, videoVars>>

\* "destroyed": cleanupOwner() of both writers aborts their sessions.
DestroyWindow ==
    /\ "window" \in scenario.faults
    /\ window
    /\ window' = FALSE
    /\ AudioOwnerDestroyed
    /\ VideoOwnerDestroyed
    /\ UNCHANGED <<files, running, crashes, reapable>>

\* The process is killed: only the files survive.
Crash ==
    /\ running /\ crashes < MaxCrashes
    /\ crashes' = crashes + 1
    /\ running' = FALSE /\ window' = FALSE
    /\ reapable' = {}
    /\ AudioKilled
    /\ VideoKilled
    /\ UNCHANGED files

\* No call is in progress: nobody has to record or to open another window.
Rest == AudioAtRest /\ VideosAtRest /\ UNCHANGED vars

Step ==
    \/ AudioStep /\ UNCHANGED videoVars
    \/ VideoStep /\ UNCHANGED audioVars
    \/ \E r \in Recordings \cup Videos, k \in Kinds :
          Reap(r, k) /\ UNCHANGED <<audioVars, videoVars>>
    \/ OpenWindow \/ StartApp \/ DestroyWindow \/ Crash

Next ==
    \/ Step /\ UNCHANGED scenario
    \/ Rest

Spec == Init /\ [][Next]_vars

-------------------------------------------------------------------------------

(* A recording under the final name of its MP3 or WebM has all that belongs
   to it, and no recording is handed on twice, neither by two recovery passes
   nor by a pass and a finalize()
   (minutes_call_recording_channel.main.ts:362-372, 569-571 and
   minutes_video_recording_channel.main.ts:285-292). *)
PublishedIsComplete ==
    AudioPublishedIsComplete /\ PublishedOnce /\ VideoPublishedIsComplete

(* What was recorded is never lost: sound and picture stay on disk under one
   of their two names through every failure, rollback, recovery, destroyed
   window and crash (minutes_call_recording_channel.main.ts:373-396 and
   minutes_video_recording_channel.main.ts:293-322). *)
RecordedIsKept == AudioIsKept /\ VideoIsKept

(* Both finalize() operations are all or nothing: ok with every file under
   its final name, an error with the partial files where they were
   (minutes_call_recording_channel.main.ts:317-398 and
   minutes_video_recording_channel.main.ts:249-330). *)
FinalizeIsAtomic == AudioFinalizeIsAtomic /\ VideoFinalizeIsAtomic

(* Files, sessions, handles and bounded write queues of both channels agree,
   also while abort(), finalize() and a failed append overlap, and a session
   that is aborted twice still knows its partial file
   (minutes_call_recording_channel.main.ts:255-313, 401-470 and
   minutes_video_recording_channel.main.ts:333-390). *)
WriterInv == FilesTypeOK /\ AudioWriterInv /\ VideoWriterInv
===============================================================================
